----------------------------- MODULE WriterProofs -----------------------------
(***************************************************************************)
(* What saving and closing promise, for every document and any bounds: the *)
(* modified mark is honest and the window never closes over a change that  *)
(* the file does not hold.                                                 *)
(*                                                                         *)
(* Neither is inductive by itself.  That a successful save leaves no draft *)
(* behind needs FlushedFirst: every stage after the flush runs without drafts. *)
(* That nothing happens after the window has closed needs SlotShape: the   *)
(* storing is the last stage of a slot that no dialog overlaps.            *)
(*                                                                         *)
(* Then what the user is told: that a draft is never left in silence, and  *)
(* that the format shown is the one the engine has.  At the end, that a    *)
(* draft is given up only when the engine holds it and was read back; that *)
(* needs the types, because it needs what replace_paragraph_text() writes. *)
(***************************************************************************)
EXTENDS Writer, QueueProofs, TLAPS

\* Every stage after the flush runs without drafts.
FlushedFirst == todo # <<>> /\ Head(todo).stage # "flush" => DOMAIN drafts = {}

\* The rest of saveAs() once the drafts are written.
Storing == <<Then("store")>>

Stores(slot) == \E i \in DOMAIN slot : slot[i].stage = "store"

StagesOf(slot) == {slot[i] : i \in DOMAIN slot}

\* A slot that stores is saveAs(), and no dialog is open meanwhile.
SlotShape ==
    /\ todo \in Seq(StagesOf(todo))
    /\ Stores(todo) => todo \in {Saving, Storing} /\ dialog = "none"

\* Nothing runs once the window has been closed.
ClosedIsQuiet == window # "open" => todo = <<>> /\ dialog = "none"

SaveInv == NothingUnsaved /\ CloseLosesNothing /\ FlushedFirst /\ SlotShape /\ ClosedIsQuiet

-----------------------------------------------------------------------------
(* Slots *)

LEMMA SlotOfStages ==
  ASSUME NEW S, NEW slot \in Seq(S)
  PROVE  slot \in Seq(StagesOf(slot))
  BY LenProperties DEF StagesOf

\* What is left of a slot is a slot, and its stages are stages of that slot.
LEMMA TailOfSlot ==
  ASSUME NEW slot, slot \in Seq(StagesOf(slot)), slot # <<>>
  PROVE  /\ Tail(slot) \in Seq(StagesOf(Tail(slot)))
         /\ Stores(Tail(slot)) => Stores(slot)
  <1> DEFINE S == StagesOf(slot)
  <1>1. /\ Tail(slot) \in Seq(S) /\ Len(slot) \in Nat /\ Len(slot) # 0
        /\ DOMAIN slot = 1..Len(slot)
        /\ Len(Tail(slot)) = Len(slot) - 1
        /\ \A i \in 1..Len(Tail(slot)) : Tail(slot)[i] = slot[i + 1]
    BY HeadTailProperties, LenProperties, EmptySeq
  <1>2. DOMAIN Tail(slot) = 1..Len(Tail(slot)) /\ Len(Tail(slot)) \in Nat
    BY <1>1, LenProperties
  <1>3. Tail(slot) \in Seq(StagesOf(Tail(slot)))
    BY <1>1, SlotOfStages
  <1>4. \A i \in DOMAIN Tail(slot) : i + 1 \in DOMAIN slot /\ Tail(slot)[i] = slot[i + 1]
    BY <1>1, <1>2
  <1> QED
    BY <1>3, <1>4 DEF Stores
\* The slots of the editing commands: a flush and up to three stages more.
LEMMA EditingSlot ==
  ASSUME NEW a, NEW b, NEW c, {a.stage, b.stage, c.stage} \cap {"store"} = {},
         NEW slot \in {<<Flushed>>, <<Flushed, a>>, <<Flushed, a, b>>, <<Flushed, a, b, c>>}
  PROVE  /\ slot # <<>> /\ Head(slot).stage = "flush"
         /\ slot \in Seq(StagesOf(slot)) /\ ~Stores(slot)
  <1> DEFINE Good(s) == /\ s # <<>> /\ Head(s).stage = "flush"
                        /\ s \in Seq(StagesOf(s)) /\ ~Stores(s)
  <1>1. Flushed.stage = "flush" /\ a.stage # "store" /\ b.stage # "store" /\ c.stage # "store"
    BY DEF Flushed
  <1>2. Good(<<Flushed>>)
    BY <1>1 DEF StagesOf, Stores
  <1>3. Good(<<Flushed, a>>)
    BY <1>1 DEF StagesOf, Stores
  <1>4. Good(<<Flushed, a, b>>)
    BY <1>1 DEF StagesOf, Stores
  <1>5. Good(<<Flushed, a, b, c>>)
    BY <1>1 DEF StagesOf, Stores
  <1> QED
    BY <1>2, <1>3, <1>4, <1>5

-----------------------------------------------------------------------------
(* The invariant *)

LEMMA InitSave == Init => SaveInv
  <1> SUFFICES ASSUME Init PROVE SaveInv
    OBVIOUS
  <1>1. todo = <<>> /\ DOMAIN drafts = {}
    BY DEF Init
  <1>2. SlotShape
    BY <1>1 DEF SlotShape, Stores, StagesOf
  <1> QED
    BY <1>1, <1>2 DEF Init, SaveInv, NothingUnsaved, CloseLosesNothing, FlushedFirst, ClosedIsQuiet

\* The document is open and its content stays as it is.
Untouched ==
    /\ UNCHANGED <<engine, disk, drafts, modified, window, dialog>>
    /\ window = "open"

\* What an editing command starts keeps the invariant.
LEMMA StartedSlot ==
  ASSUME SaveInv, Untouched,
         NEW a, NEW b, NEW c, {a.stage, b.stage, c.stage} \cap {"store"} = {},
         todo' \in {<<Flushed>>, <<Flushed, a>>, <<Flushed, a, b>>, <<Flushed, a, b, c>>}
  PROVE  SaveInv'
  <1>1. /\ todo' # <<>> /\ Head(todo').stage = "flush"
        /\ todo' \in Seq(StagesOf(todo')) /\ ~Stores(todo')
    BY EditingSlot
  <1> QED
    BY <1>1 DEF Untouched, SaveInv, NothingUnsaved, CloseLosesNothing, FlushedFirst, SlotShape,
                ClosedIsQuiet

\* A slot that goes on to its next stage.
LEMMA AdvancedSlot ==
  ASSUME SlotShape, todo # <<>>, todo' = Tail(todo), UNCHANGED dialog
  PROVE  SlotShape'
  <1>1. todo' \in Seq(StagesOf(todo')) /\ (Stores(todo') => Stores(todo))
    BY TailOfSlot DEF SlotShape
  <1>2. todo = Saving => todo' = Storing
    BY DEF Saving, Storing, Flushed, Then
  <1>3. todo = Storing => ~Stores(todo')
    BY DEF Storing, Stores
  <1> QED
    BY <1>1, <1>2, <1>3 DEF SlotShape

\* A slot that ends with False leaves nothing to run.
LEMMA AbandonedSlot ==
  ASSUME SlotShape, Abandon
  PROVE  SlotShape' /\ todo' = <<>> /\ UNCHANGED <<dialog, window>>
  BY DEF SlotShape, Abandon, Stores, StagesOf

\* The editing commands.
LEMMA CommandSaves ==
  ASSUME SaveInv, \/ SplitParagraph \/ MergeParagraph \/ AppendParagraph \/ ApplyStyle
                  \/ ApplyFormat \/ SelectParagraph \/ ExportPdf
  PROVE  SaveInv'
  <1>1. ASSUME NEW stages, Slot(stages) PROVE Untouched /\ todo' = stages
    BY <1>1 DEF Slot, Ready, Untouched, qml
  <1> USE DEF Do, Move, Then
  <1>2. CASE SplitParagraph
    <2>1. PICK command, row : Slot(<<Flushed, Do(command), Move(row, FALSE)>>)
      BY <1>2 DEF SplitParagraph
    <2> QED
      BY <1>1, <2>1, StartedSlot
  <1>3. CASE MergeParagraph
    <2>1. PICK command, row : Slot(<<Flushed, Do(command), Move(row, FALSE)>>)
      BY <1>3 DEF MergeParagraph
    <2> QED
      BY <1>1, <2>1, StartedSlot
  <1>4. CASE AppendParagraph \/ ApplyStyle
    <2>1. PICK command : Slot(<<Flushed, Do(command)>>)
      BY <1>4 DEF AppendParagraph, ApplyStyle
    <2> QED
      BY <1>1, <2>1, StartedSlot
  <1>5. CASE ApplyFormat
    <2>1. PICK command :
             Slot(IF HasSelection
                  THEN <<Flushed, Then("format"), Do(command), Then("format")>>
                  ELSE <<Flushed, Do(command), Then("format")>>)
      BY <1>5 DEF ApplyFormat
    <2>2. CASE HasSelection
      BY <1>1, <2>1, <2>2, StartedSlot
    <2>3. CASE ~HasSelection
      BY <1>1, <2>1, <2>3, StartedSlot
    <2> QED
      BY <2>2, <2>3
  <1>6. CASE SelectParagraph
    <2>1. PICK row : Slot(<<Flushed, Move(row, TRUE)>>)
      BY <1>6 DEF SelectParagraph
    <2> QED
      BY <1>1, <2>1, StartedSlot
  <1>7. CASE ExportPdf
    BY <1>1, <1>7, StartedSlot DEF ExportPdf
  <1> QED
    BY <1>2, <1>3, <1>4, <1>5, <1>6, <1>7

LEMMA QueueTextSaves ==
  ASSUME SaveInv, NEW text, QueueText(text)
  PROVE  SaveInv'
  BY DEF SaveInv, NothingUnsaved, CloseLosesNothing, FlushedFirst, SlotShape, ClosedIsQuiet, Stores,
         StagesOf, QueueText, Forget, Ready, qml

LEMMA SetTextSelectionSaves ==
  ASSUME SaveInv, SetTextSelection
  PROVE  SaveInv'
  BY DEF SaveInv, NothingUnsaved, CloseLosesNothing, FlushedFirst, SlotShape, ClosedIsQuiet, Stores,
         StagesOf, SetTextSelection, Ready, qml

LEMMA TimerSaves ==
  ASSUME SaveInv, TimerFires
  PROVE  SaveInv'
  <1>1. Untouched
    BY DEF TimerFires, Untouched, qml
  <1>2. CASE todo' = <<>>
    BY <1>1, <1>2 DEF Untouched, SaveInv, NothingUnsaved, CloseLosesNothing, FlushedFirst,
                      SlotShape, ClosedIsQuiet, Stores, StagesOf
  <1>3. CASE todo' = <<Flushed>>
    <2>1. Then("format").stage # "store"
      BY DEF Then
    <2> QED
      BY <1>1, <1>3, <2>1, StartedSlot
  <1>4. CASE todo' = <<Flushed, Then("format")>>
    <2>1. Then("format").stage # "store"
      BY DEF Then
    <2> QED
      BY <1>1, <1>4, <2>1, StartedSlot
  <1> QED
    BY <1>2, <1>3, <1>4 DEF TimerFires

\* Saving starts without an open dialog; a dialog that opens starts nothing.
LEMMA SavingSlot ==
  /\ Saving \in Seq(StagesOf(Saving)) /\ Saving # <<>> /\ Head(Saving).stage = "flush"
  /\ ~Stores(<<>>) /\ <<>> \in Seq(StagesOf(<<>>))
  BY DEF Saving, Flushed, Then, StagesOf, Stores

LEMMA SaveSaves ==
  ASSUME SaveInv, NEW close, Save(close), todo = <<>>, window = "open"
  PROVE  SaveInv'
  <1>1. UNCHANGED <<engine, disk, drafts, modified, window>>
    BY DEF Save, model
  <1>2. CASE named
    <2>1. todo' = Saving /\ dialog' = "none"
      BY <1>2 DEF Save
    <2> QED
      BY <1>1, <2>1, SavingSlot DEF SaveInv, NothingUnsaved, CloseLosesNothing, FlushedFirst,
                                    SlotShape, ClosedIsQuiet
  <1>3. CASE ~named
    <2>1. todo' = <<>>
      BY <1>3 DEF Save
    <2> QED
      BY <1>1, <2>1, SavingSlot DEF SaveInv, NothingUnsaved, CloseLosesNothing, FlushedFirst,
                                    SlotShape, ClosedIsQuiet
  <1> QED
    BY <1>2, <1>3

LEMMA FileDialogSaves ==
  ASSUME SaveInv, FileDialog
  PROVE  SaveInv'
  <1>1. /\ UNCHANGED <<engine, disk, drafts, modified, window>>
        /\ dialog' = "none" /\ todo' \in {Saving, <<>>} /\ window = "open"
    BY DEF FileDialog, model, SaveInv, ClosedIsQuiet
  <1> QED
    BY <1>1, SavingSlot DEF SaveInv, NothingUnsaved, CloseLosesNothing, FlushedFirst, SlotShape,
                            ClosedIsQuiet

\* The unmodified window closes; so does one whose changes are given up.
LEMMA ClosingSaves ==
  ASSUME SaveInv, SaveAs \/ CloseWindow \/ UnsavedDialog
  PROVE  SaveInv'
  <1>1. CASE SaveAs \/ CloseWindow
    <2>1. UNCHANGED <<engine, disk, drafts, modified, todo>> /\ todo = <<>> /\ dialog = "none"
      BY <1>1 DEF SaveAs, CloseWindow, Ready, model
    <2>2. window' = window \/ (window' = "closed" /\ ~modified /\ dialog' = "none")
      BY <1>1, <2>1 DEF SaveAs, CloseWindow
    <2>3. window = "open"
      BY <1>1 DEF SaveAs, CloseWindow, Ready
    <2> QED
      BY <2>1, <2>2, <2>3, SavingSlot DEF SaveInv, NothingUnsaved, CloseLosesNothing, FlushedFirst,
                                          SlotShape, ClosedIsQuiet
  <1>2. CASE UnsavedDialog
    <2>1. todo = <<>> /\ window = "open"
      BY <1>2 DEF UnsavedDialog, SaveInv, ClosedIsQuiet
    <2>2. CASE Save(TRUE)
      BY <2>1, <2>2, SaveSaves
    <2>3. CASE ~Save(TRUE)
      <3>1. /\ UNCHANGED <<engine, disk, drafts, modified, todo>>
            /\ dialog' = "none" /\ window' \in {"discarded", "open"}
        BY <1>2, <2>3 DEF UnsavedDialog, model
      <3> QED
        BY <2>1, <3>1, SavingSlot DEF SaveInv, NothingUnsaved, CloseLosesNothing, FlushedFirst,
                                      SlotShape, ClosedIsQuiet
    <2> QED
      BY <2>2, <2>3
  <1> QED
    BY <1>1, <1>2

-----------------------------------------------------------------------------
(* The stages of a slot *)

\* A stage of a running slot finds the window open.
LEMMA RunningSlot == ASSUME SaveInv, todo # <<>> PROVE window = "open"
  BY DEF SaveInv, ClosedIsQuiet

\* The stages that write drafts: there is one, so the document is modified.
LEMMA FlushSaves ==
  ASSUME SaveInv, FlushEnds \/ FlushRefused \/ FlushWrite \/ FlushFails
  PROVE  SaveInv'
  <1>1. todo # <<>> /\ window = "open" /\ SlotShape
    BY RunningSlot DEF FlushEnds, FlushRefused, FlushWrite, FlushFails, Stage, SaveInv
  <1>2. CASE FlushEnds
    <2>1. /\ UNCHANGED <<engine, disk, drafts, modified, window, dialog>>
          /\ todo' = Tail(todo) /\ DOMAIN drafts = {}
      BY <1>2 DEF FlushEnds, qml
    <2> QED
      BY <1>1, <2>1, AdvancedSlot DEF SaveInv, NothingUnsaved, CloseLosesNothing, FlushedFirst,
                                      ClosedIsQuiet
  <1>3. CASE FlushRefused \/ FlushWrite \/ FlushFails
    <2>1. DOMAIN drafts # {} /\ modified /\ UNCHANGED modified
      BY <1>3 DEF FlushRefused, FlushWrite, FlushFails, SaveInv, NothingUnsaved
    <2>2. Abandon \/ (UNCHANGED <<todo, qml>> /\ Head(todo).stage = "flush")
      BY <1>3 DEF FlushRefused, FlushWrite, FlushFails, Stage
    <2>3. CASE Abandon
      BY <1>1, <2>1, <2>3, AbandonedSlot DEF SaveInv, NothingUnsaved, CloseLosesNothing,
                                             FlushedFirst, ClosedIsQuiet
    <2>4. CASE UNCHANGED <<todo, qml>> /\ Head(todo).stage = "flush"
      <3>1. SlotShape'
        BY <1>1, <2>4 DEF SlotShape, Stores, StagesOf, qml
      <3> QED
        BY <1>1, <2>1, <2>4, <3>1 DEF SaveInv, NothingUnsaved, CloseLosesNothing, FlushedFirst,
                                      ClosedIsQuiet, qml
    <2> QED
      BY <2>2, <2>3, <2>4
  <1> QED
    BY <1>2, <1>3

\* A command marks the document before it touches it.
LEMMA EditSaves ==
  ASSUME SaveInv, Edit \/ EditFails
  PROVE  SaveInv'
  <1>1. /\ todo # <<>> /\ window = "open" /\ SlotShape /\ DOMAIN drafts = {}
        /\ modified' = TRUE /\ UNCHANGED drafts
    BY RunningSlot DEF Edit, EditFails, Stage, SaveInv, FlushedFirst
  <1>2. Abandon \/ (todo' = Tail(todo) /\ UNCHANGED <<dialog, window>>)
    BY DEF Edit, EditFails, qml
  <1>3. SlotShape' /\ UNCHANGED <<dialog, window>>
    BY <1>1, <1>2, AdvancedSlot, AbandonedSlot
  <1> QED
    BY <1>1, <1>3 DEF SaveInv, NothingUnsaved, CloseLosesNothing, FlushedFirst, ClosedIsQuiet

\* These stages leave document, file and drafts as they are.
LEMMA ReadingSaves ==
  ASSUME SaveInv, Goto \/ ReadFormat \/ Export
  PROVE  SaveInv'
  <1>1. /\ todo # <<>> /\ window = "open" /\ SlotShape /\ DOMAIN drafts = {}
        /\ UNCHANGED <<engine, disk, drafts, modified>>
    BY RunningSlot DEF Goto, ReadFormat, Export, Stage, SaveInv, FlushedFirst
  <1>2. Abandon \/ (todo' = Tail(todo) /\ UNCHANGED <<dialog, window>>)
    BY DEF Goto, ReadFormat, Export, qml
  <1>3. SlotShape' /\ UNCHANGED <<dialog, window>>
    BY <1>1, <1>2, AdvancedSlot, AbandonedSlot
  <1> QED
    BY <1>1, <1>3 DEF SaveInv, NothingUnsaved, CloseLosesNothing, FlushedFirst, ClosedIsQuiet

\* The mark is taken back, and the window closed, with the file written.
LEMMA StoreSaves ==
  ASSUME SaveInv, Store
  PROVE  SaveInv'
  <1>1. /\ todo # <<>> /\ window = "open" /\ SlotShape /\ DOMAIN drafts = {}
        /\ disk' = engine' /\ UNCHANGED <<drafts, dialog>> /\ todo' = Tail(todo)
    BY RunningSlot DEF Store, Stage, SaveInv, FlushedFirst
  <1>2. Stores(todo)
    <2>1. todo \in Seq(StagesOf(todo)) /\ Head(todo).stage = "store"
      BY DEF SaveInv, SlotShape, Store, Stage
    <2>2. 1 \in DOMAIN todo /\ Head(todo) = todo[1]
      BY <1>1, <2>1, LenProperties, EmptySeq
    <2> QED
      BY <2>1, <2>2 DEF Stores
  <1>3. todo = Storing /\ dialog = "none"
    <2>1. Head(Saving).stage # "store"
      BY DEF Saving, Flushed
    <2> QED
      BY <1>1, <1>2, <2>1 DEF SlotShape, Store, Stage
  <1>4. todo' = <<>>
    BY <1>1, <1>3 DEF Storing
  <1>5. SlotShape'
    BY <1>1, AdvancedSlot
  <1> QED
    BY <1>1, <1>3, <1>4, <1>5 DEF SaveInv, NothingUnsaved, CloseLosesNothing, FlushedFirst,
                                  ClosedIsQuiet

\* A failed save leaves the mark, whether or not the file was written.
LEMMA StoreFailsSaves ==
  ASSUME SaveInv, StoreFails
  PROVE  SaveInv'
  <1>1. /\ todo # <<>> /\ window = "open" /\ SlotShape /\ DOMAIN drafts = {}
        /\ UNCHANGED <<engine, drafts, modified>> /\ disk' \in {engine, disk} /\ Abandon
    BY RunningSlot DEF StoreFails, Stage, SaveInv, FlushedFirst
  <1>2. SlotShape' /\ todo' = <<>> /\ UNCHANGED <<dialog, window>>
    BY <1>1, AbandonedSlot
  <1> QED
    BY <1>1, <1>2 DEF SaveInv, NothingUnsaved, CloseLosesNothing, FlushedFirst, ClosedIsQuiet

-----------------------------------------------------------------------------
(* The theorems *)

LEMMA NextSaves == ASSUME SaveInv, [Next]_vars PROVE SaveInv'
  <1>1. CASE UNCHANGED vars
    BY <1>1 DEF vars, model, qml, SaveInv, NothingUnsaved, CloseLosesNothing, FlushedFirst,
                SlotShape, ClosedIsQuiet, Stores, StagesOf
  <1>2. CASE User
    BY <1>2, QueueTextSaves, CommandSaves, SetTextSelectionSaves, SaveSaves, FileDialogSaves,
       ClosingSaves DEF User, SaveDocument, Ready
  <1>3. CASE TimerFires
    BY <1>3, TimerSaves
  <1>4. CASE StageStep
    BY <1>4, FlushSaves, EditSaves, ReadingSaves, StoreSaves, StoreFailsSaves DEF StageStep
  <1> QED
    BY <1>1, <1>2, <1>3, <1>4 DEF Next

\* For every document, and whatever fails: a file that is marked as saved was
\* written by the last stage of a slot that found no drafts (flush, then store).
THEOREM SaveInvariant == Spec => []SaveInv
  BY InitSave, NextSaves, PTL DEF Spec

\* For every document, and whatever fails: while the title shows no asterisk,
\* the file holds all that was typed and applied (_modified).
THEOREM ModifiedIsHonest == Spec => []NothingUnsaved
  <1>1. SaveInv => NothingUnsaved
    BY DEF SaveInv
  <1> QED
    BY <1>1, SaveInvariant, PTL

\* For every document, and whatever fails: the window closes without losing a
\* change, unless the user chose not to save (onClosing, saved).
THEOREM ClosingIsSafe == Spec => []CloseLosesNothing
  <1>1. SaveInv => CloseLosesNothing
    BY DEF SaveInv
  <1> QED
    BY <1>1, SaveInvariant, PTL

-----------------------------------------------------------------------------
(* What the user is told *)

\* The steps that neither start a slot nor run one.
LEMMA TimerTells ==
  ASSUME DraftIsTold, TimerFires
  PROVE  DraftIsTold'
  <1>1. CASE todo' = <<>>
    BY <1>1 DEF DraftIsTold, TimerFires
  <1>2. CASE todo' = <<Flushed>>
    BY <1>2 DEF DraftIsTold, Flushed
  <1>3. CASE todo' = <<Flushed, Then("format")>>
    BY <1>3 DEF DraftIsTold, Flushed
  <1> QED
    BY <1>1, <1>2, <1>3 DEF TimerFires

\* A command starts with the flush; what it has to say comes later.
LEMMA SlotTells ==
  ASSUME NEW stages, Slot(stages), stages # <<>>, Head(stages).stage = "flush"
  PROVE  DraftIsTold'
  BY DEF Slot, DraftIsTold

LEMMA CommandTells ==
  ASSUME \/ SplitParagraph \/ MergeParagraph \/ AppendParagraph \/ ApplyStyle
         \/ ApplyFormat \/ SelectParagraph \/ ExportPdf
  PROVE  \E stages : Slot(stages) /\ stages # <<>> /\ Head(stages).stage = "flush"
  <1> DEFINE FlushLeads(stages) == stages # <<>> /\ Head(stages).stage = "flush"
  <1>1. ASSUME NEW a, NEW b, NEW c
        PROVE  /\ FlushLeads(<<Flushed, a>>) /\ FlushLeads(<<Flushed, a, b>>)
               /\ FlushLeads(<<Flushed, a, b, c>>)
    BY DEF Flushed
  <1>2. CASE SplitParagraph
    <2>1. PICK a, b : Slot(<<Flushed, a, b>>)
      BY <1>2 DEF SplitParagraph
    <2> QED
      BY <1>1, <2>1
  <1>3. CASE MergeParagraph
    <2>1. PICK a, b : Slot(<<Flushed, a, b>>)
      BY <1>3 DEF MergeParagraph
    <2> QED
      BY <1>1, <2>1
  <1>4. CASE AppendParagraph \/ ApplyStyle \/ SelectParagraph \/ ExportPdf
    <2>1. PICK a : Slot(<<Flushed, a>>)
      BY <1>4 DEF AppendParagraph, ApplyStyle, SelectParagraph, ExportPdf
    <2> QED
      BY <1>1, <2>1
  <1>5. CASE ApplyFormat
    <2>1. PICK command :
             Slot(IF HasSelection
                  THEN <<Flushed, Then("format"), Do(command), Then("format")>>
                  ELSE <<Flushed, Do(command), Then("format")>>)
      BY <1>5 DEF ApplyFormat
    <2>2. CASE HasSelection
      BY <1>1, <2>1, <2>2
    <2>3. CASE ~HasSelection
      BY <1>1, <2>1, <2>3
    <2> QED
      BY <2>2, <2>3
  <1> QED
    BY <1>2, <1>3, <1>4, <1>5

\* Of the stages only the flush finds drafts, and it ends with an error or goes on.
LEMMA StageTells ==
  ASSUME FlushedFirst, StageStep
  PROVE  DraftIsTold'
  <1>1. CASE FlushEnds \/ FlushRefused \/ FlushWrite \/ FlushFails
    BY <1>1 DEF DraftIsTold, FlushEnds, FlushRefused, FlushWrite, FlushFails, Abandon, Stage
  <1>2. CASE Edit \/ EditFails \/ Goto \/ ReadFormat \/ Store \/ StoreFails \/ Export
    BY <1>2 DEF DraftIsTold, FlushedFirst, Stage, Edit, EditFails, Goto, ReadFormat, Store,
                StoreFails, Export
  <1> QED
    BY <1>1, <1>2 DEF StageStep

\* The dialogs leave drafts, timer and status alone, or start saveAs().
LEMMA DialogTells ==
  ASSUME DraftIsTold, UNCHANGED model, todo' \in {todo, Saving}
  PROVE  DraftIsTold'
  <1>1. Saving # <<>> /\ Head(Saving).stage = "flush"
    BY SavingSlot
  <1> QED
    BY <1>1 DEF DraftIsTold, model

LEMMA NextTells == ASSUME SaveInv, DraftIsTold, [Next]_vars PROVE DraftIsTold'
  <1>1. CASE UNCHANGED vars
    BY <1>1 DEF vars, model, DraftIsTold
  <1>2. CASE User
    <2>1. CASE \E text \in Texts : QueueText(text)
      BY <2>1 DEF QueueText, DraftIsTold
    <2>2. CASE \/ SplitParagraph \/ MergeParagraph \/ AppendParagraph \/ ApplyStyle
               \/ ApplyFormat \/ SelectParagraph \/ ExportPdf
      BY <2>2, CommandTells, SlotTells
    <2>3. CASE SetTextSelection
      BY <2>3 DEF SetTextSelection, DraftIsTold
    <2>4. CASE SaveDocument \/ SaveAs \/ FileDialog \/ CloseWindow \/ UnsavedDialog
      <3>1. UNCHANGED model /\ todo' \in {todo, Saving}
        BY <2>4 DEF SaveDocument, SaveAs, FileDialog, CloseWindow, UnsavedDialog, Save
      <3> QED
        BY <3>1, DialogTells
    <2> QED
      BY <1>2, <2>1, <2>2, <2>3, <2>4 DEF User
  <1>3. CASE TimerFires
    BY <1>3, TimerTells
  <1>4. CASE StageStep
    BY <1>4, StageTells DEF SaveInv
  <1> QED
    BY <1>1, <1>2, <1>3, <1>4 DEF Next

\* For every document, and whatever fails: text that is not yet in the document
\* is on its way there, or the status line says why not (queueText, flushEdits).
THEOREM DraftsAreTold == Spec => []DraftIsTold
  <1>1. Init => DraftIsTold
    BY DEF Init, DraftIsTold
  <1>2. SaveInv /\ DraftIsTold /\ [Next]_vars => DraftIsTold'
    BY NextTells
  <1> QED
    BY <1>1, <1>2, SaveInvariant, PTL DEF Spec


-----------------------------------------------------------------------------
(* The format of the selection *)

\* A format is shown only over text the engine has: typing takes it away.
Unformatted == DOMAIN drafts # {} => format = "unknown"

\* A slot that moves to another row and keeps the selection runs without one.
Moving(slot) == \E i \in DOMAIN slot : slot[i].stage = "goto" /\ ~slot[i].clear
MovesUnselected == Moving(todo) => ~HasSelection

FormatInv == FormatIsCurrent /\ Unformatted /\ MovesUnselected

LEMMA Selectionless == ASSUME ClearSelection PROVE FormatInv'
  <1>1. ~HasSelection'
    BY DEF ClearSelection, NoSelection, HasSelection
  <1> QED
    BY <1>1 DEF ClearSelection, FormatInv, FormatIsCurrent, Unformatted, MovesUnselected

\* What the selection and its format are about stays as it is.
Unread == UNCHANGED <<engine, selected, mark, format, drafts>>

LEMMA UnreadFormat ==
  ASSUME FormatInv, Unread, Moving(todo') => Moving(todo)
  PROVE  FormatInv'
  BY DEF FormatInv, FormatIsCurrent, Unformatted, MovesUnselected, Unread, HasSelection, Readable

\* What is left of a slot moves no more than the slot.
LEMMA TailMoves ==
  ASSUME SlotShape, todo # <<>>
  PROVE  Moving(Tail(todo)) => Moving(todo)
  <1> DEFINE S == StagesOf(todo)
  <1>1. /\ todo \in Seq(S) /\ Tail(todo) \in Seq(S) /\ Len(todo) \in Nat
        /\ DOMAIN todo = 1..Len(todo) /\ Len(Tail(todo)) = Len(todo) - 1
        /\ \A i \in 1..Len(Tail(todo)) : Tail(todo)[i] = todo[i + 1]
    BY HeadTailProperties, LenProperties, EmptySeq DEF SlotShape
  <1>2. DOMAIN Tail(todo) = 1..Len(Tail(todo))
    BY <1>1, LenProperties
  <1>3. \A i \in DOMAIN Tail(todo) : i + 1 \in DOMAIN todo /\ Tail(todo)[i] = todo[i + 1]
    BY <1>1, <1>2
  <1> QED
    BY <1>3 DEF Moving

\* Slots of which no stage moves with the selection.
LEMMA StillSlot ==
  ASSUME NEW a, NEW b, NEW c, a.stage = "goto" => a.clear,
         b.stage = "goto" => b.clear, c.stage = "goto" => c.clear,
         NEW slot \in {<<>>, <<Flushed>>, <<Flushed, a>>, <<Flushed, a, b>>, <<Flushed, a, b, c>>}
  PROVE  ~Moving(slot)
  <1>1. Flushed.stage # "goto"
    BY DEF Flushed
  <1>2. ~Moving(<<>>) /\ ~Moving(<<Flushed>>)
    BY <1>1 DEF Moving
  <1>3. ~Moving(<<Flushed, a>>)
    BY <1>1 DEF Moving
  <1>4. ~Moving(<<Flushed, a, b>>)
    BY <1>1 DEF Moving
  <1>5. ~Moving(<<Flushed, a, b, c>>)
    BY <1>1 DEF Moving
  <1> QED
    BY <1>2, <1>3, <1>4, <1>5

LEMMA StillCommand ==
  ASSUME FormatInv, NEW stages, Slot(stages), KeepSelection, ~Moving(stages)
  PROVE  FormatInv'
  <1>1. Unread /\ todo' = stages
    BY DEF Slot, KeepSelection, Unread
  <1> QED
    BY <1>1, UnreadFormat

LEMMA CommandFormat ==
  ASSUME FormatInv, \/ SplitParagraph \/ MergeParagraph \/ AppendParagraph \/ ApplyStyle
                    \/ ApplyFormat \/ SelectParagraph \/ ExportPdf
  PROVE  FormatInv'
  <1>1. CASE SplitParagraph \/ MergeParagraph
    BY <1>1, Selectionless DEF SplitParagraph, MergeParagraph
  <1>2. CASE AppendParagraph \/ ApplyStyle
    <2>1. PICK command : Slot(<<Flushed, Do(command)>>)
      BY <1>2 DEF AppendParagraph, ApplyStyle
    <2>2. Do(command).stage # "goto"
      BY DEF Do
    <2>3. ~Moving(<<Flushed, Do(command)>>)
      BY <2>2, StillSlot
    <2> QED
      BY <1>2, <2>1, <2>3, StillCommand DEF AppendParagraph, ApplyStyle
  <1>3. CASE ApplyFormat
    <2>1. PICK command :
             Slot(IF HasSelection
                  THEN <<Flushed, Then("format"), Do(command), Then("format")>>
                  ELSE <<Flushed, Do(command), Then("format")>>)
      BY <1>3 DEF ApplyFormat
    <2>2. Do(command).stage # "goto" /\ Then("format").stage # "goto" /\ KeepSelection
      BY <1>3 DEF Do, Then, ApplyFormat
    <2>3. /\ ~Moving(<<Flushed, Then("format"), Do(command), Then("format")>>)
          /\ ~Moving(<<Flushed, Do(command), Then("format")>>)
      BY <2>2, StillSlot
    <2>4. CASE HasSelection
      BY <2>1, <2>2, <2>3, <2>4, StillCommand
    <2>5. CASE ~HasSelection
      BY <2>1, <2>2, <2>3, <2>5, StillCommand
    <2> QED
      BY <2>4, <2>5
  <1>4. CASE SelectParagraph
    <2>1. PICK row : Slot(<<Flushed, Move(row, TRUE)>>)
      BY <1>4 DEF SelectParagraph
    <2>2. Move(row, TRUE).clear
      BY DEF Move
    <2>3. ~Moving(<<Flushed, Move(row, TRUE)>>)
      BY <2>2, StillSlot
    <2> QED
      BY <1>4, <2>1, <2>3, StillCommand DEF SelectParagraph
  <1>5. CASE ExportPdf
    <2>1. Then("export").stage # "goto"
      BY DEF Then
    <2>2. ~Moving(<<Flushed, Then("export")>>)
      BY <2>1, StillSlot
    <2> QED
      BY <1>5, <2>2, StillCommand DEF ExportPdf
  <1> QED
    BY <1>1, <1>2, <1>3, <1>4, <1>5

\* The dialogs and the timers start at most a flush, a reading or a saving.
LEMMA StartFormat ==
  ASSUME FormatInv, \/ SaveDocument \/ SaveAs \/ FileDialog \/ CloseWindow \/ UnsavedDialog
                    \/ TimerFires
  PROVE  FormatInv'
  <1>1. Unread
    BY DEF SaveDocument, SaveAs, FileDialog, CloseWindow, UnsavedDialog, Save, TimerFires, Unread,
           model
  <1>2. todo' \in {todo, <<>>, <<Flushed>>, <<Flushed, Then("format")>>, <<Flushed, Then("store")>>}
    BY DEF SaveDocument, SaveAs, FileDialog, CloseWindow, UnsavedDialog, Save, TimerFires, Saving
  <1>3. Then("format").stage # "goto" /\ Then("store").stage # "goto"
    BY DEF Then
  <1>4. ~Moving(<<>>) /\ ~Moving(<<Flushed>>) /\ ~Moving(<<Flushed, Then("format")>>)
        /\ ~Moving(<<Flushed, Then("store")>>)
    BY <1>3, StillSlot
  <1> QED
    BY <1>1, <1>2, <1>4, UnreadFormat

\* Reading back takes the format of a selection away.
LEMMA ReadBackFormat ==
  ASSUME Unconfirm, UNCHANGED mark, Unformatted, DOMAIN drafts' \subseteq DOMAIN drafts,
         MovesUnselected, Moving(todo') => Moving(todo)
  PROVE  FormatInv'
  BY DEF Unconfirm, FormatInv, FormatIsCurrent, Unformatted, MovesUnselected, HasSelection

LEMMA StageMoves ==
  ASSUME SlotShape, StageStep
  PROVE  Moving(todo') => Moving(todo)
  <1>1. todo # <<>> /\ todo' \in {todo, <<>>, Tail(todo)}
    BY DEF StageStep, FlushEnds, FlushRefused, FlushWrite, FlushFails, Edit, EditFails, Goto,
           ReadFormat, Store, StoreFails, Export, Abandon, Stage
  <1>2. ~Moving(<<>>)
    BY DEF Moving
  <1> QED
    BY <1>1, <1>2, TailMoves

LEMMA FlushFormat ==
  ASSUME FormatInv, Moving(todo') => Moving(todo),
         FlushEnds \/ FlushRefused \/ FlushWrite \/ FlushFails
  PROVE  FormatInv'
  <1>1. CASE FlushEnds \/ FlushRefused
    BY <1>1, UnreadFormat DEF FlushEnds, FlushRefused, Unread
  <1>2. CASE FlushWrite
    <2>1. PICK i \in DOMAIN drafts :
            Unconfirm /\ (Forget(i) \/ UNCHANGED drafts) /\ UNCHANGED mark
      BY <1>2 DEF FlushWrite, ReadBack, ReadBackFails
    <2>2. DOMAIN drafts' \subseteq DOMAIN drafts
      BY <2>1 DEF Forget
    <2> QED
      BY <2>1, <2>2, ReadBackFormat DEF FormatInv
  <1>3. CASE FlushFails
    <2>1. DOMAIN drafts # {} /\ UNCHANGED <<drafts, format, mark>>
      BY <1>3 DEF FlushFails
    <2>2. format' = "unknown" /\ (HasSelection' <=> HasSelection)
      BY <2>1 DEF FormatInv, Unformatted, HasSelection
    <2> QED
      BY <2>1, <2>2 DEF FormatInv, FormatIsCurrent, Unformatted, MovesUnselected
  <1> QED
    BY <1>1, <1>2, <1>3

\* The row that is moved to has a selection of its own, or none.
LEMMA GotoFormat ==
  ASSUME FormatInv, SlotShape, Goto, Moving(todo') => Moving(todo)
  PROVE  FormatInv'
  <1>1. CASE Head(todo).clear
    BY <1>1, Selectionless DEF Goto, ClearSelection
  <1>2. CASE ~Head(todo).clear
    <2>1. 1 \in DOMAIN todo /\ Head(todo) = todo[1]
      BY LenProperties, EmptySeq DEF SlotShape, Goto, Stage
    <2>2. ~HasSelection
      BY <1>2, <2>1 DEF FormatInv, MovesUnselected, Moving, Goto, Stage
    <2>3. UNCHANGED <<mark, format, drafts>>
      BY <1>2 DEF Goto
    <2> QED
      BY <2>2, <2>3 DEF FormatInv, FormatIsCurrent, Unformatted, MovesUnselected, HasSelection
  <1> QED
    BY <1>1, <1>2

\* The engine is asked when no draft waits.
LEMMA ReadFormatFormat ==
  ASSUME FormatInv, FlushedFirst, ReadFormat, Moving(todo') => Moving(todo)
  PROVE  FormatInv'
  <1>1. DOMAIN drafts' = {} /\ UNCHANGED <<engine, selected, mark>>
    BY DEF ReadFormat, FlushedFirst, Stage
  <1>2. (HasSelection' <=> HasSelection) /\ (Readable' <=> Readable)
    BY <1>1 DEF HasSelection, Readable
  <1>3. \/ ~HasSelection
        \/ Readable /\ format' = FormatOf(engine[selected], mark)
        \/ format' = "unknown"
    BY DEF ReadFormat
  <1>4. FormatIsCurrent'
    BY <1>1, <1>2, <1>3 DEF FormatIsCurrent
  <1> QED
    BY <1>1, <1>2, <1>4 DEF FormatInv, Unformatted, MovesUnselected

LEMMA StageFormat ==
  ASSUME FormatInv, SaveInv, StageStep
  PROVE  FormatInv'
  <1>1. (Moving(todo') => Moving(todo)) /\ SlotShape /\ FlushedFirst
    BY StageMoves DEF SaveInv
  <1>2. CASE FlushEnds \/ FlushRefused \/ FlushWrite \/ FlushFails
    BY <1>1, <1>2, FlushFormat
  <1>3. CASE Edit \/ EditFails
    <2>1. Unconfirm /\ UNCHANGED <<mark, drafts>>
      BY <1>3 DEF Edit, EditFails, ReadBack, ReadBackFails
    <2> QED
      BY <1>1, <2>1, ReadBackFormat DEF FormatInv
  <1>4. CASE Goto
    BY <1>1, <1>4, GotoFormat
  <1>5. CASE ReadFormat
    BY <1>1, <1>5, ReadFormatFormat
  <1>6. CASE Store \/ StoreFails \/ Export
    BY <1>1, <1>6, UnreadFormat DEF Store, StoreFails, Export, Unread
  <1> QED
    BY <1>2, <1>3, <1>4, <1>5, <1>6 DEF StageStep

LEMMA NextFormat == ASSUME SaveInv, FormatInv, [Next]_vars PROVE FormatInv'
  <1>1. CASE UNCHANGED vars
    BY <1>1, UnreadFormat DEF vars, model, Unread
  <1>2. CASE User
    <2>1. CASE \E text \in Texts : QueueText(text)
      BY <2>1, Selectionless DEF QueueText
    <2>2. CASE SetTextSelection
      <3>1. todo' = <<>> /\ format' = "unknown"
        BY <2>2 DEF SetTextSelection, Ready
      <3> QED
        BY <3>1 DEF FormatInv, FormatIsCurrent, Unformatted, MovesUnselected, Moving
    <2>3. CASE \/ SplitParagraph \/ MergeParagraph \/ AppendParagraph \/ ApplyStyle
               \/ ApplyFormat \/ SelectParagraph \/ ExportPdf
      BY <2>3, CommandFormat
    <2> QED
      BY <1>2, <2>1, <2>2, <2>3, StartFormat DEF User
  <1>3. CASE TimerFires
    BY <1>3, StartFormat
  <1>4. CASE StageStep
    BY <1>4, StageFormat
  <1> QED
    BY <1>1, <1>2, <1>3, <1>4 DEF Next

\* For every document, and whatever fails: the ribbon shows a format only while
\* the engine's selection has it (_read_selection, refresh).
THEOREM FormatsAreCurrent == Spec => []FormatIsCurrent
  <1>1. Init => FormatInv
    BY DEF Init, FormatInv, FormatIsCurrent, Unformatted, MovesUnselected, Moving
  <1>2. SaveInv /\ FormatInv /\ [Next]_vars => FormatInv'
    BY NextFormat
  <1>3. FormatInv => FormatIsCurrent
    BY DEF FormatInv
  <1> QED
    BY <1>1, <1>2, <1>3, SaveInvariant, PTL DEF Spec

-----------------------------------------------------------------------------
(* What becomes of a draft.  The texts of the engine are sequences of        *)
(* letters whatever is done to the document; then what is written over a     *)
(* paragraph is the draft, letter by letter.                                 *)

Pages == Seq(Para) \ {<<>>}

WriterTypes ==
    /\ engine \in Pages /\ read \in Pages
    /\ \A i \in DOMAIN drafts : drafts[i] \in Texts
    /\ \A i \in DOMAIN todo : todo[i].stage = "edit" => todo[i].command \in Command

(* A bounded set of numbers that has a member has a greatest one, and Max    *)
(* finds it.                                                                 *)
LEMMA MaxOf ==
  ASSUME NEW n \in Nat, NEW S \in SUBSET (0..n), S # {}
  PROVE  Max(S) \in S /\ \A k \in S : k <= Max(S)
  <1> DEFINE Below == {n - k : k \in S}
  <1>1. Below \subseteq Nat /\ Below # {}
    <2>1. PICK k \in S : TRUE
      OBVIOUS
    <2>2. n - k \in Below /\ \A j \in S : j \in 0..n /\ n - j \in Nat
      OBVIOUS
    <2> QED
      BY <2>2
  <1>2. PICK least \in Below : \A k \in Below : least <= k
    <2> HIDE DEF Below
    <2> QED
      BY <1>1, LeastOf
  <1>3. PICK greatest \in S : least = n - greatest
    BY <1>2
  <1>4. \A k \in S : greatest >= k
    <2>1. TAKE k \in S
    <2>2. least <= n - k /\ k \in Int /\ greatest \in Int
      BY <1>2
    <2> QED
      BY <1>3, <2>2
  <1> QED
    BY <1>4 DEF Max

LEMMA MinOfTwo ==
  ASSUME NEW a \in Nat, NEW b \in Nat
  PROVE  /\ Min({a, b}) \in Nat /\ Min({a, b}) <= a /\ Min({a, b}) <= b
  BY DEF Min

(* Where two texts agree, at the beginning and at the end.                   *)
LEMMA AgreeFacts ==
  ASSUME NEW L, NEW s \in Seq(L), NEW t \in Seq(L)
  PROVE  /\ Agree(s, t) \in 0..Len(s) /\ Agree(s, t) <= Len(t)
         /\ \A i \in 1..Agree(s, t) : s[i] = t[i]
         /\ Agree(s, t) <= Min({Len(s), Len(t)})
  <1> DEFINE N == Min({Len(s), Len(t)})
             S == {n \in 0..N : SubSeq(s, 1, n) = SubSeq(t, 1, n)}
  <1>1. N \in Nat /\ N <= Len(s) /\ N <= Len(t) /\ Len(s) \in Nat /\ Len(t) \in Nat
    BY MinOfTwo, LenProperties
  <1>2. 0 \in S
    <2>1. SubSeq(s, 1, 0) = <<>> /\ SubSeq(t, 1, 0) = <<>>
      BY SubSeqProperties, EmptySeq
    <2> QED
      BY <1>1, <2>1
  <1>3. Agree(s, t) \in S
    <2>1. S \in SUBSET (0..N) /\ S # {} /\ Agree(s, t) = Max(S)
      BY <1>2 DEF Agree
    <2> HIDE DEF S
    <2> QED
      BY <1>1, <2>1, MaxOf
  <1>4. ASSUME NEW i \in 1..Agree(s, t) PROVE s[i] = t[i]
    <2>1. Agree(s, t) \in 0..N /\ SubSeq(s, 1, Agree(s, t)) = SubSeq(t, 1, Agree(s, t))
      BY <1>3
    <2>2. ASSUME NEW u \in Seq(L), Agree(s, t) <= Len(u)
          PROVE  SubSeq(u, 1, Agree(s, t))[i] = u[i]
      BY <1>1, <2>1, <2>2, SubSeqProperties
    <2> QED
      BY <1>1, <2>1, <2>2
  <1> QED
    BY <1>1, <1>3, <1>4

LEMMA AgreeAtEndFacts ==
  ASSUME NEW L, NEW s \in Seq(L), NEW t \in Seq(L), NEW k \in 0..Min({Len(s), Len(t)})
  PROVE  /\ AgreeAtEnd(s, t, k) \in Nat
         /\ AgreeAtEnd(s, t, k) + k <= Len(s) /\ AgreeAtEnd(s, t, k) + k <= Len(t)
         /\ \A i \in 1..AgreeAtEnd(s, t, k) :
               s[Len(s) - AgreeAtEnd(s, t, k) + i] = t[Len(t) - AgreeAtEnd(s, t, k) + i]
  <1> DEFINE N == Min({Len(s), Len(t)}) - k
             S == {n \in 0..N : SubSeq(s, Len(s) - n + 1, Len(s))
                                = SubSeq(t, Len(t) - n + 1, Len(t))}
             m == AgreeAtEnd(s, t, k)
  <1>1. /\ N \in Nat /\ N + k <= Len(s) /\ N + k <= Len(t)
        /\ Len(s) \in Nat /\ Len(t) \in Nat /\ k \in Nat
    BY MinOfTwo, LenProperties
  <1>2. 0 \in S
    <2>1. SubSeq(s, Len(s) - 0 + 1, Len(s)) = <<>> /\ SubSeq(t, Len(t) - 0 + 1, Len(t)) = <<>>
      BY <1>1, SubSeqProperties, EmptySeq
    <2> QED
      BY <1>1, <2>1
  <1>3. m \in S
    <2>1. S \in SUBSET (0..N) /\ S # {} /\ m = Max(S)
      BY <1>2 DEF AgreeAtEnd
    <2> HIDE DEF S, m
    <2> QED
      BY <1>1, <2>1, MaxOf
  <1>4. m \in 0..N /\ SubSeq(s, Len(s) - m + 1, Len(s)) = SubSeq(t, Len(t) - m + 1, Len(t))
    BY <1>3
  <1> HIDE DEF m
  <1>5. ASSUME NEW i \in 1..m PROVE s[Len(s) - m + i] = t[Len(t) - m + i]
    <2>1. ASSUME NEW u \in Seq(L), m <= Len(u)
          PROVE  SubSeq(u, Len(u) - m + 1, Len(u))[i] = u[Len(u) - m + i]
      <3>1. Len(u) \in Nat /\ Len(u) - m + 1 \in Int /\ m \in Nat
        BY <1>1, <1>4, LenProperties
      <3>2. SubSeq(u, Len(u) - m + 1, Len(u))[i] = u[Len(u) - m + 1 + i - 1]
        BY <2>1, <3>1, SubSeqProperties
      <3> QED
        BY SMTT(30), <3>1, <3>2
    <2>2. m <= Len(s) /\ m <= Len(t)
      BY <1>1, <1>4
    <2> QED
      BY <1>4, <2>1, <2>2
  <1> QED
    BY <1>1, <1>4, <1>5 DEF m

LEMMA TextOf ==
  ASSUME NEW p \in Para
  PROVE  /\ Text(p) \in Seq(Letters) /\ Len(Text(p)) = Len(p.chars)
         /\ \A i \in 1..Len(p.chars) : Text(p)[i] = p.chars[i].c
         /\ p.chars \in Seq(Char) /\ Len(p.chars) \in Nat
  <1>1. p.chars \in Seq(Char)
    BY DEF Para
  <1>2. Len(p.chars) \in Nat /\ DOMAIN p.chars = 1..Len(p.chars)
    BY <1>1, LenProperties
  <1>3. \A i \in 1..Len(p.chars) : p.chars[i].c \in Letters
    <2>1. \A i \in 1..Len(p.chars) : p.chars[i] \in Char
      BY <1>1, ElementOfSeq
    <2> QED
      BY <2>1 DEF Char
  <1>4. Text(p) = [i \in 1..Len(p.chars) |-> p.chars[i].c]
    BY <1>2 DEF Text
  <1> QED
    BY <1>1, <1>2, <1>3, <1>4, SeqDef, LenProperties

(* What is written over a paragraph is the new text, and what of the old one *)
(* stays in its place is there in the new one (replace_paragraph_text).      *)
LEMMA RetypedFacts ==
  ASSUME NEW p \in Para, NEW after \in Seq(Letters), NEW bold \in BOOLEAN
  PROVE  Retyped(p, after, bold) \in Para /\ Text(Retyped(p, after, bold)) = after
  <1> DEFINE t == Text(p)
             k == Agree(t, after)
             m == AgreeAtEnd(t, after, k)
             shift == Len(p.chars) - Len(after)
             Char_(i) == IF i <= k THEN p.chars[i]
                         ELSE IF i > Len(after) - m THEN p.chars[i + shift]
                         ELSE [c |-> after[i], bold |-> bold]
             new == [i \in 1..Len(after) |-> Char_(i)]
  <1>1. /\ t \in Seq(Letters) /\ Len(t) = Len(p.chars) /\ Len(after) \in Nat
        /\ \A i \in 1..Len(p.chars) : t[i] = p.chars[i].c /\ p.chars[i] \in Char
        /\ Len(p.chars) \in Nat /\ \A i \in 1..Len(after) : after[i] \in Letters
    BY TextOf, LenProperties, ElementOfSeq
  <1>2. /\ k \in 0..Min({Len(t), Len(after)}) /\ k \in Nat /\ k <= Len(t) /\ k <= Len(after)
        /\ \A i \in 1..k : t[i] = after[i]
    <2> HIDE DEF t
    <2>1. Min({Len(t), Len(after)}) \in Nat
      BY <1>1, MinOfTwo
    <2>2. k \in 0..Len(t) /\ k <= Len(after) /\ k <= Min({Len(t), Len(after)})
      BY <1>1, AgreeFacts
    <2>3. \A i \in 1..k : t[i] = after[i]
      <3>1. t \in Seq(Letters) /\ after \in Seq(Letters)
        BY <1>1
      <3> QED
        BY <3>1, AgreeFacts
    <2> HIDE DEF k
    <2> QED
      BY <1>1, <2>1, <2>2, <2>3
  <1> HIDE DEF k
  <1>3. /\ m \in Nat /\ m + k <= Len(t) /\ m + k <= Len(after)
        /\ \A i \in 1..m : t[Len(t) - m + i] = after[Len(after) - m + i]
    BY SMTT(30), <1>1, <1>2, AgreeAtEndFacts
  <1> HIDE DEF m, t
  <1>4. ASSUME NEW i \in 1..Len(after)
        PROVE  Char_(i) \in Char /\ Char_(i).c = after[i]
    <2>1. CASE i <= k
      BY <1>1, <1>2, <2>1
    <2>2. CASE i > k /\ i > Len(after) - m
      <3>1. i + shift \in 1..Len(p.chars) /\ Char_(i) = p.chars[i + shift]
        BY <1>1, <1>2, <1>3, <2>2
      <3>2. i - (Len(after) - m) \in 1..m
        BY <1>1, <1>2, <1>3, <2>2
      <3>3. t[Len(t) - m + (i - (Len(after) - m))]
              = after[Len(after) - m + (i - (Len(after) - m))]
        BY <1>3, <3>2
      <3>4. /\ Len(t) - m + (i - (Len(after) - m)) = i + shift
            /\ Len(after) - m + (i - (Len(after) - m)) = i
        <4>1. /\ Len(t) \in Int /\ Len(after) \in Int /\ m \in Int /\ i \in Int
              /\ shift = Len(t) - Len(after)
          BY <1>1, <1>3
        <4> HIDE DEF shift
        <4> QED
          BY <4>1
      <3>5. t[i + shift] = after[i]
        BY <3>3, <3>4
      <3> QED
        BY <1>1, <3>1, <3>5
    <2>3. CASE i > k /\ ~(i > Len(after) - m)
      <3>1. Char_(i) = [c |-> after[i], bold |-> bold]
        BY <1>2, <2>3
      <3> HIDE DEF Char_
      <3> QED
        BY <1>1, <3>1 DEF Char
    <2> QED
      BY <1>1, <1>2, <2>1, <2>2, <2>3
  <1>5. Retyped(p, after, bold) = [p EXCEPT !.chars = new]
    BY DEF Retyped, k, m, t
  <1> HIDE DEF Char_
  <1>6. new \in Seq(Char) /\ Len(new) = Len(after) /\ DOMAIN new = 1..Len(after)
    BY <1>1, <1>4, SeqDef, LenProperties
  <1>7. Retyped(p, after, bold) \in Para /\ Retyped(p, after, bold).chars = new
    BY <1>5, <1>6 DEF Para
  <1>8. Text(Retyped(p, after, bold)) = [i \in 1..Len(after) |-> after[i]]
    BY <1>4, <1>6, <1>7 DEF Text
  <1> QED
    BY <1>7, <1>8, LenProperties, SeqDef

(* The commands leave a document with at least one paragraph.                *)
LEMMA ParagraphOf ==
  ASSUME NEW doc \in Pages
  PROVE  /\ Len(doc) \in Nat \ {0} /\ DOMAIN doc = 1..Len(doc) /\ doc \in Seq(Para)
         /\ \A i \in 1..Len(doc) : doc[i] \in Para
  BY LenProperties, ElementOfSeq, EmptySeq DEF Pages

LEMMA SetParagraph ==
  ASSUME NEW doc \in Pages, NEW i \in DOMAIN doc, NEW p \in Para
  PROVE  [doc EXCEPT ![i] = p] \in Pages
  <1> DEFINE new == [doc EXCEPT ![i] = p]
  <1>1. new = [j \in 1..Len(doc) |-> IF j = i THEN p ELSE doc[j]]
    BY ParagraphOf
  <1>2. new \in [1..Len(doc) -> Para]
    BY <1>1, ParagraphOf
  <1>3. new \in Seq(Para) /\ Len(new) = Len(doc)
    BY <1>2, ParagraphOf, SeqDef, LenProperties
  <1> QED
    BY <1>3, ParagraphOf, EmptySeq DEF Pages

LEMMA AcceptedRow ==
  ASSUME WriterTypes, NEW command \in Command, Accepted(command), command.do # "append"
  PROVE  command.row \in 1..Len(engine) /\ engine[command.row] \in Para
  BY ParagraphOf DEF WriterTypes, Accepted

LEMMA SplitPages ==
  ASSUME NEW doc \in Pages, NEW i \in 1..Len(doc), NEW position \in 0..Len(doc[i].chars)
  PROVE  SplitAt(doc, i, position) \in Pages
  <1> DEFINE p == doc[i]
             head == [p EXCEPT !.chars = SubSeq(@, 1, position)]
             tail == [p EXCEPT !.chars = SubSeq(@, position + 1, Len(@))]
             before == SubSeq(doc, 1, i - 1)
             after == SubSeq(doc, i + 1, Len(doc))
  <1>1. /\ p \in Para /\ p.chars \in Seq(Char) /\ Len(p.chars) \in Nat
        /\ \A j \in 1..Len(p.chars) : p.chars[j] \in Char
    BY ParagraphOf, TextOf, ElementOfSeq
  <1>2. SubSeq(p.chars, 1, position) \in Seq(Char)
    BY <1>1, SubSeqProperties
  <1>3. SubSeq(p.chars, position + 1, Len(p.chars)) \in Seq(Char)
    BY <1>1, SubSeqProperties
  <1>4. head \in Para /\ tail \in Para
    BY <1>1, <1>2, <1>3 DEF Para
  <1>5. before \in Seq(Para) /\ after \in Seq(Para)
    BY ParagraphOf, SubSeqProperties
  <1>6. SplitAt(doc, i, position) = before \o <<head, tail>> \o after
    BY DEF SplitAt
  <1> HIDE DEF head, tail, before, after
  <1>7. <<head, tail>> \in Seq(Para) /\ Len(<<head, tail>>) = 2
    BY <1>4
  <1>8. before \o <<head, tail>> \in Seq(Para) /\ Len(before \o <<head, tail>>) = Len(before) + 2
    BY <1>5, <1>7, ConcatProperties
  <1>9. /\ before \o <<head, tail>> \o after \in Seq(Para)
        /\ Len(before \o <<head, tail>> \o after) = Len(before) + 2 + Len(after)
    BY <1>5, <1>8, ConcatProperties
  <1>10. Len(before) \in Nat /\ Len(after) \in Nat
    BY <1>5, LenProperties
  <1> QED
    BY <1>6, <1>9, <1>10, EmptySeq DEF Pages

LEMMA MergePages ==
  ASSUME NEW doc \in Pages, NEW i \in 2..Len(doc)
  PROVE  MergedInto(doc, i) \in Pages
  <1> DEFINE joined == doc[i - 1].chars \o doc[i].chars
             p == [doc[i - 1] EXCEPT !.chars = joined]
             new == [doc EXCEPT ![i - 1] = p]
  <1>1. doc[i - 1] \in Para /\ doc[i] \in Para /\ i - 1 \in DOMAIN doc
    BY ParagraphOf
  <1>2. joined \in Seq(Char)
    BY <1>1, TextOf, ConcatProperties
  <1>3. p \in Para
    BY <1>1, <1>2 DEF Para
  <1>4. new \in Pages /\ DOMAIN new = DOMAIN doc
    BY <1>1, <1>3, SetParagraph
  <1>5. [doc EXCEPT ![i - 1].chars = @ \o doc[i].chars] = new
    OBVIOUS
  <1>6. MergedInto(doc, i) = Without(new, i)
    BY <1>5 DEF MergedInto
  <1> HIDE DEF new
  <1>7. Len(new) = Len(doc) /\ \A j \in 1..Len(doc) : new[j] \in Para
    BY <1>4, ParagraphOf
  <1>8. Without(new, i) \in [1..(Len(doc) - 1) -> Para]
    BY <1>7, ParagraphOf DEF Without
  <1>9. Without(new, i) \in Seq(Para) /\ Len(Without(new, i)) = Len(doc) - 1
    BY <1>8, ParagraphOf, SeqDef, LenProperties
  <1> QED
    BY <1>6, <1>9, ParagraphOf, EmptySeq DEF Pages

LEMMA AppendPages ==
  ASSUME NEW doc \in Pages, NEW text \in Texts
  PROVE  Append(doc, [chars |-> [i \in DOMAIN text |-> [c |-> text[i], bold |-> FALSE]],
                      style |-> doc[Len(doc)].style]) \in Pages
  <1> DEFINE chars == [i \in DOMAIN text |-> [c |-> text[i], bold |-> FALSE]]
             p == [chars |-> chars, style |-> doc[Len(doc)].style]
  <1>1. /\ Len(text) \in Nat /\ DOMAIN text = 1..Len(text)
        /\ \A i \in 1..Len(text) : text[i] \in Letters
    BY WriterAssumption, LenProperties, ElementOfSeq
  <1>2. chars \in [1..Len(text) -> Char]
    BY <1>1 DEF Char
  <1>3. chars \in Seq(Char)
    BY <1>1, <1>2, SeqDef
  <1>4. doc[Len(doc)] \in Para
    BY ParagraphOf
  <1>5. p \in Para
    BY <1>3, <1>4 DEF Para
  <1> HIDE DEF p
  <1>6. Append(doc, p) \in Seq(Para) /\ Len(Append(doc, p)) = Len(doc) + 1
    BY <1>5, ParagraphOf, AppendProperties
  <1>7. Append(doc, p) \in Pages
    BY <1>6, ParagraphOf, EmptySeq DEF Pages
  <1> QED
    BY <1>7 DEF p

LEMMA BoldedPara ==
  ASSUME NEW p \in Para, NEW from, NEW to, NEW bold \in BOOLEAN
  PROVE  Bolded(p, from, to, bold) \in Para
  <1> DEFINE chars == [j \in DOMAIN p.chars |-> IF j > from /\ j <= to
                         THEN [p.chars[j] EXCEPT !.bold = bold] ELSE p.chars[j]]
  <1>1. p.chars \in Seq(Char) /\ Len(p.chars) \in Nat /\ DOMAIN p.chars = 1..Len(p.chars)
    BY TextOf, LenProperties
  <1>2. \A j \in DOMAIN p.chars : p.chars[j] \in Char
    BY <1>1, ElementOfSeq
  <1>3. \A c \in Char : [c EXCEPT !.bold = bold] \in Char
    BY DEF Char
  <1>4. chars \in [1..Len(p.chars) -> Char]
    BY <1>1, <1>2, <1>3
  <1>5. chars \in Seq(Char)
    BY <1>1, <1>4, SeqDef
  <1>6. Bolded(p, from, to, bold) = [p EXCEPT !.chars = chars]
    BY DEF Bolded
  <1> QED
    BY <1>5, <1>6 DEF Para

LEMMA ExecutedPages ==
  ASSUME WriterTypes, NEW command \in Command, Accepted(command)
  PROVE  Executed(command) \in Pages
  <1>1. /\ command.do \in {"split", "merge", "append", "style", "bold"}
        /\ engine \in Pages
    BY DEF Command, WriterTypes
  <1>2. CASE command.do = "split"
    <2>1. command.position \in Nat /\ command.position <= Len(engine[command.row].chars)
      BY <1>2 DEF Command, Accepted
    <2>2. command.row \in 1..Len(engine) /\ Len(engine[command.row].chars) \in Nat
      BY <1>2, AcceptedRow, TextOf
    <2>3. Executed(command) = SplitAt(engine, command.row, command.position)
      BY <1>2 DEF Executed
    <2> QED
      BY <1>1, <2>1, <2>2, <2>3, SplitPages
  <1>3. CASE command.do = "merge"
    <2>1. command.row \in 2..Len(engine)
      <3>1. command.row \in 1..Len(engine) /\ command.row > 1
        BY <1>3, AcceptedRow DEF Accepted
      <3> QED
        BY <1>1, <3>1, ParagraphOf
    <2>2. Executed(command) = MergedInto(engine, command.row)
      BY <1>3 DEF Executed
    <2> QED
      BY <1>1, <2>1, <2>2, MergePages
  <1>4. CASE command.do = "append"
    <2>1. command.text \in Texts
      BY <1>4 DEF Command
    <2>2. Executed(command) =
            Append(engine, [chars |-> [i \in DOMAIN command.text |->
                                         [c |-> command.text[i], bold |-> FALSE]],
                            style |-> engine[Len(engine)].style])
      BY <1>4 DEF Executed
    <2> QED
      BY <1>1, <2>1, <2>2, AppendPages
  <1>5. CASE command.do \in {"style", "bold"}
    <2>1. command.row \in DOMAIN engine /\ engine[command.row] \in Para
      BY <1>1, <1>5, AcceptedRow, ParagraphOf
    <2>2. \E p \in Para : Executed(command) = [engine EXCEPT ![command.row] = p]
      <3>1. CASE command.do = "style"
        <4>1. [engine[command.row] EXCEPT !.style = command.style] \in Para
          BY <2>1, <3>1 DEF Para, Command
        <4>2. Executed(command)
                = [engine EXCEPT ![command.row] = [engine[command.row] EXCEPT !.style = command.style]]
          BY <3>1 DEF Executed
        <4> QED
          BY <4>1, <4>2
      <3>2. CASE command.do = "bold"
        <4>1. command.bold \in BOOLEAN
          BY <3>2 DEF Command
        <4>2. Bolded(engine[command.row], From(command), To(command), command.bold) \in Para
          BY <2>1, <4>1, BoldedPara
        <4>3. Executed(command)
                = [engine EXCEPT ![command.row] =
                     Bolded(engine[command.row], From(command), To(command), command.bold)]
          BY <3>2 DEF Executed
        <4> QED
          BY <4>2, <4>3
      <3> QED
        BY <1>5, <3>1, <3>2
    <2> QED
      BY ZenonT(30), <1>1, <2>1, <2>2, SetParagraph
  <1> QED
    BY <1>1, <1>2, <1>3, <1>4, <1>5

(* The paragraph of a draft that was written, in the engine.                 *)
LEMMA WrittenText ==
  ASSUME WriterTypes, NEW i \in DOMAIN drafts, Written(i)
  PROVE  engine' \in Pages /\ Text(engine'[i]) = drafts[i]
  <1>1. PICK bold \in BOOLEAN : engine' = [engine EXCEPT ![i] = Retyped(@, drafts[i], bold)]
    BY DEF Written
  <1>2. /\ engine \in Pages /\ i \in DOMAIN engine /\ engine[i] \in Para
        /\ drafts[i] \in Seq(Letters)
    BY ParagraphOf, WriterAssumption DEF Written, WriterTypes
  <1> DEFINE p == Retyped(engine[i], drafts[i], bold)
  <1>3. p \in Para /\ Text(p) = drafts[i]
    BY <1>2, RetypedFacts
  <1>4. engine' = [engine EXCEPT ![i] = p]
    BY <1>1
  <1> HIDE DEF p
  <1>5. engine'[i] = p
    BY <1>2, <1>4
  <1> QED
    BY <1>2, <1>3, <1>4, <1>5, SetParagraph

-----------------------------------------------------------------------------
(* The types *)

(* A slot that starts holds well-formed commands.                            *)
LEMMA StartedTypes ==
  ASSUME WriterTypes, UNCHANGED <<engine, read, drafts>>,
         \A i \in DOMAIN todo' : todo'[i].stage = "edit" => todo'[i].command \in Command
  PROVE  WriterTypes'
  BY DEF WriterTypes

LEMMA ShownLength ==
  ASSUME WriterTypes, Available
  PROVE  Len(Shown(selected)) \in Nat /\ selected \in Nat
  <1>1. read[selected] \in Para /\ selected \in Nat
    BY ParagraphOf DEF WriterTypes, Available
  <1>2. CASE selected \in DOMAIN drafts
    BY <1>1, <1>2, WriterAssumption, LenProperties DEF WriterTypes, Shown
  <1>3. CASE selected \notin DOMAIN drafts
    BY <1>1, <1>3, TextOf DEF Shown
  <1> QED
    BY <1>1, <1>2, <1>3

LEMMA CommandTypes ==
  ASSUME WriterTypes, \/ SplitParagraph \/ MergeParagraph \/ AppendParagraph \/ ApplyStyle
                      \/ ApplyFormat \/ SelectParagraph \/ ExportPdf
  PROVE  WriterTypes'
  <1> DEFINE Fine(s) == s.stage = "edit" => s.command \in Command
  <1>1. ASSUME NEW a, NEW b, NEW c, Fine(a), Fine(b), Fine(c),
               NEW stages \in {<<Flushed, a>>, <<Flushed, a, b>>, <<Flushed, a, b, c>>},
               Slot(stages)
        PROVE  WriterTypes'
    <2>1. todo' = stages /\ UNCHANGED <<engine, read, drafts>> /\ Flushed.stage # "edit"
      BY <1>1 DEF Slot, Flushed
    <2>2. \A i \in DOMAIN stages : stages[i] \in {Flushed, a, b, c}
      BY <1>1
    <2>3. \A i \in DOMAIN todo' : todo'[i].stage = "edit" => todo'[i].command \in Command
      BY <1>1, <2>1, <2>2
    <2> QED
      BY <2>1, <2>3, StartedTypes
  <1>2. ASSUME NEW command \in Command PROVE Fine(Do(command))
    BY <1>2 DEF Do
  <1>3. \A row, clear : Fine(Move(row, clear))
    BY DEF Move
  <1>4. Fine(Then("format")) /\ Fine(Then("export"))
    BY DEF Then
  <1> HIDE DEF Fine
  <1>5. CASE SplitParagraph
    <2>1. PICK position \in 0..Len(Shown(selected)) :
             Slot(<<Flushed, Do([do |-> "split", row |-> selected, position |-> position]),
                    Move(selected + 1, FALSE)>>)
      BY <1>5 DEF SplitParagraph
    <2>2. [do |-> "split", row |-> selected, position |-> position] \in Command
      BY <1>5, ShownLength DEF SplitParagraph, Command
    <2> QED
      BY <1>2, <1>3, <1>1, <2>1, <2>2
  <1>6. CASE MergeParagraph
    <2>1. PICK row \in {selected, selected + 1} :
             Slot(<<Flushed, Do([do |-> "merge", row |-> row]), Move(row - 1, FALSE)>>)
      BY <1>6 DEF MergeParagraph
    <2>2. [do |-> "merge", row |-> row] \in Command
      BY <1>6, ShownLength DEF MergeParagraph, Command
    <2> QED
      BY <1>2, <1>3, <1>1, <2>1, <2>2
  <1>7. CASE AppendParagraph
    <2>1. PICK text \in Texts : Slot(<<Flushed, Do([do |-> "append", text |-> text])>>)
      BY <1>7 DEF AppendParagraph
    <2>2. [do |-> "append", text |-> text] \in Command
      BY DEF Command
    <2> QED
      BY <1>2, <1>1, <2>1, <2>2
  <1>8. CASE ApplyStyle
    <2>1. PICK style \in Styles :
             Slot(<<Flushed, Do([do |-> "style", row |-> selected, style |-> style])>>)
      BY <1>8 DEF ApplyStyle
    <2>2. [do |-> "style", row |-> selected, style |-> style] \in Command
      BY <1>8, ShownLength DEF ApplyStyle, Command
    <2> QED
      BY <1>2, <1>1, <2>1, <2>2
  <1>9. CASE ApplyFormat
    <2>1. PICK bold \in BOOLEAN :
            LET command == [do |-> "bold", row |-> selected, whole |-> ~HasSelection, bold |-> bold]
            IN Slot(IF HasSelection
                    THEN <<Flushed, Then("format"), Do(command), Then("format")>>
                    ELSE <<Flushed, Do(command), Then("format")>>)
      BY <1>9 DEF ApplyFormat
    <2> DEFINE command == [do |-> "bold", row |-> selected, whole |-> ~HasSelection, bold |-> bold]
    <2>2. command \in Command
      <3>1. selected \in Nat
        BY <1>9, ShownLength DEF ApplyFormat
      <3>2. (~HasSelection) \in BOOLEAN
        BY Zenon
      <3> QED
        BY <3>1, <3>2 DEF Command
    <2> HIDE DEF command
    <2>3. CASE HasSelection
      <3>1. Slot(<<Flushed, Then("format"), Do(command), Then("format")>>)
        BY <2>1, <2>3 DEF command
      <3> QED
        BY <1>2, <1>4, <1>1, <2>2, <3>1
    <2>4. CASE ~HasSelection
      <3>1. Slot(<<Flushed, Do(command), Then("format")>>)
        BY <2>1, <2>4 DEF command
      <3> QED
        BY <1>2, <1>4, <1>1, <2>2, <3>1
    <2> QED
      BY <2>3, <2>4
  <1>10. CASE SelectParagraph
    <2>1. PICK row : Slot(<<Flushed, Move(row, TRUE)>>)
      BY <1>10 DEF SelectParagraph
    <2> QED
      BY <1>3, <1>1, <2>1
  <1>11. CASE ExportPdf
    BY <1>4, <1>1, <1>11 DEF ExportPdf
  <1> QED
    BY <1>5, <1>6, <1>7, <1>8, <1>9, <1>10, <1>11

LEMMA QueueTextTypes ==
  ASSUME WriterTypes, NEW text \in Texts, QueueText(text)
  PROVE  WriterTypes'
  <1>1. UNCHANGED <<engine, read, todo>>
    BY DEF QueueText
  <1>2. \A i \in DOMAIN drafts' : drafts'[i] \in Texts
    <2>1. \A i \in DOMAIN drafts' : drafts'[i] \in {text} \cup {drafts[j] : j \in DOMAIN drafts}
      BY DEF QueueText, Forget
    <2> QED
      BY <2>1 DEF WriterTypes
  <1> QED
    BY <1>1, <1>2 DEF WriterTypes

(* The timers, and the dialogs of saving and closing.                        *)
LEMMA OtherStartTypes ==
  ASSUME WriterTypes, \/ TimerFires \/ SaveDocument \/ SaveAs \/ FileDialog \/ CloseWindow
                      \/ UnsavedDialog
  PROVE  WriterTypes'
  <1>1. /\ UNCHANGED <<engine, read, drafts>>
        /\ todo' \in {todo, <<>>, <<Flushed>>, <<Flushed, Then("format")>>, Saving}
    BY DEF TimerFires, SaveDocument, SaveAs, Save, FileDialog, CloseWindow, UnsavedDialog, model
  <1>2. CASE todo' = todo
    BY <1>1, <1>2 DEF WriterTypes
  <1>3. CASE todo' \in {<<>>, <<Flushed>>, <<Flushed, Then("format")>>, Saving}
    <2>1. \A i \in DOMAIN todo' : todo'[i].stage # "edit"
      BY <1>3 DEF Flushed, Then, Saving
    <2> QED
      BY <1>1, <2>1, StartedTypes
  <1> QED
    BY <1>1, <1>2, <1>3

(* A stage leaves the rest of its slot, or nothing.                          *)
LEMMA RestTypes ==
  ASSUME WriterTypes, SlotShape, todo # <<>>, todo' \in {todo, <<>>, Tail(todo)}
  PROVE  \A i \in DOMAIN todo' : todo'[i].stage = "edit" => todo'[i].command \in Command
  <1>1. /\ Len(todo) \in Nat \ {0} /\ DOMAIN todo = 1..Len(todo)
        /\ Len(Tail(todo)) = Len(todo) - 1 /\ DOMAIN Tail(todo) = 1..Len(Tail(todo))
        /\ \A i \in 1..Len(Tail(todo)) : Tail(todo)[i] = todo[i + 1]
    <2>1. todo \in Seq(StagesOf(todo))
      BY DEF SlotShape
    <2> QED
      BY <2>1, HeadTailProperties, LenProperties, EmptySeq
  <1>2. \A i \in DOMAIN Tail(todo) : i + 1 \in DOMAIN todo /\ Tail(todo)[i] = todo[i + 1]
    BY <1>1
  <1> QED
    BY <1>2 DEF WriterTypes

LEMMA StageTypes ==
  ASSUME WriterTypes, SlotShape, StageStep
  PROVE  WriterTypes'
  <1>1. todo # <<>> /\ todo' \in {todo, <<>>, Tail(todo)}
    BY DEF StageStep, FlushEnds, FlushRefused, FlushWrite, FlushFails, Edit, EditFails, Goto,
           ReadFormat, Store, StoreFails, Export, Abandon, Stage
  <1>2. \A i \in DOMAIN drafts' : drafts'[i] \in Texts
    <2>1. \/ UNCHANGED drafts
          \/ \E i \in DOMAIN drafts : Forget(i)
      BY DEF StageStep, FlushEnds, FlushRefused, FlushWrite, FlushFails, Edit, EditFails, Goto,
             ReadFormat, Store, StoreFails, Export
    <2> QED
      BY <2>1 DEF WriterTypes, Forget
  <1>3. engine' \in Pages
    <2>1. \/ UNCHANGED engine
          \/ \E i \in DOMAIN drafts : Written(i)
          \/ /\ Stage("edit") /\ Accepted(Head(todo).command)
             /\ engine' = Executed(Head(todo).command)
      BY DEF StageStep, FlushEnds, FlushRefused, FlushWrite, FlushFails, Edit, EditFails, Goto,
             ReadFormat, Store, StoreFails, Export
    <2>2. CASE UNCHANGED engine
      BY <2>2 DEF WriterTypes
    <2>3. CASE \E i \in DOMAIN drafts : Written(i)
      BY <2>3, WrittenText
    <2>4. CASE /\ Stage("edit") /\ Accepted(Head(todo).command)
               /\ engine' = Executed(Head(todo).command)
      <3>1. 1 \in DOMAIN todo /\ Head(todo) = todo[1]
        BY <1>1, LenProperties, EmptySeq DEF SlotShape
      <3>2. Head(todo).command \in Command
        BY <2>4, <3>1 DEF WriterTypes, Stage
      <3> QED
        BY <2>4, <3>2, ExecutedPages
    <2> QED
      BY <2>1, <2>2, <2>3, <2>4
  <1>4. read' \in Pages
    <2>1. read' \in {read, engine'}
      BY DEF StageStep, FlushEnds, FlushRefused, FlushWrite, FlushFails, Edit, EditFails, Goto,
             ReadFormat, Store, StoreFails, Export, ReadBack, ReadBackFails
    <2> QED
      BY <1>3, <2>1 DEF WriterTypes
  <1> QED
    BY <1>1, <1>2, <1>3, <1>4, RestTypes DEF WriterTypes

LEMMA NextTypes == ASSUME WriterTypes, SlotShape, [Next]_vars PROVE WriterTypes'
  <1>1. CASE UNCHANGED vars
    BY <1>1 DEF vars, model, WriterTypes
  <1>2. CASE User
    <2>1. CASE SetTextSelection
      BY <2>1 DEF SetTextSelection, WriterTypes
    <2> QED
      BY <1>2, <2>1, QueueTextTypes, CommandTypes, OtherStartTypes DEF User
  <1> QED
    BY <1>1, <1>2, OtherStartTypes, StageTypes DEF Next

(* Whatever is typed, pasted and commanded, and whatever fails, the engine   *)
(* and the model hold at least one paragraph, and a command that waits is    *)
(* one the engine understands.                                               *)
THEOREM DocumentsStay == Spec => []WriterTypes
  <1>1. Init => WriterTypes
    <2> SUFFICES ASSUME Init PROVE WriterTypes
      OBVIOUS
    <2>1. engine \in Pages /\ read = engine /\ DOMAIN drafts = {} /\ DOMAIN todo = {}
      BY WriterAssumption DEF Init, Pages
    <2> QED
      BY <2>1 DEF WriterTypes
  <1>2. SaveInv /\ WriterTypes /\ [Next]_vars => WriterTypes'
    BY NextTypes DEF SaveInv
  <1> QED
    BY <1>1, <1>2, SaveInvariant, PTL DEF Spec

(* While a slot runs, a draft goes only in the step that wrote it.           *)
LEMMA DraftGoes ==
  ASSUME WriterTypes, [Next]_vars, todo # <<>>, NEW i \in DOMAIN drafts, i \notin DOMAIN drafts'
  PROVE  read' = engine' /\ Text(engine'[i]) = drafts[i]
  <1>1. FlushWrite
    <2>1. drafts' # drafts
      OBVIOUS
    <2>2. ~User /\ ~TimerFires
      BY <2>1 DEF User, QueueText, SplitParagraph, MergeParagraph, AppendParagraph, ApplyStyle,
             ApplyFormat, SelectParagraph, SetTextSelection, ExportPdf, SaveDocument, SaveAs,
             FileDialog, CloseWindow, UnsavedDialog, Slot, Ready, TimerFires
    <2> QED
      BY <2>1, <2>2 DEF Next, vars, model, StageStep, FlushEnds, FlushRefused, FlushFails, Edit,
             EditFails, Goto, ReadFormat, Store, StoreFails, Export
  <1>2. PICK j \in DOMAIN drafts : Written(j) /\ ((ReadBack /\ Forget(j)) \/ UNCHANGED drafts)
    BY <1>1 DEF FlushWrite
  <1>3. i = j /\ ReadBack
    BY <1>2 DEF Forget
  <1> QED
    BY <1>2, <1>3, WrittenText DEF ReadBack

(* For every document, every text and whatever fails: a draft is given up    *)
(* only when the engine holds it and the model has read it back (flushEdits: *)
(* "Failed writes or readbacks retain drafts").                              *)
THEOREM DraftsAreKept == Spec => DraftConfirmed
  <1>1. WriterTypes /\ [Next]_vars
          => [todo # <<>> =>
                \A i \in DOMAIN drafts \ DOMAIN drafts' :
                   read' = engine' /\ Text(engine'[i]) = drafts[i]]_vars
    BY DraftGoes
  <1> QED
    BY <1>1, DocumentsStay, PTL DEF Spec, DraftConfirmed

=============================================================================
