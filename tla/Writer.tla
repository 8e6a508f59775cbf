-------------------------------- MODULE Writer --------------------------------
(***************************************************************************)
(* One open text document of Zaldros Writer: DocumentModel (model.py) and  *)
(* the save and close dialogs of Writer.qml on the GUI thread, over the    *)
(* paragraphs that LibreOffice holds (Document in engine.py).              *)
(*                                                                         *)
(* What the user types is a draft until a timer, or any other command,     *)
(* writes it to the engine and reads the whole document back.  Each call   *)
(* of the engine may raise, before or after it had its effect, and so may  *)
(* the reading back.  "todo" is what is left of the slot that is running;  *)
(* a failing stage ends the slot (it returns False).                       *)
(*                                                                         *)
(* Rows count from 1, positions in a text from 0 as in the source.  Only   *)
(* the focused editor queues text, and that is the selected row: a change  *)
(* of focus is selectParagraph(), which flushes first.                     *)
(***************************************************************************)
EXTENDS Integers, Sequences, FiniteSets, FiniteSetsExt

CONSTANTS
    Letters,     \* characters
    Breaks,      \* the characters among them that would make a new paragraph
    Texts,       \* what may be typed, or pasted, into a paragraph
    Styles,      \* paragraph styles and alignments
    Documents,   \* what may be open at the start: sequences of paragraphs
    MaxLength,   \* bound: characters of a paragraph after a merge
    MaxRows,     \* bound: paragraphs
    MaxEdits,    \* bound: texts typed and commands given
    MaxFaults    \* bound: exceptions of the engine

Char == [c: Letters, bold: BOOLEAN]
Para == [chars: Seq(Char), style: Styles]

ASSUME WriterAssumption ==
    /\ Breaks \subseteq Letters /\ Texts \subseteq Seq(Letters)
    /\ Documents \subseteq Seq(Para) \ {<<>>}
    /\ {MaxLength, MaxRows, MaxEdits, MaxFaults} \subseteq Nat

VARIABLES
    engine,    \* the paragraphs LibreOffice holds
    disk,      \* what the file holds; for a new document, what it was when new
    read,      \* _paragraphs, the last reading back
    drafts,    \* _drafts: row -> text
    selected,  \* _selected
    mark,      \* _text_selection
    format,    \* _range_format: the character format of the selection
    failed,    \* _status is an error
    modified,  \* _modified
    named,     \* _path is not empty
    flushing,  \* _flush_timer is active
    rereading, \* _selection_timer is active
    todo,      \* the rest of the running slot
    dialog,    \* the dialog that is open: "unsaved", "file" or "none"
    leaving,   \* closeAfterSave
    window,    \* "open", "closed", or "discarded" after Don't save
    edits, faults  \* for the bounds

model == <<read, drafts, selected, mark, format, failed, modified, named, flushing, rereading>>
qml   == <<dialog, leaving, window>>
vars  == <<engine, disk, model, todo, qml, edits, faults>>

Text(p) == [i \in DOMAIN p.chars |-> p.chars[i].c]

\* A text that a paragraph can hold: Enter makes paragraphs, pasted breaks do not.
OneLine(text) == \A i \in DOMAIN text : text[i] \notin Breaks

NoSelection == <<0, 0>>
HasSelection == mark[2] > mark[1]

\* What the editor of a row shows.
Shown(i) == IF i \in DOMAIN drafts THEN drafts[i] ELSE Text(read[i])

Fault == faults < MaxFaults /\ faults' = faults + 1
Counted == edits < MaxEdits /\ edits' = edits + 1

\* formatAvailable: the selected row is there.  A flush that finds fewer rows
\* than were shown can leave it out of range (selectParagraph).
Available == selected \in DOMAIN read

\* The user can reach the document: no slot runs and no dialog is open.
Ready == todo = <<>> /\ dialog = "none" /\ window = "open"

-----------------------------------------------------------------------------
(* The engine: what its calls do to the paragraphs *)

\* The largest n for which s and t agree in their first n elements.
Agree(s, t) == Max({n \in 0..Min({Len(s), Len(t)}) : SubSeq(s, 1, n) = SubSeq(t, 1, n)})

\* The length of the common suffix that does not overlap a prefix of length k.
AgreeAtEnd(s, t, k) ==
    Max({n \in 0..(Min({Len(s), Len(t)}) - k) :
            SubSeq(s, Len(s) - n + 1, Len(s)) = SubSeq(t, Len(t) - n + 1, Len(t))})

\* replace_paragraph_text: only the span that differs is written, so the
\* characters around it keep their format; UNO gives the span one format.
Retyped(p, after, bold) ==
    LET k == Agree(Text(p), after)
        m == AgreeAtEnd(Text(p), after, k)
        shift == Len(p.chars) - Len(after)
    IN [p EXCEPT !.chars = [i \in 1..Len(after) |->
            IF i <= k THEN p.chars[i]
            ELSE IF i > Len(after) - m THEN p.chars[i + shift]
            ELSE [c |-> after[i], bold |-> bold]]]

Without(doc, i) == [j \in 1..(Len(doc) - 1) |-> IF j < i THEN doc[j] ELSE doc[j + 1]]

SplitAt(doc, i, position) ==
    LET p == doc[i]
        head == [p EXCEPT !.chars = SubSeq(@, 1, position)]
        tail == [p EXCEPT !.chars = SubSeq(@, position + 1, Len(@))]
    IN SubSeq(doc, 1, i - 1) \o <<head, tail>> \o SubSeq(doc, i + 1, Len(doc))

MergedInto(doc, i) ==
    Without([doc EXCEPT ![i - 1].chars = @ \o doc[i].chars], i)

Bolded(p, from, to, bold) ==
    [p EXCEPT !.chars = [j \in DOMAIN @ |->
        IF j > from /\ j <= to THEN [@[j] EXCEPT !.bold = bold] ELSE @[j]]]

\* The commands of _edit() and when the engine refuses them.
Command ==
    [do: {"split"}, row: Nat, position: Nat] \cup [do: {"merge"}, row: Nat]
    \cup [do: {"append"}, text: Texts] \cup [do: {"style"}, row: Nat, style: Styles]
    \cup [do: {"bold"}, row: Nat, whole: BOOLEAN, bold: BOOLEAN]

\* start and end of set_character_format: the selection, or the whole paragraph.
From(command) == IF command.whole THEN 0 ELSE mark[1]
To(command) == IF command.whole THEN Len(engine[command.row].chars) ELSE mark[2]

Accepted(command) ==
    \/ command.do = "append"
    \/ /\ command.do # "append" /\ command.row \in DOMAIN engine
       /\ command.do = "split" => command.position <= Len(engine[command.row].chars)
       /\ command.do = "merge" => command.row > 1
       /\ command.do = "bold" => To(command) <= Len(engine[command.row].chars)

Executed(command) ==
    CASE command.do = "split"  -> SplitAt(engine, command.row, command.position)
      [] command.do = "merge"  -> MergedInto(engine, command.row)
      [] command.do = "append" ->
           Append(engine, [chars |-> [i \in DOMAIN command.text |->
                                        [c |-> command.text[i], bold |-> FALSE]],
                           style |-> engine[Len(engine)].style])
      [] command.do = "style"  -> [engine EXCEPT ![command.row].style = command.style]
      [] command.do = "bold"   ->
           [engine EXCEPT ![command.row] = Bolded(@, From(command), To(command), command.bold)]

\* character_format: bold is None over characters that differ.
FormatOf(p, selection) ==
    LET bolds == {p.chars[j].bold : j \in (selection[1] + 1)..selection[2]}
    IN CASE bolds = {TRUE} -> "bold" [] bolds = {FALSE} -> "plain" [] OTHER -> "mixed"

Readable == selected \in DOMAIN engine /\ mark[2] <= Len(engine[selected].chars)

-----------------------------------------------------------------------------
(* refresh() *)

\* The part of refresh() that follows either outcome.
Unconfirm ==
    IF HasSelection
    THEN format' = "unknown" /\ rereading' = TRUE
    ELSE UNCHANGED <<format, rereading>>

\* Mutant: the format that was read for the selection is kept.
ReadBackKeepsFormat ==
    /\ read' = engine'
    /\ selected' = IF selected \in DOMAIN engine' THEN selected ELSE 1
    /\ UNCHANGED <<format, rereading>>

ReadBack ==
    /\ read' = engine'
    /\ selected' = IF selected \in DOMAIN engine' THEN selected ELSE 1
    /\ Unconfirm

\* The last reading and any unsent draft are kept.
ReadBackFails == Fault /\ Unconfirm /\ UNCHANGED <<read, selected>>

-----------------------------------------------------------------------------
(* The stages of a slot *)

Stage(name) == todo # <<>> /\ Head(todo).stage = name

\* The slot is saveAs(), called by QML.
IsSave == \E i \in DOMAIN todo : todo[i].stage = "store"

\* A slot that ends with False, and what QML's saved(false) makes of it.
Abandon ==
    /\ todo' = <<>> /\ failed' = TRUE
    /\ leaving' = (leaving /\ ~IsSave) /\ UNCHANGED <<dialog, window>>

FlushEnds ==
    /\ Stage("flush") /\ DOMAIN drafts = {}
    /\ flushing' = FALSE /\ todo' = Tail(todo)
    /\ UNCHANGED <<engine, disk, read, drafts, selected, mark, format, failed, modified, named,
                   rereading, qml, edits, faults>>

Forget(i) == drafts' = [j \in DOMAIN drafts \ {i} |-> drafts[j]]

\* A pasted paragraph break, or a paragraph that is neither what was read nor
\* what is to be written: refused.
FlushRefused ==
    /\ Stage("flush") /\ flushing' = FALSE
    /\ \E i \in DOMAIN drafts :
         \/ ~OneLine(drafts[i])
         \/ i \in DOMAIN engine => Text(engine[i]) \notin {Text(read[i]), drafts[i]}
    /\ Abandon
    /\ UNCHANGED <<engine, disk, read, drafts, selected, mark, format, modified, named, rereading,
                   edits, faults>>

\* replace_paragraph_text; nothing is written when the text is already there.
Written(i) ==
    /\ OneLine(drafts[i])
    /\ i \in DOMAIN engine /\ Text(engine[i]) \in {Text(read[i]), drafts[i]}
    /\ \E bold \in BOOLEAN : engine' = [engine EXCEPT ![i] = Retyped(@, drafts[i], bold)]

\* Mutant: the draft is dropped when it was written, before it is read back.
FlushWriteForgets ==
    /\ Stage("flush") /\ flushing' = FALSE
    /\ \E i \in DOMAIN drafts :
         /\ Written(i) /\ Forget(i)
         /\ \/ ReadBack /\ failed' = FALSE /\ UNCHANGED <<todo, qml, faults>>
            \/ ReadBackFails /\ Abandon
    /\ UNCHANGED <<disk, mark, modified, named, edits>>

\* A draft is written and read back; only then it is dropped.
FlushWrite ==
    /\ Stage("flush") /\ flushing' = FALSE
    /\ \E i \in DOMAIN drafts :
         /\ Written(i)
         /\ \/ /\ ReadBack /\ Forget(i) /\ failed' = FALSE
               /\ UNCHANGED <<todo, qml, faults>>
            \/ ReadBackFails /\ Abandon /\ UNCHANGED drafts
    /\ UNCHANGED <<disk, mark, modified, named, edits>>

\* Mutant: the slot returns False and says nothing.
FlushFailsSilently ==
    /\ Stage("flush") /\ flushing' = FALSE /\ Fault /\ todo' = <<>>
    /\ UNCHANGED <<engine, disk, read, drafts, selected, mark, format, failed, modified, named,
                   rereading, qml, edits>>

\* The engine raises, with or without having written.
FlushFails ==
    /\ Stage("flush") /\ flushing' = FALSE /\ Fault
    /\ \E i \in DOMAIN drafts : Written(i) \/ UNCHANGED engine
    /\ Abandon
    /\ UNCHANGED <<disk, read, drafts, selected, mark, format, modified, named, rereading, edits>>

\* Mutant: the document is marked as modified when the command was read back.
EditMarksLate ==
    /\ Stage("edit")
    /\ Accepted(Head(todo).command) /\ engine' = Executed(Head(todo).command)
    /\ \/ ReadBack /\ modified' = TRUE /\ failed' = FALSE /\ todo' = Tail(todo)
          /\ UNCHANGED <<qml, faults>>
       \/ ReadBackFails /\ Abandon /\ UNCHANGED modified
    /\ UNCHANGED <<disk, drafts, mark, named, flushing, edits>>

\* _edit(): the command succeeds, and so does the reading back, or not.
Edit ==
    /\ Stage("edit") /\ modified' = TRUE
    /\ LET command == Head(todo).command IN
         /\ Accepted(command) /\ engine' = Executed(command)
         /\ \/ /\ ReadBack /\ failed' = FALSE /\ todo' = Tail(todo)
               /\ UNCHANGED <<qml, faults>>
            \/ ReadBackFails /\ Abandon
    /\ UNCHANGED <<disk, drafts, mark, named, flushing, edits>>

\* The engine refuses the command or raises in the middle of it; the document
\* is read back all the same.
EditFails ==
    /\ Stage("edit") /\ modified' = TRUE
    /\ LET command == Head(todo).command IN
         \/ /\ ~Accepted(command) /\ UNCHANGED engine
            /\ (ReadBack /\ UNCHANGED faults) \/ ReadBackFails
         \/ /\ Accepted(command) /\ Fault
            /\ engine' = Executed(command) \/ UNCHANGED engine
            /\ ReadBack
    /\ Abandon
    /\ UNCHANGED <<disk, drafts, mark, named, flushing, edits>>

\* The new row of splitParagraph, mergeParagraph and selectParagraph.
Goto ==
    /\ Stage("goto")
    /\ selected' = Head(todo).row
    /\ IF Head(todo).clear
       THEN mark' = NoSelection /\ format' = "unknown" /\ rereading' = FALSE
       ELSE UNCHANGED <<mark, format, rereading>>
    /\ todo' = Tail(todo)
    /\ UNCHANGED <<engine, disk, read, drafts, failed, modified, named, flushing, qml, edits,
                   faults>>

\* The end of _read_selection(): ask the engine for the format of the selection.
ReadFormat ==
    /\ Stage("format") /\ rereading' = FALSE
    /\ \/ ~HasSelection /\ UNCHANGED <<format, failed, faults, qml>> /\ todo' = Tail(todo)
       \/ /\ HasSelection /\ Readable
          /\ format' = FormatOf(engine[selected], mark)
          /\ failed' = FALSE /\ todo' = Tail(todo)
          /\ UNCHANGED <<faults, qml>>
       \/ /\ HasSelection
          /\ (~Readable /\ UNCHANGED faults) \/ Fault
          /\ format' = "unknown" /\ Abandon
    /\ UNCHANGED <<engine, disk, read, drafts, selected, mark, modified, named, flushing, edits>>

\* The end of saveAs(), and saved(true) in QML.
Store ==
    /\ Stage("store")
    /\ disk' = engine /\ named' = TRUE /\ failed' = FALSE /\ modified' = FALSE
    /\ todo' = Tail(todo)
    /\ window' = IF leaving THEN "closed" ELSE window
    /\ leaving' = FALSE
    /\ UNCHANGED <<engine, read, drafts, selected, mark, format, flushing, rereading, dialog,
                   edits, faults>>

\* The file may have been written although the engine, or the bridge, raised.
StoreFails ==
    /\ Stage("store") /\ Fault
    /\ disk' = engine \/ UNCHANGED disk
    /\ Abandon
    /\ UNCHANGED <<engine, read, drafts, selected, mark, format, modified, named, flushing,
                   rereading, edits>>

\* exportPdf() leaves the path and the modified mark alone.
Export ==
    /\ Stage("export")
    /\ \/ failed' = FALSE /\ todo' = Tail(todo) /\ UNCHANGED <<qml, faults>>
       \/ Fault /\ Abandon
    /\ UNCHANGED <<engine, disk, read, drafts, selected, mark, format, modified, named, flushing,
                   rereading, edits>>

-----------------------------------------------------------------------------
(* The slots: what the user and the timers start *)

Flushed == [stage |-> "flush"]
Do(command) == [stage |-> "edit", command |-> command]
Move(row, clear) == [stage |-> "goto", row |-> row, clear |-> clear]
Then(name) == [stage |-> name]
Stages == [stage: {"flush", "format", "store", "export"}]
          \cup [stage: {"edit"}, command: Command]
          \cup [stage: {"goto"}, row: Nat, clear: BOOLEAN]

ClearSelection == mark' = NoSelection /\ format' = "unknown" /\ rereading' = FALSE
KeepSelection == UNCHANGED <<mark, format, rereading>>

\* queueText: the text of the focused editor has changed.
QueueText(text) ==
    /\ Ready /\ Counted
    /\ Available /\ text # Shown(selected)
    /\ ClearSelection
    /\ IF text = Text(read[selected])
       THEN Forget(selected) /\ UNCHANGED modified
       ELSE /\ drafts' = [i \in DOMAIN drafts \cup {selected} |->
                            IF i = selected THEN text ELSE drafts[i]]
            /\ modified' = TRUE
    /\ flushing' = TRUE
    /\ UNCHANGED <<engine, disk, read, selected, failed, named, todo, qml, faults>>

Slot(stages) ==
    /\ Ready /\ Counted /\ todo' = stages
    /\ UNCHANGED <<engine, disk, read, drafts, selected, failed, modified, named, flushing, qml,
                   faults>>

\* Enter; the caret is in the selected row.
SplitParagraph ==
    /\ Available
    /\ \E position \in 0..Len(Shown(selected)) :
         Slot(<<Flushed, Do([do |-> "split", row |-> selected, position |-> position]),
                Move(selected + 1, FALSE)>>)
    /\ Len(read) < MaxRows
    /\ ClearSelection

\* Backspace at the start of the selected row, or Delete at the end of it.
MergeParagraph ==
    /\ Available
    /\ \E row \in {selected, selected + 1} \cap (2..Len(read)) :
         /\ Len(Shown(row)) + Len(Shown(row - 1)) <= MaxLength
         /\ Slot(<<Flushed, Do([do |-> "merge", row |-> row]), Move(row - 1, FALSE)>>)
    /\ ClearSelection

AppendParagraph ==
    /\ Len(read) < MaxRows
    /\ \E text \in {t \in Texts : OneLine(t)} :
         Slot(<<Flushed, Do([do |-> "append", text |-> text])>>)
    /\ KeepSelection

\* applyStyle and applyAlignment
ApplyStyle ==
    /\ Available
    /\ \E style \in Styles :
         Slot(<<Flushed, Do([do |-> "style", row |-> selected, style |-> style])>>)
    /\ KeepSelection

\* applyFormat, applyFont, applyFontSize: the buttons are enabled while the
\* format of the selection is known.  With a selection it is read again first.
ApplyFormat ==
    /\ Available
    /\ HasSelection => format # "unknown"
    /\ \E bold \in BOOLEAN :
         LET command == [do |-> "bold", row |-> selected, whole |-> ~HasSelection, bold |-> bold]
         IN Slot(IF HasSelection
                 THEN <<Flushed, Then("format"), Do(command), Then("format")>>
                 ELSE <<Flushed, Do(command), Then("format")>>)
    /\ KeepSelection

\* Another editor takes the focus.
SelectParagraph ==
    /\ \E row \in DOMAIN read \ {selected} : Slot(<<Flushed, Move(row, TRUE)>>)
    /\ KeepSelection

\* The focused editor reports its selection.
SetTextSelection ==
    /\ Ready /\ Counted /\ Available
    /\ \E from, to \in 0..Len(Shown(selected)) :
         from <= to /\ <<from, to>> # mark /\ mark' = <<from, to>>
    /\ format' = "unknown" /\ rereading' = TRUE
    /\ UNCHANGED <<engine, disk, read, drafts, selected, failed, modified, named, flushing, todo,
                   qml, faults>>

\* The two timers; they also fire while a dialog is open.
TimerFires ==
    /\ todo = <<>> /\ window = "open"
    /\ \/ flushing /\ flushing' = FALSE /\ todo' = <<Flushed>> /\ UNCHANGED rereading
       \/ /\ rereading /\ rereading' = FALSE /\ UNCHANGED flushing
          /\ todo' = IF HasSelection THEN <<Flushed, Then("format")>> ELSE <<>>
    /\ UNCHANGED <<engine, disk, read, drafts, selected, mark, format, failed, modified, named,
                   qml, edits, faults>>

ExportPdf == Slot(<<Flushed, Then("export")>>) /\ KeepSelection

-----------------------------------------------------------------------------
(* Saving and closing, in Writer.qml *)

Saving == <<Flushed, Then("store")>>

\* saveDocument(): a document without a name is given one first.
Save(close) ==
    /\ leaving' = close
    /\ IF named THEN dialog' = "none" /\ todo' = Saving
                ELSE dialog' = "file" /\ UNCHANGED todo
    /\ UNCHANGED <<engine, disk, model, window, edits, faults>>

SaveDocument == Ready /\ Save(FALSE)

\* The file dialog is accepted with a local file, or with another address, or rejected.
FileDialog ==
    /\ dialog = "file" /\ todo = <<>> /\ dialog' = "none"
    /\ \/ todo' = Saving /\ UNCHANGED leaving
       \/ leaving' = FALSE /\ UNCHANGED todo
    /\ UNCHANGED <<engine, disk, model, window, edits, faults>>

SaveAs == Ready /\ dialog' = "file" /\ UNCHANGED <<engine, disk, model, todo, leaving, window,
                                                   edits, faults>>

\* Mutant: the window looks at the drafts and not at the modified mark.
CloseWindowWithoutDrafts ==
    /\ Ready
    /\ IF drafts # <<>> THEN dialog' = "unsaved" /\ UNCHANGED window
                        ELSE window' = "closed" /\ UNCHANGED dialog
    /\ UNCHANGED <<engine, disk, model, todo, leaving, edits, faults>>

CloseWindow ==
    /\ Ready
    /\ IF modified THEN dialog' = "unsaved" /\ UNCHANGED window
                   ELSE window' = "closed" /\ UNCHANGED dialog
    /\ UNCHANGED <<engine, disk, model, todo, leaving, edits, faults>>

UnsavedDialog ==
    /\ dialog = "unsaved" /\ todo = <<>>
    /\ \/ Save(TRUE)
       \/ /\ dialog' = "none" /\ window' \in {"discarded", "open"}
          /\ UNCHANGED <<engine, disk, model, todo, leaving, edits, faults>>

-----------------------------------------------------------------------------
Init ==
    /\ engine \in Documents /\ disk = engine /\ read = engine
    /\ drafts = <<>> /\ selected = 1
    /\ mark = NoSelection /\ format = "unknown"
    /\ failed = FALSE /\ modified = FALSE /\ named \in BOOLEAN
    /\ flushing = FALSE /\ rereading = FALSE /\ todo = <<>>
    /\ dialog = "none" /\ leaving = FALSE /\ window = "open"
    /\ edits = 0 /\ faults = 0

User ==
    \/ \E text \in Texts : QueueText(text)
    \/ SplitParagraph \/ MergeParagraph \/ AppendParagraph \/ ApplyStyle \/ ApplyFormat
    \/ SelectParagraph \/ SetTextSelection \/ ExportPdf
    \/ SaveDocument \/ SaveAs \/ FileDialog \/ CloseWindow \/ UnsavedDialog

StageStep ==
    \/ FlushEnds \/ FlushRefused \/ FlushWrite \/ FlushFails \/ Edit \/ EditFails \/ Goto
    \/ ReadFormat \/ Store \/ StoreFails \/ Export

Next == User \/ TimerFires \/ StageStep

Spec == Init /\ [][Next]_vars

-----------------------------------------------------------------------------
(* Properties *)

\* The modified mark is honest: without it the file holds everything that the
\* engine holds and no draft waits, also after commands that failed half-way
\* and files that were or were not written (_edit, queueText, saveAs).
NothingUnsaved == ~modified => disk = engine /\ DOMAIN drafts = {}

\* The window closes without a question only when nothing is lost by it
\* (onClosing, saved, the dialogs).
CloseLosesNothing == window = "closed" => disk = engine /\ DOMAIN drafts = {}

\* "Failed writes or readbacks retain drafts": other than by typing, a draft
\* goes only when the engine holds it and was read back (flushEdits).
DraftConfirmed ==
    [][ todo # <<>> =>
          \A i \in DOMAIN drafts \ DOMAIN drafts' :
             read' = engine' /\ Text(engine'[i]) = drafts[i] ]_vars

\* A draft is never left behind in silence: a flush is due or running, or the
\* status line shows the error that stopped it (queueText, flushEdits).
DraftIsTold ==
    DOMAIN drafts # {} =>
        flushing \/ failed \/ (todo # <<>> /\ Head(todo).stage = "flush")

\* The character format that the ribbon shows for a selection is the format the
\* engine has there now (_read_selection, refresh: "never leave stale pressed
\* states").
FormatIsCurrent ==
    (HasSelection /\ format # "unknown") =>
        Readable /\ format = FormatOf(engine[selected], mark)

\* "Failed writes or readbacks retain drafts, remain dirty and block successful
\* save": what a successful save writes is what the editors show.
SavedAsShown ==
    [][ (modified /\ ~modified') =>
          /\ Len(disk') = Len(read)
          /\ \A i \in DOMAIN read : Text(disk'[i]) = Shown(i) ]_vars
=============================================================================
