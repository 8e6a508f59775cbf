----------------------------- MODULE DesktopProofs -----------------------------
(***************************************************************************)
(* Proofs about the parts of the desktop that share no state: what a save  *)
(* of the switches leaves in settings.conf, where an edit of Zaldros       *)
(* Sheets lands, and what the facade knows of a service on the bus.        *)
(***************************************************************************)
EXTENDS Preferences, Sheets, ServiceBus, QueueProofs, SequenceTheorems, TLAPS

-----------------------------------------------------------------------------
(* What a save of the switches leaves in settings.conf, for every set of     *)
(* switches and any number of edits by hand.                                     *)


Named == UnknownKey \notin Switches
ConfText == Files \cup {Garbled}

(* A save in progress: the switches it will write are the file's, but for   *)
(* the clicked one; until the new file has its place nothing else touches   *)
(* the old one, and the temporary file is unfinished or whole.              *)
LoadedBy(by, k, v) ==
    saving = [by |-> by, step |-> "loaded", key |-> k, value |-> v,
              switches |-> [load(before) EXCEPT ![k] = v]]
WrittenBy(by, k, v) ==
    /\ saving = [by |-> by, step |-> "written", key |-> k, value |-> v,
                 body |-> Merged(before, [load(before) EXCEPT ![k] = v])]
    /\ temp \in {Half, saving.body}
SavingInv ==
    /\ conf \in ConfText /\ before \in ConfText
    /\ \/ saving = NoSave
       \/ /\ conf = before
          /\ \E by \in {"row", "prefs"}, k \in Switches, v \in BOOLEAN :
                LoadedBy(by, k, v) \/ WrittenBy(by, k, v)

(* The line of an unknown key is text of the old file, and none of it when  *)
(* that file cannot be read (prefs._read_raw).                              *)
LEMMA RawIsText == ASSUME NEW f \in ConfText PROVE read_raw(f) \in Files
<1>1. Empty \in Files  BY DEF Empty, Files
<1>2. CASE f \in {Garbled, Half}  BY <1>1, <1>2 DEF read_raw
<1>3. CASE f \notin {Garbled, Half}  BY <1>3 DEF read_raw, ConfText
<1> QED  BY <1>2, <1>3

(* Merging keeps a file a file, with the switches it was given and the      *)
(* lines it does not know (prefs.save).                                     *)
LEMMA MergedIsRead ==
    ASSUME Named, NEW f \in ConfText, NEW sw \in [Switches -> BOOLEAN]
    PROVE  /\ Merged(f, sw) \in Files
           /\ load(Merged(f, sw)) = sw
           /\ Merged(f, sw)[UnknownKey] = read_raw(f)[UnknownKey]
           /\ Merged(f, sw) # Half
<1> DEFINE m == Merged(f, sw)
<1>0. read_raw(f) \in Files  BY RawIsText
<1>1. /\ m = [l \in Lines |-> IF l \in Switches THEN Word(sw[l]) ELSE read_raw(f)[l]]
      /\ UnknownKey \in Lines /\ Switches \subseteq Lines
  BY DEF Merged, Lines
<1>2. m[UnknownKey] = read_raw(f)[UnknownKey]  BY <1>1 DEF Named
<1>3. m \in Files  BY <1>0, <1>1 DEF Files, Word
<1>4. m[UnknownKey] \in {"none", "true", "false", "junk"}  BY <1>1, <1>3 DEF Files
<1>5. Garbled[UnknownKey] = "garbled" /\ Half[UnknownKey] = "half"  BY <1>1 DEF Garbled, Half
<1>6. m \notin {Garbled, Half}  BY <1>4, <1>5
<1>7. read_raw(m) = m  BY <1>6 DEF read_raw
<1>8. \A k \in Switches : (m[k] # "false") = sw[k]
  <2> SUFFICES ASSUME NEW k \in Switches PROVE (m[k] # "false") = sw[k]  OBVIOUS
  <2>1. m[k] = Word(sw[k])  BY <1>1
  <2>2. sw[k] \in BOOLEAN  OBVIOUS
  <2> QED  BY <2>1, <2>2 DEF Word
<1>9. load(m) = [k \in Switches |-> m[k] # "false"]  BY <1>7 DEF load
<1>10. load(m) = sw  BY <1>8, <1>9
<1> QED  BY <1>2, <1>3, <1>6, <1>10

LEMMA LoadedType == ASSUME NEW f PROVE load(f) \in [Switches -> BOOLEAN]
BY DEF load

LEMMA InitSaving == PrefsInit => SavingInv
<1> SUFFICES ASSUME PrefsInit PROVE SavingInv  OBVIOUS
<1>1. Empty \in Files /\ [Empty EXCEPT ![UnknownKey] = "true"] \in Files  BY DEF Empty, Files
<1> QED  BY <1>1 DEF PrefsInit, SavingInv, ConfText

(* Every step keeps the invariant, and a step within a save changes the file *)
(* only as the property says.                                                *)
AsPromised ==
    saving # NoSave =>
          \/ conf' = conf
          \/ /\ conf' \in Files
             /\ load(conf') = [load(before) EXCEPT ![saving.key] = saving.value]
             /\ conf'[UnknownKey] = read_raw(before)[UnknownKey]

LEMMA StepSaving == Named /\ SavingInv /\ [PrefsNext]_prefVars => SavingInv' /\ AsPromised
<1> SUFFICES ASSUME Named, SavingInv, [PrefsNext]_prefVars PROVE SavingInv' /\ AsPromised
  OBVIOUS
<1> USE DEF AsPromised
<1>0. ConfText' = ConfText /\ conf \in ConfText /\ before \in ConfText  BY DEF SavingInv, ConfText, Files, Garbled
<1>idle. "idle" # "loaded" /\ "idle" # "written" /\ NoSave.step = "idle"  BY DEF NoSave
<1>begin. ASSUME NEW by \in {"row", "prefs"}, NEW k \in Switches, NEW v \in BOOLEAN, Begin(by, k, v)
          PROVE SavingInv' /\ AsPromised
  <2>1. conf' = conf /\ before' = conf /\ saving = NoSave  BY <1>begin DEF Begin
  <2>2. saving' = [by |-> by, step |-> "loaded", key |-> k, value |-> v,
                   switches |-> [load(before') EXCEPT ![k] = v]]
    BY <2>1, <1>begin DEF Begin
  <2>3. LoadedBy(by, k, v)'  BY <2>2 DEF LoadedBy
  <2> QED  BY <1>0, <2>1, <2>3 DEF SavingInv, ConfText
<1>1. CASE ActivateRow
  <2>1. PICK k \in Switches : Begin("row", k, ~load(conf)[k])  BY <1>1 DEF ActivateRow
  <2> QED  BY <2>1, <1>begin
<1>2. CASE PrefsSet  BY <1>2, <1>begin DEF PrefsSet
<1>3. CASE PrefsToggle
  <2>1. PICK k \in Switches : Begin("prefs", k, ~values[k])  BY <1>3 DEF PrefsToggle
  <2>2. (~values[k]) \in BOOLEAN  OBVIOUS
  <2> QED  BY <2>1, <2>2, <1>begin
<1>4. CASE WriteTemp
  <2>1. saving # NoSave  BY <1>4, <1>idle DEF WriteTemp
  <2>a. PICK by \in {"row", "prefs"}, k \in Switches, v \in BOOLEAN :
          LoadedBy(by, k, v) \/ WrittenBy(by, k, v)
    BY <2>1 DEF SavingInv
  <2>2. LoadedBy(by, k, v)  BY <2>a, <1>4 DEF WrittenBy, WriteTemp
  <2>3. conf = before  BY <2>1 DEF SavingInv
  <2>4. /\ saving' = [by |-> by, step |-> "written", key |-> k, value |-> v,
                      body |-> Merged(before, [load(before) EXCEPT ![k] = v])]
        /\ temp' = Half /\ conf' = conf /\ before' = before
    BY <2>2, <2>3, <1>4 DEF WriteTemp, LoadedBy
  <2>5. WrittenBy(by, k, v)'  BY <2>4 DEF WrittenBy, Merged, load, read_raw, Lines, Garbled, Half, Empty, Word
  <2> QED  BY <1>0, <2>3, <2>4, <2>5 DEF SavingInv
<1>5. CASE CloseTemp
  <2>1. saving # NoSave /\ temp' = saving.body /\ UNCHANGED <<conf, saving, before>>
    BY <1>5, <1>idle DEF CloseTemp
  <2>2. PICK by \in {"row", "prefs"}, k \in Switches, v \in BOOLEAN :
          LoadedBy(by, k, v) \/ WrittenBy(by, k, v)
    BY <2>1 DEF SavingInv
  <2>3. WrittenBy(by, k, v)  BY <2>2, <1>5 DEF LoadedBy, CloseTemp
  <2>4. WrittenBy(by, k, v)'  BY <2>1, <2>3 DEF WrittenBy, Merged, load, read_raw, Lines, Garbled, Half, Empty, Word
  <2>5. conf' = before'  BY <2>1 DEF SavingInv
  <2> QED  BY <1>0, <2>1, <2>4, <2>5 DEF SavingInv
<1>6. CASE Replace
  <2>1. saving # NoSave /\ conf' = temp /\ temp # Half /\ saving' = NoSave /\ before' = before
    BY <1>6, <1>idle DEF Replace
  <2>a. PICK by \in {"row", "prefs"}, k \in Switches, v \in BOOLEAN :
          LoadedBy(by, k, v) \/ WrittenBy(by, k, v)
    BY <2>1 DEF SavingInv
  <2>2. WrittenBy(by, k, v)  BY <2>a, <1>6 DEF LoadedBy, Replace
  <2> DEFINE sw == [load(before) EXCEPT ![k] = v]
  <2>3. sw \in [Switches -> BOOLEAN]  BY LoadedType
  <2>4. conf' = Merged(before, sw) /\ saving.key = k /\ saving.value = v  BY <2>1, <2>2 DEF WrittenBy
  <2>5. /\ conf' \in Files /\ load(conf') = sw
        /\ conf'[UnknownKey] = read_raw(before)[UnknownKey]
    BY <1>0, <2>3, <2>4, MergedIsRead
  <2> QED  BY <1>0, <2>1, <2>4, <2>5 DEF SavingInv, ConfText
<1>7. CASE Refresh  BY <1>7, <1>0 DEF Refresh, SavingInv, NoSave
<1>8. CASE PowerCut  BY <1>8, <1>0 DEF PowerCut, SavingInv
<1>9. CASE EditByHand
  <2>1. saving = NoSave /\ saving' = saving /\ before' = before  BY <1>9 DEF EditByHand
  <2>2. read_raw(conf) \in Files  BY <1>0, RawIsText
  <2>3. conf' \in ConfText  BY <1>9, <2>2 DEF EditByHand, ConfText, Files
  <2> QED  BY <1>0, <2>1, <2>3 DEF SavingInv
<1>10. CASE UNCHANGED prefVars  BY <1>10, <1>0, ZenonT(60) DEF prefVars, SavingInv, LoadedBy, WrittenBy
<1> QED  BY <1>1, <1>2, <1>3, <1>4, <1>5, <1>6, <1>7, <1>8, <1>9, <1>10 DEF PrefsNext

(* However the switches are clicked and the file is edited, and wherever the *)
(* power goes, a save leaves the old file or a whole new one, in which only  *)
(* the clicked switch has another meaning (prefs.save, prefs.set_value).     *)
THEOREM SavesAreWhole == ASSUME Named PROVE PrefsSpec => OnlyTheSwitchChanges
<1>1. PrefsInit => SavingInv  BY InitSaving
<1>2. SavingInv /\ [PrefsNext]_prefVars => SavingInv' /\ [AsPromised]_prefVars
  BY StepSaving
<1> QED  BY <1>1, <1>2, PTL DEF PrefsSpec, OnlyTheSwitchChanges, AsPromised

-----------------------------------------------------------------------------
(* Where an edit of Zaldros Sheets lands, for every grid, everything that can *)
(* be typed and any number of edits, whichever call of the engine fails.      *)

(* The open editor belongs to its cell and, while it is bound, the formula   *)
(* bar to the selected cell.  The cell of the editor need not be the         *)
(* selected one.                                                             *)
BarFollows == DOMAIN bar = {"text", "of", "bound"} /\ (bar.bound => bar.of = selectedCell)
EditInv ==
    /\ draft = [text |-> draft.text, of |-> draft.of]
    /\ BarFollows
    /\ editing # NoCell => draft.of = editing
    /\ EditsLandWhereTyped

LEMMA InitEdit == GridInit => EditInv
BY DEF GridInit, EditInv, BarFollows, EditsLandWhereTyped, NoCell, Anchor

(* Selecting keeps a bound bar with the selected cell.                       *)
LEMMA SelectKeepsBar == ASSUME BarFollows, NEW c, select(c) PROVE BarFollows'
<1>1. CASE bar.bound
  <2>1. PICK text \in FormulaOf(formulas', c) : bar' = [bar EXCEPT !.text = text, !.of = c]
    BY <1>1 DEF select
  <2>2. selectedCell' = c  BY DEF select
  <2> QED  BY <2>1, <2>2 DEF BarFollows
<1>2. CASE ~bar.bound  BY <1>2 DEF select, BarFollows
<1> QED  BY <1>1, <1>2

LEMMA BeginKeeps == ASSUME EditInv, NEW c, NEW text, beginEdit(c, text) PROVE EditInv'
<1>1. landed' = landed /\ editing' = c /\ draft' = [text |-> text, of |-> c] /\ select(c)
  BY DEF beginEdit, NoCommit
<1>2. draft' = [text |-> draft'.text, of |-> draft'.of] /\ draft'.of = editing'
  BY <1>1
<1> QED  BY <1>1, <1>2, SelectKeepsBar DEF EditInv, EditsLandWhereTyped

(* An edit the engine took, or took without an answer, or did not take.      *)
LEMMA Lands ==
    ASSUME EditsLandWhereTyped, NEW c, NEW raw, NEW of, NEW loose,
           of = c \/ loose,
           commit(c, raw, of, loose) \/ CommitFails(c, raw, of, loose)
    PROVE  EditsLandWhereTyped'
<1>1. landed' = [typed |-> of, changed |-> c, loose |-> loose] \/ landed' = landed
  BY DEF commit, CommitFails, Took
<1> QED  BY <1>1 DEF EditsLandWhereTyped

LEMMA CommitKeeps == ASSUME EditInv, NEW c, commitEdit(c) PROVE EditInv'
<1>1. /\ editing # NoCell /\ editing' = NoCell /\ draft' = draft /\ select(c)
      /\ \/ commit(editing, draft.text, draft.of, FALSE)
         \/ CommitFails(editing, draft.text, draft.of, FALSE)
  BY DEF commitEdit
<1>2. EditsLandWhereTyped'  BY <1>1, Lands DEF EditInv
<1> QED  BY <1>1, <1>2, SelectKeepsBar DEF EditInv

LEMMA CommitSelectedKeeps ==
    ASSUME EditInv, NEW raw, NEW of, NEW loose, of = selectedCell \/ loose,
           CommitSelected(raw, of, loose), UNCHANGED <<editing, draft>>
    PROVE  EditInv'
<1>1. \/ commit(selectedCell, raw, of, loose) /\ select(selectedCell)
      \/ CommitFails(selectedCell, raw, of, loose) /\ UNCHANGED <<selectedCell, bar>>
  BY DEF CommitSelected
<1>2. EditsLandWhereTyped'  BY <1>1, Lands DEF EditInv
<1>3. BarFollows'  BY <1>1, SelectKeepsBar DEF EditInv, BarFollows
<1> QED  BY <1>2, <1>3 DEF EditInv

LEMMA StepEdit == EditInv /\ [GridNext]_gridVars => EditInv'
<1> SUFFICES ASSUME EditInv, [GridNext]_gridVars PROVE EditInv'  OBVIOUS
<1>1. ASSUME NEW c \in Cells, Click(c) PROVE EditInv'
  <2>1. landed' = landed /\ editing' = editing /\ draft' = draft /\ select(c)
    BY <1>1 DEF Click, NoCommit
  <2> QED  BY <2>1, SelectKeepsBar DEF EditInv, EditsLandWhereTyped
<1>2. ASSUME NEW c \in Cells, DoubleClick(c) PROVE EditInv'
  <2>1. PICK text \in FormulaOf(formulas, c) : beginEdit(c, text)  BY <1>2 DEF DoubleClick
  <2> QED  BY <2>1, BeginKeeps
<1>3. CASE EditKey
  <2>1. PICK text \in Raw \cup FormulaOf(formulas, selectedCell) : beginEdit(selectedCell, text)
    BY <1>3 DEF EditKey
  <2> QED  BY <2>1, BeginKeeps
<1>4. CASE TypeInCell
  <2>1. PICK text \in Raw : draft' = [draft EXCEPT !.text = text]  BY <1>4 DEF TypeInCell
  <2>2. draft' = [text |-> text, of |-> draft.of]  BY <2>1 DEF EditInv
  <2>3. draft' = [text |-> draft'.text, of |-> draft'.of] /\ draft'.of = draft.of  BY <2>2
  <2>4. UNCHANGED <<landed, selectedCell, editing, bar>>  BY <1>4 DEF TypeInCell, NoCommit
  <2> QED  BY <2>3, <2>4 DEF EditInv, BarFollows, EditsLandWhereTyped
<1>5. CASE Enter  BY <1>5, CommitKeeps DEF Enter
<1>6. CASE Tab  BY <1>6, CommitKeeps DEF Tab
<1>7. CASE cancelEdit
      BY <1>7 DEF cancelEdit, NoCommit, EditInv, BarFollows, EditsLandWhereTyped
<1>8. CASE Delete  BY <1>8, CommitSelectedKeeps DEF Delete
<1>9. CASE TypeInBar
  <2>1. PICK text \in Raw : bar' = [bar EXCEPT !.text = text, !.of = selectedCell]
    BY <1>9 DEF TypeInBar
  <2>2. UNCHANGED <<landed, selectedCell, editing, draft>>  BY <1>9 DEF TypeInBar, NoCommit
  <2>3. BarFollows'  BY <2>1, <2>2 DEF EditInv, BarFollows
  <2> QED  BY <2>2, <2>3 DEF EditInv, EditsLandWhereTyped
<1>10. CASE AcceptBar
  <2>1. bar.of = selectedCell \/ ~bar.bound  BY DEF EditInv, BarFollows
  <2> QED  BY <1>10, <2>1, CommitSelectedKeeps DEF AcceptBar
<1>11. CASE EscapeBar
  <2>1. PICK text \in FormulaOf(formulas, selectedCell) :
           bar' = [text |-> text, of |-> selectedCell, bound |-> FALSE]
    BY <1>11 DEF EscapeBar
  <2>2. UNCHANGED <<landed, selectedCell, editing, draft>>  BY <1>11 DEF EscapeBar, NoCommit
  <2> QED  BY <2>1, <2>2 DEF EditInv, BarFollows, EditsLandWhereTyped
<1>12. CASE UNCHANGED gridVars
       BY <1>12 DEF gridVars, EditInv, BarFollows, EditsLandWhereTyped
<1> QED
  BY <1>1, <1>2, <1>3, <1>4, <1>5, <1>6, <1>7, <1>8, <1>9, <1>10, <1>11, <1>12 DEF GridNext

(* However the selection moves while a cell or the formula bar is edited,    *)
(* and whatever the engine refuses, an edit lands in the cell it was typed   *)
(* for, unless Escape had been pressed in the formula bar it came from       *)
(* (SheetGrid.qml commitEdit, Sheets.qml onAccepted, model.py commit).       *)
THEOREM EditsLand == GridSpec => []EditsLandWhereTyped
<1>1. EditInv => EditsLandWhereTyped  BY DEF EditInv
<1>2. EditInv /\ [GridNext]_gridVars => EditInv'  BY StepEdit
<1> QED  BY <1>1, <1>2, InitEdit, PTL DEF GridSpec

-----------------------------------------------------------------------------
(* What a service says reaches the facade, for every tree of objects, every  *)
(* set of questions and every bound.                                         *)
(*                                                                           *)
(* Delivery is known by its two equations: what dispatch() makes of no       *)
(* messages and of one more.                                                 *)
Runs(g, st, queue, n) ==
    g = [i \in 0 .. n |-> IF i = 0 THEN st ELSE Delivered(g[i - 1], queue[i])]

LEMMA RunExists ==
    ASSUME NEW st, NEW queue, NEW n \in Nat
    PROVE  \E g : Runs(g, st, queue, n)
<1> DEFINE T == {k \in Nat : \E g : Runs(g, st, queue, k)}
<1>1. 0 \in T
  <2>1. Runs([i \in 0 .. 0 |-> st], st, queue, 0)  BY DEF Runs
  <2> QED  BY <2>1
<1>2. ASSUME NEW k \in 0 .. n - 1, k \in T PROVE k + 1 \in T
  <2>1. PICK g : Runs(g, st, queue, k)  BY <1>2
  <2> DEFINE last == Delivered(g[k], queue[k + 1])
             h == [i \in 0 .. k + 1 |-> IF i = k + 1 THEN last ELSE g[i]]
  <2>2. \A i \in 0 .. k : h[i] = g[i]  OBVIOUS
  <2>3. h[k + 1] = last  OBVIOUS
  <2>4. \A i \in 0 .. k : g[i] = IF i = 0 THEN st ELSE Delivered(g[i - 1], queue[i])
    BY <2>1 DEF Runs
  <2>5. \A i \in 0 .. k + 1 : h[i] = IF i = 0 THEN st ELSE Delivered(h[i - 1], queue[i])
    <3>1. TAKE i \in 0 .. k + 1
    <3>2. CASE i = k + 1
      <4>1. h[i - 1] = g[k]  BY <2>2, <3>2
      <4> HIDE DEF h
      <4> QED  BY <2>3, <3>2, <4>1
    <3>3. CASE i \in 1 .. k
      <4>1. h[i] = g[i] /\ h[i - 1] = g[i - 1]  BY <2>2, <3>3
      <4> HIDE DEF h, last
      <4> QED  BY <2>4, <3>3, <4>1
    <3>4. CASE i = 0  BY <2>2, <2>4, <3>4
    <3> QED  BY <3>2, <3>3, <3>4
  <2>6. Runs(h, st, queue, k + 1)
    <3>1. h = [i \in 0 .. k + 1 |-> h[i]]  OBVIOUS
    <3> HIDE DEF h, last
    <3> QED  BY <2>5, <3>1 DEF Runs
  <2> QED  BY <2>6
<1> HIDE DEF T
<1>3. 0 .. n \subseteq T  BY <1>1, <1>2, InductiveSet
<1> QED  BY <1>3 DEF T

LEMMA RunsAgree ==
    ASSUME NEW st, NEW p, NEW q, NEW m \in Nat, NEW n \in Nat, NEW g, NEW h,
           Runs(g, st, p, m), Runs(h, st, q, n), m <= n,
           \A i \in 1 .. m : p[i] = q[i]
    PROVE  \A i \in 0 .. m : g[i] = h[i]
<1> DEFINE T == {i \in 0 .. m : g[i] = h[i]}
<1>1. /\ \A i \in 0 .. m : g[i] = IF i = 0 THEN st ELSE Delivered(g[i - 1], p[i])
      /\ \A i \in 0 .. n : h[i] = IF i = 0 THEN st ELSE Delivered(h[i - 1], q[i])
  BY DEF Runs
<1>2. 0 \in T  BY <1>1
<1>3. ASSUME NEW k \in 0 .. m - 1, k \in T PROVE k + 1 \in T
  <2>1. k + 1 \in 1 .. m /\ k + 1 \in 0 .. n /\ (k + 1) - 1 = k  OBVIOUS
  <2>2. g[k + 1] = Delivered(g[k], p[k + 1])  BY <1>1, <2>1
  <2>3. h[k + 1] = Delivered(h[k], q[k + 1])  BY <1>1, <2>1
  <2> QED  BY <1>3, <2>1, <2>2, <2>3
<1> HIDE DEF T
<1>4. 0 .. m \subseteq T  BY <1>2, <1>3, InductiveSet
<1> QED  BY <1>4 DEF T

LEMMA DeliveryRuns ==
    ASSUME NEW st, NEW M, NEW queue \in Seq(M)
    PROVE  \E g : Runs(g, st, queue, Len(queue)) /\ Delivery(st, queue) = g[Len(queue)]
<1> DEFINE g == CHOOSE f : Runs(f, st, queue, Len(queue))
<1>1. Len(queue) \in Nat  OBVIOUS
<1>2. Runs(g, st, queue, Len(queue))  BY <1>1, RunExists
<1>3. Delivery(st, queue) = g[Len(queue)]  BY DEF Delivery, Runs
<1> QED  BY <1>2, <1>3

LEMMA DeliveryEmpty == ASSUME NEW st PROVE Delivery(st, <<>>) = st
<1>1. <<>> \in Seq({}) /\ Len(<<>>) = 0  OBVIOUS
<1>2. PICK g : Runs(g, st, <<>>, Len(<<>>)) /\ Delivery(st, <<>>) = g[Len(<<>>)]
  BY <1>1, DeliveryRuns
<1> QED  BY <1>1, <1>2 DEF Runs

LEMMA DeliveryAppend ==
    ASSUME NEW st, NEW M, NEW queue \in Seq(M), NEW m \in M
    PROVE  Delivery(st, Append(queue, m)) = Delivered(Delivery(st, queue), m)
<1> DEFINE longer == Append(queue, m)
           n == Len(queue)
<1>1. /\ longer \in Seq(M) /\ Len(longer) = n + 1 /\ n \in Nat /\ longer[n + 1] = m
      /\ \A i \in 1 .. n : longer[i] = queue[i]
  BY AppendProperties
<1>2. PICK g : Runs(g, st, queue, n) /\ Delivery(st, queue) = g[n]  BY DeliveryRuns
<1>3. PICK h : Runs(h, st, longer, Len(longer)) /\ Delivery(st, longer) = h[Len(longer)]
  BY <1>1, DeliveryRuns
<1> HIDE DEF longer
<1>4. g[n] = h[n]
  <2>1. n <= Len(longer) /\ n \in 0 .. n /\ \A i \in 1 .. n : queue[i] = longer[i]  BY <1>1
  <2> HIDE DEF n
  <2> QED  BY <1>1, <1>2, <1>3, <2>1, RunsAgree
<1>5. n + 1 \in 0 .. n + 1 /\ n + 1 # 0 /\ (n + 1) - 1 = n  BY <1>1
<1>6. h[n + 1] = Delivered(h[n], longer[n + 1])  BY <1>1, <1>3, <1>5 DEF Runs
<1> QED  BY <1>1, <1>2, <1>3, <1>4, <1>6 DEF longer

-----------------------------------------------------------------------------
(* The values of the variables *)

AskedPart(n) == {a[n] : a \in Questions}
Calls == [member : {"Ping", "Introspect", "Get", "GetAll", "Set", "Method", "GetManagedObjects"},
          path : Paths \cup {Root} \cup AskedPart(2),
          interface : Interfaces \cup {""} \cup AskedPart(3),
          property : Properties \cup {""} \cup AskedPart(4),
          value : PropertyValues \cup {""} \cup AskedPart(5),
          link : Nat, serial : Nat, heard : BOOLEAN]
Asks == {q \in Calls : q.member = "Set" => q.value \in PropertyValues}
Introspections ==
    [interfaces : SUBSET Interfaces,
     nodes : SUBSET {path[n] : path \in Paths,
                               n \in {Len(p) + 1 : p \in Paths \cup {Root} \cup AskedPart(2)}}]
Answers == Objects \cup Introspections \cup [Properties -> PropertyValues] \cup PropertyValues \cup {{}, <<>>}
Owners  == [kind : {"owner"}, new : Nat]
News    == [kind : {"added", "removed", "changed"}, from : Nat, path : Paths]
Replies == [kind : {"answer", "other"}, link : Nat, serial : Nat, ok : BOOLEAN,
            value : Answers, from : Nat]
Messages == Owners \cup News \cup Replies
States == [bound : Nat \cup {Unbound}, unresolved : SUBSET Inventory, generation : Nat,
           dirty : BOOLEAN]
Start == [bound |-> bound, unresolved |-> unresolved, generation |-> link.generation,
          dirty |-> dirty]

Memories == [ok : {TRUE}, answer : BOOLEAN, epoch : Nat \X Nat, fresh : BOOLEAN,
             heard : BOOLEAN, failed : BOOLEAN]
Views    == [ok : {TRUE}, value : Answers, from : Nat, link : Nat, heard : BOOLEAN]

ServiceTypes ==
    /\ objects \in Objects /\ lives \in Nat /\ owner \in 0 .. lives
    /\ inbox \in Seq(Asks) /\ socket \in Seq(Messages) /\ parked \in Seq(Messages)
    /\ link \in [n : Nat, open : BOOLEAN, generation : Nat]
    /\ bound \in Nat \cup {Unbound} /\ dirty \in BOOLEAN /\ calls \in Nat
    /\ hears \in SUBSET Signals /\ unresolved \in SUBSET Inventory
    /\ presence \in {Unknown} \cup Memories /\ facetView \in {Unknown} \cup Views
    /\ waiting \in {NoQuestion} \cup Asks

LEMMA ReadTypes ==
    ASSUME ServiceTypes
    PROVE  (presence.ok => presence \in Memories) /\ (facetView.ok => facetView \in Views)
<1>1. Unknown.ok = FALSE  BY DEF Unknown
<1> HIDE DEF Unknown
<1> QED  BY <1>1 DEF ServiceTypes

LEMMA DeliveredState ==
    ASSUME NEW st \in States, NEW m \in Messages
    PROVE  /\ Delivered(st, m) \in States
           /\ Delivered(st, m).generation >= st.generation
           /\ Delivered(st, m).unresolved \subseteq st.unresolved
           /\ m.kind = "owner" => /\ Delivered(st, m).generation > st.generation
                                  /\ Delivered(st, m).bound = m.new
           /\ m.kind # "owner" => Delivered(st, m).bound = st.bound
           /\ st.dirty => Delivered(st, m).dirty
           /\ m.kind = "changed" /\ Under(m.path, Root) => Delivered(st, m).dirty
           /\ (/\ m.kind \in {"added", "removed"} /\ m.from = st.bound
               /\ st.unresolved = {}) => Delivered(st, m).dirty
<1>0. /\ st.bound \in Nat \cup {Unbound} /\ st.generation \in Nat /\ st.dirty \in BOOLEAN
      /\ st.unresolved \in SUBSET Inventory
      /\ st = [bound |-> st.bound, unresolved |-> st.unresolved, generation |-> st.generation,
               dirty |-> st.dirty]
  BY DEF States
<1>1. CASE m.kind = "owner"
  <2>1. m.new \in Nat  BY <1>1 DEF Messages, Owners, News, Replies
  <2>2. Delivered(st, m) =
           [bound |-> m.new, unresolved |-> {}, generation |-> st.generation + 1, dirty |-> st.dirty]
    BY <1>0, <1>1 DEF Delivered
  <2>3. Delivered(st, m) \in States  BY <1>0, <2>1, <2>2 DEF States
  <2>4. /\ Delivered(st, m).generation = st.generation + 1 /\ Delivered(st, m).bound = m.new
        /\ Delivered(st, m).unresolved = {} /\ Delivered(st, m).dirty = st.dirty
    BY <2>2
  <2> QED  BY <1>0, <1>1, <2>3, <2>4
<1>2. CASE m.kind = "changed"
  <2> DEFINE d == st.dirty \/ Under(m.path, Root)
  <2>1. Delivered(st, m) = [bound |-> st.bound, unresolved |-> st.unresolved,
                            generation |-> st.generation, dirty |-> d]
    BY <1>0, <1>2 DEF Delivered
  <2>2. d \in BOOLEAN /\ (st.dirty => d) /\ (Under(m.path, Root) => d)  OBVIOUS
  <2> HIDE DEF d
  <2>3. Delivered(st, m) \in States  BY <1>0, <2>1, <2>2 DEF States
  <2>4. /\ Delivered(st, m).dirty = d /\ Delivered(st, m).bound = st.bound
        /\ Delivered(st, m).generation = st.generation
        /\ Delivered(st, m).unresolved = st.unresolved
    BY <2>1
  <2> QED  BY <1>0, <1>2, <2>2, <2>3, <2>4
<1>3. CASE m.kind # "owner" /\ m.kind # "changed"
  <2> DEFINE d == st.dirty \/ (m.from = st.bound /\ m.kind \notin st.unresolved)
  <2>1. Delivered(st, m) = [bound |-> st.bound, unresolved |-> st.unresolved,
                            generation |-> st.generation, dirty |-> d]
    BY <1>0, <1>3 DEF Delivered
  <2>2. d \in BOOLEAN /\ (st.dirty => d) /\ (m.from = st.bound /\ st.unresolved = {} => d)
    OBVIOUS
  <2> HIDE DEF d
  <2>3. Delivered(st, m) \in States  BY <1>0, <2>1, <2>2 DEF States
  <2>4. /\ Delivered(st, m).dirty = d /\ Delivered(st, m).bound = st.bound
        /\ Delivered(st, m).generation = st.generation
        /\ Delivered(st, m).unresolved = st.unresolved
    BY <2>1
  <2> QED  BY <1>0, <1>3, <2>2, <2>3, <2>4
<1> QED  BY <1>1, <1>2, <1>3

(* Delivery begins a new generation if there is an owner change to deliver.  *)
LEMMA DeliveryState ==
    ASSUME NEW st \in States, NEW queue \in Seq(Messages)
    PROVE  /\ Delivery(st, queue) \in States
           /\ Delivery(st, queue).generation >= st.generation
           /\ Delivery(st, queue).unresolved \subseteq st.unresolved
           /\ (\E i \in 1 .. Len(queue) : queue[i].kind = "owner") =>
                  Delivery(st, queue).generation > st.generation
<1> DEFINE D(k) == Delivery(st, SubSeq(queue, 1, k))
           T == {k \in 0 .. Len(queue) :
                    /\ D(k) \in States /\ D(k).generation >= st.generation
                    /\ D(k).unresolved \subseteq st.unresolved
                    /\ (\E i \in 1 .. k : queue[i].kind = "owner") =>
                           D(k).generation > st.generation}
<1>1. 0 \in T
  <2>1. D(0) = st  BY PrefixFacts, DeliveryEmpty
  <2>2. 0 \in 0 .. Len(queue)  OBVIOUS
  <2> HIDE DEF D
  <2> QED  BY <2>1, <2>2 DEF States
<1>2. ASSUME NEW k \in 0 .. Len(queue) - 1, k \in T PROVE k + 1 \in T
  <2> DEFINE m == queue[k + 1]
  <2>1. /\ SubSeq(queue, 1, k) \in Seq(Messages) /\ m \in Messages
        /\ SubSeq(queue, 1, k + 1) = Append(SubSeq(queue, 1, k), m)
    BY PrefixFacts
  <2>2. D(k + 1) = Delivered(D(k), m)
    <3> DEFINE here == SubSeq(queue, 1, k)
    <3>1. here \in Seq(Messages) /\ m \in Messages /\ SubSeq(queue, 1, k + 1) = Append(here, m)
      BY <2>1
    <3> HIDE DEF here, m
    <3>2. Delivery(st, Append(here, m)) = Delivered(Delivery(st, here), m)
      BY <3>1, DeliveryAppend
    <3> QED  BY <3>1, <3>2 DEF here
  <2>3. D(k) \in States /\ D(k).generation >= st.generation
        /\ D(k).unresolved \subseteq st.unresolved
        /\ ((\E i \in 1 .. k : queue[i].kind = "owner") => D(k).generation > st.generation)
    BY <1>2
  <2>4. m.kind = queue[k + 1].kind /\ k + 1 \in 0 .. Len(queue)  OBVIOUS
  <2>5. m \in Messages  BY <2>1
  <2> HIDE DEF D, m
  <2>6. /\ D(k + 1) \in States /\ D(k + 1).generation >= D(k).generation
        /\ D(k + 1).unresolved \subseteq D(k).unresolved
        /\ m.kind = "owner" => D(k + 1).generation > D(k).generation
    BY <2>2, <2>3, <2>5, DeliveredState
  <2>7. D(k).generation \in Nat /\ D(k + 1).generation \in Nat /\ st.generation \in Nat
    BY <2>3, <2>6 DEF States
  <2>8. ASSUME NEW i \in 1 .. k + 1, queue[i].kind = "owner"
        PROVE  D(k + 1).generation > st.generation
    <3>1. CASE i = k + 1  BY <2>3, <2>4, <2>6, <2>7, <2>8, <3>1
    <3>2. CASE i # k + 1
      <4>1. i \in 1 .. k  BY <3>2
      <4> QED  BY <2>3, <2>6, <2>7, <2>8, <4>1
    <3> QED  BY <3>1, <3>2
  <2> QED  BY <2>3, <2>4, <2>6, <2>7, <2>8
<1> HIDE DEF T
<1>3. Len(queue) \in Nat  OBVIOUS
<1>4. 0 .. Len(queue) \subseteq T  BY <1>1, <1>2, <1>3, InductiveSet
<1>5. Len(queue) \in T /\ SubSeq(queue, 1, Len(queue)) = queue  BY <1>3, <1>4, PrefixFacts
<1> QED  BY <1>5 DEF T

-----------------------------------------------------------------------------
(* The invariant *)

\* A connection that is closed holds nothing, and one without subscriptions is told
\* of no change.
Silence ==
    /\ ~link.open => parked = <<>> /\ socket = <<>>
                     /\ hears = {} /\ waiting = NoQuestion
    /\ ~subscribed => hears = {}
    /\ hears = {} => Pending = <<>>

\* Once all that is on its way is dispatched, the subscriptions are bound to the owner.
Bound == "owner" \in hears => Dispatched.bound = owner

\* The question the client waits for is the only one of this connection with its serial.
Numbered ==
    /\ link.n >= 1
    /\ \A i \in 1 .. Len(inbox) :
          /\ inbox[i].serial <= calls /\ inbox[i].link <= link.n
          /\ (/\ waiting # NoQuestion
              /\ inbox[i].link = link.n /\ inbox[i].serial = waiting.serial) => inbox[i] = waiting
    /\ \A i \in 1 .. Len(socket) :
          socket[i].kind = "answer" => socket[i].serial <= calls /\ socket[i].from <= lives
    /\ waiting # NoQuestion => waiting.serial <= calls

\* What was read with the subscriptions on was read when they were as they are now,
\* or on an earlier connection.
Marked ==
    /\ waiting.heard => Attentive
    /\ waiting.member = "GetManagedObjects" => waiting.path = Root
    /\ presence.ok =>
          /\ presence.epoch[1] <= link.n
          /\ presence.epoch[1] = link.n => presence.epoch[2] <= link.generation
          /\ presence.heard /\ presence.epoch[1] = link.n /\ link.open => "owner" \in hears
    /\ facetView.ok =>
          /\ facetView.link <= link.n /\ facetView.from <= lives
          /\ facetView.heard /\ facetView.link = link.n /\ link.open => Attentive

\* The answer on its way is true, or a signal behind or before it marks the domain.
AnswerIsTold ==
    waiting.member = "GetManagedObjects" /\ waiting.heard =>
        \A i \in 1 .. Len(socket) :
            (/\ socket[i].kind = "answer" /\ socket[i].serial = waiting.serial
             /\ socket[i].ok /\ socket[i].from = owner /\ owner # Nobody)
                => \/ Told(socket[i].value, silent) = Told(Managed(Root), silent)
                   \/ Dispatched.dirty

ServiceInv == /\ ServiceTypes /\ Silence /\ Bound /\ Numbered /\ Marked
              /\ AnswerIsTold /\ RememberedIsTrue /\ ChangeIsTold

-----------------------------------------------------------------------------
(* What the daemon routes to the client *)

LEMMA PendingType ==
    ASSUME ServiceTypes
    PROVE  /\ Pending \in Seq(Messages) /\ Start \in States
           /\ Dispatched = Delivery(Start, Pending) /\ Dispatched \in States
<1>1. parked \in Seq(Messages) /\ socket \in Seq(Messages)  BY DEF ServiceTypes
<1>2. parked \o socket \in Seq(Messages)  BY <1>1
<1>3. Pending \in Seq(Messages)  BY <1>2, OnlyIsASeq DEF Pending
<1>4. Start \in States  BY DEF ServiceTypes, Start, States
<1>5. Dispatched = Delivery(Start, Pending)  BY DEF Dispatched, Start
<1> QED  BY <1>3, <1>4, <1>5, DeliveryState

LEMMA Concatenated ==
    ASSUME NEW M, NEW a \in Seq(M), NEW b \in Seq(M), NEW i \in 1 .. Len(a \o b)
    PROVE  \/ \E j \in 1 .. Len(a) : (a \o b)[i] = a[j]
           \/ \E j \in 1 .. Len(b) : (a \o b)[i] = b[j]
<1>1. Len(a) \in Nat /\ Len(b) \in Nat /\ i \in 1 .. Len(a) + Len(b)  OBVIOUS
<1>2. CASE i <= Len(a)
  <2>1. i \in 1 .. Len(a) /\ (a \o b)[i] = a[i]  BY <1>1, <1>2
  <2> QED  BY <2>1
<1>3. CASE i > Len(a)
  <2>1. i - Len(a) \in 1 .. Len(b) /\ (a \o b)[i] = b[i - Len(a)]  BY <1>1, <1>3
  <2> QED  BY <2>1
<1>4. i <= Len(a) \/ i > Len(a)  BY <1>1
<1> QED  BY <1>2, <1>3, <1>4, ZenonT(60)

\* What Route() leaves of a message for the client.
Heard == {"answer"} \cup hears

LEMMA Routed ==
    ASSUME ServiceTypes, Silence, NEW msgs \in Seq(Messages), Route(msgs),
           parked' = parked, link' = link, hears' = hears
    PROVE  /\ socket' \in Seq(Messages)
           /\ ~link.open => socket' = socket
           /\ hears = {} => Pending' = <<>>
           /\ Pending' = Pending \o Only(hears, msgs)
           /\ \A i \in 1 .. Len(socket') :
                 \/ \E j \in 1 .. Len(socket) : socket'[i] = socket[j]
                 \/ \E j \in 1 .. Len(msgs) : socket'[i] = msgs[j]
<1>1. parked \in Seq(Messages) /\ socket \in Seq(Messages)  BY DEF ServiceTypes
<1>2. hears = {} => Only(hears, msgs) = <<>>
  <2>1. hears = {} => \A m \in Messages : m.kind \notin hears  OBVIOUS
  <2> QED  BY <2>1, OnlyNone
<1>3. CASE ~link.open
  <2>1. hears = {} /\ Pending = <<>>  BY <1>3 DEF Silence
  <2>2. socket' = socket  BY <1>3 DEF Route
  <2>3. Pending' = Pending  BY <2>2 DEF Pending
  <2>4. Pending \o Only(hears, msgs) = <<>>  BY <1>2, <2>1
  <2> QED  BY <1>1, <1>3, <2>1, <2>2, <2>3, <2>4
<1>4. CASE link.open
  <2> DEFINE new == Only(Heard, msgs)
             old == parked \o socket
  <2>1. socket' = socket \o new  BY <1>4 DEF Route, Heard
  <2>2. new \in Seq(Messages) /\ old \in Seq(Messages)  BY <1>1, OnlyIsASeq
  <2>3. Only(Signals, new) = Only(hears, msgs)
    <3>1. Only(Signals, new) = Only(Signals \cap Heard, msgs)  BY OnlyTwice
    <3>2. Signals \cap Heard = hears  BY DEF Heard, Signals, ServiceTypes
    <3> QED  BY <3>1, <3>2
  <2> HIDE DEF new
  <2>4. parked' \o socket' = old \o new
    <3>1. (parked \o socket) \o new = parked \o (socket \o new)
      BY <1>1, <2>2, ConcatAssociative, SMTT(60)
    <3> QED  BY <2>1, <3>1
  <2>5. Pending' = Pending \o Only(Signals, new)
    <3> HIDE DEF old
    <3>1. Only(Signals, old \o new) = Only(Signals, old) \o Only(Signals, new)
      BY <2>2, OnlyConcat, SMTT(60)
    <3> QED  BY <2>4, <3>1 DEF old, Pending
  <2>6. Pending' = Pending \o Only(hears, msgs)  BY <2>3, <2>5
  <2>7. hears = {} => Pending' = <<>>
    <3>1. hears = {} => Pending = <<>>  BY DEF Silence
    <3>2. <<>> \o <<>> = <<>>  OBVIOUS
    <3> QED  BY <1>2, <2>6, <3>1, <3>2
  <2>8. socket' \in Seq(Messages)  BY <1>1, <2>1, <2>2
  <2>9. ASSUME NEW i \in 1 .. Len(socket')
        PROVE  \/ \E j \in 1 .. Len(socket) : socket'[i] = socket[j]
               \/ \E j \in 1 .. Len(msgs) : socket'[i] = msgs[j]
    <3>1. \/ \E j \in 1 .. Len(socket) : socket'[i] = socket[j]
          \/ \E j \in 1 .. Len(new) : socket'[i] = new[j]
      BY <1>1, <2>1, <2>2, <2>9, Concatenated
    <3>2. \A j \in 1 .. Len(new) : \E k \in 1 .. Len(msgs) : new[j] = msgs[k]
      <4>1. TAKE j \in 1 .. Len(new)
      <4>2. j \in DOMAIN new  BY <2>2
      <4> QED  BY <4>2, OnlyFrom DEF new
    <3> QED  BY <3>1, <3>2
  <2> QED  BY <1>4, <2>6, <2>7, <2>8, <2>9
<1> QED  BY <1>3, <1>4

(* What one more signal, or none, makes of the next dispatch.                *)
LEMMA Spoken ==
    ASSUME ServiceTypes, Silence, NEW msgs \in Seq(Messages), Route(msgs),
           parked' = parked, link' = link, bound' = bound, hears' = hears,
           unresolved' = unresolved, dirty' = dirty
    PROVE  /\ Only(Signals, msgs) = <<>> => Pending' = Pending /\ Dispatched' = Dispatched
           /\ \A m \in Messages : Only(Signals, msgs) = <<m>> =>
                 /\ m.kind \in hears =>
                        Pending' = Append(Pending, m) /\ Dispatched' = Delivered(Dispatched, m)
                 /\ m.kind \notin hears => Pending' = Pending /\ Dispatched' = Dispatched
<1>1. /\ Pending \in Seq(Messages) /\ Start \in States
      /\ Dispatched = Delivery(Start, Pending)
  BY PendingType
<1>2. Start' = Start  BY DEF Start
<1>3. Dispatched' = Delivery(Start, Pending')  BY <1>2 DEF Dispatched, Start
<1>4. Pending' = Pending \o Only(hears, msgs)  BY Routed
<1>5. Only(hears, msgs) = Only(hears, Only(Signals, msgs))
  <2>1. hears \cap Signals = hears  BY DEF ServiceTypes
  <2> QED  BY <2>1, OnlyTwice
<1>6. ASSUME Only(hears, msgs) = <<>> PROVE Pending' = Pending /\ Dispatched' = Dispatched
  <2>1. Pending \o <<>> = Pending  BY <1>1, ConcatEmptySeq
  <2>2. Pending' = Pending  BY <1>4, <1>6, <2>1
  <2> QED  BY <1>1, <1>3, <2>2
<1>7. ASSUME Only(Signals, msgs) = <<>> PROVE Only(hears, msgs) = <<>>
  BY <1>5, <1>7, OnlyEmpty
<1>8. ASSUME NEW m \in Messages, Only(Signals, msgs) = <<m>>
      PROVE  /\ m.kind \in hears => Only(hears, msgs) = <<m>>
             /\ m.kind \notin hears => Only(hears, msgs) = <<>>
  <2>1. Only(hears, <<m>>) = IF m.kind \in hears THEN <<m>> ELSE <<>>  BY OnlyOne
  <2> QED  BY <1>5, <1>8, <2>1
<1>9. ASSUME NEW m \in Messages, Only(hears, msgs) = <<m>>
      PROVE  Pending' = Append(Pending, m) /\ Dispatched' = Delivered(Dispatched, m)
  <2>1. Pending' = Pending \o <<m>>  BY <1>4, <1>9
  <2>2. Append(Pending, m) = Pending \o <<m>>  BY <1>1, AppendIsConcat
  <2>3. Delivery(Start, Append(Pending, m)) = Delivered(Delivery(Start, Pending), m)
    BY <1>1, DeliveryAppend
  <2> QED  BY <1>1, <1>3, <2>1, <2>2, <2>3
<1> QED  BY <1>6, <1>7, <1>8, <1>9

-----------------------------------------------------------------------------
(* What the service does *)

\* The service may lose its process, and a new one has a new number.
NewOwner ==
    /\ lives' \in Nat /\ lives' >= lives /\ owner' \in 0 .. lives'
    /\ owner' # owner => owner' = Nobody \/ owner' > lives

\* Whatever was told is told still.
StillTold ==
    \A v : Told(v, silent) = Told(Managed(Root), silent) =>
              Told(v, silent') = Told(Managed(Root)', silent')

\* A signal that says what became of the name, or of an object that the facet reads.
Announced(m) ==
    \/ m.kind = "owner" /\ owner' = m.new /\ owner' # owner
    \/ m.kind \in {"added", "removed"} /\ owner' = owner /\ m.from = owner
    \/ m.kind = "changed" /\ owner' = owner /\ (Under(m.path, Root) \/ StillTold)

\* It answers what the client asked with the objects as they are.
Truly(m) ==
    m.kind = "answer" =>
        /\ m.serial <= calls /\ m.from <= lives'
        /\ (waiting.member = "GetManagedObjects" /\ m.serial = waiting.serial /\ m.ok) =>
              m.value = Managed(Root)'

ServiceActs(msgs) ==
    /\ Route(msgs) /\ UNCHANGED <<client, calls>> /\ NewOwner
    /\ objects' \in Objects /\ inbox' \in Seq(Asks)
    /\ \A i \in 1 .. Len(inbox') :
          \/ \E j \in 1 .. Len(inbox) : inbox'[i] = inbox[j]
          \/ inbox'[i].serial = 0 /\ inbox'[i].link = 0
    /\ \A j \in 1 .. Len(msgs) : Truly(msgs[j])
    /\ \/ Only(Signals, msgs) = <<>> /\ owner' = owner /\ StillTold
       \/ \E m \in Messages : Only(Signals, msgs) = <<m>> /\ Announced(m)

LEMMA ActsAreHeard ==
    ASSUME ServiceInv, NEW msgs \in Seq(Messages), ServiceActs(msgs)
    PROVE  /\ "owner" \in hears => Dispatched'.bound = owner'
           /\ Attentive /\ owner' = owner =>
                 /\ Dispatched.dirty => Dispatched'.dirty
                 /\ StillTold \/ Dispatched'.dirty
           /\ "owner" \in hears =>
                 \/ owner' = owner /\ Pending' = Pending
                 \/ \E m \in Messages : /\ Pending' = Append(Pending, m)
                                        /\ owner' # owner => m.kind = "owner"
<1>1. ServiceTypes /\ Silence /\ Bound  BY DEF ServiceInv
<1>2. /\ Route(msgs) /\ parked' = parked /\ link' = link /\ bound' = bound /\ dirty' = dirty
      /\ hears' = hears /\ unresolved' = unresolved
  BY DEF ServiceActs, client, watch
<1>3. /\ Dispatched \in States
      /\ "owner" \in hears => Dispatched.bound = owner
      /\ Dispatched.unresolved \subseteq unresolved
  <2>1. /\ Pending \in Seq(Messages) /\ Start \in States
        /\ Dispatched = Delivery(Start, Pending) /\ Dispatched \in States
    BY <1>1, PendingType
  <2>2. Start.unresolved = unresolved  BY DEF Start
  <2> HIDE DEF Pending
  <2> QED  BY <1>1, <2>1, <2>2, DeliveryState DEF Bound
<1>4. CASE Only(Signals, msgs) = <<>> /\ owner' = owner /\ StillTold
  <2>1. Pending' = Pending /\ Dispatched' = Dispatched  BY <1>1, <1>2, <1>4, Spoken
  <2> QED  BY <1>3, <1>4, <2>1
<1>5. ASSUME NEW m \in Messages, Only(Signals, msgs) = <<m>>, Announced(m), m.kind \in hears
      PROVE  /\ "owner" \in hears => Dispatched'.bound = owner'
             /\ Attentive /\ owner' = owner =>
                   /\ Dispatched.dirty => Dispatched'.dirty
                   /\ StillTold \/ Dispatched'.dirty
             /\ Pending' = Append(Pending, m)
             /\ owner' # owner => m.kind = "owner"
  <2>1. Pending' = Append(Pending, m) /\ Dispatched' = Delivered(Dispatched, m)
    BY <1>1, <1>2, <1>5, Spoken
  <2> DEFINE d == Dispatched
             e == Dispatched'
  <2>2. /\ m.kind = "owner" => e.bound = m.new
        /\ m.kind # "owner" => e.bound = d.bound
        /\ d.dirty => e.dirty
        /\ m.kind = "changed" /\ Under(m.path, Root) => e.dirty
        /\ m.kind \in {"added", "removed"} /\ m.from = d.bound /\ d.unresolved = {} => e.dirty
    BY <1>3, <2>1, DeliveredState
  <2>3. /\ "owner" \in hears => d.bound = owner
        /\ Attentive => d.unresolved = {} /\ "owner" \in hears
    BY <1>3 DEF Attentive, Signals
  <2> HIDE DEF d, e
  <2>4. CASE m.kind = "owner" /\ owner' = m.new /\ owner' # owner
    BY <2>1, <2>2, <2>4 DEF d, e
  <2>5. CASE m.kind \in {"added", "removed"} /\ owner' = owner /\ m.from = owner
    BY <2>1, <2>2, <2>3, <2>5 DEF d, e
  <2>6. CASE m.kind = "changed" /\ owner' = owner /\ (Under(m.path, Root) \/ StillTold)
    BY <2>1, <2>2, <2>3, <2>6 DEF d, e
  <2> QED  BY <1>5, <2>4, <2>5, <2>6 DEF Announced
<1>6. ASSUME NEW m \in Messages, Only(Signals, msgs) = <<m>>, Announced(m), m.kind \notin hears
      PROVE  /\ "owner" \in hears => Dispatched'.bound = owner' /\ owner' = owner
             /\ ~Attentive /\ Pending' = Pending
  <2>1. Pending' = Pending /\ Dispatched' = Dispatched  BY <1>1, <1>2, <1>6, Spoken
  <2>2. m.kind \in Signals  BY <1>6 DEF Announced, Signals
  <2>3. "owner" \in hears => owner' = owner  BY <1>6 DEF Announced
  <2> QED  BY <1>3, <1>6, <2>1, <2>2, <2>3 DEF Attentive
<1> QED  BY <1>4, <1>5, <1>6 DEF ServiceActs

LEMMA ActsKeep ==
    ASSUME ServiceInv, NEW msgs \in Seq(Messages), ServiceActs(msgs)
    PROVE  ServiceInv'
<1>1. /\ ServiceTypes /\ Silence /\ Bound /\ Numbered /\ Marked
      /\ AnswerIsTold /\ RememberedIsTrue /\ ChangeIsTold
  BY DEF ServiceInv
<1>2. /\ Route(msgs) /\ NewOwner
      /\ parked' = parked /\ link' = link /\ retrying' = retrying /\ presence' = presence
      /\ bound' = bound /\ subscribed' = subscribed /\ waiting' = waiting
      /\ facetView' = facetView /\ dirty' = dirty /\ calls' = calls
      /\ hears' = hears /\ unresolved' = unresolved
  BY DEF ServiceActs, client, watch
<1>3. /\ socket' \in Seq(Messages)
      /\ ~link.open => socket' = socket
      /\ hears = {} => Pending' = <<>>
      /\ \A i \in 1 .. Len(socket') :
            \/ \E j \in 1 .. Len(socket) : socket'[i] = socket[j]
            \/ \E j \in 1 .. Len(msgs) : socket'[i] = msgs[j]
  BY <1>1, <1>2, Routed
<1>4. ServiceTypes'
  BY <1>1, <1>2, <1>3 DEF ServiceTypes, ServiceActs, NewOwner
<1>5. Silence'  BY <1>1, <1>2, <1>3 DEF Silence
<1>6. /\ "owner" \in hears => Dispatched'.bound = owner'
      /\ Attentive /\ owner' = owner =>
            /\ Dispatched.dirty => Dispatched'.dirty
            /\ StillTold \/ Dispatched'.dirty
      /\ "owner" \in hears =>
            \/ owner' = owner /\ Pending' = Pending
            \/ \E m \in Messages : /\ Pending' = Append(Pending, m)
                                   /\ owner' # owner => m.kind = "owner"
  BY ActsAreHeard
<1>7. Bound'  BY <1>2, <1>6 DEF Bound
<1>8. lives \in Nat /\ lives' \in Nat /\ lives' >= lives /\ link.n \in Nat /\ calls \in Nat
  BY <1>1, <1>2 DEF ServiceTypes, NewOwner
<1>9. Numbered'
  <2>1. link'.n >= 1 /\ (waiting' # NoQuestion => waiting'.serial <= calls')
    BY <1>1, <1>2 DEF Numbered
  <2>2. ASSUME NEW i \in 1 .. Len(inbox')
        PROVE  /\ inbox'[i].serial <= calls' /\ inbox'[i].link <= link'.n
               /\ (/\ waiting' # NoQuestion
                   /\ inbox'[i].link = link'.n /\ inbox'[i].serial = waiting'.serial)
                      => inbox'[i] = waiting'
    <3>1. CASE \E j \in 1 .. Len(inbox) : inbox'[i] = inbox[j]
      BY <1>1, <1>2, <3>1 DEF Numbered
    <3>2. CASE inbox'[i].serial = 0 /\ inbox'[i].link = 0
      <4>1. link.n >= 1  BY <1>1 DEF Numbered
      <4> QED  BY <1>2, <1>8, <3>2, <4>1
    <3> QED  BY <3>1, <3>2 DEF ServiceActs
  <2>3. ASSUME NEW i \in 1 .. Len(socket'), socket'[i].kind = "answer"
        PROVE  socket'[i].serial <= calls' /\ socket'[i].from <= lives'
    <3>1. CASE \E j \in 1 .. Len(socket) : socket'[i] = socket[j]
      <4>1. PICK j \in 1 .. Len(socket) : socket'[i] = socket[j]  BY <3>1
      <4>2. socket[j] \in Messages /\ socket[j].kind = "answer"
        BY <1>1, <2>3, <4>1 DEF ServiceTypes
      <4>3. socket[j].from \in Nat /\ socket[j].from <= lives /\ socket[j].serial <= calls
        BY <1>1, <4>2 DEF Numbered, Messages, Owners, News, Replies
      <4> QED  BY <1>2, <1>8, <4>1, <4>3
    <3>2. CASE \E j \in 1 .. Len(msgs) : socket'[i] = msgs[j]
      BY <1>2, <2>3, <3>2 DEF ServiceActs, Truly
    <3> QED  BY <1>3, <3>1, <3>2
  <2> QED  BY <2>1, <2>2, <2>3 DEF Numbered
<1>10. Marked'
  <2>1. facetView.ok => facetView.from <= lives'
    <3>1. facetView.ok => facetView.from \in Nat /\ facetView.from <= lives
      BY <1>1, ReadTypes DEF Views, Marked
    <3> QED  BY <1>8, <3>1
  <2>2. Attentive' = Attentive  BY <1>2 DEF Attentive
  <2> QED  BY <1>1, <1>2, <2>1, <2>2 DEF Marked
<1>11. AnswerIsTold'
  <2>1. SUFFICES ASSUME waiting.member = "GetManagedObjects", waiting.heard,
                        NEW i \in 1 .. Len(socket'),
                        socket'[i].kind = "answer", socket'[i].serial = waiting.serial,
                        socket'[i].ok, socket'[i].from = owner', owner' # Nobody
                 PROVE  \/ Told(socket'[i].value, silent') = Told(Managed(Root)', silent')
                        \/ Dispatched'.dirty
    BY <1>2 DEF AnswerIsTold
  <2>2. CASE \E j \in 1 .. Len(socket) : socket'[i] = socket[j]
    <3>1. PICK j \in 1 .. Len(socket) : socket'[i] = socket[j]  BY <2>2
    <3>2. socket[j].from <= lives /\ socket[j].from \in Nat
      <4>1. socket[j] \in Messages /\ socket[j].kind = "answer"
        BY <1>1, <2>1, <3>1 DEF ServiceTypes
      <4> QED  BY <1>1, <4>1 DEF Numbered, Messages, Owners, News, Replies
    <3>3. owner' = owner  BY <1>2, <1>8, <2>1, <3>1, <3>2 DEF NewOwner
    <3>4. Told(socket[j].value, silent) = Told(Managed(Root), silent) \/ Dispatched.dirty
      BY <1>1, <2>1, <3>1, <3>3 DEF AnswerIsTold
    <3>5. Attentive  BY <1>1, <2>1 DEF Marked
    <3>6. StillTold => \/ Told(socket[j].value, silent') = Told(Managed(Root)', silent')
                       \/ Dispatched.dirty
      BY <3>4 DEF StillTold
    <3> QED  BY <1>6, <3>1, <3>3, <3>5, <3>6
  <2>3. CASE \E j \in 1 .. Len(msgs) : socket'[i] = msgs[j]
    BY <2>1, <2>3 DEF ServiceActs, Truly
  <2> QED  BY <1>3, <2>2, <2>3
<1>12. RememberedIsTrue'
  <2>1. SUFFICES ASSUME link.open, Remembered, presence.heard,
                        ~(\E i \in DOMAIN Pending' : Pending'[i].kind = "owner")
                 PROVE  \/ presence.answer = (owner' # Nobody)
                        \/ ~presence.answer /\ presence.failed
    BY <1>2 DEF RememberedIsTrue, Remembered, Epoch
  <2>2. presence.epoch[1] = link.n  BY <1>1, <2>1 DEF Remembered, Epoch
  <2>3. "owner" \in hears  BY <1>1, <2>1, <2>2 DEF Marked, Remembered
  <2>4. Pending \in Seq(Messages)  BY <1>1, PendingType
  <2> HIDE DEF Pending
  <2>5. CASE owner' = owner /\ Pending' = Pending
    BY <1>1, <2>1, <2>5 DEF RememberedIsTrue
  <2>6. ASSUME NEW m \in Messages, Pending' = Append(Pending, m), owner' # owner => m.kind = "owner"
        PROVE  \/ presence.answer = (owner' # Nobody)
               \/ ~presence.answer /\ presence.failed
    <3>1. /\ Len(Pending) + 1 \in DOMAIN Pending' /\ Pending'[Len(Pending) + 1] = m
          /\ \A i \in DOMAIN Pending : i \in DOMAIN Pending' /\ Pending'[i] = Pending[i]
      BY <2>4, <2>6
    <3>2. m.kind # "owner" /\ owner' = owner  BY <2>1, <2>6, <3>1
    <3>3. ~(\E i \in DOMAIN Pending : Pending[i].kind = "owner")  BY <2>1, <3>1
    <3> QED  BY <1>1, <2>1, <3>2, <3>3 DEF RememberedIsTrue
  <2> QED  BY <1>6, <2>3, <2>5, <2>6
<1>13. ChangeIsTold'
  <2>1. SUFFICES ASSUME facetView.ok, facetView.heard, facetView.from = owner', owner' # Nobody,
                        link.open, facetView.link = link.n, waiting.member # "GetManagedObjects"
                 PROVE  \/ Told(facetView.value, silent') = Told(Managed(Root)', silent')
                        \/ Dispatched'.dirty
    BY <1>2 DEF ChangeIsTold
  <2>2. facetView.from \in Nat /\ facetView.from <= lives /\ Attentive
    BY <1>1, <2>1, ReadTypes DEF Marked, Views
  <2>3. owner' = owner  BY <1>2, <1>8, <2>1, <2>2 DEF NewOwner
  <2>4. Told(facetView.value, silent) = Told(Managed(Root), silent) \/ Dispatched.dirty
    BY <1>1, <2>1, <2>3 DEF ChangeIsTold
  <2>5. StillTold => \/ Told(facetView.value, silent') = Told(Managed(Root)', silent')
                     \/ Dispatched.dirty
    BY <2>4 DEF StillTold
  <2> QED  BY <1>6, <2>2, <2>3, <2>5
<1> QED  BY <1>4, <1>5, <1>7, <1>9, <1>10, <1>11, <1>12, <1>13 DEF ServiceInv

-----------------------------------------------------------------------------
(* The objects *)

ChangeIsIn(slots) ==
    \A s : s \notin slots =>
        /\ (s \in DOMAIN objects' <=> s \in DOMAIN objects)
        /\ (s \in DOMAIN objects => objects'[s] = objects[s])

\* A change that goes unsaid, or that is below another root.
LEMMA ToldElsewhere ==
    ASSUME NEW slots,
           ChangeIsIn(slots),
           \/ silent' = silent \cup slots
           \/ silent' = silent \ slots /\ \A s \in slots : ~Under(s[1], Root)
    PROVE  StillTold
<1> DEFINE Of(tree, unsaid) == {s \in DOMAIN tree \ unsaid : Under(s[1], Root)}
           now == Managed(Root)
           next == Managed(Root)'
<1>1. /\ DOMAIN now = {s \in DOMAIN objects : Under(s[1], Root)}
      /\ \A s \in DOMAIN now : now[s] = objects[s]
  BY DEF Managed, Keep
<1>2. /\ DOMAIN next = {s \in DOMAIN objects' : Under(s[1], Root)}
      /\ \A s \in DOMAIN next : next[s] = objects'[s]
  BY DEF Managed, Keep
<1> HIDE DEF now, next
<1>3. ASSUME NEW v, Told(v, silent) = Told(now, silent)
      PROVE  Told(v, silent') = Told(next, silent')
  <2>1. /\ Of(v, silent) = Of(now, silent)
        /\ \A s \in Of(v, silent) : v[s] = now[s]
    <3>1. DOMAIN Told(v, silent) = Of(v, silent) /\ DOMAIN Told(now, silent) = Of(now, silent)
      BY DEF Told
    <3>2. /\ \A s \in Of(v, silent) : Told(v, silent)[s] = v[s]
          /\ \A s \in Of(now, silent) : Told(now, silent)[s] = now[s]
      BY DEF Told
    <3> HIDE DEF Of
    <3> QED  BY <1>3, <3>1, <3>2
  <2>2. \A s : Under(s[1], Root) /\ s \notin silent' => s \notin silent /\ s \notin slots
    OBVIOUS
  <2>3. \A s : Under(s[1], Root) /\ s \notin silent' => (s \in DOMAIN next <=> s \in DOMAIN now)
    BY <1>1, <1>2, <2>2 DEF ChangeIsIn
  <2>4. Of(v, silent') = Of(next, silent')
    <3>1. \A s : s \in Of(v, silent') <=> s \in Of(next, silent')  BY <2>1, <2>2, <2>3
    <3> QED  BY <3>1
  <2>5. ASSUME NEW s \in Of(v, silent') PROVE v[s] = next[s]
    <3>1. s \in Of(v, silent) /\ s \in DOMAIN next /\ s \in DOMAIN now /\ s \notin slots
      BY <2>2, <2>3, <2>4, <2>5
    <3> QED  BY <1>1, <1>2, <2>1, <3>1 DEF ChangeIsIn
  <2>6. /\ Told(v, silent') = [s \in Of(v, silent') |-> v[s]]
        /\ Told(next, silent') = [s \in Of(next, silent') |-> next[s]]
    BY DEF Told
  <2> HIDE DEF Of
  <2> QED  BY <2>4, <2>5, <2>6
<1> QED  BY <1>3 DEF StillTold, now, next

LEMMA NothingChanges == ASSUME objects' = objects, silent' = silent PROVE StillTold
<1>1. silent' = silent \cup {}  OBVIOUS
<1>2. ChangeIsIn({})  BY DEF ChangeIsIn
<1> QED  BY <1>1, <1>2, ToldElsewhere

LEMMA AssignTypes ==
    ASSUME objects \in Objects, NEW slot \in DOMAIN objects, NEW property, NEW value \in PropertyValues,
           Assign(slot, property, value)
    PROVE  /\ objects' \in Objects /\ DOMAIN objects' = DOMAIN objects
           /\ \A s \in DOMAIN objects : s # slot => objects'[s] = objects[s]
<1>1. PICK slots \in SUBSET Slots : objects \in [slots -> [Properties -> PropertyValues]]  BY DEF Objects
<1>2. objects' = [objects EXCEPT ![slot] = [objects[slot] EXCEPT ![property] = value]]
  BY DEF Assign
<1>3. [objects[slot] EXCEPT ![property] = value] \in [Properties -> PropertyValues]  BY <1>1
<1>4. objects' \in [slots -> [Properties -> PropertyValues]]  BY <1>1, <1>2, <1>3
<1> QED  BY <1>1, <1>2, <1>4 DEF Objects

LEMMA KeptTypes ==
    ASSUME objects \in Objects, NEW slots \in SUBSET DOMAIN objects
    PROVE  Keep(slots) \in Objects
<1>1. PICK all \in SUBSET Slots : objects \in [all -> [Properties -> PropertyValues]]  BY DEF Objects
<1>2. slots \in SUBSET Slots /\ Keep(slots) \in [slots -> [Properties -> PropertyValues]]
  BY <1>1 DEF Keep
<1> QED  BY <1>2 DEF Objects

LEMMA NoObjects == <<>> \in Objects
<1>1. <<>> \in [{} -> [Properties -> PropertyValues]]  OBVIOUS
<1>2. {} \in SUBSET Slots  OBVIOUS
<1> QED  BY <1>1, <1>2 DEF Objects

LEMMA SignalType ==
    ASSUME ServiceTypes, NEW path \in Paths, NEW kind \in {"added", "removed", "changed"}
    PROVE  /\ Signal(kind, path) \in Messages /\ Signal(kind, path).kind = kind
           /\ Signal(kind, path).from = owner /\ Signal(kind, path).path = path
BY DEF ServiceTypes, Signal, Messages, News

\* The acts of the service that are one signal.
LEMMA OneSignal ==
    ASSUME ServiceInv, NEW m \in Messages, m.kind \in Signals, Announced(m), Route(<<m>>),
           UNCHANGED <<client, calls>>, NewOwner, objects' \in Objects,
           inbox' = inbox
    PROVE  ServiceInv'
<1>1. <<m>> \in Seq(Messages)  OBVIOUS
<1>2. Only(Signals, <<m>>) = <<m>>  BY OnlyOne
<1>3. inbox' \in Seq(Asks)  BY DEF ServiceInv, ServiceTypes
<1>4. \A j \in 1 .. Len(<<m>>) : Truly((<<m>>)[j])
  <2>1. m.kind # "answer"  BY DEF Signals
  <2> QED  BY <2>1 DEF Truly
<1>5. \A i \in 1 .. Len(inbox') : \E j \in 1 .. Len(inbox) : inbox'[i] = inbox[j]  OBVIOUS
<1>6. ServiceActs(<<m>>)  BY <1>2, <1>3, <1>4, <1>5 DEF ServiceActs
<1> QED  BY <1>1, <1>6, ActsKeep

\* The acts that send the client nothing.
LEMMA NoSignal ==
    ASSUME ServiceInv, socket' = socket, UNCHANGED <<client, calls>>, lives' = lives,
           owner' = owner, objects' \in Objects, inbox' \in Seq(Asks), StillTold,
           \A i \in 1 .. Len(inbox') :
              \/ \E j \in 1 .. Len(inbox) : inbox'[i] = inbox[j]
              \/ inbox'[i].serial = 0 /\ inbox'[i].link = 0
    PROVE  ServiceInv'
<1> DEFINE msgs == <<>>
<1>1. socket \in Seq(Messages)  BY DEF ServiceInv, ServiceTypes
<1>2. /\ msgs \in Seq(Messages) /\ Only(Signals, msgs) = <<>> /\ Only(Heard, msgs) = <<>>
      /\ \A j \in 1 .. Len(msgs) : Truly(msgs[j])
  BY OnlyEmpty
<1>3. Route(msgs)
  <2>1. socket \o <<>> = socket  BY <1>1, ConcatEmptySeq
  <2> QED  BY <1>2, <2>1 DEF Route, Heard
<1>4. NewOwner  BY DEF ServiceInv, ServiceTypes, NewOwner
<1> HIDE DEF msgs
<1>5. ServiceActs(msgs)  BY <1>2, <1>3, <1>4 DEF ServiceActs
<1> QED  BY <1>2, <1>5, ActsKeep

\* An act is announced, or its slots are silent.
LEMMA AnnounceKeeps ==
    ASSUME ServiceInv, NEW kind \in {"added", "removed", "changed"}, NEW path \in Paths,
           NEW slots, NEW emit, NEW carried, Announce(kind, path, slots, emit, carried),
           UNCHANGED <<client, calls>>, lives' = lives, owner' = owner, inbox' = inbox,
           objects' \in Objects,
           ChangeIsIn(slots),
           \A s \in slots : s[1] = path
    PROVE  ServiceInv'
<1> DEFINE m == Signal(kind, path)
<1>1. ServiceTypes  BY DEF ServiceInv
<1>2. m \in Messages /\ m.kind = kind /\ m.from = owner /\ m.path = path  BY <1>1, SignalType
<1> HIDE DEF m
<1>3. CASE emit /\ Sendable(carried)
  <2>1. Route(<<m>>) /\ silent' = silent \ slots  BY <1>3 DEF Announce, m
  <2>2. Announced(m)
    <3>1. CASE kind \in {"added", "removed"}  BY <1>2, <3>1 DEF Announced
    <3>2. CASE kind = "changed" /\ Under(path, Root)  BY <1>2, <3>2 DEF Announced
    <3>3. CASE kind = "changed" /\ ~Under(path, Root)
      <4>1. \A s \in slots : ~Under(s[1], Root)  BY <3>3
      <4>2. StillTold  BY <2>1, <4>1, ToldElsewhere
      <4> QED  BY <1>2, <3>3, <4>2 DEF Announced
    <3> QED  BY <3>1, <3>2, <3>3
  <2>3. NewOwner  BY DEF ServiceInv, ServiceTypes, NewOwner
  <2>4. m.kind \in Signals  BY <1>2 DEF Signals
  <2> QED  BY <1>2, <2>1, <2>2, <2>3, <2>4, OneSignal
<1>4. CASE ~(emit /\ Sendable(carried))
  <2>1. socket' = socket /\ silent' = silent \cup slots  BY <1>4 DEF Announce
  <2>2. StillTold  BY <2>1, ToldElsewhere
  <2>3. inbox' \in Seq(Asks)  BY <1>1 DEF ServiceTypes
  <2>4. \A i \in 1 .. Len(inbox') : \E j \in 1 .. Len(inbox) : inbox'[i] = inbox[j]  OBVIOUS
  <2> QED  BY <2>1, <2>2, <2>3, <2>4, NoSignal
<1> QED  BY <1>3, <1>4

LEMMA OwnKeeps == ASSUME ServiceInv, Own PROVE ServiceInv'
<1> DEFINE m == OwnerChanged(lives')
<1>1. owner = Nobody /\ lives \in Nat  BY DEF Own, ServiceInv, ServiceTypes, Nobody
<1>2. lives' = lives + 1 /\ owner' = lives'  BY DEF Own
<1>3. NewOwner  BY <1>1, <1>2 DEF NewOwner
<1>4. m \in Messages /\ m.kind = "owner" /\ m.new = lives'
  BY <1>1, <1>2 DEF OwnerChanged, Messages, Owners
<1>5. Announced(m)  BY <1>1, <1>2, <1>4 DEF Announced, Nobody
<1>6. objects' \in Objects  BY NoObjects DEF Own
<1>7. Route(<<m>>) /\ UNCHANGED <<client, calls>> /\ inbox' = inbox  BY DEF Own
<1> QED  BY <1>3, <1>4, <1>5, <1>6, <1>7, OneSignal DEF Signals

LEMMA SameOwner == ASSUME ServiceInv, lives' = lives, owner' = owner PROVE NewOwner
BY DEF ServiceInv, ServiceTypes, NewOwner

LEMMA PublishKeeps ==
    ASSUME ServiceInv, NEW p \in Paths, NEW i \in Interfaces, NEW v \in PropertyValues, Publish(p, i, v)
    PROVE  ServiceInv'
<1> DEFINE more == DOMAIN objects \cup {<<p, i>>}
           carried == ValuesOf([s \in {s \in DOMAIN objects' : s[1] = p} |-> objects'[s]])
<1>1. objects \in Objects  BY DEF ServiceInv, ServiceTypes
<1>2. PICK slots \in SUBSET Slots : objects \in [slots -> [Properties -> PropertyValues]]
  BY <1>1 DEF Objects
<1>3. objects' = [s \in more |-> IF s = <<p, i>> THEN [q \in Properties |-> v] ELSE objects[s]]
  BY DEF Publish
<1>4. more \in SUBSET Slots /\ \A s \in more \ {<<p, i>>} : objects[s] \in [Properties -> PropertyValues]
  BY <1>2 DEF Slots
<1>5. [q \in Properties |-> v] \in [Properties -> PropertyValues]  OBVIOUS
<1>6. objects' \in Objects
  <2> HIDE DEF more
  <2>1. objects' \in [more -> [Properties -> PropertyValues]]  BY <1>3, <1>4, <1>5
  <2> QED  BY <1>4, <2>1 DEF Objects
<1>7. ChangeIsIn({<<p, i>>})
  BY <1>3 DEF ChangeIsIn
<1>8. /\ Announce("added", p, {<<p, i>>}, TRUE, carried) /\ UNCHANGED <<client, calls>>
      /\ owner' = owner /\ lives' = lives /\ inbox' = inbox
  BY DEF Publish
<1>9. \A s \in {<<p, i>>} : s[1] = p  OBVIOUS
<1> HIDE DEF carried, more
<1> QED  BY <1>6, <1>7, <1>8, <1>9, AnnounceKeeps

LEMMA WithdrawKeeps ==
    ASSUME ServiceInv, NEW p \in Paths, NEW interfaces, Withdraw(p, interfaces)
    PROVE  ServiceInv'
<1> DEFINE gone == {p} \X interfaces
<1>1. objects \in Objects  BY DEF ServiceInv, ServiceTypes
<1>2. objects' = Keep(DOMAIN objects \ gone)  BY DEF Withdraw
<1>3. objects' \in Objects  BY <1>1, <1>2, KeptTypes
<1>4. /\ Announce("removed", p, gone, TRUE, {}) /\ UNCHANGED <<client, calls>>
      /\ owner' = owner /\ lives' = lives /\ inbox' = inbox
  BY DEF Withdraw
<1>5. \A s \in gone : s[1] = p  OBVIOUS
<1> HIDE DEF gone
<1>6. ChangeIsIn(gone)  BY <1>2 DEF Keep, ChangeIsIn
<1> QED  BY <1>3, <1>4, <1>5, <1>6, AnnounceKeeps

\* An assignment is to one slot.
LEMMA AssignsOne ==
    ASSUME ServiceTypes, NEW slot \in DOMAIN objects, NEW property, NEW value \in PropertyValues,
           Assign(slot, property, value)
    PROVE  /\ objects' \in Objects /\ slot[1] \in Paths
           /\ ChangeIsIn({slot})
<1>1. objects \in Objects  BY DEF ServiceTypes
<1>2. slot[1] \in Paths  BY <1>1 DEF Objects, Slots
<1> QED  BY <1>1, <1>2, AssignTypes DEF ChangeIsIn

LEMMA SetPropertyKeeps ==
    ASSUME ServiceInv, NEW slot \in DOMAIN objects, NEW p \in Properties, NEW v \in PropertyValues,
           NEW emit, SetProperty(slot, p, v, emit)
    PROVE  ServiceInv'
<1>1. ServiceTypes  BY DEF ServiceInv
<1>2. /\ owner' = owner /\ lives' = lives /\ UNCHANGED <<client, calls>> /\ inbox' = inbox
      /\ Assign(slot, p, v) /\ Announce("changed", slot[1], {slot}, emit, {v})
  BY DEF SetProperty
<1>3. /\ objects' \in Objects /\ slot[1] \in Paths
      /\ ChangeIsIn({slot})
  BY <1>1, <1>2, AssignsOne
<1>4. \A s \in {slot} : s[1] = slot[1]  OBVIOUS
<1> QED  BY <1>2, <1>3, <1>4, AnnounceKeeps

LEMMA ReplyType ==
    ASSUME ServiceTypes, NEW q \in Asks, NEW ok \in BOOLEAN, NEW value \in Answers
    PROVE  /\ Reply(q, ok, value) \in Messages /\ Reply(q, ok, value).kind \notin Signals
           /\ Reply(q, ok, value).kind = "answer" => q.link = link.n
           /\ Reply(q, ok, value).serial = q.serial /\ Reply(q, ok, value).ok = ok
           /\ Reply(q, ok, value).from = owner /\ Reply(q, ok, value).value = value
<1>1. q.link \in Nat /\ q.serial \in Nat /\ owner \in Nat
  <2>1. q \in Calls  BY DEF Asks
  <2>2. q.link \in Nat /\ q.serial \in Nat  BY <2>1 DEF Calls
  <2>3. lives \in Nat /\ owner \in 0 .. lives  BY DEF ServiceTypes
  <2> QED  BY <2>2, <2>3
<1> QED  BY <1>1 DEF Reply, Messages, Replies, Signals

LEMMA RefusedType ==
    ASSUME ServiceTypes, NEW q \in Asks
    PROVE  /\ Refused(q) \in Messages /\ Refused(q).kind \notin Signals
           /\ Refused(q).ok = FALSE /\ Refused(q).from = owner /\ Refused(q).serial = q.serial
<1>1. {} \in Answers  BY DEF Answers
<1> QED  BY <1>1, ReplyType, ZenonT(60) DEF Refused

LEMMA LeaveKeeps == ASSUME ServiceInv, Leave PROVE ServiceInv'
<1> DEFINE refusals == [i \in DOMAIN inbox |-> Refused(inbox[i])]
           m == OwnerChanged(Nobody)
           msgs == refusals \o <<m>>
<1>1. ServiceTypes /\ Numbered  BY DEF ServiceInv
<1>2. inbox \in Seq(Asks) /\ owner # Nobody /\ owner \in 0 .. lives /\ lives \in Nat
  BY <1>1 DEF ServiceTypes, Leave
<1>3. /\ refusals \in Seq(Messages) /\ Len(refusals) = Len(inbox)
      /\ \A i \in 1 .. Len(inbox) : refusals[i] = Refused(inbox[i])
  <2>1. ASSUME NEW i \in 1 .. Len(inbox) PROVE Refused(inbox[i]) \in Messages
    <3>1. inbox[i] \in Asks  BY <1>2
    <3> QED  BY <1>1, <3>1, RefusedType
  <2> QED  BY <1>2, <2>1
<1>4. m \in Messages /\ m.kind = "owner" /\ m.new = Nobody
  BY DEF OwnerChanged, Messages, Owners, Nobody
<1>5. owner' = Nobody /\ objects' = <<>> /\ inbox' = <<>> /\ lives' = lives
      /\ Route(msgs) /\ UNCHANGED <<client, calls>>
  BY DEF Leave
<1>6. NewOwner  BY <1>2, <1>5 DEF NewOwner, Nobody
<1>7. Announced(m)  BY <1>2, <1>4, <1>5 DEF Announced
<1>8. ASSUME NEW j \in 1 .. Len(refusals)
      PROVE  /\ Truly(refusals[j]) /\ refusals[j].kind \notin Signals
             /\ refusals[j] \in {r \in Messages : r.kind \notin Signals}
  <2>1. j \in 1 .. Len(inbox) /\ inbox[j] \in Asks /\ refusals[j] = Refused(inbox[j])
    BY <1>2, <1>3
  <2> DEFINE r == refusals[j]
  <2>2. /\ r \in Messages /\ r.kind \notin Signals /\ r.ok = FALSE /\ r.from = owner
        /\ r.serial = inbox[j].serial
    BY <1>1, <2>1, RefusedType
  <2> HIDE DEF r, refusals
  <2>3. inbox[j].serial <= calls  BY <1>1, <2>1 DEF Numbered
  <2>4. Truly(r)  BY <1>2, <1>5, <2>2, <2>3 DEF Truly
  <2> QED  BY <2>2, <2>4 DEF r
<1>9. Truly(m)  BY <1>4 DEF Truly
<1>10. Only(Signals, refusals) = <<>>
  <2> DEFINE Rs == {r \in Messages : r.kind \notin Signals}
  <2>1. refusals \in Seq(Rs)
    <3> HIDE DEF refusals, Rs
    <3> QED  BY <1>3, <1>8 DEF Rs
  <2>2. \A r \in Rs : r.kind \notin Signals  OBVIOUS
  <2> HIDE DEF refusals, Rs
  <2> QED  BY <2>1, <2>2, OnlyNone
<1> HIDE DEF refusals, m
<1>11. <<m>> \in Seq(Messages) /\ Len(<<m>>) = 1 /\ (<<m>>)[1] = m  BY <1>4
<1>12. msgs \in Seq(Messages)  BY <1>3, <1>11
<1>13. Only(Signals, msgs) = <<m>>
  <2>1. Only(Signals, <<m>>) = <<m>>  BY <1>4, OnlyOne DEF Signals
  <2> DEFINE one == <<m>>
  <2>2. one \in Seq(Messages) /\ Only(Signals, one) = one  BY <1>11, <2>1
  <2> HIDE DEF one
  <2>3. Only(Signals, refusals \o one) = Only(Signals, refusals) \o Only(Signals, one)
    BY <1>3, <2>2, OnlyConcat, SMTT(60)
  <2>4. <<>> \o one = one  BY <2>2, ConcatEmptySeq
  <2> QED  BY <1>10, <2>2, <2>3, <2>4 DEF one
<1>14. ASSUME NEW j \in 1 .. Len(msgs) PROVE Truly(msgs[j])
  <2>1. \/ \E k \in 1 .. Len(refusals) : msgs[j] = refusals[k]
        \/ \E k \in 1 .. Len(<<m>>) : msgs[j] = (<<m>>)[k]
    <3> DEFINE one == <<m>>
    <3>1. one \in Seq(Messages)  BY <1>11
    <3> HIDE DEF one
    <3>2. msgs = refusals \o one  BY DEF one
    <3>3. \/ \E k \in 1 .. Len(refusals) : (refusals \o one)[j] = refusals[k]
          \/ \E k \in 1 .. Len(one) : (refusals \o one)[j] = one[k]
      BY <1>3, <1>14, <3>1, <3>2, Concatenated
    <3> QED  BY <3>3 DEF one
  <2>2. \A k \in 1 .. Len(<<m>>) : (<<m>>)[k] = m  BY <1>11
  <2> QED  BY <1>8, <1>9, <2>1, <2>2
<1>15. inbox' \in Seq(Asks) /\ Len(inbox') = 0  BY <1>5
<1> HIDE DEF msgs
<1>16. ServiceActs(msgs)
  <2>1. \A i \in 1 .. Len(inbox') : FALSE  BY <1>15
  <2> QED
    BY <1>4, <1>5, <1>6, <1>7, <1>13, <1>14, <1>15, <2>1, NoObjects, SMTT(60) DEF ServiceActs
<1> QED  BY <1>12, <1>16, ActsKeep

LEMMA IntrospectedType ==
    ASSUME ServiceTypes, NEW q \in Asks
    PROVE  Introspected(q.path) \in Introspections
<1>1. objects \in Objects /\ q \in Calls  BY DEF ServiceTypes, Asks
<1>2. \A s \in DOMAIN objects : s[1] \in Paths /\ s[2] \in Interfaces
  BY <1>1 DEF Objects, Slots
<1> DEFINE Under1 == {s \in DOMAIN objects : Under(s[1], q.path) /\ s[1] # q.path}
           at == Len(q.path) + 1
           Lengths == {Len(p) + 1 : p \in Paths \cup {Root} \cup AskedPart(2)}
           nodes == {s[1][at] : s \in Under1}
           here == {s \in DOMAIN objects : s[1] = q.path}
<1>3. q.path \in Paths \cup {Root} \cup AskedPart(2)  BY <1>1 DEF Calls
<1>4. at \in Lengths  BY <1>3
<1>5. {s[2] : s \in here} \in SUBSET Interfaces  BY <1>2
<1>6. nodes \in SUBSET {path[n] : path \in Paths, n \in Lengths}
  <2> HIDE DEF at, Lengths
  <2>1. Under1 \subseteq DOMAIN objects  OBVIOUS
  <2> HIDE DEF Under1
  <2> QED  BY <1>2, <1>4, <2>1
<1>7. Introspected(q.path) = [interfaces |-> {s[2] : s \in here}, nodes |-> nodes]
  BY DEF Introspected
<1> DEFINE Nodes == {path[n] : path \in Paths, n \in Lengths}
<1>8. Introspections = [interfaces : SUBSET Interfaces, nodes : SUBSET Nodes]
  BY DEF Introspections
<1> HIDE DEF here, nodes, Nodes, Lengths, at, Under1
<1> QED  BY <1>5, <1>6, <1>7, <1>8 DEF Nodes

LEMMA PropertiesType ==
    ASSUME ServiceTypes, NEW slot \in DOMAIN objects, NEW p \in Properties
    PROVE  objects[slot] \in [Properties -> PropertyValues] /\ objects[slot][p] \in PropertyValues
<1>1. objects \in Objects  BY DEF ServiceTypes
<1> QED  BY <1>1 DEF Objects

\* The answer to a question, of whichever kind.
Fits(q, r) ==
    /\ r \in Messages /\ r.kind \notin Signals /\ r.serial = q.serial /\ r.from = owner
    /\ r.kind = "answer" => q.link = link.n

LEMMA ReplyFits ==
    ASSUME ServiceTypes, NEW q \in Asks, NEW ok \in BOOLEAN, NEW value \in Answers
    PROVE  Fits(q, Reply(q, ok, value)) /\ Reply(q, ok, value).value = value
BY ReplyType DEF Fits

LEMMA AnswerFits ==
    ASSUME ServiceTypes, NEW q \in Asks
    PROVE  /\ Fits(q, Answer(q))
           /\ q.member = "GetManagedObjects" => Answer(q).value = Managed(q.path)
<1>1. {} \in Answers /\ <<>> \in Answers /\ TRUE \in BOOLEAN /\ FALSE \in BOOLEAN
  BY DEF Answers
<1>2. Fits(q, Refused(q))  BY <1>1, ReplyFits DEF Refused
<1>3. CASE q.member = "GetManagedObjects"
  <2>1. Managed(q.path) \in Objects
    <3>1. objects \in Objects  BY DEF ServiceTypes
    <3> QED  BY <3>1, KeptTypes DEF Managed
  <2>2. Managed(q.path) \in Answers  BY <2>1 DEF Answers
  <2>3. Answer(q) = Reply(q, TRUE, Managed(q.path))  BY <1>3 DEF Answer
  <2> QED  BY <1>1, <2>2, <2>3, ReplyFits, ZenonT(60)
<1>4. CASE q.member = "Introspect"
  <2>1. Introspected(q.path) \in Answers  BY IntrospectedType DEF Answers
  <2>2. Answer(q) = Reply(q, TRUE, Introspected(q.path))  BY <1>4 DEF Answer
  <2> QED  BY <1>1, <1>4, <2>1, <2>2, ReplyFits
<1>5. CASE q.member \in {"Get", "GetAll"}
  <2> DEFINE slot == <<q.path, q.interface>>
  <2>1. Answer(q) = PropertiesAnswer(q, slot)  BY <1>5 DEF Answer
  <2>2. CASE q.member = "GetAll"
    <3> DEFINE v == IF slot \in DOMAIN objects THEN objects[slot] ELSE <<>>
    <3>1. PropertiesAnswer(q, slot) = Reply(q, TRUE, v)  BY <2>2 DEF PropertiesAnswer
    <3>2. slot \in DOMAIN objects => objects[slot] \in [Properties -> PropertyValues]
      <4>1. objects \in Objects  BY DEF ServiceTypes
      <4> QED  BY <4>1 DEF Objects
    <3>3. v \in Answers  BY <1>1, <3>2 DEF Answers
    <3> HIDE DEF v, slot
    <3>4. Fits(q, Reply(q, TRUE, v))  BY <1>1, <3>3, ReplyFits
    <3>5. Answer(q) = Reply(q, TRUE, v)  BY <2>1, <3>1
    <3> QED  BY <2>2, <3>4, <3>5
  <2>3. CASE q.member = "Get" /\ slot \in DOMAIN objects /\ q.property \in Properties
    <3>1. PropertiesAnswer(q, slot) = Reply(q, TRUE, objects[slot][q.property])
      BY <2>3 DEF PropertiesAnswer
    <3>2. objects[slot][q.property] \in Answers  BY <2>3, PropertiesType DEF Answers
    <3> HIDE DEF slot
    <3>3. Fits(q, Reply(q, TRUE, objects[slot][q.property]))  BY <1>1, <3>2, ReplyFits
    <3>4. Answer(q) = Reply(q, TRUE, objects[slot][q.property])  BY <2>1, <3>1
    <3> QED  BY <2>3, <3>3, <3>4
  <2>4. CASE q.member = "Get" /\ ~(slot \in DOMAIN objects /\ q.property \in Properties)
    <3>1. PropertiesAnswer(q, slot) = Refused(q)  BY <2>4 DEF PropertiesAnswer
    <3> QED  BY <1>2, <2>1, <2>4, <3>1
  <2> QED  BY <1>5, <2>2, <2>3, <2>4
<1>6. CASE q.member \notin {"GetManagedObjects", "Introspect", "Get", "GetAll"}
  <2>1. Answer(q) \in {Reply(q, TRUE, {}), Refused(q)}  BY <1>6 DEF Answer
  <2> QED  BY <1>1, <1>2, <1>6, <2>1, ReplyFits
<1> QED  BY <1>3, <1>4, <1>5, <1>6

\* The answer to the question the client waits for is the answer to that question.
LEMMA FitIsTrue ==
    ASSUME ServiceInv, NEW q, inbox # <<>>, q = Head(inbox), NEW r, Fits(q, r),
           lives' = lives,
           q.member = "GetManagedObjects" =>
               r.value = Managed(q.path) /\ Managed(Root)' = Managed(Root)
    PROVE  Truly(r)
<1>1. ServiceTypes /\ Numbered /\ Marked  BY DEF ServiceInv
<1>2. inbox \in Seq(Asks) /\ lives \in Nat /\ owner \in 0 .. lives  BY <1>1 DEF ServiceTypes
<1>3. 1 \in 1 .. Len(inbox) /\ q = inbox[1]  BY <1>2
<1>4. q.serial <= calls  BY <1>1, <1>3 DEF Numbered
<1>5. r.serial = q.serial /\ r.from = owner /\ (r.kind = "answer" => q.link = link.n)  BY DEF Fits
<1>6. ASSUME r.kind = "answer", waiting.member = "GetManagedObjects", r.serial = waiting.serial
      PROVE  r.value = Managed(Root)'
  <2>1. waiting # NoQuestion  BY <1>6 DEF NoQuestion
  <2>2. q = waiting  BY <1>1, <1>3, <1>5, <1>6, <2>1 DEF Numbered
  <2>3. q.path = Root  BY <1>1, <1>6, <2>2 DEF Marked
  <2> QED  BY <1>6, <2>2, <2>3
<1> QED  BY <1>2, <1>4, <1>5, <1>6 DEF Truly

LEMMA TailOfInbox ==
    ASSUME ServiceTypes, inbox # <<>>, inbox' = Tail(inbox)
    PROVE  /\ Head(inbox) \in Asks /\ inbox' \in Seq(Asks)
           /\ \A i \in 1 .. Len(inbox') : \E j \in 1 .. Len(inbox) : inbox'[i] = inbox[j]
<1>1. inbox \in Seq(Asks)  BY DEF ServiceTypes
<1>2. /\ Len(inbox') = Len(inbox) - 1 /\ Len(inbox) \in Nat
      /\ \A i \in 1 .. Len(inbox) - 1 : inbox'[i] = inbox[i + 1]
  BY <1>1
<1>3. ASSUME NEW i \in 1 .. Len(inbox') PROVE \E j \in 1 .. Len(inbox) : inbox'[i] = inbox[j]
  <2>1. i + 1 \in 1 .. Len(inbox) /\ inbox'[i] = inbox[i + 1]  BY <1>2
  <2> QED  BY <2>1
<1> QED  BY <1>1, <1>3

LEMMA ProcessKeeps == ASSUME ServiceInv, Process PROVE ServiceInv'
<1> DEFINE q == Head(inbox)
           slot == <<q.path, q.interface>>
<1>1. ServiceTypes /\ objects \in Objects  BY DEF ServiceInv, ServiceTypes
<1>2. /\ inbox # <<>> /\ inbox' = Tail(inbox) /\ owner' = owner /\ lives' = lives
      /\ UNCHANGED <<client, calls>> /\ (ServeSet(q, slot) \/ ServeRest(q, slot))
  BY DEF Process, bounds
<1>3. /\ q \in Asks /\ inbox' \in Seq(Asks)
      /\ \A i \in 1 .. Len(inbox') : \E j \in 1 .. Len(inbox) : inbox'[i] = inbox[j]
  BY <1>1, <1>2, TailOfInbox
<1>4. NewOwner  BY <1>2, SameOwner
<1> HIDE DEF q
<1>5. CASE ServeRest(q, slot) /\ Sendable(Carried(q, slot))
  <2> DEFINE r == Answer(q)
             msgs == <<r>>
  <2>1. Route(msgs) /\ objects' = objects /\ silent' = silent  BY <1>5 DEF ServeRest
  <2>2. Fits(q, r) /\ (q.member = "GetManagedObjects" => r.value = Managed(q.path))
    BY <1>1, <1>3, AnswerFits
  <2> HIDE DEF r
  <2>3. Managed(Root)' = Managed(Root)  BY <2>1 DEF Managed, Keep
  <2>4. q = Head(inbox)  BY DEF q
  <2>5. Truly(r)  BY <1>2, <2>2, <2>3, <2>4, FitIsTrue
  <2>6. r \in Messages /\ r.kind \notin Signals  BY <2>2 DEF Fits
  <2>7. msgs \in Seq(Messages) /\ Only(Signals, msgs) = <<>>  BY <2>6, OnlyOne
  <2>8. \A j \in 1 .. Len(msgs) : Truly(msgs[j])  BY <2>5
  <2> HIDE DEF msgs
  <2>9. StillTold  BY <2>1, NothingChanges
  <2>10. ServiceActs(msgs)
    BY <1>1, <1>2, <1>3, <1>4, <2>1, <2>7, <2>8, <2>9 DEF ServiceActs
  <2> QED  BY <2>7, <2>10, ActsKeep
<1>6. CASE ServeRest(q, slot) /\ ~Sendable(Carried(q, slot))
  <2>1. socket' = socket /\ objects' = objects /\ silent' = silent  BY <1>6 DEF ServeRest
  <2>2. StillTold  BY <2>1, NothingChanges
  <2> QED  BY <1>1, <1>2, <1>3, <2>1, <2>2, NoSignal
<1>7. CASE ServeSet(q, slot) /\ ~Sendable({q.value})
  <2> DEFINE r == Refused(q)
             msgs == <<r>>
  <2>1. /\ slot \in DOMAIN objects /\ Assign(slot, q.property, q.value) /\ q.member = "Set"
        /\ Route(msgs) /\ silent' = silent \cup {slot}
    BY <1>7 DEF ServeSet
  <2>2. q.value \in PropertyValues  BY <1>3, <2>1 DEF Asks
  <2>3. /\ objects' \in Objects
        /\ ChangeIsIn({slot})
    BY <1>1, <2>1, <2>2, AssignsOne
  <2>4. StillTold  BY <2>1, <2>3, ToldElsewhere
  <2>5. Fits(q, r)
    <3>1. {} \in Answers /\ FALSE \in BOOLEAN  BY DEF Answers
    <3> QED  BY <1>1, <1>3, <3>1, ReplyFits DEF Refused
  <2> HIDE DEF r, slot
  <2>6. Truly(r)
    <3>1. q = Head(inbox)  BY DEF q
    <3> QED  BY <1>2, <2>1, <2>5, <3>1, FitIsTrue
  <2>7. r \in Messages /\ r.kind \notin Signals  BY <2>5 DEF Fits
  <2>8. msgs \in Seq(Messages) /\ Only(Signals, msgs) = <<>>  BY <2>7, OnlyOne
  <2>9. \A j \in 1 .. Len(msgs) : Truly(msgs[j])  BY <2>6
  <2> HIDE DEF msgs
  <2>10. ServiceActs(msgs)
    BY <1>2, <1>3, <1>4, <2>1, <2>3, <2>4, <2>8, <2>9 DEF ServiceActs
  <2> QED  BY <2>8, <2>10, ActsKeep
<1>8. CASE ServeSet(q, slot) /\ Sendable({q.value})
  <2> DEFINE m == Signal("changed", slot[1])
             r == Reply(q, TRUE, {})
             msgs == <<m, r>>
  <2>1. q.member = "Set" /\ slot \in DOMAIN objects /\ Assign(slot, q.property, q.value)
        /\ Route(msgs) /\ silent' = silent \ {slot}
    BY <1>8 DEF ServeSet
  <2>2. q.value \in PropertyValues  BY <1>3, <2>1 DEF Asks
  <2>3. /\ m \in Messages /\ m.kind = "changed" /\ Announced(m) /\ objects' \in Objects
    <3>1. /\ objects' \in Objects /\ slot[1] \in Paths
          /\ ChangeIsIn({slot})
      BY <1>1, <2>1, <2>2, AssignsOne
    <3>2. m \in Messages /\ m.kind = "changed" /\ m.path = slot[1]  BY <1>1, <3>1, SignalType
    <3>3. ~Under(slot[1], Root) => StillTold
      <4>1. ~Under(slot[1], Root) => \A s \in {slot} : ~Under(s[1], Root)  OBVIOUS
      <4> HIDE DEF slot
      <4> QED  BY <2>1, <3>1, <4>1, ToldElsewhere
    <3> HIDE DEF slot
    <3> QED  BY <1>2, <3>1, <3>2, <3>3 DEF Announced
  <2>4. Fits(q, r)
    <3>1. {} \in Answers  BY DEF Answers
    <3> QED  BY <1>1, <1>3, <3>1, ReplyFits
  <2> HIDE DEF m, r, slot
  <2>5. Truly(r)
    <3>1. q = Head(inbox)  BY DEF q
    <3> QED  BY <1>2, <2>1, <2>4, <3>1, FitIsTrue
  <2>6. Truly(m)  BY <2>3 DEF Truly
  <2>7. r \in Messages /\ r.kind \notin Signals  BY <2>4 DEF Fits
  <2>8. msgs \in Seq(Messages) /\ msgs = Append(<<m>>, r) /\ <<m>> \in Seq(Messages)
    BY <2>3, <2>7
  <2>9. Only(Signals, msgs) = <<m>>
    <3> DEFINE one == <<m>>
    <3>1. one \in Seq(Messages) /\ r \in Messages  BY <2>7, <2>8
    <3>2. Only(Signals, one) = one  BY <2>3, OnlyOne DEF Signals
    <3> HIDE DEF one
    <3>3. Only(Signals, Append(one, r)) =
             IF r.kind \in Signals THEN Append(Only(Signals, one), r) ELSE Only(Signals, one)
      BY <3>1, OnlyAppend
    <3> QED  BY <2>7, <2>8, <3>2, <3>3 DEF one
  <2>10. \A j \in 1 .. Len(msgs) : Truly(msgs[j])
    <3>1. Len(msgs) = 2 /\ msgs[1] = m /\ msgs[2] = r  OBVIOUS
    <3>2. \A j \in 1 .. 2 : j = 1 \/ j = 2  OBVIOUS
    <3> QED  BY <2>5, <2>6, <3>1, <3>2
  <2> HIDE DEF msgs
  <2>11. ServiceActs(msgs)
    BY <1>2, <1>3, <1>4, <2>1, <2>3, <2>9, <2>10 DEF ServiceActs
  <2> QED  BY <2>8, <2>11, ActsKeep
<1> QED  BY <1>2, <1>5, <1>6, <1>7, <1>8

LEMMA AnotherSetsKeeps ==
    ASSUME ServiceInv, NEW slot \in DOMAIN objects, NEW p \in Properties, NEW v \in PropertyValues,
           AnotherSets(slot, p, v)
    PROVE  ServiceInv'
<1> DEFINE q == [member |-> "Set", path |-> slot[1], interface |-> slot[2],
                 property |-> p, value |-> v, link |-> 0, serial |-> 0, heard |-> FALSE]
<1>1. ServiceTypes /\ objects \in Objects /\ inbox \in Seq(Asks) /\ socket \in Seq(Messages)
  BY DEF ServiceInv, ServiceTypes
<1>2. slot[1] \in Paths /\ slot[2] \in Interfaces  BY <1>1 DEF Objects, Slots
<1>3. q \in Asks  BY <1>2 DEF Asks, Calls
<1>4. /\ inbox' = Append(inbox, q) /\ UNCHANGED <<client, calls>> /\ socket' = socket
      /\ objects' = objects /\ owner' = owner /\ lives' = lives /\ silent' = silent
  BY DEF AnotherSets, service
<1>5. q.serial = 0 /\ q.link = 0  OBVIOUS
<1> HIDE DEF q
<1>6. inbox' \in Seq(Asks)  BY <1>1, <1>3, <1>4
<1>7. ASSUME NEW i \in 1 .. Len(inbox')
      PROVE  \/ \E j \in 1 .. Len(inbox) : inbox'[i] = inbox[j]
             \/ inbox'[i].serial = 0 /\ inbox'[i].link = 0
  <2>1. CASE i = Len(inbox) + 1  BY <1>1, <1>3, <1>4, <1>5, <2>1
  <2>2. CASE i \in 1 .. Len(inbox)  BY <1>1, <1>3, <1>4, <2>2
  <2> QED  BY <1>1, <1>3, <1>4, <2>1, <2>2
<1>8. StillTold  BY <1>4, NothingChanges
<1> QED  BY <1>1, <1>4, <1>6, <1>7, <1>8, NoSignal

-----------------------------------------------------------------------------
(* What the client does *)

(* Whom the subscriptions follow does not depend on what is marked.          *)
LEMMA DeliveryBound ==
    ASSUME NEW s \in States, NEW t \in States, s.bound = t.bound,
           NEW queue \in Seq(Messages)
    PROVE  Delivery(s, queue).bound = Delivery(t, queue).bound
<1> DEFINE D(k) == Delivery(s, SubSeq(queue, 1, k))
           E(k) == Delivery(t, SubSeq(queue, 1, k))
           T == {k \in 0 .. Len(queue) : D(k).bound = E(k).bound}
<1>1. 0 \in T
  <2>1. D(0) = s /\ E(0) = t  BY PrefixFacts, DeliveryEmpty
  <2>2. 0 \in 0 .. Len(queue)  OBVIOUS
  <2> HIDE DEF D, E
  <2> QED  BY <2>1, <2>2
<1>2. ASSUME NEW k \in 0 .. Len(queue) - 1, k \in T PROVE k + 1 \in T
  <2> DEFINE m == queue[k + 1]
             here == SubSeq(queue, 1, k)
  <2>1. here \in Seq(Messages) /\ m \in Messages /\ SubSeq(queue, 1, k + 1) = Append(here, m)
    BY PrefixFacts
  <2>2. Delivery(s, here).bound = Delivery(t, here).bound /\ k + 1 \in 0 .. Len(queue)
    BY <1>2
  <2> HIDE DEF here, m
  <2>3. /\ Delivery(s, Append(here, m)) = Delivered(Delivery(s, here), m)
        /\ Delivery(t, Append(here, m)) = Delivered(Delivery(t, here), m)
    BY <2>1, DeliveryAppend
  <2>4. Delivery(s, here) \in States /\ Delivery(t, here) \in States
    BY <2>1, DeliveryState
  <2>5. Delivered(Delivery(s, here), m).bound = Delivered(Delivery(t, here), m).bound
    BY <2>1, <2>2, <2>4, DeliveredState, ZenonT(60)
  <2>6. D(k + 1).bound = E(k + 1).bound  BY <2>1, <2>3, <2>5
  <2> HIDE DEF D, E
  <2> QED  BY <2>2, <2>6
<1> HIDE DEF T
<1>3. Len(queue) \in Nat  OBVIOUS
<1>4. 0 .. Len(queue) \subseteq T  BY <1>1, <1>2, <1>3, InductiveSet
<1>5. Len(queue) \in T /\ SubSeq(queue, 1, Len(queue)) = queue  BY <1>3, <1>4, PrefixFacts
<1> QED  BY <1>5 DEF T

(* What is read before its turn is parked: the next dispatch finds it there. *)
LEMMA OnlyParked ==
    ASSUME NEW M, NEW kinds
    PROVE  \A p, a, b, c \in Seq(M) : Only(kinds, c) = Only(kinds, b) =>
              Only(kinds, (p \o Only(kinds, a)) \o c) = Only(kinds, p \o (a \o b))
<1> DEFINE S == Seq(M)
           Cat(x, y) == x \o y
           Of(x) == Only(kinds, x)
<1>1. \A x, y \in S : Of(Cat(x, y)) = Cat(Of(x), Of(y))  BY OnlyConcat
<1>2. \A x, y, z \in S : Cat(x, Cat(y, z)) = Cat(Cat(x, y), z)  BY Regroup, SMTT(60)
<1>3. \A x, y \in S : Cat(x, y) \in S  OBVIOUS
<1>4. \A x \in S : Of(x) \in S  BY OnlyIsASeq
<1>5. \A x \in S : Of(Of(x)) = Of(x)
  <2>1. kinds \cap kinds = kinds  OBVIOUS
  <2> QED  BY <2>1, OnlyTwice
<1>6. SUFFICES \A p, a, b, c \in S : Of(c) = Of(b) =>
                   Of(Cat(Cat(p, Of(a)), c)) = Of(Cat(p, Cat(a, b)))
  OBVIOUS
<1> HIDE DEF S, Cat, Of
<1>7. SUFFICES ASSUME NEW p \in S, NEW a \in S, NEW b \in S, NEW c \in S, Of(c) = Of(b)
               PROVE  Of(Cat(Cat(p, Of(a)), c)) = Of(Cat(p, Cat(a, b)))
  OBVIOUS
<1>8. Of(Cat(Cat(p, Of(a)), c)) = Cat(Cat(Of(p), Of(a)), Of(b))
  BY <1>1, <1>3, <1>4, <1>5, <1>7
<1>9. Of(Cat(p, Cat(a, b))) = Cat(Of(p), Cat(Of(a), Of(b)))  BY <1>1, <1>3
<1> QED  BY <1>2, <1>4, <1>8, <1>9

LEMMA ParkedIsPending ==
    ASSUME ServiceTypes, NEW a \in Seq(Messages), NEW b \in Seq(Messages), socket = a \o b,
           Only(Signals, socket') = Only(Signals, b), socket' \in Seq(Messages),
           parked' = parked \o Only(Signals, a)
    PROVE  Pending' = Pending /\ parked' \in Seq(Messages)
<1> DEFINE c == socket'
<1>1. parked \in Seq(Messages) /\ Only(Signals, a) \in Seq(Messages) /\ c \in Seq(Messages)
      /\ Only(Signals, c) = Only(Signals, b)
  BY OnlyIsASeq DEF ServiceTypes
<1>2. parked' \in Seq(Messages)  BY <1>1
<1>3. Pending' = Only(Signals, (parked \o Only(Signals, a)) \o c)  BY DEF Pending
<1>4. Pending = Only(Signals, parked \o (a \o b))  BY DEF Pending
<1> HIDE DEF c
<1>5. Only(Signals, (parked \o Only(Signals, a)) \o c) = Only(Signals, parked \o (a \o b))
  BY <1>1, OnlyParked
<1> QED  BY <1>2, <1>3, <1>4, <1>5

(* The client reads all that is in its socket.                               *)
LEMMA ReadAll ==
    ASSUME ServiceTypes, socket' = <<>>, parked' = parked \o Only(Signals, socket)
    PROVE  Pending' = Pending /\ parked' \in Seq(Messages) /\ socket' \in Seq(Messages)
<1> DEFINE none == <<>>
<1>1. socket \in Seq(Messages) /\ none \in Seq(Messages)  BY DEF ServiceTypes
<1>2. socket = socket \o none  BY <1>1, ConcatEmptySeq
<1>3. socket' = none  OBVIOUS
<1> HIDE DEF none
<1> QED  BY <1>1, <1>2, <1>3, ParkedIsPending

LEMMA FromHere ==
    ASSUME NEW M, NEW q \in Seq(M), NEW i \in 1 .. Len(q)
    PROVE  SubSeq(q, i, Len(q)) = <<q[i]>> \o SubSeq(q, i + 1, Len(q))
<1> DEFINE b == SubSeq(q, i, Len(q))
           c == SubSeq(q, i + 1, Len(q))
           one == <<q[i]>>
           d == one \o c
<1>1. q[i] \in M /\ Len(q) \in Nat  OBVIOUS
<1>2. b \in Seq(M) /\ Len(b) = Len(q) - i + 1 /\ \A k \in 1 .. Len(q) - i + 1 : b[k] = q[k + i - 1]
  BY SMTT(60)
<1>3. c \in Seq(M) /\ Len(c) = Len(q) - i /\ \A k \in 1 .. Len(q) - i : c[k] = q[k + i]
  BY SMTT(60)
<1>4. d \in Seq(M) /\ Len(d) = 1 + Len(c)
      /\ \A k \in 1 .. 1 + Len(c) : d[k] = IF k = 1 THEN q[i] ELSE c[k - 1]
  <2>1. one \in Seq(M) /\ Len(one) = 1 /\ one[1] = q[i]  BY <1>1
  <2> HIDE DEF c, one
  <2>2. /\ d \in Seq(M) /\ Len(d) = Len(one) + Len(c)
        /\ \A k \in 1 .. Len(one) + Len(c) :
              d[k] = IF k <= Len(one) THEN one[k] ELSE c[k - Len(one)]
    BY <1>3, <2>1, ConcatProperties, ZenonT(60)
  <2> HIDE DEF d
  <2>3. \A k \in 1 .. 1 + Len(c) : k <= 1 <=> k = 1  OBVIOUS
  <2> QED  BY <2>1, <2>2, <2>3
<1> HIDE DEF b, c, d, one
<1>5. ASSUME NEW k \in 1 .. Len(b) PROVE b[k] = d[k]
  <2>1. k \in 1 .. Len(q) - i + 1 /\ k \in 1 .. 1 + Len(c)  BY <1>1, <1>2, <1>3
  <2>2. CASE k = 1
    <3>1. k + i - 1 = i  BY <2>2
    <3> QED  BY <1>2, <1>4, <2>1, <2>2, <3>1
  <2>3. CASE k # 1
    <3>1. k - 1 \in 1 .. Len(q) - i /\ (k - 1) + i = k + i - 1  BY <1>1, <2>1, <2>3
    <3> QED  BY ZenonT(30), <1>2, <1>3, <1>4, <2>1, <2>3, <3>1
  <2> QED  BY <2>2, <2>3
<1>6. Len(b) = Len(d)  BY <1>1, <1>2, <1>3, <1>4
<1>7. b = d
  <2>1. b \in Seq(M) /\ d \in Seq(M)  BY <1>2, <1>4
  <2>2. Len(b) = Len(d) /\ \A k \in 1 .. Len(b) : b[k] = d[k]  BY <1>5, <1>6
  <2> QED  BY <2>1, <2>2, SeqEqual
<1> QED  BY <1>7 DEF b, c, d, one

(* It reads up to the answer it waits for, and that one too.                 *)
LEMMA ReadUpTo ==
    ASSUME ServiceTypes, NEW i \in 1 .. Len(socket), socket[i].kind \notin Signals,
           parked' = parked \o Only(Signals, SubSeq(socket, 1, i - 1)),
           socket' = SubSeq(socket, i + 1, Len(socket))
    PROVE  /\ Pending' = Pending /\ parked' \in Seq(Messages) /\ socket' \in Seq(Messages)
           /\ \A k \in 1 .. Len(socket') : \E j \in 1 .. Len(socket) : socket'[k] = socket[j]
<1> DEFINE a == SubSeq(socket, 1, i - 1)
           b == SubSeq(socket, i, Len(socket))
           c == SubSeq(socket, i + 1, Len(socket))
           m == socket[i]
<1>1. socket \in Seq(Messages) /\ i - 1 \in 0 .. Len(socket) /\ (i - 1) + 1 = i /\ Len(socket) \in Nat
  BY DEF ServiceTypes
<1>2. a \in Seq(Messages) /\ b \in Seq(Messages) /\ socket = a \o b
  BY <1>1, SplitsAt, SMTT(60)
<1>3. c \in Seq(Messages) /\ m \in Messages
      /\ Len(c) = Len(socket) - i /\ \A k \in 1 .. Len(c) : c[k] = socket[i + k]
  BY <1>1
<1>4. b = <<m>> \o c  BY <1>1, FromHere
<1>5. Only(Signals, b) = Only(Signals, c)
  <2> HIDE DEF b, c
  <2>1. m.kind \notin Signals  OBVIOUS
  <2> HIDE DEF m
  <2> QED  BY <1>3, <1>4, <2>1, OnlyFirst
<1>6. \A k \in 1 .. Len(c) : \E j \in 1 .. Len(socket) : c[k] = socket[j]
  <2>1. TAKE k \in 1 .. Len(c)
  <2>2. i + k \in 1 .. Len(socket)  BY <1>1, <1>3
  <2> QED  BY <1>3, <2>2
<1>7. socket' = c /\ parked' = parked \o Only(Signals, a)  OBVIOUS
<1> HIDE DEF a, b, c, m
<1>8. Only(Signals, socket') = Only(Signals, b) /\ socket' \in Seq(Messages)
  BY <1>3, <1>5, <1>7
<1>9. Pending' = Pending /\ parked' \in Seq(Messages)  BY <1>2, <1>7, <1>8, ParkedIsPending
<1> QED  BY <1>6, <1>7, <1>8, <1>9

(* Nothing that the next dispatch depends on changes.                        *)
LEMMA DispatchedSame ==
    ASSUME Pending' = Pending, bound' = bound, unresolved' = unresolved,
           link'.generation = link.generation, dirty' = dirty
    PROVE  Dispatched' = Dispatched
BY DEF Dispatched

LEMMA SameTree == ASSUME objects' = objects PROVE Managed(Root)' = Managed(Root)
BY DEF Managed, Keep

LEMMA ExpireKeeps == ASSUME ServiceInv, Expire PROVE ServiceInv'
<1>1. /\ ServiceTypes /\ Silence /\ Bound /\ Numbered /\ Marked
      /\ AnswerIsTold /\ ChangeIsTold
  BY DEF ServiceInv
<1>2. /\ presence.ok /\ presence' = [presence EXCEPT !.fresh = FALSE]
      /\ objects' = objects /\ owner' = owner /\ lives' = lives /\ inbox' = inbox
      /\ socket' = socket /\ parked' = parked /\ link' = link /\ bound' = bound
      /\ subscribed' = subscribed /\ waiting' = waiting /\ facetView' = facetView
      /\ dirty' = dirty /\ calls' = calls /\ hears' = hears /\ unresolved' = unresolved
      /\ silent' = silent
  BY DEF Expire, service, watch, bounds
<1>3. Pending' = Pending /\ Dispatched' = Dispatched /\ Managed(Root)' = Managed(Root)
  BY <1>2, SameTree, DispatchedSame DEF Pending
<1>4. /\ presence \in Memories /\ presence' \in Memories
      /\ presence'.epoch = presence.epoch /\ presence'.heard = presence.heard
      /\ presence'.fresh = FALSE
  BY <1>1, <1>2, ReadTypes DEF Memories
<1>5. ServiceTypes'  BY <1>1, <1>2, <1>4 DEF ServiceTypes
<1>6. Silence' /\ Bound' /\ Numbered'  BY <1>1, <1>2, <1>3 DEF Silence, Bound, Numbered
<1>7. Marked'  BY <1>1, <1>2, <1>4 DEF Marked, Attentive
<1>8. AnswerIsTold' /\ ChangeIsTold'  BY <1>1, <1>2, <1>3 DEF AnswerIsTold, ChangeIsTold
<1>9. RememberedIsTrue'  BY <1>4 DEF RememberedIsTrue, Remembered
<1> QED  BY <1>5, <1>6, <1>7, <1>8, <1>9 DEF ServiceInv

LEMMA RetryDueKeeps == ASSUME ServiceInv, RetryDue PROVE ServiceInv'
<1>1. /\ ServiceTypes /\ Silence /\ Bound /\ Numbered /\ Marked
      /\ AnswerIsTold /\ RememberedIsTrue /\ ChangeIsTold
  BY DEF ServiceInv
<1>2. /\ objects' = objects /\ owner' = owner /\ lives' = lives /\ inbox' = inbox
      /\ socket' = socket /\ parked' = parked /\ link' = link /\ presence' = presence
      /\ bound' = bound /\ subscribed' = subscribed /\ waiting' = waiting
      /\ facetView' = facetView /\ dirty' = dirty /\ calls' = calls
      /\ hears' = hears /\ unresolved' = unresolved /\ silent' = silent
  BY DEF RetryDue, service, watch, bounds
<1>3. Pending' = Pending /\ Dispatched' = Dispatched /\ Managed(Root)' = Managed(Root)
  BY <1>2, SameTree, DispatchedSame DEF Pending
<1>4. ServiceTypes'  BY <1>1, <1>2 DEF ServiceTypes
<1>5. Silence' /\ Bound' /\ Numbered'  BY <1>1, <1>2, <1>3 DEF Silence, Bound, Numbered
<1>6. Marked'  BY <1>1, <1>2 DEF Marked, Attentive
<1>7. AnswerIsTold' /\ ChangeIsTold'  BY <1>1, <1>2, <1>3 DEF AnswerIsTold, ChangeIsTold
<1>8. RememberedIsTrue'  BY <1>1, <1>2, <1>3 DEF RememberedIsTrue, Remembered, Epoch
<1> QED  BY <1>4, <1>5, <1>6, <1>7, <1>8 DEF ServiceInv

LEMMA WatchKeeps == ASSUME ServiceInv, Watch PROVE ServiceInv'
<1>1. /\ ServiceTypes /\ Silence /\ Bound /\ Numbered /\ Marked
      /\ AnswerIsTold /\ RememberedIsTrue /\ ChangeIsTold
  BY DEF ServiceInv
<1>2. /\ ~subscribed /\ waiting = NoQuestion /\ subscribed' = TRUE
      /\ objects' = objects /\ owner' = owner /\ lives' = lives /\ inbox' = inbox
      /\ socket' = socket /\ parked' = parked /\ link' = link /\ presence' = presence
      /\ waiting' = waiting /\ facetView' = facetView /\ dirty' = dirty /\ calls' = calls
      /\ silent' = silent
  BY DEF Watch, service, bounds
<1>3. hears = {} /\ Pending = <<>>  BY <1>1, <1>2 DEF Silence
<1>4. Pending' = <<>> /\ Managed(Root)' = Managed(Root)
  BY <1>2, <1>3, SameTree DEF Pending
<1>5. owner \in Nat  BY <1>1 DEF ServiceTypes
<1>6. /\ hears' \in SUBSET Signals /\ unresolved' \in SUBSET Inventory
      /\ bound' \in Nat \cup {Unbound} /\ ("owner" \in hears' => bound' = owner)
      /\ ~link.open => hears' = hears
  <2>1. CASE ~link.open
    <3>1. bound' = bound /\ hears' = hears /\ unresolved' = unresolved
      BY <2>1 DEF Watch, watch
    <3> QED  BY <1>1, <1>3, <3>1 DEF ServiceTypes
  <2>2. CASE link.open
    <3>1. PICK took \in SUBSET Signals :
             /\ hears' = took /\ unresolved' \in SUBSET (took \cap Inventory)
             /\ bound' = IF "owner" \in took THEN owner ELSE Unbound
      BY <2>2 DEF Watch
    <3> QED  BY <1>5, <2>2, <3>1
  <2> QED  BY <2>1, <2>2
<1>7. Dispatched = Start /\ Dispatched' = Start'
  <2>1. Dispatched = Delivery(Start, <<>>)  BY <1>3 DEF Dispatched, Start
  <2>2. Dispatched' = Delivery(Start', <<>>)  BY <1>4 DEF Dispatched, Start
  <2> QED  BY <2>1, <2>2, DeliveryEmpty
<1>8. Start'.bound = bound' /\ Start'.dirty = Start.dirty  BY <1>2 DEF Start
<1>9. ServiceTypes'  BY <1>1, <1>2, <1>6 DEF ServiceTypes
<1>10. Silence'  BY <1>1, <1>2, <1>3, <1>4, <1>6 DEF Silence
<1>11. Bound'  BY <1>2, <1>6, <1>7, <1>8 DEF Bound
<1>12. Numbered'  BY <1>1, <1>2 DEF Numbered
<1>13. Marked'
  <2>1. ~Attentive /\ "owner" \notin hears  BY <1>3 DEF Attentive, Signals
  <2>2. waiting.heard = FALSE /\ waiting.member = "none"  BY <1>2 DEF NoQuestion
  <2> QED  BY <1>1, <1>2, <2>1, <2>2 DEF Marked
<1>14. AnswerIsTold'  BY <1>2 DEF AnswerIsTold, NoQuestion
<1>15. ChangeIsTold'  BY <1>1, <1>2, <1>4, <1>7, <1>8 DEF ChangeIsTold
<1>16. RememberedIsTrue'
  <2>1. "owner" \notin hears  BY <1>3
  <2>2. Remembered /\ link.open => ~presence.heard
    BY <1>1, <2>1 DEF Marked, Remembered, Epoch
  <2> QED  BY <1>2, <2>2 DEF RememberedIsTrue, Remembered, Epoch
<1> QED
  BY <1>9, <1>10, <1>11, <1>12, <1>13, <1>14, <1>15, <1>16 DEF ServiceInv

LEMMA NothingPending ==
    ASSUME parked' = <<>>, socket' = <<>>
    PROVE  Pending' = <<>> /\ Dispatched' = Start'
<1>1. <<>> \o <<>> = <<>>  OBVIOUS
<1>2. Pending' = <<>>  BY <1>1, OnlyEmpty DEF Pending
<1>3. Dispatched' = Delivery(Start', <<>>)  BY <1>2 DEF Dispatched, Start
<1> QED  BY <1>2, <1>3, DeliveryEmpty

LEMMA DroppedKeeps == ASSUME ServiceInv, Dropped PROVE ServiceInv'
<1>1. ServiceTypes /\ Silence /\ Numbered /\ Marked  BY DEF ServiceInv
<1>2. /\ link' = [link EXCEPT !.open = FALSE] /\ socket' = <<>> /\ parked' = <<>>
      /\ bound' = Unbound /\ waiting' = NoQuestion /\ facetView' \in {facetView, Unknown}
      /\ objects' = objects /\ owner' = owner /\ lives' = lives /\ inbox' = inbox
      /\ presence' = presence /\ subscribed' = subscribed /\ dirty' = dirty /\ calls' = calls
      /\ hears' = {} /\ unresolved' = {} /\ silent' = silent
  BY DEF Dropped, service
<1>3. Pending' = <<>>  BY <1>2, NothingPending
<1>4. /\ link' \in [n : Nat, open : BOOLEAN, generation : Nat] /\ ~link'.open
      /\ link'.n = link.n /\ link'.generation = link.generation
  BY <1>1, <1>2 DEF ServiceTypes
<1>5. waiting'.heard = FALSE /\ waiting'.member = "none"  BY <1>2 DEF NoQuestion
<1>6. ServiceTypes'  BY <1>1, <1>2, <1>4 DEF ServiceTypes
<1>7. Silence' /\ Bound'  BY <1>2, <1>3, <1>4 DEF Silence, Bound
<1>8. Numbered'
  <2>1. Len(socket') = 0  BY <1>2
  <2> QED  BY <1>1, <1>2, <1>4, <2>1 DEF Numbered
<1>9. Marked'
  <2>1. facetView' = facetView \/ facetView'.ok = FALSE  BY <1>2 DEF Unknown
  <2> QED  BY <1>1, <1>2, <1>4, <1>5, <2>1 DEF Marked
<1>10. AnswerIsTold'  BY <1>5 DEF AnswerIsTold
<1>11. ChangeIsTold' /\ RememberedIsTrue'  BY <1>4 DEF ChangeIsTold, RememberedIsTrue
<1> QED  BY <1>6, <1>7, <1>8, <1>9, <1>10, <1>11 DEF ServiceInv

LEMMA ReconnectKeeps == ASSUME ServiceInv, Reconnect PROVE ServiceInv'
<1>1. /\ ServiceTypes /\ Silence /\ Numbered /\ Marked  BY DEF ServiceInv
<1>2. /\ ~link.open
      /\ \/ link' = [n |-> link.n + 1, open |-> TRUE, generation |-> 0]
         \/ link' = link
      /\ objects' = objects /\ owner' = owner /\ lives' = lives /\ inbox' = inbox
      /\ socket' = socket /\ parked' = parked /\ presence' = presence /\ bound' = bound
      /\ subscribed' = subscribed /\ waiting' = waiting /\ facetView' = facetView
      /\ dirty' = dirty /\ calls' = calls /\ hears' = hears /\ unresolved' = unresolved
      /\ silent' = silent
  BY DEF Reconnect, service, watch, bounds
<1>3. parked = <<>> /\ socket = <<>> /\ hears = {} /\ waiting = NoQuestion
  BY <1>1, <1>2 DEF Silence
<1>4. Pending' = <<>>  BY <1>2, <1>3, NothingPending
<1>5. /\ link.n \in Nat /\ link' \in [n : Nat, open : BOOLEAN, generation : Nat]
      /\ \/ link'.n = link.n + 1
         \/ link'.n = link.n /\ link'.generation = link.generation /\ ~link'.open
  <2>1. link \in [n : Nat, open : BOOLEAN, generation : Nat] /\ link.n \in Nat
    BY <1>1 DEF ServiceTypes
  <2>2. CASE link' = [n |-> link.n + 1, open |-> TRUE, generation |-> 0]  BY <2>1, <2>2
  <2>3. CASE link' = link  BY <1>2, <2>1, <2>3
  <2> QED  BY <1>2, <2>2, <2>3
<1>6. waiting'.heard = FALSE /\ waiting'.member = "none"  BY <1>2, <1>3 DEF NoQuestion
<1>7. ServiceTypes'  BY <1>1, <1>2, <1>5 DEF ServiceTypes
<1>8. Silence' /\ Bound'  BY <1>2, <1>3, <1>4 DEF Silence, Bound
<1>9. Numbered'
  <2>1. Len(socket') = 0  BY <1>2, <1>3
  <2>2. ASSUME NEW i \in 1 .. Len(inbox) PROVE inbox[i].link \in Nat /\ inbox[i].link <= link.n
    <3>1. inbox[i] \in Asks  BY <1>1 DEF ServiceTypes
    <3> QED  BY <1>1, <3>1 DEF Numbered, Asks, Calls
  <2>3. \A i \in 1 .. Len(inbox) : inbox[i].link <= link'.n  BY <1>5, <2>2
  <2> QED  BY <1>1, <1>2, <1>3, <1>5, <2>1, <2>3 DEF Numbered
<1>10. presence.ok => presence.epoch[1] \in Nat /\ presence.epoch[1] <= link.n
  BY <1>1, ReadTypes DEF Marked, Memories
<1>11. facetView.ok => facetView.link \in Nat /\ facetView.link <= link.n
  BY <1>1, ReadTypes DEF Marked, Views
<1>12. Marked'
  <2>1. CASE link'.n = link.n + 1
    BY <1>1, <1>2, <1>5, <1>6, <1>10, <1>11, <2>1 DEF Marked
  <2>2. CASE link'.n = link.n /\ link'.generation = link.generation /\ ~link'.open
    BY <1>1, <1>2, <1>5, <1>6, <2>2 DEF Marked
  <2> QED  BY <1>5, <2>1, <2>2
<1>13. AnswerIsTold'  BY <1>6 DEF AnswerIsTold
<1>14. ChangeIsTold'
  BY <1>2, <1>5, <1>11 DEF ChangeIsTold
<1>15. RememberedIsTrue'
  <2>1. CASE link'.n = link.n + 1
    <3>1. presence.ok => presence.epoch # <<link'.n, link'.generation>>  BY <1>5, <1>10, <2>1
    <3> QED  BY <1>2, <3>1 DEF RememberedIsTrue, Remembered, Epoch
  <2>2. CASE ~link'.open  BY <2>2 DEF RememberedIsTrue
  <2> QED  BY <1>5, <2>1, <2>2
<1> QED  BY <1>7, <1>8, <1>9, <1>12, <1>13, <1>14, <1>15 DEF ServiceInv

LEMMA DispatchKeeps == ASSUME ServiceInv, Dispatch PROVE ServiceInv'
<1>1. /\ ServiceTypes /\ Silence /\ Bound /\ Numbered /\ Marked
      /\ AnswerIsTold /\ RememberedIsTrue /\ ChangeIsTold
  BY DEF ServiceInv
<1>2. /\ link.open /\ waiting = NoQuestion /\ Pending # <<>>
      /\ bound' = Dispatched.bound /\ dirty' = Dispatched.dirty
      /\ link' = [link EXCEPT !.generation = Dispatched.generation]
      /\ parked' = <<>> /\ socket' = <<>>
      /\ objects' = objects /\ owner' = owner /\ lives' = lives /\ inbox' = inbox
      /\ presence' = presence /\ subscribed' = subscribed /\ waiting' = waiting
      /\ facetView' = facetView /\ calls' = calls /\ hears' = hears
      /\ unresolved' = Dispatched.unresolved /\ silent' = silent
  BY DEF Dispatch, service, bounds
<1>3. /\ Pending \in Seq(Messages) /\ Start \in States /\ Dispatched \in States
      /\ Dispatched = Delivery(Start, Pending)
  BY <1>1, PendingType
<1>4. /\ Dispatched.generation >= link.generation
      /\ Dispatched.unresolved \subseteq unresolved
      /\ (\E i \in 1 .. Len(Pending) : Pending[i].kind = "owner") =>
             Dispatched.generation > link.generation
  <2>1. Start.generation = link.generation /\ Start.unresolved = unresolved  BY DEF Start
  <2> HIDE DEF Pending
  <2> QED  BY <1>3, <2>1, DeliveryState
<1>5. Dispatched.generation \in Nat /\ Dispatched.bound \in Nat \cup {Unbound}
      /\ Dispatched.dirty \in BOOLEAN /\ Dispatched.unresolved \in SUBSET Inventory
  BY <1>3 DEF States
<1>6. "owner" \in hears => Dispatched.bound = owner  BY <1>1 DEF Bound
<1>7. Attentive => Attentive'  BY <1>2, <1>4 DEF Attentive
<1>8. /\ link' \in [n : Nat, open : BOOLEAN, generation : Nat] /\ link.generation \in Nat
      /\ link'.open = link.open /\ link'.n = link.n /\ link'.generation = Dispatched.generation
  BY <1>1, <1>2, <1>5 DEF ServiceTypes
<1>9. Pending' = <<>> /\ Dispatched' = Start'  BY <1>2, NothingPending
<1>10. Start'.bound = Dispatched.bound /\ Start'.dirty = Dispatched.dirty /\ Managed(Root)' = Managed(Root)
  BY <1>2, SameTree DEF Start
<1>11. ServiceTypes'  BY <1>1, <1>2, <1>5, <1>8 DEF ServiceTypes
<1>12. Silence' /\ Bound'  BY <1>1, <1>2, <1>6, <1>8, <1>9, <1>10 DEF Silence, Bound
<1>13. waiting'.heard = FALSE /\ waiting'.member = "none"  BY <1>2 DEF NoQuestion
<1>14. Numbered'
  <2>1. Len(socket') = 0  BY <1>2
  <2> QED  BY <1>1, <1>2, <1>8, <2>1 DEF Numbered
<1>15. presence.ok => /\ presence.epoch[1] \in Nat /\ presence.epoch[2] \in Nat
                      /\ presence.epoch[1] = link.n => presence.epoch[2] <= link.generation
  BY <1>1, ReadTypes DEF Marked, Memories
<1>16. Marked'
  <2>1. presence.ok /\ presence.epoch[1] = link.n => presence.epoch[2] <= link'.generation
    BY <1>4, <1>5, <1>8, <1>15
  <2> QED  BY <1>1, <1>2, <1>7, <1>8, <1>13, <2>1 DEF Marked
<1>17. AnswerIsTold'  BY <1>13 DEF AnswerIsTold
<1>18. ChangeIsTold'
  BY <1>1, <1>2, <1>8, <1>9, <1>10 DEF ChangeIsTold
<1>19. RememberedIsTrue'
  <2>1. SUFFICES ASSUME presence.ok, presence.epoch = <<link.n, Dispatched.generation>>,
                        presence.fresh, presence.heard
                 PROVE  \/ presence.answer = (owner # Nobody)
                        \/ ~presence.answer /\ presence.failed
    BY <1>2, <1>8 DEF RememberedIsTrue, Remembered, Epoch
  <2>2. presence.epoch[1] = link.n /\ presence.epoch[2] = Dispatched.generation  BY <2>1
  <2>3. Dispatched.generation = link.generation  BY <1>4, <1>5, <1>8, <1>15, <2>1, <2>2
  <2>4. Remembered  BY <2>1, <2>3 DEF Remembered, Epoch
  <2>5. ~(\E i \in DOMAIN Pending : Pending[i].kind = "owner")
    <3>1. DOMAIN Pending = 1 .. Len(Pending)  BY <1>3
    <3> HIDE DEF Pending
    <3> QED  BY <1>4, <1>8, <2>3, <3>1
  <2> QED  BY <1>1, <1>2, <2>1, <2>4, <2>5 DEF RememberedIsTrue
<1> QED
  BY <1>11, <1>12, <1>14, <1>16, <1>17, <1>18, <1>19 DEF ServiceInv

LEMMA TimedOutKeeps == ASSUME ServiceInv, TimedOut PROVE ServiceInv'
<1>1. /\ ServiceTypes /\ Silence /\ Bound /\ Numbered /\ Marked
      /\ AnswerIsTold /\ RememberedIsTrue /\ ChangeIsTold
  BY DEF ServiceInv
<1>2. /\ waiting # NoQuestion /\ waiting' = NoQuestion
      /\ parked' = parked \o Only(Signals, socket) /\ socket' = <<>>
      /\ facetView' = IF waiting.member = "GetManagedObjects" THEN Unknown ELSE facetView
      /\ objects' = objects /\ owner' = owner /\ lives' = lives /\ inbox' = inbox
      /\ link' = link /\ presence' = presence /\ bound' = bound
      /\ subscribed' = subscribed /\ dirty' = dirty /\ calls' = calls
      /\ hears' = hears /\ unresolved' = unresolved /\ silent' = silent
  BY DEF TimedOut, service, watch, bounds
<1>3. Pending' = Pending /\ parked' \in Seq(Messages) /\ socket' \in Seq(Messages)
  BY <1>1, <1>2, ReadAll
<1>4. Dispatched' = Dispatched /\ Managed(Root)' = Managed(Root)
  BY <1>2, <1>3, SameTree, DispatchedSame
<1>5. waiting'.heard = FALSE /\ waiting'.member = "none"  BY <1>2 DEF NoQuestion
<1>6. facetView'.ok => facetView' = facetView /\ waiting.member # "GetManagedObjects"
  BY <1>2 DEF Unknown
<1>7. ServiceTypes'  BY <1>1, <1>2, <1>3 DEF ServiceTypes
<1>8. link.open  BY <1>1, <1>2 DEF Silence
<1>9. Silence' /\ Bound'  BY <1>1, <1>2, <1>3, <1>4, <1>8 DEF Silence, Bound
<1>10. Numbered'
  <2>1. Len(socket') = 0  BY <1>2
  <2> QED  BY <1>1, <1>2, <2>1 DEF Numbered
<1>11. Marked'  BY <1>1, <1>2, <1>5, <1>6 DEF Marked, Attentive
<1>12. AnswerIsTold'  BY <1>5 DEF AnswerIsTold
<1>13. ChangeIsTold'  BY <1>1, <1>2, <1>4, <1>6 DEF ChangeIsTold
<1>14. RememberedIsTrue'  BY <1>1, <1>2, <1>3 DEF RememberedIsTrue, Remembered, Epoch
<1> QED
  BY <1>7, <1>9, <1>10, <1>11, <1>12, <1>13, <1>14 DEF ServiceInv

LEMMA AnsweredKeeps == ASSUME ServiceInv, Answered PROVE ServiceInv'
<1>1. /\ ServiceTypes /\ Silence /\ Bound /\ Numbered /\ Marked
      /\ AnswerIsTold /\ RememberedIsTrue /\ ChangeIsTold
  BY DEF ServiceInv
<1>2. PICK i \in DOMAIN socket :
        /\ waiting # NoQuestion
        /\ socket[i].kind = "answer" /\ socket[i].serial = waiting.serial
        /\ parked' = parked \o Only(Signals, SubSeq(socket, 1, i - 1))
        /\ socket' = SubSeq(socket, i + 1, Len(socket))
        /\ waiting' = NoQuestion
        /\ facetView' = IF waiting.member # "GetManagedObjects" THEN facetView
                        ELSE IF socket[i].ok THEN Seen(socket[i]) ELSE Unknown
        /\ UNCHANGED <<service, inbox, link, retrying, presence, watch, subscribed, dirty, bounds>>
  BY DEF Answered
<1>3. /\ objects' = objects /\ owner' = owner /\ lives' = lives /\ inbox' = inbox
      /\ link' = link /\ presence' = presence /\ bound' = bound
      /\ subscribed' = subscribed /\ dirty' = dirty /\ calls' = calls
      /\ hears' = hears /\ unresolved' = unresolved /\ silent' = silent
  BY <1>2 DEF service, watch, bounds
<1>4. i \in 1 .. Len(socket) /\ socket[i] \in Replies
  <2>1. i \in 1 .. Len(socket) /\ socket[i] \in Messages  BY <1>1 DEF ServiceTypes
  <2> QED  BY <1>2, <2>1 DEF Messages, Owners, News, Replies
<1> DEFINE r == socket[i]
<1>5. r.value \in Answers /\ r.from \in Nat /\ r.from <= lives
  BY <1>1, <1>2, <1>4 DEF Numbered, Replies
<1>6. /\ Pending' = Pending /\ parked' \in Seq(Messages) /\ socket' \in Seq(Messages)
      /\ \A k \in 1 .. Len(socket') : \E j \in 1 .. Len(socket) : socket'[k] = socket[j]
  <2>1. socket[i].kind \notin Signals  BY <1>2 DEF Signals
  <2> QED  BY <1>1, <1>2, <1>4, <2>1, ReadUpTo
<1>7. Dispatched' = Dispatched /\ Managed(Root)' = Managed(Root)
  BY <1>3, <1>6, SameTree, DispatchedSame
<1>8. waiting'.heard = FALSE /\ waiting'.member = "none"  BY <1>2 DEF NoQuestion
<1>9. waiting \in Asks /\ waiting.heard \in BOOLEAN
  BY <1>1, <1>2 DEF ServiceTypes, Asks, Calls
<1>10. link.n \in Nat /\ link.open  BY <1>1, <1>2 DEF Silence, ServiceTypes
<1> HIDE DEF r
<1>11. facetView'.ok =>
         \/ facetView' = facetView /\ waiting.member # "GetManagedObjects"
         \/ /\ waiting.member = "GetManagedObjects" /\ r.ok
            /\ facetView' \in Views /\ facetView'.value = r.value /\ facetView'.from = r.from
            /\ facetView'.link = link.n /\ facetView'.heard = waiting.heard
  <2>1. CASE waiting.member # "GetManagedObjects"  BY <1>2, <2>1
  <2>2. CASE waiting.member = "GetManagedObjects" /\ r.ok
    <3>1. facetView' = [ok |-> TRUE, value |-> r.value, from |-> r.from, link |-> link.n,
                        heard |-> waiting.heard]
      BY <1>2, <2>2 DEF Seen, r
    <3> QED  BY <1>5, <1>9, <1>10, <2>2, <3>1 DEF Views
  <2>3. CASE waiting.member = "GetManagedObjects" /\ ~r.ok
    BY <1>2, <2>3 DEF Unknown, r
  <2> QED  BY <2>1, <2>2, <2>3
<1>12. facetView' \in {Unknown} \cup Views
  <2>1. facetView' \in {facetView, Unknown} \/ facetView'.ok
    BY <1>2 DEF Seen
  <2> QED  BY <1>1, <1>11, <2>1 DEF ServiceTypes
<1>13. ServiceTypes'  BY <1>1, <1>2, <1>3, <1>6, <1>12 DEF ServiceTypes
<1>14. Silence' /\ Bound'  BY <1>1, <1>2, <1>3, <1>6, <1>7, <1>10 DEF Silence, Bound
<1>15. Numbered'  BY <1>1, <1>2, <1>3, <1>6, ZenonT(60) DEF Numbered
<1>16. Marked'
  <2>1. Attentive' = Attentive  BY <1>3 DEF Attentive
  <2> QED  BY <1>1, <1>3, <1>5, <1>8, <1>10, <1>11, <2>1 DEF Marked
<1>17. AnswerIsTold'  BY <1>8 DEF AnswerIsTold
<1>18. ChangeIsTold'
  <2>1. SUFFICES ASSUME facetView'.ok, facetView'.heard, facetView'.from = owner,
                        owner # Nobody, facetView'.link = link.n
                 PROVE  \/ Told(facetView'.value, silent) = Told(Managed(Root), silent)
                        \/ Dispatched.dirty
    BY <1>3, <1>7 DEF ChangeIsTold
  <2>2. CASE facetView' = facetView /\ waiting.member # "GetManagedObjects"
    BY <1>1, <1>10, <2>1, <2>2 DEF ChangeIsTold
  <2>3. CASE /\ waiting.member = "GetManagedObjects" /\ r.ok
             /\ facetView'.value = r.value /\ facetView'.from = r.from
             /\ facetView'.heard = waiting.heard
    BY <1>1, <1>2, <1>4, <2>1, <2>3 DEF AnswerIsTold, r
  <2> QED  BY <1>11, <2>1, <2>2, <2>3
<1>19. RememberedIsTrue'  BY <1>1, <1>3, <1>6 DEF RememberedIsTrue, Remembered, Epoch
<1> QED
  BY <1>13, <1>14, <1>15, <1>16, <1>17, <1>18, <1>19 DEF ServiceInv

(* A new question has a number of its own.                                   *)
LEMMA QuestionNumbered ==
    ASSUME ServiceTypes, Numbered, NEW q \in Asks, q.serial = calls + 1, q.link = link.n,
           link' = link, lives' = lives, waiting' = q, calls' = calls + 1,
           inbox' \in {inbox, Append(inbox, q)},
           \A i \in 1 .. Len(socket') :
              \/ \E j \in 1 .. Len(socket) : socket'[i] = socket[j]
              \/ socket'[i].serial = calls + 1 /\ socket'[i].from <= lives
    PROVE  Numbered' /\ inbox' \in Seq(Asks)
<1>1. calls \in Nat /\ inbox \in Seq(Asks) /\ socket \in Seq(Messages)  BY DEF ServiceTypes
<1>2. inbox' \in Seq(Asks)  BY <1>1, SMTT(60)
<1>3. ASSUME NEW i \in 1 .. Len(inbox')
      PROVE  /\ inbox'[i].serial <= calls' /\ inbox'[i].link <= link'.n
             /\ inbox'[i].serial = waiting'.serial => inbox'[i] = waiting'
  <2>1. CASE i \in 1 .. Len(inbox)
    <3>1. inbox[i] \in Asks /\ inbox'[i] = inbox[i]  BY <1>1, <2>1
    <3>2. inbox[i].serial \in Nat /\ inbox[i].serial <= calls /\ inbox[i].link <= link.n
      BY <2>1, <3>1 DEF Numbered, Asks, Calls
    <3> QED  BY <1>1, <3>1, <3>2
  <2>2. CASE inbox' = Append(inbox, q) /\ i = Len(inbox) + 1
    <3>1. inbox'[i] = q  BY <1>1, <2>2
    <3>2. q.link \in Nat  BY DEF Asks, Calls
    <3> QED  BY <1>1, <3>1, <3>2
  <2> QED  BY <1>1, <2>1, <2>2
<1>4. ASSUME NEW i \in 1 .. Len(socket'), socket'[i].kind = "answer"
      PROVE  socket'[i].serial <= calls' /\ socket'[i].from <= lives'
  <2>1. CASE \E j \in 1 .. Len(socket) : socket'[i] = socket[j]
    <3>1. PICK j \in 1 .. Len(socket) : socket'[i] = socket[j]  BY <2>1
    <3>2. socket[j] \in Messages /\ socket[j].kind = "answer"  BY <1>1, <1>4, <3>1
    <3>3. socket[j].serial \in Nat /\ socket[j].serial <= calls /\ socket[j].from <= lives
      BY <3>2 DEF Numbered, Messages, Owners, News, Replies
    <3> QED  BY <1>1, <3>1, <3>3
  <2>2. CASE socket'[i].serial = calls + 1 /\ socket'[i].from <= lives  BY <1>1, <2>2
  <2> QED  BY <2>1, <2>2
<1>5. link'.n >= 1 /\ waiting'.serial <= calls'  BY <1>1 DEF Numbered
<1> QED  BY <1>2, <1>3, <1>4, <1>5 DEF Numbered

LEMMA AskKeeps ==
    ASSUME ServiceInv, NEW a \in Questions, Ask(a[1], <<a[2], a[3]>>, a[4], a[5])
    PROVE  ServiceInv'
<1> DEFINE q == Question(a[1], <<a[2], a[3]>>, a[4], a[5])
           r == Refused(q)
<1>1. /\ ServiceTypes /\ Silence /\ Bound /\ Numbered /\ Marked
      /\ AnswerIsTold /\ RememberedIsTrue /\ ChangeIsTold
  BY DEF ServiceInv
<1>2. /\ link.open /\ waiting = NoQuestion /\ calls' = calls + 1 /\ waiting' = q
      /\ inbox' = IF owner = Nobody THEN inbox ELSE Append(inbox, q)
      /\ socket' = IF owner = Nobody THEN Append(socket, r) ELSE socket
      /\ objects' = objects /\ owner' = owner /\ lives' = lives /\ parked' = parked
      /\ link' = link /\ presence' = presence /\ bound' = bound
      /\ subscribed' = subscribed /\ facetView' = facetView /\ dirty' = dirty
      /\ hears' = hears /\ unresolved' = unresolved /\ silent' = silent
  BY DEF Ask, Send, service, watch
<1>3. /\ link.n \in Nat /\ calls \in Nat /\ owner \in 0 .. lives /\ lives \in Nat
      /\ socket \in Seq(Messages)
  BY <1>1 DEF ServiceTypes
<1>4. /\ q.serial = calls + 1 /\ q.link = link.n /\ q.heard = Attentive
      /\ q.member = a[1]
  BY DEF Question
<1>5. a[1] # "GetManagedObjects"  BY QuestionsAssumption
<1>6. q \in Asks
  <2>1. /\ a[2] \in AskedPart(2) /\ a[3] \in AskedPart(3)
        /\ a[4] \in AskedPart(4) /\ a[5] \in AskedPart(5)
    BY DEF AskedPart
  <2>2. a[1] \in {"Ping", "Introspect", "Get", "GetAll", "Set", "Method"}
        /\ (a[1] = "Set" => a[5] \in PropertyValues)
    BY QuestionsAssumption
  <2>3. q = [member |-> a[1], path |-> a[2], interface |-> a[3], property |-> a[4],
             value |-> a[5], link |-> link.n, serial |-> calls + 1, heard |-> Attentive]
    BY DEF Question
  <2> HIDE DEF q
  <2>4. Attentive \in BOOLEAN  BY DEF Attentive
  <2>5. q \in Calls
    <3> DEFINE Members == {"Ping", "Introspect", "Get", "GetAll", "Set", "Method",
                           "GetManagedObjects"}
               At == Paths \cup {Root} \cup AskedPart(2)
               Of == Interfaces \cup {""} \cup AskedPart(3)
               Called == Properties \cup {""} \cup AskedPart(4)
               Given == PropertyValues \cup {""} \cup AskedPart(5)
    <3>1. a[1] \in Members /\ a[2] \in At /\ a[3] \in Of /\ a[4] \in Called /\ a[5] \in Given
      BY <2>1, <2>2
    <3>2. link.n \in Nat /\ calls + 1 \in Nat  BY <1>3
    <3>3. Calls = [member : Members, path : At, interface : Of, property : Called, value : Given,
                   link : Nat, serial : Nat, heard : BOOLEAN]
      BY DEF Calls
    <3> HIDE DEF Members, At, Of, Called, Given
    <3> QED  BY <2>3, <2>4, <3>1, <3>2, <3>3
  <2>6. q.member = a[1] /\ q.value = a[5]  BY <2>3
  <2> QED  BY <2>2, <2>5, <2>6 DEF Asks
<1> HIDE DEF q
<1>7. /\ r \in Messages /\ r.kind \notin Signals /\ r.ok = FALSE /\ r.from = owner
      /\ r.serial = q.serial
  BY <1>1, <1>6, RefusedType
<1>8. r.kind = "answer"  BY <1>4 DEF Refused, Reply
<1> HIDE DEF r
<1>9. Pending' = Pending /\ Dispatched' = Dispatched /\ socket' \in Seq(Messages)
  <2>1. CASE owner = Nobody
    <3> DEFINE msgs == <<r>>
    <3>1. msgs \in Seq(Messages) /\ Only(Signals, msgs) = <<>> /\ Only(Heard, msgs) = msgs
      BY <1>7, <1>8, OnlyOne DEF Heard
    <3>2. Append(socket, r) = socket \o msgs  BY <1>3, <1>7, AppendIsConcat
    <3> HIDE DEF msgs
    <3>3. Route(msgs)  BY <1>2, <2>1, <3>1, <3>2 DEF Route, Heard
    <3>4. Pending' = Pending /\ Dispatched' = Dispatched
      BY <1>1, <1>2, <3>1, <3>3, Spoken
    <3> QED  BY <1>2, <1>3, <1>7, <2>1, <3>4
  <2>2. CASE owner # Nobody
    <3>1. Pending' = Pending  BY <1>2, <2>2 DEF Pending
    <3> QED  BY <1>2, <1>3, <2>2, <3>1, DispatchedSame
  <2> QED  BY <2>1, <2>2
<1>10. ASSUME NEW i \in 1 .. Len(socket')
       PROVE  \/ \E j \in 1 .. Len(socket) : socket'[i] = socket[j]
              \/ socket'[i].serial = calls + 1 /\ socket'[i].from <= lives
  <2>1. CASE owner = Nobody /\ i = Len(socket) + 1
    <3>1. socket'[i] = r  BY <1>2, <1>3, <1>7, <2>1
    <3> QED  BY <1>3, <1>4, <1>7, <3>1
  <2>2. CASE i \in 1 .. Len(socket)
    <3>1. socket'[i] = socket[i]  BY <1>2, <1>3, <1>7, <2>2
    <3> QED  BY <2>2, <3>1
  <2> QED  BY <1>2, <1>3, <1>7, <2>1, <2>2
<1>11. Numbered' /\ inbox' \in Seq(Asks)
  <2>1. inbox' \in {inbox, Append(inbox, q)}  BY <1>2
  <2> QED  BY <1>1, <1>2, <1>4, <1>6, <1>10, <2>1, QuestionNumbered
<1>12. Managed(Root)' = Managed(Root)  BY <1>2, SameTree
<1>13. waiting'.member # "GetManagedObjects" /\ (waiting'.heard => Attentive)
  BY <1>2, <1>4, <1>5
<1>14. ServiceTypes'  BY <1>1, <1>2, <1>3, <1>6, <1>9, <1>11 DEF ServiceTypes
<1>15. Silence' /\ Bound'  BY <1>1, <1>2, <1>9 DEF Silence, Bound
<1>16. Marked'
  <2>1. Attentive' = Attentive  BY <1>2 DEF Attentive
  <2> QED  BY <1>1, <1>2, <1>13, <2>1 DEF Marked
<1>17. AnswerIsTold'  BY <1>13 DEF AnswerIsTold
<1>18. ChangeIsTold'
  <2>1. waiting.member # "GetManagedObjects"  BY <1>2 DEF NoQuestion
  <2> QED  BY <1>1, <1>2, <1>9, <1>12, <2>1 DEF ChangeIsTold
<1>19. RememberedIsTrue'  BY <1>1, <1>2, <1>9 DEF RememberedIsTrue, Remembered, Epoch
<1> QED
  BY <1>11, <1>14, <1>15, <1>16, <1>17, <1>18, <1>19 DEF ServiceInv

(* What has_service() may remember: what the daemon says, or a no for a       *)
(* question that failed; it parks what it reads.                             *)
MemoryOf(failed) ==
    [ok |-> TRUE, answer |-> (owner # Nobody /\ ~failed), epoch |-> Epoch, fresh |-> TRUE,
     heard |-> "owner" \in hears, failed |-> failed]

LEMMA ServiceIsAsked ==
    ASSUME ServiceTypes, NEW answer \in BOOLEAN, HasService(answer)
    PROVE  /\ Pending' = Pending /\ parked' \in Seq(Messages) /\ socket' \in Seq(Messages)
           /\ \A i \in 1 .. Len(socket') : \E j \in 1 .. Len(socket) : socket'[i] = socket[j]
           /\ presence' = presence \/ \E failed \in BOOLEAN : presence' = MemoryOf(failed)
<1>1. CASE Remembered
  <2>1. presence' = presence /\ parked' = parked /\ socket' = socket
    BY <1>1 DEF HasService
  <2> QED  BY <2>1 DEF Pending, ServiceTypes
<1>2. CASE ~Remembered
  <2>1. /\ parked' = parked \o Only(Signals, socket) /\ socket' = <<>>
        /\ \E failed \in BOOLEAN : presence' = MemoryOf(failed)
    BY <1>2 DEF HasService, MemoryOf
  <2>2. Len(socket') = 0  BY <2>1
  <2>3. Pending' = Pending /\ parked' \in Seq(Messages) /\ socket' \in Seq(Messages)
    BY <2>1, ReadAll
  <2> QED  BY <2>1, <2>2, <2>3
<1> QED  BY <1>1, <1>2

\* The question of ReadTree.
TreeQuestion == Question("GetManagedObjects", <<Root, "">>, "", "")

LEMMA TreeIsAsked ==
    ASSUME ServiceInv, ReadTree
    PROVE  /\ Pending' = Pending /\ parked' \in Seq(Messages) /\ socket' \in Seq(Messages)
           /\ \A i \in 1 .. Len(socket') : \E j \in 1 .. Len(socket) : socket'[i] = socket[j]
           /\ presence' = presence \/ \E failed \in BOOLEAN : presence' = MemoryOf(failed)
           /\ \/ /\ facetView' = Unknown /\ inbox' = inbox /\ waiting' = waiting
                 /\ calls' = calls
              \/ /\ link.open /\ facetView' = facetView /\ waiting' = TreeQuestion
                 /\ calls' = calls + 1 /\ inbox' = Append(inbox, TreeQuestion)
           /\ ~link.open => parked' = parked /\ socket' = socket
<1>1. ServiceTypes  BY DEF ServiceInv
<1>2. CASE ~link.open
  <2>1. /\ facetView' = Unknown /\ presence' = presence /\ parked' = parked /\ socket' = socket
        /\ inbox' = inbox /\ waiting' = waiting /\ calls' = calls
    BY <1>2 DEF ReadTree
  <2> QED  BY <1>1, <2>1 DEF Pending, ServiceTypes
<1>3. CASE link.open /\ HasService(FALSE) /\ facetView' = Unknown
           /\ UNCHANGED <<inbox, waiting, calls>>
  <2>1. FALSE \in BOOLEAN /\ inbox' = inbox /\ waiting' = waiting /\ calls' = calls  BY <1>3
  <2> QED  BY <1>1, <1>3, <2>1, ServiceIsAsked
<1>4. CASE /\ link.open /\ HasService(TRUE)
           /\ IF owner = Nobody
              THEN facetView' = Unknown /\ UNCHANGED <<inbox, waiting, calls>>
              ELSE Send(TreeQuestion) /\ facetView' = facetView
  <2>1. TRUE \in BOOLEAN  OBVIOUS
  <2>2. \/ /\ facetView' = Unknown /\ inbox' = inbox /\ waiting' = waiting /\ calls' = calls
        \/ /\ link.open /\ facetView' = facetView /\ waiting' = TreeQuestion
           /\ calls' = calls + 1 /\ inbox' = Append(inbox, TreeQuestion)
    BY <1>4 DEF Send
  <2> QED  BY <1>1, <1>4, <2>1, <2>2, ServiceIsAsked
<1> QED  BY <1>2, <1>3, <1>4 DEF ReadTree, TreeQuestion

LEMMA ReadTreeKeeps == ASSUME ServiceInv, ReadTree PROVE ServiceInv'
<1> DEFINE q == TreeQuestion
<1>1. /\ ServiceTypes /\ Silence /\ Bound /\ Numbered /\ Marked
      /\ AnswerIsTold /\ RememberedIsTrue /\ ChangeIsTold
  BY DEF ServiceInv
<1>2. /\ Pending' = Pending /\ parked' \in Seq(Messages) /\ socket' \in Seq(Messages)
      /\ \A i \in 1 .. Len(socket') : \E j \in 1 .. Len(socket) : socket'[i] = socket[j]
      /\ presence' = presence \/ \E failed \in BOOLEAN : presence' = MemoryOf(failed)
      /\ \/ /\ facetView' = Unknown /\ inbox' = inbox /\ waiting' = waiting /\ calls' = calls
         \/ /\ link.open /\ facetView' = facetView /\ waiting' = q
            /\ calls' = calls + 1 /\ inbox' = Append(inbox, q)
      /\ ~link.open => parked' = parked /\ socket' = socket
  BY TreeIsAsked
<1>3. /\ waiting = NoQuestion /\ dirty' = FALSE
      /\ objects' = objects /\ owner' = owner /\ lives' = lives /\ link' = link
      /\ bound' = bound /\ subscribed' = subscribed
      /\ hears' = hears /\ unresolved' = unresolved /\ silent' = silent
  BY DEF ReadTree, service, watch
<1>4. /\ link.n \in Nat /\ link.generation \in Nat /\ calls \in Nat /\ owner \in 0 .. lives
      /\ lives \in Nat /\ bound \in Nat \cup {Unbound}
  BY <1>1 DEF ServiceTypes
<1>5. q = [member |-> "GetManagedObjects", path |-> Root, interface |-> "", property |-> "",
           value |-> "", link |-> link.n, serial |-> calls + 1, heard |-> Attentive]
  BY DEF TreeQuestion, Question
<1> HIDE DEF q
<1>6. q \in Asks
  <2> DEFINE Members == {"Ping", "Introspect", "Get", "GetAll", "Set", "Method",
                         "GetManagedObjects"}
             At == Paths \cup {Root} \cup AskedPart(2)
             Of == Interfaces \cup {""} \cup AskedPart(3)
             Called == Properties \cup {""} \cup AskedPart(4)
             Given == PropertyValues \cup {""} \cup AskedPart(5)
  <2>1. "GetManagedObjects" \in Members /\ Root \in At /\ "" \in Of /\ "" \in Called /\ "" \in Given
    OBVIOUS
  <2>2. link.n \in Nat /\ calls + 1 \in Nat /\ Attentive \in BOOLEAN  BY <1>4 DEF Attentive
  <2>3. Calls = [member : Members, path : At, interface : Of, property : Called, value : Given,
                 link : Nat, serial : Nat, heard : BOOLEAN]
    BY DEF Calls
  <2> HIDE DEF Members, At, Of, Called, Given
  <2>4. q \in Calls  BY <1>5, <2>1, <2>2, <2>3
  <2> QED  BY <1>5, <2>4 DEF Asks
<1>7. /\ q.member = "GetManagedObjects" /\ q.path = Root /\ q.link = link.n
      /\ q.serial = calls + 1 /\ q.heard = Attentive
  BY <1>5
<1>8. ASSUME NEW failed \in BOOLEAN
      PROVE  /\ MemoryOf(failed) \in Memories
             /\ MemoryOf(failed).epoch[1] = link.n /\ MemoryOf(failed).epoch[2] = link.generation
             /\ MemoryOf(failed).heard = ("owner" \in hears) /\ MemoryOf(failed).failed = failed
             /\ MemoryOf(failed).answer = (owner # Nobody /\ ~failed)
  <2>1. Epoch \in Nat \X Nat /\ Epoch[1] = link.n /\ Epoch[2] = link.generation
    BY <1>4 DEF Epoch
  <2>2. ("owner" \in hears) \in BOOLEAN /\ (owner # Nobody /\ ~failed) \in BOOLEAN  OBVIOUS
  <2> QED  BY <2>1, <2>2 DEF Memories, MemoryOf
<1>9. Unknown.ok = FALSE  BY DEF Unknown
<1>10. waiting.heard = FALSE /\ waiting.member = "none"  BY <1>3 DEF NoQuestion
<1>11. Dispatched'.bound = Dispatched.bound
  <2> DEFINE s == Start
             t == Start'
  <2>1. s \in States /\ Pending \in Seq(Messages) /\ Dispatched = Delivery(s, Pending)
    BY <1>1, PendingType
  <2>2. t \in States  BY <1>1, <1>3, <1>4 DEF Start, States, ServiceTypes
  <2>3. t.bound = s.bound  BY <1>3 DEF Start
  <2>4. Dispatched' = Delivery(t, Pending)  BY <1>2 DEF Dispatched, Start
  <2> HIDE DEF s, t, Pending
  <2> QED  BY <2>1, <2>2, <2>3, <2>4, DeliveryBound
<1>12. Managed(Root)' = Managed(Root)  BY <1>3, SameTree
<1>13. Numbered' /\ inbox' \in Seq(Asks)
  <2>1. CASE waiting' = q /\ calls' = calls + 1 /\ inbox' = Append(inbox, q)
    <3>1. inbox' \in {inbox, Append(inbox, q)}  BY <2>1
    <3> QED  BY <1>1, <1>2, <1>3, <1>6, <1>7, <2>1, <3>1, QuestionNumbered
  <2>2. CASE inbox' = inbox /\ waiting' = waiting /\ calls' = calls
    BY <1>1, <1>2, <1>3, <2>2 DEF Numbered, ServiceTypes
  <2> QED  BY <1>2, <2>1, <2>2
<1>14. ServiceTypes'
  <2>1. waiting' \in {NoQuestion} \cup Asks /\ calls' \in Nat
    BY <1>2, <1>3, <1>4, <1>6
  <2>2. presence' \in {Unknown} \cup Memories  BY <1>1, <1>2, <1>8 DEF ServiceTypes
  <2>3. facetView' \in {Unknown} \cup Views  BY <1>1, <1>2 DEF ServiceTypes
  <2>4. objects' \in Objects /\ link' \in [n : Nat, open : BOOLEAN, generation : Nat]
        /\ owner' \in 0 .. lives'
        /\ hears' \in SUBSET Signals /\ unresolved' \in SUBSET Inventory
    BY <1>1, <1>3 DEF ServiceTypes
  <2> QED  BY <1>2, <1>3, <1>4, <1>13, <2>1, <2>2, <2>3, <2>4 DEF ServiceTypes
<1>15. Silence' /\ Bound'
  BY <1>1, <1>2, <1>3, <1>11 DEF Silence, Bound
<1>16. Marked'
  <2>1. /\ waiting'.heard => Attentive
        /\ waiting'.member = "GetManagedObjects" => waiting'.path = Root
    BY <1>2, <1>7, <1>10
  <2>2. presence'.ok =>
          /\ presence'.epoch[1] <= link.n
          /\ presence'.epoch[1] = link.n => presence'.epoch[2] <= link.generation
          /\ presence'.heard /\ presence'.epoch[1] = link.n /\ link.open => "owner" \in hears
    <3>1. CASE presence' = presence  BY <1>1, <3>1 DEF Marked
    <3>2. CASE \E failed \in BOOLEAN : presence' = MemoryOf(failed)
      <4>1. /\ presence'.epoch[1] = link.n /\ presence'.epoch[2] = link.generation
            /\ presence'.heard => "owner" \in hears
        BY <1>8, <3>2
      <4> QED  BY <1>4, <4>1
    <3> QED  BY <1>2, <3>1, <3>2
  <2>3. facetView'.ok => facetView' = facetView  BY <1>2, <1>9
  <2>4. Attentive' = Attentive  BY <1>3 DEF Attentive
  <2> QED  BY <1>1, <1>3, <2>1, <2>2, <2>3, <2>4 DEF Marked
<1>17. AnswerIsTold'
  <2>1. SUFFICES ASSUME waiting'.member = "GetManagedObjects", NEW i \in 1 .. Len(socket'),
                        socket'[i].kind = "answer", socket'[i].serial = waiting'.serial
                 PROVE  FALSE
    BY DEF AnswerIsTold
  <2>2. waiting' = q  BY <1>2, <1>10, <2>1
  <2>3. PICK j \in 1 .. Len(socket) : socket'[i] = socket[j]  BY <1>2
  <2>4. socket[j] \in Messages /\ socket[j].kind = "answer"
    BY <1>1, <2>1, <2>3 DEF ServiceTypes
  <2>5. socket[j].serial \in Nat /\ socket[j].serial <= calls
    BY <1>1, <2>4 DEF Numbered, Messages, Owners, News, Replies
  <2> QED  BY <1>4, <1>7, <2>1, <2>2, <2>3, <2>5
<1>18. ChangeIsTold'
  <2>1. facetView'.ok => waiting'.member = "GetManagedObjects"  BY <1>2, <1>7, <1>9
  <2> QED  BY <2>1 DEF ChangeIsTold
<1>19. RememberedIsTrue'
  <2>1. CASE presence' = presence
    BY <1>1, <1>2, <1>3, <2>1 DEF RememberedIsTrue, Remembered, Epoch
  <2>2. CASE \E failed \in BOOLEAN : presence' = MemoryOf(failed)
    <3>1. presence'.answer = (owner # Nobody) \/ (~presence'.answer /\ presence'.failed)
      BY <1>8, <2>2
    <3> QED  BY <1>3, <3>1 DEF RememberedIsTrue
  <2> QED  BY <1>2, <2>1, <2>2
<1> QED
  BY <1>13, <1>14, <1>15, <1>16, <1>17, <1>18, <1>19 DEF ServiceInv

-----------------------------------------------------------------------------
(* The theorems *)

LEMMA ServiceStarts == ServiceInit => ServiceInv
<1>1. SUFFICES ASSUME ServiceInit PROVE ServiceInv  OBVIOUS
<1>2. /\ owner \in {Nobody, 1} /\ lives = owner
      /\ objects = IF owner = Nobody THEN <<>> ELSE Before
      /\ inbox = <<>> /\ socket = <<>> /\ parked = <<>>
      /\ link = [n |-> 1, open |-> TRUE, generation |-> 0]
      /\ subscribed = FALSE /\ dirty = FALSE /\ presence = Unknown /\ facetView = Unknown
      /\ bound = Unbound /\ hears = {} /\ unresolved = {} /\ waiting = NoQuestion /\ calls = 0
  BY <1>1 DEF ServiceInit
<1>3. link \in [n : Nat, open : BOOLEAN, generation : Nat] /\ link.n = 1 /\ link.open
  BY <1>2
<1>4. objects \in Objects  BY <1>2, NoObjects, QuestionsAssumption
<1>5. Pending = <<>>
  <2>1. <<>> \o <<>> = <<>>  OBVIOUS
  <2> QED  BY <1>2, <2>1, OnlyEmpty DEF Pending
<1>6. Unknown.ok = FALSE /\ NoQuestion.heard = FALSE /\ NoQuestion.member = "none"
  BY DEF Unknown, NoQuestion
<1>7. inbox \in Seq(Asks) /\ socket \in Seq(Messages) /\ parked \in Seq(Messages)
      /\ Len(inbox) = 0 /\ Len(socket) = 0
  BY <1>2
<1>8. owner \in 0 .. lives /\ lives \in Nat  BY <1>2 DEF Nobody
<1>9. ServiceTypes  BY <1>2, <1>3, <1>4, <1>7, <1>8 DEF ServiceTypes
<1>10. Silence /\ Bound  BY <1>2, <1>3, <1>5 DEF Silence, Bound
<1>11. Numbered  BY <1>2, <1>3, <1>7 DEF Numbered
<1>12. Marked  BY <1>2, <1>6 DEF Marked
<1>13. AnswerIsTold /\ ChangeIsTold /\ RememberedIsTrue
  BY <1>2, <1>6 DEF AnswerIsTold, ChangeIsTold, RememberedIsTrue, Remembered
<1> QED  BY <1>9, <1>10, <1>11, <1>12, <1>13 DEF ServiceInv

LEMMA ServiceSteps == ServiceInv /\ [ServiceNext]_serviceVars => ServiceInv'
<1>1. SUFFICES ASSUME ServiceInv, [ServiceNext]_serviceVars PROVE ServiceInv'  OBVIOUS
<1>2. CASE UNCHANGED serviceVars
  <2>1. /\ objects' = objects /\ owner' = owner /\ lives' = lives /\ inbox' = inbox
        /\ socket' = socket /\ parked' = parked /\ link' = link /\ presence' = presence
        /\ bound' = bound /\ subscribed' = subscribed /\ waiting' = waiting
        /\ facetView' = facetView /\ dirty' = dirty /\ calls' = calls
        /\ hears' = hears /\ unresolved' = unresolved /\ silent' = silent
    BY <1>2 DEF serviceVars
  <2>2. Pending' = Pending /\ Dispatched' = Dispatched /\ Managed(Root)' = Managed(Root)
    BY <2>1, SameTree, DispatchedSame DEF Pending
  <2>3. /\ ServiceTypes /\ Silence /\ Bound /\ Numbered /\ Marked
        /\ AnswerIsTold /\ RememberedIsTrue /\ ChangeIsTold
    BY <1>1 DEF ServiceInv
  <2>4. ServiceTypes' /\ Silence' /\ Bound'  BY <2>1, <2>2, <2>3 DEF ServiceTypes, Silence, Bound
  <2>5. Numbered' /\ Marked'  BY <2>1, <2>3 DEF Numbered, Marked, Attentive
  <2>6. AnswerIsTold' /\ ChangeIsTold'  BY <2>1, <2>2, <2>3 DEF AnswerIsTold, ChangeIsTold
  <2>7. RememberedIsTrue'
    BY <2>1, <2>2, <2>3 DEF RememberedIsTrue, Remembered, Epoch
  <2> QED  BY <2>4, <2>5, <2>6, <2>7 DEF ServiceInv
<1>3. CASE Own \/ Leave \/ Process
  BY <1>1, <1>3, OwnKeeps, LeaveKeeps, ProcessKeeps
<1>4. CASE \E p \in Paths, i \in Interfaces, v \in PropertyValues : Publish(p, i, v)
  BY <1>1, <1>4, PublishKeeps
<1>5. CASE \E p \in Paths : Withdraw(p, Interfaces) \/ \E i \in Interfaces : Withdraw(p, {i})
  BY <1>1, <1>5, WithdrawKeeps
<1>6. CASE \E s \in DOMAIN objects, p \in Properties, v \in PropertyValues :
              AnotherSets(s, p, v) \/ \E emit \in BOOLEAN : SetProperty(s, p, v, emit)
  BY <1>1, <1>6, SetPropertyKeeps, AnotherSetsKeeps
<1>7. CASE \E a \in Questions : Ask(a[1], <<a[2], a[3]>>, a[4], a[5])
  BY <1>1, <1>7, AskKeeps
<1>8. CASE Expire \/ ReadTree \/ Answered \/ TimedOut \/ Watch \/ Dispatch
           \/ Dropped \/ Reconnect \/ RetryDue
  BY <1>1, <1>8, ExpireKeeps, ReadTreeKeeps, AnsweredKeeps, TimedOutKeeps, WatchKeeps,
     DispatchKeeps, DroppedKeeps, ReconnectKeeps, RetryDueKeeps
<1> QED  BY <1>1, <1>2, <1>3, <1>4, <1>5, <1>6, <1>7, <1>8 DEF ServiceNext

\* The client may trust its memory of the service's presence: has_service() answered
\* from _name_cache is what the daemon would answer, once every owner change that
\* reached the connection has been dispatched; but for a no that was remembered because
\* the question to the daemon failed (bus.py:135-139).
THEOREM MemoryIsTrue == ServiceSpec => []RememberedIsTrue
<1>1. ServiceInv => RememberedIsTrue  BY DEF ServiceInv
<1> QED  BY <1>1, ServiceStarts, ServiceSteps, PTL DEF ServiceSpec

\* What a facet whose subscriptions all took shows of a service is the service's tree, or
\* it has been told, or is about to be, that it must read it again; but for the changes
\* that the service made without a signal or whose signal could not be sent.
THEOREM ViewIsTold == ServiceSpec => []ChangeIsTold
<1>1. ServiceInv => ChangeIsTold  BY DEF ServiceInv
<1> QED  BY <1>1, ServiceStarts, ServiceSteps, PTL DEF ServiceSpec
=============================================================================
