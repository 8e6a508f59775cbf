------------------------------- MODULE Sheets -------------------------------
(* Zaldros Sheets: model.py over the engine's cells, and the two inputs of    *)
(* SheetGrid.qml and Sheets.qml, the editor in the cell and the formula bar.  *)
EXTENDS Integers
CONSTANTS Height, Width,   \* the grid on screen
          Raw,             \* what can be typed; Reference is the formula =A1
          Reference,
          MaxCellEdits     \* bound: edits
VARIABLES formulas,        \* the engine's cells
          cache,           \* GridModel._cache
          selectedCell, editing, draft, bar,
          landed,          \* history: which cell the last edit was for, which it changed,
                           \* and whether it came from a formula bar that is bound no more
          unread,          \* history: the cells whose last reading back failed
          cellEdits
gridVars == <<formulas, cache, selectedCell, editing, draft, bar, landed, unread, cellEdits>>

\* Tab leaves the grid by one column; the engine has cells there too.
Cells == (1..Height) \X (1..Width + 1)
Anchor == <<1, 1>>
NoCell == <<0, 0>>
Blank == "blank"

\* What Calc shows for a cell: a reference to itself is its error, to an empty cell 0.
CellText(f, c) ==
    IF f[c] # Reference THEN f[c]
    ELSE CASE f[Anchor] = Reference -> "Err:522" [] f[Anchor] = Blank -> "0" [] OTHER -> f[Anchor]
refill(f) == [c \in Cells |-> IF c[2] <= Width THEN CellText(f, c) ELSE Blank]

GridInit ==
    /\ formulas \in {[c \in Cells |-> Blank],
                     [c \in Cells |-> IF c = <<Height, 1>> THEN Reference ELSE Blank]}
    /\ cache = refill(formulas)
    /\ selectedCell = Anchor /\ editing = NoCell
    /\ draft = [text |-> Blank, of |-> NoCell]
    /\ bar = [text |-> formulas[Anchor], of |-> Anchor, bound |-> TRUE]
    /\ landed = [typed |-> NoCell, changed |-> NoCell, loose |-> FALSE]
    /\ unread = {} /\ cellEdits = 0

\* What asking the engine for a cell's formula gives: the empty text when the call fails.
FormulaOf(f, c) == {f[c], Blank}

\* SheetsState.changed: the formula bar reads the formula of the selected cell again.
select(c) ==
    /\ selectedCell' = c
    /\ IF bar.bound THEN \E text \in FormulaOf(formulas', c) : bar' = [bar EXCEPT !.text = text, !.of = c]
       ELSE bar' = bar

\* GridModel.commit: the engine's answer for this cell, and for no other.
Took(c, raw, typedIn, loose) ==
    /\ formulas' = [formulas EXCEPT ![c] = raw]
    /\ landed' = [typed |-> typedIn, changed |-> c, loose |-> loose]
commit(c, raw, typedIn, loose) ==
    /\ Took(c, raw, typedIn, loose)
    /\ cache' = [cache EXCEPT ![c] = CellText(formulas', c)]
    /\ unread' = unread \ {c}
\* The engine refuses the text, or has it and cannot be asked what it made of it.
CommitFails(c, raw, typedIn, loose) ==
    /\ \/ UNCHANGED <<formulas, landed, unread>>
       \/ Took(c, raw, typedIn, loose) /\ unread' = unread \cup {c}
    /\ cache' = cache
CellCounted == cellEdits < MaxCellEdits /\ cellEdits' = cellEdits + 1
NoCommit == UNCHANGED <<formulas, cache, landed, unread, cellEdits>>
Below(c) == IF c[1] < Height THEN <<c[1] + 1, c[2]>> ELSE c

\* A click selects and takes the focus; an editor that is open stays open.
Click(c) ==
    /\ c[2] <= Width
    /\ NoCommit /\ select(c) /\ UNCHANGED <<editing, draft>>
\* beginEdit: F2 takes the engine's formula, typing replaces it.
beginEdit(c, text) ==
    /\ NoCommit /\ select(c)
    /\ editing' = c /\ draft' = [text |-> text, of |-> c]
DoubleClick(c) == c[2] <= Width /\ \E text \in FormulaOf(formulas, c) : beginEdit(c, text)
EditKey == editing = NoCell /\ \E text \in Raw \cup FormulaOf(formulas, selectedCell) : beginEdit(selectedCell, text)
TypeInCell ==
    /\ editing # NoCell
    /\ \E text \in Raw : draft' = [draft EXCEPT !.text = text]
    /\ NoCommit /\ UNCHANGED <<selectedCell, editing, bar>>

\* Mutant: the edit is committed to the cell that is selected by now.
commitEditSelected(after) ==
    /\ editing # NoCell /\ CellCounted
    /\ editing' = NoCell /\ UNCHANGED draft
    /\ commit(selectedCell, draft.text, draft.of, FALSE)
    /\ select(after)
\* commitEdit: selects the edited cell first, then commits, then moves on, as it does
\* when the slot it called has failed.
commitEdit(after) ==
    /\ editing # NoCell /\ CellCounted
    /\ editing' = NoCell /\ UNCHANGED draft
    /\ \/ commit(editing, draft.text, draft.of, FALSE)
       \/ CommitFails(editing, draft.text, draft.of, FALSE)
    /\ select(after)
Enter == commitEdit(Below(editing))
\* Tab does not mind the last column.
Tab == editing[2] <= Width /\ commitEdit(<<editing[1], editing[2] + 1>>)
cancelEdit ==
    /\ editing # NoCell
    /\ editing' = NoCell /\ NoCommit /\ UNCHANGED <<selectedCell, draft, bar>>
\* SheetsState.commit: the edit goes to the cell selected now, and what the window shows
\* is read again only when the engine has answered.
CommitSelected(raw, typedIn, loose) ==
    /\ CellCounted
    /\ \/ commit(selectedCell, raw, typedIn, loose) /\ select(selectedCell)
       \/ CommitFails(selectedCell, raw, typedIn, loose) /\ UNCHANGED <<selectedCell, bar>>
Delete ==
    /\ editing = NoCell
    /\ CommitSelected(Blank, selectedCell, FALSE) /\ UNCHANGED <<editing, draft>>

\* Typing leaves the binding alone, and is meant for the cell selected meanwhile.
TypeInBar ==
    /\ \E text \in Raw : bar' = [bar EXCEPT !.text = text, !.of = selectedCell]
    /\ NoCommit /\ UNCHANGED <<selectedCell, editing, draft>>
\* onAccepted: book.commit(text).
AcceptBar == CommitSelected(bar.text, bar.of, ~bar.bound) /\ UNCHANGED <<editing, draft>>
\* Escape assigns the text, which ends its binding to book.formula for good.
EscapeBar ==
    /\ \E text \in FormulaOf(formulas, selectedCell) : bar' = [text |-> text, of |-> selectedCell, bound |-> FALSE]
    /\ NoCommit /\ UNCHANGED <<selectedCell, editing, draft>>

GridNext ==
    \/ \E c \in Cells : Click(c) \/ DoubleClick(c)
    \/ EditKey \/ TypeInCell \/ Enter \/ Tab \/ cancelEdit \/ Delete
    \/ TypeInBar \/ AcceptBar \/ EscapeBar
GridSpec == GridInit /\ [][GridNext]_gridVars

\* What was typed for one cell never lands in another, although the selection moves while
\* an editor is open and the engine may fail: the editor in the cell stays with its cell
\* and the formula bar with the selected one, until Escape was pressed in the bar, whose
\* text then stays when the selection moves on (SheetGrid.qml commitEdit, Sheets.qml
\* formulaText, model.py commit).
EditsLandWhereTyped == landed.typed # landed.changed => landed.loose

\* Every cell of the grid whose reading did not fail shows what the engine holds: "refills
\* it from what the engine reports after every edit" (model.py:3-4).
GridShowsEngine == \A c \in Cells \ unread : c[2] <= Width => cache[c] = CellText(formulas, c)
=============================================================================
