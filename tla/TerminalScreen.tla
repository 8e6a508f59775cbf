--------------------------- MODULE TerminalScreen ---------------------------
(***************************************************************************)
(* The character grid of Zaldros Terminal: class Screen of                 *)
(* src/backend/zaldros_backend/terminal.py.  An action is one character,   *)
(* one control or one escape sequence as the parser hands it over, or a    *)
(* resize from the window.  A cell keeps only who inked it: NoInk, the     *)
(* shell (main screen) or an application (alternate screen).  Positions    *)
(* count from 0 as in the code; x = columns is the pending wrap.  Where    *)
(* the code raises IndexError the step leaves the screen as it is at the   *)
(* raise (feed then drops the rest of its chunk).  The window changes at   *)
(* any time, and the main screen behind an application keeps its old size: *)
(* rows may be more or fewer, longer or shorter than the window says.      *)
(***************************************************************************)
EXTENDS Integers, SequencesExt, Queues

CONSTANTS
    Sizes,    \* <<columns, rows>> the window may be given, at any time
    Limit,    \* scrollback_limit
    Counts    \* the numbers a sequence may carry (0: omitted)

ASSUME ScreenAssumption ==
    /\ Sizes \subseteq (Nat \ {0}) \X (Nat \ {0})
    /\ Limit \in Nat /\ Counts \subseteq Nat

VARIABLE scr

NoInk == "blank"
NoGrid == <<>>
Line(c) == [i \in 1 .. c |-> NoInk]
Page(c, r) == [j \in 1 .. r |-> Line(c)]
HasInk(line) == \E i \in DOMAIN line : line[i] # NoInk
Smaller(a, b) == IF a < b THEN a ELSE b
Larger(a, b) == IF a > b THEN a ELSE b
Amounts == {Larger(1, n) : n \in Counts}   \* max(1, n): how often, and which position
Clamp(v, most) == Larger(0, Smaller(most, v))

\* list.insert and del of one index, which Python clamps and ignores past the end.
Inserted(q, i, e) ==
    LET k == Smaller(i, Len(q)) IN SubSeq(q, 1, k) \o <<e>> \o SubSeq(q, k + 1, Len(q))
Deleted(q, i) == IF i < Len(q) THEN RemoveAt(q, i + 1) ELSE q
Times(n, Op(_), s) == LET f[k \in 0 .. n] == IF k = 0 THEN s ELSE Op(f[k - 1]) IN f[n]

FreshScreen(c, r) ==
    [columns |-> c, rows |-> r, grid |-> Page(c, r), scrollback |-> <<>>,
     x |-> 0, y |-> 0, saved |-> <<0, 0>>, top |-> 0, bottom |-> r - 1, main |-> NoGrid]

Alternate == scr.main # NoGrid
Ink == IF Alternate THEN "application" ELSE "shell"

Trimmed(lines) == SubSeq(lines, Larger(1, Len(lines) - Limit + 1), Len(lines))

\* Mutant: the last row goes whatever it holds.
ShrunkFromBelow(s) ==
    IF Len(s.grid) - 1 > s.y THEN [s EXCEPT !.grid = Front(@)]
    ELSE [s EXCEPT !.grid = Tail(@), !.scrollback = Append(@, Head(s.grid)),
                   !.y = Larger(0, @ - 1)]

\* One turn of resize's shrinking loop.
Shrunk(s) ==
    LET last == Len(s.grid) IN
    IF last - 1 > s.y /\ ~HasInk(s.grid[last])
    THEN [s EXCEPT !.grid = Front(@)]
    ELSE [s EXCEPT !.grid = Tail(@), !.scrollback = Append(@, Head(s.grid)),
                   !.y = Larger(0, @ - 1)]

Resized(s, c, r) ==
    LET fitted == [j \in 1 .. Larger(r, Len(s.grid)) |->
                      [i \in 1 .. c |-> IF j <= Len(s.grid) /\ i <= Len(s.grid[j])
                                        THEN s.grid[j][i] ELSE NoInk]]
        t == Times(Len(fitted) - r, Shrunk, [s EXCEPT !.grid = fitted])
    IN [t EXCEPT !.columns = c, !.rows = r, !.top = Smaller(@, r - 1), !.bottom = r - 1,
                 !.x = Smaller(@, c - 1), !.y = Smaller(@, r - 1), !.scrollback = Trimmed(@)]

\* Mutant: whatever scrolls off the top is kept.
NewlinedAnywhere(s) ==
    IF s.y # s.bottom THEN [s EXCEPT !.y = Smaller(@ + 1, s.rows - 1)]
    ELSE [s EXCEPT !.grid = Inserted(Deleted(@, s.top), s.bottom, Line(s.columns)),
                   !.scrollback = IF s.top = 0 THEN Trimmed(Append(@, s.grid[1])) ELSE @]

Newlined(s) ==
    IF s.y # s.bottom THEN [s EXCEPT !.y = Smaller(@ + 1, s.rows - 1)]
    ELSE IF s.top >= Len(s.grid) THEN s
    ELSE [s EXCEPT !.grid = Inserted(Deleted(@, s.top), s.bottom, Line(s.columns)),
                   !.scrollback = IF s.top = 0 /\ s.main = NoGrid
                                  THEN Trimmed(Append(@, s.grid[1])) ELSE @]

HasCell(s, x, y) == y < Len(s.grid) /\ x < Len(s.grid[y + 1])
PutAt(s, x, cell) == [s EXCEPT !.grid[s.y + 1][x + 1] = cell]

Printed(s, ink) ==
    LET t == IF s.x >= s.columns THEN Newlined([s EXCEPT !.x = 0]) ELSE s IN
    IF HasCell(t, t.x, t.y) THEN [PutAt(t, t.x, ink) EXCEPT !.x = @ + 1] ELSE t

\* The cells i of a row that _erase_line goes over, and those it needs to be there.
Erases(s, mode, i) ==
    CASE mode = 0 -> s.x < i /\ i <= s.columns
      [] mode = 1 -> i <= s.x + 1
      [] OTHER -> i <= s.columns
Reaches(s, mode) ==
    CASE mode = 0 -> IF s.x < s.columns THEN s.columns ELSE 0
      [] mode = 1 -> s.x + 1
      [] OTHER -> s.columns
ErasedLine(s, mode) ==
    IF s.y >= Len(s.grid) THEN s
    ELSE [s EXCEPT !.grid[s.y + 1] =
             [i \in DOMAIN @ |-> IF Erases(s, mode, i) THEN NoInk ELSE @[i]]]

\* _erase_line raises before the other rows when there is no such row or it is short.
ErasedDisplay(s, mode) ==
    IF mode \in {2, 3}
    THEN [s EXCEPT !.grid = Page(s.columns, s.rows),
                   !.scrollback = IF mode = 3 THEN <<>> ELSE @]
    ELSE LET t == ErasedLine(s, mode) IN
         IF s.y >= Len(s.grid) \/ Reaches(s, mode) > Len(s.grid[s.y + 1]) THEN t
         ELSE [t EXCEPT !.grid = [j \in DOMAIN @ |->
                 IF \/ mode = 0 /\ s.y + 1 < j /\ j <= s.rows
                    \/ mode = 1 /\ j < s.y + 1
                 THEN Line(s.columns) ELSE @[j]]]

\* Mutant: the row pushed out of the region is not taken away.
LineInsertedOnly(s) == [s EXCEPT !.grid = Inserted(@, s.y, Line(s.columns))]

LineInserted(s) ==
    [s EXCEPT !.grid = Deleted(Inserted(@, s.y, Line(s.columns)), s.bottom + 1)]
LineDeleted(s) ==
    IF s.y >= Len(s.grid) THEN s
    ELSE [s EXCEPT !.grid = Inserted(Deleted(@, s.y), s.bottom, Line(s.columns))]

\* A row shorter than the screen is filled up, a longer one stays longer.
LineWithout(line, x, n, c) ==
    LET left == Larger(Smaller(x, Len(line)), Len(line) - n) IN
    [i \in 1 .. Larger(left, c) |->
        IF i > left THEN NoInk ELSE IF i > x THEN line[i + n] ELSE line[i]]
CharsDeleted(s, n) ==
    IF s.y >= Len(s.grid) THEN s
    ELSE [s EXCEPT !.grid[s.y + 1] = LineWithout(@, s.x, n, s.columns)]
CharsErased(s, n) ==
    IF s.y >= Len(s.grid) THEN s
    ELSE [s EXCEPT !.grid[s.y + 1] = [i \in DOMAIN @ |->
             IF i > s.x /\ i <= s.x + n /\ i <= s.columns THEN NoInk ELSE @[i]]]

SwitchedTo(s) ==
    [s EXCEPT !.main = s.grid, !.grid = Page(s.columns, s.rows),
              !.saved = <<s.x, s.y>>, !.x = 0, !.y = 0]
SwitchedBack(s) ==
    [s EXCEPT !.grid = s.main, !.main = NoGrid, !.x = s.saved[1], !.y = s.saved[2]]

-----------------------------------------------------------------------------
\* Of the two screens, the one shown.
Resize == \E z \in Sizes : scr' = Resized(scr, z[1], z[2])

Write == scr' = Printed(scr, Ink)

\* CR, LF, BS; a tab stop is further than the small screens are wide.
Control ==
    \/ scr' = [scr EXCEPT !.x = 0]
    \/ scr' = Newlined(scr)
    \/ scr' = [scr EXCEPT !.x = Larger(0, @ - 1)]
    \/ scr' = [scr EXCEPT !.x = Smaller(scr.columns - 1, (@ \div 8 + 1) * 8)]

\* CSI A B C D, and ESC M which is A by one.
MoveCursor == \E n \in Amounts :
    \/ scr' = [scr EXCEPT !.y = Larger(0, @ - n)]
    \/ scr' = [scr EXCEPT !.y = Smaller(scr.rows - 1, @ + n)]
    \/ scr' = [scr EXCEPT !.x = Smaller(scr.columns - 1, @ + n)]
    \/ scr' = [scr EXCEPT !.x = Larger(0, @ - n)]

\* CSI H, f, G, d: a missing or zero position is the first.
Position ==
    \/ \E m, n \in Amounts : scr' = [scr EXCEPT !.y = Clamp(m - 1, scr.rows - 1),
                                                !.x = Clamp(n - 1, scr.columns - 1)]
    \/ \E n \in Amounts : scr' = [scr EXCEPT !.x = Clamp(n - 1, scr.columns - 1)]
    \/ \E n \in Amounts : scr' = [scr EXCEPT !.y = Clamp(n - 1, scr.rows - 1)]

Erase == \E n \in Counts :
    \/ scr' = ErasedDisplay(scr, n)
    \/ scr' = ErasedLine(scr, n)

EditCells == \E n \in Amounts :
    \/ scr' = Times(n, LineInserted, scr)
    \/ scr' = Times(n, LineDeleted, scr)
    \/ scr' = CharsDeleted(scr, n)
    \/ scr' = CharsErased(scr, n)

ScrollRegion == \E m \in Amounts, n \in Counts :
    LET top == Clamp(m - 1, scr.rows - 1)
        bottom == IF n = 0 THEN scr.rows - 1 ELSE n - 1
    IN scr' = [scr EXCEPT !.top = top, !.bottom = Larger(top, Smaller(bottom, scr.rows - 1)),
                          !.x = 0, !.y = top]

SaveCursor == scr' = [scr EXCEPT !.saved = <<scr.x, scr.y>>]
RestoreCursor == scr' = [scr EXCEPT !.x = scr.saved[1], !.y = scr.saved[2]]

\* Mutant: an application that asks for the screen again replaces the saved one.
AlternateScreenAgain ==
    \/ scr' = SwitchedTo(scr)
    \/ Alternate /\ scr' = SwitchedBack(scr)

AlternateScreen ==
    \/ ~Alternate /\ scr' = SwitchedTo(scr)
    \/ Alternate /\ scr' = SwitchedBack(scr)

Reset == scr' = FreshScreen(scr.columns, scr.rows)

ScreenInit == \E z \in Sizes : scr = FreshScreen(z[1], z[2])
ScreenNext ==
    \/ Resize \/ Write \/ Control \/ MoveCursor \/ Position \/ Erase \/ EditCells
    \/ ScrollRegion \/ SaveCursor \/ RestoreCursor \/ AlternateScreen \/ Reset
ScreenSpec == ScreenInit /\ [][ScreenNext]_scr

-----------------------------------------------------------------------------
InSize(s, grid) == Len(grid) = s.rows /\ \A j \in DOMAIN grid : Len(grid[j]) = s.columns
DrawnOn(lines) == \E j \in DOMAIN lines : \E i \in DOMAIN lines[j] : lines[j][i] = "application"
ShellScreen == IF Alternate THEN scr.main ELSE scr.grid

(* Whatever the application sends and the window does, a screen given to an *)
(* application has the window's size, the scroll region is inside it and    *)
(* the scrollback within its limit: how insert, delete, scroll and resize   *)
(* alternate, every index they use is there.                                *)
ScreenFits ==
    /\ Alternate => InSize(scr, scr.grid)
    /\ 0 <= scr.top /\ scr.top <= scr.bottom /\ scr.bottom < scr.rows
    /\ Len(scr.scrollback) <= Limit

(* What vim and less drew is never on the screen that the shell gets back,  *)
(* however often the window changed behind it (_alternate_screen, resize).  *)
ShellScreenIsClean == ~DrawnOn(ShellScreen)

(* Only two steps mix what belongs together.  The screen shown parts from   *)
(* the window's size only when an application leaves, onto a main screen    *)
(* the window was resized behind; and rows of an application get into the   *)
(* shell's scrollback only when the window is resized while it runs.        *)
MixedOnlyByResize ==
    [][/\ InSize(scr, scr.grid) /\ ~InSize(scr, scr.grid)'
            => Alternate /\ ~Alternate' /\ ~InSize(scr, scr.main)
       /\ ~DrawnOn(scr.scrollback) /\ DrawnOn(scr.scrollback)'
            => Alternate /\ scr'.rows < scr.rows]_scr

(* vim and less must not land in the scrollback of the shell, nor what     *)
(* they drew stay on its screen (_alternate_screen).                       *)
AppOutputStaysOut == ~DrawnOn(scr.scrollback) /\ ~DrawnOn(ShellScreen)

(* A resize that cuts no row loses no inked row: "anything with content     *)
(* that has to go, goes to scrollback - never to nothing".  Only the        *)
(* scrollback's limit takes rows, the oldest first.                         *)
Tagged(lines) == [j \in DOMAIN lines |-> [kind |-> HasInk(lines[j]), line |-> lines[j]]]
InkedRows(s) == Only({TRUE}, Tagged(s.scrollback \o s.grid))
EndOf(p, q) == \E n \in 1 .. Len(q) + 1 : p = SubSeq(q, n, Len(q))
RowsNeverVanish ==
    [][/\ scr'.rows # scr.rows
       /\ \A j \in DOMAIN scr.grid : Len(scr.grid[j]) = scr'.columns
       => \/ InkedRows(scr') = InkedRows(scr)
          \/ Len(scr'.scrollback) = Limit /\ EndOf(InkedRows(scr'), InkedRows(scr))]_scr

=============================================================================
