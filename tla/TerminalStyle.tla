--------------------------- MODULE TerminalStyle ---------------------------
(***************************************************************************)
(* Character styles of Zaldros Terminal: Screen._sgr, _extended_colour and *)
(* lines of src/backend/zaldros_backend/terminal.py.  A sequence sets the  *)
(* style with one group of numbers after another; a written character      *)
(* keeps the style; lines() merges equal neighbours into runs.             *)
(***************************************************************************)
EXTENDS Integers, SequencesExt

CONSTANTS
    Groups,     \* the groups a sequence is made of, each a sequence of numbers
    MaxGroups,  \* in a sequence
    MaxCells    \* characters on the line

\* A group is one number, or an extended colour with all of its numbers.
WholeGroup(g) ==
    /\ g \in Seq(Nat)
    /\ \/ Len(g) = 1 /\ g[1] \notin {38, 48}
       \/ Len(g) = 3 /\ g[1] \in {38, 48} /\ g[2] = 5
       \/ Len(g) = 5 /\ g[1] \in {38, 48} /\ g[2] = 2
ASSUME GroupsAssumption == \A g \in Groups : WholeGroup(g)

VARIABLES
    style,      \* attributes
    start,      \* the style the present sequence began with
    groups,     \* the groups of the present sequence
    cells       \* one line of the grid, as written so far

\* A colour is its number among the 16, or what the extended form spelt; the
\* defaults are two of the 16.
DefaultForeground == <<7>>
DefaultBackground == <<0>>
Plain == [foreground |-> DefaultForeground, background |-> DefaultBackground,
          bold |-> FALSE, underline |-> FALSE, inverse |-> FALSE]

Basic(s, v) ==
    CASE v = 0 -> Plain
      [] v \in {1, 22} -> [s EXCEPT !.bold = (v = 1)]
      [] v \in {4, 24} -> [s EXCEPT !.underline = (v = 4)]
      [] v \in {7, 27} -> [s EXCEPT !.inverse = (v = 7)]
      [] v \in 30 .. 37 -> [s EXCEPT !.foreground = <<v - 30>>]
      [] v \in 90 .. 97 -> [s EXCEPT !.foreground = <<v - 90 + 8>>]
      [] v \in 40 .. 47 -> [s EXCEPT !.background = <<v - 40>>]
      [] v \in 100 .. 107 -> [s EXCEPT !.background = <<v - 100 + 8>>]
      [] v = 39 -> [s EXCEPT !.foreground = DefaultForeground]
      [] v = 49 -> [s EXCEPT !.background = DefaultBackground]
      [] OTHER -> s

\* Mutant: the mode number is forgotten in the count.
ConsumedColour(v, i) ==
    IF v[i + 1] = 5 /\ i + 2 <= Len(v) THEN 1
    ELSE IF v[i + 1] = 2 /\ i + 4 <= Len(v) THEN 3 ELSE 1

\* How many numbers after 38 or 48 belong to it; the colour only when they are all there.
Consumed(v, i) ==
    IF v[i + 1] = 5 /\ i + 2 <= Len(v) THEN 2
    ELSE IF v[i + 1] = 2 /\ i + 4 <= Len(v) THEN 4 ELSE 1
\* _xterm256: the first sixteen are the basic colours.
Spelt(v, i) == IF v[i + 1] = 5 THEN <<v[i + 2]>> ELSE SubSeq(v, i + 2, i + 4)
Extended(s, v, i) ==
    IF Consumed(v, i) = 1 THEN s
    ELSE IF v[i] = 38 THEN [s EXCEPT !.foreground = Spelt(v, i)]
    ELSE [s EXCEPT !.background = Spelt(v, i)]

\* The number at i, unless it belongs to one that was read: b is the style so
\* far and the next number to read.
ReadAt(b, v, i) ==
    IF b.next # i THEN b
    ELSE IF v[i] \in {38, 48} /\ i < Len(v)
         THEN [s |-> Extended(b.s, v, i), next |-> i + 1 + Consumed(v, i)]
         ELSE [s |-> Basic(b.s, v[i]), next |-> i + 1]
Sgr(s, v) ==
    LET f[i \in 0 .. Len(v)] ==
          IF i = 0 THEN [s |-> s, next |-> 1] ELSE ReadAt(f[i - 1], v, i)
    IN f[Len(v)].s

Cell(text, attributes) == [text |-> text, style |-> attributes]
\* lines(): consecutive cells of one style are one run.
WithCell(runs, cell) ==
    IF runs # <<>> /\ Last(runs).style = cell.style
    THEN [runs EXCEPT ![Len(runs)].text = Append(@, cell.text)]
    ELSE Append(runs, [text |-> <<cell.text>>, style |-> cell.style])
Runs(line) ==
    LET f[k \in 0 .. Len(line)] == IF k = 0 THEN <<>> ELSE WithCell(f[k - 1], line[k])
    IN f[Len(line)]

StyleInit == style = Plain /\ start = Plain /\ groups = <<>> /\ cells = <<>>
\* The present sequence gets another group.
NextGroup == \E g \in Groups :
    /\ Len(groups) < MaxGroups
    /\ groups' = Append(groups, g)
    /\ style' = Sgr(start, FlattenSeq(Append(groups, g)))
    /\ UNCHANGED <<start, cells>>
WriteCell ==
    /\ Len(cells) < MaxCells
    /\ cells' = Append(cells, Cell(Len(cells), style))
    /\ start' = style /\ groups' = <<>>
    /\ UNCHANGED style
StyleNext == NextGroup \/ WriteCell
styleVars == <<style, start, groups, cells>>
StyleSpec == StyleInit /\ [][StyleNext]_styleVars

(* A sequence means what its groups mean one after another: the numbers of *)
(* an extended colour are never read as attributes, and a group after it   *)
(* is not swallowed (_sgr, _extended_colour).                              *)
Meaning(s, g) ==
    CASE g[1] = 38 -> [s EXCEPT !.foreground = SubSeq(g, 3, Len(g))]
      [] g[1] = 48 -> [s EXCEPT !.background = SubSeq(g, 3, Len(g))]
      [] OTHER -> Basic(s, g[1])
Meanings(s, gs) ==
    LET f[k \in 0 .. Len(gs)] == IF k = 0 THEN s ELSE Meaning(f[k - 1], gs[k])
    IN f[Len(gs)]
GroupsAreIndependent == style = Meanings(start, groups)

(* The runs QML draws spell the line, each cell in its own style, and no   *)
(* two neighbours could have been one (lines).                             *)
CellsOf(run) == [i \in DOMAIN run.text |-> Cell(run.text[i], run.style)]
RunsAreTheLine ==
    LET runs == Runs(cells) IN
    /\ FlattenSeq([k \in DOMAIN runs |-> CellsOf(runs[k])]) = cells
    /\ \A k \in 1 .. Len(runs) - 1 : runs[k].style # runs[k + 1].style

(* What the user sees is what was written: both of these.                  *)
StylesAreExact == GroupsAreIndependent /\ RunsAreTheLine
=============================================================================
