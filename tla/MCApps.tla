-------------------------------- MODULE MCApps --------------------------------
(* The applications in one instance for TLC: the parts of Zaldros Terminal,    *)
(* and Writer, Sheets and Slides.  They share no state; the first state's      *)
(* choice of `part` picks the one that runs, and the others keep an initial    *)
(* state: a part's properties speak of its own variables only.                 *)
EXTENDS TerminalSessions, TerminalScreen, TerminalStyle, TerminalFeed, Writer, Sheets, Slides

CONSTANTS Parts   \* the parts that run
VARIABLES part

WindowSizes == {<<1, 1>>, <<1, 2>>, <<2, 1>>}
FeedBytes == {"esc", "[", "]", "\\", "1", "/", "bel", "lead", "cont"}
StyleGroups == {<<0>>, <<1>>, <<31>>, <<38, 5, 1>>, <<48, 2, 1, 7, 0>>}

MCParagraph(n, bold) == [chars |-> [i \in 1..n |-> [c |-> "x", bold |-> bold]], style |-> "body"]
MCTexts == {<<>>, <<"x">>, <<"x", "x">>, <<"newline">>}
MCDocuments == {<<MCParagraph(1, FALSE)>>, <<MCParagraph(1, TRUE), MCParagraph(0, FALSE)>>}

AppsInit ==
    /\ part \in Parts
    /\ ScreenInit /\ (part = "screen" \/ scr = FreshScreen(1, 2))
    /\ FeedInit /\ StyleInit /\ SessionsInit
    /\ Init /\ (part = "writer" \/ (engine = <<MCParagraph(1, FALSE)>> /\ named))
    /\ GridInit /\ (part = "sheets" \/ \A c \in DOMAIN formulas : formulas[c] = Blank)
    /\ SlidesInit

terminalVars == <<scr, feedVars, styleVars, sessionVars>>
officeVars == <<vars, gridVars, slideVars>>
TerminalStep ==
    /\ UNCHANGED <<part, officeVars>>
    /\ \/ part = "screen" /\ ScreenNext /\ UNCHANGED <<feedVars, styleVars, sessionVars>>
       \/ part = "feed" /\ PtyRead /\ UNCHANGED <<scr, styleVars, sessionVars>>
       \/ part = "style" /\ StyleNext /\ UNCHANGED <<scr, feedVars, sessionVars>>
       \/ part = "sessions" /\ SessionsNext /\ UNCHANGED <<scr, feedVars, styleVars>>
OfficeStep ==
    /\ UNCHANGED <<part, terminalVars>>
    /\ \/ part = "writer" /\ Next /\ UNCHANGED <<gridVars, slideVars>>
       \/ part = "sheets" /\ GridNext /\ UNCHANGED <<vars, slideVars>>
       \/ part = "slides" /\ SlidesNext /\ UNCHANGED <<vars, gridVars>>

AppsNext == TerminalStep \/ OfficeStep
AppsSpec == AppsInit /\ [][AppsNext]_<<part, terminalVars, officeVars>>
=============================================================================
