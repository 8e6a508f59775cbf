-------------------------- MODULE TerminalSessions --------------------------
(***************************************************************************)
(* Tabs, panes and ptys: TerminalModel of zaldros_shell/model.py with the  *)
(* PtySession, Pane and Tab of zaldros_backend/terminal.py.  The GUI       *)
(* thread runs every action; close() and _reap() block it in waitpid until *)
(* the child ends, which is the one place other steps can come between.    *)
(* A session stands for its own pty and child process; 0 is the code's -1. *)
(* Screen sizes are left to TerminalScreen.                                *)
(***************************************************************************)
EXTENDS Integers, SequencesExt

CONSTANTS
    MaxSessions,   \* shells started in a run
    MaxTabs

\* Of the bounds, the descriptors are counted with the first.
ASSUME SessionsAssumption == MaxSessions \in Nat

VARIABLES
    tabs,      \* Seq of [panes: Seq of sessions, active: place]
    activeTab, \* place in tabs, 0 when none
    fd, pid,   \* per session; pid: does the session still hold the number
    child,     \* per session: "none", "running", "exited" (a zombie), "collected"
    watch,     \* _notifiers: per descriptor, the session its notifier drains
    job,       \* what the GUI thread is in the middle of
    ended,     \* history: sessions whose read saw the end of the pty
    signalled  \* history: sessions whose close() sent SIGHUP to the number

sessionVars == <<tabs, activeTab, fd, pid, child, watch, job, ended, signalled>>

Sessions == 1 .. MaxSessions
Descriptors == 1 .. MaxSessions
Idle == [kind |-> "idle", left |-> <<>>, tab |-> 0, all |-> FALSE, wait |-> FALSE]
Low(a, b) == IF a < b THEN a ELSE b
High(a, b) == IF a > b THEN a ELSE b

Fresh(s) == child[s] = "none" /\ \A r \in Sessions : child[r] = "none" => s <= r
\* The kernel gives a free descriptor; which one depends on what else is open.
FreeFd(f) == \A s \in Sessions : fd[s] # f

\* The dictionary entry of that number is replaced.
_watch(s, f) == [watch EXCEPT ![f] = s]

\* Mutant: an entry that is already there stays.
StartedBeside(s) == \E f \in Descriptors :
    /\ FreeFd(f)
    /\ fd' = [fd EXCEPT ![s] = f]
    /\ pid' = [pid EXCEPT ![s] = TRUE]
    /\ child' = [child EXCEPT ![s] = "running"]
    /\ watch' = [watch EXCEPT ![f] = IF @ = 0 THEN s ELSE @]
    /\ UNCHANGED <<job, ended, signalled>>

\* start(), and the notifier of the new descriptor.
Started(s) == \E f \in Descriptors :
    /\ FreeFd(f)
    /\ fd' = [fd EXCEPT ![s] = f]
    /\ pid' = [pid EXCEPT ![s] = TRUE]
    /\ child' = [child EXCEPT ![s] = "running"]
    /\ watch' = _watch(s, f)
    /\ UNCHANGED <<job, ended, signalled>>

OpenTab == \E s \in Sessions :
    /\ job = Idle /\ Fresh(s) /\ Len(tabs) < MaxTabs
    /\ tabs' = Append(tabs, [panes |-> <<s>>, active |-> 1])
    /\ activeTab' = Len(tabs) + 1
    /\ Started(s)

SplitPane == \E s \in Sessions :
    /\ job = Idle /\ Fresh(s) /\ activeTab # 0
    /\ LET panes == Append(tabs[activeTab].panes, s) IN
       tabs' = [tabs EXCEPT ![activeTab] = [panes |-> panes, active |-> Len(panes)]]
    /\ UNCHANGED activeTab
    /\ Started(s)

SelectTab == \E i \in DOMAIN tabs :
    /\ job = Idle
    /\ activeTab' = i
    /\ UNCHANGED <<tabs, fd, pid, child, watch, job, ended, signalled>>

SelectPane ==
    /\ job = Idle /\ activeTab # 0
    /\ \E k \in DOMAIN tabs[activeTab].panes : tabs' = [tabs EXCEPT ![activeTab].active = k]
    /\ UNCHANGED <<activeTab, fd, pid, child, watch, job, ended, signalled>>

\* The panes of the tab at place i are closed one by one; all: then the next tab's.
Closing(panes, i, all) == [kind |-> "close", left |-> panes, tab |-> i, all |-> all, wait |-> FALSE]
Reaping(s) == [kind |-> "reap", left |-> <<s>>, tab |-> 0, all |-> FALSE, wait |-> TRUE]
CloseTab == \E i \in DOMAIN tabs :
    /\ job = Idle
    /\ job' = Closing(tabs[i].panes, i, FALSE)
    /\ UNCHANGED <<tabs, activeTab, fd, pid, child, watch, ended, signalled>>
CloseAll ==
    /\ job = Idle /\ tabs # <<>>
    /\ job' = Closing(Last(tabs).panes, Len(tabs), TRUE)
    /\ UNCHANGED <<tabs, activeTab, fd, pid, child, watch, ended, signalled>>

\* _unwatch looks the notifier up by the session's present descriptor.
Unwatched(s) == IF fd[s] = 0 THEN watch ELSE [watch EXCEPT ![fd[s]] = 0]

\* Mutant: SIGHUP is sent and nobody waits.
ClosePaneAndGo ==
    /\ job.kind = "close" /\ job.left # <<>>
    /\ watch' = Unwatched(Head(job.left))
    /\ fd' = [fd EXCEPT ![Head(job.left)] = 0]
    /\ pid' = [pid EXCEPT ![Head(job.left)] = FALSE]
    /\ job' = [job EXCEPT !.left = Tail(@)]
    /\ UNCHANGED <<tabs, activeTab, child, ended, signalled>>

\* close() of the next pane: SIGHUP, then waitpid - both skipped without a
\* pid, and ended by ECHILD when the child was already collected.
ClosePane ==
    /\ job.kind = "close" /\ job.left # <<>> /\ ~job.wait
    /\ LET s == Head(job.left)
           waits == pid[s] /\ child[s] # "collected"
       IN /\ watch' = Unwatched(s)
          /\ fd' = [fd EXCEPT ![s] = 0]
          /\ pid' = [pid EXCEPT ![s] = waits]
          /\ signalled' = IF pid[s] THEN signalled \cup {s} ELSE signalled
          /\ job' = IF waits THEN [job EXCEPT !.wait = TRUE] ELSE [job EXCEPT !.left = Tail(@)]
    /\ UNCHANGED <<tabs, activeTab, child, ended>>

\* Mutant: _reap keeps the number it waited for.
ChildCollectedKeepsPid ==
    /\ job.wait /\ child[Head(job.left)] = "exited"
    /\ child' = [child EXCEPT ![Head(job.left)] = "collected"]
    /\ job' = IF job.kind = "reap" THEN Idle ELSE [job EXCEPT !.left = Tail(@), !.wait = FALSE]
    /\ UNCHANGED <<tabs, activeTab, fd, pid, watch, ended, signalled>>

\* waitpid of close() or _reap() returns.
ChildCollected ==
    /\ job.wait /\ child[Head(job.left)] = "exited"
    /\ LET s == Head(job.left) IN
       /\ child' = [child EXCEPT ![s] = "collected"]
       /\ pid' = [pid EXCEPT ![s] = FALSE]
       /\ job' = IF job.kind = "reap" THEN Idle ELSE [job EXCEPT !.left = Tail(@), !.wait = FALSE]
    /\ UNCHANGED <<tabs, activeTab, fd, watch, ended, signalled>>

TabClosed ==
    /\ job.kind = "close" /\ job.left = <<>>
    /\ LET rest == RemoveAt(tabs, job.tab) IN
       /\ tabs' = rest
       /\ activeTab' = Low(High(activeTab, 1), Len(rest))
       /\ job' = IF job.all /\ rest # <<>>
                 THEN Closing(Last(rest).panes, Len(rest), TRUE) ELSE Idle
    /\ UNCHANGED <<fd, pid, child, watch, ended, signalled>>

\* _drain when the pty is at its end: every process of it is gone, or closed
\* it; _reap closes the descriptor and waits, then _unwatch finds no entry.
DrainEnd == \E s \in Sessions :
    /\ job = Idle /\ fd[s] # 0 /\ watch[fd[s]] = s
    /\ fd' = [fd EXCEPT ![s] = 0]
    /\ ended' = ended \cup {s}
    /\ LET waits == pid[s] /\ child[s] # "collected" IN
       /\ pid' = [pid EXCEPT ![s] = waits]
       /\ job' = IF waits THEN Reaping(s) ELSE Idle
    /\ UNCHANGED <<tabs, activeTab, child, watch, signalled>>

\* `alive` asks waitpid without blocking: a child that has ended is collected,
\* and the session keeps its number.
Asked(s) == IF pid[s] /\ child[s] = "exited" THEN "collected" ELSE child[s]

\* QML reads panes: each pane of the tab shown is asked.
ReadPanes ==
    /\ job = Idle /\ activeTab # 0
    /\ child' = [s \in Sessions |->
                   IF s \in Range(tabs[activeTab].panes) THEN Asked(s) ELSE child[s]]
    /\ UNCHANGED <<tabs, activeTab, fd, pid, watch, job, ended, signalled>>

ChildExits == \E s \in Sessions :
    /\ child[s] = "running"
    /\ child' = [child EXCEPT ![s] = "exited"]
    /\ UNCHANGED <<tabs, activeTab, fd, pid, watch, job, ended, signalled>>

SessionsInit ==
    /\ tabs = <<>> /\ activeTab = 0 /\ job = Idle /\ ended = {} /\ signalled = {}
    /\ fd = [s \in Sessions |-> 0] /\ pid = [s \in Sessions |-> FALSE]
    /\ child = [s \in Sessions |-> "none"] /\ watch = [f \in Descriptors |-> 0]
SessionsNext ==
    \/ OpenTab \/ SplitPane \/ SelectTab \/ SelectPane \/ CloseTab \/ CloseAll \/ ClosePane
    \/ ChildCollected \/ TabClosed \/ DrainEnd \/ ReadPanes \/ ChildExits
SessionsSpec == SessionsInit /\ [][SessionsNext]_sessionVars

-----------------------------------------------------------------------------
Held == UNION {Range(tabs[i].panes) : i \in DOMAIN tabs} \cup Range(job.left)

(* The notifier of an open pty drains the session that holds it, although  *)
(* a session that ended leaves its entry behind and the kernel gives the   *)
(* number to the next shell (_watch, _unwatch).                            *)
WatchersMatch == \A s \in Sessions : fd[s] # 0 => watch[fd[s]] = s

(* No shell and no zombie is left behind by a closed tab, whichever of     *)
(* _drain, `alive` and close() came first.                                 *)
NoShellLeftBehind == \A s \in Sessions : child[s] \in {"running", "exited"} => s \in Held

(* Once the end of a session's pty was read, closing its tab signals       *)
(* nobody: its number may be another process's by then.                    *)
EndedIsNotSignalled == signalled \cap ended = {}

=============================================================================
