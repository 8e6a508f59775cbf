------------------------------- MODULE Processes -------------------------------
(* The Task Manager's list (model.ProcessModel, taskmanager.py) over the    *)
(* process sampler of the backend (processes.py).  A sample is one pass      *)
(* over /proc; a share of the processor needs two samples, and the sampler   *)
(* remembers the earlier one by pid alone.  The kernel reuses pids, so the   *)
(* process a row speaks of may not be the one the earlier sample read.       *)
EXTENDS Integers, Sequences, FiniteSetsExt, SequencesExt
CONSTANTS Pids,       \* pids the kernel hands out, all above 1
          ProcessNames,      \* ranks of process names
          MaxNow,     \* bound: ticks of the clock
          MaxBirths,  \* bound: processes started
          MaxClicks   \* bound: what the user does in the window
VARIABLES procs,      \* pid |-> the process that holds it, or Gone
          births,     \* processes started so far: a process's number is its identity
          now,        \* the monotonic clock
          previous,   \* Sampler: _previous_cpu by pid, and _previous_at
          snapshot,   \* ProcessModel._all: the rows of the last sample
          tasks,       \* ProcessModel._rows: what the window shows
          view,       \* _query, _sort_key, _descending
          active, taskClicks,
          marks       \* history: who held each pid at the last sample, and its counter
taskVars == <<procs, births, now, previous, snapshot, tasks, view, active, taskClicks, marks>>

Gone == [born |-> 0, used |-> 0, name |-> 0]
NoNumber == -1                                   \* Python's None in a column of numbers
ColumnKeys == {"name", "cpu", "readBytes"}
Numeric == {"cpu", "readBytes"}

(* read_process: the pid's counters, or nothing when it is gone by then. *)
Listed(held) == {pid \in Pids : held[pid] # Gone}

(* Sampler.sample: the share is a difference of two counters of one pid.     *)
(* ProcessModel samples without I/O, so the disk column stays unknown.       *)
Share(process, pid, elapsed) ==
    IF previous.cpu[pid] # NoNumber /\ elapsed > 0
    THEN (100 * Max({process.used - previous.cpu[pid], 0})) \div elapsed
    ELSE NoNumber
Elapsed == IF previous.at = NoNumber THEN 0 ELSE now - previous.at
sample(held) ==
    {LET process == held[pid] IN
     [pid |-> pid, name |-> process.name, cpu |-> Share(process, pid, Elapsed),
      readBytes |-> NoNumber, born |-> process.born,
      own |-> process.used - IF marks[pid].born = process.born THEN marks[pid].used ELSE 0,
      both |-> marks[pid] # Gone, same |-> marks[pid].born = process.born,
      span |-> Elapsed] : pid \in Listed(held)}          \* own, both, same and span are history

(* taskmanager.matches and sort_rows: unknown values last in both directions; *)
(* rows that compare equal keep the order of /proc, which is that of pids.    *)
matches(row, query) == query = 0 \/ row.name = query
Ahead(key, descending, a, b) ==
    \/ IF descending THEN a[key] > b[key] ELSE a[key] < b[key]
    \/ a[key] = b[key] /\ a.pid < b.pid

sort_rows(set, key, descending) ==
    LET known == {row \in set : row[key] # NoNumber} IN
    SetToSortSeq(known, LAMBDA a, b : Ahead(key, descending, a, b))
    \o SetToSortSeq(set \ known, LAMBDA a, b : a.pid < b.pid)
\* A Sampler that has not sampled yet.
Unsampled == [cpu |-> [pid \in Pids |-> NoNumber], at |-> NoNumber]
Apply(set, v) == sort_rows({row \in set : matches(row, v.query)}, v.key, v.descending)

TaskInit ==
    /\ procs = [pid \in Pids |-> Gone] /\ births = 0 /\ now = 0
    /\ previous = Unsampled
    /\ snapshot = {} /\ tasks = <<>> /\ active = FALSE /\ taskClicks = 0
    /\ view = [query |-> 0, key |-> "cpu", descending |-> TRUE]
    /\ marks = [pid \in Pids |-> Gone]

(* What the machine does on its own: a process starts under a free pid, ends, *)
(* or time passes and some of the processes use the processor.                *)
Spawn(pid) ==
    /\ procs[pid] = Gone /\ births < MaxBirths
    /\ births' = births + 1
    /\ \E name \in ProcessNames :
          procs' = [procs EXCEPT ![pid] = [born |-> births + 1, used |-> 0, name |-> name]]
    /\ UNCHANGED <<now, previous, snapshot, tasks, view, active, taskClicks, marks>>
Exit(pid) ==
    /\ procs[pid] # Gone
    /\ procs' = [procs EXCEPT ![pid] = Gone]
    /\ UNCHANGED <<births, now, previous, snapshot, tasks, view, active, taskClicks, marks>>
Tick ==
    /\ now < MaxNow /\ now' = now + 1
    /\ \E busy \in SUBSET Listed(procs) :
          procs' = [pid \in Pids |-> IF pid \in busy
                                     THEN [procs[pid] EXCEPT !.used = @ + 1] ELSE procs[pid]]
    /\ UNCHANGED <<births, previous, snapshot, tasks, view, active, taskClicks, marks>>

\* A variant that keeps the counters of the first sample.
RefreshFromFirst(held) ==
    /\ snapshot' = sample(held) /\ tasks' = Apply(sample(held), view)
    /\ previous' = [cpu |-> [pid \in Pids |-> IF previous.cpu[pid] # NoNumber THEN previous.cpu[pid]
                                              ELSE IF pid \in Listed(held) THEN held[pid].used ELSE NoNumber],
                    at |-> now]
    /\ marks' = held

(* ProcessModel.refresh: sample, keep the counters just read, show the rows. *)
RefreshTasks(held) ==
    /\ snapshot' = sample(held) /\ tasks' = Apply(sample(held), view)
    /\ previous' = [cpu |-> [pid \in Pids |-> IF pid \in Listed(held) THEN held[pid].used ELSE NoNumber],
                    at |-> now]
    /\ marks' = held
Timeout ==
    /\ active /\ RefreshTasks(procs)
    /\ UNCHANGED <<procs, births, now, view, active, taskClicks>>
setActive(on) ==
    /\ taskClicks < MaxClicks /\ taskClicks' = taskClicks + 1 /\ active # on
    /\ active' = on
    /\ IF on THEN RefreshTasks(procs) ELSE UNCHANGED <<snapshot, tasks, previous, marks>>
    /\ UNCHANGED <<procs, births, now, view>>

(* The view controls work on the last sample; the active column reverses. *)
View(v) ==
    /\ active /\ taskClicks < MaxClicks /\ taskClicks' = taskClicks + 1
    /\ view' = v /\ tasks' = Apply(snapshot, v)
    /\ UNCHANGED <<procs, births, now, previous, snapshot, active, marks>>
search(query) == View([view EXCEPT !.query = query])
sortBy(key) ==
    View([view EXCEPT !.descending = IF key = view.key THEN ~@ ELSE key \in Numeric, !.key = key])

(* endTask on a row of the list: whoever holds the pid by now gets the        *)
(* signal.  Either signal may be refused for lack of rights and SIGTERM may   *)
(* be ignored; the list is read again in every case.                          *)
end(pid) ==
    \/ procs' = procs                            \* gone, refused, or a SIGTERM it ignores
    \/ procs[pid] # Gone /\ procs' = [procs EXCEPT ![pid] = Gone]
endTask(index) ==
    /\ active /\ taskClicks < MaxClicks /\ taskClicks' = taskClicks + 1
    /\ end(tasks[index].pid) /\ RefreshTasks(procs')
    /\ UNCHANGED <<births, now, view, active>>

TaskNext ==
    \/ \E pid \in Pids : Spawn(pid) \/ Exit(pid)
    \/ Tick \/ Timeout
    \/ \E on \in BOOLEAN : setActive(on)
    \/ \E query \in {0} \cup ProcessNames \cup {Max(ProcessNames) + 1} : search(query)
    \/ \E key \in ColumnKeys : sortBy(key)
    \/ \E index \in DOMAIN tasks : endTask(index)
TaskSpec == TaskInit /\ [][TaskNext]_taskVars
-----------------------------------------------------------------------------
(* A share is earned: it is shown exactly for a pid that was held at both of *)
(* the last two samples, with time in between.  It is what the process in    *)
(* the row used over that span when the same process held the pid at both;   *)
(* a pid that changed hands is compared all the same, and shows anything     *)
(* from nothing to what its present holder used (processes.Sampler.sample).  *)
SharesAreEarned ==
    \A row \in snapshot :
       LET used == (100 * row.own) \div row.span IN
       /\ row.cpu # NoNumber <=> row.both /\ row.span > 0
       /\ row.cpu # NoNumber => row.cpu \in 0 .. used /\ (row.same => row.cpu = used)
=============================================================================
