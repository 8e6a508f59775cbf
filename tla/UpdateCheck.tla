------------------------------ MODULE UpdateCheck ------------------------------
(***************************************************************************)
(* The "check for updates" operation of the Settings window: class         *)
(* UpdateCheck of zaldros_shell/updatecheck.py on the GUI thread, one      *)
(* worker thread per check that runs UpdatesFacet._transaction of          *)
(* zaldros_backend/updates.py twice (RefreshCache, then GetUpdates) on a   *)
(* bus of its own, and PackageKit (external), which may stop, restart,     *)
(* refuse or say nothing.                                                  *)
(*                                                                         *)
(* A worker's synchronous request is one step here.  Signals that arrive   *)
(* meanwhile wait in "wire" for dispatch(), in the order they were sent:   *)
(* this is what BusConnection is shown to implement (SignalStream).        *)
(***************************************************************************)
EXTENDS Integers, Sequences, FiniteSets

CONSTANTS
    Packages,      \* the packages GetUpdates may name
    MaxChecks,     \* bound: checks ever started
    MaxProcesses   \* bound: PackageKit processes ever started

ASSUME CheckBounds == MaxChecks \in Nat /\ MaxProcesses \in Nat

VARIABLES
    status, busy, reading,  \* what the Settings window shows
    generation,             \* _generation
    timer,                  \* _timer is armed
    posted,                 \* queued _completed signals, FIFO
    stop,                   \* per generation: the worker's stop event
    late,                   \* per generation: time.monotonic() >= deadline
    worker,                 \* per generation: the worker thread
    wire,                   \* per generation: signals on their way to the worker
    watching,               \* per generation: the four subscriptions are held
    linked,                 \* per generation: the private bus connection lives
    tx,                     \* per generation: PackageKit's current transaction for the worker
    process, alive          \* the last PackageKit process, and whether it runs

gui     == <<status, busy, reading, generation, timer>>
service == <<tx, process, alive>>
vars == <<status, busy, reading, generation, timer, posted, stop, late, worker, wire, watching,
          linked, tx, process, alive>>

Checks == 1..MaxChecks

NoReading == {"nothing"}

NewWorker(job) == [stage |-> "create", job |-> job, owner |-> 0, collected |-> {},
                   exit |-> "none", error |-> FALSE]

Package(job, p)     == [kind |-> "package", job |-> job, package |-> p]
Finished(job, exit) == [kind |-> "finished", job |-> job, exit |-> exit]
ErrorCode(job)      == [kind |-> "error", job |-> job]
OwnerLost(q)        == [kind |-> "lost", owner |-> q]

NoTransaction == [by |-> 0, job |-> "refresh", emitted |-> {}, state |-> "none"]

-----------------------------------------------------------------------------
(* The GUI thread *)

\* start(): refused while busy; one worker at a time.
Start ==
    /\ ~busy /\ generation < MaxChecks
    /\ generation' = generation + 1
    /\ reading' = NoReading
    /\ \/ /\ status' = "running" /\ busy' = TRUE /\ timer' = TRUE
          /\ worker' = [worker EXCEPT ![generation'] = NewWorker("refresh")]
       \/ /\ status' = "failed" /\ busy' = FALSE /\ timer' = FALSE  \* no thread to be had
          /\ UNCHANGED worker
    /\ UNCHANGED <<posted, stop, late, wire, watching, linked, service>>

\* Mutant: a late verdict replaces "cancelled" and "timed_out".
ReceiveAlways ==
    /\ posted # <<>>
    /\ posted' = Tail(posted)
    /\ LET done == Head(posted) IN
         IF done.generation # generation
         THEN UNCHANGED gui
         ELSE /\ busy' = FALSE /\ timer' = FALSE
              /\ status' = IF late[generation] THEN "timed_out" ELSE done.outcome
              /\ reading' = IF late[generation] THEN reading ELSE done.reading
              /\ UNCHANGED generation
    /\ UNCHANGED <<stop, late, worker, wire, watching, linked, service>>

\* _receive: a verdict counts only for the current check, and only while its
\* status is still open and its deadline has not passed.
Receive ==
    /\ posted # <<>>
    /\ posted' = Tail(posted)
    /\ LET done == Head(posted) IN
         IF done.generation # generation
         THEN UNCHANGED gui
         ELSE /\ busy' = FALSE /\ timer' = FALSE
              /\ IF status # "running"
                 THEN UNCHANGED <<status, reading>>
                 ELSE /\ status' = IF late[generation] THEN "timed_out" ELSE done.outcome
                      /\ reading' = IF late[generation] THEN reading ELSE done.reading
              /\ UNCHANGED generation
    /\ UNCHANGED <<stop, late, worker, wire, watching, linked, service>>

Cancel ==
    /\ status = "running"
    /\ stop' = [stop EXCEPT ![generation] = TRUE]
    /\ status' = "cancelled" /\ timer' = FALSE
    /\ UNCHANGED <<busy, reading, generation, posted, late, worker, wire, watching, linked, service>>

\* Mutant: a timer that fires early is not armed again.
ExpiredOnce ==
    /\ timer
    /\ timer' = FALSE
    /\ IF late[generation] /\ status = "running"
       THEN /\ status' = "timed_out"
            /\ stop' = [stop EXCEPT ![generation] = TRUE]
       ELSE UNCHANGED <<status, stop>>
    /\ UNCHANGED <<busy, reading, generation, posted, late, worker, wire, watching, linked, service>>

\* _expired: a timer that fires ahead of the clock is armed again.
Expired ==
    /\ timer
    /\ timer' = ~late[generation]
    /\ IF late[generation] /\ status = "running"
       THEN /\ status' = "timed_out"
            /\ stop' = [stop EXCEPT ![generation] = TRUE]
       ELSE UNCHANGED <<status, stop>>
    /\ UNCHANGED <<busy, reading, generation, posted, late, worker, wire, watching, linked, service>>

\* The deadline of a check passes, for its worker and for the GUI thread alike.
TimePasses ==
    /\ generation > 0 /\ ~late[generation]
    /\ late' = [late EXCEPT ![generation] = TRUE]
    /\ UNCHANGED <<gui, posted, stop, worker, wire, watching, linked, service>>

-----------------------------------------------------------------------------
(* A worker: _work() and _transaction() *)

\* cancelled(), which _transaction calls together with the same deadline.
Stopped(g) == stop[g] \/ late[g]

At(g, stage) == worker[g].stage = stage

\* Mutants: the owner is verified before its loss is watched; the transaction
\* is started before its signals are subscribed to.
VerifyFirst(stage) ==
    CASE stage = "create" -> "verify" [] stage = "verify" -> "subscribe"
      [] stage = "subscribe" -> "invoke" [] stage = "invoke" -> "waiting"
InvokeFirst(stage) ==
    CASE stage = "create" -> "verify" [] stage = "verify" -> "invoke"
      [] stage = "invoke" -> "subscribe" [] stage = "subscribe" -> "waiting"

\* The order of the steps: subscribe first, then verify ownership.
After(stage) ==
    CASE stage = "create" -> "subscribe" [] stage = "subscribe" -> "verify"
      [] stage = "verify" -> "invoke" [] stage = "invoke" -> "waiting"

Proceed(g) == worker' = [worker EXCEPT ![g].stage = After(worker[g].stage)]

\* The transaction's service can still be asked, and answers.
Reachable(g) == ~Stopped(g) /\ linked[g] /\ alive /\ process = tx[g].by

NoWorker(stage) == [NewWorker("refresh") EXCEPT !.stage = stage]

\* The finally clauses: drop the subscriptions, close the bus, post the result.
\* What was queued goes with the connection, and nobody sees what becomes of a
\* transaction that did not succeed.
Finish(g, outcome, packages) ==
    /\ worker' = [worker EXCEPT ![g] = NoWorker("done")]
    /\ wire' = [wire EXCEPT ![g] = <<>>]
    /\ tx' = IF outcome = "succeeded" THEN tx ELSE [tx EXCEPT ![g] = NoTransaction]
    /\ watching' = [watching EXCEPT ![g] = FALSE]
    /\ linked' = [linked EXCEPT ![g] = FALSE]
    /\ posted' = Append(posted, [generation |-> g, outcome |-> outcome, reading |-> packages])

\* CreateTransaction goes to the well-known name and may activate the service.
\* The bus connects lazily, and again when its connection was lost.
CreateTransaction(g) ==
    /\ At(g, "create") /\ ~Stopped(g)
    /\ IF alive THEN UNCHANGED <<process, alive>>
                ELSE process < MaxProcesses /\ process' = process + 1 /\ alive' = TRUE
    /\ tx' = [tx EXCEPT ![g] = [by |-> process', job |-> worker[g].job, emitted |-> {},
                                state |-> "created"]]
    /\ worker' = [worker EXCEPT ![g].stage = After("create"), ![g].owner = process']
    /\ linked' = [linked EXCEPT ![g] = TRUE]
    /\ wire' = [wire EXCEPT ![g] = IF linked[g] THEN @ ELSE <<>>]
    /\ UNCHANGED <<gui, posted, stop, late, watching>>

Subscribe(g) ==
    /\ At(g, "subscribe") /\ linked[g]
    /\ watching' = [watching EXCEPT ![g] = TRUE]
    /\ Proceed(g)
    /\ UNCHANGED <<gui, posted, stop, late, wire, linked, service>>

\* GetNameOwner still names the process that created the transaction.
VerifyOwner(g) ==
    /\ At(g, "verify") /\ Reachable(g)
    /\ Proceed(g)
    /\ UNCHANGED <<gui, posted, stop, late, wire, watching, linked, service>>

Invoke(g) ==
    /\ At(g, "invoke") /\ Reachable(g)
    /\ tx' = [tx EXCEPT ![g].state = "running"]
    /\ Proceed(g)
    /\ UNCHANGED <<gui, posted, stop, late, wire, watching, linked, process, alive>>

\* A request is refused or unanswered, the service or the bus is gone, a
\* subscription fails, or the worker was told to stop: _transaction is over.
RequestFails(g) ==
    /\ worker[g].stage \in {"create", "subscribe", "verify", "invoke"}
    /\ Finish(g, "failed", NoReading)
    /\ UNCHANGED <<gui, stop, late, process, alive>>

Settled(g) == worker[g].exit # "none" \/ worker[g].error

\* The loop: look at the results, at the clock and at the connection, then dispatch.
EnterDispatch(g) ==
    /\ At(g, "waiting") /\ ~Settled(g) /\ ~Stopped(g)
    /\ linked[g]
    /\ worker' = [worker EXCEPT ![g].stage = "dispatching"]
    /\ UNCHANGED <<gui, posted, stop, late, wire, watching, linked, service>>

\* Mutant: the loop looks at the connection but never at the clock.
GiveUpOnLoss(g) ==
    /\ At(g, "waiting") /\ ~Settled(g)
    /\ ~linked[g]
    /\ Finish(g, "failed", NoReading)
    /\ UNCHANGED <<gui, stop, late, process, alive>>

GiveUp(g) ==
    /\ At(g, "waiting") /\ ~Settled(g)
    /\ Stopped(g) \/ ~linked[g]
    /\ Finish(g, "failed", NoReading)
    /\ UNCHANGED <<gui, stop, late, process, alive>>

\* One signal reaches on_package, on_finished, on_error or on_owner.
Deliver(g) ==
    /\ At(g, "dispatching") /\ wire[g] # <<>>
    /\ wire' = [wire EXCEPT ![g] = Tail(@)]
    /\ LET m == Head(wire[g])
           ours == m.kind # "lost" /\ m.job = worker[g].job
       IN worker' = [worker EXCEPT
            ![g].collected = IF ours /\ m.kind = "package" THEN @ \cup {m.package} ELSE @,
            ![g].exit      = IF ours /\ m.kind = "finished" THEN m.exit ELSE @,
            ![g].error     = \/ @
                             \/ ours /\ m.kind = "error"
                             \/ m.kind = "lost" /\ m.owner = worker[g].owner]
    /\ UNCHANGED <<gui, posted, stop, late, watching, linked, service>>

\* dispatch(0.05) returns only when nothing more is to be read.
DispatchReturns(g) ==
    /\ At(g, "dispatching") /\ wire[g] = <<>>
    /\ worker' = [worker EXCEPT ![g].stage = "waiting"]
    /\ UNCHANGED <<gui, posted, stop, late, wire, watching, linked, service>>

\* The transaction has ended; an error outweighs the exit code.
Conclude(g) ==
    /\ At(g, "waiting") /\ Settled(g)
    /\ IF \/ worker[g].error
          \/ worker[g].exit # "success"
          \/ worker[g].job = "refresh" /\ Stopped(g)
       THEN Finish(g, "failed", NoReading)
       ELSE IF worker[g].job = "refresh"
       THEN /\ worker' = [worker EXCEPT ![g] = NewWorker("updates")]
            /\ watching' = [watching EXCEPT ![g] = FALSE]
            /\ UNCHANGED <<linked, posted, wire, tx>>
       ELSE Finish(g, "succeeded", worker[g].collected)
    /\ UNCHANGED <<gui, stop, late, process, alive>>

-----------------------------------------------------------------------------
(* PackageKit and the bus (external) *)

Sent(g, signals) == wire' = [wire EXCEPT ![g] = IF watching[g] /\ linked[g] THEN @ \o signals ELSE @]

Working(g) == alive /\ tx[g].by = process /\ tx[g].state = "running"

EmitPackage(g, p) ==
    /\ Working(g) /\ tx[g].job = "updates" /\ p \notin tx[g].emitted
    /\ tx' = [tx EXCEPT ![g].emitted = @ \cup {p}]
    /\ Sent(g, <<Package("updates", p)>>)
    /\ UNCHANGED <<gui, posted, stop, late, worker, watching, linked, process, alive>>

\* A failing transaction sends ErrorCode before Finished.
EndTransaction(g, exit) ==
    /\ Working(g)
    /\ tx' = [tx EXCEPT ![g].state = exit]
    /\ Sent(g, IF exit = "success" THEN <<Finished(tx[g].job, exit)>>
               ELSE <<ErrorCode(tx[g].job), Finished(tx[g].job, exit)>>)
    /\ UNCHANGED <<gui, posted, stop, late, worker, watching, linked, process, alive>>

\* The process exits or crashes; the daemon tells the watchers.
ProcessStops ==
    /\ alive /\ alive' = FALSE
    /\ wire' = [g \in Checks |-> IF watching[g] /\ linked[g]
                                 THEN Append(wire[g], OwnerLost(process)) ELSE wire[g]]
    /\ UNCHANGED <<gui, posted, stop, late, worker, watching, linked, tx, process>>

ProcessStarts ==
    /\ ~alive /\ process < MaxProcesses
    /\ process' = process + 1 /\ alive' = TRUE
    /\ UNCHANGED <<gui, posted, stop, late, worker, wire, watching, linked, tx>>

ConnectionDrops(g) ==
    /\ linked[g]
    /\ linked' = [linked EXCEPT ![g] = FALSE]
    /\ UNCHANGED <<gui, posted, stop, late, worker, wire, watching, service>>

-----------------------------------------------------------------------------
Init ==
    /\ status = "idle" /\ busy = FALSE /\ reading = NoReading
    /\ generation = 0 /\ timer = FALSE /\ posted = <<>>
    /\ stop = [g \in Checks |-> FALSE] /\ late = [g \in Checks |-> FALSE]
    /\ worker = [g \in Checks |-> NoWorker("none")]
    /\ wire = [g \in Checks |-> <<>>]
    /\ watching = [g \in Checks |-> FALSE] /\ linked = [g \in Checks |-> FALSE]
    /\ tx = [g \in Checks |-> NoTransaction]
    /\ process = 0 /\ alive = FALSE

WorkerStep(g) ==
    \/ CreateTransaction(g) \/ Subscribe(g) \/ VerifyOwner(g) \/ Invoke(g) \/ RequestFails(g)
    \/ EnterDispatch(g) \/ GiveUp(g) \/ Deliver(g) \/ DispatchReturns(g) \/ Conclude(g)

ServiceStep ==
    \/ \E g \in Checks : \/ \E p \in Packages : EmitPackage(g, p)
                         \/ \E exit \in {"success", "failed"} : EndTransaction(g, exit)
                         \/ ConnectionDrops(g)
    \/ ProcessStops \/ ProcessStarts

Next ==
    \/ Start \/ Receive \/ Cancel \/ Expired \/ TimePasses
    \/ \E g \in Checks : WorkerStep(g)
    \/ ServiceStep

Spec == Init /\ [][Next]_vars

\* The clock runs and the event loop of the GUI thread handles what is due;
\* nothing is assumed of the worker or of PackageKit.
GuiFairness == WF_vars(TimePasses) /\ WF_vars(Expired) /\ WF_vars(Receive)
GuiSpec == Spec /\ GuiFairness

\* A worker thread is scheduled; every wait it makes is bounded.
WorkerFairness == \A g \in Checks : WF_vars(WorkerStep(g))

-----------------------------------------------------------------------------
(* Properties *)

\* A successful check shows every package the service named and none of
\* another transaction, and only when the service said it was done; no other
\* status shows a reading (updates(): "0 updates" is not "we could not ask").
CompleteReading ==
    /\ reading # NoReading <=> status = "succeeded"
    /\ status = "succeeded" =>
         /\ tx[generation].job = "updates" /\ tx[generation].state = "success"
         /\ reading = tx[generation].emitted

\* "A loss between the create reply and installing NameOwnerChanged must not
\* be silently missed" (_transaction): once the transaction is started on a
\* verified owner, the death of that process is known or queued.
OwnerLossNoticed ==
    \A g \in Checks :
        (/\ worker[g].stage \in {"invoke", "waiting", "dispatching"} /\ linked[g]
         /\ ~(alive /\ process = worker[g].owner))
            => \/ worker[g].error
               \/ \E i \in DOMAIN wire[g] : wire[g][i] = OwnerLost(worker[g].owner)

\* Once a check was cancelled or timed out, nothing the worker posts later
\* changes what is shown until the user starts another (_receive).
VerdictIsFinal ==
    [][(status \in {"cancelled", "timed_out"} /\ generation' = generation)
         => UNCHANGED <<status, reading>>]_vars

\* The window never shows "checking" for ever, even if the worker hangs.
ObservationEnds == status = "running" ~> status # "running"

\* The check can be started again: every worker that is scheduled comes to its
\* end, although PackageKit may never answer or finish the transaction.
CheckEnds == WorkerFairness => (busy ~> ~busy)
=============================================================================
