--------------------------- MODULE UpdateCheckProofs ---------------------------
(* What a check for updates shows, for any packages and any number of checks  *)
(* and of PackageKit processes.                                               *)
EXTENDS UpdateCheck, SequenceTheorems, TLAPS

Named == "nothing" \notin Packages

Jobs == {"refresh", "updates"}
Stages == {"none", "create", "subscribe", "verify", "invoke", "waiting", "dispatching", "done"}
Outcomes == {"succeeded", "failed"}
Readings == (SUBSET Packages) \cup {NoReading}
Exits == {"success", "failed"}
Signals ==
    [kind : {"package"}, job : Jobs, package : Packages]
        \cup [kind : {"finished"}, job : Jobs, exit : Exits]
        \cup [kind : {"error"}, job : Jobs]
        \cup [kind : {"lost"}, owner : Nat]
Posts == [generation : Checks, outcome : Outcomes, reading : Readings]
WorkerType == [stage : Stages, job : Jobs, owner : Nat, collected : SUBSET Packages,
               exit : {"none"} \cup Exits, error : BOOLEAN]
TxType == [by : Nat, job : Jobs, emitted : SUBSET Packages,
           state : {"none", "created", "running"} \cup Exits]

TypeInv ==
    /\ generation \in 0..MaxChecks
    /\ posted \in Seq(Posts)
    /\ stop \in [Checks -> BOOLEAN] /\ late \in [Checks -> BOOLEAN]
    /\ worker \in [Checks -> WorkerType] /\ wire \in [Checks -> Seq(Signals)]
    /\ watching \in [Checks -> BOOLEAN] /\ linked \in [Checks -> BOOLEAN]
    /\ tx \in [Checks -> TxType]
    /\ process \in Nat /\ alive \in BOOLEAN

-----------------------------------------------------------------------------
(* What every worker and its transaction have to do with each other.        *)

Waiting == {"waiting", "dispatching"}
Prepared == {"subscribe", "verify", "invoke"}
Active == Prepared \cup Waiting

\* Nothing is on its way to a worker that has not begun or has finished.
Quiet(g) == worker[g].stage \in {"none", "done"} => wire[g] = <<>> /\ ~watching[g]
\* A worker that has not begun has no transaction.
Unasked(g) == worker[g].stage = "none" => tx[g].job = "refresh"
\* A transaction that runs has a worker that waits for it.
HasWaiter(g) == tx[g].state = "running" => worker[g].stage \in Waiting
Creating(g) ==
    worker[g].stage = "create" =>
        /\ ~watching[g] /\ tx[g].job = "refresh"
        /\ worker[g].collected = {} /\ worker[g].exit = "none"
        /\ worker[g].job = "refresh" => wire[g] = <<>>
Preparing(g) ==
    worker[g].stage \in Prepared =>
        /\ tx[g].state = "created" /\ tx[g].emitted = {}
        /\ worker[g].collected = {} /\ worker[g].exit = "none"
\* The worker's transaction, what it knows of it, and what it missed: nothing
\* that came before the end.
Running(g) ==
    worker[g].stage \in Active =>
        /\ tx[g].by = worker[g].owner /\ tx[g].job = worker[g].job
        /\ worker[g].collected \subseteq tx[g].emitted
        /\ worker[g].exit # "none" =>
              /\ tx[g].state = worker[g].exit
              /\ worker[g].job = "updates" => tx[g].emitted \subseteq worker[g].collected
Listening(g) == worker[g].stage \in {"verify", "invoke"} \cup Waiting => watching[g]

\* Every package named so far is collected, or in the queue before its n-th signal.
Reported(g, n) ==
    \A p \in tx[g].emitted :
        \/ p \in worker[g].collected
        \/ \E k \in 1..(n - 1) : k <= Len(wire[g]) /\ wire[g][k] = Package("updates", p)
PackagesQueued(g) ==
    \A i \in 1..Len(wire[g]) : wire[g][i].kind = "package" =>
        /\ wire[g][i].job = "updates" /\ tx[g].job = "updates"
        /\ wire[g][i].package \in tx[g].emitted
EndQueued(g) ==
    \A i \in 1..Len(wire[g]) : wire[g][i].kind = "finished" =>
        /\ wire[g][i].job = tx[g].job => tx[g].state = wire[g][i].exit
        /\ wire[g][i].job = "updates" => tx[g].job = "updates" /\ Reported(g, i)
InTime(g) == worker[g].stage \in Waiting /\ linked[g] => Reported(g, Len(wire[g]) + 1)

\* The death of the owner is known or queued.
Noticed(g) ==
    (/\ worker[g].stage \in {"invoke"} \cup Waiting /\ linked[g]
     /\ ~(alive /\ process = worker[g].owner))
        => \/ worker[g].error
           \/ \E i \in 1..Len(wire[g]) : wire[g][i] = OwnerLost(worker[g].owner)

WorkerInv(g) ==
    /\ Quiet(g) /\ Unasked(g) /\ HasWaiter(g) /\ Creating(g) /\ Preparing(g) /\ Running(g)
    /\ Listening(g) /\ PackagesQueued(g) /\ EndQueued(g) /\ InTime(g) /\ Noticed(g)

-----------------------------------------------------------------------------
(* What is posted and shown.                                                *)

Complete(g, packages) ==
    /\ worker[g].stage = "done"
    /\ tx[g].job = "updates" /\ tx[g].state = "success" /\ packages = tx[g].emitted
PostedInv ==
    \A i \in 1..Len(posted) :
        IF posted[i].outcome = "succeeded" THEN Complete(posted[i].generation, posted[i].reading)
        ELSE posted[i].reading = NoReading
ShownInv ==
    /\ reading # NoReading <=> status = "succeeded"
    /\ status = "succeeded" => generation \in Checks /\ Complete(generation, reading)
FutureInv == \A g \in Checks : g > generation => worker[g].stage = "none"

Inv == /\ TypeInv /\ PostedInv /\ ShownInv /\ FutureInv
       /\ \A g \in Checks : WorkerInv(g)

-----------------------------------------------------------------------------
(* Queues.                                                                  *)

LEMMA Tails ==
    ASSUME NEW S, NEW s \in Seq(S), s # <<>>
    PROVE  /\ Head(s) = s[1] /\ s[1] \in S /\ Tail(s) \in Seq(S)
           /\ Len(s) \in Nat /\ Len(s) >= 1 /\ Len(Tail(s)) = Len(s) - 1
           /\ \A i \in 1..Len(Tail(s)) : Tail(s)[i] = s[i + 1]
OBVIOUS

LEMMA Joined ==
    ASSUME NEW S, NEW s \in Seq(S), NEW t \in Seq(S)
    PROVE  /\ s \o t \in Seq(S) /\ Len(s \o t) = Len(s) + Len(t) /\ Len(s) \in Nat /\ Len(t) \in Nat
           /\ \A i \in 1..Len(s) : (s \o t)[i] = s[i]
           /\ \A i \in 1..Len(t) : (s \o t)[Len(s) + i] = t[i]
OBVIOUS

-----------------------------------------------------------------------------
(* Types.                                                                   *)

LEMMA PostTyped ==
    ASSUME TypeInv, NEW g \in Checks, NEW o \in Outcomes, NEW r \in Readings
    PROVE  Append(posted, [generation |-> g, outcome |-> o, reading |-> r]) \in Seq(Posts)
<1>1. [generation |-> g, outcome |-> o, reading |-> r] \in Posts  BY DEF Posts
<1> QED  BY <1>1 DEF TypeInv

LEMMA WorkersTyped ==
    /\ \A job \in Jobs : NewWorker(job) \in WorkerType
    /\ \A stage \in Stages : NoWorker(stage) \in WorkerType
    /\ NoTransaction \in TxType
BY DEF NewWorker, NoWorker, WorkerType, NoTransaction, TxType, Jobs, Stages

LEMMA FinishTyped ==
    ASSUME TypeInv, NEW g \in Checks, NEW o \in Outcomes, NEW r \in Readings, Finish(g, o, r)
    PROVE  /\ posted' \in Seq(Posts) /\ worker' \in [Checks -> WorkerType]
           /\ wire' \in [Checks -> Seq(Signals)] /\ tx' \in [Checks -> TxType]
           /\ watching' \in [Checks -> BOOLEAN] /\ linked' \in [Checks -> BOOLEAN]
<1>1. NoWorker("done") \in WorkerType /\ NoTransaction \in TxType
  BY WorkersTyped DEF Stages
<1>2. <<>> \in Seq(Signals)  OBVIOUS
<1> QED  BY <1>1, <1>2, PostTyped DEF Finish, TypeInv

LEMMA SentTyped ==
    ASSUME TypeInv, NEW g \in Checks, NEW t \in Seq(Signals), Sent(g, t)
    PROVE  wire' \in [Checks -> Seq(Signals)]
<1>1. wire[g] \o t \in Seq(Signals) /\ wire[g] \in Seq(Signals)  BY Joined DEF TypeInv
<1> QED  BY <1>1 DEF Sent, TypeInv

LEMMA StageTyped ==
    ASSUME TypeInv, NEW g \in Checks, NEW s \in Stages, worker' = [worker EXCEPT ![g].stage = s]
    PROVE  /\ worker' \in [Checks -> WorkerType]
           /\ \A h \in Checks \ {g} : worker'[h] = worker[h]
           /\ worker'[g].stage = s /\ worker'[g].job = worker[g].job
           /\ worker'[g].owner = worker[g].owner /\ worker'[g].collected = worker[g].collected
           /\ worker'[g].exit = worker[g].exit /\ worker'[g].error = worker[g].error
BY ZenonT(60) DEF TypeInv, WorkerType

Owned(w, s, q) == [w EXCEPT !.stage = s, !.owner = q]
LEMMA OwnedTyped ==
    ASSUME NEW w \in WorkerType, NEW s \in Stages, NEW q \in Nat
    PROVE  LET v == Owned(w, s, q) IN
           /\ v \in WorkerType
           /\ v.stage = s /\ v.owner = q /\ v.job = w.job /\ v.collected = w.collected
           /\ v.exit = w.exit /\ v.error = w.error
<1>1. [w EXCEPT !.stage = s] \in WorkerType  BY DEF WorkerType
<1>2. Owned(w, s, q) = [[w EXCEPT !.stage = s] EXCEPT !.owner = q]  BY DEF Owned
<1> QED  BY <1>1, <1>2 DEF WorkerType

Told(w, c, x, e) == [w EXCEPT !.collected = c, !.exit = x, !.error = e]
LEMMA ToldTyped ==
    ASSUME NEW w \in WorkerType, NEW c \in SUBSET Packages, NEW x \in {"none"} \cup Exits,
           NEW e \in BOOLEAN
    PROVE  LET v == Told(w, c, x, e) IN
           /\ v \in WorkerType
           /\ v.stage = w.stage /\ v.owner = w.owner /\ v.job = w.job /\ v.collected = c
           /\ v.exit = x /\ v.error = e
<1> DEFINE w1 == [w EXCEPT !.collected = c]
           w2 == [w1 EXCEPT !.exit = x]
<1>1. /\ w1 \in WorkerType /\ w1.collected = c
      /\ w1.stage = w.stage /\ w1.owner = w.owner /\ w1.job = w.job
  BY DEF WorkerType
<1>2. Told(w, c, x, e) = [w2 EXCEPT !.error = e]  BY DEF Told
<1> HIDE DEF w1
<1>3. /\ w2 \in WorkerType /\ w2.collected = c /\ w2.exit = x
      /\ w2.stage = w.stage /\ w2.owner = w.owner /\ w2.job = w.job
  BY <1>1 DEF WorkerType
<1> HIDE DEF w2
<1> QED  BY <1>2, <1>3 DEF WorkerType

LEMMA NextStage ==
    /\ After("create") = "subscribe" /\ After("subscribe") = "verify"
    /\ After("verify") = "invoke" /\ After("invoke") = "waiting"
BY DEF After

LEMMA SignalsTyped ==
    /\ \A p \in Packages : Package("updates", p) \in Signals
    /\ \A job \in Jobs, exit \in Exits : Finished(job, exit) \in Signals
    /\ \A job \in Jobs : ErrorCode(job) \in Signals
    /\ \A q \in Nat : OwnerLost(q) \in Signals
BY DEF Package, Finished, ErrorCode, OwnerLost, Signals, Jobs

LEMMA InitTyped == Init => TypeInv
<1>1. NoWorker("none") \in WorkerType /\ NoTransaction \in TxType  BY WorkersTyped DEF Stages
<1>2. <<>> \in Seq(Signals) /\ <<>> \in Seq(Posts)  OBVIOUS
<1>3. generation = 0 => generation \in 0..MaxChecks  BY CheckBounds
<1> SUFFICES ASSUME Init PROVE TypeInv  OBVIOUS
<1>4. worker \in [Checks -> WorkerType] /\ tx \in [Checks -> TxType]  BY <1>1 DEF Init
<1>5. wire \in [Checks -> Seq(Signals)] /\ posted \in Seq(Posts)  BY <1>2 DEF Init
<1>6. /\ stop \in [Checks -> BOOLEAN] /\ late \in [Checks -> BOOLEAN]
      /\ watching \in [Checks -> BOOLEAN] /\ linked \in [Checks -> BOOLEAN]
  BY DEF Init
<1>7. process \in Nat /\ alive \in BOOLEAN /\ generation \in 0..MaxChecks  BY <1>3 DEF Init
<1> QED  BY <1>4, <1>5, <1>6, <1>7 DEF TypeInv

LEMMA WorkerStepTyped == ASSUME TypeInv, NEW g \in Checks, WorkerStep(g) PROVE TypeInv'
<1> USE DEF gui, service
<1>1. CASE CreateTransaction(g)
  <2>1. process' \in Nat /\ alive' \in BOOLEAN
    <3>1. CASE alive  BY <1>1, <3>1 DEF CreateTransaction, TypeInv
    <3>2. CASE ~alive  BY <1>1, <3>2 DEF CreateTransaction, TypeInv
    <3> QED  BY <3>1, <3>2
  <2>2. [by |-> process', job |-> worker[g].job, emitted |-> {}, state |-> "created"] \in TxType
    BY <2>1 DEF TypeInv, WorkerType, TxType
  <2>3. tx' \in [Checks -> TxType]  BY <1>1, <2>2 DEF CreateTransaction, TypeInv
  <2>4. worker' = [worker EXCEPT ![g].stage = "subscribe", ![g].owner = process']
    BY <1>1, NextStage DEF CreateTransaction
  <2> DEFINE v == Owned(worker[g], "subscribe", process')
  <2>w. worker' = [worker EXCEPT ![g] = v]
    BY <2>4 DEF Owned
  <2>v. v \in WorkerType
    BY <2>1, OwnedTyped DEF TypeInv, Stages
  <2> HIDE DEF v
  <2>5. worker' \in [Checks -> WorkerType]
    BY <2>w, <2>v DEF TypeInv
  <2>6. <<>> \in Seq(Signals)  OBVIOUS
  <2>7. wire' \in [Checks -> Seq(Signals)]
    BY <1>1, <2>6 DEF CreateTransaction, TypeInv
  <2>8. linked' \in [Checks -> BOOLEAN]  BY <1>1 DEF CreateTransaction, TypeInv
  <2> QED  BY <1>1, <2>1, <2>3, <2>5, <2>7, <2>8 DEF CreateTransaction, TypeInv
<1>s. ASSUME NEW s \in Stages, worker' = [worker EXCEPT ![g].stage = s],
             UNCHANGED <<generation, posted, stop, late, wire, linked, process, alive>>,
             watching' \in [Checks -> BOOLEAN], tx' \in [Checks -> TxType]
      PROVE  TypeInv'
  BY <1>s, StageTyped DEF TypeInv
<1>t. {"subscribe", "verify", "invoke", "waiting", "dispatching"} \subseteq Stages  BY DEF Stages
<1>2. CASE Subscribe(g)
  <2>1. worker' = [worker EXCEPT ![g].stage = "verify"]
    BY <1>2, NextStage DEF Subscribe, Proceed, At
  <2> QED  BY <1>2, <1>s, <1>t, <2>1 DEF Subscribe, TypeInv
<1>3. CASE VerifyOwner(g)
  <2>1. worker' = [worker EXCEPT ![g].stage = "invoke"]
    BY <1>3, NextStage DEF VerifyOwner, Proceed, At
  <2> QED  BY <1>3, <1>s, <1>t, <2>1 DEF VerifyOwner, TypeInv
<1>4. CASE Invoke(g)
  <2>1. worker' = [worker EXCEPT ![g].stage = "waiting"]
    BY <1>4, NextStage DEF Invoke, Proceed, At
  <2>2. tx' \in [Checks -> TxType]  BY <1>4, ZenonT(60) DEF Invoke, TypeInv, TxType
  <2> QED  BY <1>4, <1>s, <1>t, <2>1, <2>2 DEF Invoke, TypeInv
<1>f. ASSUME Finish(g, "failed", NoReading), UNCHANGED <<gui, stop, late, process, alive>>
      PROVE TypeInv'
  <2>1. "failed" \in Outcomes /\ NoReading \in Readings  BY DEF Outcomes, Readings
  <2> QED  BY <1>f, <2>1, FinishTyped DEF TypeInv
<1>5. CASE RequestFails(g)  BY <1>5, <1>f DEF RequestFails
<1>6. CASE EnterDispatch(g)
  BY <1>6, <1>s, <1>t DEF EnterDispatch, TypeInv
<1>7. CASE GiveUp(g)  BY <1>7, <1>f DEF GiveUp
<1>8. CASE Deliver(g)
  <2> DEFINE m == Head(wire[g])
  <2>1. m \in Signals /\ Tail(wire[g]) \in Seq(Signals)  BY <1>8, Tails DEF Deliver, TypeInv
  <2>2. /\ m.kind = "package" => m.package \in Packages
        /\ m.kind = "finished" => m.exit \in Exits
    BY <2>1 DEF Signals
  <2>3. wire' \in [Checks -> Seq(Signals)]  BY <1>8, <2>1, SMTT(60) DEF Deliver, TypeInv
  <2> DEFINE ours == m.kind # "lost" /\ m.job = worker[g].job
             c == IF ours /\ m.kind = "package" THEN worker[g].collected \cup {m.package}
                  ELSE worker[g].collected
             x == IF ours /\ m.kind = "finished" THEN m.exit ELSE worker[g].exit
             e == \/ worker[g].error
                  \/ ours /\ m.kind = "error"
                  \/ m.kind = "lost" /\ m.owner = worker[g].owner
             v == Told(worker[g], c, x, e)
  <2>4. worker' = [worker EXCEPT ![g] = v]
    BY <1>8 DEF Deliver, Told
  <2>w. worker[g] \in WorkerType  BY DEF TypeInv
  <2>c. c \in SUBSET Packages  BY <2>2, <2>w DEF WorkerType
  <2>x. x \in {"none"} \cup Exits  BY <2>2, <2>w DEF WorkerType
  <2>e. e \in BOOLEAN  BY <2>w DEF WorkerType
  <2> HIDE DEF c, x, e
  <2>v. v \in WorkerType
    BY <2>w, <2>c, <2>x, <2>e, ToldTyped
  <2> HIDE DEF v
  <2>5. worker' \in [Checks -> WorkerType]
    BY <2>4, <2>v DEF TypeInv
  <2> QED  BY <1>8, <2>3, <2>5 DEF Deliver, TypeInv
<1>9. CASE DispatchReturns(g)
  BY <1>9, <1>s, <1>t DEF DispatchReturns, TypeInv
<1>10. CASE Conclude(g)
  <2>1. CASE Finish(g, "failed", NoReading)
    BY <1>10, <2>1, <1>f DEF Conclude
  <2>2. CASE Finish(g, "succeeded", worker[g].collected)
    <3>1. "succeeded" \in Outcomes /\ worker[g].collected \in Readings
      BY DEF Outcomes, Readings, TypeInv, WorkerType
    <3> QED  BY <1>10, <2>2, <3>1, FinishTyped DEF Conclude, TypeInv
  <2>3. CASE /\ worker' = [worker EXCEPT ![g] = NewWorker("updates")]
             /\ watching' = [watching EXCEPT ![g] = FALSE]
             /\ UNCHANGED <<linked, posted, wire, tx>>
    <3>1. NewWorker("updates") \in WorkerType  BY WorkersTyped DEF Jobs
    <3> QED  BY <1>10, <2>3, <3>1 DEF Conclude, TypeInv
  <2> QED  BY <1>10, <2>1, <2>2, <2>3 DEF Conclude
<1> QED
  BY <1>1, <1>2, <1>3, <1>4, <1>5, <1>6, <1>7, <1>8, <1>9, <1>10 DEF WorkerStep

LEMMA StepTyped == TypeInv /\ [Next]_vars => TypeInv'
<1> SUFFICES ASSUME TypeInv, [Next]_vars PROVE TypeInv'  OBVIOUS
<1> USE DEF gui, service
<1>1. CASE Start
  <2>1. NewWorker("refresh") \in WorkerType  BY WorkersTyped DEF Jobs
  <2>2. generation' \in 0..MaxChecks  BY <1>1, CheckBounds DEF Start, TypeInv
  <2>3. worker' \in [Checks -> WorkerType]  BY <1>1, <2>1 DEF Start, TypeInv
  <2> QED  BY <1>1, <2>2, <2>3 DEF Start, TypeInv
<1>2. CASE Receive
  <2>1. posted' \in Seq(Posts)  BY <1>2, Tails DEF Receive, TypeInv
  <2> QED  BY <1>2, <2>1 DEF Receive, TypeInv
<1>3. CASE Cancel  BY <1>3 DEF Cancel, TypeInv
<1>4. CASE Expired  BY <1>4 DEF Expired, TypeInv
<1>5. CASE TimePasses  BY <1>5 DEF TimePasses, TypeInv
<1>6. ASSUME NEW g \in Checks, WorkerStep(g) PROVE TypeInv'  BY <1>6, WorkerStepTyped
<1>7. ASSUME NEW g \in Checks, NEW p \in Packages, EmitPackage(g, p) PROVE TypeInv'
  <2>1. <<Package("updates", p)>> \in Seq(Signals)  BY SignalsTyped
  <2>2. wire' \in [Checks -> Seq(Signals)]  BY <1>7, <2>1, SentTyped DEF EmitPackage
  <2>3. tx' \in [Checks -> TxType]  BY <1>7, ZenonT(60) DEF EmitPackage, TypeInv, TxType
  <2> QED  BY <1>7, <2>2, <2>3 DEF EmitPackage, TypeInv
<1>8. ASSUME NEW g \in Checks, NEW exit \in {"success", "failed"}, EndTransaction(g, exit)
      PROVE TypeInv'
  <2>1. tx[g].job \in Jobs  BY DEF TypeInv, TxType
  <2>2. /\ Finished(tx[g].job, exit) \in Signals /\ ErrorCode(tx[g].job) \in Signals
    BY <2>1, SignalsTyped DEF Exits
  <2>3. /\ <<Finished(tx[g].job, exit)>> \in Seq(Signals)
        /\ <<ErrorCode(tx[g].job), Finished(tx[g].job, exit)>> \in Seq(Signals)
    BY <2>2
  <2>4. wire' \in [Checks -> Seq(Signals)]  BY <1>8, <2>3, SentTyped DEF EndTransaction
  <2>5. tx' \in [Checks -> TxType]  BY <1>8, ZenonT(60) DEF EndTransaction, TypeInv, TxType, Exits
  <2> QED  BY <1>8, <2>4, <2>5 DEF EndTransaction, TypeInv
<1>9. ASSUME NEW g \in Checks, ConnectionDrops(g) PROVE TypeInv'
  BY <1>9 DEF ConnectionDrops, TypeInv
<1>10. CASE ProcessStops
  <2>1. OwnerLost(process) \in Signals  BY SignalsTyped DEF TypeInv
  <2>2. \A g \in Checks : Append(wire[g], OwnerLost(process)) \in Seq(Signals)
    BY <2>1 DEF TypeInv
  <2>3. wire' \in [Checks -> Seq(Signals)]  BY <1>10, <2>2 DEF ProcessStops, TypeInv
  <2> QED  BY <1>10, <2>3 DEF ProcessStops, TypeInv
<1>11. CASE ProcessStarts  BY <1>11 DEF ProcessStarts, TypeInv
<1>12. CASE UNCHANGED vars  BY <1>12 DEF vars, TypeInv
<1> QED
  BY <1>1, <1>2, <1>3, <1>4, <1>5, <1>6, <1>7, <1>8, <1>9, <1>10, <1>11, <1>12
     DEF Next, ServiceStep

-----------------------------------------------------------------------------
(* One worker at a time: a step leaves the others as they are, and what     *)
(* becomes of PackageKit's process while it is dead is known already.       *)

Same(h) == /\ worker'[h] = worker[h] /\ wire'[h] = wire[h] /\ watching'[h] = watching[h]
           /\ linked'[h] = linked[h] /\ tx'[h] = tx[h]

LEMMA SameKeeps ==
    ASSUME NEW h \in Checks, WorkerInv(h), Same(h),
           (process' = process /\ alive' = alive) \/ ~alive
    PROVE  WorkerInv(h)'
<1> USE DEF WorkerInv, Same
<1>1. Quiet(h)' /\ Unasked(h)' /\ HasWaiter(h)' /\ Creating(h)' /\ Preparing(h)' /\ Running(h)' /\ Listening(h)'
  BY DEF Quiet, Unasked, HasWaiter, Creating, Preparing, Running, Listening
<1>2. \A n : Reported(h, n)' <=> Reported(h, n)  BY DEF Reported
<1>3. PackagesQueued(h)'  BY DEF PackagesQueued
<1>4. EndQueued(h)'  BY <1>2 DEF EndQueued
<1>5. InTime(h)'  BY <1>2 DEF InTime
<1>6. Noticed(h)'  BY DEF Noticed
<1> QED  BY <1>1, <1>3, <1>4, <1>5, <1>6

LEMMA FinishKeeps ==
    ASSUME TypeInv, NEW g \in Checks, NEW o, NEW r, Finish(g, o, r),
           o = "succeeded" => tx[g].state # "running"
    PROVE  /\ WorkerInv(g)' /\ \A h \in Checks \ {g} : Same(h)
           /\ worker'[g].stage = "done"
           /\ o = "succeeded" => tx' = tx
<1>1. /\ worker' = [worker EXCEPT ![g] = NoWorker("done")]
      /\ wire' = [wire EXCEPT ![g] = <<>>]
      /\ tx' = IF o = "succeeded" THEN tx ELSE [tx EXCEPT ![g] = NoTransaction]
      /\ watching' = [watching EXCEPT ![g] = FALSE]
      /\ linked' = [linked EXCEPT ![g] = FALSE]
  BY DEF Finish
<1>2. /\ worker'[g] = NoWorker("done") /\ wire'[g] = <<>> /\ watching'[g] = FALSE
      /\ linked'[g] = FALSE
      /\ tx'[g] = IF o = "succeeded" THEN tx[g] ELSE NoTransaction
      /\ \A h \in Checks \ {g} : Same(h)
  BY <1>1 DEF TypeInv, Same
<1>3. NoWorker("done").stage = "done"  BY DEF NoWorker, NewWorker
<1>4. tx'[g].state # "running"  BY <1>2 DEF NoTransaction
<1>5. Quiet(g)' /\ Unasked(g)' /\ HasWaiter(g)' /\ Creating(g)' /\ Preparing(g)' /\ Running(g)' /\ Listening(g)'
      /\ InTime(g)' /\ Noticed(g)'
  BY <1>2, <1>3, <1>4 DEF Quiet, Unasked, HasWaiter, Creating, Preparing, Running, Listening, InTime,
                          Noticed, Prepared, Waiting, Active
<1>6. Len(wire'[g]) = 0  BY <1>2
<1>7. PackagesQueued(g)' /\ EndQueued(g)'  BY <1>6 DEF PackagesQueued, EndQueued
<1> QED  BY <1>1, <1>2, <1>3, <1>5, <1>7 DEF WorkerInv

(* A step that only moves the worker on, or tells the transaction to begin. *)
LEMMA MovesOn ==
    ASSUME TypeInv, NEW g \in Checks, NEW s \in Stages,
           worker' = [worker EXCEPT ![g].stage = s]
    PROVE  /\ worker'[g].stage = s /\ worker'[g].job = worker[g].job
           /\ worker'[g].owner = worker[g].owner /\ worker'[g].collected = worker[g].collected
           /\ worker'[g].exit = worker[g].exit /\ worker'[g].error = worker[g].error
           /\ \A h \in Checks \ {g} : worker'[h] = worker[h]
BY StageTyped

LEMMA SubscribeKeeps ==
    ASSUME TypeInv, NEW g \in Checks, WorkerInv(g), Subscribe(g)
    PROVE  WorkerInv(g)' /\ \A h \in Checks \ {g} : Same(h)
<1>1. worker' = [worker EXCEPT ![g].stage = "verify"] /\ worker[g].stage = "subscribe"
  BY NextStage DEF Subscribe, Proceed, At
<1>2. /\ watching' = [watching EXCEPT ![g] = TRUE] /\ linked[g]
      /\ wire' = wire /\ linked' = linked /\ tx' = tx /\ process' = process /\ alive' = alive
  BY DEF Subscribe, service
<1>3. "verify" \in Stages  BY DEF Stages
<1>4. /\ worker'[g].stage = "verify" /\ worker'[g].job = worker[g].job
      /\ worker'[g].owner = worker[g].owner /\ worker'[g].collected = worker[g].collected
      /\ worker'[g].exit = worker[g].exit /\ worker'[g].error = worker[g].error
      /\ \A h \in Checks \ {g} : worker'[h] = worker[h]
  BY <1>1, <1>3, MovesOn
<1>5. watching'[g] /\ \A h \in Checks \ {g} : watching'[h] = watching[h]
  BY <1>2 DEF TypeInv
<1>6. Quiet(g)' /\ Unasked(g)' /\ HasWaiter(g)' /\ Creating(g)' /\ Preparing(g)' /\ Running(g)' /\ Listening(g)'
      /\ InTime(g)' /\ Noticed(g)'
  BY <1>1, <1>2, <1>4, <1>5 DEF WorkerInv, Quiet, Unasked, HasWaiter, Creating, Preparing, Running,
     Listening, InTime, Noticed, Prepared, Waiting, Active
<1>7. \A n : Reported(g, n)' <=> Reported(g, n)  BY <1>2, <1>4 DEF Reported
<1>8. PackagesQueued(g)' /\ EndQueued(g)'
  BY <1>2, <1>7 DEF WorkerInv, PackagesQueued, EndQueued
<1>9. \A h \in Checks \ {g} : Same(h)  BY <1>2, <1>4, <1>5 DEF Same
<1> QED  BY <1>6, <1>8, <1>9 DEF WorkerInv

LEMMA VerifyOwnerKeeps ==
    ASSUME TypeInv, NEW g \in Checks, WorkerInv(g), VerifyOwner(g)
    PROVE  WorkerInv(g)' /\ \A h \in Checks \ {g} : Same(h)
<1>1. worker' = [worker EXCEPT ![g].stage = "invoke"] /\ worker[g].stage = "verify"
  BY NextStage DEF VerifyOwner, Proceed, At
<1>2. /\ wire' = wire /\ watching' = watching /\ linked' = linked /\ tx' = tx
      /\ process' = process /\ alive' = alive
  BY DEF VerifyOwner, service
<1>3. "invoke" \in Stages  BY DEF Stages
<1>4. /\ worker'[g].stage = "invoke" /\ worker'[g].job = worker[g].job
      /\ worker'[g].owner = worker[g].owner /\ worker'[g].collected = worker[g].collected
      /\ worker'[g].exit = worker[g].exit /\ worker'[g].error = worker[g].error
      /\ \A h \in Checks \ {g} : worker'[h] = worker[h]
  BY <1>1, <1>3, MovesOn
<1>5. Quiet(g)' /\ Unasked(g)' /\ HasWaiter(g)' /\ Creating(g)' /\ Preparing(g)' /\ Running(g)' /\ Listening(g)'
  BY <1>1, <1>2, <1>4 DEF WorkerInv, Quiet, Unasked, HasWaiter, Creating, Preparing, Running,
     Listening, Prepared, Waiting, Active
<1>6. \A n : Reported(g, n)' <=> Reported(g, n)  BY <1>2, <1>4 DEF Reported
<1>7. PackagesQueued(g)' /\ EndQueued(g)'
  BY <1>2, <1>6 DEF WorkerInv, PackagesQueued, EndQueued
<1>8. InTime(g)'  BY <1>1, <1>2, <1>4, <1>6 DEF WorkerInv, InTime, Waiting
<1>9. Noticed(g)'
  BY <1>1, <1>2, <1>4 DEF WorkerInv, Noticed, Waiting, Running, Active, Prepared, VerifyOwner, Reachable
<1>10. \A h \in Checks \ {g} : Same(h)  BY <1>2, <1>4 DEF Same
<1> QED  BY <1>5, <1>7, <1>8, <1>9, <1>10 DEF WorkerInv

LEMMA EnterDispatchKeeps ==
    ASSUME TypeInv, NEW g \in Checks, WorkerInv(g), EnterDispatch(g)
    PROVE  WorkerInv(g)' /\ \A h \in Checks \ {g} : Same(h)
<1>1. worker' = [worker EXCEPT ![g].stage = "dispatching"] /\ worker[g].stage = "waiting"
  BY NextStage DEF EnterDispatch, Proceed, At
<1>2. /\ wire' = wire /\ watching' = watching /\ linked' = linked /\ tx' = tx
      /\ process' = process /\ alive' = alive
  BY DEF EnterDispatch, service
<1>3. "dispatching" \in Stages  BY DEF Stages
<1>4. /\ worker'[g].stage = "dispatching" /\ worker'[g].job = worker[g].job
      /\ worker'[g].owner = worker[g].owner /\ worker'[g].collected = worker[g].collected
      /\ worker'[g].exit = worker[g].exit /\ worker'[g].error = worker[g].error
      /\ \A h \in Checks \ {g} : worker'[h] = worker[h]
  BY <1>1, <1>3, MovesOn
<1>5. Quiet(g)' /\ Unasked(g)' /\ HasWaiter(g)' /\ Creating(g)' /\ Preparing(g)' /\ Running(g)' /\ Listening(g)'
  BY <1>1, <1>2, <1>4 DEF WorkerInv, Quiet, Unasked, HasWaiter, Creating, Preparing, Running,
     Listening, Prepared, Waiting, Active
<1>6. \A n : Reported(g, n)' <=> Reported(g, n)  BY <1>2, <1>4 DEF Reported
<1>7. PackagesQueued(g)' /\ EndQueued(g)'
  BY <1>2, <1>6 DEF WorkerInv, PackagesQueued, EndQueued
<1>8. InTime(g)'  BY <1>1, <1>2, <1>4, <1>6 DEF WorkerInv, InTime, Waiting
<1>9. Noticed(g)'
  BY <1>1, <1>2, <1>4 DEF WorkerInv, Noticed, Waiting, Running, Active, Prepared
<1>10. \A h \in Checks \ {g} : Same(h)  BY <1>2, <1>4 DEF Same
<1> QED  BY <1>5, <1>7, <1>8, <1>9, <1>10 DEF WorkerInv

LEMMA DispatchReturnsKeeps ==
    ASSUME TypeInv, NEW g \in Checks, WorkerInv(g), DispatchReturns(g)
    PROVE  WorkerInv(g)' /\ \A h \in Checks \ {g} : Same(h)
<1>1. worker' = [worker EXCEPT ![g].stage = "waiting"] /\ worker[g].stage = "dispatching"
  BY NextStage DEF DispatchReturns, Proceed, At
<1>2. /\ wire' = wire /\ watching' = watching /\ linked' = linked /\ tx' = tx
      /\ process' = process /\ alive' = alive
  BY DEF DispatchReturns, service
<1>3. "waiting" \in Stages  BY DEF Stages
<1>4. /\ worker'[g].stage = "waiting" /\ worker'[g].job = worker[g].job
      /\ worker'[g].owner = worker[g].owner /\ worker'[g].collected = worker[g].collected
      /\ worker'[g].exit = worker[g].exit /\ worker'[g].error = worker[g].error
      /\ \A h \in Checks \ {g} : worker'[h] = worker[h]
  BY <1>1, <1>3, MovesOn
<1>5. Quiet(g)' /\ Unasked(g)' /\ HasWaiter(g)' /\ Creating(g)' /\ Preparing(g)' /\ Running(g)' /\ Listening(g)'
  BY <1>1, <1>2, <1>4 DEF WorkerInv, Quiet, Unasked, HasWaiter, Creating, Preparing, Running,
     Listening, Prepared, Waiting, Active
<1>6. \A n : Reported(g, n)' <=> Reported(g, n)  BY <1>2, <1>4 DEF Reported
<1>7. PackagesQueued(g)' /\ EndQueued(g)'
  BY <1>2, <1>6 DEF WorkerInv, PackagesQueued, EndQueued
<1>8. InTime(g)'  BY <1>1, <1>2, <1>4, <1>6 DEF WorkerInv, InTime, Waiting
<1>9. Noticed(g)'
  BY <1>1, <1>2, <1>4 DEF WorkerInv, Noticed, Waiting, Running, Active, Prepared
<1>10. \A h \in Checks \ {g} : Same(h)  BY <1>2, <1>4 DEF Same
<1> QED  BY <1>5, <1>7, <1>8, <1>9, <1>10 DEF WorkerInv

LEMMA InvokeKeeps ==
    ASSUME TypeInv, NEW g \in Checks, WorkerInv(g), Invoke(g)
    PROVE  WorkerInv(g)' /\ \A h \in Checks \ {g} : Same(h)
<1>1. worker' = [worker EXCEPT ![g].stage = "waiting"] /\ worker[g].stage = "invoke"
  BY NextStage DEF Invoke, Proceed, At
<1>2. /\ wire' = wire /\ watching' = watching /\ linked' = linked
      /\ process' = process /\ alive' = alive /\ tx' = [tx EXCEPT ![g].state = "running"]
  BY DEF Invoke
<1>3. "waiting" \in Stages  BY DEF Stages
<1>4. /\ worker'[g].stage = "waiting" /\ worker'[g].job = worker[g].job
      /\ worker'[g].owner = worker[g].owner /\ worker'[g].collected = worker[g].collected
      /\ worker'[g].exit = worker[g].exit /\ worker'[g].error = worker[g].error
      /\ \A h \in Checks \ {g} : worker'[h] = worker[h]
  BY <1>1, <1>3, MovesOn
<1>t. /\ tx'[g].state = "running" /\ tx'[g].job = tx[g].job /\ tx'[g].by = tx[g].by
      /\ tx'[g].emitted = tx[g].emitted /\ \A h \in Checks \ {g} : tx'[h] = tx[h]
  BY <1>2 DEF TypeInv, TxType
<1>p. /\ tx[g].state = "created" /\ tx[g].emitted = {} /\ tx[g].job = worker[g].job
      /\ worker[g].exit = "none"
  BY <1>1 DEF WorkerInv, Preparing, Running, Prepared, Active
<1>5. Quiet(g)' /\ Unasked(g)' /\ HasWaiter(g)' /\ Creating(g)' /\ Preparing(g)' /\ Running(g)' /\ Listening(g)'
  BY <1>1, <1>2, <1>4, <1>t, <1>p DEF WorkerInv, Quiet, Unasked, HasWaiter, Creating, Preparing, Running,
     Listening, Prepared, Waiting, Active
<1>6. \A n : Reported(g, n)'  BY <1>t, <1>p DEF Reported
<1>e. ASSUME NEW i \in 1..Len(wire[g]), wire[g][i].kind = "finished"
      PROVE  wire[g][i].job # tx[g].job
  <2>1. wire[g][i] \in Signals  BY DEF TypeInv
  <2>2. wire[g][i].exit \in Exits  BY <1>e, <2>1 DEF Signals
  <2>3. wire[g][i].job = tx[g].job => tx[g].state = wire[g][i].exit
    BY <1>e DEF WorkerInv, EndQueued
  <2> QED  BY <2>2, <2>3, <1>p DEF Exits
<1>7. PackagesQueued(g)'  BY <1>2, <1>t DEF WorkerInv, PackagesQueued
<1>f. EndQueued(g)'  BY <1>2, <1>t, <1>6, <1>e DEF WorkerInv, EndQueued
<1>8. InTime(g)'  BY <1>6 DEF InTime
<1>9. Noticed(g)'
  BY <1>1, <1>2, <1>4, <1>t DEF WorkerInv, Noticed, Waiting
<1>10. \A h \in Checks \ {g} : Same(h)  BY <1>2, <1>4, <1>t DEF Same
<1> QED  BY <1>5, <1>7, <1>f, <1>8, <1>9, <1>10 DEF WorkerInv

LEMMA CreateKeeps ==
    ASSUME TypeInv, TypeInv', NEW g \in Checks, WorkerInv(g), CreateTransaction(g)
    PROVE  /\ WorkerInv(g)' /\ \A h \in Checks \ {g} : Same(h)
           /\ (process' = process /\ alive' = alive) \/ ~alive
<1> DEFINE v == Owned(worker[g], "subscribe", process')
<1>1. worker' = [worker EXCEPT ![g] = v] /\ worker[g].stage = "create"
  BY NextStage DEF CreateTransaction, Owned, At
<1>2. /\ tx' = [tx EXCEPT ![g] = [by |-> process', job |-> worker[g].job, emitted |-> {},
                                 state |-> "created"]]
      /\ linked' = [linked EXCEPT ![g] = TRUE]
      /\ wire' = [wire EXCEPT ![g] = IF linked[g] THEN wire[g] ELSE <<>>]
      /\ watching' = watching
      /\ (process' = process /\ alive' = alive) \/ ~alive
  BY DEF CreateTransaction
<1>3. /\ v.stage = "subscribe" /\ v.owner = process' /\ v.job = worker[g].job
      /\ v.collected = worker[g].collected /\ v.exit = worker[g].exit
  BY OwnedTyped DEF TypeInv, Stages
<1> HIDE DEF v
<1>4. /\ worker'[g] = v /\ watching'[g] = watching[g] /\ linked'[g]
      /\ tx'[g].by = process' /\ tx'[g].job = worker[g].job /\ tx'[g].emitted = {}
      /\ tx'[g].state = "created"
      /\ wire'[g] = <<>> \/ wire'[g] = wire[g]
      /\ \A h \in Checks \ {g} : /\ worker'[h] = worker[h] /\ wire'[h] = wire[h]
                                 /\ linked'[h] = linked[h] /\ tx'[h] = tx[h]
  BY <1>1, <1>2 DEF TypeInv
<1>c. /\ ~watching[g] /\ tx[g].job = "refresh" /\ worker[g].collected = {}
      /\ worker[g].exit = "none"
      /\ worker[g].job = "refresh" => wire[g] = <<>>
  BY <1>1 DEF WorkerInv, Creating
<1>5. Quiet(g)' /\ Unasked(g)' /\ HasWaiter(g)' /\ Creating(g)' /\ Preparing(g)' /\ Running(g)' /\ Listening(g)'
  BY <1>3, <1>4, <1>c DEF Quiet, Unasked, HasWaiter, Creating, Preparing, Running,
     Listening, Prepared, Waiting, Active
<1>6. InTime(g)' /\ Noticed(g)'  BY <1>3, <1>4 DEF InTime, Noticed, Waiting
<1>7. CASE wire'[g] = <<>>
  <2>1. Len(wire'[g]) = 0  BY <1>7
  <2> QED  BY <2>1, <1>2, <1>4, <1>5, <1>6 DEF WorkerInv, PackagesQueued, EndQueued, Same
<1>8. CASE wire'[g] = wire[g] /\ wire[g] # <<>>
  <2>1. worker[g].job # "refresh"  BY <1>8, <1>c
  <2>2. \A i \in 1..Len(wire[g]) : wire[g][i].kind # "package"
    BY <1>c DEF WorkerInv, PackagesQueued
  <2>3. \A i \in 1..Len(wire[g]) : wire[g][i].kind = "finished" => wire[g][i].job # "updates"
    BY <1>c DEF WorkerInv, EndQueued
  <2>4. worker[g].job = "updates"  BY <2>1 DEF TypeInv, WorkerType, Jobs
  <2>5. PackagesQueued(g)' /\ EndQueued(g)'
    BY <1>4, <1>8, <2>2, <2>3, <2>4 DEF PackagesQueued, EndQueued
  <2> QED  BY <1>2, <1>4, <1>5, <1>6, <2>5 DEF WorkerInv, Same
<1> QED  BY <1>4, <1>7, <1>8

LEMMA RenewKeeps ==
    ASSUME TypeInv, NEW g \in Checks, WorkerInv(g), worker[g].stage = "waiting",
           worker[g].exit = "success", worker[g].job = "refresh",
           worker' = [worker EXCEPT ![g] = NewWorker("updates")],
           watching' = [watching EXCEPT ![g] = FALSE], UNCHANGED <<linked, wire, tx>>
    PROVE  WorkerInv(g)' /\ \A h \in Checks \ {g} : Same(h)
<1>1. /\ worker'[g] = NewWorker("updates") /\ ~watching'[g]
      /\ \A h \in Checks \ {g} : Same(h)
  BY DEF TypeInv, Same
<1>2. /\ worker'[g].stage = "create" /\ worker'[g].job = "updates"
      /\ worker'[g].collected = {} /\ worker'[g].exit = "none"
  BY <1>1 DEF NewWorker
<1>3. tx[g].job = "refresh" /\ tx[g].state = "success"
  BY DEF WorkerInv, Running, Active, Waiting
<1>4. Quiet(g)' /\ Unasked(g)' /\ HasWaiter(g)' /\ Creating(g)' /\ Preparing(g)' /\ Running(g)' /\ Listening(g)'
      /\ InTime(g)' /\ Noticed(g)'
  BY <1>1, <1>2, <1>3 DEF Quiet, Unasked, HasWaiter, Creating, Preparing, Running,
     Listening, Prepared, Waiting, Active, InTime, Noticed
<1>5. PackagesQueued(g)'  BY DEF WorkerInv, PackagesQueued
<1>6. EndQueued(g)'  BY <1>3 DEF WorkerInv, EndQueued
<1> QED  BY <1>1, <1>4, <1>5, <1>6 DEF WorkerInv

LEMMA DropKeeps ==
    ASSUME TypeInv, NEW g \in Checks, WorkerInv(g), ConnectionDrops(g)
    PROVE  WorkerInv(g)' /\ \A h \in Checks \ {g} : Same(h)
<1>1. /\ linked' = [linked EXCEPT ![g] = FALSE]
      /\ UNCHANGED <<worker, wire, watching, tx, process, alive>>
  BY DEF ConnectionDrops, service
<1>2. ~linked'[g] /\ \A h \in Checks \ {g} : Same(h)  BY <1>1 DEF TypeInv, Same
<1>3. \A n : Reported(g, n)' <=> Reported(g, n)  BY <1>1 DEF Reported
<1>4. Quiet(g)' /\ Unasked(g)' /\ HasWaiter(g)' /\ Creating(g)' /\ Preparing(g)' /\ Running(g)' /\ Listening(g)'
      /\ InTime(g)' /\ Noticed(g)' /\ PackagesQueued(g)' /\ EndQueued(g)'
  BY <1>1, <1>2, <1>3 DEF WorkerInv, Quiet, Unasked, HasWaiter, Creating, Preparing, Running,
     Listening, InTime, Noticed, PackagesQueued, EndQueued
<1> QED  BY <1>2, <1>4 DEF WorkerInv

(* One signal is taken: what was before the n-th is before the (n-1)-th now, *)
(* or has just been collected.                                              *)
LEMMA DeliverKeeps ==
    ASSUME TypeInv, NEW g \in Checks, WorkerInv(g), Deliver(g)
    PROVE  WorkerInv(g)' /\ \A h \in Checks \ {g} : Same(h)
<1> DEFINE m == Head(wire[g])
           ours == m.kind # "lost" /\ m.job = worker[g].job
           c == IF ours /\ m.kind = "package" THEN worker[g].collected \cup {m.package}
                ELSE worker[g].collected
           x == IF ours /\ m.kind = "finished" THEN m.exit ELSE worker[g].exit
           e == \/ worker[g].error
                \/ ours /\ m.kind = "error"
                \/ m.kind = "lost" /\ m.owner = worker[g].owner
           v == Told(worker[g], c, x, e)
<1>1. /\ worker' = [worker EXCEPT ![g] = v] /\ worker[g].stage = "dispatching"
      /\ wire' = [wire EXCEPT ![g] = Tail(wire[g])] /\ wire[g] # <<>>
      /\ UNCHANGED <<watching, linked, tx, process, alive>>
  BY DEF Deliver, Told, At, service
<1>2. /\ m = wire[g][1] /\ m \in Signals /\ Len(wire[g]) \in Nat /\ Len(wire[g]) >= 1
      /\ Len(Tail(wire[g])) = Len(wire[g]) - 1
      /\ \A i \in 1..Len(Tail(wire[g])) : Tail(wire[g])[i] = wire[g][i + 1]
  BY <1>1, Tails DEF TypeInv
<1>3. /\ m.kind = "package" => m.package \in Packages
      /\ m.kind = "finished" => m.exit \in Exits
  BY <1>2 DEF Signals
<1>4. worker[g] \in WorkerType  BY DEF TypeInv
<1>5. c \in SUBSET Packages /\ x \in {"none"} \cup Exits /\ e \in BOOLEAN
  BY <1>3, <1>4 DEF WorkerType
<1>6. /\ v.stage = "dispatching" /\ v.owner = worker[g].owner /\ v.job = worker[g].job
      /\ v.collected = c /\ v.exit = x /\ v.error = e
  <2> HIDE DEF c, x, e
  <2> QED  BY <1>1, <1>4, <1>5, ToldTyped
<1> HIDE DEF v
<1>7. /\ worker'[g] = v /\ wire'[g] = Tail(wire[g])
      /\ \A h \in Checks \ {g} : Same(h)
  BY <1>1 DEF TypeInv, Same
<1>8. tx[g].job = worker[g].job /\ tx[g].by = worker[g].owner
      /\ worker[g].collected \subseteq tx[g].emitted /\ watching[g]
  BY <1>1 DEF WorkerInv, Running, Listening, Active, Waiting
<1>p. m.kind = "package" => /\ m.job = "updates" /\ tx[g].job = "updates"
                            /\ m.package \in tx[g].emitted
  BY <1>2 DEF WorkerInv, PackagesQueued
<1>f. m.kind = "finished" => /\ m.job = tx[g].job => tx[g].state = m.exit
                             /\ m.job = "updates" => tx[g].job = "updates" /\ Reported(g, 1)
  BY <1>2 DEF WorkerInv, EndQueued
<1>r. Reported(g, 1) => tx[g].emitted \subseteq worker[g].collected  BY DEF Reported
<1>9. ASSUME NEW n \in 1..Len(wire[g]), Reported(g, n + 1) PROVE Reported(g, n)'
  <2> SUFFICES ASSUME NEW p \in tx[g].emitted, p \notin worker'[g].collected
               PROVE  \E k \in 1..(n - 1) : k <= Len(wire'[g]) /\ wire'[g][k] = Package("updates", p)
    BY <1>1, <1>7 DEF Reported
  <2>1. p \notin worker[g].collected  BY <1>6, <1>7
  <2>2. PICK k \in 1..n : k <= Len(wire[g]) /\ wire[g][k] = Package("updates", p)
    BY <2>1, <1>9 DEF Reported
  <2>3. k # 1
    <3> SUFFICES ASSUME k = 1 PROVE FALSE  OBVIOUS
    <3>1. m.kind = "package" /\ m.job = "updates" /\ m.package = p
      BY <2>2, <1>2 DEF Package
    <3>2. ours  BY <3>1, <1>p, <1>8
    <3>3. p \in c  BY <3>1, <3>2
    <3> QED  BY <3>3, <1>6, <1>7
  <2>4. k - 1 \in 1..(n - 1) /\ k - 1 <= Len(wire'[g])
    BY <2>2, <2>3, <1>2, <1>7
  <2>5. wire'[g][k - 1] = Package("updates", p)
    BY <2>2, <2>4, <1>2, <1>7
  <2> QED  BY <2>4, <2>5
<1>10. PackagesQueued(g)'
  <2> SUFFICES ASSUME NEW i \in 1..Len(wire'[g]), wire'[g][i].kind = "package"
               PROVE  /\ wire'[g][i].job = "updates" /\ tx[g].job = "updates"
                      /\ wire'[g][i].package \in tx[g].emitted
    BY <1>1 DEF PackagesQueued
  <2>1. i + 1 \in 1..Len(wire[g]) /\ wire'[g][i] = wire[g][i + 1]  BY <1>2, <1>7
  <2> QED  BY <2>1 DEF WorkerInv, PackagesQueued
<1>11. EndQueued(g)'
  <2> SUFFICES ASSUME NEW i \in 1..Len(wire'[g]), wire'[g][i].kind = "finished"
               PROVE  /\ wire'[g][i].job = tx[g].job => tx[g].state = wire'[g][i].exit
                      /\ wire'[g][i].job = "updates" => tx[g].job = "updates" /\ Reported(g, i)'
    BY <1>1 DEF EndQueued
  <2>1. i \in 1..Len(wire[g]) /\ i + 1 \in 1..Len(wire[g]) /\ wire'[g][i] = wire[g][i + 1]
    BY <1>2, <1>7
  <2> QED  BY <2>1, <1>9 DEF WorkerInv, EndQueued
<1>12. InTime(g)'
  <2>1. Len(wire'[g]) + 1 = Len(wire[g]) /\ Len(wire[g]) \in 1..Len(wire[g])  BY <1>2, <1>7
  <2>2. linked[g] => Reported(g, Len(wire[g]) + 1)
    BY <1>1 DEF WorkerInv, InTime, Waiting
  <2> QED  BY <2>1, <2>2, <1>1, <1>9 DEF InTime
<1>13. Noticed(g)'
  <2> SUFFICES ASSUME linked[g], ~(alive /\ process = worker[g].owner), ~e
               PROVE  \E i \in 1..Len(wire'[g]) : wire'[g][i] = OwnerLost(worker[g].owner)
    BY <1>1, <1>6, <1>7 DEF Noticed
  <2>1. PICK i \in 1..Len(wire[g]) : wire[g][i] = OwnerLost(worker[g].owner)
    BY <1>1 DEF WorkerInv, Noticed, Waiting
  <2>2. i # 1
    <3> SUFFICES ASSUME i = 1 PROVE FALSE  OBVIOUS
    <3>1. m.kind = "lost" /\ m.owner = worker[g].owner  BY <2>1, <1>2 DEF OwnerLost
    <3> QED  BY <3>1
  <2>3. i - 1 \in 1..Len(wire'[g]) /\ wire'[g][i - 1] = wire[g][i]
    BY <2>1, <2>2, <1>2, <1>7, SMTT(60)
  <2> QED  BY <2>1, <2>3
<1>14. Running(g)'
  <2>1. c \subseteq tx[g].emitted  BY <1>8, <1>p
  <2>2. x # "none" => /\ tx[g].state = x
                      /\ worker[g].job = "updates" => tx[g].emitted \subseteq c
    <3>1. CASE ours /\ m.kind = "finished"
      BY <3>1, <1>8, <1>f, <1>r
    <3>2. CASE ~(ours /\ m.kind = "finished")
      BY <3>2, <1>1 DEF WorkerInv, Running, Active, Waiting
    <3> QED  BY <3>1, <3>2
  <2> QED  BY <2>1, <2>2, <1>1, <1>6, <1>7, <1>8 DEF Running
<1>15. Quiet(g)' /\ Unasked(g)' /\ HasWaiter(g)' /\ Creating(g)' /\ Preparing(g)' /\ Listening(g)'
  BY <1>1, <1>6, <1>7, <1>8 DEF Quiet, Unasked, HasWaiter, Creating, Preparing, Listening, Prepared, Waiting
<1> QED  BY <1>7, <1>10, <1>11, <1>12, <1>13, <1>14, <1>15, SMTT(60) DEF WorkerInv

(* Signals are appended: what was queued, and what was before it, stays.    *)
LEMMA SentAppends ==
    ASSUME TypeInv, NEW g \in Checks, NEW t \in Seq(Signals), Sent(g, t)
    PROVE  /\ wire'[g] = wire[g] \/ wire'[g] = wire[g] \o t
           /\ watching[g] /\ linked[g] =>
                 wire'[g] = wire[g] \o t /\ Len(wire'[g]) = Len(wire[g]) + Len(t)
           /\ \A h \in Checks \ {g} : wire'[h] = wire[h]
           /\ Len(wire[g]) \in Nat /\ Len(wire[g]) <= Len(wire'[g])
           /\ Len(wire'[g]) \in Nat /\ Len(wire'[g]) <= Len(wire[g]) + Len(t)
           /\ \A i \in 1..Len(wire[g]) : wire'[g][i] = wire[g][i]
           /\ \A i \in 1..Len(wire'[g]) : i <= Len(wire[g]) \/ wire'[g][i] = t[i - Len(wire[g])]
<1>1. wire[g] \in Seq(Signals)  BY DEF TypeInv
<1>2. wire' = [wire EXCEPT ![g] = IF watching[g] /\ linked[g] THEN wire[g] \o t ELSE wire[g]]
  BY DEF Sent
<1>3. wire'[g] = IF watching[g] /\ linked[g] THEN wire[g] \o t ELSE wire[g]
  BY <1>2 DEF TypeInv
<1>4. \A h \in Checks \ {g} : wire'[h] = wire[h]  BY <1>2 DEF TypeInv
<1>5. /\ Len(wire[g] \o t) = Len(wire[g]) + Len(t) /\ Len(wire[g]) \in Nat /\ Len(t) \in Nat
      /\ \A i \in 1..Len(wire[g]) : (wire[g] \o t)[i] = wire[g][i]
      /\ \A i \in 1..Len(t) : (wire[g] \o t)[Len(wire[g]) + i] = t[i]
  BY <1>1, Joined
<1>6. ASSUME wire'[g] = wire[g] \o t, NEW i \in 1..Len(wire'[g]), ~(i <= Len(wire[g]))
      PROVE  wire'[g][i] = t[i - Len(wire[g])]
  <2>1. i - Len(wire[g]) \in 1..Len(t) /\ i = Len(wire[g]) + (i - Len(wire[g]))
    BY <1>5, <1>6
  <2> QED  BY <1>5, <1>6, <2>1
<1>7. CASE wire'[g] = wire[g]
  <2>1. watching[g] /\ linked[g] =>
           wire'[g] = wire[g] \o t /\ Len(wire'[g]) = Len(wire[g]) + Len(t)
    BY <1>3, <1>5
  <2>2. Len(wire'[g]) = Len(wire[g]) /\ Len(wire'[g]) <= Len(wire[g]) + Len(t)
    BY <1>5, <1>7
  <2> QED  BY <2>1, <2>2, <1>7, <1>4, <1>5
<1>8. CASE wire'[g] = wire[g] \o t
  BY <1>8, <1>3, <1>4, <1>5, <1>6
<1> QED  BY <1>3, <1>7, <1>8

LEMMA EmitKeeps ==
    ASSUME TypeInv, NEW g \in Checks, NEW p \in Packages, WorkerInv(g), EmitPackage(g, p)
    PROVE  WorkerInv(g)' /\ (\A h \in Checks \ {g} : Same(h)) /\ worker[g].stage \in Waiting
<1> DEFINE t == <<Package("updates", p)>>
<1>1. /\ tx' = [tx EXCEPT ![g].emitted = tx[g].emitted \cup {p}]
      /\ tx[g].job = "updates" /\ tx[g].state = "running" /\ Sent(g, t)
      /\ UNCHANGED <<worker, watching, linked, process, alive>>
  BY DEF EmitPackage, Working
<1>2. t \in Seq(Signals) /\ Len(t) = 1 /\ t[1] = Package("updates", p)  BY SignalsTyped
<1>3. /\ tx'[g].state = "running" /\ tx'[g].job = "updates" /\ tx'[g].by = tx[g].by
      /\ tx'[g].emitted = tx[g].emitted \cup {p}
      /\ \A h \in Checks \ {g} : tx'[h] = tx[h]
  BY <1>1 DEF TypeInv, TxType
<1> HIDE DEF t
<1>4. /\ wire'[g] = wire[g] \/ wire'[g] = wire[g] \o t
      /\ watching[g] /\ linked[g] => Len(wire'[g]) = Len(wire[g]) + 1
      /\ \A h \in Checks \ {g} : wire'[h] = wire[h]
      /\ Len(wire[g]) \in Nat /\ Len(wire[g]) <= Len(wire'[g]) /\ Len(wire'[g]) \in Nat
      /\ Len(wire'[g]) <= Len(wire[g]) + 1
      /\ \A i \in 1..Len(wire[g]) : wire'[g][i] = wire[g][i]
      /\ \A i \in 1..Len(wire'[g]) : i <= Len(wire[g]) \/ wire'[g][i] = t[i - Len(wire[g])]
  BY <1>1, <1>2, SentAppends, ZenonT(60)
<1>5. /\ worker[g].stage \in Waiting /\ tx[g].by = worker[g].owner /\ worker[g].job = "updates"
      /\ worker[g].collected \subseteq tx[g].emitted /\ watching[g]
      /\ worker[g].exit = "none"
  <2>1. worker[g].stage \in Waiting  BY <1>1 DEF WorkerInv, HasWaiter
  <2>2. worker[g].exit \in {"none"} \cup Exits  BY DEF TypeInv, WorkerType
  <2> QED  BY <1>1, <2>1, <2>2 DEF WorkerInv, Running, Listening, Active, Waiting, Exits
<1>6. \A i \in 1..Len(wire'[g]) : i <= Len(wire[g]) \/ wire'[g][i] = Package("updates", p)
  <2> SUFFICES ASSUME NEW i \in 1..Len(wire'[g]), ~(i <= Len(wire[g]))
               PROVE  wire'[g][i] = Package("updates", p)
    OBVIOUS
  <2>1. i - Len(wire[g]) = 1  BY <1>4
  <2> QED  BY <1>2, <1>4, <2>1
<1>7. \A i \in 1..Len(wire'[g]) : wire'[g][i].kind = "finished" => wire'[g][i].job # "updates"
  <2> SUFFICES ASSUME NEW i \in 1..Len(wire'[g]), wire'[g][i].kind = "finished",
                      wire'[g][i].job = "updates"
               PROVE  FALSE
    OBVIOUS
  <2>1. i \in 1..Len(wire[g]) /\ wire'[g][i] = wire[g][i]
    BY <1>4, <1>6 DEF Package
  <2>2. wire[g][i] \in Signals  BY <2>1 DEF TypeInv
  <2>3. wire[g][i].exit \in Exits  BY <2>1, <2>2 DEF Signals
  <2>4. tx[g].state = wire[g][i].exit  BY <1>1, <2>1 DEF WorkerInv, EndQueued
  <2> QED  BY <1>1, <2>3, <2>4 DEF Exits
<1>8. EndQueued(g)'  BY <1>3, <1>7 DEF EndQueued
<1>9. PackagesQueued(g)'
  <2> SUFFICES ASSUME NEW i \in 1..Len(wire'[g]), wire'[g][i].kind = "package"
               PROVE  wire'[g][i].job = "updates" /\ wire'[g][i].package \in tx'[g].emitted
    BY <1>3 DEF PackagesQueued
  <2>1. CASE i <= Len(wire[g])
    <3>1. i \in 1..Len(wire[g]) /\ wire'[g][i] = wire[g][i]  BY <1>4, <2>1
    <3> QED  BY <3>1, <1>3 DEF WorkerInv, PackagesQueued
  <2>2. CASE wire'[g][i] = Package("updates", p)  BY <2>2, <1>3 DEF Package
  <2> QED  BY <1>6, <2>1, <2>2
<1>10. InTime(g)'
  <2> SUFFICES ASSUME linked[g], NEW q \in tx'[g].emitted, q \notin worker[g].collected
               PROVE  \E k \in 1..Len(wire'[g]) : wire'[g][k] = Package("updates", q)
    BY <1>1, <1>4 DEF InTime, Reported
  <2>1. CASE q = p
    <3>2. Len(wire'[g]) = Len(wire[g]) + 1  BY <1>4, <1>5
    <3>3. wire'[g][Len(wire'[g])] = Package("updates", p)  BY <3>2, <1>4, <1>6, SMTT(60)
    <3>4. Len(wire'[g]) \in 1..Len(wire'[g])  BY <3>2, <1>4
    <3> QED  BY <2>1, <3>3, <3>4
  <2>2. CASE q \in tx[g].emitted
    <3>1. Reported(g, Len(wire[g]) + 1)  BY <1>5 DEF WorkerInv, InTime
    <3>2. PICK k \in 1..Len(wire[g]) : wire[g][k] = Package("updates", q)
      BY <2>2, <3>1, <1>4 DEF Reported
    <3> QED  BY <3>2, <1>4
  <2> QED  BY <1>3, <2>1, <2>2
<1>11. Noticed(g)'
  <2> SUFFICES ASSUME linked[g], ~(alive /\ process = worker[g].owner), ~worker[g].error
               PROVE  \E i \in 1..Len(wire'[g]) : wire'[g][i] = OwnerLost(worker[g].owner)
    BY <1>1 DEF Noticed
  <2>1. PICK i \in 1..Len(wire[g]) : wire[g][i] = OwnerLost(worker[g].owner)
    BY <1>5 DEF WorkerInv, Noticed
  <2> QED  BY <2>1, <1>4
<1>12. Quiet(g)' /\ Unasked(g)' /\ HasWaiter(g)' /\ Creating(g)' /\ Preparing(g)' /\ Running(g)' /\ Listening(g)'
  BY <1>1, <1>3, <1>5 DEF Quiet, Unasked, HasWaiter, Creating, Preparing, Running, Listening, Prepared, Waiting
<1>13. \A h \in Checks \ {g} : Same(h)  BY <1>1, <1>3, <1>4 DEF Same
<1> QED  BY <1>5, <1>8, <1>9, <1>10, <1>11, <1>12, <1>13 DEF WorkerInv

LEMMA EndKeeps ==
    ASSUME TypeInv, NEW g \in Checks, NEW exit \in Exits, WorkerInv(g), EndTransaction(g, exit)
    PROVE  WorkerInv(g)' /\ (\A h \in Checks \ {g} : Same(h)) /\ worker[g].stage \in Waiting
<1> DEFINE f == Finished(tx[g].job, exit)
           t == IF exit = "success" THEN <<f>> ELSE <<ErrorCode(tx[g].job), f>>
<1>1. /\ tx' = [tx EXCEPT ![g].state = exit] /\ tx[g].state = "running" /\ Sent(g, t)
      /\ UNCHANGED <<worker, watching, linked, process, alive>>
  BY DEF EndTransaction, Working
<1>2. f \in Signals /\ ErrorCode(tx[g].job) \in Signals
  BY SignalsTyped DEF TypeInv, TxType
<1>t. /\ t \in Seq(Signals) /\ Len(t) \in 1..2 /\ t[Len(t)] = f
      /\ \A i \in 1..Len(t) : t[i] = f \/ t[i].kind = "error"
  <2>1. CASE exit = "success"  BY <1>2, <2>1
  <2>2. CASE exit # "success"
    <3>1. t = <<ErrorCode(tx[g].job), f>>  BY <2>2
    <3>2. ErrorCode(tx[g].job).kind = "error"  BY DEF ErrorCode
    <3> HIDE DEF f
    <3> QED  BY <1>2, <3>1, <3>2
  <2> QED  BY <2>1, <2>2
<1>3. /\ tx'[g].state = exit /\ tx'[g].job = tx[g].job /\ tx'[g].by = tx[g].by
      /\ tx'[g].emitted = tx[g].emitted
      /\ \A h \in Checks \ {g} : tx'[h] = tx[h]
  BY <1>1 DEF TypeInv, TxType
<1>k. f.kind = "finished" /\ f.job = tx[g].job /\ f.exit = exit  BY DEF Finished
<1> HIDE DEF f, t
<1>4. /\ \A h \in Checks \ {g} : wire'[h] = wire[h]
      /\ Len(wire[g]) \in Nat /\ Len(wire[g]) <= Len(wire'[g]) /\ Len(wire'[g]) \in Nat
      /\ Len(wire'[g]) <= Len(wire[g]) + Len(t)
      /\ \A i \in 1..Len(wire[g]) : wire'[g][i] = wire[g][i]
      /\ \A i \in 1..Len(wire'[g]) : i <= Len(wire[g]) \/ wire'[g][i] = t[i - Len(wire[g])]
  BY <1>1, <1>t, SentAppends
<1>l. wire'[g] # wire[g] => watching[g] /\ linked[g]
  BY <1>1 DEF Sent, TypeInv
<1>5. /\ worker[g].stage \in Waiting /\ tx[g].by = worker[g].owner /\ tx[g].job = worker[g].job
      /\ worker[g].collected \subseteq tx[g].emitted /\ watching[g]
      /\ worker[g].exit = "none"
  <2>1. worker[g].stage \in Waiting  BY <1>1 DEF WorkerInv, HasWaiter
  <2>2. worker[g].exit \in {"none"} \cup Exits  BY DEF TypeInv, WorkerType
  <2> QED  BY <1>1, <2>1, <2>2 DEF WorkerInv, Running, Listening, Active, Waiting, Exits
<1>6. \A i \in 1..Len(wire'[g]) :
         i <= Len(wire[g]) \/ wire'[g][i] = f \/ wire'[g][i].kind = "error"
  <2> SUFFICES ASSUME NEW i \in 1..Len(wire'[g]), ~(i <= Len(wire[g]))
               PROVE  wire'[g][i] = f \/ wire'[g][i].kind = "error"
    OBVIOUS
  <2>1. i - Len(wire[g]) \in 1..Len(t)  BY <1>4, <1>t
  <2> QED  BY <1>t, <1>4, <2>1
<1>r. ASSUME NEW n \in Nat, n <= Len(wire[g]) + 1, Reported(g, n), NEW i \in Nat, n <= i
      PROVE  Reported(g, i)'
  <2> SUFFICES ASSUME NEW q \in tx[g].emitted, q \notin worker[g].collected
               PROVE  \E k \in 1..(i - 1) : k <= Len(wire'[g]) /\ wire'[g][k] = Package("updates", q)
    BY <1>1, <1>3 DEF Reported
  <2>1. PICK k \in 1..(n - 1) : k <= Len(wire[g]) /\ wire[g][k] = Package("updates", q)
    BY <1>r DEF Reported
  <2>2. k \in 1..(i - 1) /\ k <= Len(wire'[g]) /\ wire'[g][k] = wire[g][k]
    BY <1>r, <1>4, <2>1
  <2> QED  BY <2>1, <2>2
<1>8. EndQueued(g)'
  <2> SUFFICES ASSUME NEW i \in 1..Len(wire'[g]), wire'[g][i].kind = "finished"
               PROVE  /\ wire'[g][i].job = tx[g].job => exit = wire'[g][i].exit
                      /\ wire'[g][i].job = "updates" => tx[g].job = "updates" /\ Reported(g, i)'
    BY <1>3 DEF EndQueued
  <2>1. CASE i <= Len(wire[g])
    <3>1. i \in 1..Len(wire[g]) /\ wire'[g][i] = wire[g][i]  BY <1>4, <2>1
    <3>2. wire[g][i] \in Signals  BY <3>1 DEF TypeInv
    <3>3. wire[g][i].exit \in Exits  BY <3>1, <3>2 DEF Signals
    <3>4. /\ wire[g][i].job = tx[g].job => tx[g].state = wire[g][i].exit
          /\ wire[g][i].job = "updates" => tx[g].job = "updates"
      BY <3>1 DEF WorkerInv, EndQueued
    <3> QED  BY <1>1, <3>1, <3>3, <3>4 DEF Exits
  <2>2. CASE ~(i <= Len(wire[g]))
    <3>1. wire'[g][i] = f  BY <1>6, <2>2
    <3>2. linked[g]  BY <1>l, <1>4, <2>2
    <3>3. Reported(g, Len(wire[g]) + 1)  BY <3>2, <1>5 DEF WorkerInv, InTime
    <3>4. Reported(g, i)'  BY <3>3, <1>r, <1>4, <2>2, SMTT(60)
    <3> QED  BY <3>1, <3>4, <1>k
  <2> QED  BY <2>1, <2>2
<1>9. PackagesQueued(g)'
  <2> SUFFICES ASSUME NEW i \in 1..Len(wire'[g]), wire'[g][i].kind = "package"
               PROVE  /\ wire'[g][i].job = "updates" /\ tx[g].job = "updates"
                      /\ wire'[g][i].package \in tx[g].emitted
    BY <1>3 DEF PackagesQueued
  <2>1. i \in 1..Len(wire[g]) /\ wire'[g][i] = wire[g][i]  BY <1>4, <1>6, <1>k
  <2> QED  BY <2>1 DEF WorkerInv, PackagesQueued
<1>10. InTime(g)'
  <2> SUFFICES ASSUME linked[g], NEW j \in Nat, j = Len(wire'[g]) + 1 PROVE Reported(g, j)'
    BY <1>1, <1>4 DEF InTime, Reported
  <2>1. Reported(g, Len(wire[g]) + 1)  BY <1>5 DEF WorkerInv, InTime
  <2>2. Len(wire[g]) + 1 \in Nat /\ Len(wire[g]) + 1 <= j  BY <1>4
  <2> QED  BY <2>1, <2>2, <1>r
<1>11. Noticed(g)'
  <2> SUFFICES ASSUME linked[g], ~(alive /\ process = worker[g].owner), ~worker[g].error
               PROVE  \E i \in 1..Len(wire'[g]) : wire'[g][i] = OwnerLost(worker[g].owner)
    BY <1>1 DEF Noticed
  <2>1. PICK i \in 1..Len(wire[g]) : wire[g][i] = OwnerLost(worker[g].owner)
    BY <1>5 DEF WorkerInv, Noticed
  <2> QED  BY <2>1, <1>4
<1>12. Quiet(g)' /\ Unasked(g)' /\ HasWaiter(g)' /\ Creating(g)' /\ Preparing(g)' /\ Running(g)' /\ Listening(g)'
  BY <1>1, <1>3, <1>5 DEF Quiet, Unasked, HasWaiter, Creating, Preparing, Running, Listening, Prepared,
     Waiting, Exits
<1>13. \A h \in Checks \ {g} : Same(h)  BY <1>1, <1>3, <1>4 DEF Same
<1> QED  BY <1>5, <1>8, <1>9, <1>10, <1>11, <1>12, <1>13 DEF WorkerInv

(* The process ends: every worker that listens is told.                     *)
LEMMA StopsKeeps ==
    ASSUME TypeInv, NEW g \in Checks, WorkerInv(g), ProcessStops
    PROVE  WorkerInv(g)'
<1> DEFINE l == OwnerLost(process)
<1>1. /\ wire'[g] = IF watching[g] /\ linked[g] THEN Append(wire[g], l) ELSE wire[g]
      /\ alive /\ ~alive' /\ UNCHANGED <<worker, watching, linked, tx, process>>
  BY DEF ProcessStops
<1>2. l.kind = "lost" /\ l \in Signals  BY SignalsTyped DEF OwnerLost, TypeInv
<1> HIDE DEF l
<1>3. /\ Len(wire[g]) \in Nat /\ Len(wire'[g]) \in Nat /\ Len(wire[g]) <= Len(wire'[g])
      /\ \A i \in 1..Len(wire[g]) : wire'[g][i] = wire[g][i]
      /\ \A i \in 1..Len(wire'[g]) : i \in 1..Len(wire[g]) \/ wire'[g][i] = l
      /\ watching[g] /\ linked[g] =>
            Len(wire'[g]) \in 1..Len(wire'[g]) /\ wire'[g][Len(wire'[g])] = l
  BY <1>1, <1>2 DEF TypeInv
<1>r. ASSUME NEW n \in Nat, NEW m \in Nat, n <= m, Reported(g, n) PROVE Reported(g, m)'
  <2> SUFFICES ASSUME NEW p \in tx[g].emitted, p \notin worker[g].collected
               PROVE  \E k \in 1..(m - 1) : k <= Len(wire'[g]) /\ wire'[g][k] = Package("updates", p)
    BY <1>1 DEF Reported
  <2>1. PICK k \in 1..(n - 1) : k <= Len(wire[g]) /\ wire[g][k] = Package("updates", p)
    BY <1>r DEF Reported
  <2> QED  BY <1>3, <1>r, <2>1
<1>4. PackagesQueued(g)'
  BY <1>1, <1>2, <1>3 DEF WorkerInv, PackagesQueued
<1>5. EndQueued(g)'
  <2> SUFFICES ASSUME NEW i \in 1..Len(wire'[g]), wire'[g][i].kind = "finished"
               PROVE  /\ wire'[g][i].job = tx[g].job => tx[g].state = wire'[g][i].exit
                      /\ wire'[g][i].job = "updates" => tx[g].job = "updates" /\ Reported(g, i)'
    BY <1>1 DEF EndQueued
  <2>1. i \in 1..Len(wire[g]) /\ wire'[g][i] = wire[g][i]  BY <1>2, <1>3
  <2>2. Reported(g, i) => Reported(g, i)'  BY <1>r
  <2> QED  BY <2>1, <2>2 DEF WorkerInv, EndQueued
<1>6. InTime(g)'
  <2> SUFFICES ASSUME worker[g].stage \in Waiting, linked[g], NEW j \in Nat, j = Len(wire'[g]) + 1
               PROVE  Reported(g, j)'
    BY <1>1, <1>3 DEF InTime, Reported
  <2>1. Reported(g, Len(wire[g]) + 1)  BY DEF WorkerInv, InTime
  <2>2. Len(wire[g]) + 1 \in Nat /\ Len(wire[g]) + 1 <= j  BY <1>3
  <2> QED  BY <2>1, <2>2, <1>r
<1>7. Noticed(g)'
  <2> SUFFICES ASSUME worker[g].stage \in {"invoke"} \cup Waiting, linked[g], ~worker[g].error
               PROVE  \E i \in 1..Len(wire'[g]) : wire'[g][i] = OwnerLost(worker[g].owner)
    BY <1>1 DEF Noticed
  <2>1. watching[g]  BY DEF WorkerInv, Listening
  <2>2. CASE process = worker[g].owner  BY <1>3, <2>1, <2>2 DEF l
  <2>3. CASE process # worker[g].owner
    <3>1. PICK i \in 1..Len(wire[g]) : wire[g][i] = OwnerLost(worker[g].owner)
      BY <2>3 DEF WorkerInv, Noticed
    <3> QED  BY <3>1, <1>3
  <2> QED  BY <2>2, <2>3
<1>8. Quiet(g)' /\ Unasked(g)' /\ HasWaiter(g)' /\ Creating(g)' /\ Preparing(g)' /\ Running(g)' /\ Listening(g)'
  BY <1>1 DEF WorkerInv, Quiet, Unasked, HasWaiter, Creating, Preparing, Running, Listening,
     Prepared, Waiting, Active
<1> QED  BY <1>4, <1>5, <1>6, <1>7, <1>8 DEF WorkerInv

LEMMA StartKeeps ==
    ASSUME TypeInv, FutureInv, \A g \in Checks : WorkerInv(g), Start
    PROVE  /\ \A g \in Checks : WorkerInv(g)'
           /\ FutureInv'
           /\ \A g \in Checks : worker[g].stage # "none" => worker'[g] = worker[g]
           /\ tx' = tx
<1>0. generation + 1 \in Checks  BY CheckBounds DEF Start, Checks, TypeInv
<1> PICK n \in Checks : n = generation + 1  BY <1>0
<1>1. /\ n \in Checks /\ generation' = n
      /\ UNCHANGED <<wire, watching, linked, tx, process, alive>>
      /\ worker' = worker \/ worker' = [worker EXCEPT ![n] = NewWorker("refresh")]
  BY DEF Start, service
<1>2. worker[n].stage = "none"  BY <1>1 DEF FutureInv, TypeInv
<1>3. \A g \in Checks \ {n} : worker'[g] = worker[g]  BY <1>1 DEF TypeInv
<1>4. worker'[n] = worker[n] \/ worker'[n] = NewWorker("refresh")  BY <1>1 DEF TypeInv
<1>5. ASSUME NEW g \in Checks, worker'[g] = worker[g] PROVE WorkerInv(g)'
  BY <1>1, <1>5, SameKeeps DEF Same
<1>6. ASSUME worker'[n] = NewWorker("refresh") PROVE WorkerInv(n)'
  <2>1. /\ worker'[n].stage = "create" /\ worker'[n].collected = {} /\ worker'[n].exit = "none"
        /\ worker'[n].job = "refresh"
    BY <1>6 DEF NewWorker
  <2>2. wire[n] = <<>> /\ ~watching[n] /\ tx[n].state # "running" /\ tx[n].job = "refresh"
    BY <1>1, <1>2 DEF WorkerInv, Quiet, Unasked, HasWaiter, Waiting
  <2>3. Len(wire'[n]) = 0  BY <1>1, <2>2
  <2>4. /\ Quiet(n)' /\ Unasked(n)' /\ HasWaiter(n)' /\ Creating(n)' /\ Preparing(n)'
        /\ Running(n)' /\ Listening(n)' /\ InTime(n)' /\ Noticed(n)'
    BY <1>1, <2>1, <2>2 DEF Quiet, Unasked, HasWaiter, Creating, Preparing, Running,
       Listening, InTime, Noticed, Prepared, Waiting, Active
  <2>5. PackagesQueued(n)' /\ EndQueued(n)'  BY <2>3 DEF PackagesQueued, EndQueued
  <2> QED  BY <2>4, <2>5 DEF WorkerInv
<1>7. \A g \in Checks : WorkerInv(g)'  BY <1>3, <1>4, <1>5, <1>6
<1>8. FutureInv'  BY <1>1, <1>3 DEF FutureInv, TypeInv, Checks
<1> QED  BY <1>1, <1>2, <1>3, <1>7, <1>8

-----------------------------------------------------------------------------
(* A worker's step, and the verdict it may post.                            *)

(* What a worker that finishes posts: nothing, or all that was named.       *)
Honest(g, e) ==
    /\ e.generation = g
    /\ IF e.outcome = "succeeded" THEN Complete(g, e.reading)' ELSE e.reading = NoReading

LEMMA FailKeeps ==
    ASSUME TypeInv, NEW g \in Checks, Finish(g, "failed", NoReading)
    PROVE  /\ WorkerInv(g)' /\ \A h \in Checks \ {g} : Same(h)
           /\ \E e \in Posts : posted' = Append(posted, e) /\ Honest(g, e)
<1>1. [generation |-> g, outcome |-> "failed", reading |-> NoReading] \in Posts
  BY DEF Posts, Outcomes, Readings
<1> PICK e \in Posts : e = [generation |-> g, outcome |-> "failed", reading |-> NoReading]
  BY <1>1
<1>2. posted' = Append(posted, e) /\ Honest(g, e)  BY DEF Finish, Honest
<1> QED  BY <1>2, FinishKeeps

LEMMA ConcludeKeeps ==
    ASSUME TypeInv, NEW g \in Checks, WorkerInv(g), Conclude(g)
    PROVE  /\ WorkerInv(g)' /\ \A h \in Checks \ {g} : Same(h)
           /\ \/ posted' = posted
              \/ \E e \in Posts : posted' = Append(posted, e) /\ Honest(g, e)
<1>1. worker[g].stage = "waiting" /\ Settled(g)  BY DEF Conclude, At
<1>2. CASE Finish(g, "failed", NoReading)  BY <1>2, FailKeeps
<1>3. CASE /\ ~worker[g].error /\ worker[g].exit = "success" /\ worker[g].job # "refresh"
           /\ Finish(g, "succeeded", worker[g].collected)
  <2>1. worker[g].job = "updates" /\ worker[g].collected \in SUBSET Packages
    BY <1>3 DEF TypeInv, WorkerType, Jobs
  <2>2. /\ tx[g].job = "updates" /\ tx[g].state = "success"
        /\ worker[g].collected = tx[g].emitted
    BY <1>1, <1>3, <2>1 DEF WorkerInv, Running, Active, Waiting
  <2>3. [generation |-> g, outcome |-> "succeeded", reading |-> worker[g].collected] \in Posts
    BY <2>1 DEF Posts, Outcomes, Readings
  <2> PICK e \in Posts :
        e = [generation |-> g, outcome |-> "succeeded", reading |-> worker[g].collected]
    BY <2>3
  <2>4. /\ WorkerInv(g)' /\ \A h \in Checks \ {g} : Same(h)
        /\ worker'[g].stage = "done" /\ tx' = tx
    BY <1>3, <2>2, FinishKeeps
  <2>5. posted' = Append(posted, e)  BY <1>3 DEF Finish
  <2>6. e.generation = g /\ e.outcome = "succeeded" /\ e.reading = tx[g].emitted  BY <2>2
  <2>7. Honest(g, e)  BY <2>2, <2>4, <2>6 DEF Honest, Complete
  <2> QED  BY <2>4, <2>5, <2>7
<1>4. CASE /\ worker[g].exit = "success" /\ worker[g].job = "refresh"
           /\ worker' = [worker EXCEPT ![g] = NewWorker("updates")]
           /\ watching' = [watching EXCEPT ![g] = FALSE]
           /\ UNCHANGED <<linked, posted, wire, tx>>
  BY <1>1, <1>4, RenewKeeps
<1> QED  BY <1>2, <1>3, <1>4 DEF Conclude

LEMMA WorkerStepKeeps ==
    ASSUME TypeInv, NEW g \in Checks, \A h \in Checks : WorkerInv(h), WorkerStep(g)
    PROVE  /\ \A h \in Checks : WorkerInv(h)'
           /\ \A h \in Checks \ {g} : Same(h)
           /\ worker[g].stage \notin {"none", "done"}
           /\ \/ posted' = posted
              \/ \E e \in Posts : posted' = Append(posted, e) /\ Honest(g, e)
           /\ UNCHANGED gui
<1> DEFINE Kept == WorkerInv(g)' /\ \A h \in Checks \ {g} : Same(h)
           Tells == \/ posted' = posted
                    \/ \E e \in Posts : posted' = Append(posted, e) /\ Honest(g, e)
           Lives == (process' = process /\ alive' = alive) \/ ~alive
<1>0. TypeInv' /\ WorkerInv(g)  BY WorkerStepTyped
<1>f. ASSUME Finish(g, "failed", NoReading) PROVE Kept /\ Tells  BY <1>f, FailKeeps
<1>1. CASE CreateTransaction(g)
  <2>1. Kept /\ Lives  BY <1>0, <1>1, CreateKeeps
  <2> QED  BY <2>1, <1>1, SameKeeps DEF CreateTransaction, At
<1>2. Kept /\ Tells /\ UNCHANGED <<process, alive>> /\ worker[g].stage \notin {"none", "done"}
      /\ UNCHANGED gui
      => \A h \in Checks : WorkerInv(h)'
  BY SameKeeps
<1>3. CASE Subscribe(g)
  <2>1. Kept  BY <1>0, <1>3, SubscribeKeeps
  <2> QED  BY <2>1, <1>2, <1>3 DEF Subscribe, At, service
<1>4. CASE VerifyOwner(g)
  <2>1. Kept  BY <1>0, <1>4, VerifyOwnerKeeps
  <2> QED  BY <2>1, <1>2, <1>4 DEF VerifyOwner, At, service
<1>5. CASE Invoke(g)
  <2>1. Kept  BY <1>0, <1>5, InvokeKeeps
  <2> QED  BY <2>1, <1>2, <1>5 DEF Invoke, At
<1>6. CASE RequestFails(g)
  <2>1. Kept /\ Tells  BY <1>f, <1>6 DEF RequestFails
  <2>2. UNCHANGED <<process, alive>> /\ worker[g].stage \notin {"none", "done"} /\ UNCHANGED gui
    BY <1>6 DEF RequestFails
  <2> QED  BY <2>1, <2>2, <1>2
<1>7. CASE EnterDispatch(g)
  <2>1. Kept  BY <1>0, <1>7, EnterDispatchKeeps
  <2> QED  BY <2>1, <1>2, <1>7 DEF EnterDispatch, At, service
<1>8. CASE GiveUp(g)
  <2>1. Kept /\ Tells  BY <1>f, <1>8 DEF GiveUp
  <2>2. UNCHANGED <<process, alive>> /\ worker[g].stage \notin {"none", "done"} /\ UNCHANGED gui
    BY <1>8 DEF GiveUp, At
  <2> QED  BY <2>1, <2>2, <1>2
<1>9. CASE Deliver(g)
  <2>1. Kept  BY <1>0, <1>9, DeliverKeeps
  <2> QED  BY <2>1, <1>2, <1>9 DEF Deliver, At, service
<1>10. CASE DispatchReturns(g)
  <2>1. Kept  BY <1>0, <1>10, DispatchReturnsKeeps
  <2> QED  BY <2>1, <1>2, <1>10 DEF DispatchReturns, At, service
<1>11. CASE Conclude(g)
  <2>1. Kept /\ Tells  BY <1>0, <1>11, ConcludeKeeps
  <2>2. UNCHANGED <<process, alive>> /\ worker[g].stage \notin {"none", "done"} /\ UNCHANGED gui
    BY <1>11 DEF Conclude, At
  <2> QED  BY <2>1, <2>2, <1>2
<1> QED
  BY <1>1, <1>3, <1>4, <1>5, <1>6, <1>7, <1>8, <1>9, <1>10, <1>11 DEF WorkerStep

(* A worker that is done, and its transaction, change no more.              *)
DoneKept ==
    \A h \in Checks : worker[h].stage = "done" => worker'[h] = worker[h] /\ tx'[h] = tx[h]
NoneBegins ==
    \A h \in Checks : worker[h].stage = "none" => worker'[h] = worker[h]

LEMMA ServiceKeeps ==
    ASSUME TypeInv, \A h \in Checks : WorkerInv(h), ServiceStep
    PROVE  (\A h \in Checks : WorkerInv(h)') /\ DoneKept /\ NoneBegins
           /\ UNCHANGED <<gui, posted>>
<1>1. ASSUME NEW g \in Checks, WorkerInv(g)', \A h \in Checks \ {g} : Same(h),
             worker' = worker, worker[g].stage = "done" => tx'[g] = tx[g],
             UNCHANGED <<process, alive>>
      PROVE  (\A h \in Checks : WorkerInv(h)') /\ DoneKept /\ NoneBegins
  BY <1>1, SameKeeps DEF DoneKept, NoneBegins, Same
<1>2. ASSUME NEW g \in Checks, NEW p \in Packages, EmitPackage(g, p)
      PROVE  (\A h \in Checks : WorkerInv(h)') /\ DoneKept /\ NoneBegins
             /\ UNCHANGED <<gui, posted>>
  <2>1. WorkerInv(g)' /\ (\A h \in Checks \ {g} : Same(h)) /\ worker[g].stage \in Waiting
    BY <1>2, EmitKeeps
  <2> QED  BY <2>1, <1>1, <1>2 DEF EmitPackage, Waiting
<1>3. ASSUME NEW g \in Checks, NEW exit \in {"success", "failed"}, EndTransaction(g, exit)
      PROVE  (\A h \in Checks : WorkerInv(h)') /\ DoneKept /\ NoneBegins
             /\ UNCHANGED <<gui, posted>>
  <2>1. WorkerInv(g)' /\ (\A h \in Checks \ {g} : Same(h)) /\ worker[g].stage \in Waiting
    BY <1>3, EndKeeps DEF Exits
  <2> QED  BY <2>1, <1>1, <1>3 DEF EndTransaction, Waiting
<1>4. ASSUME NEW g \in Checks, ConnectionDrops(g)
      PROVE  (\A h \in Checks : WorkerInv(h)') /\ DoneKept /\ NoneBegins
             /\ UNCHANGED <<gui, posted>>
  <2>1. WorkerInv(g)' /\ \A h \in Checks \ {g} : Same(h)  BY <1>4, DropKeeps
  <2> QED  BY <2>1, <1>1, <1>4 DEF ConnectionDrops, service
<1>5. CASE ProcessStops
  BY <1>5, StopsKeeps DEF ProcessStops, DoneKept, NoneBegins
<1>6. CASE ProcessStarts
  <2>1. (\A h \in Checks : Same(h)) /\ ~alive  BY <1>6 DEF ProcessStarts, Same
  <2> QED  BY <2>1, <1>6, SameKeeps DEF ProcessStarts, DoneKept, NoneBegins
<1> QED  BY <1>2, <1>3, <1>4, <1>5, <1>6 DEF ServiceStep

-----------------------------------------------------------------------------
(* What is posted and shown stays true.                                     *)

LEMMA CompleteStays ==
    ASSUME DoneKept, NEW g \in Checks, NEW r, Complete(g, r)
    PROVE  Complete(g, r)'
BY DEF DoneKept, Complete

LEMMA PostedStays ==
    ASSUME TypeInv, PostedInv, DoneKept, NEW i \in 1..Len(posted)
    PROVE  IF posted[i].outcome = "succeeded"
           THEN \E g \in Checks, r \in Readings :
                   g = posted[i].generation /\ r = posted[i].reading /\ Complete(g, r)'
           ELSE posted[i].reading = NoReading
<1>1. posted[i] \in Posts  BY DEF TypeInv
<1>2. posted[i].generation \in Checks /\ posted[i].reading \in Readings  BY <1>1 DEF Posts
<1> PICK g \in Checks, r \in Readings : g = posted[i].generation /\ r = posted[i].reading
  BY <1>2
<1>3. posted[i].outcome = "succeeded" => Complete(g, r)'
  BY CompleteStays DEF PostedInv
<1> QED  BY <1>3 DEF PostedInv

LEMMA PostedKept ==
    ASSUME TypeInv, PostedInv, DoneKept, posted' = posted
    PROVE  PostedInv'
BY PostedStays DEF PostedInv, Complete

LEMMA PostedGrows ==
    ASSUME TypeInv, PostedInv, DoneKept, NEW g \in Checks, NEW e \in Posts,
           posted' = Append(posted, e), Honest(g, e)
    PROVE  PostedInv'
<1> SUFFICES ASSUME NEW i \in 1..Len(posted')
             PROVE  IF posted'[i].outcome = "succeeded"
                    THEN Complete(posted[i].generation, posted[i].reading)'
                    ELSE posted'[i].reading = NoReading
  BY DEF PostedInv
<1>1. (i \in 1..Len(posted) /\ posted'[i] = posted[i]) \/ posted'[i] = e  BY SMTT(60) DEF TypeInv
<1>2. CASE i \in 1..Len(posted) /\ posted'[i] = posted[i]
  BY <1>2, PostedStays DEF Complete
<1>3. CASE posted'[i] = e
  BY <1>3 DEF Honest, Complete
<1> QED  BY <1>1, <1>2, <1>3

LEMMA PostedTaken ==
    ASSUME TypeInv, PostedInv, DoneKept, posted # <<>>, posted' = Tail(posted)
    PROVE  PostedInv'
<1> SUFFICES ASSUME NEW i \in 1..Len(posted')
             PROVE  IF posted'[i].outcome = "succeeded"
                    THEN Complete(posted[i].generation, posted[i].reading)'
                    ELSE posted'[i].reading = NoReading
  BY DEF PostedInv
<1>1. i + 1 \in 1..Len(posted) /\ posted'[i] = posted[i + 1]  BY Tails DEF TypeInv
<1> QED  BY <1>1, PostedStays DEF Complete

LEMMA ShownStays ==
    ASSUME TypeInv, ShownInv, DoneKept, UNCHANGED <<status, reading, generation>>
    PROVE  ShownInv'
BY DEF ShownInv, DoneKept, Complete

(* A verdict that is received is one of the posted.                         *)
LEMMA ReceiveShown ==
    ASSUME Named, TypeInv, PostedInv, ShownInv, Receive
    PROVE  ShownInv'
<1> DEFINE done == Head(posted)
<1>1. done = posted[1] /\ done \in Posts /\ 1 \in 1..Len(posted)
  BY Tails DEF Receive, TypeInv
<1>2. UNCHANGED <<generation, worker, tx>>  BY DEF Receive, gui, service
<1>3. DoneKept  BY <1>2 DEF DoneKept
<1>4. IF done.outcome = "succeeded" THEN Complete(done.generation, done.reading)
      ELSE done.reading = NoReading
  BY <1>1 DEF PostedInv
<1>5. CASE done.generation # generation \/ status # "running"
  <2>1. UNCHANGED <<status, reading>>  BY <1>5 DEF Receive, gui
  <2> QED  BY <2>1, <1>2, <1>3, ShownStays
<1>6. CASE done.generation = generation /\ status = "running"
  <2>1. reading = NoReading  BY <1>6 DEF ShownInv
  <2>2. CASE late[generation]
    BY <1>2, <1>6, <2>1, <2>2 DEF Receive, ShownInv
  <2>3. CASE ~late[generation]
    <3>1. status' = done.outcome /\ reading' = done.reading  BY <1>6, <2>3 DEF Receive
    <3>2. done.generation \in Checks /\ done.outcome \in Outcomes  BY <1>1 DEF Posts
    <3>3. CASE done.outcome = "succeeded"
      <4>1. Complete(generation, done.reading) /\ generation \in Checks
        BY <1>4, <1>6, <3>2, <3>3
      <4>2. tx[generation].emitted \in SUBSET Packages  BY <4>1 DEF TypeInv, TxType
      <4>3. done.reading # NoReading  BY <4>1, <4>2 DEF Complete, Named, NoReading
      <4> QED  BY <1>2, <3>1, <3>3, <4>1, <4>3 DEF ShownInv, Complete
    <3>4. CASE done.outcome # "succeeded"
      BY <1>2, <1>4, <3>1, <3>4 DEF ShownInv
    <3> QED  BY <3>3, <3>4
  <2> QED  BY <2>2, <2>3
<1> QED  BY <1>5, <1>6

LEMMA InitInv == Init => Inv
<1> SUFFICES ASSUME Init PROVE Inv  OBVIOUS
<1>1. TypeInv  BY InitTyped
<1>2. Len(posted) = 0 /\ PostedInv  BY DEF Init, PostedInv
<1>n. NoWorker("none").stage = "none"  BY DEF NoWorker, NewWorker
<1>3. ShownInv /\ FutureInv
  BY <1>n DEF Init, ShownInv, FutureInv
<1>4. ASSUME NEW g \in Checks PROVE WorkerInv(g)
  <2>1. /\ worker[g].stage = "none" /\ wire[g] = <<>> /\ ~watching[g]
        /\ tx[g].job = "refresh" /\ tx[g].state = "none"
    BY <1>n DEF Init, NoTransaction
  <2>2. Len(wire[g]) = 0  BY <2>1
  <2> QED
    BY <2>1, <2>2 DEF WorkerInv, Quiet, Unasked, HasWaiter, Creating, Preparing, Running, Listening,
       PackagesQueued, EndQueued, InTime, Noticed, Prepared, Waiting, Active
<1> QED  BY <1>1, <1>2, <1>3, <1>4 DEF Inv

LEMMA StepInv == Named /\ Inv /\ [Next]_vars => Inv'
<1> SUFFICES ASSUME Named, Inv, [Next]_vars PROVE Inv'  OBVIOUS
<1> USE DEF Inv
<1>0. TypeInv'  BY StepTyped
<1>1. CASE Start
  <2>1. /\ \A g \in Checks : WorkerInv(g)'
        /\ FutureInv' /\ tx' = tx
        /\ \A g \in Checks : worker[g].stage # "none" => worker'[g] = worker[g]
    BY <1>1, StartKeeps
  <2>2. DoneKept /\ posted' = posted  BY <1>1, <2>1 DEF DoneKept, Start
  <2>3. ShownInv'  BY <1>1 DEF Start, ShownInv
  <2> QED  BY <1>0, <2>1, <2>2, <2>3, PostedKept
<1>g. ASSUME UNCHANGED <<worker, wire, watching, linked, tx, process, alive, generation>>
      PROVE  (\A g \in Checks : WorkerInv(g)') /\ FutureInv' /\ DoneKept
  BY <1>g, SameKeeps DEF Same, FutureInv, DoneKept
<1>2. CASE Receive
  <2>1. UNCHANGED <<worker, wire, watching, linked, tx, process, alive, generation>>
    BY <1>2 DEF Receive, gui, service
  <2>2. posted # <<>> /\ posted' = Tail(posted)  BY <1>2 DEF Receive
  <2> QED  BY <1>0, <1>2, <1>g, <2>1, <2>2, PostedTaken, ReceiveShown
<1>3. CASE Cancel
  <2>1. /\ UNCHANGED <<worker, wire, watching, linked, tx, process, alive, generation, posted, reading>>
        /\ status = "running" /\ status' = "cancelled"
    BY <1>3 DEF Cancel, service
  <2>2. ShownInv'  BY <2>1 DEF ShownInv
  <2> QED  BY <1>0, <1>g, <2>1, <2>2, PostedKept
<1>4. CASE Expired
  <2>1. /\ UNCHANGED <<worker, wire, watching, linked, tx, process, alive, generation, posted, reading>>
        /\ (status' = status) \/ (status = "running" /\ status' = "timed_out")
    BY <1>4 DEF Expired, service
  <2>2. ShownInv'
    <3>1. CASE status' = status  BY <3>1, <1>g, <2>1, ShownStays
    <3>2. CASE status = "running" /\ status' = "timed_out"  BY <3>2, <2>1 DEF ShownInv
    <3> QED  BY <2>1, <3>1, <3>2
  <2> QED  BY <1>0, <1>g, <2>1, <2>2, PostedKept
<1>5. CASE TimePasses
  <2>1. UNCHANGED <<worker, wire, watching, linked, tx, process, alive, generation, posted, reading,
                    status>>
    BY <1>5 DEF TimePasses, gui, service
  <2> QED  BY <1>0, <1>g, <2>1, PostedKept, ShownStays
<1>6. ASSUME NEW g \in Checks, WorkerStep(g) PROVE Inv'
  <2>1. /\ \A h \in Checks : WorkerInv(h)'
        /\ \A h \in Checks \ {g} : Same(h)
        /\ worker[g].stage \notin {"none", "done"} /\ UNCHANGED gui
        /\ \/ posted' = posted
           \/ \E e \in Posts : posted' = Append(posted, e) /\ Honest(g, e)
    BY <1>6, WorkerStepKeeps
  <2>2. DoneKept /\ NoneBegins  BY <2>1 DEF DoneKept, NoneBegins, Same
  <2>3. PostedInv'  BY <2>1, <2>2, PostedKept, PostedGrows
  <2>4. ShownInv'  BY <2>1, <2>2, ShownStays DEF gui
  <2>5. FutureInv'  BY <2>1, <2>2 DEF FutureInv, NoneBegins, gui
  <2> QED  BY <1>0, <2>1, <2>3, <2>4, <2>5
<1>7. CASE ServiceStep
  <2>1. (\A h \in Checks : WorkerInv(h)') /\ DoneKept /\ NoneBegins /\ UNCHANGED <<gui, posted>>
    BY <1>7, ServiceKeeps
  <2>2. ShownInv' /\ PostedInv' /\ FutureInv'
    BY <2>1, PostedKept, ShownStays DEF FutureInv, NoneBegins, gui
  <2> QED  BY <1>0, <2>1, <2>2
<1>8. CASE UNCHANGED vars
  <2>1. UNCHANGED <<worker, wire, watching, linked, tx, process, alive, generation, posted, reading,
                    status>>
    BY <1>8 DEF vars
  <2> QED  BY <1>0, <1>g, <2>1, PostedKept, ShownStays
<1> QED  BY <1>1, <1>2, <1>3, <1>4, <1>5, <1>6, <1>7, <1>8 DEF Next

LEMMA AlwaysInv == ASSUME Named PROVE Spec => []Inv
<1>1. Inv /\ [Next]_vars => Inv'  BY StepInv
<1> QED  BY <1>1, InitInv, PTL DEF Spec

(* However checks are started, cancelled and timed out, and wherever         *)
(* PackageKit stops or the bus is lost, a reading that is shown is every     *)
(* package the transaction named, and nothing else is shown                  *)
(* (UpdatesFacet._transaction, UpdateCheck._receive).                        *)
THEOREM ReadingsAreComplete == ASSUME Named PROVE Spec => []CompleteReading
<1>1. Inv => CompleteReading
  <2> SUFFICES ASSUME Inv PROVE CompleteReading  OBVIOUS
  <2> QED  BY DEF Inv, ShownInv, Complete, CompleteReading
<1> QED  BY <1>1, AlwaysInv, PTL

(* Once a transaction is started on a verified owner, the death of that      *)
(* process is known or queued: the order "subscribe first, then verify       *)
(* ownership" leaves no gap (UpdatesFacet._transaction).                     *)
THEOREM LossesAreNoticed == ASSUME Named PROVE Spec => []OwnerLossNoticed
<1>1. Inv => OwnerLossNoticed
  <2> SUFFICES ASSUME Inv, NEW g \in Checks,
                      worker[g].stage \in {"invoke", "waiting", "dispatching"}, linked[g],
                      ~(alive /\ process = worker[g].owner), ~worker[g].error
               PROVE  \E i \in DOMAIN wire[g] : wire[g][i] = OwnerLost(worker[g].owner)
    BY DEF OwnerLossNoticed
  <2>1. Noticed(g)  BY DEF Inv, WorkerInv
  <2>2. PICK i \in 1..Len(wire[g]) : wire[g][i] = OwnerLost(worker[g].owner)
    BY <2>1 DEF Noticed, Waiting
  <2>3. DOMAIN wire[g] = 1..Len(wire[g])  BY DEF Inv, TypeInv
  <2> QED  BY <2>2, <2>3
<1> QED  BY <1>1, AlwaysInv, PTL

(* Nothing that is posted after the user cancelled or the deadline passed    *)
(* changes what is shown, until another check is started (_receive).         *)
THEOREM VerdictsAreFinal == Spec => VerdictIsFinal
<1>1. TypeInv /\ [Next]_vars => [(status \in {"cancelled", "timed_out"} /\ generation' = generation)
                        => UNCHANGED <<status, reading>>]_vars
  <2> SUFFICES ASSUME TypeInv, Next, status \in {"cancelled", "timed_out"}, generation' = generation
               PROVE  UNCHANGED <<status, reading>>
    OBVIOUS
  <2> USE DEF gui, service
  <2>1. CASE Start
    <3>1. generation' = generation + 1  BY <2>1 DEF Start
    <3> QED  BY <3>1 DEF TypeInv
  <2>2. CASE Receive  BY <2>2 DEF Receive
  <2>3. CASE Cancel \/ Expired \/ TimePasses  BY <2>3, SMTT(60) DEF Cancel, Expired, TimePasses
  <2>4. ASSUME NEW g \in Checks, WorkerStep(g) PROVE UNCHANGED <<status, reading>>
    BY <2>4 DEF WorkerStep, CreateTransaction, Subscribe, VerifyOwner, Invoke, RequestFails,
       EnterDispatch, GiveUp, Deliver, DispatchReturns, Conclude
  <2>5. CASE ServiceStep
    BY <2>5 DEF ServiceStep, EmitPackage, EndTransaction, ConnectionDrops, ProcessStops, ProcessStarts
  <2> QED  BY <2>1, <2>2, <2>3, <2>4, <2>5 DEF Next
<1>2. TypeInv /\ [Next]_vars => TypeInv'  BY StepTyped
<1> QED  BY <1>1, <1>2, InitTyped, PTL DEF Spec, VerdictIsFinal
================================================================================
