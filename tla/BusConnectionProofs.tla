------------------------- MODULE BusConnectionProofs -------------------------
(***************************************************************************)
(* Proofs about BusConnection, for every set of names, peers and handlers  *)
(* and for every value of the bounds: its types, the match rules and their *)
(* counts; that it implements SignalStream; and whom the handlers of       *)
(* well-known names hear.                                                  *)
(***************************************************************************)
EXTENDS BusConnection, QueueProofs, FiniteSetTheorems, FunctionTheorems, TLAPS

(* The type invariant, in the groups of variables that actions change       *)
(* together, with what each stage of an operation carries.                  *)
OpShape ==
    /\ op.stage \in {"watch", "lookup", "match", "release"} => op.h \in Handlers
    /\ op.stage \in {"watch", "lookup"} => SenderOf[op.h] \in Names
    /\ op.stage = "rpc" => op.unique \in Peers
    /\ op.sent => op.stage \in Calls

SubscriptionsOK ==
    /\ handlers \in SUBSET Entry /\ IsFiniteSet(handlers)
    /\ subs \in Nat
    /\ users \in [Senders -> Int]
    /\ watching \in BOOLEAN
    /\ op \in Operation
    /\ OpShape

QueuesOK ==
    /\ parked \in Seq(Parkable)
    /\ wire \in Seq(Message)
    /\ disp \in Frame

RequestOK(r) ==
    /\ r \in Request
    /\ r.method = "GetNameOwner" => r.arg \in Names

DaemonOK ==
    /\ inbox \in Seq(Request)
    /\ \A i \in DOMAIN inbox : RequestOK(inbox[i])
    /\ matches \in [Senders -> Nat]
    /\ owner \in [Names -> Peers \cup {Nobody}]
    /\ rpcs \in SUBSET Nat

CountsOK ==
    /\ serial \in Nat /\ events \in Nat /\ faults \in Nat
    /\ lastSignal \in Nat /\ watchedSince \in Nat
    /\ closed \in BOOLEAN /\ down \in BOOLEAN

TypeInv == SubscriptionsOK /\ QueuesOK /\ DaemonOK /\ CountsOK

-----------------------------------------------------------------------------
LEMMA InitType == Init => TypeInv
  <1> SUFFICES ASSUME Init PROVE TypeInv
    OBVIOUS
  <1>1. Idle \in Operation
    BY DEF Idle, Operation, Stages
  <1>2. NoFrame \in Frame
    BY DEF NoFrame, Frame, NoMessage, Message, Garbled
  <1>3. SubscriptionsOK
    <2>1. IsFiniteSet(handlers)
      BY FS_EmptySet DEF Init
    <2>2. users \in [Senders -> Int]
      BY DEF Init
    <2>3. OpShape
      BY DEF Init, OpShape, Idle
    <2> QED
      BY <1>1, <2>1, <2>2, <2>3 DEF Init, SubscriptionsOK
  <1>4. QueuesOK
    BY <1>2 DEF Init, QueuesOK
  <1>5. DaemonOK
    BY DEF Init, DaemonOK
  <1>6. CountsOK
    BY DEF Init, CountsOK
  <1> QED
    BY <1>3, <1>4, <1>5, <1>6 DEF TypeInv

LEMMA IdleType == ASSUME op' = Idle PROVE op' \in Operation /\ OpShape'
  BY DEF Idle, Operation, Stages, OpShape

LEMMA UnwatchStageType ==
  ASSUME op' = [Idle EXCEPT !.stage = "unwatch"]
  PROVE  op' \in Operation /\ OpShape'
  BY DEF Idle, Operation, Stages, OpShape

\* Entering a stage keeps the types.
LEMMA AddHandlerType ==
  ASSUME TypeInv, NEW h \in Handlers, NEW unique \in Senders \cup {Nobody},
         NEW resolved \in BOOLEAN, AddHandler(h, unique, resolved), UNCHANGED watching
  PROVE  SubscriptionsOK'
  <1>0. SubscriptionsOK /\ CountsOK
    BY DEF TypeInv
  <1> DEFINE e == [n |-> subs + 1, h |-> h, unique |-> unique, born |-> events,
                   resolved |-> resolved]
  <1>1. e \in Entry
    BY <1>0 DEF SubscriptionsOK, CountsOK, Entry
  <1>2. handlers' \in SUBSET Entry
    BY <1>0, <1>1 DEF SubscriptionsOK, AddHandler
  <1>3. IsFiniteSet(handlers')
    BY <1>0, FS_AddElement DEF SubscriptionsOK, AddHandler
  <1>4. SenderOf[h] \in Senders
    BY SendersAssumption
  <1>5. users' \in [Senders -> Int]
    BY <1>0, <1>4 DEF SubscriptionsOK, AddHandler
  <1>6. op' \in Operation /\ OpShape'
    BY DEF AddHandler, Idle, Operation, Stages, OpShape
  <1> QED
    BY <1>0, <1>2, <1>3, <1>5, <1>6 DEF SubscriptionsOK, AddHandler

LEMMA AcquireRuleType ==
  ASSUME TypeInv, NEW h \in Handlers, NEW unique \in Senders \cup {Nobody},
         NEW resolved \in BOOLEAN, NEW started \in BOOLEAN,
         AcquireRule(h, unique, resolved, started), UNCHANGED watching
  PROVE  SubscriptionsOK'
  <1>1. CASE users[SenderOf[h]] # 0
    BY <1>1, AddHandlerType DEF AcquireRule
  <1>2. CASE ~(users[SenderOf[h]] # 0)
    <2>0. op' = [stage |-> "match", sent |-> FALSE, h |-> h, unique |-> unique,
                 resolved |-> resolved, started |-> started]
      BY <1>2 DEF AcquireRule
    <2>1. op' \in Operation /\ OpShape'
      BY <2>0 DEF Operation, Stages, OpShape
    <2>2. UNCHANGED <<users, handlers, subs, watching>>
      BY <1>2 DEF AcquireRule
    <2> QED
      BY <2>1, <2>2 DEF TypeInv, SubscriptionsOK
  <1> QED
    BY <1>1, <1>2

LEMMA WatchInstalledType ==
  ASSUME TypeInv, NEW h \in Handlers, WellKnown(h), WatchInstalled(h)
  PROVE  SubscriptionsOK'
  <1>1. op' \in Operation /\ OpShape'
    BY DEF WatchInstalled, WellKnown, Operation, Stages, OpShape, Idle
  <1>2. users' \in [Senders -> Int]
    BY DEF WatchInstalled, TypeInv, SubscriptionsOK, Senders
  <1> QED
    BY <1>1, <1>2 DEF TypeInv, SubscriptionsOK, WatchInstalled

\* The end of a call keeps the types, whatever its outcome.
LEMMA CompleteType ==
  ASSUME TypeInv, NEW outcome, NEW value \in Peers \cup {Nobody},
         Complete(outcome, value)
  PROVE  SubscriptionsOK' /\ (op.stage \in Calls)
  <1> USE DEF TypeInv
  <1>1. CASE op.stage = "rpc" /\ op' = Idle /\ UNCHANGED <<users, handlers, subs, watching>>
    <2>1. op' \in Operation /\ OpShape'
      BY <1>1 DEF Idle, Operation, Stages, OpShape
    <2> QED
      BY <1>1, <2>1 DEF SubscriptionsOK, Calls
  <1>2. CASE op.stage = "watch" /\ WatchInstalled(op.h)
    BY <1>2, WatchInstalledType DEF SubscriptionsOK, OpShape, WellKnown, Calls
  <1>3. CASE op.stage = "watch" /\ op' = Idle /\ UNCHANGED <<users, handlers, subs, watching>>
    <2>1. op' \in Operation /\ OpShape'
      BY <1>3 DEF Idle, Operation, Stages, OpShape
    <2> QED
      BY <1>3, <2>1 DEF SubscriptionsOK, Calls
  <1>4. CASE /\ op.stage = "lookup"
             /\ AcquireRule(op.h, value, outcome # "none" /\ ~StaleOwners(SenderOf[op.h]),
                            op.started)
             /\ UNCHANGED watching
    <2>1. op.h \in Handlers /\ op.started \in BOOLEAN
      BY <1>4 DEF SubscriptionsOK, OpShape, Operation
    <2>2. value \in Senders \cup {Nobody}
      BY DEF Senders
    <2>3. (outcome # "none" /\ ~StaleOwners(SenderOf[op.h])) \in BOOLEAN
      OBVIOUS
    <2> HIDE DEF TypeInv
    <2>4. SubscriptionsOK'
      BY <1>4, <2>1, <2>2, <2>3, AcquireRuleType
    <2> QED
      BY <1>4, <2>4 DEF Calls
  <1>5. CASE /\ op.stage = "match" /\ AddHandler(op.h, op.unique, op.resolved)
             /\ UNCHANGED watching
    <2>1. /\ op.h \in Handlers /\ op.unique \in Senders \cup {Nobody}
          /\ op.resolved \in BOOLEAN
      BY <1>5 DEF SubscriptionsOK, OpShape, Operation
    <2> HIDE DEF TypeInv
    <2>2. SubscriptionsOK'
      BY <1>5, <2>1, AddHandlerType
    <2> QED
      BY <1>5, <2>2 DEF Calls
  <1>6. CASE /\ op.stage = "match"
             /\ op' = IF op.started THEN [Idle EXCEPT !.stage = "unwatch"] ELSE Idle
             /\ UNCHANGED <<users, handlers, subs, watching>>
    <2>1. op' \in Operation /\ OpShape'
      BY <1>6 DEF Idle, Operation, Stages, OpShape
    <2> QED
      BY <1>6, <2>1 DEF SubscriptionsOK, Calls
  <1>7. CASE /\ op.stage = "release" /\ AfterRelease(handlers)
             /\ UNCHANGED <<users, handlers, subs, watching>>
    <2>1. op' \in Operation /\ OpShape'
      BY <1>7 DEF AfterRelease, Idle, Operation, Stages, OpShape
    <2> QED
      BY <1>7, <2>1 DEF SubscriptionsOK, Calls
  <1>8. CASE /\ op.stage = "unwatching" /\ watching' = FALSE /\ op' = Idle
             /\ UNCHANGED <<users, handlers, subs>>
    <2>1. op' \in Operation /\ OpShape'
      BY <1>8 DEF Idle, Operation, Stages, OpShape
    <2> QED
      BY <1>8, <2>1 DEF SubscriptionsOK, Calls
  <1> QED
    BY <1>1, <1>2, <1>3, <1>4, <1>5, <1>6, <1>7, <1>8 DEF Complete

-----------------------------------------------------------------------------
(* The operations a caller may start *)

LEMMA SubscribeType ==
  ASSUME TypeInv, NEW h \in Handlers, Subscribe(h)
  PROVE  TypeInv'
  <1>1. SubscriptionsOK'
    <2>1. CASE WellKnown(h) /\ op' = [Idle EXCEPT !.stage = "watch", !.h = h]
               /\ UNCHANGED <<users, handlers, subs, watching>>
      <3>1. op' \in Operation /\ OpShape'
        BY <2>1 DEF Idle, Operation, Stages, OpShape, WellKnown
      <3> QED
        BY <2>1, <3>1 DEF TypeInv, SubscriptionsOK
    <2>2. CASE WellKnown(h) /\ WatchInstalled(h)
      BY <2>2, WatchInstalledType
    <2>3. CASE WellKnown(h) /\ op' = [Idle EXCEPT !.stage = "lookup", !.h = h]
               /\ UNCHANGED <<users, handlers, subs, watching>>
      <3>1. op' \in Operation /\ OpShape'
        BY <2>3 DEF Idle, Operation, Stages, OpShape, WellKnown
      <3> QED
        BY <2>3, <3>1 DEF TypeInv, SubscriptionsOK
    <2>4. CASE AcquireRule(h, SenderOf[h], TRUE, FALSE) /\ UNCHANGED watching
      <3>1. SenderOf[h] \in Senders \cup {Nobody}
        BY SendersAssumption
      <3> QED
        BY <2>4, <3>1, AcquireRuleType
    <2> QED
      BY <2>1, <2>2, <2>3, <2>4 DEF Subscribe
  <1>2. QueuesOK' /\ DaemonOK' /\ CountsOK'
    BY DEF Subscribe, TypeInv, QueuesOK, DaemonOK, CountsOK, RequestOK, daemonVars
  <1> QED
    BY <1>1, <1>2 DEF TypeInv

LEMMA UnsubscribeType ==
  ASSUME TypeInv, NEW h \in Handlers, Unsubscribe(h)
  PROVE  TypeInv'
  <1>1. handlers \in SUBSET Entry /\ IsFiniteSet(handlers)
    BY DEF TypeInv, SubscriptionsOK
  <1>2. Of(h) \in SUBSET handlers
    BY DEF Of
  <1>3. IsFiniteSet(Of(h)) /\ Cardinality(Of(h)) \in Nat
    BY <1>1, <1>2, FS_Subset, FS_CardinalityType
  <1>4. handlers' \in SUBSET Entry /\ IsFiniteSet(handlers')
    BY <1>1, FS_Subset DEF Unsubscribe, Released
  <1>5. users' \in [Senders -> Int]
    BY <1>3, SendersAssumption DEF Unsubscribe, Released, TypeInv, SubscriptionsOK
  <1>6. op' \in Operation /\ OpShape'
    <2>1. CASE op' = Idle
      BY <2>1, IdleType
    <2>2. CASE op' = [Idle EXCEPT !.stage = "release", !.h = h]
      BY <2>2 DEF Idle, Operation, Stages, OpShape
    <2>3. CASE op' = [Idle EXCEPT !.stage = "unwatch"]
      BY <2>3, UnwatchStageType
    <2> QED
      BY <2>1, <2>2, <2>3 DEF Unsubscribe, Released, AfterRelease
  <1>7. SubscriptionsOK'
    BY <1>4, <1>5, <1>6 DEF Unsubscribe, Released, TypeInv, SubscriptionsOK
  <1>8. QueuesOK' /\ DaemonOK' /\ CountsOK'
    BY DEF Unsubscribe, Released, TypeInv, QueuesOK, DaemonOK, CountsOK, RequestOK, daemonVars
  <1> QED
    BY <1>7, <1>8 DEF TypeInv

LEMMA UnwatchType == ASSUME TypeInv, Unwatch PROVE TypeInv'
  <1>1. op' \in Operation /\ OpShape'
    <2>1. CASE op' = Idle
      BY <2>1, IdleType
    <2>2. CASE op' = [Idle EXCEPT !.stage = "unwatching"]
      BY <2>2 DEF Idle, Operation, Stages, OpShape
    <2> QED
      BY <2>1, <2>2 DEF Unwatch
  <1>2. users' \in [Senders -> Int]
    BY DEF Unwatch, TypeInv, SubscriptionsOK, Senders
  <1>5. watching' \in BOOLEAN
    BY DEF Unwatch, TypeInv, SubscriptionsOK
  <1>3. SubscriptionsOK'
    BY <1>1, <1>2, <1>5 DEF Unwatch, TypeInv, SubscriptionsOK
  <1>4. QueuesOK' /\ DaemonOK' /\ CountsOK'
    BY DEF Unwatch, TypeInv, QueuesOK, DaemonOK, CountsOK, RequestOK, daemonVars
  <1> QED
    BY <1>3, <1>4 DEF TypeInv

LEMMA CallType == ASSUME TypeInv, NEW p \in Peers, Call(p) PROVE TypeInv'
  <1>1. op' \in Operation /\ OpShape'
    BY DEF Call, Idle, Operation, Stages, OpShape, Senders
  <1>2. SubscriptionsOK'
    BY <1>1 DEF Call, TypeInv, SubscriptionsOK
  <1>3. QueuesOK' /\ DaemonOK' /\ CountsOK'
    BY DEF Call, TypeInv, QueuesOK, DaemonOK, CountsOK, RequestOK, daemonVars
  <1> QED
    BY <1>2, <1>3 DEF TypeInv

LEMMA KeepBufferedType ==
  ASSUME wire \in Seq(Message), KeepBuffered
  PROVE  wire' \in Seq(Message)
  BY DEF KeepBuffered

LEMMA CloseType == ASSUME TypeInv, Close PROVE TypeInv'
  <1>1. wire' \in Seq(Message)
    BY KeepBufferedType DEF Close, TypeInv, QueuesOK
  <1> QED
    BY <1>1 DEF Close, TypeInv, SubscriptionsOK, OpShape, QueuesOK, DaemonOK, CountsOK,
                RequestOK, daemonVars

-----------------------------------------------------------------------------
(* call() *)

LEMMA SendType == ASSUME TypeInv, Send PROVE TypeInv'
  <1>1. op \in Operation /\ op.stage \in Calls
    BY DEF Send, TypeInv, SubscriptionsOK
  <1>2. op' \in Operation /\ OpShape'
    BY <1>1 DEF Send, TypeInv, SubscriptionsOK, OpShape, Operation
  <1>3. SubscriptionsOK'
    BY <1>2 DEF Send, TypeInv, SubscriptionsOK
  <1>4. RequestOf[1] \in {"AddMatch", "RemoveMatch", "GetNameOwner", "Call"}
    BY <1>1 DEF RequestOf, Calls
  <1>5. RequestOf[2] \in Senders
    BY <1>1, SendersAssumption DEF RequestOf, Calls, TypeInv, SubscriptionsOK, OpShape, Senders
  <1>6. RequestOf[1] = "GetNameOwner" => RequestOf[2] \in Names
    BY <1>1 DEF RequestOf, Calls, TypeInv, SubscriptionsOK, OpShape
  <1> DEFINE r == [method |-> RequestOf[1], arg |-> RequestOf[2], serial |-> serial + 1]
  <1>7. RequestOK(r)
    BY <1>4, <1>5, <1>6 DEF RequestOK, Request, TypeInv, CountsOK
  <1>8. inbox' = Append(inbox, r)
    BY DEF Send
  <1> HIDE DEF r
  <1>9. inbox' \in Seq(Request) /\ \A i \in DOMAIN inbox' : RequestOK(inbox'[i])
    BY <1>7, <1>8 DEF TypeInv, DaemonOK, RequestOK
  <1>10. DaemonOK'
    BY <1>9 DEF Send, TypeInv, DaemonOK, RequestOK
  <1>11. QueuesOK' /\ CountsOK'
    BY DEF Send, TypeInv, QueuesOK, CountsOK
  <1> QED
    BY <1>3, <1>10, <1>11 DEF TypeInv

LEMMA SendFailsType == ASSUME TypeInv, SendFails PROVE TypeInv'
  <1>1. SubscriptionsOK'
    BY CompleteType DEF SendFails
  <1>2. wire' \in Seq(Message)
    BY KeepBufferedType DEF SendFails, TypeInv, QueuesOK
  <1> QED
    BY <1>1, <1>2 DEF SendFails, TypeInv, QueuesOK, DaemonOK, CountsOK, RequestOK, daemonVars

LEMMA AnswerType ==
  ASSUME NEW m \in Message, IsAnswer(m)
  PROVE  m \in AnswerMsg
  BY DEF Message, SignalMsg, OwnerMsg, CallMsg, Garbled, AnswerMsg, IsAnswer

LEMMA ParkableType ==
  ASSUME NEW m \in Message, m.kind # "garbled", ~IsAnswer(m)
  PROVE  m \in Parkable
  BY DEF Message, Parkable, SignalMsg, OwnerMsg, CallMsg, Garbled, AnswerMsg, IsAnswer

LEMMA HeadOfWire ==
  ASSUME wire \in Seq(Message), wire # <<>>
  PROVE  Head(wire) \in Message /\ Tail(wire) \in Seq(Message)
  OBVIOUS

LEMMA TakeReplyType == ASSUME TypeInv, TakeReply PROVE TypeInv'
  <1>1. Head(wire) \in AnswerMsg /\ wire' \in Seq(Message)
    BY AnswerType, HeadOfWire DEF TakeReply, TypeInv, QueuesOK
  <1>2. Head(wire).value \in Peers \cup {Nobody}
    BY <1>1 DEF AnswerMsg
  <1>3. SubscriptionsOK'
    BY <1>2, CompleteType DEF TakeReply
  <1> QED
    BY <1>1, <1>3 DEF TakeReply, TypeInv, QueuesOK, DaemonOK, CountsOK, RequestOK, daemonVars

LEMMA ParkType == ASSUME TypeInv, Park PROVE TypeInv'
  <1>1. Head(wire) \in Message /\ wire' \in Seq(Message)
    BY HeadOfWire DEF Park, TypeInv, QueuesOK
  <1>2. parked' \in Seq(Parkable)
    <2>1. CASE IsAnswer(Head(wire))
      BY <2>1 DEF Park, TypeInv, QueuesOK
    <2>2. CASE ~IsAnswer(Head(wire))
      BY <1>1, <2>2, ParkableType DEF Park, TypeInv, QueuesOK
    <2> QED
      BY <2>1, <2>2
  <1>3. QueuesOK'
    BY <1>1, <1>2 DEF Park, TypeInv, QueuesOK
  <1>4. SubscriptionsOK' /\ DaemonOK' /\ CountsOK'
    BY DEF Park, TypeInv, SubscriptionsOK, OpShape, DaemonOK, CountsOK, RequestOK, daemonVars
  <1> QED
    BY <1>3, <1>4 DEF TypeInv

LEMMA CallFailsType ==
  ASSUME TypeInv, CallReadsGarbled \/ CallTimesOut \/ CallHitsEnd
  PROVE  TypeInv'
  <1>1. SubscriptionsOK'
    BY CompleteType DEF CallReadsGarbled, CallTimesOut, CallHitsEnd
  <1>2. QueuesOK'
    BY HeadOfWire DEF CallReadsGarbled, CallTimesOut, CallHitsEnd, TypeInv, QueuesOK
  <1>3. DaemonOK'
    BY DEF CallReadsGarbled, CallTimesOut, CallHitsEnd, TypeInv, DaemonOK, RequestOK, daemonVars
  <1>4. CountsOK'
    <2>1. CASE CallReadsGarbled
      BY <2>1 DEF CallReadsGarbled, TypeInv, CountsOK, daemonVars
    <2>2. CASE CallTimesOut
      BY <2>2 DEF CallTimesOut, TypeInv, CountsOK, daemonVars, Fault
    <2>3. CASE CallHitsEnd
      BY <2>3 DEF CallHitsEnd, TypeInv, CountsOK, daemonVars
    <2> QED
      BY <2>1, <2>2, <2>3
  <1> QED
    BY <1>1, <1>2, <1>3, <1>4 DEF TypeInv

-----------------------------------------------------------------------------
(* dispatch() *)

LEMMA EndFrameType == ASSUME TypeInv, EndFrame PROVE disp' \in Frame /\ parked' \in Seq(Parkable)
  <1>1. disp' \in Frame
    BY DEF EndFrame, NoFrame, Frame, NoMessage, Message, Garbled
  <1>2. disp.deferred \in Seq(CallMsg) /\ parked \in Seq(Parkable)
    BY DEF TypeInv, QueuesOK, Frame
  <1>3. disp.deferred \in Seq(Parkable)
    BY <1>2 DEF Parkable
  <1> QED
    BY <1>1, <1>2, <1>3 DEF EndFrame

LEMMA BeginDispatchType ==
  ASSUME TypeInv, NEW serve \in BOOLEAN, BeginDispatch(serve)
  PROVE  TypeInv'
  <1>1. NoFrame \in Frame
    BY DEF NoFrame, Frame, NoMessage, Message, Garbled
  <1>2. disp' \in Frame
    BY <1>1 DEF BeginDispatch, Frame
  <1> QED
    BY <1>2 DEF BeginDispatch, TypeInv, SubscriptionsOK, OpShape, QueuesOK, DaemonOK, CountsOK,
                RequestOK, daemonVars

\* The message dispatch() takes, and what is left.
LEMMA NextMessageType ==
  ASSUME TypeInv, Pending, TakeNext
  PROVE  /\ NextMessage \in Message
         /\ parked' \in Seq(Parkable) /\ wire' \in Seq(Message)
  <1>1. CASE FromParked
    <2>1. Head(parked) \in Parkable /\ Tail(parked) \in Seq(Parkable)
      BY <1>1 DEF FromParked, TypeInv, QueuesOK
    <2> QED
      BY <1>1, <2>1 DEF TakeNext, NextMessage, TypeInv, QueuesOK, Parkable, Message
  <1>2. CASE ~FromParked
    BY <1>2, HeadOfWire DEF FromParked, Pending, TakeNext, NextMessage, TypeInv, QueuesOK
  <1> QED
    BY <1>1, <1>2

LEMMA DispatchSignalType == ASSUME TypeInv, DispatchSignal PROVE TypeInv'
  <1> DEFINE m == NextMessage
  <1>1. m \in Message /\ parked' \in Seq(Parkable) /\ wire' \in Seq(Message)
    BY NextMessageType DEF DispatchSignal
  <1>2. m \in SignalMsg \cup OwnerMsg
    BY <1>1 DEF DispatchSignal, IsSignal, Signals, Message, SignalMsg, OwnerMsg, CallMsg, Garbled, AnswerMsg
  <1>3. m.id \in Nat /\ (m.kind = "owner" => m.new \in Senders \cup {Nobody})
    BY <1>2 DEF SignalMsg, OwnerMsg, Senders
  <1>4. handlers \in SUBSET Entry /\ IsFiniteSet(handlers)
    BY DEF TypeInv, SubscriptionsOK
  <1> HIDE DEF m
  <1>5. Rebound(m) \in SUBSET Entry
    <2> DEFINE f(e) == IF m.kind = "owner" /\ SenderOf[e.h] = m.name
                       THEN [e EXCEPT !.unique = m.new, !.resolved = m.id > watchedSince]
                       ELSE e
    <2>1. ASSUME NEW e \in Entry PROVE f(e) \in Entry
      <3>1. (m.id > watchedSince) \in BOOLEAN
        OBVIOUS
      <3>2. CASE m.kind = "owner" /\ SenderOf[e.h] = m.name
        BY <1>3, <3>1, <3>2 DEF Entry
      <3>3. CASE ~(m.kind = "owner" /\ SenderOf[e.h] = m.name)
        BY <3>3
      <3> QED
        BY <3>2, <3>3
    <2> HIDE DEF f
    <2>2. Rebound(m) = {f(e) : e \in handlers}
      BY DEF Rebound, f
    <2> QED
      BY <1>4, <2>1, <2>2
  <1>6. IsFiniteSet(Rebound(m))
    <2> DEFINE g == [e \in handlers |->
                       IF m.kind = "owner" /\ SenderOf[e.h] = m.name
                       THEN [e EXCEPT !.unique = m.new, !.resolved = m.id > watchedSince]
                       ELSE e]
    <2>1. g \in Surjection(handlers, Rebound(m))
      BY DEF Surjection, Rebound
    <2> QED
      BY ZenonT(30), <1>4, <2>1, FS_Surjection
  <1>7. SubscriptionsOK'
    BY <1>5, <1>6 DEF DispatchSignal, TypeInv, SubscriptionsOK, OpShape, m
  <1>8. {e \in Rebound(m) : Wants(e, m)} \in SUBSET Entry
    BY <1>5
  <1>9. disp' \in Frame
    BY <1>1, <1>8 DEF DispatchSignal, TypeInv, QueuesOK, Frame, m
  <1>10. QueuesOK'
    BY <1>1, <1>9 DEF QueuesOK
  <1>11. DaemonOK' /\ CountsOK'
    BY <1>3 DEF DispatchSignal, TypeInv, DaemonOK, CountsOK, RequestOK, daemonVars, m
  <1> QED
    BY <1>7, <1>10, <1>11 DEF TypeInv

LEMMA DispatchCallType == ASSUME TypeInv, DispatchCall PROVE TypeInv'
  <1>1. NextMessage \in Message /\ parked' \in Seq(Parkable) /\ wire' \in Seq(Message)
    BY NextMessageType DEF DispatchCall
  <1>2. NextMessage \in CallMsg
    BY <1>1 DEF DispatchCall, IsCall, Message, SignalMsg, OwnerMsg, CallMsg, Garbled, AnswerMsg
  <1>3. disp' \in Frame
    <2>1. disp \in Frame
      BY DEF TypeInv, QueuesOK
    <2>2. CASE disp.serve
      BY <1>1, <2>1, <2>2 DEF DispatchCall, Frame
    <2>3. CASE ~disp.serve
      <3>1. Append(disp.deferred, NextMessage) \in Seq(CallMsg)
        BY <1>2, <2>1 DEF Frame
      <3>2. disp' = [disp EXCEPT !.deferred = Append(disp.deferred, NextMessage)]
        BY <2>3 DEF DispatchCall
      <3> QED
        BY <2>1, <3>1, <3>2 DEF Frame
    <2> QED
      BY <2>2, <2>3
  <1>4. QueuesOK'
    BY <1>1, <1>3 DEF QueuesOK
  <1> QED
    BY <1>4 DEF DispatchCall, TypeInv, SubscriptionsOK, OpShape, DaemonOK, CountsOK, RequestOK,
                daemonVars

LEMMA DispatchRestType ==
  ASSUME TypeInv, DispatchAnswer \/ DispatchGarbled \/ DispatchEnds \/ HandlerRaises
  PROVE  TypeInv'
  <1>1. QueuesOK'
    BY EndFrameType, HeadOfWire
       DEF DispatchAnswer, DispatchGarbled, DispatchEnds, HandlerRaises, TypeInv, QueuesOK
  <1>2. CountsOK'
    BY DEF DispatchAnswer, DispatchGarbled, DispatchEnds, HandlerRaises, TypeInv, CountsOK,
           daemonVars
  <1> QED
    BY <1>1, <1>2 DEF DispatchAnswer, DispatchGarbled, DispatchEnds, HandlerRaises, TypeInv,
                      SubscriptionsOK, OpShape, DaemonOK, RequestOK, daemonVars

LEMMA HandlerType ==
  ASSUME TypeInv, InvokeHandler \/ HandlerReturns
  PROVE  TypeInv'
  <1>1. disp \in Frame
    BY DEF TypeInv, QueuesOK
  <1>2. disp' \in Frame
    <2>1. CASE InvokeHandler
      <3>1. PICK e \in disp.todo : disp' = [disp EXCEPT !.running = e.h, !.todo = @ \ {e}]
        BY <2>1 DEF InvokeHandler
      <3>2. e.h \in Handlers
        BY <1>1 DEF Frame, Entry
      <3> QED
        BY <1>1, <3>1, <3>2 DEF Frame
    <2>2. CASE HandlerReturns
      BY <1>1, <2>2 DEF HandlerReturns, Frame
    <2> QED
      BY <2>1, <2>2
  <1> QED
    BY <1>2, ZenonT(60) DEF InvokeHandler, HandlerReturns, TypeInv, SubscriptionsOK, OpShape, QueuesOK,
                DaemonOK, CountsOK, RequestOK, daemonVars

-----------------------------------------------------------------------------
(* The daemon and the peers *)

LEMMA DaemonServesType == ASSUME TypeInv, DaemonServes PROVE TypeInv'
  <1> DEFINE r == Head(inbox)
  <1>1. r \in Request /\ inbox' \in Seq(Request)
    BY DEF DaemonServes, TypeInv, DaemonOK
  <1>2. RequestOK(r) /\ \A i \in DOMAIN inbox' : RequestOK(inbox'[i])
    <2>1. \A i \in DOMAIN inbox : RequestOK(inbox[i])
      BY DEF TypeInv, DaemonOK
    <2>2. inbox # <<>> /\ inbox \in Seq(Request) /\ inbox' = Tail(inbox)
      BY DEF DaemonServes, TypeInv, DaemonOK
    <2> QED
      BY <2>1, <2>2
  <1>3. r.serial \in Nat /\ r.arg \in Senders
    BY <1>1 DEF Request
  <1> HIDE DEF r
  <1>4. Serve(r)
    BY DEF DaemonServes, r
  <1>5. ASSUME NEW v \in Peers \cup {Nobody} PROVE Reply(r, v) \in Message
    BY <1>3 DEF Reply, Message, AnswerMsg
  <1>6. Refusal(r) \in Message
    BY <1>3 DEF Refusal, Message, AnswerMsg
  <1>7. r.method = "GetNameOwner" => owner[r.arg] \in Peers \cup {Nobody}
    BY <1>2 DEF RequestOK, TypeInv, DaemonOK
  <1>8. wire' \in Seq(Message)
    BY <1>4, <1>5, <1>6, <1>7, SMTT(60) DEF Serve, TypeInv, QueuesOK
  <1>9. matches' \in [Senders -> Nat] /\ rpcs' \in SUBSET Nat
    <2>1. matches \in [Senders -> Nat] /\ rpcs \in SUBSET Nat
      BY DEF TypeInv, DaemonOK
    <2>2. CASE r.method = "AddMatch"
      <3>1. \/ matches' = [matches EXCEPT ![r.arg] = @ + 1]
            \/ matches' = matches
        BY <1>4, <2>2 DEF Serve
      <3>2. matches' \in [Senders -> Nat]
        BY <1>3, <2>1, <3>1
      <3>3. rpcs' = rpcs
        BY <1>4, <2>2 DEF Serve
      <3> QED
        BY <2>1, <3>2, <3>3
    <2>3. CASE r.method = "RemoveMatch"
      <3>1. \/ matches[r.arg] > 0 /\ matches' = [matches EXCEPT ![r.arg] = @ - 1]
            \/ matches' = matches
        BY <1>4, <2>3 DEF Serve
      <3>2. matches' \in [Senders -> Nat]
        BY <1>3, <2>1, <3>1
      <3>3. rpcs' = rpcs
        BY <1>4, <2>3 DEF Serve
      <3> QED
        BY <2>1, <3>2, <3>3
    <2>4. CASE r.method = "GetNameOwner"
      <3>1. matches' = matches /\ rpcs' = rpcs
        BY <1>4, <2>4 DEF Serve
      <3> QED
        BY <2>1, <3>1
    <2>5. CASE r.method = "Call"
      <3>1. matches' = matches /\ rpcs' = rpcs \cup {r.serial}
        BY <1>4, <2>5 DEF Serve
      <3> QED
        BY <1>3, <2>1, <3>1
    <2> QED
      BY <1>4, <2>2, <2>3, <2>4, <2>5 DEF Serve
  <1>10. watchedSince' \in Nat /\ faults' \in Nat
    BY <1>4 DEF Serve, Fault, TypeInv, CountsOK
  <1>11. DaemonOK'
    BY <1>1, <1>2, <1>9 DEF DaemonServes, TypeInv, DaemonOK, RequestOK
  <1>12. CountsOK' /\ QueuesOK'
    BY <1>8, <1>10 DEF DaemonServes, TypeInv, CountsOK, QueuesOK, clientVars
  <1>13. SubscriptionsOK'
    BY DEF DaemonServes, TypeInv, SubscriptionsOK, OpShape, clientVars
  <1> QED
    BY <1>11, <1>12, <1>13 DEF TypeInv

LEMMA PeerAnswersType == ASSUME TypeInv, PeerAnswers PROVE TypeInv'
  <1>1. PICK s \in rpcs, kind \in {"reply", "error"} :
          /\ rpcs' = rpcs \ {s}
          /\ wire' = Append(wire, [kind |-> kind, serial |-> s, value |-> Nobody])
    BY DEF PeerAnswers
  <1>2. [kind |-> kind, serial |-> s, value |-> Nobody] \in Message
    BY DEF TypeInv, DaemonOK, Message, AnswerMsg
  <1>3. wire' \in Seq(Message) /\ rpcs' \in SUBSET Nat
    BY <1>1, <1>2 DEF TypeInv, DaemonOK, QueuesOK
  <1> QED
    BY <1>3 DEF PeerAnswers, TypeInv, SubscriptionsOK, OpShape, QueuesOK, DaemonOK, CountsOK,
                RequestOK, clientVars

LEMMA OriginateType ==
  ASSUME TypeInv, NEW m \in Message, Originate(m)
  PROVE  wire' \in Seq(Message) /\ events' \in Nat
  BY DEF Originate, TypeInv, QueuesOK, CountsOK

LEMMA EventType ==
  ASSUME TypeInv,
         \/ CallClient \/ SendGarbled \/ DaemonStops
         \/ \E p \in Peers : EmitSignal(p)
         \/ \E n \in Names, p \in Peers \cup {Nobody} : ChangeOwner(n, p)
  PROVE  TypeInv'
  <1>1. wire' \in Seq(Message) /\ events' \in Nat
    <2>0. events + 1 \in Nat
      BY DEF TypeInv, CountsOK
    <2>1. CASE CallClient
      BY <2>0, <2>1, OriginateType DEF CallClient, Message, CallMsg
    <2>2. CASE SendGarbled
      BY <2>0, <2>2, OriginateType DEF SendGarbled, Message, Garbled
    <2>3. CASE DaemonStops
      BY <2>3 DEF DaemonStops, TypeInv, QueuesOK, CountsOK
    <2>4. ASSUME NEW p \in Peers, EmitSignal(p)
          PROVE  wire' \in Seq(Message) /\ events' \in Nat
      BY <2>0, <2>4, OriginateType DEF EmitSignal, Message, SignalMsg
    <2>5. ASSUME NEW n \in Names, NEW p \in Peers \cup {Nobody}, ChangeOwner(n, p)
          PROVE  wire' \in Seq(Message) /\ events' \in Nat
      <3>1. [kind |-> "owner", id |-> events + 1, name |-> n, new |-> p] \in Message
        BY <2>0 DEF Message, OwnerMsg
      <3> QED
        BY <2>5, <3>1, OriginateType DEF ChangeOwner, TypeInv, QueuesOK, CountsOK
    <2> QED
      BY <2>1, <2>2, <2>3, <2>4, <2>5
  <1>2. owner' \in [Names -> Peers \cup {Nobody}]
    BY DEF CallClient, SendGarbled, DaemonStops, EmitSignal, ChangeOwner, TypeInv, DaemonOK
  <1>3. UNCHANGED <<inbox, matches, rpcs, clientVars, watchedSince>>
    BY DEF CallClient, SendGarbled, DaemonStops, EmitSignal, ChangeOwner
  <1>4. faults' \in Nat /\ down' \in BOOLEAN
    <2>1. faults \in Nat /\ down \in BOOLEAN
      BY DEF TypeInv, CountsOK
    <2>2. CASE SendGarbled
      BY <2>1, <2>2 DEF SendGarbled, Fault
    <2>4. CASE DaemonStops
      BY <2>1, <2>4 DEF DaemonStops, Fault
    <2>3. CASE CallClient
      BY <2>1, <2>3 DEF CallClient
    <2> QED
      BY <2>1, <2>2, <2>3, <2>4 DEF EmitSignal, ChangeOwner
  <1>5. DaemonOK' /\ CountsOK'
    BY <1>1, <1>2, <1>3, <1>4 DEF TypeInv, DaemonOK, CountsOK, RequestOK, clientVars
  <1>6. QueuesOK' /\ SubscriptionsOK'
    BY <1>1, <1>3 DEF TypeInv, QueuesOK, SubscriptionsOK, OpShape, clientVars
  <1> QED
    BY <1>5, <1>6 DEF TypeInv

-----------------------------------------------------------------------------
LEMMA NextType == TypeInv /\ [Next]_vars => TypeInv'
  <1> SUFFICES ASSUME TypeInv, [Next]_vars PROVE TypeInv'
    OBVIOUS
  <1>1. CASE UNCHANGED vars
    BY <1>1 DEF vars, TypeInv, SubscriptionsOK, OpShape, QueuesOK, DaemonOK, CountsOK, RequestOK
  <1>2. CASE ClientStep
    BY <1>2, SubscribeType, UnsubscribeType, CallType, UnwatchType, CloseType, SendType,
       SendFailsType, TakeReplyType, ParkType, CallFailsType, BeginDispatchType,
       DispatchSignalType, DispatchCallType, DispatchRestType, HandlerType
       DEF ClientStep
  <1>3. CASE BusStep
    BY <1>3, DaemonServesType, PeerAnswersType, EventType DEF BusStep
  <1> QED
    BY <1>1, <1>2, <1>3 DEF Next

\* Type correctness: every reachable state of the connection, the daemon and
\* the queues between them has the types TypeOK gives it.
THEOREM TypeCorrect == Spec => []TypeOK
  <1>1. TypeInv => TypeOK
    BY DEF TypeInv, TypeOK, SubscriptionsOK, QueuesOK, DaemonOK, CountsOK
  <1> QED
    BY <1>1, InitType, NextType, PTL DEF Spec

-----------------------------------------------------------------------------
(***************************************************************************)
(* MatchInstalled.  The reference counts are the client's; the rules are    *)
(* the daemon's; between them are two queues in which requests that timed   *)
(* out are still travelling.  The invariant that carries the property says  *)
(* that nothing still travelling can remove a rule the client counts, and   *)
(* that the reply a call waits for proves the rule is there.                *)
(***************************************************************************)

\* Serials only grow, so no answer or request is ahead of the last call.
SerialsPast ==
    /\ \A i \in DOMAIN inbox : inbox[i].serial <= serial
    /\ \A i, j \in DOMAIN inbox : i < j => inbox[i].serial < inbox[j].serial
    /\ \A i \in DOMAIN wire : IsAnswer(wire[i]) => wire[i].serial <= serial
    /\ \A s \in rpcs : s <= serial

\* The request under the awaited serial is the one the operation sent.
RequestAwaited ==
    op.sent =>
        /\ \A i \in DOMAIN inbox : inbox[i].serial = serial =>
              inbox[i].method = RequestOf[1] /\ inbox[i].arg = RequestOf[2]
        /\ serial \in rpcs => op.stage = "rpc"

\* When AddMatch is answered, every earlier request has been served.
ReplyMeansInstalled ==
    (op.sent /\ op.stage \in {"watch", "match"}) =>
        \A i \in DOMAIN wire : (wire[i].kind = "reply" /\ wire[i].serial = serial) =>
            matches[RequestOf[2]] > 0 /\ inbox = <<>>

\* RemoveMatch is on its way only for rules without users.
RemovedUnused ==
    /\ op.stage = "release" => users[SenderOf[op.h]] <= 0
    /\ op.stage = "unwatching" => users[BusName] <= 0

Installed ==
    \A r \in Senders : users[r] > 0 =>
        /\ matches[r] > 0
        /\ \A i \in DOMAIN inbox : ~(inbox[i].method = "RemoveMatch" /\ inbox[i].arg = r)

MatchInv ==
    TypeInv /\ SerialsPast /\ RequestAwaited /\ ReplyMeansInstalled /\ RemovedUnused /\ Installed

LEMMA InitMatch == Init => MatchInv
  <1> SUFFICES ASSUME Init PROVE MatchInv
    OBVIOUS
  <1>1. SerialsPast /\ RequestAwaited /\ ReplyMeansInstalled /\ RemovedUnused /\ Installed
    BY DEF Init, Idle, SerialsPast, RequestAwaited, ReplyMeansInstalled, RemovedUnused, Installed
  <1> QED
    BY <1>1, InitType DEF MatchInv

\* What the client reads it takes away: the wire only loses messages.
WireShrinks == \A i \in DOMAIN wire' : \E j \in DOMAIN wire : wire'[i] = wire[j]

LEMMA ShrinkUnchanged == ASSUME UNCHANGED wire PROVE WireShrinks
  BY DEF WireShrinks

LEMMA ShrinkTail ==
  ASSUME wire \in Seq(Message), wire # <<>>, wire' = Tail(wire)
  PROVE  WireShrinks
  <1>1. ASSUME NEW i \in DOMAIN wire' PROVE i + 1 \in DOMAIN wire /\ wire'[i] = wire[i + 1]
    OBVIOUS
  <1> QED
    BY <1>1 DEF WireShrinks

LEMMA ShrinkBuffered ==
  ASSUME wire \in Seq(Message), KeepBuffered
  PROVE  WireShrinks
  <1>1. PICK n \in 0..Len(wire) : wire' = SubSeq(wire, 1, n)
    BY DEF KeepBuffered
  <1>2. ASSUME NEW i \in DOMAIN wire' PROVE i \in DOMAIN wire /\ wire'[i] = wire[i]
    BY <1>1
  <1> QED
    BY <1>2 DEF WireShrinks

\* Every client step but Send leaves requests and answers in order.
LEMMA SerialsKept ==
  ASSUME MatchInv, WireShrinks, UNCHANGED <<serial, inbox, rpcs>>
  PROVE  SerialsPast'
  BY DEF MatchInv, SerialsPast, WireShrinks, IsAnswer

LEMMA AddHandlerInstalled ==
  ASSUME MatchInv, NEW h \in Handlers, NEW unique, NEW resolved,
         AddHandler(h, unique, resolved), UNCHANGED <<inbox, matches>>,
         matches[SenderOf[h]] > 0,
         \A i \in DOMAIN inbox :
            ~(inbox[i].method = "RemoveMatch" /\ inbox[i].arg = SenderOf[h])
  PROVE  Installed'
  <1>1. users \in [Senders -> Int] /\ SenderOf[h] \in Senders
    BY SendersAssumption DEF MatchInv, TypeInv, SubscriptionsOK
  <1> QED
    BY <1>1 DEF MatchInv, Installed, AddHandler

\* The end of a call: a rule is counted only when its reply was seen.
LEMMA CompleteInstalled ==
  ASSUME MatchInv, NEW outcome, NEW value \in Peers \cup {Nobody}, Complete(outcome, value),
         UNCHANGED <<inbox, matches>>,
         (outcome = "reply" /\ op.stage \in {"watch", "match"})
            => matches[RequestOf[2]] > 0 /\ inbox = <<>>
  PROVE  Installed' /\ RemovedUnused' /\ ~op'.sent
  <1>2. users \in [Senders -> Int]
    BY DEF MatchInv, TypeInv, SubscriptionsOK
  <1>3. ASSUME op' \in {Idle, [Idle EXCEPT !.stage = "unwatch"]}, UNCHANGED users
        PROVE  Installed' /\ RemovedUnused' /\ ~op'.sent
    BY <1>3 DEF MatchInv, Installed, RemovedUnused, Idle
  <1>4. CASE op.stage \in {"rpc", "release", "unwatching"}
    BY <1>3, <1>4 DEF Complete, AfterRelease
  <1>5. CASE op.stage = "watch"
    <2>1. CASE outcome = "reply"
      <3>1. WatchInstalled(op.h)
        BY <1>5, <2>1 DEF Complete
      <3>2. matches[BusName] > 0 /\ inbox = <<>>
        BY <1>5, <2>1 DEF RequestOf
      <3>3. Installed'
        BY <1>2, <3>1, <3>2 DEF WatchInstalled, MatchInv, Installed, Senders
      <3>4. RemovedUnused' /\ ~op'.sent
        BY <3>1 DEF WatchInstalled, RemovedUnused, Idle
      <3> QED
        BY <3>3, <3>4
    <2>2. CASE outcome # "reply"
      BY <1>3, <1>5, <2>2 DEF Complete
    <2> QED
      BY <2>1, <2>2
  <1>6. CASE op.stage = "lookup"
    <2>1. op.h \in Handlers
      BY <1>6 DEF MatchInv, TypeInv, SubscriptionsOK, OpShape
    <2>2. SenderOf[op.h] \in Senders
      BY <2>1, SendersAssumption
    <2> DEFINE resolved == outcome # "none" /\ ~StaleOwners(SenderOf[op.h])
    <2>3. AcquireRule(op.h, value, resolved, op.started)
      BY <1>6 DEF Complete
    <2> HIDE DEF resolved
    <2>4. CASE users[SenderOf[op.h]] # 0
      <3>1. AddHandler(op.h, value, resolved)
        BY <2>3, <2>4 DEF AcquireRule
      <3>2. RemovedUnused' /\ ~op'.sent
        BY <3>1 DEF AddHandler, RemovedUnused, Idle
      <3>3. CASE users[SenderOf[op.h]] > 0
        <4>1. Installed'
          BY <2>1, <2>2, <3>1, <3>3, AddHandlerInstalled DEF MatchInv, Installed
        <4> QED
          BY <3>2, <4>1
      <3>4. CASE users[SenderOf[op.h]] < 0
        <4>1. \A r \in Senders : users'[r] > 0 => users[r] > 0
          BY <1>2, <2>2, <3>1, <3>4 DEF AddHandler
        <4>2. Installed'
          BY <4>1 DEF MatchInv, Installed
        <4> QED
          BY <3>2, <4>2
      <3> QED
        BY <1>2, <2>2, <2>4, <3>3, <3>4
    <2>5. CASE ~(users[SenderOf[op.h]] # 0)
      <3>1. /\ op' = [stage |-> "match", sent |-> FALSE, h |-> op.h, unique |-> value,
                       resolved |-> resolved, started |-> op.started]
            /\ UNCHANGED users
        BY <2>3, <2>5 DEF AcquireRule
      <3> QED
        BY <3>1 DEF MatchInv, Installed, RemovedUnused
    <2> QED
      BY <2>4, <2>5
  <1>7. CASE op.stage = "match"
    <2>1. CASE outcome = "reply"
      <3>1. AddHandler(op.h, op.unique, op.resolved)
        BY <1>7, <2>1 DEF Complete
      <3>2. op.h \in Handlers
        BY <1>7 DEF MatchInv, TypeInv, SubscriptionsOK, OpShape
      <3>3. matches[SenderOf[op.h]] > 0 /\ inbox = <<>>
        BY <1>7, <2>1 DEF RequestOf
      <3>4. Installed'
        BY <3>1, <3>2, <3>3, AddHandlerInstalled
      <3>5. RemovedUnused' /\ ~op'.sent
        BY <3>1 DEF AddHandler, RemovedUnused, Idle
      <3> QED
        BY <3>4, <3>5
    <2>2. CASE outcome # "reply"
      BY <1>3, <1>7, <2>2 DEF Complete
    <2> QED
      BY <2>1, <2>2
  <1>8. op.stage \in Calls
    BY CompleteType DEF MatchInv
  <1> QED
    BY <1>4, <1>5, <1>6, <1>7, <1>8 DEF Calls

\* A step that leaves no call outstanding leaves nothing awaited.
LEMMA NothingAwaited ==
  ASSUME ~op'.sent
  PROVE  RequestAwaited' /\ ReplyMeansInstalled'
  BY DEF RequestAwaited, ReplyMeansInstalled

LEMMA CallEndsMatch ==
  ASSUME MatchInv,
         SendFails \/ TakeReply \/ CallReadsGarbled \/ CallTimesOut \/ CallHitsEnd
  PROVE  MatchInv'
  <1>1. TypeInv'
    BY SendFailsType, TakeReplyType, CallFailsType DEF MatchInv
  <1>2. UNCHANGED <<serial, inbox, rpcs, matches>>
    BY DEF SendFails, TakeReply, CallReadsGarbled, CallTimesOut, CallHitsEnd, daemonVars
  <1>3. wire \in Seq(Message)
    BY DEF MatchInv, TypeInv, QueuesOK
  <1>4. WireShrinks
    BY <1>3, ShrinkUnchanged, ShrinkTail, ShrinkBuffered
       DEF SendFails, TakeReply, CallReadsGarbled, CallTimesOut, CallHitsEnd
  <1>5. SerialsPast'
    BY <1>2, <1>4, SerialsKept
  <1>6. Installed' /\ RemovedUnused' /\ ~op'.sent
    <2>1. CASE TakeReply
      <3>1. Head(wire) \in Message /\ IsAnswer(Head(wire)) /\ Head(wire).serial = serial
        BY <1>3, <2>1, HeadOfWire DEF TakeReply
      <3>2. Head(wire).value \in Peers \cup {Nobody}
        BY <3>1, AnswerType DEF AnswerMsg
      <3>3. 1 \in DOMAIN wire /\ wire[1] = Head(wire)
        BY <1>3, <2>1 DEF TakeReply
      <3>4. (Head(wire).kind = "reply" /\ op.stage \in {"watch", "match"})
              => matches[RequestOf[2]] > 0 /\ inbox = <<>>
        BY <2>1, <3>1, <3>3 DEF TakeReply, MatchInv, ReplyMeansInstalled
      <3>5. Complete(Head(wire).kind, Head(wire).value)
        BY <2>1 DEF TakeReply
      <3> QED
        BY <1>2, <3>2, <3>4, <3>5, CompleteInstalled
    <2>2. CASE SendFails \/ CallReadsGarbled \/ CallTimesOut \/ CallHitsEnd
      <3>1. Complete("none", Nobody)
        BY <2>2 DEF SendFails, CallReadsGarbled, CallTimesOut, CallHitsEnd
      <3> QED
        BY <1>2, <3>1, CompleteInstalled
    <2> QED
      BY <2>1, <2>2
  <1> QED
    BY <1>1, <1>5, <1>6, NothingAwaited DEF MatchInv

LEMMA SubscribeMatch ==
  ASSUME MatchInv, NEW h \in Handlers, Subscribe(h)
  PROVE  MatchInv'
  <1>1. TypeInv'
    BY SubscribeType DEF MatchInv
  <1>2. UNCHANGED <<serial, inbox, rpcs, matches, wire>>
    BY DEF Subscribe, daemonVars
  <1>3. SerialsPast'
    BY <1>2, SerialsKept, ShrinkUnchanged
  <1>4. users \in [Senders -> Int] /\ SenderOf[h] \in Senders
    BY SendersAssumption DEF MatchInv, TypeInv, SubscriptionsOK
  <1>6. Installed' /\ RemovedUnused' /\ ~op'.sent
    <2>1. ASSUME op' \in {[Idle EXCEPT !.stage = "watch", !.h = h],
                          [Idle EXCEPT !.stage = "lookup", !.h = h]},
                 UNCHANGED users
          PROVE  Installed' /\ RemovedUnused' /\ ~op'.sent
      BY <1>2, <2>1 DEF MatchInv, Installed, RemovedUnused, Idle
    <2>2. CASE users[BusName] # 0 /\ WatchInstalled(h)
      <3>1. \A r \in Senders : users'[r] > 0 => users[r] > 0
        BY <1>4, <2>2 DEF WatchInstalled, Senders
      <3>2. Installed'
        BY <1>2, <3>1 DEF MatchInv, Installed
      <3> QED
        BY <2>2, <3>2 DEF WatchInstalled, RemovedUnused, Idle
    <2>3. CASE AcquireRule(h, SenderOf[h], TRUE, FALSE)
      <3>1. CASE users[SenderOf[h]] # 0
        <4>1. AddHandler(h, SenderOf[h], TRUE)
          BY <2>3, <3>1 DEF AcquireRule
        <4>2. \A r \in Senders : users'[r] > 0 => users[r] > 0
          BY <1>4, <3>1, <4>1 DEF AddHandler
        <4>3. Installed'
          BY <1>2, <4>2 DEF MatchInv, Installed
        <4> QED
          BY <4>1, <4>3 DEF AddHandler, RemovedUnused, Idle
      <3>2. CASE ~(users[SenderOf[h]] # 0)
        <4>1. UNCHANGED users /\ op'.stage = "match" /\ ~op'.sent
          BY <2>3, <3>2 DEF AcquireRule
        <4> QED
          BY <1>2, <4>1 DEF MatchInv, Installed, RemovedUnused
      <3> QED
        BY <3>1, <3>2
    <2> QED
      BY <2>1, <2>2, <2>3 DEF Subscribe
  <1> QED
    BY <1>1, <1>3, <1>6, NothingAwaited DEF MatchInv

LEMMA UnsubscribeMatch ==
  ASSUME MatchInv, NEW h \in Handlers, Unsubscribe(h)
  PROVE  MatchInv'
  <1>1. TypeInv'
    BY UnsubscribeType DEF MatchInv
  <1>2. UNCHANGED <<serial, inbox, rpcs, matches, wire>>
    BY DEF Unsubscribe, Released, daemonVars
  <1>3. SerialsPast'
    BY <1>2, SerialsKept, ShrinkUnchanged
  <1>5. Cardinality(Of(h)) \in Nat
    <2>1. IsFiniteSet(handlers) /\ Of(h) \in SUBSET handlers
      BY DEF MatchInv, TypeInv, SubscriptionsOK, Of
    <2> QED
      BY <2>1, FS_Subset, FS_CardinalityType
  <1>6. users \in [Senders -> Int] /\ SenderOf[h] \in Senders
    BY SendersAssumption DEF MatchInv, TypeInv, SubscriptionsOK
  <1>7. users' = [users EXCEPT ![SenderOf[h]] = @ - Cardinality(Of(h))]
    BY DEF Unsubscribe, Released
  <1>8. Installed'
    <2>1. \A r \in Senders : users'[r] > 0 => users[r] > 0
      BY <1>5, <1>6, <1>7
    <2> QED
      BY <1>2, <2>1 DEF MatchInv, Installed
  <1>9. RemovedUnused' /\ ~op'.sent
    <2>1. CASE op' \in {Idle, [Idle EXCEPT !.stage = "unwatch"]}
      BY <2>1 DEF RemovedUnused, Idle
    <2>2. CASE /\ op' = [Idle EXCEPT !.stage = "release", !.h = h]
               /\ users[SenderOf[h]] = Cardinality(Of(h))
      <3>1. users'[SenderOf[h]] = 0
        BY <1>5, <1>6, <1>7, <2>2
      <3> QED
        BY <2>2, <3>1 DEF RemovedUnused, Idle
    <2> QED
      BY <2>1, <2>2 DEF Unsubscribe, Released, AfterRelease
  <1> QED
    BY <1>1, <1>3, <1>8, <1>9, NothingAwaited DEF MatchInv

LEMMA UnwatchMatch == ASSUME MatchInv, Unwatch PROVE MatchInv'
  <1>1. TypeInv'
    BY UnwatchType DEF MatchInv
  <1>2. UNCHANGED <<serial, inbox, rpcs, matches, wire>>
    BY DEF Unwatch, daemonVars
  <1>3. SerialsPast'
    BY <1>2, SerialsKept, ShrinkUnchanged
  <1>5. users \in [Senders -> Int] /\ users' = [users EXCEPT ![BusName] = @ - 1]
    BY DEF Unwatch, MatchInv, TypeInv, SubscriptionsOK
  <1>6. Installed'
    <2>1. \A r \in Senders : users'[r] > 0 => users[r] > 0
      BY <1>5 DEF Senders
    <2> QED
      BY <1>2, <2>1 DEF MatchInv, Installed
  <1>7. RemovedUnused' /\ ~op'.sent
    <2>1. CASE op' = Idle
      BY <2>1 DEF RemovedUnused, Idle
    <2>2. CASE op' = [Idle EXCEPT !.stage = "unwatching"] /\ users[BusName] = 1
      <3>1. users'[BusName] = 0
        BY <1>5, <2>2 DEF Senders
      <3> QED
        BY <2>2, <3>1 DEF RemovedUnused, Idle
    <2> QED
      BY <2>1, <2>2 DEF Unwatch
  <1> QED
    BY <1>1, <1>3, <1>6, <1>7, NothingAwaited DEF MatchInv

LEMMA CallMatch == ASSUME MatchInv, NEW p \in Peers, Call(p) PROVE MatchInv'
  <1>1. TypeInv'
    BY CallType DEF MatchInv
  <1>2. UNCHANGED <<serial, inbox, rpcs, matches, wire, users>>
    BY DEF Call, daemonVars
  <1>3. SerialsPast'
    BY <1>2, SerialsKept, ShrinkUnchanged
  <1>4. op'.stage = "rpc" /\ ~op'.sent
    BY DEF Call, Idle
  <1>5. Installed' /\ RemovedUnused'
    BY <1>2, <1>4 DEF MatchInv, Installed, RemovedUnused
  <1> QED
    BY <1>1, <1>3, <1>4, <1>5, NothingAwaited DEF MatchInv

LEMMA SendMatch == ASSUME MatchInv, Send PROVE MatchInv'
  <1>1. TypeInv'
    BY SendType DEF MatchInv
  <1> DEFINE r == [method |-> RequestOf[1], arg |-> RequestOf[2], serial |-> serial + 1]
  <1>2. serial' = serial + 1 /\ inbox' = Append(inbox, r) /\ op' = [op EXCEPT !.sent = TRUE]
    BY DEF Send
  <1>3. UNCHANGED <<wire, rpcs, matches, users, closed, down>>
    BY DEF Send
  <1>4. /\ r.serial = serial + 1 /\ r.method = RequestOf[1] /\ r.arg = RequestOf[2]
        /\ serial \in Nat /\ inbox \in Seq(Request) /\ wire \in Seq(Message)
        /\ rpcs \in SUBSET Nat /\ op \in Operation /\ r \in Request
    <2>1. \A i \in DOMAIN inbox' : inbox'[i] \in Request
      BY <1>1 DEF TypeInv, DaemonOK
    <2>2. inbox \in Seq(Request)
      BY DEF MatchInv, TypeInv, DaemonOK
    <2>3. Len(inbox) + 1 \in DOMAIN inbox' /\ inbox'[Len(inbox) + 1] = r
      BY <1>2, <2>2
    <2> HIDE DEF r
    <2>4. r \in Request
      BY <2>1, <2>3
    <2> USE DEF r
    <2> QED
      BY <2>2, <2>4 DEF MatchInv, TypeInv, CountsOK, QueuesOK, DaemonOK, SubscriptionsOK
  <1> HIDE DEF r
  <1>5. \A i \in DOMAIN inbox' :
          \/ i \in DOMAIN inbox /\ inbox'[i] = inbox[i]
          \/ i = Len(inbox) + 1 /\ inbox'[i] = r
    BY <1>2, <1>4
  <1>6. \A i \in DOMAIN inbox : i < Len(inbox) + 1 /\ inbox[i].serial \in Nat
    <2> SUFFICES ASSUME NEW i \in DOMAIN inbox
                 PROVE  i < Len(inbox) + 1 /\ inbox[i].serial \in Nat
      OBVIOUS
    <2>1. i \in 1..Len(inbox) /\ Len(inbox) \in Nat /\ inbox[i] \in Request
      BY <1>4
    <2>2. inbox[i].serial \in Nat
      BY <2>1 DEF Request
    <2> QED
      BY <2>1, <2>2
  <1>7. SerialsPast'
    <2>1. \A i \in DOMAIN inbox' : inbox'[i].serial <= serial'
      BY <1>2, <1>4, <1>5, <1>6 DEF MatchInv, SerialsPast
    <2>2. \A i, j \in DOMAIN inbox' : i < j => inbox'[i].serial < inbox'[j].serial
      <3> SUFFICES ASSUME NEW i \in DOMAIN inbox', NEW j \in DOMAIN inbox', i < j
                   PROVE  inbox'[i].serial < inbox'[j].serial
        OBVIOUS
      <3>1. i \in DOMAIN inbox /\ inbox'[i] = inbox[i]
        BY <1>2, <1>4, <1>5
      <3>2. inbox[i].serial <= serial /\ inbox[i].serial \in Nat
        BY <1>6, <3>1 DEF MatchInv, SerialsPast
      <3>3. CASE j \in DOMAIN inbox /\ inbox'[j] = inbox[j]
        BY <3>1, <3>3 DEF MatchInv, SerialsPast
      <3>4. CASE inbox'[j] = r
        BY <1>4, <3>1, <3>2, <3>4
      <3> QED
        BY <1>5, <3>3, <3>4
    <2>3. \A i \in DOMAIN wire' : IsAnswer(wire'[i]) => wire'[i].serial <= serial'
      <3>1. ASSUME NEW i \in DOMAIN wire, IsAnswer(wire[i]) PROVE wire[i].serial <= serial + 1
        <4>1. wire[i] \in AnswerMsg
          BY <1>4, <3>1, AnswerType
        <4> QED
          BY <1>4, <3>1, <4>1 DEF MatchInv, SerialsPast, AnswerMsg
      <3> QED
        BY <1>2, <1>3, <3>1
    <2>4. \A s \in rpcs' : s <= serial'
      BY <1>2, <1>3, <1>4 DEF MatchInv, SerialsPast
    <2> QED
      BY <2>1, <2>2, <2>3, <2>4 DEF SerialsPast
  <1>8. RequestOf' = RequestOf /\ op'.stage = op.stage /\ op'.h = op.h
    BY <1>2, <1>4 DEF RequestOf, Operation
  <1>9. RequestAwaited'
    <2>1. ASSUME NEW i \in DOMAIN inbox', inbox'[i].serial = serial' PROVE inbox'[i] = r
      BY <1>2, <1>4, <1>5, <1>6, <2>1 DEF MatchInv, SerialsPast
    <2>2. serial' \notin rpcs'
      BY <1>2, <1>3, <1>4 DEF MatchInv, SerialsPast
    <2> QED
      BY <1>4, <1>8, <2>1, <2>2 DEF RequestAwaited
  <1>10. ReplyMeansInstalled'
    <2>1. ASSUME NEW i \in DOMAIN wire', wire'[i].kind = "reply" PROVE wire'[i].serial # serial'
      <3>1. wire[i] \in AnswerMsg /\ IsAnswer(wire[i]) /\ i \in DOMAIN wire
        BY <1>3, <1>4, <2>1, AnswerType DEF IsAnswer
      <3>2. wire[i].serial \in Nat /\ wire[i].serial <= serial
        BY <3>1 DEF MatchInv, SerialsPast, AnswerMsg
      <3> QED
        BY <1>2, <1>3, <1>4, <3>2
    <2> QED
      BY <2>1 DEF ReplyMeansInstalled
  <1>11. RemovedUnused'
    BY <1>3, <1>8 DEF MatchInv, RemovedUnused
  <1>12. Installed'
    <2> SUFFICES ASSUME NEW q \in Senders, users'[q] > 0
                 PROVE  /\ matches'[q] > 0
                        /\ \A i \in DOMAIN inbox' :
                             ~(inbox'[i].method = "RemoveMatch" /\ inbox'[i].arg = q)
      BY DEF Installed
    <2>1. /\ matches[q] > 0
          /\ \A i \in DOMAIN inbox : ~(inbox[i].method = "RemoveMatch" /\ inbox[i].arg = q)
      BY <1>3 DEF MatchInv, Installed
    <2>2. ~(r.method = "RemoveMatch" /\ r.arg = q)
      <3>1. CASE op.stage = "release"
        <4>1. users[SenderOf[op.h]] <= 0 /\ r.arg = SenderOf[op.h]
          BY <1>4, <3>1 DEF MatchInv, RemovedUnused, RequestOf
        <4>2. users[q] > 0 /\ users \in [Senders -> Int]
          BY <1>3 DEF MatchInv, TypeInv, SubscriptionsOK
        <4> QED
          BY <4>1, <4>2
      <3>2. CASE op.stage = "unwatching"
        <4>1. users[BusName] <= 0 /\ r.arg = BusName
          BY <1>4, <3>2 DEF MatchInv, RemovedUnused, RequestOf
        <4>2. users[q] > 0 /\ users \in [Senders -> Int]
          BY <1>3 DEF MatchInv, TypeInv, SubscriptionsOK
        <4> QED
          BY <4>1, <4>2
      <3>3. CASE op.stage \in {"rpc", "watch", "lookup", "match"}
        BY <1>4, <3>3 DEF RequestOf
      <3> QED
        BY <3>1, <3>2, <3>3 DEF Send, Calls
    <2> QED
      BY <1>3, <1>5, <2>1, <2>2
  <1> QED
    BY <1>1, <1>7, <1>9, <1>10, <1>11, <1>12 DEF MatchInv

\* The steps that touch neither the operation nor the counts.
LEMMA QuietMatch ==
  ASSUME MatchInv, TypeInv', WireShrinks,
         UNCHANGED <<serial, inbox, rpcs, matches, op, users>>
  PROVE  MatchInv'
  <1>1. SerialsPast'
    BY SerialsKept
  <1>3. RequestOf' = RequestOf
    BY DEF RequestOf
  <1>4. RequestAwaited' /\ RemovedUnused'
    BY <1>3 DEF MatchInv, RequestAwaited, RemovedUnused
  <1>5. ReplyMeansInstalled'
    BY <1>3 DEF MatchInv, ReplyMeansInstalled, WireShrinks
  <1>6. Installed'
    BY DEF MatchInv, Installed
  <1> QED
    BY <1>1, <1>4, <1>5, <1>6 DEF MatchInv

LEMMA TakeNextShrinks ==
  ASSUME wire \in Seq(Message), Pending, TakeNext
  PROVE  WireShrinks
  <1>1. CASE FromParked
    BY <1>1, ShrinkUnchanged DEF TakeNext
  <1>2. CASE ~FromParked
    BY <1>2, ShrinkTail DEF TakeNext, Pending, FromParked
  <1> QED
    BY <1>1, <1>2

LEMMA ReadingMatch ==
  ASSUME MatchInv,
         \/ Close \/ Park \/ DispatchSignal \/ DispatchCall \/ DispatchAnswer
         \/ DispatchGarbled \/ DispatchEnds \/ InvokeHandler \/ HandlerReturns \/ HandlerRaises
         \/ \E serve \in BOOLEAN : BeginDispatch(serve)
  PROVE  MatchInv'
  <1>1. TypeInv /\ wire \in Seq(Message)
    BY DEF MatchInv, TypeInv, QueuesOK
  <1>2. TypeInv'
    BY <1>1, CloseType, ParkType, BeginDispatchType, DispatchSignalType, DispatchCallType,
       DispatchRestType, HandlerType
  <1>3. CASE Close \/ Park
    <2>1. WireShrinks
      BY <1>1, <1>3, ShrinkBuffered, ShrinkTail DEF Close, Park
    <2> QED
      BY <1>2, <1>3, <2>1, QuietMatch DEF Close, Park, daemonVars
  <1>4. CASE DispatchSignal \/ DispatchCall
    <2>1. WireShrinks
      BY <1>1, <1>4, TakeNextShrinks DEF DispatchSignal, DispatchCall
    <2> QED
      BY <1>2, <1>4, <2>1, QuietMatch DEF DispatchSignal, DispatchCall, daemonVars
  <1>5. CASE DispatchAnswer \/ DispatchGarbled
    <2>1. WireShrinks
      BY <1>1, <1>5, ShrinkTail DEF DispatchAnswer, DispatchGarbled
    <2> QED
      BY <1>2, <1>5, <2>1, QuietMatch DEF DispatchAnswer, DispatchGarbled, daemonVars
  <1>6. CASE DispatchEnds \/ HandlerRaises
    <2>1. UNCHANGED <<wire, serial, inbox, rpcs, matches, op, users>>
      BY <1>6, SMTT(60) DEF DispatchEnds, HandlerRaises, daemonVars
    <2> QED
      BY <1>2, <2>1, ShrinkUnchanged, QuietMatch
  <1>7. CASE InvokeHandler \/ HandlerReturns
    <2>1. UNCHANGED <<wire, serial, inbox, rpcs, matches, op, users>>
      BY <1>7 DEF InvokeHandler, HandlerReturns, daemonVars
    <2> QED
      BY <1>2, <2>1, ShrinkUnchanged, QuietMatch
  <1>8. ASSUME NEW serve \in BOOLEAN, BeginDispatch(serve) PROVE MatchInv'
    <2>1. UNCHANGED <<wire, serial, inbox, rpcs, matches, op, users>>
      BY <1>8 DEF BeginDispatch, daemonVars
    <2> QED
      BY <1>2, <2>1, ShrinkUnchanged, QuietMatch
  <1> QED
    BY <1>3, <1>4, <1>5, <1>6, <1>7, <1>8

-----------------------------------------------------------------------------
(* The daemon's steps *)

\* A message is added that is not an answer: what answers there are is as before.
LEMMA EventMatch ==
  ASSUME MatchInv,
         \/ CallClient \/ SendGarbled \/ DaemonStops
         \/ \E p \in Peers : EmitSignal(p)
         \/ \E n \in Names, p \in Peers \cup {Nobody} : ChangeOwner(n, p)
  PROVE  MatchInv'
  <1>1. TypeInv'
    BY EventType DEF MatchInv
  <1>2. UNCHANGED <<inbox, matches, rpcs, clientVars>>
    BY DEF CallClient, SendGarbled, DaemonStops, EmitSignal, ChangeOwner
  <1>3. wire \in Seq(Message)
    BY DEF MatchInv, TypeInv, QueuesOK
  <1>4. \/ wire' = wire
        \/ \E m : wire' = Append(wire, m) /\ ~IsAnswer(m)
    <2>1. CASE CallClient
      BY <2>1 DEF CallClient, Originate, IsAnswer
    <2>2. CASE SendGarbled
      BY <2>2 DEF SendGarbled, Originate, IsAnswer
    <2>3. CASE DaemonStops
      BY <2>3 DEF DaemonStops
    <2>4. ASSUME NEW p \in Peers, EmitSignal(p)
          PROVE  \E m : wire' = Append(wire, m) /\ ~IsAnswer(m)
      BY <2>4 DEF EmitSignal, Originate, IsAnswer
    <2>5. ASSUME NEW n \in Names, NEW p \in Peers \cup {Nobody}, ChangeOwner(n, p)
          PROVE  \/ wire' = wire
                 \/ \E m : wire' = Append(wire, m) /\ ~IsAnswer(m)
      BY <2>5 DEF ChangeOwner, Originate, IsAnswer
    <2> QED
      BY <2>1, <2>2, <2>3, <2>4, <2>5
  <1>5. \A i \in DOMAIN wire' : IsAnswer(wire'[i]) => i \in DOMAIN wire /\ wire'[i] = wire[i]
    BY <1>3, <1>4
  <1>6. SerialsPast'
    BY <1>2, <1>5 DEF MatchInv, SerialsPast, clientVars
  <1>7. RequestOf' = RequestOf
    BY <1>2 DEF RequestOf, clientVars
  <1>8. RequestAwaited' /\ RemovedUnused'
    BY <1>2, <1>7 DEF MatchInv, RequestAwaited, RemovedUnused, clientVars
  <1>9. ReplyMeansInstalled'
    BY <1>2, <1>5, <1>7 DEF MatchInv, ReplyMeansInstalled, IsAnswer, clientVars
  <1>10. Installed'
    BY <1>2 DEF MatchInv, Installed, clientVars
  <1> QED
    BY <1>1, <1>6, <1>8, <1>9, <1>10 DEF MatchInv

\* A peer's answer is never the answer to an AddMatch.
LEMMA PeerAnswersMatch == ASSUME MatchInv, PeerAnswers PROVE MatchInv'
  <1>1. TypeInv'
    BY PeerAnswersType DEF MatchInv
  <1>2. PICK s \in rpcs, kind \in {"reply", "error"} :
          /\ rpcs' = rpcs \ {s}
          /\ wire' = Append(wire, [kind |-> kind, serial |-> s, value |-> Nobody])
    BY DEF PeerAnswers
  <1> DEFINE a == [kind |-> kind, serial |-> s, value |-> Nobody]
  <1>3. UNCHANGED <<inbox, matches, down, clientVars>>
    BY DEF PeerAnswers
  <1>4. wire \in Seq(Message) /\ s <= serial /\ a.serial = s
    BY DEF MatchInv, TypeInv, QueuesOK, SerialsPast
  <1> HIDE DEF a
  <1>5. \A i \in DOMAIN wire' : (i \in DOMAIN wire /\ wire'[i] = wire[i]) \/ wire'[i] = a
    BY <1>2, <1>4 DEF a
  <1>6. SerialsPast'
    BY <1>2, <1>3, <1>4, <1>5 DEF MatchInv, SerialsPast, clientVars
  <1>7. RequestOf' = RequestOf
    BY <1>3 DEF RequestOf, clientVars
  <1>8. RequestAwaited' /\ RemovedUnused'
    BY <1>2, <1>3, <1>7 DEF MatchInv, RequestAwaited, RemovedUnused, clientVars
  <1>9. ReplyMeansInstalled'
    <2> SUFFICES ASSUME op'.sent, op'.stage \in {"watch", "match"},
                        NEW i \in DOMAIN wire', wire'[i].kind = "reply",
                        wire'[i].serial = serial'
                 PROVE  matches'[RequestOf'[2]] > 0 /\ inbox' = <<>>
      BY DEF ReplyMeansInstalled
    <2>1. serial \notin rpcs
      BY <1>3 DEF MatchInv, RequestAwaited, clientVars
    <2>2. wire'[i] # a
      BY <1>3, <1>4, <2>1 DEF clientVars
    <2>3. i \in DOMAIN wire /\ wire'[i] = wire[i]
      BY <1>5, <2>2
    <2> QED
      BY <1>3, <1>7, <2>3 DEF MatchInv, ReplyMeansInstalled, clientVars
  <1>10. Installed'
    BY <1>3 DEF MatchInv, Installed, clientVars
  <1> QED
    BY <1>1, <1>6, <1>8, <1>9, <1>10 DEF MatchInv

LEMMA DaemonServesMatch == ASSUME MatchInv, DaemonServes PROVE MatchInv'
  <1>1. TypeInv'
    BY DaemonServesType DEF MatchInv
  <1> DEFINE r == Head(inbox)
  <1>2. /\ inbox \in Seq(Request) /\ inbox # <<>> /\ inbox' = Tail(inbox)
        /\ wire \in Seq(Message) /\ serial \in Nat /\ matches \in [Senders -> Nat]
    BY DEF DaemonServes, MatchInv, TypeInv, DaemonOK, QueuesOK, CountsOK
  <1>3. r \in Request /\ 1 \in DOMAIN inbox /\ r = inbox[1]
    BY <1>2
  <1>4. \A i \in DOMAIN inbox' : i + 1 \in DOMAIN inbox /\ inbox'[i] = inbox[i + 1]
    BY <1>2
  <1> HIDE DEF r
  <1>5. r.serial \in Nat /\ r.arg \in Senders
    BY <1>3 DEF Request
  <1>6. r.serial <= serial
    BY <1>3 DEF MatchInv, SerialsPast
  <1>7. Serve(r) /\ UNCHANGED <<clientVars, owner, down, events>>
    BY DEF DaemonServes, r
  <1>8. RequestOf' = RequestOf
    BY <1>7 DEF RequestOf, clientVars
  \* The request under the awaited serial is the last one.
  <1>9. r.serial = serial => inbox' = <<>>
    <2> SUFFICES ASSUME r.serial = serial, inbox' # <<>> PROVE FALSE
      OBVIOUS
    <2>1. 2 \in DOMAIN inbox /\ inbox[2] \in Request
      BY <1>2
    <2>2. inbox[1].serial < inbox[2].serial /\ inbox[2].serial <= serial
      BY <1>3, <2>1 DEF MatchInv, SerialsPast
    <2>3. inbox[2].serial \in Nat
      BY <2>1 DEF Request
    <2> QED
      BY <1>2, <1>3, <2>2, <2>3
  <1>10. \/ wire' = wire /\ r.method = "Call"
         \/ \E a \in Message : wire' = Append(wire, a) /\ a.serial = r.serial /\ r.method # "Call"
    <2>1. ASSUME NEW v \in Peers \cup {Nobody}
          PROVE  Reply(r, v) \in Message /\ Reply(r, v).serial = r.serial
      BY <1>5 DEF Reply, Message, AnswerMsg
    <2>2. Refusal(r) \in Message /\ Refusal(r).serial = r.serial
      BY <1>5 DEF Refusal, Message, AnswerMsg
    <2>3. r.method = "GetNameOwner" => owner[r.arg] \in Peers \cup {Nobody}
      BY <1>3 DEF MatchInv, TypeInv, DaemonOK, RequestOK
    <2> QED
      BY <1>7, <2>1, <2>2, <2>3 DEF Serve
  <1>11. \A i \in DOMAIN wire' : \/ i \in DOMAIN wire /\ wire'[i] = wire[i]
                                \/ /\ wire'[i].serial = r.serial /\ r.method # "Call"
                                   /\ i = Len(wire) + 1 /\ Len(wire') = Len(wire) + 1
    <2>1. CASE wire' = wire
      BY <2>1
    <2>2. ASSUME NEW a \in Message, wire' = Append(wire, a), a.serial = r.serial,
                 r.method # "Call", NEW i \in DOMAIN wire'
          PROVE  \/ i \in DOMAIN wire /\ wire'[i] = wire[i]
                 \/ /\ wire'[i].serial = r.serial /\ i = Len(wire) + 1
                    /\ Len(wire') = Len(wire) + 1
      <3>1. CASE i = Len(wire) + 1
        BY <1>2, <2>2, <3>1
      <3>2. CASE i # Len(wire) + 1
        BY <1>2, <2>2, <3>2
      <3> QED
        BY <3>1, <3>2
    <2> QED
      BY <1>10, <2>1, <2>2
  <1>12. rpcs' = rpcs \/ (r.method = "Call" /\ rpcs' = rpcs \cup {r.serial})
    BY <1>7 DEF Serve
  <1>13. SerialsPast'
    <2>1. \A i \in DOMAIN inbox' : inbox'[i].serial <= serial'
      BY <1>4, <1>7 DEF MatchInv, SerialsPast, clientVars
    <2>2. \A i, j \in DOMAIN inbox' : i < j => inbox'[i].serial < inbox'[j].serial
      BY <1>2, <1>4 DEF MatchInv, SerialsPast
    <2>3. \A i \in DOMAIN wire' : IsAnswer(wire'[i]) => wire'[i].serial <= serial'
      BY <1>6, <1>7, <1>11 DEF MatchInv, SerialsPast, clientVars
    <2>4. \A s \in rpcs' : s <= serial'
      BY <1>6, <1>7, <1>12 DEF MatchInv, SerialsPast, clientVars
    <2> QED
      BY <2>1, <2>2, <2>3, <2>4 DEF SerialsPast
  <1>14. RequestAwaited'
    <2> SUFFICES ASSUME op.sent
                 PROVE  /\ \A i \in DOMAIN inbox' : inbox'[i].serial = serial =>
                              inbox'[i].method = RequestOf[1] /\ inbox'[i].arg = RequestOf[2]
                        /\ serial \in rpcs' => op.stage = "rpc"
      BY <1>7, <1>8 DEF RequestAwaited, clientVars
    <2>1. \A i \in DOMAIN inbox' : inbox'[i].serial = serial =>
             inbox'[i].method = RequestOf[1] /\ inbox'[i].arg = RequestOf[2]
      BY <1>4 DEF MatchInv, RequestAwaited
    <2>2. ASSUME serial \in rpcs' PROVE op.stage = "rpc"
      <3>1. CASE serial \in rpcs
        BY <3>1 DEF MatchInv, RequestAwaited
      <3>2. CASE r.method = "Call" /\ r.serial = serial
        <4>1. RequestOf[1] = "Call"
          BY <1>3, <3>2 DEF MatchInv, RequestAwaited
        <4>2. op.stage \in Calls
          BY DEF MatchInv, TypeInv, SubscriptionsOK, OpShape
        <4> QED
          BY <4>1, <4>2 DEF RequestOf, Calls
      <3> QED
        BY <1>12, <2>2, <3>1, <3>2
    <2> QED
      BY <2>1, <2>2
  <1>15. RemovedUnused'
    BY <1>7 DEF MatchInv, RemovedUnused, clientVars
  <1>16. ReplyMeansInstalled'
    <2> SUFFICES ASSUME op.sent, op.stage \in {"watch", "match"},
                        NEW i \in DOMAIN wire', wire'[i].kind = "reply",
                        wire'[i].serial = serial
                 PROVE  matches'[RequestOf[2]] > 0 /\ inbox' = <<>>
      BY <1>7, <1>8 DEF ReplyMeansInstalled, clientVars
    \* An older reply: the inbox was empty, so nothing was served now.
    <2>1. CASE i \in DOMAIN wire /\ wire'[i] = wire[i]
      BY <1>2, <2>1 DEF MatchInv, ReplyMeansInstalled
    <2>2. CASE ~(i \in DOMAIN wire /\ wire'[i] = wire[i])
      <3>1. r.serial = serial
        BY <1>11, <2>2
      <3>2. r.method = "AddMatch" /\ r.arg = RequestOf[2]
        BY <1>3, <3>1 DEF MatchInv, RequestAwaited, RequestOf
      <3>3. i = Len(wire) + 1 /\ Len(wire') = Len(wire) + 1
        BY <1>11, <2>2
      <3>4. wire' # Append(wire, Refusal(r))
        <4>1. Refusal(r).kind = "error"
          BY DEF Refusal
        <4> HIDE DEF Refusal
        <4>2. wire' = Append(wire, Refusal(r)) => wire'[i] = Refusal(r)
          BY <1>2, <3>3
        <4> QED
          BY <4>1, <4>2
      <3>5. matches' = [matches EXCEPT ![r.arg] = @ + 1]
        BY <1>7, <3>2, <3>4 DEF Serve
      <3>6. matches'[r.arg] > 0
        BY <1>2, <1>5, <3>5
      <3> QED
        BY <1>9, <3>1, <3>2, <3>6
    <2> QED
      BY <2>1, <2>2
  <1>17. Installed'
    <2> SUFFICES ASSUME NEW q \in Senders, users[q] > 0
                 PROVE  /\ matches'[q] > 0
                        /\ \A i \in DOMAIN inbox' :
                             ~(inbox'[i].method = "RemoveMatch" /\ inbox'[i].arg = q)
      BY <1>7, <1>8 DEF Installed, clientVars
    <2>1. /\ matches[q] > 0
          /\ \A i \in DOMAIN inbox : ~(inbox[i].method = "RemoveMatch" /\ inbox[i].arg = q)
      BY DEF MatchInv, Installed
    <2>2. \/ matches' = matches
          \/ matches' = [matches EXCEPT ![r.arg] = @ + 1]
          \/ r.method = "RemoveMatch" /\ matches' = [matches EXCEPT ![r.arg] = @ - 1]
      BY <1>7 DEF Serve
    <2>3. matches'[q] > 0
      <3>1. r.method = "RemoveMatch" => r.arg # q
        BY <1>3, <2>1
      <3> QED
        BY <1>2, <1>5, <2>1, <2>2, <3>1
    <2> QED
      BY <1>4, <2>1, <2>3
  <1> QED
    BY <1>1, <1>13, <1>14, <1>15, <1>16, <1>17 DEF MatchInv

-----------------------------------------------------------------------------
LEMMA NextMatch == MatchInv /\ [Next]_vars => MatchInv'
  <1> SUFFICES ASSUME MatchInv, [Next]_vars PROVE MatchInv'
    OBVIOUS
  <1>1. CASE UNCHANGED vars
    <2>1. TypeInv'
      BY <1>1, NextType DEF MatchInv
    <2>2. WireShrinks
      BY <1>1, ShrinkUnchanged DEF vars
    <2> QED
      BY <1>1, <2>1, <2>2, QuietMatch DEF vars
  <1>2. CASE ClientStep
    BY <1>2, SubscribeMatch, UnsubscribeMatch, CallMatch, UnwatchMatch, SendMatch, CallEndsMatch,
       ReadingMatch
       DEF ClientStep
  <1>3. CASE BusStep
    BY <1>3, DaemonServesMatch, PeerAnswersMatch, EventMatch DEF BusStep
  <1> QED
    BY <1>1, <1>2, <1>3 DEF Next

\* While the connection lives, every rule the client counts as held is installed
\* in the daemon, whatever timed out, was refused or was answered late before
\* (_acquire_match, _release_match).
THEOREM MatchesHeld == Spec => []MatchInstalled
  <1>1. MatchInv => MatchInstalled
    BY DEF MatchInv, Installed, MatchInstalled
  <1> QED
    BY <1>1, InitMatch, NextMatch, PTL DEF Spec
-----------------------------------------------------------------------------
(***************************************************************************)
(* The reference counts of BusConnection (_match_users) and the owner      *)
(* watch (_watching_owners) are exact, for every set of names, peers and   *)
(* handlers and for every value of the bounds.                             *)
(*                                                                         *)
(* Counts, entries and the watch change at different stages of a chain of  *)
(* calls, any of which may fail; Counted and WatchedFor say for each stage *)
(* what has been done already.  A dispatched owner change rewrites every   *)
(* entry at once; that no two of them become one is what Numbered is for.  *)
(***************************************************************************)


Uses(entries, r) == {e \in entries : SenderOf[e.h] = r}

\* The owner watch has its own use of the rule until it is being removed.
HoldsWatch == watching /\ op.stage # "unwatching"

Counted == \A r \in Senders :
    users[r] = Cardinality(Uses(handlers, r)) + (IF r = BusName /\ HoldsWatch THEN 1 ELSE 0)

\* The entries are numbered in the order they were made.
Numbered ==
    /\ \A e \in handlers : e.n <= subs
    /\ \A e, f \in handlers : e.n = f.n => e = f

\* Whether owners are watched, at each stage of subscribe() and unsubscribe().
WatchedFor ==
    /\ op.stage \in {"idle", "rpc"} => watching = NeedsWatch(handlers)
    /\ op.stage = "watch" => ~watching /\ ~NeedsWatch(handlers)
    /\ op.stage = "lookup" => watching
    /\ op.stage = "match" /\ WellKnown(op.h) => watching
    /\ op.stage \in {"lookup", "match"} =>
         IF op.started THEN watching /\ ~NeedsWatch(handlers) /\ WellKnown(op.h)
                       ELSE watching = NeedsWatch(handlers)
    /\ op.stage = "release" => (NeedsWatch(handlers) => watching)
    /\ op.stage \in {"unwatch", "unwatching"} => watching /\ ~NeedsWatch(handlers)

UsersInv == Counted /\ Numbered /\ WatchedFor

LEMMA InitUsers == Init => UsersInv
  <1> SUFFICES ASSUME Init PROVE UsersInv
    OBVIOUS
  <1>1. \A r \in Senders : Uses(handlers, r) = {} /\ users[r] = 0
    BY DEF Init, Uses
  <1>2. Counted
    <2>1. Cardinality({}) = 0 /\ ~HoldsWatch
      BY FS_EmptySet DEF HoldsWatch, Init
    <2> QED
      BY <1>1, <2>1 DEF Counted
  <1> QED
    BY <1>2 DEF Init, UsersInv, Numbered, WatchedFor, NeedsWatch, Idle

\* A step that leaves counts and entries alone and stays at its stage.
Uncounted == UNCHANGED <<handlers, subs, users, watching>>

LEMMA SameStage ==
  ASSUME UsersInv, Uncounted, op'.stage = op.stage, op'.h = op.h, op'.started = op.started
  PROVE  UsersInv'
  BY DEF UsersInv, Uncounted, Counted, Numbered, WatchedFor, HoldsWatch, NeedsWatch, WellKnown

LEMMA Uncounting ==
  ASSUME UsersInv, Uncounted, op.stage # "unwatching", op'.stage # "unwatching", WatchedFor'
  PROVE  UsersInv'
  BY DEF UsersInv, Uncounted, Counted, Numbered, HoldsWatch

LEMMA FiniteUses ==
  ASSUME TypeInv, NEW r
  PROVE  /\ IsFiniteSet(handlers) /\ IsFiniteSet(Uses(handlers, r))
         /\ Cardinality(Uses(handlers, r)) \in Nat
  <1>1. IsFiniteSet(handlers) /\ Uses(handlers, r) \in SUBSET handlers
    BY DEF TypeInv, SubscriptionsOK, Uses
  <1> QED
    BY <1>1, FS_Subset, FS_CardinalityType

-----------------------------------------------------------------------------
(* subscribe() *)

LEMMA AddHandlerUsers ==
  ASSUME TypeInv, UsersInv, NEW h \in Handlers, NEW unique, NEW resolved,
         AddHandler(h, unique, resolved), UNCHANGED watching, op.stage # "unwatching"
  PROVE  /\ Counted' /\ Numbered' /\ op' = Idle
         /\ NeedsWatch(handlers') <=> NeedsWatch(handlers) \/ WellKnown(h)
  <1> DEFINE new == [n |-> subs + 1, h |-> h, unique |-> unique, born |-> events,
                     resolved |-> resolved]
  <1>1. /\ handlers' = handlers \cup {new} /\ subs' = subs + 1 /\ op' = Idle
        /\ users' = [users EXCEPT ![SenderOf[h]] = @ + 1]
        /\ new.h = h /\ new.n = subs + 1
    BY DEF AddHandler
  <1>2. subs \in Nat /\ users \in [Senders -> Int] /\ \A e \in handlers : e.n \in Nat
    BY DEF TypeInv, SubscriptionsOK, Entry
  <1>3. new \notin handlers /\ Numbered'
    BY <1>1, <1>2 DEF UsersInv, Numbered
  <1>4. NeedsWatch(handlers') <=> NeedsWatch(handlers) \/ WellKnown(h)
    BY <1>1 DEF NeedsWatch
  <1>5. ASSUME NEW r \in Senders
        PROVE  users'[r] = Cardinality(Uses(handlers', r))
                           + (IF r = BusName /\ HoldsWatch' THEN 1 ELSE 0)
    <2>1. HoldsWatch' = HoldsWatch
      BY <1>1 DEF HoldsWatch, Idle
    <2>2. users[r] = Cardinality(Uses(handlers, r))
                     + (IF r = BusName /\ HoldsWatch THEN 1 ELSE 0)
      BY <1>5 DEF UsersInv, Counted
    <2>3. CASE r = SenderOf[h]
      <3>1. Uses(handlers', r) = Uses(handlers, r) \cup {new} /\ new \notin Uses(handlers, r)
        BY <1>1, <1>3, <2>3 DEF Uses
      <3>2. Cardinality(Uses(handlers', r)) = Cardinality(Uses(handlers, r)) + 1
        BY <3>1, FiniteUses, FS_AddElement
      <3>3. users'[r] = users[r] + 1
        BY <1>1, <1>2, <2>3
      <3>4. Cardinality(Uses(handlers, r)) \in Nat
        BY FiniteUses
      <3> QED
        BY <2>1, <2>2, <3>2, <3>3, <3>4
    <2>4. CASE r # SenderOf[h]
      <3>1. Uses(handlers', r) = Uses(handlers, r)
        BY <1>1, <2>4 DEF Uses
      <3>2. users'[r] = users[r]
        BY <1>1, <1>2, <2>4
      <3> QED
        BY <2>1, <2>2, <3>1, <3>2
    <2> QED
      BY <2>3, <2>4
  <1>6. Counted'
    BY <1>5 DEF Counted
  <1> QED
    BY <1>1, <1>3, <1>4, <1>6

\* The rule is held already, or asked for; in between nothing is counted.
LEMMA AcquireRuleUsers ==
  ASSUME TypeInv, UsersInv, NEW h \in Handlers, NEW unique, NEW resolved,
         NEW started \in BOOLEAN, AcquireRule(h, unique, resolved, started), UNCHANGED watching,
         op.stage # "unwatching", WellKnown(h) => watching,
         IF started THEN watching /\ ~NeedsWatch(handlers) /\ WellKnown(h)
                    ELSE watching = NeedsWatch(handlers)
  PROVE  UsersInv'
  <1>1. CASE users[SenderOf[h]] # 0
    <2>1. AddHandler(h, unique, resolved)
      BY <1>1 DEF AcquireRule
    <2>2. /\ Counted' /\ Numbered' /\ op' = Idle
          /\ NeedsWatch(handlers') <=> NeedsWatch(handlers) \/ WellKnown(h)
      BY <2>1, AddHandlerUsers
    <2>3. watching' = NeedsWatch(handlers')
      <3>1. watching \in BOOLEAN /\ NeedsWatch(handlers') \in BOOLEAN
        BY DEF TypeInv, SubscriptionsOK, NeedsWatch
      <3> QED
        BY <2>2, <3>1
    <2> QED
      BY <2>2, <2>3 DEF UsersInv, WatchedFor, Idle
  <1>2. CASE users[SenderOf[h]] = 0
    <2>1. /\ op' = [stage |-> "match", sent |-> FALSE, h |-> h, unique |-> unique,
                    resolved |-> resolved, started |-> started]
          /\ Uncounted
      BY <1>2 DEF AcquireRule, Uncounted
    <2>2. op'.stage = "match" /\ op'.h = h /\ op'.started = started
      BY <2>1
    <2>3. /\ watching' = watching /\ NeedsWatch(handlers)' = NeedsWatch(handlers)
          /\ WellKnown(op.h)' = WellKnown(h)
      BY <2>1, <2>2 DEF Uncounted, NeedsWatch, WellKnown
    <2>4. WatchedFor'
      BY <2>2, <2>3 DEF WatchedFor
    <2> QED
      BY <2>1, <2>2, <2>4, Uncounting
  <1> QED
    BY <1>1, <1>2

LEMMA WatchInstalledUsers ==
  ASSUME TypeInv, UsersInv, NEW h \in Handlers, WellKnown(h), WatchInstalled(h),
         ~watching, ~NeedsWatch(handlers)
  PROVE  UsersInv'
  <1>1. /\ users' = [users EXCEPT ![BusName] = @ + 1] /\ watching' = TRUE
        /\ UNCHANGED <<handlers, subs>>
        /\ op'.stage = "lookup" /\ op'.h = h /\ op'.started = TRUE
    BY DEF WatchInstalled, Idle
  <1>2. users \in [Senders -> Int] /\ BusName \in Senders
    BY DEF TypeInv, SubscriptionsOK, Senders
  <1>3. Counted'
    <2>1. HoldsWatch' /\ ~HoldsWatch
      BY <1>1 DEF HoldsWatch
    <2>2. \A r \in Senders : users[r] = Cardinality(Uses(handlers, r))
      <3>1. \A r \in Senders : Cardinality(Uses(handlers, r)) \in Nat
        BY FiniteUses
      <3> QED
        BY <2>1, <3>1 DEF UsersInv, Counted
    <2>3. \A r \in Senders : users'[r] = Cardinality(Uses(handlers', r))
                                         + (IF r = BusName THEN 1 ELSE 0)
      <3>1. \A r \in Senders : Cardinality(Uses(handlers, r)) \in Nat
        BY FiniteUses
      <3> QED
        BY <1>1, <1>2, <2>2, <3>1
    <2> QED
      BY <2>1, <2>3 DEF Counted
  <1>4. Numbered'
    BY <1>1 DEF UsersInv, Numbered
  <1>5. WatchedFor'
    BY <1>1 DEF WatchedFor, NeedsWatch, WellKnown
  <1> QED
    BY <1>3, <1>4, <1>5 DEF UsersInv

\* The first call of the chain, or the entry at once.
LEMMA SubscribeUsers ==
  ASSUME TypeInv, UsersInv, NEW h \in Handlers, Subscribe(h)
  PROVE  UsersInv'
  <1>1. op.stage = "idle" /\ watching = NeedsWatch(handlers)
    BY DEF Subscribe, MayAct, UsersInv, WatchedFor, Idle
  <1>2. CASE WellKnown(h) /\ ~watching /\ users[BusName] = 0
    <2>1. Uncounted /\ op'.stage = "watch"
      BY <1>2 DEF Subscribe, Uncounted, Idle
    <2>2. WatchedFor'
      BY <1>1, <1>2, <2>1 DEF WatchedFor, Uncounted, NeedsWatch, WellKnown
    <2> QED
      BY <1>1, <2>1, <2>2, Uncounting
  <1>3. CASE WellKnown(h) /\ ~watching /\ users[BusName] # 0
    <2>1. WatchInstalled(h) /\ ~NeedsWatch(handlers)
      BY <1>1, <1>3 DEF Subscribe
    <2> QED
      BY <1>3, <2>1, WatchInstalledUsers
  <1>4. CASE WellKnown(h) /\ watching
    <2>1. Uncounted /\ op'.stage = "lookup" /\ op'.started = FALSE
      BY <1>4 DEF Subscribe, Uncounted, Idle
    <2>2. WatchedFor'
      BY <1>1, <1>4, <2>1 DEF WatchedFor, Uncounted, NeedsWatch, WellKnown
    <2> QED
      BY <1>1, <2>1, <2>2, Uncounting
  <1>5. CASE ~WellKnown(h)
    <2>1. AcquireRule(h, SenderOf[h], TRUE, FALSE) /\ UNCHANGED watching
      BY <1>5 DEF Subscribe
    <2> QED
      BY <1>1, <1>5, <2>1, AcquireRuleUsers
  <1> QED
    BY <1>2, <1>3, <1>4, <1>5 DEF Subscribe

-----------------------------------------------------------------------------
(* The end of a call *)

LEMMA AfterReleaseUsers ==
  ASSUME AfterRelease(handlers'), UNCHANGED watching, watching \in BOOLEAN,
         NeedsWatch(handlers') => watching
  PROVE  op'.stage # "unwatching" /\ WatchedFor'
  <1>1. CASE watching /\ ~NeedsWatch(handlers')
    <2>1. op'.stage = "unwatch"
      BY <1>1 DEF AfterRelease, Idle
    <2> QED
      BY <1>1, <2>1 DEF WatchedFor
  <1>2. CASE ~(watching /\ ~NeedsWatch(handlers'))
    <2>1. op'.stage = "idle"
      BY <1>2 DEF AfterRelease, Idle
    <2>2. watching' = NeedsWatch(handlers')
      BY <1>2 DEF NeedsWatch
    <2> QED
      BY <2>1, <2>2 DEF WatchedFor
  <1> QED
    BY <1>1, <1>2

LEMMA CompleteUsers ==
  ASSUME TypeInv, UsersInv, NEW outcome, NEW value, Complete(outcome, value)
  PROVE  UsersInv'
  <1>0. /\ op.stage \in {"watch", "lookup", "match"} => op.h \in Handlers
        /\ op.stage \in {"watch", "lookup"} => WellKnown(op.h)
        /\ op.started \in BOOLEAN /\ watching \in BOOLEAN
    BY DEF TypeInv, SubscriptionsOK, OpShape, WellKnown, Operation
  <1>1. CASE op.stage = "rpc"
    <2>1. Uncounted /\ op'.stage = "idle"
      BY <1>1 DEF Complete, Uncounted, Idle
    <2>2. WatchedFor'
      BY <1>1, <2>1 DEF UsersInv, WatchedFor, Uncounted, NeedsWatch, WellKnown
    <2> QED
      BY <1>1, <2>1, <2>2, Uncounting
  <1>2. CASE op.stage = "watch"
    <2>1. ~watching /\ ~NeedsWatch(handlers)
      BY <1>2 DEF UsersInv, WatchedFor
    <2>2. CASE outcome = "reply"
      BY <1>0, <1>2, <2>1, <2>2, WatchInstalledUsers DEF Complete
    <2>3. CASE outcome # "reply"
      <3>1. Uncounted /\ op'.stage = "idle"
        BY <1>2, <2>3 DEF Complete, Uncounted, Idle
      <3>2. WatchedFor'
        BY <2>1, <3>1, <1>0 DEF WatchedFor, Uncounted, NeedsWatch, WellKnown
      <3> QED
        BY <1>2, <3>1, <3>2, Uncounting
    <2> QED
      BY <2>2, <2>3
  <1>3. CASE op.stage = "lookup"
    <2>1. PICK resolved : AcquireRule(op.h, value, resolved, op.started)
      BY <1>3 DEF Complete
    <2>2. UNCHANGED watching
      BY <1>3 DEF Complete
    <2> QED
      BY <1>0, <1>3, <2>1, <2>2, AcquireRuleUsers DEF UsersInv, WatchedFor
  <1>4. CASE op.stage = "match"
    <2>0. /\ WellKnown(op.h) => watching
          /\ IF op.started THEN watching /\ ~NeedsWatch(handlers) /\ WellKnown(op.h)
                           ELSE watching = NeedsWatch(handlers)
          /\ UNCHANGED watching
      BY <1>4 DEF UsersInv, WatchedFor, Complete
    <2>1. CASE outcome = "reply"
      <3>1. AddHandler(op.h, op.unique, op.resolved)
        BY <1>4, <2>1 DEF Complete
      <3>2. /\ Counted' /\ Numbered' /\ op' = Idle
            /\ NeedsWatch(handlers') <=> NeedsWatch(handlers) \/ WellKnown(op.h)
        BY <1>0, <1>4, <2>0, <3>1, AddHandlerUsers
      <3>3. watching' = NeedsWatch(handlers')
        BY <1>0, <2>0, <3>2 DEF NeedsWatch
      <3> QED
        BY <3>2, <3>3 DEF UsersInv, WatchedFor, Idle
    <2>2. CASE outcome # "reply"
      <3>1. Uncounted /\ op'.stage = IF op.started THEN "unwatch" ELSE "idle"
        BY <1>4, <2>0, <2>2 DEF Complete, Uncounted, Idle
      <3>2. watching' = watching /\ NeedsWatch(handlers)' = NeedsWatch(handlers)
        BY <3>1 DEF Uncounted, NeedsWatch
      <3>3. WatchedFor'
        BY <2>0, <3>1, <3>2 DEF WatchedFor
      <3> QED
        BY <1>4, <3>1, <3>3, Uncounting
    <2> QED
      BY <2>1, <2>2
  <1>5. CASE op.stage = "release"
    <2>1. Uncounted /\ AfterRelease(handlers)
      BY <1>5 DEF Complete, Uncounted
    <2>2. handlers' = handlers /\ (NeedsWatch(handlers) => watching)
      BY <1>5, <2>1 DEF Uncounted, UsersInv, WatchedFor
    <2>3. AfterRelease(handlers') /\ (NeedsWatch(handlers') => watching)
      BY <2>1, <2>2
    <2>4. op'.stage # "unwatching" /\ WatchedFor'
      BY <1>0, <2>1, <2>3, AfterReleaseUsers DEF Uncounted
    <2> QED
      BY <1>5, <2>1, <2>4, Uncounting
  <1>6. CASE op.stage = "unwatching"
    <2>1. watching' = FALSE /\ UNCHANGED <<users, handlers, subs>> /\ op'.stage = "idle"
      BY <1>6 DEF Complete, Idle
    <2>2. ~HoldsWatch' /\ ~HoldsWatch
      BY <1>6, <2>1 DEF HoldsWatch
    <2>3. Counted' /\ Numbered'
      BY <2>1, <2>2 DEF UsersInv, Counted, Numbered
    <2>4. ~NeedsWatch(handlers)
      BY <1>6 DEF UsersInv, WatchedFor
    <2>5. WatchedFor'
      BY <2>1, <2>4 DEF WatchedFor, NeedsWatch
    <2> QED
      BY <2>3, <2>5 DEF UsersInv
  <1> QED
    BY <1>1, <1>2, <1>3, <1>4, <1>5, <1>6 DEF Complete

-----------------------------------------------------------------------------
(* unsubscribe() *)

\* As many uses go as entries.
LEMMA UnsubscribeUsers ==
  ASSUME TypeInv, UsersInv, NEW h \in Handlers, Unsubscribe(h)
  PROVE  UsersInv'
  <1>1. /\ op.stage = "idle" /\ watching = NeedsWatch(handlers) /\ watching \in BOOLEAN
        /\ handlers' = handlers \ Of(h) /\ UNCHANGED <<subs, watching>>
        /\ users' = [users EXCEPT ![SenderOf[h]] = @ - Cardinality(Of(h))]
    BY DEF Unsubscribe, Released, MayAct, UsersInv, WatchedFor, Idle, TypeInv, SubscriptionsOK
  <1>2. op'.stage = "release" \/ AfterRelease(handlers')
    BY <1>1 DEF Unsubscribe, Released, Idle
  <1>3. NeedsWatch(handlers') => watching
    BY <1>1 DEF NeedsWatch
  <1>4. op'.stage # "unwatching" /\ WatchedFor'
    <2>1. CASE op'.stage = "release"
      BY <1>1, <1>3, <2>1 DEF WatchedFor
    <2> QED
      BY <1>1, <1>2, <1>3, <2>1, AfterReleaseUsers
  <1>5. ASSUME NEW r \in Senders
        PROVE  users'[r] = Cardinality(Uses(handlers', r))
                           + (IF r = BusName /\ HoldsWatch' THEN 1 ELSE 0)
    <2>0. users \in [Senders -> Int] /\ Cardinality(Uses(handlers, r)) \in Nat
      BY FiniteUses DEF TypeInv, SubscriptionsOK
    <2>1. HoldsWatch' = HoldsWatch
      BY <1>1, <1>4 DEF HoldsWatch
    <2>2. users[r] = Cardinality(Uses(handlers, r))
                     + (IF r = BusName /\ HoldsWatch THEN 1 ELSE 0)
      BY <1>5 DEF UsersInv, Counted
    <2>3. CASE r = SenderOf[h]
      <3>1. Uses(handlers', r) = Uses(handlers, r) \ Of(h)
        BY <1>1 DEF Uses
      <3>2. Uses(handlers, r) \cap Of(h) = Of(h)
        BY <2>3 DEF Uses, Of
      <3>3. IsFiniteSet(Of(h)) /\ Cardinality(Of(h)) \in Nat
        <4>1. Of(h) \in SUBSET handlers
          BY DEF Of
        <4> QED
          BY <4>1, FiniteUses, FS_Subset, FS_CardinalityType
      <3>4. Cardinality(Uses(handlers', r)) = Cardinality(Uses(handlers, r)) - Cardinality(Of(h))
        BY <3>1, <3>2, FiniteUses, FS_Difference
      <3>5. users'[r] = users[r] - Cardinality(Of(h))
        BY <1>1, <2>0, <2>3
      <3> QED
        BY <2>0, <2>1, <2>2, <3>3, <3>4, <3>5
    <2>4. CASE r # SenderOf[h]
      <3>1. Uses(handlers', r) = Uses(handlers, r)
        BY <1>1, <2>4 DEF Uses, Of
      <3>2. users'[r] = users[r]
        BY <1>1, <2>0, <2>4
      <3> QED
        BY <2>1, <2>2, <3>1, <3>2
    <2> QED
      BY <2>3, <2>4
  <1>6. Counted'
    BY <1>5 DEF Counted
  <1>7. Numbered'
    BY <1>1 DEF UsersInv, Numbered
  <1> QED
    BY <1>4, <1>6, <1>7 DEF UsersInv

\* The use of the owner watch goes before its rule is removed.
LEMMA UnwatchUsers ==
  ASSUME TypeInv, UsersInv, Unwatch
  PROVE  UsersInv'
  <1>1. /\ op.stage = "unwatch" /\ watching /\ ~NeedsWatch(handlers)
        /\ users' = [users EXCEPT ![BusName] = @ - 1] /\ UNCHANGED <<handlers, subs>>
        /\ users \in [Senders -> Int]
    BY DEF Unwatch, UsersInv, WatchedFor, TypeInv, SubscriptionsOK
  <1>2. \/ op'.stage = "unwatching" /\ watching'
        \/ op'.stage = "idle" /\ watching' = FALSE
    <2>1. CASE users[BusName] = 1 /\ ~closed
      BY <1>1, <2>1 DEF Unwatch, Idle
    <2>2. CASE ~(users[BusName] = 1 /\ ~closed)
      BY <2>2 DEF Unwatch, Idle
    <2> QED
      BY <2>1, <2>2
  <1>3. HoldsWatch /\ ~HoldsWatch'
    BY <1>1, <1>2 DEF HoldsWatch
  <1>4. Counted'
    <2>1. \A r \in Senders : Cardinality(Uses(handlers, r)) \in Nat
      BY FiniteUses
    <2>2. \A r \in Senders : users[r] = Cardinality(Uses(handlers, r))
                                        + (IF r = BusName THEN 1 ELSE 0)
      BY <1>3 DEF UsersInv, Counted
    <2>3. \A r \in Senders : users'[r] = Cardinality(Uses(handlers', r)) + 0
      BY <1>1, <2>1, <2>2
    <2> QED
      BY <1>3, <2>3 DEF Counted
  <1>5. Numbered'
    BY <1>1 DEF UsersInv, Numbered
  <1>6. WatchedFor'
    BY <1>1, <1>2 DEF WatchedFor, NeedsWatch
  <1> QED
    BY <1>4, <1>5, <1>6 DEF UsersInv

-----------------------------------------------------------------------------
(* dispatch() *)

\* Rebinding changes no sender and no number, so every count stays.
LEMMA ReboundUsers ==
  ASSUME TypeInv, UsersInv, DispatchSignal
  PROVE  UsersInv'
  <1>1. PICK m : handlers' = Rebound(m)
    BY DEF DispatchSignal
  <1> DEFINE New(e) == IF m.kind = "owner" /\ SenderOf[e.h] = m.name
                       THEN [e EXCEPT !.unique = m.new, !.resolved = m.id > watchedSince]
                       ELSE e
  <1>2. /\ handlers' = {New(e) : e \in handlers}
        /\ \A e \in handlers : New(e).h = e.h /\ New(e).n = e.n
    <2>1. \A e \in handlers : New(e).h = e.h /\ New(e).n = e.n
      BY DEF TypeInv, SubscriptionsOK, Entry
    <2> QED
      BY <1>1, <2>1 DEF Rebound
  <1>3. UNCHANGED <<subs, users, watching, op>>
    BY DEF DispatchSignal
  <1> HIDE DEF New
  <1>4. NeedsWatch(handlers') = NeedsWatch(handlers)
    BY <1>2 DEF NeedsWatch
  <1>5. Numbered'
    BY <1>2, <1>3 DEF UsersInv, Numbered
  <1>6. ASSUME NEW r \in Senders
        PROVE  Cardinality(Uses(handlers', r)) = Cardinality(Uses(handlers, r))
    <2> DEFINE f == [e \in Uses(handlers, r) |-> New(e)]
    <2>1. Uses(handlers', r) = {New(e) : e \in Uses(handlers, r)}
      BY <1>2 DEF Uses
    <2>2. \A d, e \in Uses(handlers, r) : New(d) = New(e) => d = e
      BY <1>2 DEF UsersInv, Numbered, Uses
    <2>3. f \in Bijection(Uses(handlers, r), Uses(handlers', r))
      BY <2>1, <2>2 DEF Bijection, Injection, Surjection, IsInjective
    <2>4. ExistsBijection(Uses(handlers, r), Uses(handlers', r))
      BY <2>3 DEF ExistsBijection
    <2> QED
      BY <2>4, FiniteUses, FS_Bijection
  <1>7. Counted'
    BY <1>3, <1>6 DEF UsersInv, Counted, HoldsWatch
  <1>8. WatchedFor'
    BY <1>3, <1>4 DEF UsersInv, WatchedFor, WellKnown
  <1> QED
    BY <1>5, <1>7, <1>8 DEF UsersInv

-----------------------------------------------------------------------------
(* The theorem *)

LEMMA QuietUsers ==
  ASSUME UsersInv, UNCHANGED <<handlers, subs, users, watching, op>>
  PROVE  UsersInv'
  BY SameStage DEF Uncounted

LEMMA CallUsers ==
  ASSUME UsersInv, NEW p \in Peers, Call(p)
  PROVE  UsersInv'
  <1>1. op.stage = "idle" /\ op'.stage = "rpc" /\ Uncounted
    BY DEF Call, MayAct, Idle, Uncounted
  <1>2. WatchedFor'
    BY <1>1 DEF UsersInv, WatchedFor, Uncounted, NeedsWatch, WellKnown
  <1> QED
    BY <1>1, <1>2, Uncounting

LEMMA SendUsers == ASSUME TypeInv, UsersInv, Send PROVE UsersInv'
  <1>1. op' = [op EXCEPT !.sent = TRUE] /\ op \in Operation /\ Uncounted
    BY DEF Send, TypeInv, SubscriptionsOK, Uncounted
  <1>2. op'.stage = op.stage /\ op'.h = op.h /\ op'.started = op.started
    BY <1>1 DEF Operation
  <1> QED
    BY <1>1, <1>2, SameStage

LEMMA NextUsers == TypeInv /\ UsersInv /\ [Next]_vars => UsersInv'
  <1> SUFFICES ASSUME TypeInv, UsersInv, [Next]_vars PROVE UsersInv'
    OBVIOUS
  <1>1. CASE UNCHANGED vars
    BY <1>1, QuietUsers DEF vars
  <1>2. CASE ClientStep
    <2>1. CASE \E h \in Handlers : Subscribe(h) \/ Unsubscribe(h)
      BY <2>1, SubscribeUsers, UnsubscribeUsers
    <2>2. CASE \E p \in Peers : Call(p)
      BY <2>2, CallUsers
    <2>3. CASE Unwatch
      BY <2>3, UnwatchUsers
    <2>4. CASE Send
      BY <2>4, SendUsers
    <2>5. CASE SendFails \/ TakeReply \/ CallReadsGarbled \/ CallTimesOut \/ CallHitsEnd
      <3>1. PICK outcome, value : Complete(outcome, value)
        BY <2>5 DEF SendFails, TakeReply, CallReadsGarbled, CallTimesOut, CallHitsEnd
      <3> QED
        BY <3>1, CompleteUsers
    <2>6. CASE DispatchSignal
      BY <2>6, ReboundUsers
    <2>7. CASE Close \/ Park
      BY <2>7, QuietUsers DEF Close, Park
    <2>8. CASE \/ \E serve \in BOOLEAN : BeginDispatch(serve)
               \/ DispatchCall \/ DispatchAnswer \/ DispatchGarbled \/ DispatchEnds
      BY <2>8, QuietUsers DEF BeginDispatch, DispatchCall, DispatchAnswer, DispatchGarbled,
                              DispatchEnds
    <2>9. CASE InvokeHandler \/ HandlerReturns \/ HandlerRaises
      BY <2>9, QuietUsers DEF InvokeHandler, HandlerReturns, HandlerRaises
    <2> QED
      BY <1>2, <2>1, <2>2, <2>3, <2>4, <2>5, <2>6, <2>7, <2>8, <2>9 DEF ClientStep
  <1>3. CASE BusStep
    BY <1>3, QuietUsers DEF BusStep, DaemonServes, PeerAnswers, CallClient, SendGarbled, DaemonStops,
                            EmitSignal, ChangeOwner, clientVars
  <1> QED
    BY <1>1, <1>2, <1>3 DEF Next

\* For any names, processes, handlers and bounds, and whichever calls fail
\* half-way: between operations _match_users counts the live subscriptions, and
\* owners are watched exactly while somebody needs it (subscribe, unsubscribe).
THEOREM CountsAreExact == Spec => []UsersAreCounted
  <1>1. UsersInv => UsersAreCounted
    BY DEF UsersInv, UsersAreCounted, Counted, WatchedFor, HoldsWatch, Uses, Idle
  <1> QED
    BY <1>1, InitType, NextType, InitUsers, NextUsers, PTL DEF Spec

-----------------------------------------------------------------------------
(* BusConnection implements SignalStream: what Connection promises about   *)
(* the messages the daemon originates, for every set of names, peers and   *)
(* handlers and for every value of the bounds.                             *)
(*                                                                         *)
(* The abstract queues are what is left of three concrete ones, the calls  *)
(* deferred by a dispatch() that serves nobody, _parked and the socket.    *)
(* Every step either leaves them as they are, when it moves a message from *)
(* one concrete queue to the next, or is one of SignalStream's.            *)

\* The abstract queues, as the refinement mapping gives them.
SignalQueue == Only(Signals, parked \o wire)
CallQueue   == Only({"call"}, disp.deferred \o parked \o wire)

\* What the frame of dispatch() has to do with them: nothing stays deferred
\* when it is gone, nothing is deferred while a server is there, and between
\* handlers no operation is in progress.
FrameInv ==
    /\ ~disp.on => disp.deferred = <<>>
    /\ disp.serve => disp.deferred = <<>>
    /\ disp.on /\ disp.running = Nobody => op = Idle

-----------------------------------------------------------------------------
(* Messages that arrive, are dropped, parked and taken. *)

LEMMA QueueTypes ==
    ASSUME QueuesOK
    PROVE  /\ parked \in Seq(Message) /\ wire \in Seq(Message)
           /\ disp.deferred \in Seq(CallMsg) /\ disp.deferred \in Seq(Message)
<1>1. parked \in Seq(Parkable) /\ wire \in Seq(Message) /\ disp \in Frame  BY DEF QueuesOK
<1>2. Parkable \subseteq Message /\ CallMsg \subseteq Message  BY DEF Parkable, Message
<1>3. disp.deferred \in Seq(CallMsg)  BY <1>1 DEF Frame
<1> HIDE DEF Message, Parkable, CallMsg
<1> QED  BY <1>1, <1>2, <1>3

LEMMA ConcatAppend ==
    ASSUME NEW p \in Seq(Message), NEW w \in Seq(Message), NEW m \in Message
    PROVE  p \o Append(w, m) = Append(p \o w, m)
OBVIOUS

LEMMA MessageArrives ==
    ASSUME NEW p \in Seq(Message), NEW w \in Seq(Message), NEW m \in Message, NEW kinds
    PROVE  Only(kinds, p \o Append(w, m)) =
              IF m.kind \in kinds THEN Append(Only(kinds, p \o w), m) ELSE Only(kinds, p \o w)
<1> DEFINE q == p \o w
<1>1. q \in Seq(Message) /\ p \o Append(w, m) = Append(q, m)  OBVIOUS
<1> HIDE DEF q
<1>2. Only(kinds, Append(q, m)) =
         IF m.kind \in kinds THEN Append(Only(kinds, q), m) ELSE Only(kinds, q)
  BY <1>1, OnlyAppend
<1> QED  BY <1>1, <1>2 DEF q

LEMMA MessageDropped ==
    ASSUME NEW p \in Seq(Message), NEW w \in Seq(Message), w # <<>>, NEW kinds,
           Head(w).kind \notin kinds
    PROVE  Only(kinds, p \o Tail(w)) = Only(kinds, p \o w)
<1>1. Head(w) \in Message /\ Tail(w) \in Seq(Message) /\ w = <<Head(w)>> \o Tail(w)
  BY HeadAndTail
<1>2. Only(kinds, w) = Only(kinds, Tail(w))
  <2> DEFINE m == Head(w)
             t == Tail(w)
  <2>1. m \in Message /\ t \in Seq(Message) /\ w = <<m>> \o t /\ m.kind \notin kinds  BY <1>1
  <2> HIDE DEF m, t
  <2>2. Only(kinds, <<m>> \o t) = Only(kinds, t)  BY <2>1, OnlyFirst
  <2>3. Only(kinds, w) = Only(kinds, t)  BY <2>1, <2>2
  <2> QED  BY <2>3 DEF t
<1>3. Only(kinds, p \o w) = Only(kinds, p) \o Only(kinds, w)  BY OnlyConcat
<1>4. Only(kinds, p \o Tail(w)) = Only(kinds, p) \o Only(kinds, Tail(w))
  <2> DEFINE t == Tail(w)
  <2> HIDE DEF t
  <2>1. t \in Seq(Message)  BY <1>1 DEF t
  <2>2. Only(kinds, p \o t) = Only(kinds, p) \o Only(kinds, t)  BY <2>1, OnlyConcat
  <2> QED  BY <2>2 DEF t
<1> QED  BY <1>2, <1>3, <1>4

LEMMA MessageParked ==
    ASSUME NEW M, NEW p \in Seq(M), NEW w \in Seq(M), w # <<>>
    PROVE  Append(p, Head(w)) \o Tail(w) = p \o w
<1>1. Head(w) \in M /\ Tail(w) \in Seq(M) /\ <<Head(w)>> \in Seq(M) /\ w = <<Head(w)>> \o Tail(w)
  OBVIOUS
<1> DEFINE a == <<Head(w)>>
           b == Tail(w)
<1>2. Append(p, Head(w)) = p \o a  BY <1>1, AppendIsConcat
<1>3. a \in Seq(M) /\ b \in Seq(M) /\ w = a \o b  BY <1>1
<1> HIDE DEF a, b
<1>4. (p \o a) \o b = p \o (a \o b)  BY <1>3, ConcatAssociative, SMTT(60)
<1> QED  BY <1>2, <1>3, <1>4 DEF b

\* The next message of dispatch() heads the queue it reads.
LEMMA MessageTaken ==
    ASSUME TypeInv, TypeInv', Pending, TakeNext, NEW kinds
    PROVE  /\ NextMessage.kind \in kinds =>
                 Only(kinds, parked \o wire) = <<NextMessage>> \o Only(kinds, parked' \o wire')
           /\ NextMessage.kind \notin kinds =>
                 Only(kinds, parked \o wire) = Only(kinds, parked' \o wire')
<1> DEFINE q == parked \o wire
           rest == parked' \o wire'
<1>1. /\ parked \in Seq(Message) /\ wire \in Seq(Message)
      /\ parked' \in Seq(Message) /\ wire' \in Seq(Message)
  <2>1. QueuesOK /\ QueuesOK'  BY DEF TypeInv
  <2>2. Parkable \subseteq Message  BY DEF Parkable, Message
  <2>3. /\ parked \in Seq(Parkable) /\ wire \in Seq(Message)
        /\ parked' \in Seq(Parkable) /\ wire' \in Seq(Message)
    BY <2>1 DEF QueuesOK, Parkable, Message, SignalMsg, OwnerMsg, CallMsg, Garbled, AnswerMsg
  <2> HIDE DEF Message, Parkable
  <2> QED  BY <2>2, <2>3
<1>2. q \in Seq(Message) /\ rest \in Seq(Message)  BY <1>1
<1>3. NextMessage \in Message /\ q = <<NextMessage>> \o rest
  <2>1. CASE FromParked
    <3>1. parked # <<>> /\ parked' = Tail(parked) /\ wire' = wire /\ NextMessage = Head(parked)
      BY <2>1 DEF FromParked, TakeNext, NextMessage
    <3>2. Head(parked) \in Message /\ Tail(parked) \in Seq(Message) /\ parked = <<Head(parked)>> \o Tail(parked)
      BY <1>1, <3>1, HeadAndTail
    <3>3. <<Head(parked)>> \in Seq(Message)  BY <3>2
    <3>4. q = <<Head(parked)>> \o rest
      <4> DEFINE a == <<Head(parked)>>
                 b == Tail(parked)
      <4>1. a \in Seq(Message) /\ b \in Seq(Message) /\ parked = a \o b /\ parked' = b
        BY <3>1, <3>2, <3>3
      <4> HIDE DEF a, b
      <4>2. (a \o b) \o wire = a \o (b \o wire)  BY <1>1, <4>1, ConcatAssociative, SMTT(60)
      <4>3. q = a \o rest  BY <3>1, <4>1, <4>2
      <4> QED  BY <4>3 DEF a
    <3> QED  BY <3>1, <3>2, <3>4
  <2>2. CASE ~FromParked
    <3>1. parked = <<>> /\ parked' = <<>> /\ wire # <<>> /\ wire' = Tail(wire) /\ NextMessage = Head(wire)
      BY <2>2 DEF FromParked, TakeNext, NextMessage, Pending
    <3>2. q = wire /\ rest = wire'  BY <1>1, <3>1
    <3>3. Head(wire) \in Message /\ wire = <<Head(wire)>> \o Tail(wire)  BY <1>1, <3>1, HeadAndTail
    <3> QED  BY <3>1, <3>2, <3>3
  <2> QED  BY <2>1, <2>2
<1> HIDE DEF q, rest
<1> DEFINE m == NextMessage
<1>4. m \in Message /\ rest \in Seq(Message)  BY <1>2, <1>3
<1> HIDE DEF m
<1>5. /\ m.kind \in kinds => Only(kinds, <<m>> \o rest) = <<m>> \o Only(kinds, rest)
      /\ m.kind \notin kinds => Only(kinds, <<m>> \o rest) = Only(kinds, rest)
  BY <1>4, OnlyFirst
<1> QED  BY <1>3, <1>5 DEF q, rest, m

LEMMA CallsSplit ==
    ASSUME NEW d \in Seq(Message), NEW p \in Seq(Message), NEW w \in Seq(Message)
    PROVE  Only({"call"}, d \o p \o w) = Only({"call"}, d) \o Only({"call"}, p \o w)
<1>1. d \o p \o w = d \o (p \o w)  BY ConcatAssociative, SMTT(60)
<1> DEFINE q == p \o w
<1>2. q \in Seq(Message)  OBVIOUS
<1> HIDE DEF q
<1>3. Only({"call"}, d \o q) = Only({"call"}, d) \o Only({"call"}, q)  BY <1>2, OnlyConcat, SMTT(60)
<1> QED  BY <1>1, <1>3 DEF q

LEMMA KindOf ==
    ASSUME NEW m \in Message
    PROVE  /\ m \in CallMsg <=> m.kind = "call"
           /\ IsAnswer(m) => m.kind \notin Signals \cup {"call"}
           /\ m.kind = "garbled" => m.kind \notin Signals \cup {"call"}
           /\ m.kind \in Signals => m.kind # "call"
BY DEF Message, SignalMsg, OwnerMsg, CallMsg, Garbled, AnswerMsg, IsAnswer, Signals

-----------------------------------------------------------------------------
(* The steps of SignalStream. *)

Undisturbed == SignalQueue' = SignalQueue /\ CallQueue' = CallQueue

LEMMA WorkStep ==
    ASSUME Undisturbed, closed' = closed, disp'.on = disp.on PROVE Stream!Next
BY DEF Undisturbed, SignalQueue, CallQueue, Stream!Next, Stream!Work

LEMMA FrameStep ==
    ASSUME Undisturbed, closed' = closed, op = Idle, op' = Idle, disp'.on = ~disp.on PROVE Stream!Next
<1>1. ~op.sent /\ ~op'.sent  BY DEF Idle
<1> QED  BY <1>1 DEF Undisturbed, SignalQueue, CallQueue, Stream!Next, Stream!Work

LEMMA GrownBy ==
    ASSUME NEW M, NEW q \in Seq(M), NEW m \in M PROVE Stream!Grows(q, Append(q, m))
<1> DEFINE longer == Append(q, m)
<1>1. longer \in Seq(M) /\ Len(longer) = Len(q) + 1 /\ Len(q) \in Nat
      /\ \A i \in 1 .. Len(q) : longer[i] = q[i]
  OBVIOUS
<1> HIDE DEF longer
<1> DEFINE front == SubSeq(longer, 1, Len(longer) - 1)
<1>2. front \in Seq(M) /\ Len(front) = Len(q) /\ \A i \in 1 .. Len(q) : front[i] = q[i]
  BY <1>1
<1> HIDE DEF front
<1>3. q = front  BY <1>2, SeqEqual
<1>4. longer # <<>>  BY <1>1
<1> QED  BY <1>3, <1>4 DEF front, longer, Stream!Grows, Stream!Front

LEMMA ArriveStep ==
    ASSUME QueuesOK, NEW m \in Message, ~closed, wire' = Append(wire, m),
           UNCHANGED <<parked, disp, op, closed>>
    PROVE  Stream!Next
<1>1. parked \in Seq(Message) /\ wire \in Seq(Message) /\ disp.deferred \in Seq(Message)
  BY QueueTypes
<1> DEFINE held == disp.deferred \o parked
<1>2. held \in Seq(Message)  BY <1>1
<1>3. SignalQueue' = IF m.kind \in Signals THEN Append(SignalQueue, m) ELSE SignalQueue
  BY <1>1, MessageArrives, SMTT(60) DEF SignalQueue
<1> HIDE DEF held
<1>4. Only({"call"}, held \o Append(wire, m)) =
        IF m.kind \in {"call"} THEN Append(Only({"call"}, held \o wire), m)
                               ELSE Only({"call"}, held \o wire)
  BY <1>1, <1>2, MessageArrives
<1>5. CallQueue' = IF m.kind = "call" THEN Append(CallQueue, m) ELSE CallQueue
  BY <1>4 DEF CallQueue, held
<1>6. SignalQueue \in Seq(Message) /\ CallQueue \in Seq(Message)
  <2>1. parked \o wire \in Seq(Message) /\ held \o wire \in Seq(Message)  BY <1>1, <1>2
  <2> QED  BY <2>1, OnlyIsASeq DEF SignalQueue, CallQueue, held
<1>7. CASE m.kind \in Signals
  <2>1. Stream!Grows(SignalQueue, SignalQueue') /\ CallQueue' = CallQueue
    BY <1>3, <1>5, <1>6, <1>7, KindOf, GrownBy
  <2> QED  BY <2>1 DEF SignalQueue, CallQueue, Stream!Next, Stream!Arrive
<1>8. CASE m.kind = "call"
  <2>1. Stream!Grows(CallQueue, CallQueue') /\ SignalQueue' = SignalQueue
    BY <1>3, <1>5, <1>6, <1>8, KindOf, GrownBy
  <2> QED  BY <2>1 DEF SignalQueue, CallQueue, Stream!Next, Stream!Arrive
<1>9. CASE m.kind \notin Signals /\ m.kind # "call"
  BY <1>3, <1>5, <1>9, WorkStep DEF Undisturbed
<1> QED  BY <1>7, <1>8, <1>9

LEMMA DisconnectStep ==
    ASSUME QueuesOK, closed = FALSE, closed' = TRUE, KeepBuffered, UNCHANGED <<parked, disp>>
    PROVE  Stream!Next
<1>1. parked \in Seq(Message) /\ wire \in Seq(Message) /\ disp.deferred \in Seq(Message)
  BY QueueTypes
<1>2. Begins(wire', wire)  BY DEF KeepBuffered, Begins
<1> DEFINE held == disp.deferred \o parked
           rest == wire'
<1>3. held \in Seq(Message) /\ Begins(rest, wire)  BY <1>1, <1>2
<1> HIDE DEF held, rest
<1>4. ASSUME NEW kinds, NEW p \in Seq(Message)
      PROVE  Begins(Only(kinds, p \o rest), Only(kinds, p \o wire))
  <2>1. rest \in Seq(Message)
        /\ Begins(Only(kinds, p) \o Only(kinds, rest), Only(kinds, p) \o Only(kinds, wire))
    BY <1>1, <1>3, OnlyBegins
  <2>2. Only(kinds, p \o rest) = Only(kinds, p) \o Only(kinds, rest)  BY <2>1, OnlyConcat
  <2>3. Only(kinds, p \o wire) = Only(kinds, p) \o Only(kinds, wire)  BY <1>1, OnlyConcat, SMTT(60)
  <2> QED  BY <2>1, <2>2, <2>3
<1>5. Begins(SignalQueue', SignalQueue)  BY <1>1, <1>4 DEF SignalQueue, rest
<1>6. Begins(Only({"call"}, held \o rest), Only({"call"}, held \o wire))  BY <1>3, <1>4
<1>7. Begins(CallQueue', CallQueue)  BY <1>6 DEF CallQueue, held, rest
<1> QED  BY <1>5, <1>7 DEF Begins, SignalQueue, CallQueue, Stream!Next, Stream!Disconnect

\* The first message of a queue is taken between two handlers.
LEMMA TakeStep ==
    ASSUME NEW m,
           \/ SignalQueue = <<m>> \o SignalQueue' /\ CallQueue' = CallQueue
           \/ CallQueue = <<m>> \o CallQueue' /\ SignalQueue' = SignalQueue,
           SignalQueue' \in Seq(Message), CallQueue' \in Seq(Message), m \in Message,
           disp.on = TRUE, op = Idle, UNCHANGED <<op, closed>>, disp'.on = disp.on
    PROVE  Stream!Next
<1>1. ~op.sent  BY DEF Idle
<1>2. ASSUME NEW q \in Seq(Message) PROVE <<m>> \o q # <<>> /\ q = Tail(<<m>> \o q)
  BY SMTT(60)
<1>3. \/ SignalQueue # <<>> /\ SignalQueue' = Tail(SignalQueue) /\ CallQueue' = CallQueue
      \/ CallQueue # <<>> /\ CallQueue' = Tail(CallQueue) /\ SignalQueue' = SignalQueue
  BY <1>2
<1> QED  BY <1>1, <1>3 DEF SignalQueue, CallQueue, Stream!Next, Stream!Take

-----------------------------------------------------------------------------
(* The frame of dispatch(). *)

\* An operation moves on only when a handler, or nobody, is on the stack.
LEMMA OperationFrame ==
    ASSUME FrameInv, disp' = disp, MayAct \/ op # Idle
    PROVE  FrameInv'
BY DEF FrameInv, MayAct

LEMMA EndFrameFrame ==
    ASSUME EndFrame PROVE FrameInv' /\ disp'.on = FALSE /\ disp'.deferred = <<>>
BY DEF EndFrame, FrameInv, NoFrame

LEMMA NextFrame == TypeInv /\ FrameInv /\ [Next]_vars => FrameInv'
<1> SUFFICES ASSUME TypeInv, FrameInv, [Next]_vars PROVE FrameInv'  OBVIOUS
<1>0. disp \in Frame /\ op \in Operation /\ OpShape
  BY DEF TypeInv, QueuesOK, SubscriptionsOK
<1>idle. ~Idle.sent /\ Idle.stage = "idle" /\ "idle" \notin Calls  BY DEF Idle, Calls
<1>1. CASE UNCHANGED <<op, disp>>  BY <1>1 DEF FrameInv
<1>2. ASSUME NEW h \in Handlers, Subscribe(h) \/ Unsubscribe(h) PROVE FrameInv'
  BY <1>2, OperationFrame DEF Subscribe, Unsubscribe, Released
<1>3. ASSUME NEW p \in Peers, Call(p) PROVE FrameInv'  BY <1>3, OperationFrame DEF Call
<1>4. CASE Unwatch  BY <1>4, <1>idle, OperationFrame DEF Unwatch
<1>5. CASE Close  BY <1>5, OperationFrame DEF Close
<1>6. CASE Send \/ SendFails
  BY <1>6, <1>idle, OperationFrame DEF Send, SendFails
<1>7. CASE TakeReply \/ CallReadsGarbled \/ CallTimesOut \/ CallHitsEnd
  BY <1>7, <1>idle, OperationFrame DEF TakeReply, CallReadsGarbled, CallTimesOut, CallHitsEnd
<1>8. CASE Park  BY <1>8, <1>1 DEF Park
<1>9. ASSUME NEW serve \in BOOLEAN, BeginDispatch(serve) PROVE FrameInv'
  <2>1. /\ disp'.deferred = <<>> /\ op' = Idle
    BY <1>9 DEF BeginDispatch, NoFrame
  <2> QED  BY <2>1 DEF FrameInv
<1>10. CASE DispatchSignal
  <2>1. /\ disp'.on = disp.on /\ disp'.deferred = disp.deferred /\ disp'.serve = disp.serve
        /\ disp'.running = disp.running /\ op' = op
    BY <1>0, <1>10 DEF DispatchSignal, Frame
  <2> QED  BY <2>1 DEF FrameInv
<1>11. CASE DispatchCall
  <2>1. CASE disp.serve
    <3>1. /\ disp'.on = disp.on /\ disp'.deferred = disp.deferred /\ disp'.serve = disp.serve
          /\ disp'.running = Server /\ op' = op
      BY <1>0, <1>11, <2>1 DEF DispatchCall, Frame
    <3> QED  BY <1>11, <3>1 DEF FrameInv, DispatchCall, Between
  <2>2. CASE ~disp.serve
    <3>1. disp'.on = disp.on /\ disp'.serve = disp.serve /\ disp'.running = disp.running /\ op' = op
      BY <1>0, <1>11, <2>2 DEF DispatchCall, Frame
    <3> QED  BY <1>11, <2>2, <3>1 DEF FrameInv, DispatchCall, Between
  <2> QED  BY <2>1, <2>2
<1>12. CASE DispatchAnswer  BY <1>12, <1>1 DEF DispatchAnswer
<1>13. CASE DispatchGarbled \/ DispatchEnds \/ HandlerRaises
  BY <1>13, EndFrameFrame DEF DispatchGarbled, DispatchEnds, HandlerRaises
<1>14. CASE InvokeHandler
  <2>1. PICK e \in disp.todo : disp' = [disp EXCEPT !.running = e.h, !.todo = @ \ {e}]
    BY <1>14 DEF InvokeHandler
  <2>2. /\ disp'.on = disp.on /\ disp'.deferred = disp.deferred /\ disp'.serve = disp.serve
        /\ op' = op
    BY <1>0, <1>14, <2>1 DEF InvokeHandler, Frame
  <2> QED  BY <1>14, <2>2 DEF FrameInv, InvokeHandler
<1>15. CASE HandlerReturns
  <2>1. /\ disp'.on = disp.on /\ disp'.deferred = disp.deferred /\ disp'.serve = disp.serve
        /\ op' = Idle
    BY <1>0, <1>15 DEF HandlerReturns, Frame
  <2> QED  BY <2>1 DEF FrameInv
<1>16. CASE BusStep
  <2>1. UNCHANGED clientVars
    BY <1>16 DEF BusStep, DaemonServes, PeerAnswers, CallClient, SendGarbled, DaemonStops,
                 EmitSignal, ChangeOwner
  <2> QED  BY <1>1, <2>1 DEF clientVars
<1>17. CASE UNCHANGED vars  BY <1>1, <1>17 DEF vars
<1> QED
  BY <1>2, <1>3, <1>4, <1>5, <1>6, <1>7, <1>8, <1>9, <1>10, <1>11, <1>12, <1>13, <1>14, <1>15,
     <1>16, <1>17 DEF Next, ClientStep

-----------------------------------------------------------------------------
(* Every step of the connection is a step of the stream, or none. *)

LEMMA QueuesUnchanged ==
    ASSUME UNCHANGED <<parked, wire>>, disp'.deferred = disp.deferred PROVE Undisturbed
BY DEF Undisturbed, SignalQueue, CallQueue

LEMMA HeadDropped ==
    ASSUME QueuesOK, wire # <<>>, Head(wire).kind \notin Signals \cup {"call"},
           wire' = Tail(wire), parked' = parked, disp'.deferred = disp.deferred
    PROVE  Undisturbed
<1>1. parked \in Seq(Message) /\ wire \in Seq(Message) /\ disp.deferred \in Seq(Message)
  BY QueueTypes
<1>2. SignalQueue' = SignalQueue  BY <1>1, MessageDropped DEF SignalQueue
<1> DEFINE held == disp.deferred \o parked
<1>3. held \in Seq(Message)  BY <1>1
<1> HIDE DEF held
<1>4. Only({"call"}, held \o Tail(wire)) = Only({"call"}, held \o wire)
  BY <1>1, <1>3, MessageDropped
<1>5. CallQueue' = CallQueue  BY <1>4 DEF CallQueue, held
<1> QED  BY <1>2, <1>5 DEF Undisturbed

LEMMA ParkKeeps == ASSUME QueuesOK, Park PROVE Undisturbed
<1>1. parked \in Seq(Message) /\ wire \in Seq(Message) /\ disp.deferred \in Seq(Message)
  BY QueueTypes
<1>2. CASE IsAnswer(Head(wire))
  <2>1. Head(wire) \in Message  BY <1>1, HeadOfWire DEF Park
  <2> QED  BY <1>2, <2>1, KindOf, HeadDropped DEF Park
<1>3. CASE ~IsAnswer(Head(wire))
  <2>1. parked' = Append(parked, Head(wire)) /\ wire' = Tail(wire) /\ wire # <<>> /\ disp' = disp
    BY <1>3 DEF Park
  <2>2. parked' \o wire' = parked \o wire  BY <1>1, <2>1, MessageParked
  <2>3. disp.deferred \o parked' \o wire' = disp.deferred \o parked \o wire
    <3> DEFINE held == disp.deferred \o parked
    <3>1. held \in Seq(Message)  BY <1>1
    <3>2. Head(wire) \in Message  BY <1>1, <2>1
    <3>3. disp.deferred \o Append(parked, Head(wire)) = Append(held, Head(wire))
      BY <1>1, <3>2, ConcatAppend
    <3> HIDE DEF held
    <3>4. Append(held, Head(wire)) \o Tail(wire) = held \o wire  BY <1>1, <2>1, <3>1, MessageParked
    <3> QED  BY <2>1, <3>3, <3>4 DEF held
  <2> QED  BY <2>1, <2>2, <2>3 DEF Undisturbed, SignalQueue, CallQueue
<1> QED  BY <1>2, <1>3

\* The frame ends: what was deferred goes back before what is parked.
LEMMA EndFrameKeeps ==
    ASSUME QueuesOK, EndFrame, wire' = wire PROVE Undisturbed
<1>1. /\ parked \in Seq(Message) /\ wire \in Seq(Message) /\ disp.deferred \in Seq(Message)
      /\ disp.deferred \in Seq(CallMsg)
  BY QueueTypes
<1> DEFINE d == disp.deferred
<1>2. disp'.deferred = <<>> /\ parked' = d \o parked  BY DEF EndFrame, NoFrame
<1>3. \A m \in CallMsg : m.kind \notin Signals  BY DEF CallMsg, Signals
<1>4. Only(Signals, d) = <<>>  BY <1>1, <1>3, OnlyNone
<1>5. <<>> \o (d \o parked) = d \o parked  BY <1>1
<1>10. d \in Seq(Message)  BY <1>1
<1> HIDE DEF d
<1>6. Only(Signals, d \o parked \o wire) = Only(Signals, d) \o Only(Signals, parked \o wire)
  <2>1. d \in Seq(Message) /\ parked \in Seq(Message) /\ wire \in Seq(Message)  BY <1>1, <1>10
  <2> DEFINE w == parked \o wire
  <2>2. w \in Seq(Message)  BY <2>1
  <2>3. d \o parked \o wire = d \o w  BY <2>1, ConcatAssociative, SMTT(60)
  <2> HIDE DEF w
  <2>4. Only(Signals, d \o w) = Only(Signals, d) \o Only(Signals, w)  BY <2>1, <2>2, OnlyConcat, SMTT(60)
  <2> QED  BY <2>3, <2>4 DEF w
<1>7. <<>> \o Only(Signals, parked \o wire) = Only(Signals, parked \o wire)
  <2>1. parked \o wire \in Seq(Message)  BY <1>1
  <2>2. Only(Signals, parked \o wire) \in Seq(Message)  BY <2>1, OnlyIsASeq
  <2> QED  BY <2>2
<1>8. SignalQueue' = SignalQueue  BY <1>2, <1>4, <1>6, <1>7 DEF SignalQueue
<1>9. CallQueue' = CallQueue  BY <1>2, <1>5 DEF CallQueue, d
<1> QED  BY <1>8, <1>9 DEF Undisturbed

\* A message that does not parse ends the frame, and is gone.
LEMMA GarbledKeeps == ASSUME QueuesOK, DispatchGarbled PROVE Undisturbed
<1>0. parked \in Seq(Message) /\ wire \in Seq(Message) /\ disp.deferred \in Seq(Message)
  BY QueueTypes
<1>1. /\ parked = <<>> /\ wire # <<>> /\ Head(wire).kind = "garbled" /\ wire' = Tail(wire)
      /\ parked' = disp.deferred /\ disp'.deferred = <<>> /\ closed' = closed
  BY <1>0 DEF DispatchGarbled, FromParked, EndFrame, NoFrame
<1>2. Head(wire).kind \notin Signals \cup {"call"}  BY <1>1 DEF Signals
<1>3. disp.deferred \in Seq(CallMsg)  BY QueueTypes
<1>4. Only(Signals, disp.deferred) = <<>>
  <2>1. \A m \in CallMsg : m.kind \notin Signals  BY DEF CallMsg, Signals
  <2> QED  BY <1>3, <2>1, OnlyNone
<1> DEFINE d == disp.deferred
           w == Tail(wire)
<1>5. d \in Seq(Message) /\ w \in Seq(Message) /\ d \o <<>> = d /\ <<>> \o w = w
      /\ <<>> \o d = d /\ <<>> \o wire = wire
  BY <1>0, <1>1
<1>6. Only(Signals, w) = Only(Signals, wire)
  <2>1. <<>> \in Seq(Message)  OBVIOUS
  <2>2. Only(Signals, <<>> \o Tail(wire)) = Only(Signals, <<>> \o wire)
    BY <1>0, <1>1, <1>2, <2>1, MessageDropped
  <2> QED  BY <1>5, <2>2
<1>7. Only({"call"}, d \o Tail(wire)) = Only({"call"}, d \o wire)
  BY <1>0, <1>1, <1>2, MessageDropped
<1>8. Only(Signals, w) \in Seq(Message)  BY <1>5, OnlyIsASeq
<1> HIDE DEF d, w
<1>9. Only(Signals, d \o w) = Only(Signals, d) \o Only(Signals, w)  BY <1>5, OnlyConcat
<1>10. Only(Signals, d \o w) = Only(Signals, wire)
  <2>1. <<>> \o Only(Signals, w) = Only(Signals, w)  BY <1>8
  <2> QED  BY <1>4, <1>6, <1>9, <2>1 DEF d
<1>11. parked \o wire = wire /\ disp.deferred \o parked \o wire = d \o wire
  BY <1>1, <1>5 DEF d
<1>12. /\ parked' \o wire' = d \o w
       /\ disp'.deferred \o parked' \o wire' = d \o Tail(wire)
  BY <1>1, <1>5 DEF d, w
<1>13. Undisturbed
  BY <1>7, <1>10, <1>11, <1>12 DEF Undisturbed, SignalQueue, CallQueue
<1> QED  BY <1>13

\* Between two handlers, dispatch() takes one message off its queue.
LEMMA TakenKeeps ==
    ASSUME TypeInv, TypeInv', Between, Pending, TakeNext
    PROVE  /\ NextMessage \in Message
           /\ NextMessage.kind \in Signals => SignalQueue = <<NextMessage>> \o SignalQueue'
           /\ NextMessage.kind = "call" => SignalQueue' = SignalQueue
           /\ SignalQueue' \in Seq(Message) /\ CallQueue' \in Seq(Message)
<1>1. QueuesOK /\ QueuesOK'  BY DEF TypeInv
<1>2. /\ parked' \in Seq(Message) /\ wire' \in Seq(Message) /\ disp'.deferred \in Seq(Message)
  <2>1. parked' \in Seq(Parkable) /\ wire' \in Seq(Message) /\ disp' \in Frame
    BY <1>1 DEF QueuesOK
  <2>2. Parkable \subseteq Message /\ CallMsg \subseteq Message  BY DEF Parkable, Message
  <2>3. disp'.deferred \in Seq(CallMsg)  BY <2>1 DEF Frame
  <2> HIDE DEF Message, Parkable, CallMsg
  <2> QED  BY <2>1, <2>2, <2>3
<1>3. parked' \o wire' \in Seq(Message) /\ disp'.deferred \o parked' \o wire' \in Seq(Message)
  BY <1>2
<1>4. SignalQueue' \in Seq(Message) /\ CallQueue' \in Seq(Message)
  BY <1>3, OnlyIsASeq DEF SignalQueue, CallQueue
<1>5. NextMessage \in Message  BY NextMessageType
<1>6. NextMessage.kind \in Signals => SignalQueue = <<NextMessage>> \o SignalQueue'
  BY MessageTaken DEF SignalQueue
<1>7. NextMessage.kind = "call" => SignalQueue' = SignalQueue
  <2>1. "call" \notin Signals  BY DEF Signals
  <2> QED  BY <2>1, MessageTaken DEF SignalQueue
<1> QED  BY <1>4, <1>5, <1>6, <1>7

\* What the calls are when dispatch() takes one, or a signal.
LEMMA CallsTaken ==
    ASSUME TypeInv, TypeInv', Pending, TakeNext
    PROVE  LET before == Only({"call"}, parked \o wire)
               after == Only({"call"}, parked' \o wire')
           IN  /\ CallQueue = Only({"call"}, disp.deferred) \o before
               /\ CallQueue' = Only({"call"}, disp'.deferred) \o after
               /\ NextMessage.kind = "call" => before = <<NextMessage>> \o after
               /\ NextMessage.kind # "call" => before = after
               /\ before \in Seq(Message) /\ after \in Seq(Message)
               /\ disp.deferred \in Seq(Message)
<1> DEFINE before == Only({"call"}, parked \o wire)
           after == Only({"call"}, parked' \o wire')
<1>1. /\ parked \in Seq(Message) /\ wire \in Seq(Message) /\ disp.deferred \in Seq(Message)
      /\ parked' \in Seq(Message) /\ wire' \in Seq(Message) /\ disp'.deferred \in Seq(Message)
  <2>1. /\ parked \in Seq(Parkable) /\ wire \in Seq(Message) /\ disp \in Frame
        /\ parked' \in Seq(Parkable) /\ wire' \in Seq(Message) /\ disp' \in Frame
    BY DEF TypeInv, QueuesOK
  <2>2. Parkable \subseteq Message /\ CallMsg \subseteq Message  BY DEF Parkable, Message
  <2>3. disp.deferred \in Seq(CallMsg) /\ disp'.deferred \in Seq(CallMsg)  BY <2>1 DEF Frame
  <2> HIDE DEF Message, Parkable, CallMsg
  <2> QED  BY <2>1, <2>2, <2>3
<1>2. CallQueue = Only({"call"}, disp.deferred) \o before
  <2>1. parked \in Seq(Message) /\ wire \in Seq(Message) /\ disp.deferred \in Seq(Message)
    BY <1>1
  <2> QED  BY <2>1, CallsSplit, ZenonT(60) DEF CallQueue
<1>3. CallQueue' = Only({"call"}, disp'.deferred) \o after  BY <1>1, CallsSplit, ZenonT(60) DEF CallQueue
<1>4. /\ NextMessage.kind \in {"call"} => before = <<NextMessage>> \o after
      /\ NextMessage.kind \notin {"call"} => before = after
  BY MessageTaken
<1>5. before \in Seq(Message) /\ after \in Seq(Message)
  <2>1. parked \o wire \in Seq(Message) /\ parked' \o wire' \in Seq(Message)  BY <1>1
  <2> QED  BY <2>1, OnlyIsASeq
<1> QED  BY <1>1, <1>2, <1>3, <1>4, <1>5

LEMMA DispatchSignalStep ==
    ASSUME TypeInv, TypeInv', FrameInv, DispatchSignal PROVE Stream!Next
<1>1. Between /\ Pending /\ TakeNext /\ NextMessage.kind \in Signals /\ UNCHANGED <<op, closed>>
  BY DEF DispatchSignal, IsSignal
<1>2. disp'.on = disp.on /\ disp'.deferred = disp.deferred
  BY DEF DispatchSignal, TypeInv, QueuesOK, Frame
<1>3. NextMessage.kind # "call"  BY <1>1 DEF Signals
<1>4. CallQueue' = CallQueue  BY <1>1, <1>2, <1>3, CallsTaken
<1>5. disp.on = TRUE /\ op = Idle
  BY <1>1 DEF FrameInv, Between, TypeInv, QueuesOK, Frame
<1> QED  BY <1>1, <1>2, <1>4, <1>5, TakenKeeps, TakeStep

LEMMA DispatchCallStep ==
    ASSUME TypeInv, TypeInv', FrameInv, DispatchCall PROVE Stream!Next
<1> DEFINE m == NextMessage
           before == Only({"call"}, parked \o wire)
           after == Only({"call"}, parked' \o wire')
           d == disp.deferred
<1>1. Between /\ Pending /\ TakeNext /\ m.kind = "call" /\ UNCHANGED <<op, closed>>
  BY DEF DispatchCall, IsCall
<1>2. /\ CallQueue = Only({"call"}, d) \o before
      /\ CallQueue' = Only({"call"}, disp'.deferred) \o after
      /\ before = <<m>> \o after
      /\ before \in Seq(Message) /\ after \in Seq(Message) /\ d \in Seq(Message)
  BY <1>1, CallsTaken
<1>3. m \in Message /\ SignalQueue' = SignalQueue /\ SignalQueue' \in Seq(Message)
      /\ CallQueue' \in Seq(Message)
  BY <1>1, TakenKeeps
<1>4. disp.on = TRUE /\ op = Idle
  BY <1>1 DEF FrameInv, Between, TypeInv, QueuesOK, Frame
<1>5. CASE disp.serve
  <2>1. disp'.on = disp.on /\ disp'.deferred = <<>> /\ d = <<>>
    BY <1>5 DEF DispatchCall, FrameInv, TypeInv, QueuesOK, Frame
  <2>2. Only({"call"}, <<>>) = <<>>  BY OnlyEmpty
  <2>3. CallQueue = before /\ CallQueue' = after
    <3> HIDE DEF before, after, d
    <3> QED  BY <1>2, <2>1, <2>2, SMTT(60)
  <2>4. CallQueue = <<m>> \o CallQueue'  BY <1>2, <2>3
  <2> QED  BY <1>1, <1>3, <1>4, <2>1, <2>4, TakeStep
<1>6. CASE ~disp.serve
  <2>1. disp'.on = disp.on /\ disp'.deferred = Append(d, m)
    BY <1>6 DEF DispatchCall, TypeInv, QueuesOK, Frame
  <2> HIDE DEF before, after, d, m
  <2>2. Only({"call"}, Append(d, m)) = Append(Only({"call"}, d), m)
    <3>1. d \in Seq(Message) /\ m \in Message /\ m.kind \in {"call"}  BY <1>1, <1>2, <1>3
    <3>2. Only({"call"}, Append(d, m)) =
            IF m.kind \in {"call"} THEN Append(Only({"call"}, d), m) ELSE Only({"call"}, d)
      BY <3>1, OnlyAppend
    <3> QED  BY <3>1, <3>2
  <2>3. Only({"call"}, d) \in Seq(Message)  BY <1>2, OnlyIsASeq
  <2> DEFINE a == Only({"call"}, d)
  <2>4. Append(a, m) = a \o <<m>> /\ <<m>> \in Seq(Message) /\ a \in Seq(Message)
    BY <1>3, <2>3, AppendIsConcat
  <2> HIDE DEF a
  <2>5. (a \o <<m>>) \o after = a \o (<<m>> \o after)  BY <1>2, <2>4, ConcatAssociative, SMTT(60)
  <2>6. CallQueue' = CallQueue  BY <1>2, <2>1, <2>2, <2>4, <2>5 DEF a
  <2> QED  BY <1>1, <1>3, <2>1, <2>6, WorkStep DEF Undisturbed
<1> QED  BY <1>5, <1>6

\* An exception or a message that does not parse ends the frame; so does an
\* empty queue, and then the connection may have ended with it.
LEMMA EndOfFrameStep ==
    ASSUME TypeInv, FrameInv, DispatchGarbled \/ DispatchEnds \/ HandlerRaises
    PROVE  Stream!Next
<1>0. QueuesOK /\ closed \in BOOLEAN /\ down \in BOOLEAN  BY DEF TypeInv, CountsOK
<1>1. parked \in Seq(Message) /\ wire \in Seq(Message) /\ disp.deferred \in Seq(Message)
  BY <1>0, QueueTypes
<1>2. disp.on = TRUE /\ disp'.on = FALSE /\ op = Idle /\ op' = Idle /\ EndFrame
  BY <1>0, EndFrameFrame
     DEF DispatchGarbled, DispatchEnds, HandlerRaises, FrameInv, Between, QueuesOK, Frame
<1>3. CASE HandlerRaises
  <2>1. Undisturbed /\ closed' = closed  BY <1>0, <1>2, <1>3, EndFrameKeeps DEF HandlerRaises
  <2> QED  BY <1>2, <2>1, FrameStep
<1>4. CASE DispatchEnds
  <2>1. Undisturbed /\ closed' = (closed \/ down) /\ wire = <<>> /\ wire' = wire
    BY <1>0, <1>2, <1>4, EndFrameKeeps DEF DispatchEnds, Pending
  <2>2. CASE closed' = closed  BY <1>2, <2>1, <2>2, FrameStep
  <2>3. CASE closed' # closed
    <3>1. closed = FALSE /\ closed' = TRUE  BY <1>0, <2>1, <2>3
    <3>2. SignalQueue \in Seq(Message) /\ CallQueue \in Seq(Message)
      <4>1. parked \o wire \in Seq(Message) /\ disp.deferred \o parked \o wire \in Seq(Message)
        BY <1>1
      <4> QED  BY <4>1, OnlyIsASeq DEF SignalQueue, CallQueue
    <3>3. Begins(SignalQueue, SignalQueue) /\ Begins(CallQueue, CallQueue)
      BY <3>2, WholeBegins
    <3>4. Begins(SignalQueue', SignalQueue) /\ Begins(CallQueue', CallQueue)
      BY <2>1, <3>3 DEF Undisturbed
    <3> QED  BY <3>1, <3>4 DEF Begins, SignalQueue, CallQueue, Stream!Next, Stream!Disconnect
  <2> QED  BY <2>2, <2>3
<1>5. CASE DispatchGarbled
  <2>1. Undisturbed /\ closed' = closed  BY <1>0, <1>2, <1>5, GarbledKeeps DEF DispatchGarbled
  <2> QED  BY <1>2, <2>1, FrameStep
<1> QED  BY <1>3, <1>4, <1>5

LEMMA CallStep ==
    ASSUME TypeInv, \/ SendFails \/ TakeReply \/ Park
                    \/ CallReadsGarbled \/ CallTimesOut \/ CallHitsEnd
    PROVE  Stream!Next
<1>0. QueuesOK /\ closed \in BOOLEAN  BY DEF TypeInv, CountsOK
<1>1. CASE SendFails
  <2>1. parked' = parked /\ disp' = disp /\ closed' = TRUE  BY <1>1 DEF SendFails
  <2>2. CASE closed
    <3>1. wire' = wire  BY <1>1, <2>2 DEF SendFails
    <3> QED  BY <2>1, <2>2, <3>1, <1>0, QueuesUnchanged, WorkStep
  <2>3. CASE ~closed
    <3>1. KeepBuffered  BY <1>1, <2>3 DEF SendFails
    <3> QED  BY <1>0, <2>1, <2>3, <3>1, DisconnectStep
  <2> QED  BY <2>2, <2>3
<1>2. CASE TakeReply
  <2>1. wire # <<>> /\ wire' = Tail(wire) /\ UNCHANGED <<parked, closed, disp>> /\ IsAnswer(Head(wire))
    BY <1>2 DEF TakeReply
  <2>2. Head(wire) \in Message  BY <1>0, <2>1, HeadOfWire DEF QueuesOK
  <2>3. Undisturbed  BY <1>0, <2>1, <2>2, KindOf, HeadDropped
  <2> QED  BY <2>1, <2>3, WorkStep
<1>3. CASE Park
  <2>1. closed' = closed /\ disp' = disp  BY <1>3 DEF Park
  <2> QED  BY <1>0, <1>3, <2>1, ParkKeeps, WorkStep
<1>4. CASE CallReadsGarbled
  <2>1. /\ wire # <<>> /\ wire' = Tail(wire) /\ UNCHANGED <<parked, closed, disp>>
        /\ Head(wire).kind = "garbled"
    BY <1>4 DEF CallReadsGarbled
  <2>2. Head(wire).kind \notin Signals \cup {"call"}  BY <2>1 DEF Signals
  <2>3. Undisturbed  BY <1>0, <2>1, <2>2, HeadDropped
  <2> QED  BY <2>1, <2>3, WorkStep
<1>5. CASE CallTimesOut  BY <1>5, QueuesUnchanged, WorkStep DEF CallTimesOut
<1>6. CASE CallHitsEnd
  <2>1. parked' = parked /\ disp' = disp /\ wire' = wire /\ wire = <<>> /\ closed' = TRUE
    BY <1>6 DEF CallHitsEnd
  <2>2. CASE closed  BY <2>1, <2>2, <1>0, QueuesUnchanged, WorkStep
  <2>3. CASE ~closed
    <3>1. 0 \in 0 .. Len(wire) /\ wire' = SubSeq(wire, 1, 0)  BY <2>1
    <3>2. KeepBuffered  BY <3>1 DEF KeepBuffered
    <3> QED  BY <1>0, <2>1, <2>3, <3>2, DisconnectStep
  <2> QED  BY <2>2, <2>3
<1> QED  BY <1>1, <1>2, <1>3, <1>4, <1>5, <1>6

LEMMA BusStreamStep == ASSUME TypeInv, BusStep PROVE Stream!Next
<1>0. QueuesOK /\ events + 1 \in Nat  BY DEF TypeInv, CountsOK
<1>1. UNCHANGED <<parked, disp, op, closed>>
  <2>1. UNCHANGED clientVars
    BY DEF BusStep, DaemonServes, PeerAnswers, CallClient, SendGarbled, DaemonStops, EmitSignal,
           ChangeOwner
  <2> QED  BY <2>1 DEF clientVars
<1>2. CASE wire' = wire  BY <1>1, <1>2, QueuesUnchanged, WorkStep
<1>3. ASSUME NEW m \in Message, ~closed, wire' = Append(wire, m) PROVE Stream!Next
  BY <1>0, <1>1, <1>3, ArriveStep
<1>4. ASSUME DaemonServes PROVE Stream!Next
  <2> DEFINE r == Head(inbox)
  <2>1. /\ r \in Request /\ Serve(r) /\ ~closed
        /\ (r.method = "GetNameOwner" => owner[r.arg] \in Peers \cup {Nobody})
    BY <1>4 DEF DaemonServes, TypeInv, DaemonOK, Connected, RequestOK
  <2> HIDE DEF r
  <2>2. r.serial \in Nat  BY <2>1 DEF Request
  <2>3. Refusal(r) \in Message /\ \A v \in Peers \cup {Nobody} : Reply(r, v) \in Message
    BY <2>2 DEF Refusal, Reply, Message, AnswerMsg
  <2>4. wire' = wire \/ \E m \in Message : wire' = Append(wire, m)
    BY <2>1, <2>3 DEF Serve
  <2> QED  BY <1>2, <1>3, <2>1, <2>4
<1>5. ASSUME PeerAnswers PROVE Stream!Next
  <2>1. PICK s \in rpcs, kind \in {"reply", "error"} :
          wire' = Append(wire, [kind |-> kind, serial |-> s, value |-> Nobody])
    BY <1>5 DEF PeerAnswers
  <2>2. [kind |-> kind, serial |-> s, value |-> Nobody] \in Message
    BY DEF TypeInv, DaemonOK, Message, AnswerMsg
  <2> QED  BY <1>3, <1>5, <2>1, <2>2 DEF PeerAnswers, Connected
<1>6. ASSUME CallClient PROVE Stream!Next
  <2>1. [kind |-> "call", id |-> events + 1] \in Message  BY <1>0 DEF Message, CallMsg
  <2> QED  BY <1>3, <1>6, <2>1 DEF CallClient, Connected, Originate
<1>7. ASSUME SendGarbled PROVE Stream!Next
  <2>1. [kind |-> "garbled", id |-> events + 1] \in Message  BY <1>0 DEF Message, Garbled
  <2> QED  BY <1>3, <1>7, <2>1 DEF SendGarbled, Connected, Originate
<1>8. ASSUME NEW p \in Peers, EmitSignal(p) PROVE Stream!Next
  <2>1. [kind |-> "signal", id |-> events + 1, from |-> p,
         names |-> {n \in Names : owner[n] = p}] \in Message
    BY <1>0 DEF Message, SignalMsg
  <2> QED  BY <1>3, <1>8, <2>1 DEF EmitSignal, Connected, Originate
<1>9. ASSUME NEW n \in Names, NEW p \in Peers \cup {Nobody}, ChangeOwner(n, p) PROVE Stream!Next
  <2>1. [kind |-> "owner", id |-> events + 1, name |-> n, new |-> p] \in Message
    BY <1>0 DEF Message, OwnerMsg
  <2> QED  BY <1>2, <1>3, <1>9, <2>1 DEF ChangeOwner, Connected, Originate
<1>10. CASE DaemonStops  BY <1>2, <1>10 DEF DaemonStops
<1> QED  BY <1>4, <1>5, <1>6, <1>7, <1>8, <1>9, <1>10 DEF BusStep

LEMMA NextStream ==
    TypeInv /\ TypeInv' /\ FrameInv /\ [Next]_vars => [Stream!Next]_Stream!vars
<1> SUFFICES ASSUME TypeInv, TypeInv', FrameInv, [Next]_vars
             PROVE  Stream!Next \/ UNCHANGED Stream!vars
  OBVIOUS
<1>0. disp \in Frame /\ QueuesOK /\ closed \in BOOLEAN  BY DEF TypeInv, QueuesOK, CountsOK
<1>1. ASSUME UNCHANGED <<parked, wire, closed, disp>> PROVE Stream!Next
  BY <1>1, QueuesUnchanged, WorkStep
<1>2. ASSUME NEW h \in Handlers, Subscribe(h) \/ Unsubscribe(h) PROVE Stream!Next
  BY <1>1, <1>2 DEF Subscribe, Unsubscribe, Released
<1>3. ASSUME NEW p \in Peers, Call(p) PROVE Stream!Next  BY <1>1, <1>3 DEF Call
<1>4. CASE Unwatch  BY <1>1, <1>4 DEF Unwatch
<1>5. CASE Close  BY <1>0, <1>5, DisconnectStep DEF Close
<1>6. CASE Send  BY <1>1, <1>6 DEF Send
<1>7. CASE \/ SendFails \/ TakeReply \/ Park \/ CallReadsGarbled \/ CallTimesOut \/ CallHitsEnd
  BY <1>7, CallStep
<1>8. ASSUME NEW serve \in BOOLEAN, BeginDispatch(serve) PROVE Stream!Next
  <2>1. /\ disp'.deferred = <<>> /\ disp'.on = TRUE /\ disp.on = FALSE /\ op = Idle /\ op' = Idle
        /\ UNCHANGED <<parked, wire, closed>>
    BY <1>0, <1>8 DEF BeginDispatch, NoFrame, Frame
  <2>2. disp.deferred = <<>>  BY <2>1 DEF FrameInv
  <2> QED  BY <2>1, <2>2, QueuesUnchanged, FrameStep
<1>9. CASE DispatchSignal  BY <1>9, DispatchSignalStep
<1>10. CASE DispatchCall  BY <1>10, DispatchCallStep
<1>11. CASE DispatchAnswer
  <2>1. wire # <<>> /\ wire' = Tail(wire) /\ UNCHANGED <<parked, closed, disp>> /\ IsAnswer(Head(wire))
    BY <1>11 DEF DispatchAnswer
  <2>2. Head(wire) \in Message  BY <1>0, <2>1, HeadOfWire DEF QueuesOK
  <2>3. Undisturbed  BY <1>0, <2>1, <2>2, KindOf, HeadDropped
  <2> QED  BY <2>1, <2>3, WorkStep
<1>12. CASE DispatchGarbled \/ DispatchEnds \/ HandlerRaises  BY <1>12, EndOfFrameStep
<1>13. CASE InvokeHandler \/ HandlerReturns
  <2>1. /\ disp'.on = disp.on /\ disp'.deferred = disp.deferred /\ UNCHANGED <<parked, wire, closed>>
    BY <1>0, <1>13 DEF InvokeHandler, HandlerReturns, Frame
  <2> QED  BY <2>1, QueuesUnchanged, WorkStep
<1>14. CASE BusStep  BY <1>14, BusStreamStep
<1>15. CASE UNCHANGED vars  BY <1>1, <1>15 DEF vars
<1> QED
  BY <1>2, <1>3, <1>4, <1>5, <1>6, <1>7, <1>8, <1>9, <1>10, <1>11, <1>12, <1>13, <1>14, <1>15
     DEF Next, ClientStep

LEMMA InitStream == Init => FrameInv /\ Stream!Init
<1> SUFFICES ASSUME Init PROVE FrameInv /\ Stream!Init  OBVIOUS
<1>1. parked = <<>> /\ wire = <<>> /\ disp = NoFrame /\ op = Idle /\ closed = FALSE  BY DEF Init
<1>2. <<>> \o <<>> = <<>>  OBVIOUS
<1>3. disp.deferred = <<>> /\ disp.on = FALSE /\ op.sent = FALSE /\ disp.serve = FALSE
  BY <1>1 DEF NoFrame, Idle
<1>4. Only(Signals, parked \o wire) = <<>>  BY <1>1, <1>2, OnlyEmpty
<1>5. Only({"call"}, disp.deferred \o parked \o wire) = <<>>  BY <1>1, <1>2, <1>3, OnlyEmpty
<1> QED  BY <1>1, <1>3, <1>4, <1>5 DEF FrameInv, Stream!Init

(* Whatever the daemon sends while calls time out, fail or are answered      *)
(* late, and whatever handlers do inside dispatch(): no signal and no method *)
(* call is lost, reordered, taken twice or taken inside a synchronous call,  *)
(* until the connection closes (Connection.call, dispatch and _park).        *)
THEOREM StreamRefined == Spec => StreamImplemented
<1>1. Init => TypeInv /\ FrameInv /\ Stream!Init  BY InitType, InitStream
<1>2. TypeInv /\ [Next]_vars => TypeInv'  BY NextType
<1>3. TypeInv /\ FrameInv /\ [Next]_vars => FrameInv'  BY NextFrame
<1>4. TypeInv /\ TypeInv' /\ FrameInv /\ [Next]_vars => [Stream!Next]_Stream!vars  BY NextStream
<1> QED  BY <1>1, <1>2, <1>3, <1>4, PTL DEF Spec, StreamImplemented, Stream!Spec

-----------------------------------------------------------------------------
(* What an entry is bound to is right now only if every owner change still   *)
(* queued is applied first, so the invariant is about the queue: what its    *)
(* signals say of their senders agrees with what the owner changes before    *)
(* them say.                                                                 *)


IsOwner(m, n) == m.kind = "owner" /\ m.name = n

\* Message numbers grow along a queue and none is ahead of the counter.
Orderly(queue, top) ==
    /\ \A i \in DOMAIN queue : queue[i].id \in Nat /\ queue[i].id <= top
    /\ \A i, j \in DOMAIN queue : i < j => queue[i].id < queue[j].id

\* No owner change of the name is queued; none is of an earlier watch.
Silent(queue, n) == \A i \in DOMAIN queue : ~IsOwner(queue[i], n)
Fresh(queue, n, since) == \A i \in DOMAIN queue : IsOwner(queue[i], n) => queue[i].id > since

\* The owner of the name sent the signal exactly when it was "who".
SentBy(m, n, who) == who = m.from <=> n \in m.names

\* Bound to "who", an entry made at "born" mistakes no signal that comes before
\* the next owner change.
Heard(queue, n, who, born) ==
    \A i \in DOMAIN queue :
        (/\ queue[i].kind = "signal" /\ queue[i].id > born
         /\ \A j \in DOMAIN queue : j < i => ~IsOwner(queue[j], n))
            => SentBy(queue[i], n, who)

\* A signal after an owner change, with no other between, agrees with it.
Told(queue, n, since) ==
    \A j, i \in DOMAIN queue :
        (/\ j < i /\ IsOwner(queue[j], n) /\ queue[j].id > since
         /\ queue[i].kind = "signal"
         /\ \A k \in DOMAIN queue : j < k /\ k < i => ~IsOwner(queue[k], n))
            => SentBy(queue[i], n, queue[j].new)

\* The last owner change that is queued names the present owner.
Latest(queue, n, since, who) ==
    \A j \in DOMAIN queue :
        (/\ IsOwner(queue[j], n) /\ queue[j].id > since
         /\ \A k \in DOMAIN queue : j < k => ~IsOwner(queue[k], n))
            => queue[j].new = who

-----------------------------------------------------------------------------
(* A message arrives at the end of the queue. *)

LEMMA Appended ==
    ASSUME NEW queue \in Seq(Message), NEW m \in Message
    PROVE  LET longer == Append(queue, m) IN
             /\ Len(queue) \in Nat
             /\ \A i \in DOMAIN longer :
                   \/ i \in DOMAIN queue /\ longer[i] = queue[i]
                   \/ i = Len(queue) + 1 /\ longer[i] = m
             /\ \A i \in DOMAIN queue :
                   i \in Nat /\ i < Len(queue) + 1 /\ i \in DOMAIN longer /\ longer[i] = queue[i]
             /\ Len(queue) + 1 \in DOMAIN longer /\ longer[Len(queue) + 1] = m
OBVIOUS

LEMMA OrderlyGrows ==
    ASSUME NEW queue \in Seq(Message), NEW m \in Message, NEW top \in Nat,
           Orderly(queue, top), m.id = top + 1
    PROVE  Orderly(Append(queue, m), top + 1)
<1> DEFINE longer == Append(queue, m)
           last == Len(queue) + 1
<1>1. /\ Len(queue) \in Nat
      /\ \A i \in DOMAIN longer : \/ i \in DOMAIN queue /\ longer[i] = queue[i]
                                  \/ i = last /\ longer[i] = m
      /\ \A i \in DOMAIN queue : i \in Nat /\ i < last
  BY Appended
<1> HIDE DEF longer, last
<1>2. ASSUME NEW i \in DOMAIN longer PROVE longer[i].id \in Nat /\ longer[i].id <= top + 1
  BY <1>1 DEF Orderly
<1>3. ASSUME NEW i \in DOMAIN longer, NEW j \in DOMAIN longer, i < j
      PROVE  longer[i].id < longer[j].id
  <2>1. last \in Nat  BY <1>1 DEF last
  <2>2. i \in DOMAIN queue /\ longer[i] = queue[i]  BY <1>1, <1>3, <2>1
  <2> QED  BY <1>1, <1>3, <2>2 DEF Orderly
<1> QED  BY <1>2, <1>3 DEF Orderly, longer

LEMMA OrderlyLater ==
    ASSUME NEW queue, NEW top \in Nat, Orderly(queue, top) PROVE Orderly(queue, top + 1)
BY DEF Orderly

LEMMA SilentGrows ==
    ASSUME NEW queue \in Seq(Message), NEW m \in Message, NEW n, Silent(Append(queue, m), n)
    PROVE  Silent(queue, n) /\ ~IsOwner(m, n)
BY Appended DEF Silent

LEMMA FreshGrows ==
    ASSUME NEW queue \in Seq(Message), NEW m \in Message, NEW n, NEW since,
           Fresh(queue, n, since), m.id > since
    PROVE  Fresh(Append(queue, m), n, since)
BY Appended DEF Fresh

LEMMA HeardGrows ==
    ASSUME NEW queue \in Seq(Message), NEW m \in Message, NEW n, NEW who, NEW born,
           Heard(queue, n, who, born),
           m.kind = "signal" /\ Silent(queue, n) => SentBy(m, n, who)
    PROVE  Heard(Append(queue, m), n, who, born)
<1> DEFINE longer == Append(queue, m)
           last == Len(queue) + 1
<1>1. /\ \A i \in DOMAIN longer : \/ i \in DOMAIN queue /\ longer[i] = queue[i]
                                  \/ i = last /\ longer[i] = m
      /\ \A i \in DOMAIN queue : i < last /\ i \in DOMAIN longer /\ longer[i] = queue[i]
  BY Appended
<1> HIDE DEF longer, last
<1>2. SUFFICES ASSUME NEW i \in DOMAIN longer, longer[i].kind = "signal", longer[i].id > born,
                      \A j \in DOMAIN longer : j < i => ~IsOwner(longer[j], n)
               PROVE  SentBy(longer[i], n, who)
  BY DEF Heard, longer
<1>3. CASE i \in DOMAIN queue /\ longer[i] = queue[i]
  <2>1. \A j \in DOMAIN queue : j < i => ~IsOwner(queue[j], n)  BY <1>1, <1>2
  <2> QED  BY <1>2, <1>3, <2>1 DEF Heard
<1>4. CASE i = last /\ longer[i] = m
  <2>1. Silent(queue, n)  BY <1>1, <1>2, <1>4 DEF Silent
  <2> QED  BY <1>2, <1>4, <2>1
<1> QED  BY <1>1, <1>3, <1>4

LEMMA ToldGrows ==
    ASSUME NEW queue \in Seq(Message), NEW m \in Message, NEW n, NEW since, NEW who,
           Told(queue, n, since), Latest(queue, n, since, who),
           m.kind = "signal" => SentBy(m, n, who)
    PROVE  Told(Append(queue, m), n, since)
<1> DEFINE longer == Append(queue, m)
           last == Len(queue) + 1
<1>1. /\ Len(queue) \in Nat
      /\ \A i \in DOMAIN longer : \/ i \in DOMAIN queue /\ longer[i] = queue[i]
                                  \/ i = last /\ longer[i] = m
      /\ \A i \in DOMAIN queue : i \in Nat /\ i < last /\ i \in DOMAIN longer /\ longer[i] = queue[i]
  BY Appended
<1>0. last \in Nat  BY <1>1
<1> HIDE DEF longer, last
<1>2. SUFFICES ASSUME NEW j \in DOMAIN longer, NEW i \in DOMAIN longer, j < i,
                      IsOwner(longer[j], n), longer[j].id > since, longer[i].kind = "signal",
                      \A k \in DOMAIN longer : j < k /\ k < i => ~IsOwner(longer[k], n)
               PROVE  SentBy(longer[i], n, longer[j].new)
  BY DEF Told, longer
<1>3. j \in DOMAIN queue /\ longer[j] = queue[j]  BY <1>0, <1>1, <1>2
<1>4. CASE i \in DOMAIN queue /\ longer[i] = queue[i]
  <2>1. \A k \in DOMAIN queue : j < k /\ k < i => ~IsOwner(queue[k], n)  BY <1>1, <1>2
  <2> QED  BY <1>2, <1>3, <1>4, <2>1 DEF Told
<1>5. CASE i = last /\ longer[i] = m
  <2>1. \A k \in DOMAIN queue : j < k => ~IsOwner(queue[k], n)  BY <1>1, <1>2, <1>5
  <2>2. queue[j].new = who  BY <1>2, <1>3, <2>1 DEF Latest
  <2> QED  BY <1>2, <1>3, <1>5, <2>2
<1> QED  BY <1>1, <1>4, <1>5

LEMMA LatestGrows ==
    ASSUME NEW queue \in Seq(Message), NEW m \in Message, NEW n, NEW since, NEW who,
           IF IsOwner(m, n) THEN m.new = who ELSE Latest(queue, n, since, who)
    PROVE  Latest(Append(queue, m), n, since, who)
<1> DEFINE longer == Append(queue, m)
           last == Len(queue) + 1
<1>1. /\ \A i \in DOMAIN longer : \/ i \in DOMAIN queue /\ longer[i] = queue[i]
                                  \/ i = last /\ longer[i] = m
      /\ \A i \in DOMAIN queue : i < last /\ i \in DOMAIN longer /\ longer[i] = queue[i]
      /\ last \in DOMAIN longer /\ longer[last] = m
  BY Appended
<1> HIDE DEF longer, last
<1>2. SUFFICES ASSUME NEW j \in DOMAIN longer, IsOwner(longer[j], n), longer[j].id > since,
                      \A k \in DOMAIN longer : j < k => ~IsOwner(longer[k], n)
               PROVE  longer[j].new = who
  BY DEF Latest, longer
<1>3. CASE j \in DOMAIN queue /\ longer[j] = queue[j]
  <2>1. \A k \in DOMAIN queue : j < k => ~IsOwner(queue[k], n)  BY <1>1, <1>2
  <2>2. ~IsOwner(m, n)  BY <1>1, <1>2, <1>3
  <2> QED  BY <1>2, <1>3, <2>1, <2>2 DEF Latest
<1>4. CASE j = last /\ longer[j] = m  BY <1>2, <1>4
<1> QED  BY <1>1, <1>3, <1>4

-----------------------------------------------------------------------------
(* The end of the queue is lost with the socket. *)

LEMMA BeginsWith ==
    ASSUME NEW queue \in Seq(Message), NEW rest, Begins(rest, queue)
    PROVE  /\ \A i \in DOMAIN rest : i \in DOMAIN queue /\ i \in Nat /\ rest[i] = queue[i]
           /\ \A i \in DOMAIN rest, j \in DOMAIN queue : j \in Nat /\ (j < i => j \in DOMAIN rest)
<1>1. PICK k \in 0 .. Len(queue) : rest = SubSeq(queue, 1, k)  BY DEF Begins
<1>2. DOMAIN rest = 1 .. k /\ DOMAIN queue = 1 .. Len(queue) /\ Len(queue) \in Nat
  BY <1>1
<1>3. \A i \in 1 .. k : rest[i] = queue[i]  BY <1>1
<1> QED  BY <1>2, <1>3

LEMMA OrderlyCut ==
    ASSUME NEW queue \in Seq(Message), NEW rest, Begins(rest, queue), NEW top,
           Orderly(queue, top)
    PROVE  Orderly(rest, top)
BY BeginsWith DEF Orderly

LEMMA FreshCut ==
    ASSUME NEW queue \in Seq(Message), NEW rest, Begins(rest, queue), NEW n, NEW since,
           Fresh(queue, n, since)
    PROVE  Fresh(rest, n, since)
BY BeginsWith DEF Fresh

LEMMA HeardCut ==
    ASSUME NEW queue \in Seq(Message), NEW rest, Begins(rest, queue), NEW n, NEW who, NEW born,
           Heard(queue, n, who, born)
    PROVE  Heard(rest, n, who, born)
<1>1. SUFFICES ASSUME NEW i \in DOMAIN rest, rest[i].kind = "signal", rest[i].id > born,
                      \A j \in DOMAIN rest : j < i => ~IsOwner(rest[j], n)
               PROVE  SentBy(rest[i], n, who)
  BY DEF Heard
<1>2. i \in DOMAIN queue /\ rest[i] = queue[i]  BY BeginsWith
<1>3. ASSUME NEW j \in DOMAIN queue, j < i PROVE ~IsOwner(queue[j], n)
  BY <1>1, <1>3, BeginsWith
<1> QED  BY <1>1, <1>2, <1>3 DEF Heard

LEMMA ToldCut ==
    ASSUME NEW queue \in Seq(Message), NEW rest, Begins(rest, queue), NEW n, NEW since,
           Told(queue, n, since)
    PROVE  Told(rest, n, since)
<1>1. SUFFICES ASSUME NEW j \in DOMAIN rest, NEW i \in DOMAIN rest, j < i,
                      IsOwner(rest[j], n), rest[j].id > since, rest[i].kind = "signal",
                      \A k \in DOMAIN rest : j < k /\ k < i => ~IsOwner(rest[k], n)
               PROVE  SentBy(rest[i], n, rest[j].new)
  BY DEF Told
<1>2. /\ i \in DOMAIN queue /\ rest[i] = queue[i]
      /\ j \in DOMAIN queue /\ rest[j] = queue[j]
  BY BeginsWith
<1>3. ASSUME NEW k \in DOMAIN queue, j < k, k < i PROVE ~IsOwner(queue[k], n)
  BY <1>1, <1>3, BeginsWith
<1> QED  BY <1>1, <1>2, <1>3 DEF Told

-----------------------------------------------------------------------------
(* The first message is taken. *)

LEMMA Taken ==
    ASSUME NEW m \in Message, NEW rest \in Seq(Message)
    PROVE  LET queue == <<m>> \o rest IN
             /\ 1 \in DOMAIN queue /\ queue[1] = m
             /\ \A i \in DOMAIN queue : i = 1 \/ (i \in Nat /\ i > 1 /\ i - 1 \in DOMAIN rest)
             /\ \A i \in DOMAIN rest : i \in Nat /\ i > 0 /\ i + 1 \in DOMAIN queue
                                       /\ queue[i + 1] = rest[i]
<1> DEFINE queue == <<m>> \o rest
<1>1. Len(queue) = Len(rest) + 1 /\ Len(rest) \in Nat /\ queue[1] = m
  OBVIOUS
<1>2. DOMAIN queue = 1 .. Len(queue) /\ DOMAIN rest = 1 .. Len(rest)
  OBVIOUS
<1>3. \A i \in 1 .. Len(rest) : queue[i + 1] = rest[i]
  OBVIOUS
<1> HIDE DEF queue
<1>4. /\ 1 \in DOMAIN queue
      /\ \A i \in DOMAIN queue : i = 1 \/ (i \in Nat /\ i > 1 /\ i - 1 \in DOMAIN rest)
      /\ \A i \in DOMAIN rest : i \in Nat /\ i > 0 /\ i + 1 \in DOMAIN queue
  BY <1>1, <1>2
<1> QED  BY <1>1, <1>2, <1>3, <1>4 DEF queue

LEMMA OrderlyTaken ==
    ASSUME NEW m \in Message, NEW rest \in Seq(Message), NEW top, Orderly(<<m>> \o rest, top)
    PROVE  /\ Orderly(rest, top)
           /\ m.id \in Nat /\ m.id <= top
           /\ \A i \in DOMAIN rest : m.id < rest[i].id
<1> DEFINE queue == <<m>> \o rest
<1>1. /\ 1 \in DOMAIN queue /\ queue[1] = m
      /\ \A i \in DOMAIN rest : i \in Nat /\ i > 0 /\ i + 1 \in DOMAIN queue /\ queue[i + 1] = rest[i]
  BY Taken
<1>2. Orderly(queue, top)  OBVIOUS
<1> HIDE DEF queue
<1>3. ASSUME NEW i \in DOMAIN rest, NEW j \in DOMAIN rest, i < j PROVE rest[i].id < rest[j].id
  <2>1. i + 1 < j + 1 /\ i + 1 \in DOMAIN queue /\ j + 1 \in DOMAIN queue  BY <1>1, <1>3
  <2>2. queue[i + 1].id < queue[j + 1].id  BY <1>2, <2>1 DEF Orderly
  <2> QED  BY <1>1, <2>2
<1>4. ASSUME NEW i \in DOMAIN rest
      PROVE  rest[i].id \in Nat /\ rest[i].id <= top /\ m.id < rest[i].id
  <2>1. i + 1 \in DOMAIN queue /\ 1 < i + 1 /\ queue[i + 1] = rest[i]  BY <1>1
  <2>2. queue[1].id < queue[i + 1].id /\ queue[i + 1].id \in Nat /\ queue[i + 1].id <= top
    BY <1>1, <1>2, <2>1 DEF Orderly
  <2> QED  BY <1>1, <2>1, <2>2
<1> QED  BY <1>1, <1>2, <1>3, <1>4 DEF Orderly

LEMMA FreshTaken ==
    ASSUME NEW m \in Message, NEW rest \in Seq(Message), NEW n, NEW since \in Nat, NEW top,
           Orderly(<<m>> \o rest, top),
           Fresh(<<m>> \o rest, n, since) \/ m.id > since
    PROVE  Fresh(rest, n, since)
<1>1. CASE Fresh(<<m>> \o rest, n, since)
  <2> DEFINE queue == <<m>> \o rest
  <2>1. \A i \in DOMAIN rest : i + 1 \in DOMAIN queue /\ queue[i + 1] = rest[i]  BY Taken
  <2>2. Fresh(queue, n, since)  BY <1>1
  <2> HIDE DEF queue
  <2> QED  BY <2>1, <2>2 DEF Fresh
<1>2. CASE m.id > since
  <2>1. ASSUME NEW i \in DOMAIN rest PROVE rest[i].id > since
    <3>1. m.id \in Nat /\ rest[i].id \in Nat /\ m.id < rest[i].id
      BY OrderlyTaken DEF Orderly
    <3> QED  BY <1>2, <3>1
  <2> QED  BY <2>1 DEF Fresh
<1> QED  BY <1>1, <1>2

LEMMA SilentTaken ==
    ASSUME NEW m \in Message, NEW rest \in Seq(Message), NEW n, Silent(rest, n), ~IsOwner(m, n)
    PROVE  Silent(<<m>> \o rest, n)
<1> DEFINE queue == <<m>> \o rest
<1>1. ASSUME NEW i \in DOMAIN queue PROVE ~IsOwner(queue[i], n)
  <2>1. /\ queue[1] = m /\ \A k \in DOMAIN rest : k \in Nat /\ queue[k + 1] = rest[k]
        /\ i = 1 \/ (i \in Nat /\ i > 1 /\ i - 1 \in DOMAIN rest)
    BY Taken
  <2> HIDE DEF queue
  <2>2. CASE i = 1  BY <2>1, <2>2
  <2>3. CASE i \in Nat /\ i > 1 /\ i - 1 \in DOMAIN rest
    <3>1. queue[(i - 1) + 1] = rest[i - 1] /\ (i - 1) + 1 = i  BY <2>1, <2>3
    <3> QED  BY <2>3, <3>1 DEF Silent
  <2> QED  BY <2>1, <2>2, <2>3
<1> HIDE DEF queue
<1> QED  BY <1>1 DEF Silent, queue

\* Another message is taken: what was heard is heard.
LEMMA HeardTaken ==
    ASSUME NEW m \in Message, NEW rest \in Seq(Message), NEW n, NEW who, NEW born,
           Heard(<<m>> \o rest, n, who, born), ~IsOwner(m, n)
    PROVE  /\ Heard(rest, n, who, born)
           /\ m.kind = "signal" /\ m.id > born => SentBy(m, n, who)
<1> DEFINE queue == <<m>> \o rest
<1>1. /\ 1 \in DOMAIN queue /\ queue[1] = m
      /\ \A i \in DOMAIN queue : i = 1 \/ (i \in Nat /\ i > 1 /\ i - 1 \in DOMAIN rest)
      /\ \A i \in DOMAIN rest : i \in Nat /\ i > 0 /\ i + 1 \in DOMAIN queue /\ queue[i + 1] = rest[i]
  BY Taken
<1>2. Heard(queue, n, who, born)  OBVIOUS
<1> HIDE DEF queue
<1>3. ASSUME NEW i \in DOMAIN rest, rest[i].kind = "signal", rest[i].id > born,
             \A j \in DOMAIN rest : j < i => ~IsOwner(rest[j], n)
      PROVE  SentBy(rest[i], n, who)
  <2>1. ASSUME NEW j \in DOMAIN queue, j < i + 1 PROVE ~IsOwner(queue[j], n)
    <3>1. CASE j = 1  BY <1>1, <3>1
    <3>2. CASE j \in Nat /\ j > 1 /\ j - 1 \in DOMAIN rest
      <4>1. j - 1 < i /\ queue[(j - 1) + 1] = rest[j - 1] /\ (j - 1) + 1 = j
        BY <1>1, <2>1, <3>2
      <4> QED  BY <1>3, <3>2, <4>1
    <3> QED  BY <1>1, <2>1, <3>1, <3>2
  <2> QED  BY <1>1, <1>2, <1>3, <2>1 DEF Heard
<1>4. ASSUME m.kind = "signal", m.id > born PROVE SentBy(m, n, who)
  <2>1. \A j \in DOMAIN queue : ~(j < 1)  BY <1>1
  <2> QED  BY <1>1, <1>2, <1>4, <2>1 DEF Heard
<1> QED  BY <1>3, <1>4 DEF Heard

LEMMA ToldTaken ==
    ASSUME NEW m \in Message, NEW rest \in Seq(Message), NEW n, NEW since,
           Told(<<m>> \o rest, n, since)
    PROVE  /\ Told(rest, n, since)
           /\ IsOwner(m, n) /\ m.id > since => \A born : Heard(rest, n, m.new, born)
<1> DEFINE queue == <<m>> \o rest
<1>1. /\ 1 \in DOMAIN queue /\ queue[1] = m
      /\ \A i \in DOMAIN queue : i = 1 \/ (i \in Nat /\ i > 1 /\ i - 1 \in DOMAIN rest)
      /\ \A i \in DOMAIN rest : i \in Nat /\ i > 0 /\ i + 1 \in DOMAIN queue /\ queue[i + 1] = rest[i]
  BY Taken
<1>2. Told(queue, n, since)  OBVIOUS
<1> HIDE DEF queue
<1>3. ASSUME NEW j \in DOMAIN rest, NEW i \in DOMAIN rest, j < i,
             IsOwner(rest[j], n), rest[j].id > since, rest[i].kind = "signal",
             \A k \in DOMAIN rest : j < k /\ k < i => ~IsOwner(rest[k], n)
      PROVE  SentBy(rest[i], n, rest[j].new)
  <2>1. ASSUME NEW k \in DOMAIN queue, j + 1 < k, k < i + 1 PROVE ~IsOwner(queue[k], n)
    <3>1. k \in Nat /\ k > 1 /\ k - 1 \in DOMAIN rest  BY <1>1, <2>1
    <3>2. /\ j < k - 1 /\ k - 1 < i
          /\ queue[(k - 1) + 1] = rest[k - 1] /\ (k - 1) + 1 = k
      BY <1>1, <2>1, <3>1, SMTT(60)
    <3> QED  BY <1>3, <3>1, <3>2
  <2>2. /\ j + 1 < i + 1 /\ j + 1 \in DOMAIN queue /\ i + 1 \in DOMAIN queue
        /\ queue[j + 1] = rest[j] /\ queue[i + 1] = rest[i]
    BY <1>1, <1>3
  <2> QED  BY <1>2, <1>3, <2>1, <2>2 DEF Told
<1>4. ASSUME IsOwner(m, n), m.id > since, NEW born, NEW i \in DOMAIN rest,
             rest[i].kind = "signal", \A j \in DOMAIN rest : j < i => ~IsOwner(rest[j], n)
      PROVE  SentBy(rest[i], n, m.new)
  <2>1. ASSUME NEW k \in DOMAIN queue, 1 < k, k < i + 1 PROVE ~IsOwner(queue[k], n)
    <3>1. k \in Nat /\ k > 1 /\ k - 1 \in DOMAIN rest  BY <1>1, <2>1
    <3>2. k - 1 < i /\ queue[(k - 1) + 1] = rest[k - 1] /\ (k - 1) + 1 = k
      BY <1>1, <2>1, <3>1
    <3> QED  BY <1>4, <3>1, <3>2
  <2>2. 1 < i + 1 /\ i + 1 \in DOMAIN queue /\ queue[i + 1] = rest[i]  BY <1>1
  <2> QED  BY <1>1, <1>2, <1>4, <2>1, <2>2 DEF Told
<1> QED  BY <1>3, <1>4 DEF Told, Heard

LEMMA LatestTaken ==
    ASSUME NEW m \in Message, NEW rest \in Seq(Message), NEW n, NEW since, NEW who,
           Latest(<<m>> \o rest, n, since, who)
    PROVE  /\ Latest(rest, n, since, who)
           /\ IsOwner(m, n) /\ m.id > since /\ Silent(rest, n) => m.new = who
<1> DEFINE queue == <<m>> \o rest
<1>1. /\ 1 \in DOMAIN queue /\ queue[1] = m
      /\ \A i \in DOMAIN queue : i = 1 \/ (i \in Nat /\ i > 1 /\ i - 1 \in DOMAIN rest)
      /\ \A i \in DOMAIN rest : i \in Nat /\ i > 0 /\ i + 1 \in DOMAIN queue /\ queue[i + 1] = rest[i]
  BY Taken
<1>2. Latest(queue, n, since, who)  OBVIOUS
<1> HIDE DEF queue
<1>3. ASSUME NEW j \in Nat,
             \A k \in DOMAIN rest : j < k + 1 => ~IsOwner(rest[k], n),
             NEW k \in DOMAIN queue, j < k, j > 0
      PROVE  ~IsOwner(queue[k], n)
  <2>1. k \in Nat /\ k > 1 /\ k - 1 \in DOMAIN rest  BY <1>1, <1>3
  <2>2. j < (k - 1) + 1 /\ queue[(k - 1) + 1] = rest[k - 1] /\ (k - 1) + 1 = k
    BY <1>1, <1>3, <2>1
  <2> QED  BY <1>3, <2>1, <2>2
<1>4. ASSUME NEW j \in DOMAIN rest, IsOwner(rest[j], n), rest[j].id > since,
             \A k \in DOMAIN rest : j < k => ~IsOwner(rest[k], n)
      PROVE  rest[j].new = who
  <2>1. j + 1 \in Nat /\ j + 1 > 0 /\ j + 1 \in DOMAIN queue /\ queue[j + 1] = rest[j]  BY <1>1
  <2>2. \A k \in DOMAIN rest : j + 1 < k + 1 => ~IsOwner(rest[k], n)  BY <1>1, <1>4
  <2>3. \A k \in DOMAIN queue : j + 1 < k => ~IsOwner(queue[k], n)  BY <1>3, <2>1, <2>2
  <2> QED  BY <1>2, <1>4, <2>1, <2>3 DEF Latest
<1>5. ASSUME IsOwner(m, n), m.id > since, Silent(rest, n) PROVE m.new = who
  <2>1. \A k \in DOMAIN rest : 1 < k + 1 => ~IsOwner(rest[k], n)  BY <1>5 DEF Silent
  <2>2. \A k \in DOMAIN queue : 1 < k => ~IsOwner(queue[k], n)  BY <1>3, <2>1
  <2> QED  BY <1>1, <1>2, <1>5, <2>2 DEF Latest
<1> QED  BY <1>4, <1>5 DEF Latest

-----------------------------------------------------------------------------
(* The invariant. *)

Ordered == Orderly(SignalQueue, events) /\ watchedSince <= events

\* While the daemon sends owner changes it has sent them all.
Watched ==
    matches[BusName] > 0 =>
        \A n \in Names :
            /\ Told(SignalQueue, n, watchedSince)
            /\ Connected => Latest(SignalQueue, n, watchedSince, owner[n])

\* "who" owns the name once the queue is dispatched.
Settled(n, who) ==
    /\ Fresh(SignalQueue, n, watchedSince)
    /\ Connected /\ Silent(SignalQueue, n) => who = owner[n]

Bindings ==
    \A e \in handlers :
        (WellKnown(e.h) /\ e.resolved) =>
            /\ Settled(SenderOf[e.h], e.unique)
            /\ Heard(SignalQueue, SenderOf[e.h], e.unique, e.born)

\* What subscribe() carries from GetNameOwner to _handlers.append.
Joining ==
    (op.stage = "match" /\ op.resolved /\ WellKnown(op.h)) => Settled(SenderOf[op.h], op.unique)

\* The awaited answer of GetNameOwner names the present owner, or an owner
\* change follows it.
Answered ==
    (op.stage = "lookup" /\ op.sent /\ Connected) =>
        \A k \in DOMAIN wire :
            (/\ IsAnswer(wire[k]) /\ wire[k].serial = serial
             /\ \A j \in DOMAIN wire : k < j => ~IsOwner(wire[j], SenderOf[op.h]))
                => wire[k].value = owner[SenderOf[op.h]]

OwnerInv == Ordered /\ Watched /\ Bindings /\ Joining /\ Answered

LEMMA SignalsType ==
    ASSUME TypeInv
    PROVE  SignalQueue \in Seq(Message) /\ events \in Nat /\ watchedSince \in Nat
<1>1. QueuesOK  BY DEF TypeInv
<1>2. parked \in Seq(Message) /\ wire \in Seq(Message)  BY <1>1, QueueTypes
<1>3. parked \o wire \in Seq(Message)  BY <1>2
<1> QED  BY <1>3, OnlyIsASeq DEF SignalQueue, TypeInv, CountsOK

LEMMA InitOwners == Init => OwnerInv
<1> SUFFICES ASSUME Init PROVE OwnerInv  OBVIOUS
<1>1. SignalQueue = <<>>
  <2>1. parked \o wire = <<>>  BY DEF Init
  <2> QED  BY <2>1, OnlyEmpty DEF SignalQueue
<1>2. Ordered  BY <1>1 DEF Ordered, Orderly, Init
<1>3. matches[BusName] = 0 /\ handlers = {} /\ op.stage = "idle"
  BY DEF Init, Senders, Idle
<1> QED  BY <1>2, <1>3 DEF OwnerInv, Watched, Bindings, Joining, Answered

\* Owner changes are sent as long as some entry, or one in the making, is bound
\* through a well-known name.
LEMMA OwnersAreWatched ==
    ASSUME MatchInv, UsersInv,
           \/ NeedsWatch(handlers) \/ op.stage = "lookup"
           \/ op.stage = "match" /\ WellKnown(op.h)
    PROVE  matches[BusName] > 0
<1>1. /\ op.stage \in Stages /\ users \in [Senders -> Int] /\ watching \in BOOLEAN
      /\ NeedsWatch(handlers) \in BOOLEAN
  BY DEF MatchInv, TypeInv, SubscriptionsOK, Operation, NeedsWatch
<1>2. HoldsWatch  BY <1>1 DEF UsersInv, WatchedFor, HoldsWatch, Stages
<1>3. BusName \in Senders  BY DEF Senders
<1>4. Cardinality(Uses(handlers, BusName)) \in Nat  BY FiniteUses DEF MatchInv
<1>5. users[BusName] > 0  BY <1>2, <1>3, <1>4 DEF UsersInv, Counted
<1> QED  BY <1>3, <1>5 DEF MatchInv, Installed

\* Nothing in the queue is newer than an entry made now.
LEMMA HeardNothingYet ==
    ASSUME NEW queue, NEW top \in Nat, Orderly(queue, top), NEW n, NEW who
    PROVE  Heard(queue, n, who, top)
BY DEF Orderly, Heard

-----------------------------------------------------------------------------
(* The client's steps: the queue is as before, or cut short by the end of    *)
(* the connection.                                                          *)

QueueKept ==
    /\ Begins(SignalQueue', SignalQueue)
    /\ Connected' => Connected /\ SignalQueue' = SignalQueue
    /\ UNCHANGED <<events, watchedSince, matches, owner>>

LEMMA SameQueueKept ==
    ASSUME TypeInv, SignalQueue' = SignalQueue, Connected' => Connected,
           UNCHANGED <<events, watchedSince, matches, owner>>
    PROVE  QueueKept
<1>1. Begins(SignalQueue, SignalQueue)  BY SignalsType, WholeBegins
<1> QED  BY <1>1 DEF QueueKept

LEMMA SettledKept ==
    ASSUME TypeInv, QueueKept, NEW n, NEW who, Settled(n, who)
    PROVE  Settled(n, who)'
<1>1. Fresh(SignalQueue', n, watchedSince)
  BY SignalsType, FreshCut DEF QueueKept, Settled
<1> QED  BY <1>1 DEF QueueKept, Settled

LEMMA EntriesKept ==
    ASSUME TypeInv, OwnerInv, QueueKept,
           \A e \in handlers' : (WellKnown(e.h) /\ e.resolved) =>
               \/ e \in handlers
               \/ e.born = events /\ Settled(SenderOf[e.h], e.unique)
    PROVE  Ordered' /\ Watched' /\ Bindings'
<1>0. SignalQueue \in Seq(Message) /\ events \in Nat  BY SignalsType
<1>1. Orderly(SignalQueue', events)
  BY <1>0, OrderlyCut DEF OwnerInv, Ordered, QueueKept
<1>2. Ordered'  BY <1>1 DEF OwnerInv, Ordered, QueueKept
<1>3. Watched'
  <2>1. ASSUME matches[BusName] > 0, NEW n \in Names
        PROVE  /\ Told(SignalQueue', n, watchedSince)
               /\ Connected' => Latest(SignalQueue', n, watchedSince, owner[n])
    BY <1>0, <2>1, ToldCut DEF OwnerInv, Watched, QueueKept
  <2> QED  BY <2>1 DEF Watched, QueueKept
<1>4. Bindings'
  <2>1. SUFFICES ASSUME NEW e \in handlers', WellKnown(e.h), e.resolved
                 PROVE  /\ Settled(SenderOf[e.h], e.unique)'
                        /\ Heard(SignalQueue', SenderOf[e.h], e.unique, e.born)
    BY DEF Bindings, WellKnown
  <2>2. Settled(SenderOf[e.h], e.unique)  BY <2>1 DEF OwnerInv, Bindings
  <2>3. Heard(SignalQueue, SenderOf[e.h], e.unique, e.born)
    BY <1>0, <2>1, HeardNothingYet DEF OwnerInv, Bindings, Ordered
  <2> QED  BY <1>0, <2>2, <2>3, SettledKept, HeardCut DEF QueueKept
<1> QED  BY <1>2, <1>3, <1>4

\* No operation that joins, and no call outstanding.
LEMMA NotJoining ==
    ASSUME ~op'.sent, op'.stage = "match" => ~op'.resolved \/ ~WellKnown(op'.h)
    PROVE  Joining' /\ Answered'
BY DEF Joining, Answered, WellKnown

\* How the end of a call changes the entries: one is added, bound to what
\* GetNameOwner answered.
LEMMA CompleteBinds ==
    ASSUME TypeInv, NEW outcome, NEW value, Complete(outcome, value),
           (op.stage = "lookup" /\ outcome # "none" /\ ~StaleOwners(SenderOf[op.h]))
               => Settled(SenderOf[op.h], value),
           Joining
    PROVE  /\ \A e \in handlers' : (WellKnown(e.h) /\ e.resolved) =>
                 \/ e \in handlers
                 \/ e.born = events /\ Settled(SenderOf[e.h], e.unique)
           /\ ~op'.sent
           /\ (op'.stage = "match" /\ op'.resolved /\ WellKnown(op'.h)) =>
                 Settled(SenderOf[op'.h], op'.unique)
<1>1. CASE op.stage \in {"rpc", "release", "unwatching"}
  BY <1>1 DEF Complete, AfterRelease, Idle
<1>2. CASE op.stage = "watch"
  <2>1. \/ WatchInstalled(op.h)
        \/ op' = Idle /\ UNCHANGED handlers
    BY <1>2 DEF Complete
  <2>2. \/ op' = [Idle EXCEPT !.stage = "lookup", !.h = op.h, !.started = TRUE]
        \/ op' = Idle
    BY <2>1 DEF WatchInstalled
  <2>3. ~op'.sent /\ op'.stage # "match"
    <3>1. CASE op' = [Idle EXCEPT !.stage = "lookup", !.h = op.h, !.started = TRUE]
      BY <3>1 DEF Idle
    <3>2. CASE op' = Idle  BY <3>2 DEF Idle
    <3> QED  BY <2>2, <3>1, <3>2
  <2>4. handlers' = handlers  BY <2>1 DEF WatchInstalled
  <2> QED  BY <2>3, <2>4
<1>3. ASSUME NEW h, NEW unique, NEW resolved, AddHandler(h, unique, resolved),
             WellKnown(h) /\ resolved => Settled(SenderOf[h], unique)
      PROVE  /\ \A e \in handlers' : (WellKnown(e.h) /\ e.resolved) =>
                   \/ e \in handlers
                   \/ e.born = events /\ Settled(SenderOf[e.h], e.unique)
             /\ ~op'.sent /\ op'.stage # "match"
  <2>1. ~op'.sent /\ op'.stage # "match"  BY <1>3 DEF AddHandler, Idle
  <2>2. ASSUME NEW e \in handlers', WellKnown(e.h), e.resolved, e \notin handlers
        PROVE  e.born = events /\ Settled(SenderOf[e.h], e.unique)
    <3>1. e = [n |-> subs + 1, h |-> h, unique |-> unique, born |-> events,
               resolved |-> resolved]
      BY <1>3, <2>2 DEF AddHandler
    <3> QED  BY <1>3, <2>2, <3>1
  <2> QED  BY <2>1, <2>2
<1>4. CASE op.stage = "lookup"
  <2> DEFINE resolved == outcome # "none" /\ ~StaleOwners(SenderOf[op.h])
  <2>1. AcquireRule(op.h, value, resolved, op.started)  BY <1>4 DEF Complete
  <2>2. resolved => Settled(SenderOf[op.h], value)  BY <1>4
  <2> HIDE DEF resolved
  <2>3. CASE AddHandler(op.h, value, resolved)  BY <1>3, <2>2, <2>3
  <2>4. CASE /\ op' = [stage |-> "match", sent |-> FALSE, h |-> op.h, unique |-> value,
                       resolved |-> resolved, started |-> op.started]
             /\ handlers' = handlers
    BY <2>2, <2>4
  <2> QED  BY <2>1, <2>3, <2>4 DEF AcquireRule
<1>5. CASE op.stage = "match"
  <2>1. CASE outcome = "reply"
    <3>1. AddHandler(op.h, op.unique, op.resolved)  BY <1>5, <2>1 DEF Complete
    <3> QED  BY <1>3, <1>5, <3>1 DEF Joining
  <2>2. CASE outcome # "reply"  BY <1>5, <2>2 DEF Complete, Idle
  <2> QED  BY <2>1, <2>2
<1>6. op.stage \in Calls
  BY DEF Complete, Calls
<1> QED  BY <1>1, <1>2, <1>4, <1>5, <1>6 DEF Calls

LEMMA CallEndOwners ==
    ASSUME TypeInv, OwnerInv, QueueKept, NEW outcome, NEW value, Complete(outcome, value),
           (op.stage = "lookup" /\ outcome # "none" /\ ~StaleOwners(SenderOf[op.h]))
               => Settled(SenderOf[op.h], value)
    PROVE  OwnerInv'
<1>1. /\ \A e \in handlers' : (WellKnown(e.h) /\ e.resolved) =>
            \/ e \in handlers
            \/ e.born = events /\ Settled(SenderOf[e.h], e.unique)
      /\ ~op'.sent
      /\ (op'.stage = "match" /\ op'.resolved /\ WellKnown(op'.h)) =>
            Settled(SenderOf[op'.h], op'.unique)
  BY CompleteBinds DEF OwnerInv
<1>2. Ordered' /\ Watched' /\ Bindings'  BY <1>1, EntriesKept
<1>3. Joining'
  <2>1. SUFFICES ASSUME op'.stage = "match", op'.resolved, WellKnown(op'.h)
                 PROVE  Settled(SenderOf[op.h], op.unique)'
    BY DEF Joining, WellKnown
  <2> DEFINE n == SenderOf[op'.h]
             who == op'.unique
  <2>2. Settled(n, who)  BY <1>1, <2>1
  <2> HIDE DEF n, who
  <2>3. Fresh(SignalQueue', n, watchedSince') /\ (Connected' /\ Silent(SignalQueue', n) => who = owner'[n])
    <3>1. Fresh(SignalQueue', n, watchedSince)
      BY <2>2, SignalsType, FreshCut DEF QueueKept, Settled
    <3> QED  BY <2>2, <3>1 DEF QueueKept, Settled
  <2> QED  BY <2>3 DEF Settled, n, who
<1>4. Answered'  BY <1>1 DEF Answered
<1> QED  BY <1>2, <1>3, <1>4 DEF OwnerInv

LEMMA SilentWire ==
    ASSUME TypeInv, NEW n, Silent(SignalQueue, n), NEW j \in DOMAIN wire
    PROVE  ~IsOwner(wire[j], n)
<1>1. SUFFICES ASSUME IsOwner(wire[j], n) PROVE FALSE  OBVIOUS
<1>2. parked \in Seq(Message) /\ wire \in Seq(Message)  BY QueueTypes DEF TypeInv
<1> DEFINE queue == parked \o wire
           i == Len(parked) + j
<1>3. queue \in Seq(Message) /\ i \in 1 .. Len(queue) /\ queue[i] = wire[j]  BY <1>2
<1>4. wire[j].kind \in Signals  BY <1>1 DEF IsOwner, Signals
<1> HIDE DEF queue, i
<1>5. queue[i].kind \in Signals  BY <1>3, <1>4
<1>6. \E k \in DOMAIN Only(Signals, queue) : Only(Signals, queue)[k] = queue[i]
  <2> DEFINE kinds == Signals
  <2>1. queue[i].kind \in kinds  BY <1>5
  <2> HIDE DEF kinds
  <2>2. \E k \in DOMAIN Only(kinds, queue) : Only(kinds, queue)[k] = queue[i]
    BY <1>3, <2>1, OnlyHas
  <2> QED  BY <2>2 DEF kinds
<1> QED  BY <1>1, <1>3, <1>6 DEF Silent, SignalQueue, queue

\* GetNameOwner is answered, and no change of an earlier watch is queued.
LEMMA LookupSettles ==
    ASSUME TypeInv, OwnerInv, TakeReply, op.stage = "lookup", ~StaleOwners(SenderOf[op.h])
    PROVE  Settled(SenderOf[op.h], Head(wire).value)
<1> DEFINE n == SenderOf[op.h]
<1>1. Fresh(SignalQueue, n, watchedSince)
  <2>1. SUFFICES ASSUME NEW i \in DOMAIN SignalQueue, IsOwner(SignalQueue[i], n)
                 PROVE  SignalQueue[i].id > watchedSince
    BY DEF Fresh
  <2>2. SignalQueue[i] \in PendingOwners(n)  BY <2>1 DEF PendingOwners, IsOwner, SignalQueue
  <2>3. ~(SignalQueue[i].id <= watchedSince)  BY <2>2 DEF StaleOwners
  <2>4. SignalQueue[i].id \in Nat /\ watchedSince \in Nat
    BY SignalsType DEF OwnerInv, Ordered, Orderly
  <2> QED  BY <2>3, <2>4
<1>2. ASSUME Connected, Silent(SignalQueue, n) PROVE Head(wire).value = owner[n]
  <2>1. wire \in Seq(Message) /\ wire # <<>>  BY QueueTypes DEF TypeInv, TakeReply
  <2>2. 1 \in DOMAIN wire /\ wire[1] = Head(wire)  BY <2>1
  <2>3. op.sent /\ IsAnswer(wire[1]) /\ wire[1].serial = serial  BY <2>2 DEF TakeReply
  <2>4. \A j \in DOMAIN wire : 1 < j => ~IsOwner(wire[j], n)  BY <1>2, SilentWire
  <2> QED  BY <1>2, <2>2, <2>3, <2>4 DEF OwnerInv, Answered
<1> QED  BY <1>1, <1>2 DEF Settled

LEMMA HeadLeaves ==
    ASSUME TypeInv, wire # <<>>, Head(wire).kind \notin Signals \cup {"call"}, wire' = Tail(wire),
           parked' = parked
    PROVE  SignalQueue' = SignalQueue
<1>1. parked \in Seq(Message) /\ wire \in Seq(Message)  BY QueueTypes DEF TypeInv
<1> QED  BY <1>1, MessageDropped DEF SignalQueue

LEMMA SocketCut ==
    ASSUME TypeInv, KeepBuffered, parked' = parked
    PROVE  Begins(SignalQueue', SignalQueue)
<1>1. parked \in Seq(Message) /\ wire \in Seq(Message)  BY QueueTypes DEF TypeInv
<1>2. Begins(wire', wire)  BY DEF KeepBuffered, Begins
<1> DEFINE rest == wire'
<1>3. Begins(rest, wire)  BY <1>2
<1> HIDE DEF rest
<1>4. /\ rest \in Seq(Message)
      /\ Begins(Only(Signals, parked) \o Only(Signals, rest), Only(Signals, parked) \o Only(Signals, wire))
  BY <1>1, <1>3, OnlyBegins
<1>5. ASSUME NEW w \in Seq(Message)
      PROVE  Only(Signals, parked \o w) = Only(Signals, parked) \o Only(Signals, w)
  <2> DEFINE p == parked
             kinds == Signals
  <2>1. p \in Seq(Message)  BY <1>1
  <2> HIDE DEF p, kinds
  <2>2. Only(kinds, p \o w) = Only(kinds, p) \o Only(kinds, w)  BY <2>1, OnlyConcat
  <2> QED  BY <2>2 DEF p, kinds
<1> QED  BY <1>1, <1>4, <1>5 DEF SignalQueue, rest

LEMMA CallEndsOwners ==
    ASSUME TypeInv, OwnerInv,
           SendFails \/ TakeReply \/ CallReadsGarbled \/ CallTimesOut \/ CallHitsEnd
    PROVE  OwnerInv'
<1>0. closed \in BOOLEAN /\ wire \in Seq(Message)
  BY QueueTypes DEF TypeInv, CountsOK
<1>1. CASE TakeReply
  <2>1. /\ wire # <<>> /\ wire' = Tail(wire) /\ IsAnswer(Head(wire))
        /\ UNCHANGED <<parked, events, watchedSince, matches, owner, closed, down>>
        /\ Complete(Head(wire).kind, Head(wire).value)
    BY <1>1 DEF TakeReply, daemonVars
  <2>2. Head(wire) \in Message  BY <1>0, <2>1, HeadOfWire
  <2>3. SignalQueue' = SignalQueue  BY <2>1, <2>2, KindOf, HeadLeaves
  <2>4. QueueKept  BY <2>1, <2>3, SameQueueKept DEF Connected
  <2> QED  BY <1>1, <2>1, <2>4, LookupSettles, CallEndOwners
<1>2. CASE SendFails
  <2>1. /\ closed' = TRUE /\ Complete("none", Nobody)
        /\ UNCHANGED <<parked, events, watchedSince, matches, owner>>
        /\ UNCHANGED wire \/ KeepBuffered
    BY <1>2 DEF SendFails, daemonVars
  <2>2. Begins(SignalQueue', SignalQueue)
    <3>1. CASE UNCHANGED wire
      <4>1. SignalQueue' = SignalQueue  BY <2>1, <3>1 DEF SignalQueue
      <4> QED  BY <4>1, SignalsType, WholeBegins
    <3>2. CASE KeepBuffered  BY <2>1, <3>2, SocketCut
    <3> QED  BY <2>1, <3>1, <3>2
  <2>3. QueueKept  BY <2>1, <2>2 DEF QueueKept, Connected
  <2> QED  BY <2>1, <2>3, CallEndOwners
<1>3. CASE CallReadsGarbled
  <2>1. /\ wire # <<>> /\ wire' = Tail(wire) /\ Head(wire).kind = "garbled"
        /\ UNCHANGED <<parked, events, watchedSince, matches, owner, closed, down>>
        /\ Complete("none", Nobody)
    BY <1>3 DEF CallReadsGarbled, daemonVars
  <2>2. Head(wire).kind \notin Signals \cup {"call"}  BY <2>1 DEF Signals
  <2>3. SignalQueue' = SignalQueue  BY <2>1, <2>2, HeadLeaves
  <2>4. QueueKept  BY <2>1, <2>3, SameQueueKept DEF Connected
  <2> QED  BY <2>1, <2>4, CallEndOwners
<1>4. CASE CallTimesOut \/ CallHitsEnd
  <2>1. /\ UNCHANGED <<wire, parked, events, watchedSince, matches, owner, down>>
        /\ closed => closed'
        /\ Complete("none", Nobody)
    BY <1>4 DEF CallTimesOut, CallHitsEnd, daemonVars
  <2>2. SignalQueue' = SignalQueue  BY <2>1 DEF SignalQueue
  <2>3. QueueKept  BY <2>1, <2>2, SameQueueKept DEF Connected
  <2> QED  BY <2>1, <2>3, CallEndOwners
<1> QED  BY <1>1, <1>2, <1>3, <1>4

\* Entries only go, and nothing is being joined or awaited.
LEMMA RestOwners ==
    ASSUME TypeInv, OwnerInv, QueueKept, handlers' \subseteq handlers,
           ~op'.sent, op'.stage # "match"
    PROVE  OwnerInv'
<1>1. \A e \in handlers' : e \in handlers  OBVIOUS
<1>2. Ordered' /\ Watched' /\ Bindings'  BY <1>1, EntriesKept
<1> QED  BY <1>2, NotJoining DEF OwnerInv

LEMMA SubscribeOwners ==
    ASSUME TypeInv, OwnerInv, NEW h \in Handlers, Subscribe(h) PROVE OwnerInv'
<1>1. UNCHANGED <<parked, wire, closed, down, events, watchedSince, matches, owner>>
  BY DEF Subscribe, daemonVars
<1>2. SignalQueue' = SignalQueue  BY <1>1 DEF SignalQueue
<1>3. QueueKept  BY <1>1, <1>2, SameQueueKept DEF Connected
<1>4. CASE op' = [Idle EXCEPT !.stage = "watch", !.h = h] /\ UNCHANGED handlers
  <2>1. ~op'.sent /\ op'.stage # "match"  BY <1>4 DEF Idle
  <2> QED  BY <1>3, <1>4, <2>1, RestOwners
<1>5. CASE WatchInstalled(h)
  <2>1. op' = [Idle EXCEPT !.stage = "lookup", !.h = h, !.started = TRUE] /\ UNCHANGED handlers
    BY <1>5 DEF WatchInstalled
  <2>2. ~op'.sent /\ op'.stage # "match"  BY <2>1 DEF Idle
  <2> QED  BY <1>3, <2>1, <2>2, RestOwners
<1>6. CASE op' = [Idle EXCEPT !.stage = "lookup", !.h = h] /\ UNCHANGED handlers
  <2>1. ~op'.sent /\ op'.stage # "match"  BY <1>6 DEF Idle
  <2> QED  BY <1>3, <1>6, <2>1, RestOwners
<1>7. CASE ~WellKnown(h) /\ AcquireRule(h, SenderOf[h], TRUE, FALSE)
  <2>1. CASE AddHandler(h, SenderOf[h], TRUE)
    <3>1. ~op'.sent /\ op'.stage # "match"  BY <2>1 DEF AddHandler, Idle
    <3>2. \A e \in handlers' : e \in handlers \/ e.h = h  BY <2>1 DEF AddHandler
    <3>3. \A e \in handlers' : WellKnown(e.h) => e \in handlers  BY <1>7, <3>2
    <3>4. Ordered' /\ Watched' /\ Bindings'  BY <1>3, <3>3, EntriesKept
    <3> QED  BY <3>1, <3>4, NotJoining DEF OwnerInv
  <2>2. CASE /\ op' = [stage |-> "match", sent |-> FALSE, h |-> h, unique |-> SenderOf[h],
                       resolved |-> TRUE, started |-> FALSE]
             /\ UNCHANGED handlers
    <3>1. ~op'.sent /\ op'.h = h  BY <2>2
    <3>2. Ordered' /\ Watched' /\ Bindings'  BY <1>3, <2>2, EntriesKept
    <3> QED  BY <1>7, <3>1, <3>2, NotJoining DEF OwnerInv
  <2> QED  BY <1>7, <2>1, <2>2 DEF AcquireRule
<1> QED  BY <1>4, <1>5, <1>6, <1>7 DEF Subscribe

LEMMA OtherCallsOwners ==
    ASSUME TypeInv, OwnerInv,
           \/ \E h \in Handlers : Unsubscribe(h)
           \/ \E p \in Peers : Call(p)
           \/ Unwatch
    PROVE  OwnerInv'
<1>1. UNCHANGED <<parked, wire, closed, down, events, watchedSince, matches, owner>>
  BY DEF Unsubscribe, Released, Call, Unwatch, daemonVars
<1>2. SignalQueue' = SignalQueue  BY <1>1 DEF SignalQueue
<1>3. QueueKept  BY <1>1, <1>2, SameQueueKept DEF Connected
<1>4. ASSUME NEW stage \in {"idle", "unwatch", "unwatching"}, op' = [Idle EXCEPT !.stage = stage]
      PROVE  ~op'.sent /\ op'.stage # "match"
  BY <1>4 DEF Idle
<1>5. ~Idle.sent /\ Idle.stage # "match"  BY DEF Idle
<1>6. ASSUME NEW h \in Handlers, Unsubscribe(h) PROVE OwnerInv'
  <2>1. /\ handlers' = handlers \ Of(h)
        /\ \/ op' = [Idle EXCEPT !.stage = "release", !.h = h]
           \/ op' = [Idle EXCEPT !.stage = "unwatch"]
           \/ op' = Idle
    BY <1>6 DEF Unsubscribe, Released, AfterRelease
  <2>2. op' = [Idle EXCEPT !.stage = "release", !.h = h] => ~op'.sent /\ op'.stage # "match"
    BY DEF Idle
  <2>3. ~op'.sent /\ op'.stage # "match"  BY <1>4, <1>5, <2>1, <2>2
  <2> QED  BY <1>3, <2>1, <2>3, RestOwners
<1>7. ASSUME NEW p \in Peers, Call(p) PROVE OwnerInv'
  <2>1. op' = [Idle EXCEPT !.stage = "rpc", !.unique = p] /\ handlers' = handlers
    BY <1>7 DEF Call
  <2>2. ~op'.sent /\ op'.stage # "match"  BY <2>1 DEF Idle
  <2> QED  BY <1>3, <2>1, <2>2, RestOwners
<1>8. CASE Unwatch
  <2>1. /\ handlers' = handlers
        /\ op' = [Idle EXCEPT !.stage = "unwatching"] \/ op' = Idle
    BY <1>8 DEF Unwatch
  <2>2. ~op'.sent /\ op'.stage # "match"  BY <1>4, <1>5, <2>1
  <2> QED  BY <1>3, <2>1, <2>2, RestOwners
<1> QED  BY <1>6, <1>7, <1>8, SMTT(60)

LEMMA CloseOwners == ASSUME TypeInv, OwnerInv, Close PROVE OwnerInv'
<1>1. /\ closed' = TRUE /\ KeepBuffered /\ op' = Idle
      /\ UNCHANGED <<parked, handlers, events, watchedSince, matches, owner>>
  BY DEF Close, MayAct, daemonVars
<1>2. QueueKept  BY <1>1, SocketCut DEF QueueKept, Connected
<1>3. ~op'.sent /\ op'.stage # "match"  BY <1>1 DEF Idle
<1> QED  BY <1>1, <1>2, <1>3, RestOwners

\* No answer is as new as the call.
LEMMA SendOwners == ASSUME MatchInv, OwnerInv, Send PROVE OwnerInv'
<1>1. /\ serial' = serial + 1 /\ op' = [op EXCEPT !.sent = TRUE]
      /\ UNCHANGED <<parked, wire, handlers, closed, down, events, watchedSince, matches, owner>>
  BY DEF Send
<1>2. TypeInv /\ op \in Operation /\ serial \in Nat /\ wire \in Seq(Message)
  BY QueueTypes DEF MatchInv, TypeInv, SubscriptionsOK, CountsOK
<1>3. SignalQueue' = SignalQueue  BY <1>1 DEF SignalQueue
<1>4. QueueKept  BY <1>1, <1>2, <1>3, SameQueueKept DEF Connected
<1>5. Ordered' /\ Watched' /\ Bindings'
  <2>1. \A e \in handlers' : e \in handlers  BY <1>1
  <2> QED  BY <1>2, <1>4, <2>1, EntriesKept
<1>6. op'.stage = op.stage /\ op'.h = op.h /\ op'.unique = op.unique /\ op'.resolved = op.resolved
  BY <1>1, <1>2 DEF Operation
<1>7. Joining'
  BY <1>1, <1>3, <1>6 DEF OwnerInv, Joining, Settled, WellKnown, Connected
<1>8. Answered'
  <2>1. ASSUME NEW k \in DOMAIN wire, IsAnswer(wire[k]) PROVE wire[k].serial # serial'
    <3>1. wire[k] \in Message  BY <1>2
    <3>2. wire[k].serial \in Nat  BY <2>1, <3>1, AnswerType DEF AnswerMsg
    <3>3. wire[k].serial <= serial  BY <2>1 DEF MatchInv, SerialsPast
    <3> QED  BY <1>1, <1>2, <3>2, <3>3
  <2> QED  BY <1>1, <2>1 DEF Answered
<1> QED  BY <1>5, <1>7, <1>8 DEF OwnerInv

LEMMA ParkOwners == ASSUME TypeInv, OwnerInv, Park PROVE OwnerInv'
<1>1. /\ wire # <<>> /\ wire' = Tail(wire)
      /\ UNCHANGED <<serial, op, handlers, closed, down, events, watchedSince, matches, owner>>
  BY DEF Park, daemonVars
<1>2. QueuesOK /\ wire \in Seq(Message)  BY QueueTypes DEF TypeInv
<1>3. SignalQueue' = SignalQueue  BY <1>2, ParkKeeps DEF Undisturbed
<1>4. QueueKept  BY <1>1, <1>3, SameQueueKept DEF Connected
<1>5. Ordered' /\ Watched' /\ Bindings'
  <2>1. \A e \in handlers' : e \in handlers  BY <1>1
  <2> QED  BY <1>4, <2>1, EntriesKept
<1>6. Joining'
  BY <1>1, <1>3 DEF OwnerInv, Joining, Settled, WellKnown, Connected
<1>7. Answered'
  <2>1. SUFFICES ASSUME op.stage = "lookup", op.sent, Connected, NEW k \in DOMAIN wire',
                        IsAnswer(wire'[k]), wire'[k].serial = serial,
                        \A j \in DOMAIN wire' : k < j => ~IsOwner(wire'[j], SenderOf[op.h])
                 PROVE  wire'[k].value = owner[SenderOf[op.h]]
    BY <1>1 DEF Answered, Connected
  <2>2. /\ \A i \in DOMAIN wire' : i \in Nat /\ i + 1 \in DOMAIN wire /\ wire[i + 1] = wire'[i]
        /\ \A i \in DOMAIN wire : i \in Nat /\ (i > 1 => i - 1 \in DOMAIN wire')
    BY <1>1, <1>2
  <2>3. ASSUME NEW j \in DOMAIN wire, k + 1 < j PROVE ~IsOwner(wire[j], SenderOf[op.h])
    <3>1. j - 1 \in DOMAIN wire' /\ k < j - 1 /\ wire[(j - 1) + 1] = wire'[j - 1] /\ (j - 1) + 1 = j
      BY <2>2, <2>3
    <3> QED  BY <2>1, <3>1
  <2> QED  BY <2>1, <2>2, <2>3 DEF OwnerInv, Answered
<1> QED  BY <1>5, <1>6, <1>7 DEF OwnerInv

\* Between handlers and when one ends, no operation is in progress.
LEMMA DispatchOwners ==
    ASSUME TypeInv, TypeInv', FrameInv, OwnerInv,
           \/ \E serve \in BOOLEAN : BeginDispatch(serve)
           \/ DispatchCall \/ DispatchAnswer \/ DispatchGarbled \/ DispatchEnds
           \/ InvokeHandler \/ HandlerReturns \/ HandlerRaises
    PROVE  OwnerInv'
<1>0. QueuesOK /\ wire \in Seq(Message)  BY QueueTypes, SMTT(60) DEF TypeInv
<1>1. UNCHANGED <<op, handlers, down, events, watchedSince, matches, owner>>
  BY DEF BeginDispatch, DispatchCall, DispatchAnswer, DispatchGarbled, DispatchEnds,
         InvokeHandler, HandlerReturns, HandlerRaises, daemonVars
<1>c. closed => closed'
  <2>1. CASE DispatchEnds  BY <2>1 DEF DispatchEnds
  <2>2. CASE ~DispatchEnds
    BY <2>2 DEF BeginDispatch, DispatchCall, DispatchAnswer, DispatchGarbled,
                InvokeHandler, HandlerReturns, HandlerRaises
  <2> QED  BY <2>1, <2>2
<1>2. op = Idle
  <2>1. CASE HandlerReturns \/ HandlerRaises \/ \E serve \in BOOLEAN : BeginDispatch(serve)
    BY <2>1 DEF HandlerReturns, HandlerRaises, BeginDispatch
  <2>2. CASE InvokeHandler  BY <2>2 DEF InvokeHandler, FrameInv
  <2>3. CASE DispatchCall \/ DispatchAnswer \/ DispatchGarbled \/ DispatchEnds
    <3>1. Between
      BY <2>3 DEF DispatchCall, DispatchAnswer, DispatchGarbled, DispatchEnds
    <3> QED  BY <3>1 DEF Between, FrameInv
  <2> QED  BY <2>1, <2>2, <2>3, SMTT(60)
<1>3. SignalQueue' = SignalQueue
  <2>1. ASSUME UNCHANGED <<parked, wire>> PROVE SignalQueue' = SignalQueue
    BY <2>1, SMTT(60) DEF SignalQueue
  <2>2. CASE InvokeHandler \/ HandlerReturns \/ \E serve \in BOOLEAN : BeginDispatch(serve)
    BY <2>1, <2>2 DEF InvokeHandler, HandlerReturns, BeginDispatch
  <2>3. CASE DispatchCall
    <3>1. Between /\ Pending /\ TakeNext /\ NextMessage.kind = "call"
      BY <2>3 DEF DispatchCall, IsCall
    <3> QED  BY <3>1, TakenKeeps
  <2>4. CASE DispatchAnswer
    <3>1. wire # <<>> /\ wire' = Tail(wire) /\ parked' = parked /\ IsAnswer(Head(wire))
      BY <2>4 DEF DispatchAnswer
    <3>2. Head(wire) \in Message  BY <1>0, <3>1, HeadOfWire
    <3> QED  BY <3>1, <3>2, KindOf, HeadLeaves
  <2>5. CASE DispatchGarbled  BY <1>0, <2>5, GarbledKeeps DEF Undisturbed
  <2>6. CASE DispatchEnds \/ HandlerRaises
    BY <1>0, <2>6, EndFrameKeeps DEF DispatchEnds, HandlerRaises, Undisturbed
  <2> QED  BY <2>2, <2>3, <2>4, <2>5, <2>6
<1>4. QueueKept  BY <1>1, <1>c, <1>3, SameQueueKept DEF Connected
<1>5. ~op'.sent /\ op'.stage # "match"  BY <1>1, <1>2 DEF Idle
<1> QED  BY <1>1, <1>4, <1>5, RestOwners

\* What is taken from the head of the queue.
LEMMA SignalTaken ==
    ASSUME TypeInv, TypeInv', FrameInv, DispatchSignal
    PROVE  /\ NextMessage \in Message /\ SignalQueue' \in Seq(Message)
           /\ SignalQueue = <<NextMessage>> \o SignalQueue'
           /\ handlers' = Rebound(NextMessage)
           /\ op = Idle /\ op' = Idle
           /\ UNCHANGED <<closed, down, events, watchedSince, matches, owner>>
<1>1. Between /\ Pending /\ TakeNext /\ NextMessage.kind \in Signals
  BY DEF DispatchSignal, IsSignal
<1>2. UNCHANGED <<op, closed, down, events, watchedSince, matches, owner>>
  BY DEF DispatchSignal, daemonVars
<1>3. op = Idle  BY <1>1 DEF Between, FrameInv
<1>4. handlers' = Rebound(NextMessage)  BY DEF DispatchSignal
<1> QED  BY <1>1, <1>2, <1>3, <1>4, TakenKeeps

LEMMA DispatchSignalOwners ==
    ASSUME MatchInv, UsersInv, TypeInv', FrameInv, OwnerInv, DispatchSignal
    PROVE  OwnerInv'
<1> DEFINE m == NextMessage
           rest == SignalQueue'
<1>1. /\ m \in Message /\ rest \in Seq(Message) /\ SignalQueue = <<m>> \o rest
      /\ handlers' = Rebound(m) /\ op' = Idle
      /\ UNCHANGED <<events, watchedSince, matches, owner>> /\ Connected' = Connected
  BY SignalTaken DEF MatchInv, Connected
<1>2. TypeInv /\ events \in Nat /\ watchedSince \in Nat /\ handlers \in SUBSET Entry
  BY SignalsType DEF MatchInv, TypeInv, SubscriptionsOK
<1> HIDE DEF m, rest
<1>3. Orderly(<<m>> \o rest, events)  BY <1>1 DEF OwnerInv, Ordered
<1>4. Ordered'
  <2>1. Orderly(rest, events)  BY <1>1, <1>3, OrderlyTaken
  <2> QED  BY <1>1, <2>1 DEF OwnerInv, Ordered, rest
<1>5. ASSUME matches[BusName] > 0, NEW n \in Names
      PROVE  /\ Told(rest, n, watchedSince)
             /\ Connected => Latest(rest, n, watchedSince, owner[n])
             /\ IsOwner(m, n) /\ m.id > watchedSince =>
                   /\ \A born : Heard(rest, n, m.new, born)
                   /\ Connected /\ Silent(rest, n) => m.new = owner[n]
  <2>1. /\ Told(<<m>> \o rest, n, watchedSince)
        /\ Connected => Latest(<<m>> \o rest, n, watchedSince, owner[n])
    BY <1>1, <1>5 DEF OwnerInv, Watched
  <2> QED  BY <1>1, <2>1, ToldTaken, LatestTaken
<1>6. Watched'  BY <1>1, <1>5 DEF Watched, rest
<1>7. Bindings'
  <2>1. SUFFICES ASSUME NEW f \in handlers', WellKnown(f.h), f.resolved
                 PROVE  /\ Fresh(rest, SenderOf[f.h], watchedSince)
                        /\ Connected /\ Silent(rest, SenderOf[f.h]) =>
                              f.unique = owner[SenderOf[f.h]]
                        /\ Heard(rest, SenderOf[f.h], f.unique, f.born)
    BY <1>1, SMTT(60) DEF Bindings, Settled, WellKnown, rest
  <2>2. PICK e \in handlers :
          f = IF m.kind = "owner" /\ SenderOf[e.h] = m.name
              THEN [e EXCEPT !.unique = m.new, !.resolved = m.id > watchedSince]
              ELSE e
    BY <1>1, <2>1 DEF Rebound
  <2>3. e \in Entry  BY <1>2
  <2> DEFINE n == SenderOf[e.h]
  <2>4. CASE m.kind = "owner" /\ n = m.name
    <3>1. f.h = e.h /\ f.unique = m.new /\ m.id > watchedSince
      <4>1. f = [e EXCEPT !.unique = m.new, !.resolved = m.id > watchedSince]  BY <2>2, <2>4
      <4>2. f.h = e.h /\ f.unique = m.new /\ f.resolved = (m.id > watchedSince)
        BY <2>3, <4>1 DEF Entry
      <4> QED  BY <2>1, <4>2
    <3>2. WellKnown(e.h) /\ n \in Names  BY <2>1, <3>1 DEF WellKnown
    <3>3. matches[BusName] > 0
      <4>1. NeedsWatch(handlers)  BY <3>2 DEF NeedsWatch
      <4> QED  BY <4>1, OwnersAreWatched
    <3>4. IsOwner(m, n)  BY <2>4 DEF IsOwner
    <3>5. Fresh(rest, n, watchedSince)  BY <1>1, <1>2, <1>3, <3>1, FreshTaken
    <3>6. /\ \A born : Heard(rest, n, m.new, born)
          /\ Connected /\ Silent(rest, n) => m.new = owner[n]
      BY <1>5, <3>1, <3>2, <3>3, <3>4
    <3> QED  BY <3>1, <3>5, <3>6
  <2>5. CASE ~(m.kind = "owner" /\ n = m.name)
    <3>1. f = e  BY <2>2, <2>5
    <3>2. ~IsOwner(m, n)  BY <2>5 DEF IsOwner
    <3>3. /\ Fresh(<<m>> \o rest, n, watchedSince)
          /\ Connected /\ Silent(<<m>> \o rest, n) => e.unique = owner[n]
          /\ Heard(<<m>> \o rest, n, e.unique, e.born)
      BY <1>1, <2>1, <3>1 DEF OwnerInv, Bindings, Settled
    <3>4. Fresh(rest, n, watchedSince)  BY <1>1, <1>2, <1>3, <3>3, FreshTaken
    <3>5. Silent(rest, n) => Silent(<<m>> \o rest, n)  BY <1>1, <3>2, SilentTaken
    <3>6. Heard(rest, n, e.unique, e.born)  BY <1>1, <3>2, <3>3, HeardTaken
    <3> QED  BY <3>1, <3>3, <3>4, <3>5, <3>6
  <2> QED  BY <2>4, <2>5
<1>8. Joining' /\ Answered'
  <2>1. ~op'.sent /\ op'.stage # "match"  BY <1>1 DEF Idle
  <2> QED  BY <2>1, NotJoining
<1> QED  BY <1>4, <1>6, <1>7, <1>8 DEF OwnerInv

\* What the step itself says of the signal it takes.
LEMMA DispatchSignalHears ==
    ASSUME TypeInv, TypeInv', FrameInv, OwnerInv, DispatchSignal, disp'.msg.kind = "signal",
           NEW e \in handlers', WellKnown(e.h), e.resolved, disp'.msg.id > e.born
    PROVE  SenderOf[e.h] \in disp'.msg.names <=> e \in disp'.todo
<1> DEFINE m == NextMessage
           rest == SignalQueue'
           n == SenderOf[e.h]
<1>1. m \in Message /\ rest \in Seq(Message) /\ SignalQueue = <<m>> \o rest /\ handlers' = Rebound(m)
  BY SignalTaken
<1>2. disp'.msg = m /\ disp'.todo = {f \in handlers' : Wants(f, m)}
  BY DEF DispatchSignal, TypeInv, QueuesOK, Frame
<1> HIDE DEF m, rest
<1>3. m.kind = "signal" /\ m.id > e.born  BY <1>2
<1>4. handlers' = handlers  BY <1>1, <1>3 DEF Rebound
<1>5. Heard(<<m>> \o rest, n, e.unique, e.born)
  BY <1>1, <1>4 DEF OwnerInv, Bindings
<1>6. ~IsOwner(m, n)  BY <1>3 DEF IsOwner
<1>7. SentBy(m, n, e.unique)  BY <1>1, <1>3, <1>5, <1>6, HeardTaken
<1>8. n \in Names /\ n # AnySender  BY SendersAssumption DEF WellKnown
<1>9. e \in disp'.todo <=> e.unique = m.from  BY <1>2, <1>3, <1>8 DEF Wants
<1> QED  BY <1>2, <1>7, <1>9 DEF SentBy

-----------------------------------------------------------------------------
(* The daemon's steps. *)

LEMMA WireGrows ==
    ASSUME TypeInv, NEW m \in Message, wire' = Append(wire, m), parked' = parked
    PROVE  SignalQueue' = IF m.kind \in Signals THEN Append(SignalQueue, m) ELSE SignalQueue
<1>1. parked \in Seq(Message) /\ wire \in Seq(Message)  BY QueueTypes DEF TypeInv
<1> QED  BY <1>1, MessageArrives DEF SignalQueue

LEMMA AnsweredGrows ==
    ASSUME TypeInv, OwnerInv, NEW m \in Message, wire' = Append(wire, m),
           UNCHANGED <<clientVars, owner>>, Connected' => Connected,
           (op.stage = "lookup" /\ op.sent /\ IsAnswer(m) /\ m.serial = serial)
               => m.value = owner[SenderOf[op.h]]
    PROVE  Answered'
<1>1. wire \in Seq(Message)  BY QueueTypes DEF TypeInv
<1>2. /\ \A i \in DOMAIN wire' : \/ i \in DOMAIN wire /\ wire'[i] = wire[i]
                                 \/ wire'[i] = m
      /\ \A i \in DOMAIN wire : i \in DOMAIN wire' /\ wire'[i] = wire[i]
  BY <1>1, Appended
<1> QED  BY <1>2 DEF OwnerInv, Answered, clientVars

LEMMA AnsweredStays ==
    ASSUME OwnerInv, UNCHANGED <<clientVars, owner, wire>>, Connected' => Connected
    PROVE  Answered'
BY DEF OwnerInv, Answered, clientVars

\* Nothing but the match rules, and with them the watch, changes.
LEMMA BusQuietOwners ==
    ASSUME MatchInv, UsersInv, OwnerInv, UNCHANGED <<clientVars, owner>>,
           SignalQueue' = SignalQueue, Connected' => Connected, events' \in {events, events + 1},
           \/ /\ watchedSince' = watchedSince
              /\ matches'[BusName] > 0 => matches[BusName] > 0
           \/ matches[BusName] = 0 /\ watchedSince' = events /\ events' = events
    PROVE  Ordered' /\ Watched' /\ Bindings' /\ Joining'
<1>1. /\ SignalQueue \in Seq(Message) /\ events \in Nat /\ watchedSince \in Nat
      /\ matches \in [Senders -> Nat] /\ BusName \in Senders
  BY SignalsType DEF MatchInv, TypeInv, DaemonOK, Senders
<1>2. Orderly(SignalQueue, events)  BY DEF OwnerInv, Ordered
<1>3. Ordered'
  <2>1. Orderly(SignalQueue, events')  BY <1>1, <1>2, OrderlyLater
  <2>2. watchedSince' <= events'  BY <1>1 DEF OwnerInv, Ordered
  <2> QED  BY <2>1, <2>2 DEF Ordered
<1>4. CASE watchedSince' = watchedSince /\ (matches'[BusName] > 0 => matches[BusName] > 0)
  <2>1. Watched'  BY <1>4 DEF OwnerInv, Watched
  <2>2. Bindings'  BY <1>4 DEF OwnerInv, Bindings, Settled, WellKnown, clientVars
  <2>3. Joining'  BY <1>4 DEF OwnerInv, Joining, Settled, WellKnown, clientVars
  <2> QED  BY <1>3, <2>1, <2>2, <2>3
<1>5. CASE matches[BusName] = 0 /\ watchedSince' = events
  <2>1. /\ ~NeedsWatch(handlers)
        /\ ~(op.stage = "match" /\ WellKnown(op.h))
    BY <1>5, OwnersAreWatched
  <2>2. Bindings' /\ Joining'
    BY <2>1 DEF Bindings, Joining, NeedsWatch, WellKnown, clientVars
  <2>3. \A i \in DOMAIN SignalQueue : ~(SignalQueue[i].id > watchedSince')
    BY <1>1, <1>2, <1>5 DEF Orderly
  <2>4. ASSUME NEW n, NEW who
        PROVE  Told(SignalQueue', n, watchedSince') /\ Latest(SignalQueue', n, watchedSince', who)
    BY <2>3 DEF Told, Latest
  <2>5. Watched'  BY <2>4 DEF Watched
  <2> QED  BY <1>3, <2>2, <2>5
<1> QED  BY <1>4, <1>5

LEMMA DaemonServesOwners ==
    ASSUME MatchInv, UsersInv, OwnerInv, DaemonServes PROVE OwnerInv'
<1> DEFINE r == Head(inbox)
<1>1. /\ Serve(r) /\ UNCHANGED <<clientVars, owner, down, events>>
      /\ inbox \in Seq(Request) /\ inbox # <<>>
  BY DEF DaemonServes, MatchInv, TypeInv, DaemonOK
<1>2. r \in Request /\ 1 \in DOMAIN inbox /\ r = inbox[1]  BY <1>1
<1>3. r.method = "GetNameOwner" => owner[r.arg] \in Peers \cup {Nobody}
  BY <1>2 DEF MatchInv, TypeInv, DaemonOK, RequestOK
<1> HIDE DEF r
<1>4. TypeInv /\ parked' = parked /\ (Connected' => Connected)
  BY <1>1 DEF MatchInv, clientVars, Connected
<1>5. matches \in [Senders -> Nat] /\ BusName \in Senders /\ r.arg \in Senders /\ r.serial \in Nat
  BY <1>2 DEF MatchInv, TypeInv, DaemonOK, Senders, Request
\* What is answered, if anything.
<1>6. \/ wire' = wire
      \/ \E m \in AnswerMsg : /\ wire' = Append(wire, m) /\ m.serial = r.serial
                              /\ r.method = "GetNameOwner" => m.value = owner[r.arg]
  <2>1. ASSUME NEW v \in Peers \cup {Nobody}
        PROVE  Reply(r, v) \in AnswerMsg /\ Reply(r, v).serial = r.serial /\ Reply(r, v).value = v
    BY <1>5 DEF Reply, AnswerMsg
  <2>2. Refusal(r) \in AnswerMsg /\ Refusal(r).serial = r.serial /\ Refusal(r).value = Nobody
    BY <1>5 DEF Refusal, AnswerMsg
  <2>3. CASE r.method = "GetNameOwner"
    <3>1. wire' = Append(wire, IF owner[r.arg] = Nobody THEN Refusal(r) ELSE Reply(r, owner[r.arg]))
      BY <1>1, <2>3 DEF Serve
    <3> QED  BY <1>3, <2>1, <2>2, <2>3, <3>1
  <2>4. CASE r.method # "GetNameOwner"
    <3>1. wire' = wire \/ wire' = Append(wire, Reply(r, Nobody)) \/ wire' = Append(wire, Refusal(r))
      BY <1>1, <2>4 DEF Serve
    <3> QED  BY <2>1, <2>2, <2>4, <3>1
  <2> QED  BY <2>3, <2>4
<1>7. \/ /\ watchedSince' = watchedSince
         /\ matches'[BusName] > 0 => matches[BusName] > 0
      \/ matches[BusName] = 0 /\ watchedSince' = events /\ events' = events
  <2>1. CASE UNCHANGED <<matches, watchedSince>>  BY <2>1
  <2>2. CASE /\ matches' = [matches EXCEPT ![r.arg] = @ + 1]
             /\ watchedSince' = IF r.arg = BusName /\ matches[BusName] = 0
                                THEN events ELSE watchedSince
    <3>1. matches[BusName] = 0 \/ matches[BusName] > 0  BY <1>5
    <3>2. r.arg # BusName => matches'[BusName] = matches[BusName]  BY <1>5, <2>2
    <3> QED  BY <1>1, <2>2, <3>1, <3>2
  <2>3. CASE matches' = [matches EXCEPT ![r.arg] = @ - 1] /\ watchedSince' = watchedSince
    <3>1. r.arg # BusName => matches'[BusName] = matches[BusName]  BY <1>5, <2>3
    <3>2. r.arg = BusName => matches'[BusName] = matches[BusName] - 1  BY <1>5, <2>3
    <3> QED  BY <1>5, <2>3, <3>1, <3>2
  <2> QED  BY <1>1, <2>1, <2>2, <2>3 DEF Serve
<1>8. CASE wire' = wire
  <2>1. SignalQueue' = SignalQueue  BY <1>4, <1>8 DEF SignalQueue
  <2>2. Ordered' /\ Watched' /\ Bindings' /\ Joining'  BY <1>1, <1>4, <1>7, <2>1, BusQuietOwners
  <2>3. Answered'  BY <1>1, <1>4, <1>8, AnsweredStays
  <2> QED  BY <2>2, <2>3 DEF OwnerInv
<1>9. ASSUME NEW m \in AnswerMsg, wire' = Append(wire, m), m.serial = r.serial,
             r.method = "GetNameOwner" => m.value = owner[r.arg]
      PROVE  OwnerInv'
  <2>1. m \in Message /\ m.kind \notin Signals  BY DEF Message, AnswerMsg, Signals
  <2>2. SignalQueue' = SignalQueue  BY <1>4, <1>9, <2>1, WireGrows
  <2>3. Ordered' /\ Watched' /\ Bindings' /\ Joining'  BY <1>1, <1>4, <1>7, <2>2, BusQuietOwners
  <2>4. ASSUME op.stage = "lookup", op.sent, m.serial = serial
        PROVE  m.value = owner[SenderOf[op.h]]
    <3>1. r.method = RequestOf[1] /\ r.arg = RequestOf[2]
      BY <1>2, <1>9, <2>4 DEF MatchInv, RequestAwaited
    <3>2. r.method = "GetNameOwner" /\ r.arg = SenderOf[op.h]  BY <2>4, <3>1 DEF RequestOf
    <3> QED  BY <1>9, <3>2
  <2>5. Answered'  BY <1>1, <1>4, <1>9, <2>1, <2>4, AnsweredGrows
  <2> QED  BY <2>3, <2>5 DEF OwnerInv
<1> QED  BY <1>6, <1>8, <1>9

\* A peer's answer is never the daemon's answer to GetNameOwner.
LEMMA PeerAnswersOwners ==
    ASSUME MatchInv, UsersInv, OwnerInv, PeerAnswers PROVE OwnerInv'
<1>1. PICK s \in rpcs, kind \in {"reply", "error"} :
        wire' = Append(wire, [kind |-> kind, serial |-> s, value |-> Nobody])
  BY DEF PeerAnswers
<1>2. UNCHANGED <<clientVars, matches, owner, down, events, watchedSince>>  BY DEF PeerAnswers
<1> DEFINE m == [kind |-> kind, serial |-> s, value |-> Nobody]
<1>3. m \in Message /\ m.kind \notin Signals /\ m.serial = s
  <2>1. s \in Nat  BY DEF MatchInv, TypeInv, DaemonOK
  <2> QED  BY <2>1 DEF Message, AnswerMsg, Signals
<1>4. wire' = Append(wire, m)  BY <1>1
<1> HIDE DEF m
<1>5. TypeInv /\ parked' = parked /\ (Connected' => Connected)
  BY <1>2 DEF MatchInv, clientVars, Connected
<1>6. SignalQueue' = SignalQueue  BY <1>3, <1>4, <1>5, WireGrows
<1>7. Ordered' /\ Watched' /\ Bindings' /\ Joining'  BY <1>2, <1>5, <1>6, BusQuietOwners
<1>8. ~(op.stage = "lookup" /\ op.sent /\ m.serial = serial)
  BY <1>3 DEF MatchInv, RequestAwaited
<1>9. Answered'  BY <1>2, <1>3, <1>4, <1>5, <1>8, AnsweredGrows
<1> QED  BY <1>7, <1>9 DEF OwnerInv

\* A method call or a message that does not parse arrives, or the daemon stops.
LEMMA OtherEventsOwners ==
    ASSUME MatchInv, UsersInv, OwnerInv, CallClient \/ SendGarbled \/ DaemonStops
    PROVE  OwnerInv'
<1>1. /\ UNCHANGED <<clientVars, matches, owner, watchedSince>>
      /\ TypeInv /\ events \in Nat /\ down \in BOOLEAN
  BY DEF CallClient, SendGarbled, DaemonStops, MatchInv, TypeInv, CountsOK
<1>2. parked' = parked  BY <1>1 DEF clientVars
<1>3. CASE DaemonStops
  <2>1. wire' = wire /\ events' = events /\ (Connected' => Connected)
    BY <1>1, <1>3 DEF DaemonStops, Connected, clientVars
  <2>2. SignalQueue' = SignalQueue  BY <1>2, <2>1 DEF SignalQueue
  <2>3. Ordered' /\ Watched' /\ Bindings' /\ Joining'  BY <1>1, <2>1, <2>2, BusQuietOwners
  <2> QED  BY <1>1, <2>1, <2>3, AnsweredStays DEF OwnerInv
<1>4. ASSUME NEW kind \in {"call", "garbled"},
             wire' = Append(wire, [kind |-> kind, id |-> events + 1]), events' = events + 1,
             down' = down
      PROVE  OwnerInv'
  <2> DEFINE m == [kind |-> kind, id |-> events + 1]
  <2>1. m \in Message /\ m.kind \notin Signals /\ ~IsAnswer(m)
    BY <1>1 DEF Message, CallMsg, Garbled, Signals, IsAnswer
  <2>2. wire' = Append(wire, m)  BY <1>4
  <2> HIDE DEF m
  <2>3. Connected' => Connected  BY <1>1, <1>4 DEF Connected, clientVars
  <2>4. SignalQueue' = SignalQueue  BY <1>1, <1>2, <2>1, <2>2, WireGrows
  <2>5. Ordered' /\ Watched' /\ Bindings' /\ Joining'
    BY <1>1, <1>4, <2>3, <2>4, BusQuietOwners
  <2>6. Answered'  BY <1>1, <2>1, <2>2, <2>3, AnsweredGrows
  <2> QED  BY <2>5, <2>6 DEF OwnerInv
<1>5. CASE CallClient  BY <1>4, <1>5 DEF CallClient, Originate
<1>6. CASE SendGarbled  BY <1>4, <1>6 DEF SendGarbled, Originate
<1> QED  BY <1>3, <1>5, <1>6

\* A signal, or an owner change, is sent: it says what the name table says now.
LEMMA SignalSentOwners ==
    ASSUME TypeInv, OwnerInv, Connected, NEW m \in Message, m.kind \in Signals, m.id = events + 1,
           wire' = Append(wire, m), events' = events + 1,
           UNCHANGED <<clientVars, watchedSince, matches>>, Connected' => Connected,
           \A n \in Names :
               /\ m.kind = "signal" => SentBy(m, n, owner[n])
               /\ IF IsOwner(m, n) THEN owner'[n] = m.new ELSE owner'[n] = owner[n]
    PROVE  OwnerInv'
<1> DEFINE queue == SignalQueue
<1>1. SignalQueue' = Append(queue, m)
  <2>1. parked' = parked  BY DEF clientVars
  <2> QED  BY <2>1, WireGrows
<1>2. queue \in Seq(Message) /\ events \in Nat /\ watchedSince \in Nat /\ m.id > watchedSince
  BY SignalsType DEF OwnerInv, Ordered
<1>3. /\ Orderly(queue, events) /\ watchedSince <= events
      /\ matches[BusName] > 0 =>
            \A n \in Names : Told(queue, n, watchedSince) /\ Latest(queue, n, watchedSince, owner[n])
  BY DEF OwnerInv, Ordered, Watched
<1>4. ASSUME NEW n, NEW who, Settled(n, who)
      PROVE  Fresh(queue, n, watchedSince) /\ (Silent(queue, n) => who = owner[n])
  BY <1>4 DEF Settled
<1>5. ASSUME NEW e \in handlers, WellKnown(e.h), e.resolved
      PROVE  Settled(SenderOf[e.h], e.unique) /\ Heard(queue, SenderOf[e.h], e.unique, e.born)
  BY <1>5 DEF OwnerInv, Bindings
<1> HIDE DEF queue
<1>6. Ordered'
  <2>1. Orderly(Append(queue, m), events + 1)  BY <1>2, <1>3, OrderlyGrows
  <2>2. watchedSince' <= events'  BY <1>2, <1>3
  <2> QED  BY <1>1, <2>1, <2>2 DEF Ordered
<1>7. Watched'
  <2>1. ASSUME matches[BusName] > 0, NEW n \in Names
        PROVE  /\ Told(Append(queue, m), n, watchedSince)
               /\ Latest(Append(queue, m), n, watchedSince, owner'[n])
    <3>1. Told(queue, n, watchedSince) /\ Latest(queue, n, watchedSince, owner[n])
      BY <1>3, <2>1
    <3>2. m.kind = "signal" => SentBy(m, n, owner[n])  OBVIOUS
    <3>3. Told(Append(queue, m), n, watchedSince)  BY <1>2, <3>1, <3>2, ToldGrows
    <3>4. IF IsOwner(m, n) THEN m.new = owner'[n] ELSE Latest(queue, n, watchedSince, owner'[n])
      BY <3>1
    <3>5. Latest(Append(queue, m), n, watchedSince, owner'[n])  BY <1>2, <3>4, LatestGrows
    <3> QED  BY <3>3, <3>5
  <2> QED  BY <1>1, <2>1 DEF Watched
\* Who is settled stays so: another owner's change is now queued.
<1>8. ASSUME NEW n \in Names, NEW who, Settled(n, who)
      PROVE  /\ Fresh(Append(queue, m), n, watchedSince)
             /\ Silent(Append(queue, m), n) => who = owner'[n]
  <2>1. Fresh(Append(queue, m), n, watchedSince)  BY <1>2, <1>4, <1>8, FreshGrows
  <2>2. ASSUME Silent(Append(queue, m), n) PROVE who = owner'[n]
    <3>1. Silent(queue, n) /\ ~IsOwner(m, n)  BY <1>2, <2>2, SilentGrows
    <3>2. who = owner[n]  BY <1>4, <1>8, <3>1
    <3> QED  BY <3>1, <3>2
  <2> QED  BY <2>1, <2>2
<1>9. Bindings'
  <2>1. SUFFICES ASSUME NEW e \in handlers, WellKnown(e.h), e.resolved
                 PROVE  /\ Fresh(Append(queue, m), SenderOf[e.h], watchedSince)
                        /\ Silent(Append(queue, m), SenderOf[e.h]) =>
                              e.unique = owner'[SenderOf[e.h]]
                        /\ Heard(Append(queue, m), SenderOf[e.h], e.unique, e.born)
    BY <1>1 DEF Bindings, Settled, WellKnown, clientVars
  <2> DEFINE n == SenderOf[e.h]
  <2>2. n \in Names  BY <2>1 DEF WellKnown
  <2>3. Settled(n, e.unique) /\ Heard(queue, n, e.unique, e.born)  BY <1>5, <2>1
  <2> HIDE DEF n
  <2>4. m.kind = "signal" /\ Silent(queue, n) => SentBy(m, n, e.unique)
    BY <1>4, <2>2, <2>3
  <2>5. Heard(Append(queue, m), n, e.unique, e.born)  BY <1>2, <2>3, <2>4, HeardGrows
  <2> QED  BY <1>8, <2>2, <2>3, <2>5 DEF n
<1>10. Joining'
  <2>1. SUFFICES ASSUME op.stage = "match", op.resolved, WellKnown(op.h)
                 PROVE  /\ Fresh(Append(queue, m), SenderOf[op.h], watchedSince)
                        /\ Silent(Append(queue, m), SenderOf[op.h]) =>
                              op.unique = owner'[SenderOf[op.h]]
    BY <1>1 DEF Joining, Settled, WellKnown, clientVars
  <2>2. SenderOf[op.h] \in Names /\ Settled(SenderOf[op.h], op.unique)
    BY <2>1 DEF OwnerInv, Joining, WellKnown
  <2> QED  BY <1>8, <2>2
<1>11. Answered'
  <2>1. SUFFICES ASSUME op.stage = "lookup", op.sent, NEW k \in DOMAIN wire',
                        IsAnswer(wire'[k]), wire'[k].serial = serial,
                        \A j \in DOMAIN wire' : k < j => ~IsOwner(wire'[j], SenderOf[op.h])
                 PROVE  wire'[k].value = owner'[SenderOf[op.h]]
    BY DEF Answered, clientVars
  <2>2. wire \in Seq(Message)  BY QueueTypes DEF TypeInv
  <2>3. /\ \A i \in DOMAIN wire' : \/ i \in DOMAIN wire /\ wire'[i] = wire[i]
                                   \/ wire'[i] = m
        /\ \A i \in DOMAIN wire : i \in DOMAIN wire' /\ wire'[i] = wire[i] /\ i < Len(wire) + 1
        /\ Len(wire) + 1 \in DOMAIN wire' /\ wire'[Len(wire) + 1] = m
    BY <2>2, Appended
  <2>4. ~IsAnswer(m)  BY DEF IsAnswer, Signals
  <2>5. k \in DOMAIN wire /\ wire'[k] = wire[k]  BY <2>1, <2>3, <2>4
  <2>6. ~IsOwner(m, SenderOf[op.h])  BY <2>1, <2>3, <2>5
  <2>7. SenderOf[op.h] \in Names  BY <2>1 DEF TypeInv, SubscriptionsOK, OpShape
  <2>8. wire[k].value = owner[SenderOf[op.h]]
    BY <2>1, <2>3, <2>5 DEF OwnerInv, Answered
  <2> QED  BY <2>5, <2>6, <2>7, <2>8
<1> QED  BY <1>6, <1>7, <1>9, <1>10, <1>11 DEF OwnerInv

LEMMA EmitSignalOwners ==
    ASSUME TypeInv, OwnerInv, NEW p \in Peers, EmitSignal(p) PROVE OwnerInv'
<1> DEFINE m == [kind |-> "signal", id |-> events + 1, from |-> p,
                 names |-> {n \in Names : owner[n] = p}]
<1>1. /\ wire' = Append(wire, m) /\ events' = events + 1 /\ Connected
      /\ UNCHANGED <<clientVars, owner, watchedSince, matches>>
  BY DEF EmitSignal, Originate
<1>2. /\ m \in Message /\ m.kind = "signal" /\ m.id = events + 1
      /\ \A n \in Names : SentBy(m, n, owner[n]) /\ ~IsOwner(m, n)
  BY DEF Message, SignalMsg, TypeInv, CountsOK, SentBy, IsOwner
<1>3. m.kind \in Signals  BY <1>2 DEF Signals
<1> HIDE DEF m
<1> QED  BY <1>1, <1>2, <1>3, SignalSentOwners

LEMMA ChangeOwnerOwners ==
    ASSUME MatchInv, UsersInv, OwnerInv, NEW n \in Names, NEW p \in Peers \cup {Nobody},
           ChangeOwner(n, p)
    PROVE  OwnerInv'
<1>1. /\ Connected /\ owner' = [owner EXCEPT ![n] = p]
      /\ UNCHANGED <<clientVars, watchedSince, matches, down>>
  BY DEF ChangeOwner
<1>2. TypeInv /\ owner \in [Names -> Peers \cup {Nobody}] /\ events \in Nat
  BY DEF MatchInv, TypeInv, DaemonOK, CountsOK
<1>3. CASE matches[BusName] > 0
  <2> DEFINE m == [kind |-> "owner", id |-> events + 1, name |-> n, new |-> p]
  <2>1. wire' = Append(wire, m) /\ events' = events + 1
    BY <1>3 DEF ChangeOwner, Originate
  <2>2. /\ m \in Message /\ m.kind = "owner" /\ m.id = events + 1 /\ m.name = n /\ m.new = p
    BY <1>2 DEF Message, OwnerMsg
  <2> HIDE DEF m
  <2>3. \A k \in Names : IF IsOwner(m, k) THEN owner'[k] = m.new ELSE owner'[k] = owner[k]
    BY <1>1, <1>2, <2>2 DEF IsOwner
  <2>4. m.kind \in Signals /\ m.kind # "signal"  BY <2>2 DEF Signals
  <2> QED  BY <1>1, <1>2, <2>1, <2>2, <2>3, <2>4, SignalSentOwners
\* Nobody watches: no entry is bound through a name.
<1>4. CASE ~(matches[BusName] > 0)
  <2>1. wire' = wire /\ events' = events  BY <1>4 DEF ChangeOwner
  <2>2. /\ ~NeedsWatch(handlers) /\ op.stage # "lookup"
        /\ ~(op.stage = "match" /\ WellKnown(op.h))
    BY <1>4, OwnersAreWatched
  <2>3. Bindings' /\ Joining' /\ Answered'
    BY <1>1, <2>2 DEF Bindings, Joining, Answered, NeedsWatch, WellKnown, clientVars
  <2>4. SignalQueue' = SignalQueue  BY <1>1, <2>1 DEF SignalQueue, clientVars
  <2>5. Ordered'  BY <1>1, <2>1, <2>4 DEF OwnerInv, Ordered
  <2>6. Watched'  BY <1>1, <1>4 DEF Watched
  <2> QED  BY <2>3, <2>5, <2>6 DEF OwnerInv
<1> QED  BY <1>3, <1>4

-----------------------------------------------------------------------------
FullInv == MatchInv /\ UsersInv /\ FrameInv /\ OwnerInv

LEMMA NextOwners ==
    MatchInv /\ UsersInv /\ FrameInv /\ TypeInv' /\ OwnerInv /\ [Next]_vars => OwnerInv'
<1> SUFFICES ASSUME MatchInv, UsersInv, FrameInv, TypeInv', OwnerInv, [Next]_vars
             PROVE  OwnerInv'
  OBVIOUS
<1>0. TypeInv  BY DEF MatchInv
<1>1. CASE ClientStep
  BY <1>0, <1>1, SubscribeOwners, OtherCallsOwners, CloseOwners, SendOwners, CallEndsOwners,
     ParkOwners, DispatchOwners, DispatchSignalOwners
     DEF ClientStep
<1>2. CASE BusStep
  BY <1>0, <1>2, DaemonServesOwners, PeerAnswersOwners, OtherEventsOwners, EmitSignalOwners,
     ChangeOwnerOwners DEF BusStep
<1>3. CASE UNCHANGED vars
  <2>1. SignalQueue' = SignalQueue  BY <1>3 DEF vars, SignalQueue
  <2>2. Ordered' /\ Watched' /\ Bindings' /\ Joining' /\ Answered'
    BY <1>3, <2>1, SMTT(60)
       DEF vars, OwnerInv, Ordered, Watched, Bindings, Joining, Answered, Settled, WellKnown,
           Connected
  <2> QED  BY <2>2 DEF OwnerInv
<1> QED  BY <1>1, <1>2, <1>3 DEF Next

\* Only DispatchSignal takes a signal.
LEMMA TakenByDispatch ==
    ASSUME [Next]_vars, lastSignal' # lastSignal PROVE DispatchSignal
<1>1. ~BusStep
  BY DEF BusStep, DaemonServes, PeerAnswers, CallClient, SendGarbled, DaemonStops, EmitSignal,
         ChangeOwner, clientVars
<1>2. ClientStep  BY <1>1 DEF Next, vars
<1> QED
  BY <1>2, ZenonT(60) DEF ClientStep, Subscribe, Unsubscribe, Released, Call, Unwatch, Close, Send, SendFails,
              TakeReply, Park, CallReadsGarbled, CallTimesOut, CallHitsEnd, BeginDispatch,
              DispatchCall, DispatchAnswer, DispatchGarbled, DispatchEnds, InvokeHandler,
              HandlerReturns, HandlerRaises

\* A handler of a well-known name hears the signals of the process that owned
\* the name when they were emitted, and no others, across restarts, timed out
\* calls and watches that end and begin again (subscribe, _deliver, _matches).
THEOREM OwnersAreHeard == Spec => HeardFromOwner
<1>1. Init => FullInv  BY InitMatch, InitUsers, InitStream, InitOwners DEF FullInv
<1>2. FullInv /\ [Next]_vars => FullInv'
  <2>1. MatchInv => TypeInv  BY DEF MatchInv
  <2>2. MatchInv' => TypeInv'  BY DEF MatchInv
  <2> QED  BY <2>1, <2>2, NextMatch, NextUsers, NextFrame, NextOwners DEF FullInv
<1>3. FullInv /\ FullInv' /\ [Next]_vars =>
        [ (lastSignal' # lastSignal /\ disp'.msg.kind = "signal") =>
            \A e \in handlers' :
              (WellKnown(e.h) /\ e.resolved /\ disp'.msg.id > e.born) =>
                  (SenderOf[e.h] \in disp'.msg.names <=> e \in disp'.todo) ]_vars
  <2> SUFFICES ASSUME FullInv, FullInv', [Next]_vars, lastSignal' # lastSignal,
                      disp'.msg.kind = "signal", NEW e \in handlers', WellKnown(e.h), e.resolved,
                      disp'.msg.id > e.born
               PROVE  SenderOf[e.h] \in disp'.msg.names <=> e \in disp'.todo
    OBVIOUS
  <2>1. DispatchSignal  BY TakenByDispatch
  <2>2. TypeInv /\ TypeInv' /\ FrameInv /\ OwnerInv  BY DEF FullInv, MatchInv
  <2> QED  BY <2>1, <2>2, DispatchSignalHears
<1> QED  BY <1>1, <1>2, <1>3, PTL DEF Spec, HeardFromOwner
=============================================================================
