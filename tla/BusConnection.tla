---------------------------- MODULE BusConnection ----------------------------
(***************************************************************************)
(* One client connection to a D-Bus daemon, as implemented by class        *)
(* Connection of zaldros_backend/connection.py, together with the daemon   *)
(* and the peers it talks to (external code, modelled from how             *)
(* Connection uses them).                                                  *)
(*                                                                         *)
(* The client is single threaded.  A synchronous call() is one request on  *)
(* the socket followed by reads; everything it reads that is not its own   *)
(* reply is parked.  dispatch() takes the parked messages first, then the  *)
(* socket, and runs the handlers, whose bodies may subscribe, unsubscribe, *)
(* call or close in turn.  subscribe() and unsubscribe() are chains of     *)
(* such calls; "op" says how far the current chain has come, so that the   *)
(* daemon and the peers interleave between any two of its reads.           *)
(***************************************************************************)
EXTENDS Queues, FiniteSets

CONSTANTS
    Names,       \* well-known bus names, e.g. org.freedesktop.NetworkManager
    Peers,       \* unique names, one per process on the bus (":1.7")
    Handlers,    \* the signal callbacks of the program
    SenderOf,    \* handler -> the sender it subscribes to
    BusName,     \* org.freedesktop.DBus
    AnySender,   \* a subscription that gives no sender
    Nobody,      \* the empty owner "", and every other "none"
    Server,      \* the method_handler that ObjectServer.process() supplies
    MaxSerial,   \* bound: no operation starts after this many requests
    MaxSubs,     \* bound: subscriptions ever made
    MaxEvents,   \* bound: signals, owner changes and calls the daemon sends
    MaxFaults    \* bound: timeouts, refusals, unparsable messages, daemon stops

Senders == Names \cup Peers \cup {BusName, AnySender}

ASSUME SendersAssumption ==
    /\ SenderOf \in [Handlers -> Senders]
    /\ Names \cap Peers = {}
    /\ {BusName, AnySender} \cap (Names \cup Peers) = {}
    /\ BusName # AnySender
    /\ Nobody \notin Senders \cup Handlers
    /\ Server \notin Handlers \cup {Nobody}

ASSUME BoundsAssumption ==
    /\ MaxSerial \in Nat
    /\ MaxSubs \in Nat
    /\ MaxEvents \in Nat
    /\ MaxFaults \in Nat

VARIABLES
    serial,      \* _serial; while a call is outstanding, the serial it awaits
    parked,      \* _parked
    handlers,    \* _handlers, a set of entries numbered in list order
    subs,        \* subscriptions made so far, the number of the last entry
    users,       \* _match_users; a rule is named by the sender it selects
    watching,    \* _watching_owners
    closed,      \* _closed
    op,          \* the API operation in progress and its outstanding call
    disp,        \* the dispatch() frame
    wire,        \* daemon -> client: the socket followed by _buffer, FIFO
    inbox,       \* client -> daemon, FIFO
    matches,     \* the daemon's match rules for this connection, a multiset
    owner,       \* the daemon's name table
    rpcs,        \* serials of requests forwarded to a peer and not answered
    down,        \* the daemon has gone away
    events,      \* id of the last message the daemon originated
    faults,      \* failures so far, for the bound
    lastSignal,  \* history: id of the last signal dispatch() took
    watchedSince \* history: "events" when the daemon last began to send owner changes

clientVars == <<serial, parked, handlers, subs, users, watching, closed, op, disp, lastSignal>>

daemonVars == <<inbox, matches, owner, rpcs, down, events, watchedSince>>
vars == <<serial, parked, handlers, subs, users, watching, closed, op, disp,
          wire, inbox, matches, owner, rpcs, down, events, faults, lastSignal,
          watchedSince>>

Fault == faults < MaxFaults /\ faults' = faults + 1

-----------------------------------------------------------------------------
(* Messages, requests and the client's frames *)

SignalMsg == [kind: {"signal"}, id: Nat, from: Peers, names: SUBSET Names]
OwnerMsg  == [kind: {"owner"}, id: Nat, name: Names, new: Peers \cup {Nobody}]
CallMsg   == [kind: {"call"}, id: Nat]
Garbled   == [kind: {"garbled"}, id: Nat]
AnswerMsg == [kind: {"reply", "error"}, serial: Nat, value: Peers \cup {Nobody}]
Parkable  == SignalMsg \cup OwnerMsg \cup CallMsg
Message   == SignalMsg \cup OwnerMsg \cup CallMsg \cup Garbled \cup AnswerMsg

Signals == {"signal", "owner"}
IsSignal(m) == m.kind \in Signals
IsCall(m)   == m.kind = "call"
IsAnswer(m) == m.kind \in {"reply", "error"}

Request == [method: {"AddMatch", "RemoveMatch", "GetNameOwner", "Call"},
            arg: Senders, serial: Nat]

\* One entry of _handlers: "n" is its place in the list and "unique" is criteria["sender_unique"].  "born" and
\* "resolved" are history: the daemon's event counter when the entry was
\* appended, and whether its binding came from an answered lookup or an owner
\* change, with no owner change of an earlier, ended watch still queued.
Entry == [n: Nat, h: Handlers, unique: Senders \cup {Nobody}, born: Nat, resolved: BOOLEAN]

Stages == {"idle", "rpc", "watch", "lookup", "match", "release", "unwatch", "unwatching"}
Operation == [stage: Stages, sent: BOOLEAN, h: Handlers \cup {Nobody},
              unique: Senders \cup {Nobody}, resolved: BOOLEAN, started: BOOLEAN]
Idle == [stage |-> "idle", sent |-> FALSE, h |-> Nobody, unique |-> Nobody,
         resolved |-> FALSE, started |-> FALSE]

Frame == [on: BOOLEAN, serve: BOOLEAN, running: Handlers \cup {Nobody, Server},
          todo: SUBSET Entry, deferred: Seq(CallMsg), msg: Message]
NoMessage == [kind |-> "garbled", id |-> 0]
NoFrame == [on |-> FALSE, serve |-> FALSE, running |-> Nobody, todo |-> {},
            deferred |-> <<>>, msg |-> NoMessage]

WellKnown(h) == SenderOf[h] \in Names

NeedsWatch(entries) == \E e \in entries : WellKnown(e.h)

\* The owner changes of a name that dispatch() has not taken yet.
PendingOwners(n) ==
    LET queue == Only(Signals, parked \o wire)
    IN  {m \in {queue[i] : i \in DOMAIN queue} : m.kind = "owner" /\ m.name = n}

\* Owner changes that were sent before the present owner watch was installed.
StaleOwners(n) == \E m \in PendingOwners(n) : m.id <= watchedSince

-----------------------------------------------------------------------------
(* subscribe() and unsubscribe(): what each stage does when its call ends *)

\* _handlers.append, after the match rule is held.
AddHandler(h, unique, resolved) ==
    /\ users' = [users EXCEPT ![SenderOf[h]] = @ + 1]
    /\ subs' = subs + 1
    /\ handlers' = handlers \cup {[n |-> subs + 1, h |-> h, unique |-> unique,
                                  born |-> events, resolved |-> resolved]}
    /\ op' = Idle

\* _acquire_match(rule): AddMatch only for the first user of a rule.
AcquireRule(h, unique, resolved, started) ==
    IF users[SenderOf[h]] # 0
    THEN AddHandler(h, unique, resolved)
    ELSE /\ op' = [stage |-> "match", sent |-> FALSE, h |-> h, unique |-> unique,
                   resolved |-> resolved, started |-> started]
         /\ UNCHANGED <<users, handlers, subs>>

\* The owner watch is installed before GetNameOwner is asked.
WatchInstalled(h) ==
    /\ users' = [users EXCEPT ![BusName] = @ + 1]
    /\ watching' = TRUE
    /\ op' = [Idle EXCEPT !.stage = "lookup", !.h = h, !.started = TRUE]
    /\ UNCHANGED <<handlers, subs>>

\* The tail of unsubscribe(): drop the owner watch with its last user.
AfterRelease(entries) ==
    op' = IF watching /\ ~NeedsWatch(entries) THEN [Idle EXCEPT !.stage = "unwatch"] ELSE Idle

\* The outstanding call ended.  outcome "none" is every other DBusError of
\* call(): a timeout, a cancelled wait, a lost or closed connection, a message
\* that does not parse.
Complete(outcome, value) ==
    \/ /\ op.stage = "rpc"
       /\ op' = Idle
       /\ UNCHANGED <<users, handlers, subs, watching>>
    \/ /\ op.stage = "watch"
       /\ IF outcome = "reply"
          THEN WatchInstalled(op.h)
          ELSE op' = Idle /\ UNCHANGED <<users, handlers, subs, watching>>
    \/ /\ op.stage = "lookup"
       /\ AcquireRule(op.h, value, outcome # "none" /\ ~StaleOwners(SenderOf[op.h]),
                      op.started)
       /\ UNCHANGED watching
    \/ /\ op.stage = "match"
       /\ IF outcome = "reply"
          THEN AddHandler(op.h, op.unique, op.resolved)
          ELSE /\ op' = IF op.started THEN [Idle EXCEPT !.stage = "unwatch"] ELSE Idle
               /\ UNCHANGED <<users, handlers, subs>>
       /\ UNCHANGED watching
    \/ /\ op.stage = "release"
       /\ AfterRelease(handlers)
       /\ UNCHANGED <<users, handlers, subs, watching>>
    \/ /\ op.stage = "unwatching"
       /\ watching' = FALSE
       /\ op' = Idle
       /\ UNCHANGED <<users, handlers, subs>>

-----------------------------------------------------------------------------
(* The operations a caller, or a running handler, may start *)

MayAct == op = Idle /\ (disp.on => disp.running # Nobody)

Subscribe(h) ==
    /\ MayAct /\ serial < MaxSerial /\ subs < MaxSubs
    /\ \/ /\ WellKnown(h) /\ ~watching /\ users[BusName] = 0
          /\ op' = [Idle EXCEPT !.stage = "watch", !.h = h]
          /\ UNCHANGED <<users, handlers, subs, watching>>
       \/ /\ WellKnown(h) /\ ~watching /\ users[BusName] # 0
          /\ WatchInstalled(h)
       \/ /\ WellKnown(h) /\ watching
          /\ op' = [Idle EXCEPT !.stage = "lookup", !.h = h]
          /\ UNCHANGED <<users, handlers, subs, watching>>
       \/ /\ ~WellKnown(h)
          /\ AcquireRule(h, SenderOf[h], TRUE, FALSE)
          /\ UNCHANGED watching
    /\ UNCHANGED <<serial, parked, closed, disp, wire, daemonVars, faults, lastSignal>>

Of(h) == {e \in handlers : e.h = h}

Released(h, uses, last) ==
    /\ MayAct /\ Of(h) # {}
    /\ handlers' = handlers \ Of(h)
    /\ users' = [users EXCEPT ![SenderOf[h]] = @ - uses]
    /\ IF last /\ ~closed
       THEN op' = [Idle EXCEPT !.stage = "release", !.h = h]
       ELSE AfterRelease(handlers \ Of(h))
    /\ UNCHANGED <<serial, parked, subs, watching, closed, disp, wire, daemonVars, faults,
                   lastSignal>>

\* Mutants: one use is released although several entries went; RemoveMatch is
\* sent while the rule still has users.
UnsubscribeReleasesOnce(h) == Released(h, 1, users[SenderOf[h]] = 1)
UnsubscribeRemovesRule(h) == Released(h, Cardinality(Of(h)), TRUE)

\* Every entry of the same rule and handler goes, with one use of the rule each.
Unsubscribe(h) ==
    Released(h, Cardinality(Of(h)), users[SenderOf[h]] = Cardinality(Of(h)))

\* _release_match(OWNER_CHANGED_RULE)
Unwatch ==
    /\ op.stage = "unwatch"
    /\ users' = [users EXCEPT ![BusName] = @ - 1]
    /\ IF users[BusName] = 1 /\ ~closed
       THEN op' = [Idle EXCEPT !.stage = "unwatching"] /\ UNCHANGED watching
       ELSE op' = Idle /\ watching' = FALSE
    /\ UNCHANGED <<serial, parked, handlers, subs, closed, disp, wire, daemonVars, faults,
                   lastSignal>>

Call(p) ==
    /\ MayAct /\ serial < MaxSerial
    /\ op' = [Idle EXCEPT !.stage = "rpc", !.unique = p]
    /\ UNCHANGED <<serial, parked, handlers, subs, users, watching, closed, disp, wire,
                   daemonVars, faults, lastSignal>>

\* What recv() already moved into _buffer stays readable; the socket does not.
KeepBuffered == \E n \in 0..Len(wire) : wire' = SubSeq(wire, 1, n)

Close ==
    /\ MayAct /\ ~closed
    /\ closed' = TRUE
    /\ KeepBuffered
    /\ UNCHANGED <<serial, parked, handlers, subs, users, watching, op, disp, daemonVars, faults, lastSignal>>

-----------------------------------------------------------------------------
(* call(): send, then read until the reply to "serial" *)

Calls == {"rpc", "watch", "lookup", "match", "release", "unwatching"}

RequestOf ==
    CASE op.stage = "rpc"                     -> <<"Call", op.unique>>
      [] op.stage = "watch"                   -> <<"AddMatch", BusName>>
      [] op.stage = "lookup"                  -> <<"GetNameOwner", SenderOf[op.h]>>
      [] op.stage = "match"                   -> <<"AddMatch", SenderOf[op.h]>>
      [] op.stage = "release"                 -> <<"RemoveMatch", SenderOf[op.h]>>
      [] op.stage = "unwatching"              -> <<"RemoveMatch", BusName>>

Send ==
    /\ op.stage \in Calls /\ ~op.sent
    /\ ~closed /\ ~down
    /\ serial' = serial + 1
    /\ inbox' = Append(inbox, [method |-> RequestOf[1], arg |-> RequestOf[2],
                               serial |-> serial + 1])
    /\ op' = [op EXCEPT !.sent = TRUE]
    /\ UNCHANGED <<parked, handlers, subs, users, watching, closed, disp, wire,
                   matches, owner, rpcs, down, events, faults, lastSignal, watchedSince>>

\* The connection is closed, or sendall() fails and closes it.
SendFails ==
    /\ op.stage \in Calls /\ ~op.sent
    /\ \/ closed /\ UNCHANGED wire
       \/ ~closed /\ down /\ KeepBuffered
    /\ closed' = TRUE
    /\ Complete("none", Nobody)
    /\ UNCHANGED <<serial, parked, disp, daemonVars, faults, lastSignal>>

TakeReply ==
    /\ op.sent /\ wire # <<>>
    /\ LET m == Head(wire) IN
         /\ IsAnswer(m) /\ m.serial = serial
         /\ Complete(m.kind, m.value)
    /\ wire' = Tail(wire)
    /\ UNCHANGED <<serial, parked, closed, disp, daemonVars, faults, lastSignal>>

\* _park: signals and incoming calls wait for dispatch(), late answers are dropped.
Park ==
    /\ op.sent /\ wire # <<>>
    /\ LET m == Head(wire) IN
         /\ m.kind # "garbled"
         /\ IsAnswer(m) => m.serial # serial
         /\ parked' = IF IsAnswer(m) THEN parked ELSE Append(parked, m)
    /\ wire' = Tail(wire)
    /\ UNCHANGED <<serial, handlers, subs, users, watching, closed, op, disp, daemonVars, faults, lastSignal>>

\* _take_buffered: the message is consumed, then WireError becomes DBusError.
CallReadsGarbled ==
    /\ op.sent /\ wire # <<>>
    /\ Head(wire).kind = "garbled"
    /\ wire' = Tail(wire)
    /\ Complete("none", Nobody)
    /\ UNCHANGED <<serial, parked, closed, disp, daemonVars, faults, lastSignal>>

\* The deadline passes, or cancelled() turns true.  The request stays sent.
CallTimesOut ==
    /\ op.sent /\ Fault
    /\ Complete("none", Nobody)
    /\ UNCHANGED <<serial, parked, closed, disp, wire, daemonVars, lastSignal>>

CallHitsEnd ==
    /\ op.sent /\ wire = <<>> /\ down
    /\ closed' = TRUE
    /\ Complete("none", Nobody)
    /\ UNCHANGED <<serial, parked, disp, wire, daemonVars, faults, lastSignal>>

-----------------------------------------------------------------------------
(* dispatch() *)

\* Mutant: the deferred calls of a client-only dispatch are forgotten.
EndFrameForgets == disp' = NoFrame /\ UNCHANGED parked

\* The frame ends, normally or by an exception: _parked becomes the deferred
\* calls followed by what is still unprocessed.
EndFrame == disp' = NoFrame /\ parked' = disp.deferred \o parked

BeginDispatch(serve) ==
    /\ op = Idle /\ ~disp.on
    /\ disp' = [NoFrame EXCEPT !.on = TRUE, !.serve = serve]
    /\ UNCHANGED <<serial, parked, handlers, subs, users, watching, closed, op, wire,
                   daemonVars, faults, lastSignal>>

Between == disp.on /\ disp.running = Nobody /\ disp.todo = {}

\* The next message: the parked FIFO first, then the socket.
FromParked == parked # <<>>

Pending == parked # <<>> \/ wire # <<>>

NextMessage == IF FromParked THEN Head(parked) ELSE Head(wire)

TakeNext ==
    IF FromParked THEN parked' = Tail(parked) /\ UNCHANGED wire
                  ELSE wire' = Tail(wire) /\ UNCHANGED parked

\* Mutant: an unresolved owner is a wildcard over the shared socket.
WantsUnresolved(e, m) ==
    \/ /\ m.kind = "signal"
       /\ SenderOf[e.h] = AnySender \/ e.unique \in {m.from, Nobody}
    \/ m.kind = "owner" /\ SenderOf[e.h] = BusName

\* _matches, for the criteria that differ between handlers: the sender.
Wants(e, m) ==
    \/ /\ m.kind = "signal"
       /\ SenderOf[e.h] = AnySender \/ e.unique = m.from
    \/ m.kind = "owner" /\ SenderOf[e.h] = BusName

\* Only the daemon's NameOwnerChanged rebinds a well-known sender.
Rebound(m) ==
    {IF m.kind = "owner" /\ SenderOf[e.h] = m.name
     THEN [e EXCEPT !.unique = m.new, !.resolved = m.id > watchedSince]
     ELSE e : e \in handlers}

\* _deliver: rebind, then walk a copy of the handler list.
DispatchSignal ==
    /\ Between /\ Pending
    /\ LET m == NextMessage IN
         /\ IsSignal(m)
         /\ TakeNext
         /\ handlers' = Rebound(m)
         /\ disp' = [disp EXCEPT !.msg = m,
                       !.todo = {e \in Rebound(m) : Wants(e, m)}]
         /\ lastSignal' = m.id
    /\ UNCHANGED <<serial, subs, users, watching, closed, op, daemonVars, faults>>

\* A method call goes to method_handler, or back to _parked for the server.
DispatchCall ==
    /\ Between /\ Pending
    /\ LET m == NextMessage IN
         /\ IsCall(m)
         /\ TakeNext
         /\ disp' = IF disp.serve THEN [disp EXCEPT !.msg = m, !.running = Server]
                                  ELSE [disp EXCEPT !.deferred = Append(@, m)]
    /\ UNCHANGED <<serial, handlers, subs, users, watching, closed, op, daemonVars, faults, lastSignal>>

\* An answer to a call nobody waits for any more is dropped.
DispatchAnswer ==
    /\ Between /\ ~FromParked /\ wire # <<>>
    /\ IsAnswer(Head(wire))
    /\ wire' = Tail(wire)
    /\ UNCHANGED <<serial, parked, handlers, subs, users, watching, closed, op, disp,
                   daemonVars, faults, lastSignal>>

\* A message that does not parse is consumed and raises out of dispatch().
DispatchGarbled ==
    /\ Between /\ ~FromParked /\ wire # <<>>
    /\ Head(wire).kind = "garbled"
    /\ wire' = Tail(wire)
    /\ EndFrame
    /\ UNCHANGED <<serial, handlers, subs, users, watching, closed, op, daemonVars, faults, lastSignal>>

\* Nothing left to read: return, or raise when the connection has ended.
DispatchEnds ==
    /\ Between /\ ~Pending
    /\ closed' = (closed \/ down)
    /\ EndFrame
    /\ UNCHANGED <<serial, handlers, subs, users, watching, op, wire, daemonVars, faults, lastSignal>>

InvokeHandler ==
    /\ disp.on /\ disp.running = Nobody
    /\ \E e \in disp.todo :
         /\ \A f \in disp.todo : e.n <= f.n
         /\ disp' = [disp EXCEPT !.running = e.h, !.todo = @ \ {e}]
    /\ UNCHANGED <<serial, parked, handlers, subs, users, watching, closed, op, wire,
                   daemonVars, faults, lastSignal>>

HandlerReturns ==
    /\ disp.on /\ disp.running # Nobody /\ op = Idle
    /\ disp' = [disp EXCEPT !.running = Nobody]
    /\ UNCHANGED <<serial, parked, handlers, subs, users, watching, closed, op, wire,
                   daemonVars, faults, lastSignal>>

\* The exception skips the remaining handlers of this message only.
HandlerRaises ==
    /\ disp.on /\ disp.running # Nobody /\ op = Idle
    /\ EndFrame
    /\ UNCHANGED <<serial, handlers, subs, users, watching, closed, op, wire, daemonVars, faults, lastSignal>>

-----------------------------------------------------------------------------
(* The daemon and the peers (external) *)

Connected == ~closed /\ ~down

Reply(r, value) == [kind |-> "reply", serial |-> r.serial, value |-> value]
Refusal(r) == [kind |-> "error", serial |-> r.serial, value |-> Nobody]

\* The daemon serves requests in the order they were sent.
Serve(r) ==
    \/ /\ r.method = "AddMatch"
       /\ \/ /\ matches' = [matches EXCEPT ![r.arg] = @ + 1]
             /\ wire' = Append(wire, Reply(r, Nobody))
             /\ watchedSince' = IF r.arg = BusName /\ matches[BusName] = 0
                                THEN events ELSE watchedSince
             /\ UNCHANGED faults
          \/ /\ wire' = Append(wire, Refusal(r))       \* a limit is reached
             /\ Fault
             /\ UNCHANGED <<matches, watchedSince>>
       /\ UNCHANGED rpcs
    \/ /\ r.method = "RemoveMatch"
       /\ IF matches[r.arg] > 0
          THEN /\ matches' = [matches EXCEPT ![r.arg] = @ - 1]
               /\ wire' = Append(wire, Reply(r, Nobody))
          ELSE /\ wire' = Append(wire, Refusal(r))
               /\ UNCHANGED matches
       /\ UNCHANGED <<rpcs, watchedSince, faults>>
    \/ /\ r.method = "GetNameOwner"
       /\ wire' = Append(wire, IF owner[r.arg] = Nobody THEN Refusal(r)
                               ELSE Reply(r, owner[r.arg]))
       /\ UNCHANGED <<matches, rpcs, watchedSince, faults>>
    \/ /\ r.method = "Call"
       /\ rpcs' = rpcs \cup {r.serial}
       /\ UNCHANGED <<matches, wire, watchedSince, faults>>

DaemonServes ==
    /\ Connected /\ inbox # <<>>
    /\ inbox' = Tail(inbox)
    /\ Serve(Head(inbox))
    /\ UNCHANGED <<clientVars, owner, down, events>>

\* A peer answers a forwarded call in its own time, in any order.
PeerAnswers ==
    /\ Connected
    /\ \E s \in rpcs, kind \in {"reply", "error"} :
         /\ rpcs' = rpcs \ {s}
         /\ wire' = Append(wire, [kind |-> kind, serial |-> s, value |-> Nobody])
    /\ UNCHANGED <<clientVars, inbox, matches, owner, down, events, faults, watchedSince>>

Originate(m) == events' = events + 1 /\ wire' = Append(wire, m)

Routed(p) == \E r \in Senders :
    /\ matches[r] > 0
    /\ r \in {p, AnySender} \/ (r \in Names /\ owner[r] = p)

\* One copy per connection, however many of its rules match.
EmitSignal(p) ==
    /\ Connected /\ events < MaxEvents /\ Routed(p)
    /\ Originate([kind |-> "signal", id |-> events + 1, from |-> p,
                  names |-> {n \in Names : owner[n] = p}])
    /\ UNCHANGED <<clientVars, inbox, matches, owner, rpcs, down, faults, watchedSince>>

CallClient ==
    /\ Connected /\ events < MaxEvents
    /\ Originate([kind |-> "call", id |-> events + 1])
    /\ UNCHANGED <<clientVars, inbox, matches, owner, rpcs, down, faults, watchedSince>>

SendGarbled ==
    /\ Connected /\ events < MaxEvents /\ Fault
    /\ Originate([kind |-> "garbled", id |-> events + 1])
    /\ UNCHANGED <<clientVars, inbox, matches, owner, rpcs, down, watchedSince>>

\* A service starts, stops or is replaced; NameOwnerChanged goes to watchers.
ChangeOwner(n, p) ==
    /\ Connected /\ p # owner[n]
    /\ owner' = [owner EXCEPT ![n] = p]
    /\ IF matches[BusName] > 0
       THEN /\ events < MaxEvents
            /\ Originate([kind |-> "owner", id |-> events + 1, name |-> n, new |-> p])
       ELSE UNCHANGED <<events, wire>>
    /\ UNCHANGED <<clientVars, inbox, matches, rpcs, down, faults, watchedSince>>

DaemonStops ==
    /\ Connected /\ Fault
    /\ down' = TRUE
    /\ UNCHANGED <<clientVars, wire, inbox, matches, owner, rpcs, events, watchedSince>>

-----------------------------------------------------------------------------
Init ==
    /\ serial = 0 /\ parked = <<>> /\ handlers = {} /\ subs = 0
    /\ users = [r \in Senders |-> 0] /\ watching = FALSE /\ closed = FALSE
    /\ op = Idle /\ disp = NoFrame
    /\ wire = <<>> /\ inbox = <<>>
    /\ matches = [r \in Senders |-> 0]
    /\ owner \in [Names -> Peers \cup {Nobody}]
    /\ rpcs = {} /\ down = FALSE /\ events = 0 /\ faults = 0
    /\ lastSignal = 0 /\ watchedSince = 0

ClientStep ==
    \/ \E h \in Handlers : Subscribe(h) \/ Unsubscribe(h)
    \/ \E p \in Peers : Call(p)
    \/ Unwatch \/ Close
    \/ Send \/ SendFails \/ TakeReply \/ Park \/ CallReadsGarbled \/ CallTimesOut \/ CallHitsEnd
    \/ \E serve \in BOOLEAN : BeginDispatch(serve)
    \/ DispatchSignal \/ DispatchCall \/ DispatchAnswer \/ DispatchGarbled \/ DispatchEnds
    \/ InvokeHandler \/ HandlerReturns \/ HandlerRaises

BusStep ==
    \/ DaemonServes \/ PeerAnswers \/ CallClient \/ SendGarbled \/ DaemonStops
    \/ \E p \in Peers : EmitSignal(p)
    \/ \E n \in Names, p \in Peers \cup {Nobody} : ChangeOwner(n, p)

Next == ClientStep \/ BusStep

Spec == Init /\ [][Next]_vars

-----------------------------------------------------------------------------
(* Properties *)

TypeOK ==
    /\ serial \in Nat /\ events \in Nat /\ faults \in Nat
    /\ lastSignal \in Nat /\ watchedSince \in Nat
    /\ parked \in Seq(Parkable) /\ wire \in Seq(Message)
    /\ handlers \in SUBSET Entry /\ IsFiniteSet(handlers)
    /\ subs \in Nat
    /\ users \in [Senders -> Int]
    /\ matches \in [Senders -> Nat]
    /\ watching \in BOOLEAN /\ closed \in BOOLEAN /\ down \in BOOLEAN
    /\ op \in Operation
    /\ disp \in Frame
    /\ inbox \in Seq(Request)
    /\ owner \in [Names -> Peers \cup {Nobody}]
    /\ rpcs \in SUBSET Nat

\* A rule the client counts as held is installed in the daemon, whatever calls
\* timed out, were refused or answered late before: no subscriber is left
\* without its match rule by the reference counts of _acquire_match and
\* _release_match.
MatchInstalled ==
    Connected => \A r \in Senders : users[r] > 0 => matches[r] > 0

\* Between operations the reference counts are exactly the live entries of
\* _handlers, plus one for the owner watch, and the watch is held exactly
\* while some entry names a well-known sender (subscribe, unsubscribe).
UsersAreCounted ==
    op = Idle =>
        /\ watching = NeedsWatch(handlers)
        /\ \A r \in Senders :
             users[r] = Cardinality({e \in handlers : SenderOf[e.h] = r})
                        + (IF r = BusName /\ watching THEN 1 ELSE 0)

\* The comment in subscribe(), "a restart between GetNameOwner and AddMatch
\* must not be missed": an entry that is bound to a process is bound to the
\* present owner of its well-known name, unless an owner change for that name
\* is still queued.
BoundToOwner ==
    Connected =>
        \A e \in handlers :
            (WellKnown(e.h) /\ e.unique # Nobody /\ PendingOwners(SenderOf[e.h]) = {})
                => e.unique = owner[SenderOf[e.h]]

\* A signal emitted after an entry was appended reaches that entry's handler
\* exactly when its sender owned the subscribed name at the time it was
\* emitted: neither the old nor the new owner is mistaken across a restart
\* (the bindings move in wire order, _deliver).  Entries whose lookup failed,
\* or that found a stale owner change queued, are not "resolved".
HeardFromOwner ==
    [][ (lastSignal' # lastSignal /\ disp'.msg.kind = "signal") =>
          \A e \in handlers' :
            (WellKnown(e.h) /\ e.resolved /\ disp'.msg.id > e.born) =>
                (SenderOf[e.h] \in disp'.msg.names <=> e \in disp'.todo) ]_vars

\* The connection implements the stream it promises: no signal and no method
\* call is lost, reordered or consumed inside a synchronous call.
Stream == INSTANCE SignalStream WITH
    signals     <- Only(Signals, parked \o wire),
    incoming    <- Only({"call"}, disp.deferred \o parked \o wire),
    calling     <- op.sent,
    dispatching <- disp.on,
    open        <- ~closed

StreamImplemented == Stream!Spec
=============================================================================
