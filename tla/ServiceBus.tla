------------------------------ MODULE ServiceBus ------------------------------
(***************************************************************************)
(* A service published with ObjectServer (service.py) and a client that    *)
(* asks it through Bus (bus.py), as StorageFacet does: has_service and its *)
(* short memory, one synchronous question at a time, the subscriptions     *)
(* that make the facade mark a domain dirty, a connection that faults and   *)
(* comes back without them.  The daemon between the two keeps order and    *)
(* answers NameHasOwner at once; how subscribe() itself interleaves with   *)
(* it is the subject of BusConnection.                                     *)
(***************************************************************************)
EXTENDS Queues, SequencesExt

CONSTANTS
    Paths,       \* object paths, as sequences of names
    Root,        \* the path the client asks GetManagedObjects of
    Interfaces, Properties, PropertyValues,
    Unsendable,      \* values that do not marshal under their property's signature
    Questions,       \* the questions of Bus: member, path, interface, property, value
    Before,      \* what a service that started before the client has published
    MaxChanges,  \* bound: what the service does of its own accord or for others
    MaxCalls,    \* bound: questions asked
    MaxFaults    \* bound: connections lost, and spells in which calls to the daemon fail

Slots == Paths \X Interfaces
Objects == UNION {[slots -> [Properties -> PropertyValues]] : slots \in SUBSET Slots}
\* The facade's own reading asks GetManagedObjects, nothing else does; a value set is one
\* of PropertyValues, sendable or not.
ASSUME QuestionsAssumption ==
    /\ Before \in Objects
    /\ \A a \in Questions : /\ a[1] \in {"Ping", "Introspect", "Get", "GetAll", "Set", "Method"}
                            /\ a[1] = "Set" => a[5] \in PropertyValues

Signals == {"owner", "added", "removed", "changed"}
Nobody == 0          \* no process owns the name; the processes are numbered from 1
Unbound == -1      \* no owner watch on the present connection
Inventory == {"added", "removed"}   \* the signals that are matched by their sender
NoQuestion == [member |-> "none", serial |-> 0, heard |-> FALSE]
Unknown == [ok |-> FALSE]

VARIABLES
    objects,    \* ObjectServer.objects: <<path, interface>> -> its properties
    owner,      \* the process that owns the service's name
    lives,      \* processes so far
    inbox,      \* calls that have reached the service
    socket,     \* daemon -> client, in order
    parked,     \* Connection._parked: signals read while a call waited
    link,       \* the Bus's connection: which one, open or not, owner_generation
    retrying,   \* time.monotonic() < _next_attempt
    presence,      \* _name_cache with its epoch, for the service's name
    bound,      \* sender_unique of the InterfacesAdded/Removed subscriptions
    hears,      \* the signals that the client's match rules have routed to it
    unresolved, \* of Inventory: the subscriptions whose sender_unique is still ""
    subscribed,  \* the facade's _watching has the domain
    waiting,    \* the question Connection.call waits for
    facetView,       \* what the facet read last, with history: from whom, and watched
    dirty,      \* the facade's _dirty has the domain
    silent,     \* history: the slots whose last change no signal announced
    serviceChanges, calls, faults

serviceVars == <<objects, owner, lives, inbox, socket, parked, link, retrying, presence, bound, hears,
          unresolved, subscribed, waiting, facetView, dirty, silent, serviceChanges, calls, faults>>
service == <<objects, owner, lives, silent>>
watch == <<bound, hears, unresolved>>
client == <<parked, link, retrying, presence, watch, subscribed, waiting, facetView, dirty>>
bounds == <<serviceChanges, calls, faults>>

Under(path, prefix) == IsPrefix(prefix, path)
Change == serviceChanges < MaxChanges /\ serviceChanges' = serviceChanges + 1
Fault == faults < MaxFaults /\ faults' = faults + 1

\* The service may have started before the client.
ServiceInit ==
    /\ owner \in {Nobody, 1} /\ lives = owner
    /\ objects = IF owner = Nobody THEN <<>> ELSE Before
    /\ inbox = <<>> /\ socket = <<>> /\ parked = <<>>
    /\ link = [n |-> 1, open |-> TRUE, generation |-> 0]
    /\ retrying = FALSE /\ subscribed = FALSE /\ dirty = FALSE
    /\ presence = Unknown /\ facetView = Unknown
    /\ bound = Unbound /\ hears = {} /\ unresolved = {} /\ waiting = NoQuestion
    /\ silent = {} /\ serviceChanges = 0 /\ calls = 0 /\ faults = 0

-----------------------------------------------------------------------------
(* The daemon: what of the service's messages reaches the client's socket *)

Signal(kind, path) == [kind |-> kind, from |-> owner, path |-> path]
Route(messages) ==
    socket' = IF link.open THEN socket \o Only({"answer"} \cup hears, messages) ELSE socket
OwnerChanged(new) == [kind |-> "owner", new |-> new]

-----------------------------------------------------------------------------
(* ObjectServer *)

\* request_name(): a new process has published nothing yet.
Own ==
    /\ owner = Nobody /\ Change
    /\ lives' = lives + 1 /\ owner' = lives' /\ objects' = <<>> /\ silent' = {}
    /\ Route(<<OwnerChanged(lives')>>)
    /\ UNCHANGED <<inbox, client, calls, faults>>

\* The answer to a question of another connection goes elsewhere.
Reply(q, ok, value) ==
    [kind |-> IF q.link = link.n THEN "answer" ELSE "other", link |-> q.link, serial |-> q.serial,
     ok |-> ok, value |-> value, from |-> owner]
Refused(q) == Reply(q, FALSE, {})

\* The process ends; the daemon fails the calls it has not answered.
Leave ==
    /\ owner # Nobody /\ Change
    /\ owner' = Nobody /\ objects' = <<>> /\ inbox' = <<>> /\ silent' = {}
    /\ Route([i \in DOMAIN inbox |-> Refused(inbox[i])] \o <<OwnerChanged(Nobody)>>)
    /\ UNCHANGED <<lives, client, calls, faults>>

Keep(slots) == [s \in slots |-> objects[s]]

Sendable(values) == values \cap Unsendable = {}
ValuesOf(tree) == UNION {{tree[s][p] : p \in Properties} : s \in DOMAIN tree}

\* A change of `slots` and the signal that goes with it, if the service emits one and
\* what the signal carries can be marshalled: send() raises otherwise, after the change.
Announce(kind, path, slots, emit, carried) ==
    IF emit /\ Sendable(carried)
    THEN Route(<<Signal(kind, path)>>) /\ silent' = silent \ slots
    ELSE socket' = socket /\ silent' = silent \cup slots

\* add() of an interface and emit_interfaces_added(), which carries all of the path.
Publish(path, interface, value) ==
    /\ owner # Nobody /\ Change
    /\ objects' = [s \in DOMAIN objects \cup {<<path, interface>>} |->
                    IF s = <<path, interface>> THEN [p \in Properties |-> value] ELSE objects[s]]
    /\ Announce("added", path, {<<path, interface>>}, TRUE,
                ValuesOf([s \in {s \in DOMAIN objects' : s[1] = path} |-> objects'[s]]))
    /\ UNCHANGED <<owner, lives, inbox, client, calls, faults>>

\* remove() of one interface, or of a whole path, and emit_interfaces_removed().
Withdraw(path, interfaces) ==
    /\ owner # Nobody /\ Change
    /\ \E i \in interfaces : <<path, i>> \in DOMAIN objects
    /\ objects' = Keep(DOMAIN objects \ ({path} \X interfaces))
    /\ Announce("removed", path, {path} \X interfaces, TRUE, {})
    /\ UNCHANGED <<owner, lives, inbox, client, calls, faults>>

\* What set_property() and a client's Set both do before they tell the bus.
Assign(slot, property, value) == objects' = [objects EXCEPT ![slot][property] = value]

SetProperty(slot, property, value, emit) ==
    /\ slot \in DOMAIN objects /\ Change
    /\ Assign(slot, property, value)
    /\ Announce("changed", slot[1], {slot}, emit, {value})
    /\ UNCHANGED <<owner, lives, inbox, client, calls, faults>>

\* GetManagedObjects: every object at the path or below it.
Managed(path) == Keep({s \in DOMAIN objects : Under(s[1], path)})

\* _introspect(): the interfaces at the path and the next names below it.
Introspected(path) ==
    [interfaces |-> {s[2] : s \in {s \in DOMAIN objects : s[1] = path}},
     nodes |-> {s[1][Len(path) + 1] : s \in {s \in DOMAIN objects :
                                             Under(s[1], path) /\ s[1] # path}}]

\* _properties() for GetAll and Get.  GetAll of what is not there is empty, Get an error.
PropertiesAnswer(q, slot) ==
    CASE q.member = "GetAll" ->
            Reply(q, TRUE, IF slot \in DOMAIN objects THEN objects[slot] ELSE <<>>)
      [] q.member = "Get" /\ slot \in DOMAIN objects /\ q.property \in Properties ->
            Reply(q, TRUE, objects[slot][q.property])
      [] OTHER -> Refused(q)

\* _handle() of the members that change nothing; a method's own effect is its service's.
Answer(q) ==
    CASE q.member = "Ping" -> Reply(q, TRUE, {})
      [] q.member = "GetManagedObjects" -> Reply(q, TRUE, Managed(q.path))
      [] q.member = "Introspect" -> Reply(q, TRUE, Introspected(q.path))
      [] q.member \in {"Get", "GetAll"} -> PropertiesAnswer(q, <<q.path, q.interface>>)
      [] q.member = "Method" /\ <<q.path, q.interface>> \in DOMAIN objects -> Reply(q, TRUE, {})
      [] OTHER -> Refused(q)

\* Mutant: a client's Set assigns and answers, and tells nobody else.
ServeSetQuietly(q, slot) ==
    /\ q.member = "Set" /\ slot \in DOMAIN objects /\ q.property \in Properties
    /\ Assign(slot, q.property, q.value)
    /\ Route(<<Reply(q, TRUE, {})>>) /\ UNCHANGED silent
\* _properties() for Set: assign, tell the bus, answer, in this order on one connection.
\* A signal that cannot be marshalled raises, and handle() makes an error reply of it.
ServeSet(q, slot) ==
    /\ q.member = "Set" /\ slot \in DOMAIN objects /\ q.property \in Properties
    /\ Assign(slot, q.property, q.value)
    /\ IF Sendable({q.value})
       THEN Route(<<Signal("changed", q.path), Reply(q, TRUE, {})>>) /\ silent' = silent \ {slot}
       ELSE Route(<<Refused(q)>>) /\ silent' = silent \cup {slot}

\* The values that the answer to a question carries.
Carried(q, slot) ==
    CASE q.member = "GetManagedObjects" -> ValuesOf(Managed(q.path))
      [] q.member = "GetAll" -> ValuesOf(Keep(DOMAIN objects \cap {slot}))
      [] q.member = "Get" /\ slot \in DOMAIN objects /\ q.property \in Properties ->
            {objects[slot][q.property]}
      [] OTHER -> {}

\* A reply that cannot be marshalled raises out of process() and is never sent.
ServeRest(q, slot) ==
    /\ ~(q.member = "Set" /\ slot \in DOMAIN objects /\ q.property \in Properties)
    /\ IF Sendable(Carried(q, slot)) THEN Route(<<Answer(q)>>) ELSE socket' = socket
    /\ UNCHANGED <<objects, silent>>

\* process(): the calls that have arrived, in order.
Process ==
    /\ inbox # <<>>
    /\ LET q == Head(inbox) slot == <<q.path, q.interface>> IN
        ServeSet(q, slot) \/ ServeRest(q, slot)
    /\ inbox' = Tail(inbox)
    /\ UNCHANGED <<owner, lives, client, bounds>>

\* Another client of the service sets a property.
AnotherSets(slot, property, value) ==
    /\ owner # Nobody /\ Change
    /\ inbox' = Append(inbox, [member |-> "Set", path |-> slot[1], interface |-> slot[2],
                               property |-> property, value |-> value, link |-> 0, serial |-> 0,
                               heard |-> FALSE])
    /\ UNCHANGED <<service, socket, client, calls, faults>>

-----------------------------------------------------------------------------
(* Bus *)

\* Mutant: a reconnection empties the memory, an owner change does not.
EpochOfConnection == <<link.n>>
Epoch == <<link.n, link.generation>>

\* The answer of has_service() comes from memory: same epoch, younger than max_age.
Remembered == presence.ok /\ presence.epoch = Epoch /\ presence.fresh

\* has_service() while connected.  What the call reads before its answer is parked.  A
\* question that fails is a no, and remembered like one.
HasService(answer) ==
    IF Remembered
    THEN answer = presence.answer /\ UNCHANGED <<presence, parked, socket, faults>>
    ELSE \E failed \in BOOLEAN :
         /\ IF failed THEN Fault ELSE UNCHANGED faults
         /\ answer = (owner # Nobody /\ ~failed)
         /\ presence' = [ok |-> TRUE, answer |-> answer, epoch |-> Epoch, fresh |-> TRUE,
                         heard |-> "owner" \in hears, failed |-> failed]
         /\ parked' = parked \o Only(Signals, socket)
         /\ socket' = <<>>

\* Five seconds pass.
Expire ==
    /\ presence.ok /\ presence.fresh
    /\ presence' = [presence EXCEPT !.fresh = FALSE]
    /\ UNCHANGED <<service, inbox, socket, parked, link, retrying, watch, subscribed, waiting,
                   facetView, dirty, bounds>>

\* Connection.call sends; the daemon refuses a call to a name nobody owns.
Send(q) ==
    /\ calls < MaxCalls /\ calls' = calls + 1
    /\ waiting' = q
    /\ inbox' = IF owner = Nobody THEN inbox ELSE Append(inbox, q)

\* Every subscription of the facade took, and knows whom it listens to.
Attentive == Signals \subseteq hears /\ unresolved = {}

Question(member, slot, property, value) ==
    [member |-> member, path |-> slot[1], interface |-> slot[2], property |-> property,
     value |-> value, link |-> link.n, serial |-> calls + 1, heard |-> Attentive]

\* Bus.get, get_all, set and call, of a path and interface that may not be published.
Ask(member, slot, property, value) ==
    /\ link.open /\ waiting = NoQuestion
    /\ LET q == Question(member, slot, property, value) IN
        /\ Send(q)
        /\ socket' = IF owner = Nobody THEN Append(socket, Refused(q)) ELSE socket
    /\ UNCHANGED <<service, parked, link, retrying, presence, watch, subscribed, facetView, dirty,
                   serviceChanges, faults>>

Seen(reply) == [ok |-> TRUE, value |-> reply.value, from |-> reply.from, link |-> link.n,
                heard |-> waiting.heard]

\* flush() forgets the mark, then the listener has the facet read: nothing without
\* the service, else GetManagedObjects.
ReadTree ==
    /\ waiting = NoQuestion /\ dirty' = FALSE
    /\ IF ~link.open
       THEN facetView' = Unknown
            /\ UNCHANGED <<presence, parked, socket, inbox, waiting, calls, faults>>
       ELSE \/ /\ HasService(FALSE)
               /\ facetView' = Unknown /\ UNCHANGED <<inbox, waiting, calls>>
            \/ /\ HasService(TRUE)
               /\ LET q == Question("GetManagedObjects", <<Root, "">>, "", "") IN
                  IF owner = Nobody
                  THEN facetView' = Unknown /\ UNCHANGED <<inbox, waiting, calls>>
                  ELSE Send(q) /\ facetView' = facetView
    /\ UNCHANGED <<service, link, retrying, watch, subscribed, serviceChanges>>

\* The reply that call() waits for; signals read before it are parked, other replies dropped.
Answered ==
    \E i \in DOMAIN socket :
        /\ waiting # NoQuestion
        /\ socket[i].kind = "answer" /\ socket[i].serial = waiting.serial
        /\ parked' = parked \o Only(Signals, SubSeq(socket, 1, i - 1))
        /\ socket' = SubSeq(socket, i + 1, Len(socket))
        /\ waiting' = NoQuestion
        /\ facetView' = IF waiting.member # "GetManagedObjects" THEN facetView
                   ELSE IF socket[i].ok THEN Seen(socket[i]) ELSE Unknown
        /\ UNCHANGED <<service, inbox, link, retrying, presence, watch, subscribed, dirty, bounds>>

\* No answer within the timeout: Result.bad, which _tree() reads as an empty tree.
TimedOut ==
    /\ waiting # NoQuestion
    /\ waiting' = NoQuestion
    /\ parked' = parked \o Only(Signals, socket) /\ socket' = <<>>
    /\ facetView' = IF waiting.member = "GetManagedObjects" THEN Unknown ELSE facetView
    /\ UNCHANGED <<service, inbox, link, retrying, presence, watch, subscribed, dirty, bounds>>

-----------------------------------------------------------------------------
(* Subscriptions *)

\* The facade installs a domain's subscriptions once; without a bus they are none.  A
\* subscription whose AddMatch fails is none either, and nobody tries it again; the watch
\* for owners is on when one took that needs it, or when it could not be taken back.  Where
\* GetNameOwner fails the subscription matches no sender.
Watch ==
    /\ ~subscribed /\ waiting = NoQuestion
    /\ subscribed' = TRUE
    /\ IF ~link.open THEN UNCHANGED <<watch, faults>>
       ELSE \E took \in SUBSET Signals :
                /\ took \cap Inventory # {} => "owner" \in took
                /\ hears' = took
                /\ unresolved' \in SUBSET (took \cap Inventory)
                /\ bound' = IF "owner" \in took THEN owner ELSE Unbound
                /\ IF took = Signals /\ unresolved' = {} THEN UNCHANGED faults ELSE Fault
    /\ UNCHANGED <<service, inbox, socket, parked, link, retrying, presence, waiting, facetView,
                   dirty, serviceChanges, calls>>

\* Connection._deliver: an owner change rebinds and starts a new generation, the
\* callbacks mark the domain.  PropertiesChanged is watched for any sender.
Delivered(state, m) ==
    CASE m.kind = "owner" ->
            [state EXCEPT !.bound = m.new, !.unresolved = {}, !.generation = @ + 1]
      [] m.kind = "changed" -> [state EXCEPT !.dirty = @ \/ Under(m.path, Root)]
      [] OTHER -> [state EXCEPT !.dirty = @ \/ (m.from = state.bound /\ m.kind \notin state.unresolved)]

Pending == Only(Signals, parked \o socket)
\* What dispatch() makes of a state, message by message.
Delivery(state, queue) ==
    LET after[i \in 0 .. Len(queue)] ==
          IF i = 0 THEN state ELSE Delivered(after[i - 1], queue[i])
    IN after[Len(queue)]
Dispatched ==
    Delivery([bound |-> bound, unresolved |-> unresolved, generation |-> link.generation,
              dirty |-> dirty], Pending)

Dispatch ==
    /\ link.open /\ waiting = NoQuestion /\ Pending # <<>>
    /\ bound' = Dispatched.bound /\ unresolved' = Dispatched.unresolved
    /\ dirty' = Dispatched.dirty /\ hears' = hears
    /\ link' = [link EXCEPT !.generation = Dispatched.generation]
    /\ parked' = <<>> /\ socket' = <<>>
    /\ UNCHANGED <<service, inbox, retrying, presence, subscribed, waiting, facetView, bounds>>

-----------------------------------------------------------------------------
(* The connection goes, and Bus.connection makes another *)

Dropped ==
    /\ link.open /\ Fault
    /\ link' = [link EXCEPT !.open = FALSE]
    /\ socket' = <<>> /\ parked' = <<>> /\ waiting' = NoQuestion
    /\ bound' = Unbound /\ hears' = {} /\ unresolved' = {}
    /\ facetView' = IF waiting = NoQuestion \/ waiting.member # "GetManagedObjects" THEN facetView ELSE Unknown
    /\ UNCHANGED <<service, inbox, retrying, presence, subscribed, dirty, serviceChanges, calls>>

Reconnect ==
    /\ ~link.open /\ ~retrying
    /\ \/ /\ link' = [n |-> link.n + 1, open |-> TRUE, generation |-> 0]
          /\ retrying' = FALSE
       \/ retrying' = TRUE /\ link' = link
    /\ UNCHANGED <<service, inbox, socket, parked, presence, watch, subscribed, waiting, facetView, dirty,
                   bounds>>

\* RETRY_AFTER_SECONDS pass.
RetryDue ==
    /\ retrying /\ retrying' = FALSE
    /\ UNCHANGED <<service, inbox, socket, parked, link, presence, watch, subscribed, waiting, facetView,
                   dirty, bounds>>

ServiceNext ==
    \/ Own \/ Leave \/ Process
    \/ \E p \in Paths, i \in Interfaces, v \in PropertyValues : Publish(p, i, v)
    \/ \E p \in Paths : Withdraw(p, Interfaces) \/ \E i \in Interfaces : Withdraw(p, {i})
    \/ \E s \in DOMAIN objects, p \in Properties, v \in PropertyValues :
            AnotherSets(s, p, v) \/ \E emit \in BOOLEAN : SetProperty(s, p, v, emit)
    \/ \E a \in Questions : Ask(a[1], <<a[2], a[3]>>, a[4], a[5])
    \/ Expire \/ ReadTree \/ Answered \/ TimedOut \/ Watch \/ Dispatch
    \/ Dropped \/ Reconnect \/ RetryDue

ServiceSpec == ServiceInit /\ [][ServiceNext]_serviceVars

-----------------------------------------------------------------------------
\* has_service() answers from memory for up to five seconds.  Once the owner watch
\* has been on, and every owner change it was told of has been dispatched, such an
\* answer is what the daemon would say, reconnections included; but for a no that was
\* remembered because the question itself failed.
RememberedIsTrue ==
    link.open /\ Remembered /\ presence.heard /\ ~(\E i \in DOMAIN Pending : Pending[i].kind = "owner")
        => \/ presence.answer = (owner # Nobody)
           \/ ~presence.answer /\ presence.failed

\* What a tree holds below Root, but for the slots whose last change went unsaid.
Told(tree, unsaid) == [s \in {s \in DOMAIN tree \ unsaid : Under(s[1], Root)} |-> tree[s]]

\* What a facet read of the present process, over the present connection and with its
\* subscriptions on, is what the service publishes now, or the domain is marked for
\* a new reading, or a signal that will mark it is on its way or parked; but for the
\* changes that no signal announced.
ChangeIsTold ==
    /\ facetView.ok /\ facetView.heard /\ facetView.from = owner /\ owner # Nobody
    /\ link.open /\ facetView.link = link.n
    /\ waiting.member # "GetManagedObjects"
    => Told(facetView.value, silent) = Told(Managed(Root), silent) \/ Dispatched.dirty
===============================================================================
