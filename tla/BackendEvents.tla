----------------------------- MODULE BackendEvents -----------------------------
(***************************************************************************)
(* How a change of a system service becomes a new reading in the tray:     *)
(* ZaldrosBackend (facade.py), BackendBridge (qtbridge.py) and SystemState *)
(* (zaldros_shell/model.py), over the two Bus objects (bus.py).            *)
(*                                                                         *)
(* Everything runs on the GUI thread.  "todo" is the rest of the slot that *)
(* is running: each item is one synchronous D-Bus exchange, so services    *)
(* change between any two of them.  A connection is its set of match rules *)
(* and the domains whose signals wait in its socket or were parked by a    *)
(* call; what happens inside one exchange is BusConnection's subject.      *)
(***************************************************************************)
EXTENDS Integers, Sequences, FiniteSets

CONSTANTS
    Buses,        \* {system_bus, session_bus}
    Domains,      \* the domains of the facade that signal their changes
    BusOf,        \* domain -> the bus its service lives on
    Tray,         \* the domains tray() reads, in its order
    Watched,      \* the facade's DOMAINS in order: how BackendBridge subscribes
    Wanted,       \* the domains that make SystemState refresh
    MaxChanges,   \* bound: changes of service state
    MaxRestarts   \* bound: restarts of a bus daemon

SeqRange(s) == {s[i] : i \in DOMAIN s}

ASSUME DomainsAssumption ==
    /\ BusOf \in [Domains -> Buses]
    /\ Tray \in Seq(Domains) /\ Watched \in Seq(Domains)
    /\ Wanted \subseteq SeqRange(Tray) \cap SeqRange(Watched)
    /\ MaxChanges \in Nat /\ MaxRestarts \in Nat

VARIABLES
    state,      \* external: the state of each domain's service, a version number
    daemon,     \* external: bus -> its daemon runs
    link,       \* bus -> "live", "dead" (the daemon has gone, not noticed), "none"
    rules,      \* bus -> domains whose match rules the present connection holds
    socket,     \* bus -> domains with a signal in the kernel's socket buffer
    parked,     \* bus -> domains with a signal read during a call, not dispatched
    notifier,   \* bus -> a QSocketNotifier watches the present socket
    dirty,      \* _dirty
    timer,      \* the coalescing timer is running
    shown,      \* _readings: domain -> version, 0 when unavailable
    todo,       \* what is left of the running slot
    changes, restarts,  \* for the bounds
    watchedAt   \* history: domain -> its version when its rule was installed

env  == <<state, daemon, changes, restarts>>
gui  == <<dirty, timer, shown>>
vars == <<state, daemon, link, rules, socket, parked, notifier, dirty, timer, shown, todo,
          changes, restarts, watchedAt>>

\* A reading that is missing.
Unavailable == 0

Reads(domains) == [i \in DOMAIN domains |-> [do |-> "read", domain |-> domains[i]]]
Watches(domains) == [i \in DOMAIN domains |-> [do |-> "watch", domain |-> domains[i]]]

\* snapshot(): one tray() reads every domain once.
Snapshot == Reads(Tray)

\* n refreshes in a row
Snapshots(n) == [i \in 1..(n * Len(Tray)) |-> Snapshot[((i - 1) % Len(Tray)) + 1]]

-----------------------------------------------------------------------------
(* One synchronous exchange on a bus *)

\* Mutant: a call throws away the signals it reads.
ExchangeDrops(b) ==
    /\ socket' = [socket EXCEPT ![b] = {}]
    /\ UNCHANGED <<parked, link, rules, notifier>>

\* A call on a live connection reads all that precedes its reply and parks the signals.
Exchange(b) ==
    /\ socket' = [socket EXCEPT ![b] = {}]
    /\ parked' = [parked EXCEPT ![b] = @ \cup socket[b]]
    /\ UNCHANGED <<link, rules, notifier>>

\* A call that meets the end of a dead connection closes it: signals, rules and
\* the notifier of that socket are gone.
Closed(b) ==
    /\ link' = [link EXCEPT ![b] = "none"]
    /\ rules' = [rules EXCEPT ![b] = {}]
    /\ socket' = [socket EXCEPT ![b] = {}]
    /\ parked' = [parked EXCEPT ![b] = {}]
    /\ notifier' = [notifier EXCEPT ![b] = FALSE]

\* Bus.connection: a new connection, without rules and not watched.
Reconnect(b) ==
    /\ link[b] = "none" /\ daemon[b]
    /\ link' = [link EXCEPT ![b] = "live"]
    /\ UNCHANGED <<rules, socket, parked, notifier>>

\* The reading of one domain; within RETRY_AFTER_SECONDS of a failure no
\* connection is tried.
Read(d) ==
    LET b == BusOf[d] IN
    /\ \/ /\ link[b] = "live" /\ Exchange(b)
          /\ shown' = [shown EXCEPT ![d] = state[d]]
       \/ /\ link[b] = "dead" /\ Closed(b)
          /\ shown' = [shown EXCEPT ![d] = Unavailable]
       \/ /\ Reconnect(b)
          /\ shown' = [shown EXCEPT ![d] = state[d]]
       \/ /\ link[b] = "none"
          /\ shown' = [shown EXCEPT ![d] = Unavailable]
          /\ UNCHANGED <<link, rules, socket, parked, notifier>>
    /\ UNCHANGED watchedAt

\* subscribe(): the first subscriber installs the match rules of the domain,
\* once.  The rules of one domain are one rule here.
Watch(d) ==
    LET b == BusOf[d]
        Installed == /\ rules' = [rules EXCEPT ![b] = @ \cup {d}]
                     /\ watchedAt' = [watchedAt EXCEPT ![d] = state[d]]
    IN
    /\ \/ /\ link[b] = "live" /\ Installed
          /\ socket' = [socket EXCEPT ![b] = {}]
          /\ parked' = [parked EXCEPT ![b] = @ \cup socket[b]]
          /\ UNCHANGED <<link, notifier>>
       \/ /\ link[b] = "dead" /\ Closed(b)
          /\ UNCHANGED watchedAt
       \/ /\ link[b] = "none" /\ daemon[b] /\ Installed
          /\ link' = [link EXCEPT ![b] = "live"]
          /\ UNCHANGED <<socket, parked, notifier>>
       \/ /\ link[b] = "none"
          /\ UNCHANGED <<link, rules, socket, parked, notifier, watchedAt>>
    /\ UNCHANGED shown

\* attach(): fileno() asks for a connection, so some buses connect again.
Attach ==
    /\ \E again \in SUBSET {b \in Buses : link[b] = "none" /\ daemon[b]} :
         link' = [b \in Buses |-> IF b \in again THEN "live" ELSE link[b]]
    /\ notifier' = [b \in Buses |-> link'[b] # "none"]
    /\ UNCHANGED <<rules, socket, parked, shown, watchedAt>>

\* The GUI thread goes on with the slot it is in.
Work ==
    /\ todo # <<>>
    /\ todo' = Tail(todo)
    /\ LET item == Head(todo) IN
         \/ item.do = "read" /\ Read(item.domain)
         \/ item.do = "watch" /\ Watch(item.domain)
         \/ item.do = "attach" /\ Attach
    /\ UNCHANGED <<env, dirty, timer>>

-----------------------------------------------------------------------------
(* The event loop *)

Arrived == UNION {socket[b] \cup parked[b] : b \in {c \in Buses : link[c] # "none"}}

\* Mutant: the timer is left to whoever marks a domain by hand.
ReadableQuietly(b) ==
    /\ todo = <<>>
    /\ notifier[b] /\ (socket[b] # {} \/ link[b] = "dead")
    /\ dirty' = dirty \cup Arrived
    /\ parked' = [c \in Buses |-> {}] /\ socket' = [c \in Buses |-> {}]
    /\ link' = [c \in Buses |-> IF link[c] = "dead" THEN "none" ELSE link[c]]
    /\ rules' = [c \in Buses |-> IF link[c] = "live" THEN rules[c] ELSE {}]
    /\ notifier' = [c \in Buses |-> link[c] = "live" /\ notifier[c]]
    /\ UNCHANGED <<env, timer, shown, todo, watchedAt>>

\* _readable: dispatch() on both buses, first what was parked; the handlers
\* mark their domains.  The end of a dead connection closes it.
Readable(b) ==
    /\ todo = <<>>
    /\ notifier[b] /\ (socket[b] # {} \/ link[b] = "dead")
    /\ dirty' = dirty \cup Arrived
    /\ timer' = (timer \/ dirty' # {})
    /\ parked' = [c \in Buses |-> {}] /\ socket' = [c \in Buses |-> {}]
    /\ link' = [c \in Buses |-> IF link[c] = "dead" THEN "none" ELSE link[c]]
    /\ rules' = [c \in Buses |-> IF link[c] = "live" THEN rules[c] ELSE {}]
    /\ notifier' = [c \in Buses |-> link[c] = "live" /\ notifier[c]]
    /\ UNCHANGED <<env, shown, todo, watchedAt>>

\* _flush: the listeners of every dirty domain are BackendBridge._mark, which
\* starts the timer again; then changed(domain) makes SystemState refresh once
\* for every wanted domain.
Flush ==
    /\ todo = <<>> /\ timer
    /\ dirty' = {} /\ timer' = (dirty # {})
    /\ todo' = Snapshots(Cardinality(dirty \cap Wanted))
    /\ UNCHANGED <<env, link, rules, socket, parked, notifier, shown, watchedAt>>

\* A tile is clicked: the action ends with refresh().
UserRefreshes ==
    /\ todo = <<>>
    /\ todo' = Snapshot
    /\ UNCHANGED <<env, link, rules, socket, parked, notifier, gui, watchedAt>>

-----------------------------------------------------------------------------
(* The services and the bus daemons (external) *)

Change(d) ==
    /\ changes < MaxChanges /\ changes' = changes + 1
    /\ daemon[BusOf[d]]
    /\ state' = [state EXCEPT ![d] = @ + 1]
    /\ socket' = [b \in Buses |-> IF d \in rules[b] /\ link[b] = "live"
                                  THEN socket[b] \cup {d} ELSE socket[b]]
    /\ UNCHANGED <<daemon, restarts, link, rules, parked, notifier, gui, todo, watchedAt>>

DaemonStops(b) ==
    /\ daemon[b] /\ restarts < MaxRestarts /\ restarts' = restarts + 1
    /\ daemon' = [daemon EXCEPT ![b] = FALSE]
    /\ link' = [link EXCEPT ![b] = IF @ = "live" THEN "dead" ELSE @]
    /\ UNCHANGED <<state, changes, rules, socket, parked, notifier, gui, todo, watchedAt>>

DaemonStarts(b) ==
    /\ ~daemon[b]
    /\ daemon' = [daemon EXCEPT ![b] = TRUE]
    /\ UNCHANGED <<state, changes, restarts, link, rules, socket, parked, notifier, gui, todo,
                   watchedAt>>

-----------------------------------------------------------------------------
\* SystemState() takes its first snapshot, then the bridge subscribes to every
\* domain, then it attaches the notifiers.
Init ==
    /\ state = [d \in Domains |-> 1]
    /\ daemon = [b \in Buses |-> TRUE] /\ link = [b \in Buses |-> "live"]
    /\ rules = [b \in Buses |-> {}]
    /\ socket = [b \in Buses |-> {}] /\ parked = [b \in Buses |-> {}]
    /\ notifier = [b \in Buses |-> FALSE]
    /\ dirty = {} /\ timer = FALSE
    /\ shown = [d \in Domains |-> Unavailable]
    /\ todo = Snapshot \o Watches(Watched) \o <<[do |-> "attach"]>>
    /\ changes = 0 /\ restarts = 0
    /\ watchedAt = [d \in Domains |-> 0]

Next ==
    \/ Work \/ Flush \/ UserRefreshes
    \/ \E b \in Buses : Readable(b) \/ DaemonStops(b) \/ DaemonStarts(b)
    \/ \E d \in Domains : Change(d)

Spec == Init /\ [][Next]_vars

\* The event loop is never blocked for good: every exchange has a timeout, an
\* active notifier and a running timer are served.
FairSpec ==
    /\ Spec
    /\ WF_vars(Work) /\ WF_vars(Flush) /\ \A b \in Buses : WF_vars(Readable(b))

-----------------------------------------------------------------------------
(* Properties *)

\* The change of d is announced, or about to be read again.
OnItsWay(d) ==
    \/ d \in dirty
    \/ d \in socket[BusOf[d]] \cup parked[BusOf[d]]
    \/ \E i \in DOMAIN todo : todo[i] = [do |-> "read", domain |-> d]

\* A change that happened while its rule was installed is shown or on its way:
\* none is lost between the socket, the calls that park signals, the set of
\* dirty domains, the timer and the refresh (_readable, flush, SystemState).
ChangeNotLost ==
    \A d \in Wanted :
        (/\ d \in rules[BusOf[d]] /\ link[BusOf[d]] = "live"
         /\ state[d] > watchedAt[d] /\ shown[d] # state[d])
            => OnItsWay(d)

\* Every change that dispatch() has seen makes the tray read that domain again,
\* however many bursts, refreshes and restarts come in between (_mark, _flush).
DirtyIsRead ==
    \A d \in Wanted : d \in dirty ~> \E i \in DOMAIN todo : todo[i] = [do |-> "read", domain |-> d]

\* SystemState: "The tray used to freeze at its start-up values; now it does
\* not": while nothing was lost to a restart, a reading that is out of date is
\* about to be replaced.
TrayNotFrozen ==
    \A d \in Wanted :
        (d \in rules[BusOf[d]] /\ link[BusOf[d]] = "live" /\ shown[d] # state[d]) => OnItsWay(d)

\* "Nothing polls.  Each facet subscribes to the signals its service already
\* emits, the facade coalesces the burst, and the UI is told once"
\* (backend/README.md): a change whose signal the process has received gets to
\* the tray.
ReceivedIsShown ==
    \A d \in Wanted :
        (d \in parked[BusOf[d]] /\ shown[d] # state[d]) ~> (shown[d] = state[d])
=============================================================================
