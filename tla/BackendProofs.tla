------------------------------ MODULE BackendProofs ------------------------------
(***************************************************************************)
(* Proofs about what the backend keeps for the shell, for every value of   *)
(* the constants: no change of a service is lost on its way to the tray,   *)
(* what becomes of the shells and ptys of Zaldros Terminal, what its       *)
(* screen holds, what its characters look like, and how its parser takes   *)
(* a stream that is cut into reads.  The five share no state.              *)
(***************************************************************************)
EXTENDS BackendEvents, TerminalSessions, TerminalScreen, TerminalStyle, TerminalFeed,
        QueueProofs, FiniteSetTheorems, SequenceTheorems, TLAPS

-----------------------------------------------------------------------------
(* No change is lost between a service and the tray, for any buses, domains,  *)
(* orders of subscription and numbers of changes and bus restarts.            *)

Items == [do : {"read", "watch"}, domain : Domains] \cup [do : {"attach"}]

ReadOf(d) == [do |-> "read", domain |-> d]

EventTypes ==
    /\ state \in [Domains -> Nat] /\ shown \in [Domains -> Nat]
    /\ watchedAt \in [Domains -> Nat]
    /\ link \in [Buses -> {"live", "dead", "none"}]
    /\ rules \in [Buses -> SUBSET Domains]
    /\ socket \in [Buses -> SUBSET Domains] /\ parked \in [Buses -> SUBSET Domains]
    /\ todo \in Seq(Items)

(* A new connection starts without rules, because a closed one kept none.    *)
ClosedHoldsNoRules == \A b \in Buses : link[b] = "none" => rules[b] = {}

EventInv == EventTypes /\ ClosedHoldsNoRules /\ ChangeNotLost

-----------------------------------------------------------------------------
(* What the slots put in todo *)

LEMMA WantedAreDomains ==
    /\ Wanted \subseteq Domains
    /\ \A d \in Wanted : BusOf[d] \in Buses /\ \E k \in 1..Len(Tray) : Tray[k] = d
BY DomainsAssumption DEF SeqRange

LEMMA WantedIsFinite == IsFiniteSet(Wanted)
<1>1. DOMAIN Tray = 1..Len(Tray) /\ Len(Tray) \in Nat  BY DomainsAssumption
<1>2. IsFiniteSet(1..Len(Tray))  BY <1>1, FS_Interval
<1>3. Tray \in Surjection(1..Len(Tray), SeqRange(Tray))
  BY <1>1, DomainsAssumption DEF Surjection, SeqRange
<1>4. IsFiniteSet(SeqRange(Tray))  BY <1>2, <1>3, FS_Surjection
<1> QED  BY <1>4, FS_Subset, DomainsAssumption

LEMMA SnapshotIsASeq ==
    /\ Snapshot \in Seq(Items) /\ Len(Snapshot) = Len(Tray)
    /\ \A k \in 1..Len(Tray) : Snapshot[k] = ReadOf(Tray[k])
<1>1. Tray \in Seq(Domains) /\ DOMAIN Tray = 1..Len(Tray) /\ Len(Tray) \in Nat
  BY DomainsAssumption
<1>2. \A k \in 1..Len(Tray) : ReadOf(Tray[k]) \in Items  BY <1>1 DEF ReadOf, Items
<1>3. Snapshot = [k \in 1..Len(Tray) |-> ReadOf(Tray[k])]
  BY <1>1 DEF Snapshot, Reads, ReadOf
<1> QED  BY <1>1, <1>2, <1>3

(* A snapshot reads every domain of the tray, in as many rounds as asked.    *)
LEMMA SnapshotsReadAll ==
    ASSUME NEW n \in Nat
    PROVE  /\ Snapshots(n) \in Seq(Items)
           /\ n > 0 => \A d \in Wanted : \E k \in DOMAIN Snapshots(n) : Snapshots(n)[k] = ReadOf(d)
<1> DEFINE L == Len(Tray)
           Round(i) == ((i - 1) % L) + 1
<1>1. L \in Nat /\ n * L \in Nat  BY DomainsAssumption
<1>2. ASSUME NEW i \in 1..(n * L) PROVE Round(i) \in 1..L
  <2>1. L > 0  BY <1>1
  <2> QED  BY <2>1, <1>1
<1>3. Snapshots(n) = [i \in 1..(n * L) |-> Snapshot[Round(i)]]  BY SnapshotIsASeq DEF Snapshots
<1>4. \A i \in 1..(n * L) : Snapshot[Round(i)] \in Items  BY <1>2, SnapshotIsASeq
<1>5. Snapshots(n) \in Seq(Items)
  <2> HIDE DEF Round
  <2> QED  BY <1>1, <1>3, <1>4
<1>6. ASSUME n > 0, NEW d \in Wanted
      PROVE  \E k \in DOMAIN Snapshots(n) : Snapshots(n)[k] = ReadOf(d)
  <2>1. PICK k \in 1..L : Tray[k] = d  BY WantedAreDomains
  <2>2. k \in 1..(n * L)  BY <1>1, <1>6
  <2>3. Round(k) = k  BY <1>1
  <2> QED  BY <1>3, <2>1, <2>2, <2>3, SnapshotIsASeq
<1> QED  BY <1>5, <1>6

LEMMA WatchesAreItems == Watches(Watched) \in Seq(Items)
<1>1. Watched \in Seq(Domains)  BY DomainsAssumption
<1>2. \A k \in DOMAIN Watched : [do |-> "watch", domain |-> Watched[k]] \in Items
  BY <1>1 DEF Items
<1> QED  BY <1>1, <1>2 DEF Watches
-----------------------------------------------------------------------------
(* The actions *)

LEMMA InitEvents == Init => EventInv
<1> SUFFICES ASSUME Init PROVE EventInv  OBVIOUS
<1>1. Domains # {} => BusOf \in [Domains -> Buses]  BY DomainsAssumption
<1>2. <<[do |-> "attach"]>> \in Seq(Items)  BY DEF Items
<1>3. todo \in Seq(Items)
  <2>1. Snapshot \o Watches(Watched) \in Seq(Items)  BY SnapshotIsASeq, WatchesAreItems
  <2> QED  BY <1>2, <2>1 DEF Init
<1>4. EventTypes  BY <1>3 DEF Init, EventTypes, Unavailable
<1>5. ClosedHoldsNoRules  BY DEF Init, ClosedHoldsNoRules
<1>6. ChangeNotLost  BY WantedAreDomains DEF Init, ChangeNotLost
<1> QED  BY <1>4, <1>5, <1>6 DEF EventInv

(* The item at hand leaves todo, and only it. *)
LEMMA TodoTail ==
    ASSUME todo \in Seq(Items), todo # <<>>
    PROVE  /\ Head(todo) \in Items /\ Tail(todo) \in Seq(Items)
           /\ \A x : (\E i \in DOMAIN todo : todo[i] = x) /\ Head(todo) # x
                        => \E i \in DOMAIN Tail(todo) : Tail(todo)[i] = x
<1>1. /\ Head(todo) \in Items /\ Tail(todo) \in Seq(Items) /\ Head(todo) = todo[1]
      /\ Len(Tail(todo)) = Len(todo) - 1 /\ Len(todo) \in Nat
      /\ \A i \in 1..Len(Tail(todo)) : Tail(todo)[i] = todo[i + 1]
  BY HeadTailProperties, LenProperties
<1>2. DOMAIN todo = 1..Len(todo) /\ DOMAIN Tail(todo) = 1..Len(Tail(todo))  BY <1>1
<1>3. ASSUME NEW x, NEW i \in DOMAIN todo, todo[i] = x, Head(todo) # x
      PROVE  \E j \in DOMAIN Tail(todo) : Tail(todo)[j] = x
  <2>1. i # 1  BY <1>1, <1>3
  <2>2. i - 1 \in 1..Len(Tail(todo)) /\ (i - 1) + 1 = i  BY <1>1, <1>2, <2>1
  <2> QED  BY <1>1, <1>2, <1>3, <2>2
<1> QED  BY <1>1, <1>3

LEMMA ReadKeeps ==
    ASSUME EventInv, todo # <<>>, todo' = Tail(todo), NEW d0 \in Domains,
           Head(todo) = ReadOf(d0), Read(d0), UNCHANGED <<env, dirty, timer>>
    PROVE  EventInv'
<1> DEFINE b0 == BusOf[d0]
<1>1. b0 \in Buses /\ EventTypes /\ UNCHANGED <<state, dirty, watchedAt>>
  BY DomainsAssumption DEF EventInv, Read, env
<1>2. todo' \in Seq(Items)  BY <1>1, TodoTail DEF EventTypes
<1>3. /\ EventTypes' /\ ClosedHoldsNoRules'
      /\ \A b \in Buses : rules'[b] = {} \/ rules'[b] = rules[b]
  <2>1. CASE link[b0] = "live" /\ Exchange(b0) /\ shown' = [shown EXCEPT ![d0] = state[d0]]
    BY <1>1, <1>2, <2>1 DEF Exchange, EventTypes, EventInv, ClosedHoldsNoRules
  <2>2. CASE link[b0] = "dead" /\ Closed(b0) /\ shown' = [shown EXCEPT ![d0] = Unavailable]
    BY <1>1, <1>2, <2>2 DEF Closed, Unavailable, EventTypes, EventInv, ClosedHoldsNoRules
  <2>3. CASE Reconnect(b0) /\ shown' = [shown EXCEPT ![d0] = state[d0]]
    BY <1>1, <1>2, <2>3 DEF Reconnect, EventTypes, EventInv, ClosedHoldsNoRules
  <2>4. CASE /\ link[b0] = "none" /\ shown' = [shown EXCEPT ![d0] = Unavailable]
             /\ UNCHANGED <<link, rules, socket, parked, notifier>>
    BY <1>1, <1>2, <2>4 DEF Unavailable, EventTypes, EventInv, ClosedHoldsNoRules
  <2> QED  BY <2>1, <2>2, <2>3, <2>4 DEF Read
<1>4. ASSUME NEW d \in Wanted, d \in rules'[BusOf[d]], link'[BusOf[d]] = "live",
             state[d] > watchedAt[d], shown'[d] # state[d]
      PROVE  OnItsWay(d)'
  <2> DEFINE b == BusOf[d]
  <2>1. b \in Buses /\ d \in Domains  BY WantedAreDomains
  <2>2. d \in rules[b] /\ link[b] = "live"
    BY <1>1, <1>4, <2>1, ZenonT(60) DEF Read, Exchange, Closed, Reconnect, EventTypes, EventInv, ClosedHoldsNoRules
  <2>3. d # d0 /\ shown'[d] = shown[d]
    BY <1>1, <1>4, <2>1, <2>2 DEF Read, Closed, Reconnect, EventTypes
  <2>4. socket'[b] \cup parked'[b] = socket[b] \cup parked[b]
    <3>1. CASE b = b0
      <4>1. Exchange(b)  BY <1>4, <2>2, <3>1 DEF Read, Reconnect
      <4> QED  BY <1>1, <2>1, <4>1 DEF Exchange, EventTypes
    <3>2. CASE b # b0
      BY <1>1, <2>1, <3>2 DEF Read, Exchange, Closed, Reconnect, EventTypes
    <3> QED  BY <3>1, <3>2
  <2>5. OnItsWay(d)  BY <1>1, <1>4, <2>2, <2>3 DEF EventInv, ChangeNotLost
  <2>6. Head(todo) # ReadOf(d)  BY <2>3 DEF ReadOf
  <2> QED  BY <1>1, <2>4, <2>5, <2>6, TodoTail DEF OnItsWay, EventTypes, ReadOf
<1> QED  BY <1>1, <1>3, <1>4 DEF EventInv, ChangeNotLost

LEMMA WatchKeeps ==
    ASSUME EventInv, todo # <<>>, todo' = Tail(todo), NEW d0 \in Domains,
           Head(todo) = [do |-> "watch", domain |-> d0], Watch(d0), UNCHANGED <<env, dirty, timer>>
    PROVE  EventInv'
<1> DEFINE b0 == BusOf[d0]
           Installed == /\ rules' = [rules EXCEPT ![b0] = @ \cup {d0}]
                        /\ watchedAt' = [watchedAt EXCEPT ![d0] = state[d0]]
<1>1. b0 \in Buses /\ EventTypes /\ UNCHANGED <<state, dirty, shown>>
  BY DomainsAssumption DEF EventInv, Watch, env
<1>2. todo' \in Seq(Items)  BY <1>1, TodoTail DEF EventTypes
<1>3. \/ /\ link[b0] = "live" /\ Installed /\ UNCHANGED <<link, notifier>>
         /\ socket' = [socket EXCEPT ![b0] = {}]
         /\ parked' = [parked EXCEPT ![b0] = @ \cup socket[b0]]
      \/ link[b0] = "dead" /\ Closed(b0) /\ UNCHANGED watchedAt
      \/ /\ link[b0] = "none" /\ Installed /\ link' = [link EXCEPT ![b0] = "live"]
         /\ UNCHANGED <<socket, parked, notifier>>
      \/ link[b0] = "none" /\ UNCHANGED <<link, rules, socket, parked, notifier, watchedAt>>
  BY DEF Watch
<1>4. EventTypes'
  <2>1. CASE /\ link[b0] = "live" /\ Installed /\ UNCHANGED <<link, notifier>>
             /\ socket' = [socket EXCEPT ![b0] = {}]
             /\ parked' = [parked EXCEPT ![b0] = @ \cup socket[b0]]
    BY <1>1, <1>2, <2>1 DEF EventTypes
  <2>2. CASE link[b0] = "dead" /\ Closed(b0) /\ UNCHANGED watchedAt
    BY <1>1, <1>2, <2>2 DEF EventTypes, Closed
  <2>3. CASE /\ link[b0] = "none" /\ Installed /\ link' = [link EXCEPT ![b0] = "live"]
             /\ UNCHANGED <<socket, parked, notifier>>
    BY <1>1, <1>2, <2>3 DEF EventTypes
  <2>4. CASE link[b0] = "none" /\ UNCHANGED <<link, rules, socket, parked, notifier, watchedAt>>
    BY <1>1, <1>2, <2>4 DEF EventTypes
  <2> QED  BY <1>3, <2>1, <2>2, <2>3, <2>4
<1>5. ClosedHoldsNoRules'
  BY <1>1, <1>3 DEF EventTypes, Closed, EventInv, ClosedHoldsNoRules
<1>6. ASSUME NEW d \in Wanted, d \in rules'[BusOf[d]], link'[BusOf[d]] = "live",
             state[d] > watchedAt'[d], shown[d] # state[d]
      PROVE  OnItsWay(d)'
  <2> DEFINE b == BusOf[d]
  <2>1. b \in Buses /\ d \in Domains  BY WantedAreDomains
  <2>2. watchedAt'[d] = watchedAt[d]
    BY <1>1, <1>3, <1>6, <2>1 DEF EventTypes
  <2>3. d \in rules[b] /\ link[b] = "live"
    <3>1. CASE d = d0
      <4>1. ~Installed  BY <1>1, <1>6, <2>1, <3>1 DEF EventTypes
      <4> QED  BY <1>1, <1>3, <1>6, <2>1, <3>1, <4>1 DEF Closed, EventTypes, EventInv, ClosedHoldsNoRules
    <3>2. CASE d # d0
      BY <1>1, <1>3, <1>6, <2>1, <3>2 DEF Closed, EventTypes, EventInv, ClosedHoldsNoRules
    <3> QED  BY <3>1, <3>2
  <2>4. socket'[b] \cup parked'[b] = socket[b] \cup parked[b]
    BY <1>1, <1>3, <2>1, <2>3, SMTT(60) DEF Closed, EventTypes
  <2>5. OnItsWay(d)  BY <1>1, <1>6, <2>2, <2>3 DEF EventInv, ChangeNotLost
  <2>6. Head(todo) # ReadOf(d)  BY DEF ReadOf
  <2> QED  BY <1>1, <2>4, <2>5, <2>6, TodoTail DEF OnItsWay, EventTypes, ReadOf
<1> QED  BY <1>1, <1>4, <1>5, <1>6 DEF EventInv, ChangeNotLost

LEMMA AttachKeeps ==
    ASSUME EventInv, todo # <<>>, todo' = Tail(todo), Head(todo) = [do |-> "attach"],
           Attach, UNCHANGED <<env, dirty, timer>>
    PROVE  EventInv'
<1>1. EventTypes /\ UNCHANGED <<state, dirty, shown, watchedAt, rules, socket, parked>>
  BY DEF EventInv, Attach, env
<1>2. todo' \in Seq(Items)  BY <1>1, TodoTail DEF EventTypes
<1>3. /\ link' \in [Buses -> {"live", "dead", "none"}]
      /\ \A b \in Buses : link'[b] # link[b] => link[b] = "none"
  <2>1. PICK again \in SUBSET {b \in Buses : link[b] = "none" /\ daemon[b]} :
          link' = [b \in Buses |-> IF b \in again THEN "live" ELSE link[b]]
    BY DEF Attach
  <2> QED  BY <1>1, <2>1 DEF EventTypes
<1>4. EventTypes' /\ ClosedHoldsNoRules'
  BY <1>1, <1>2, <1>3 DEF EventTypes, EventInv, ClosedHoldsNoRules
<1>5. ASSUME NEW d \in Wanted, d \in rules[BusOf[d]], link'[BusOf[d]] = "live",
             state[d] > watchedAt[d], shown[d] # state[d]
      PROVE  OnItsWay(d)'
  <2>1. OnItsWay(d)
    BY <1>3, <1>5, WantedAreDomains DEF EventInv, ChangeNotLost, ClosedHoldsNoRules
  <2>2. Head(todo) # ReadOf(d)
    <3>1. "domain" \in DOMAIN ReadOf(d) /\ "domain" \notin DOMAIN Head(todo)  BY DEF ReadOf
    <3> QED  BY <3>1
  <2> QED  BY <1>1, <2>1, <2>2, TodoTail DEF OnItsWay, EventTypes, ReadOf
<1> QED  BY <1>1, <1>4, <1>5 DEF EventInv, ChangeNotLost

LEMMA WorkKeeps == ASSUME EventInv, Work PROVE EventInv'
<1>1. /\ todo # <<>> /\ todo' = Tail(todo) /\ UNCHANGED <<env, dirty, timer>>
      /\ todo \in Seq(Items)
  BY DEF Work, EventInv, EventTypes
<1>2. Head(todo) \in Items  BY <1>1, TodoTail
<1>3. CASE Head(todo).do = "read" /\ Read(Head(todo).domain)
  <2>1. PICK d \in Domains : Head(todo) = ReadOf(d)  BY <1>2, <1>3 DEF Items, ReadOf
  <2>2. Head(todo).domain = d  BY <2>1 DEF ReadOf
  <2> QED  BY <1>1, <1>3, <2>1, <2>2, ReadKeeps
<1>4. CASE Head(todo).do = "watch" /\ Watch(Head(todo).domain)
  <2>1. PICK d \in Domains : Head(todo) = [do |-> "watch", domain |-> d]  BY <1>2, <1>4 DEF Items
  <2>2. Head(todo).domain = d  BY <2>1
  <2> QED  BY <1>1, <1>4, <2>1, <2>2, WatchKeeps
<1>5. CASE Head(todo).do = "attach" /\ Attach
  <2>1. Head(todo) = [do |-> "attach"]  BY <1>2, <1>5 DEF Items
  <2> QED  BY <1>1, <1>5, <2>1, AttachKeeps
<1> QED  BY <1>3, <1>4, <1>5 DEF Work

(* Dispatching empties both buses into the dirty domains. *)
LEMMA ReadableKeeps == ASSUME EventInv, NEW b0 \in Buses, Readable(b0) PROVE EventInv'
<1>1. /\ EventTypes /\ UNCHANGED <<state, shown, todo, watchedAt>>
      /\ dirty' = dirty \cup Arrived
      /\ parked' = [c \in Buses |-> {}] /\ socket' = [c \in Buses |-> {}]
      /\ link' = [c \in Buses |-> IF link[c] = "dead" THEN "none" ELSE link[c]]
      /\ rules' = [c \in Buses |-> IF link[c] = "live" THEN rules[c] ELSE {}]
  BY DEF Readable, EventInv, env
<1>2. EventTypes' /\ ClosedHoldsNoRules'
  BY <1>1 DEF EventTypes, ClosedHoldsNoRules
<1>3. ASSUME NEW d \in Wanted, d \in rules'[BusOf[d]], link'[BusOf[d]] = "live",
             state[d] > watchedAt[d], shown[d] # state[d]
      PROVE  OnItsWay(d)'
  <2>1. BusOf[d] \in Buses  BY WantedAreDomains
  <2>2. d \in rules[BusOf[d]] /\ link[BusOf[d]] = "live"  BY <1>1, <1>3, <2>1
  <2>3. OnItsWay(d)  BY <1>3, <2>2 DEF EventInv, ChangeNotLost
  <2>4. d \in socket[BusOf[d]] \cup parked[BusOf[d]] => d \in Arrived
    BY <2>1, <2>2 DEF Arrived
  <2> QED  BY <1>1, <2>3, <2>4 DEF OnItsWay
<1> QED  BY <1>1, <1>2, <1>3 DEF EventInv, ChangeNotLost

(* A wanted domain leaves the dirty set for a round of readings. *)
LEMMA FlushKeeps == ASSUME EventInv, Flush PROVE EventInv'
<1> DEFINE n == Cardinality(dirty \cap Wanted)
<1>1. /\ EventTypes /\ todo = <<>> /\ todo' = Snapshots(n)
      /\ UNCHANGED <<state, link, rules, socket, parked, shown, watchedAt>>
  BY DEF Flush, EventInv, env
<1>2. IsFiniteSet(dirty \cap Wanted)  BY WantedIsFinite, FS_Subset
<1>3. n \in Nat /\ (dirty \cap Wanted # {} => n > 0)
  BY <1>2, FS_CardinalityType, FS_EmptySet
<1>4. todo' \in Seq(Items)  BY <1>1, <1>3, SnapshotsReadAll
<1>5. EventTypes' /\ ClosedHoldsNoRules'
  BY <1>1, <1>4 DEF EventTypes, EventInv, ClosedHoldsNoRules
<1>6. ASSUME NEW d \in Wanted, OnItsWay(d) PROVE OnItsWay(d)'
  <2>1. CASE d \in dirty
    <3>1. \E k \in DOMAIN todo' : todo'[k] = ReadOf(d)
      BY <1>1, <1>3, <1>6, <2>1, SnapshotsReadAll
    <3> QED  BY <3>1 DEF OnItsWay, ReadOf
  <2>2. CASE d \notin dirty
    <3>1. DOMAIN todo = {}  BY <1>1
    <3> QED  BY <1>1, <1>6, <2>2, <3>1 DEF OnItsWay
  <2> QED  BY <2>1, <2>2
<1> QED  BY <1>1, <1>5, <1>6 DEF EventInv, ChangeNotLost

LEMMA UserRefreshesKeeps == ASSUME EventInv, UserRefreshes PROVE EventInv'
<1>1. /\ EventTypes /\ todo = <<>> /\ todo' = Snapshot
      /\ UNCHANGED <<state, link, rules, socket, parked, shown, watchedAt, dirty>>
  BY DEF UserRefreshes, EventInv, env, gui
<1>2. EventTypes' /\ ClosedHoldsNoRules'
  BY <1>1, SnapshotIsASeq DEF EventTypes, EventInv, ClosedHoldsNoRules
<1>3. DOMAIN todo = {}  BY <1>1
<1>4. \A d \in Wanted : OnItsWay(d) => OnItsWay(d)'  BY <1>1, <1>3 DEF OnItsWay
<1> QED  BY <1>1, <1>2, <1>4 DEF EventInv, ChangeNotLost

(* Whoever holds the rule gets the signal of a change. *)
LEMMA ChangeKeeps == ASSUME EventInv, NEW d0 \in Domains, Change(d0) PROVE EventInv'
<1>1. /\ EventTypes /\ state' = [state EXCEPT ![d0] = @ + 1]
      /\ socket' = [b \in Buses |-> IF d0 \in rules[b] /\ link[b] = "live"
                                    THEN socket[b] \cup {d0} ELSE socket[b]]
      /\ UNCHANGED <<link, rules, parked, dirty, shown, todo, watchedAt>>
  BY DEF Change, EventInv, gui
<1>2. EventTypes' /\ ClosedHoldsNoRules'
  BY <1>1 DEF EventTypes, EventInv, ClosedHoldsNoRules
<1>3. ASSUME NEW d \in Wanted, d \in rules[BusOf[d]], link[BusOf[d]] = "live",
             state'[d] > watchedAt[d], shown[d] # state'[d]
      PROVE  OnItsWay(d)'
  <2>1. BusOf[d] \in Buses /\ d \in Domains  BY WantedAreDomains
  <2>2. CASE d = d0
    BY <1>1, <1>3, <2>1, <2>2 DEF OnItsWay
  <2>3. CASE d # d0
    <3>1. state'[d] = state[d]  BY <1>1, <2>1, <2>3 DEF EventTypes
    <3>2. OnItsWay(d)  BY <1>3, <3>1 DEF EventInv, ChangeNotLost
    <3> QED  BY <1>1, <2>1, <3>2 DEF OnItsWay
  <2> QED  BY <2>2, <2>3
<1> QED  BY <1>1, <1>2, <1>3 DEF EventInv, ChangeNotLost

LEMMA DaemonKeeps ==
    ASSUME EventInv, NEW b0 \in Buses, DaemonStops(b0) \/ DaemonStarts(b0) PROVE EventInv'
<1>1. /\ EventTypes /\ UNCHANGED <<state, rules, socket, parked, gui, todo, watchedAt>>
      /\ \/ link' = [link EXCEPT ![b0] = IF @ = "live" THEN "dead" ELSE @]
         \/ link' = link
  BY DEF DaemonStops, DaemonStarts, EventInv, gui
<1>2. EventTypes' /\ ClosedHoldsNoRules'
  BY <1>1 DEF EventTypes, EventInv, ClosedHoldsNoRules, gui
<1>3. ASSUME NEW d \in Wanted, link'[BusOf[d]] = "live" PROVE link[BusOf[d]] = "live"
  BY <1>1, <1>3, WantedAreDomains DEF EventTypes
<1>4. \A d \in Wanted : OnItsWay(d) => OnItsWay(d)'  BY <1>1 DEF OnItsWay, gui
<1> QED  BY <1>1, <1>2, <1>3, <1>4 DEF EventInv, ChangeNotLost, gui

-----------------------------------------------------------------------------
LEMMA StepEvents == EventInv /\ [Next]_vars => EventInv'
<1> SUFFICES ASSUME EventInv, [Next]_vars PROVE EventInv'  OBVIOUS
<1>1. CASE Work  BY <1>1, WorkKeeps
<1>2. CASE Flush  BY <1>2, FlushKeeps
<1>3. CASE UserRefreshes  BY <1>3, UserRefreshesKeeps
<1>4. ASSUME NEW b \in Buses, Readable(b) \/ DaemonStops(b) \/ DaemonStarts(b) PROVE EventInv'
  BY <1>4, ReadableKeeps, DaemonKeeps
<1>5. ASSUME NEW d \in Domains, Change(d) PROVE EventInv'  BY <1>5, ChangeKeeps
<1>6. CASE UNCHANGED vars
  BY <1>6 DEF vars, EventInv, EventTypes, ClosedHoldsNoRules, ChangeNotLost, OnItsWay
<1> QED  BY <1>1, <1>2, <1>3, <1>4, <1>5, <1>6 DEF Next

(* A change of a service that happened while its rule was installed is shown,  *)
(* or it is in the socket, parked by a call, in the set of dirty domains or    *)
(* among the readings of the running slot: what Bus.call, dispatch, _readable, *)
(* flush and SystemState.refresh hand over, none of them drops, also across    *)
(* restarts of the bus daemons.                                                *)
THEOREM NoChangeIsLost == Spec => []ChangeNotLost
<1>1. EventInv => ChangeNotLost  BY DEF EventInv
<1> QED  BY <1>1, InitEvents, StepEvents, PTL DEF Spec

-----------------------------------------------------------------------------
(* The sessions of Zaldros Terminal, for any number of shells and tabs: the   *)
(* notifier of an open pty drains its own session, no shell is left behind by *)
(* a closed tab, and a session whose pty ended is never signalled.            *)


Tabs == [panes : Seq(Sessions), active : Nat]
Jobs == [kind : {"idle", "close", "reap"}, left : Seq(Sessions), tab : Nat,
         all : BOOLEAN, wait : BOOLEAN]
TypeInv ==
    /\ tabs \in Seq(Tabs) /\ activeTab \in 0 .. Len(tabs)
    /\ fd \in [Sessions -> 0 .. MaxSessions] /\ pid \in [Sessions -> BOOLEAN]
    /\ child \in [Sessions -> {"none", "running", "exited", "collected"}]
    /\ watch \in [Descriptors -> 0 .. MaxSessions]
    /\ job \in Jobs /\ (job.wait => job.left # <<>>) /\ (job.kind = "idle" => job = Idle)
    /\ job.kind = "close" => job.tab \in 1 .. Len(tabs)
    /\ ended \in SUBSET Sessions /\ signalled \in SUBSET Sessions

LEMMA IdleType == Idle \in Jobs /\ Idle.kind = "idle" /\ ~Idle.wait /\ Idle.left = <<>>
BY DEF Idle, Jobs

LEMMA InitType == SessionsInit => TypeInv
BY IdleType, SessionsAssumption DEF SessionsInit, TypeInv, Sessions, Descriptors

(* A new session changes its own entries, and the entry of its descriptor.   *)
LEMMA StartedType ==
    ASSUME TypeInv, NEW s \in Sessions, Started(s)
    PROVE  /\ fd' \in [Sessions -> 0 .. MaxSessions] /\ pid' \in [Sessions -> BOOLEAN]
           /\ child' \in [Sessions -> {"none", "running", "exited", "collected"}]
           /\ watch' \in [Descriptors -> 0 .. MaxSessions]
           /\ UNCHANGED <<job, ended, signalled>>
BY SessionsAssumption, SMTT(60) DEF TypeInv, Started, _watch, Sessions, Descriptors

LEMMA ClosingType ==
    ASSUME NEW panes \in Seq(Sessions), NEW i \in Nat, NEW all \in BOOLEAN
    PROVE  /\ Closing(panes, i, all) \in Jobs /\ Closing(panes, i, all).kind = "close"
           /\ ~Closing(panes, i, all).wait /\ Closing(panes, i, all).tab = i
           /\ Closing(panes, i, all).left = panes
BY DEF Closing, Jobs

LEMMA ReapingType ==
    ASSUME NEW s \in Sessions
    PROVE  /\ Reaping(s) \in Jobs /\ Reaping(s).kind = "reap" /\ Reaping(s).wait
           /\ Reaping(s).left = <<s>> /\ Reaping(s).left # <<>>
BY DEF Reaping, Jobs

LEMMA HeadType ==
    ASSUME TypeInv, job.left # <<>>
    PROVE  Head(job.left) \in Sessions /\ Tail(job.left) \in Seq(Sessions)
<1>1. job.left \in Seq(Sessions)  BY DEF TypeInv, Jobs
<1> QED  BY <1>1, HeadTailProperties

(* What is left of the tabs when one is closed.                              *)
LEMMA Rest ==
    ASSUME NEW S, NEW q \in Seq(S), NEW i \in 1 .. Len(q)
    PROVE  /\ RemoveAt(q, i) \in Seq(S) /\ Len(RemoveAt(q, i)) = Len(q) - 1
           /\ \A j \in 1 .. i - 1 : RemoveAt(q, i)[j] = q[j]
           /\ \A j \in i .. Len(q) - 1 : RemoveAt(q, i)[j] = q[j + 1]
  BY WithoutOne, Zenon DEF RemoveAt

LEMMA TabsType ==
    ASSUME TypeInv
    PROVE  /\ tabs \in Seq(Tabs) /\ Len(tabs) \in Nat /\ DOMAIN tabs = 1 .. Len(tabs)
           /\ \A i \in 1 .. Len(tabs) : tabs[i] \in Tabs /\ tabs[i].panes \in Seq(Sessions)
<1>1. tabs \in Seq(Tabs)  BY DEF TypeInv
<1>2. \A i \in 1 .. Len(tabs) : tabs[i] \in Tabs  BY <1>1, ElementOfSeq
<1> QED  BY <1>1, <1>2, LenProperties DEF Tabs

(* Every step keeps the types.                                               *)
LEMMA StepType == TypeInv /\ [SessionsNext]_sessionVars => TypeInv'
<1> SUFFICES ASSUME TypeInv, [SessionsNext]_sessionVars PROVE TypeInv'  OBVIOUS
<1>1. CASE OpenTab
  <2>1. PICK s \in Sessions :
           /\ tabs' = Append(tabs, [panes |-> <<s>>, active |-> 1])
           /\ activeTab' = Len(tabs) + 1 /\ Started(s)
    BY <1>1 DEF OpenTab
  <2>2. [panes |-> <<s>>, active |-> 1] \in Tabs  BY DEF Tabs
  <2>3. tabs' \in Seq(Tabs) /\ Len(tabs') = Len(tabs) + 1
    BY <2>1, <2>2, TabsType, AppendProperties
  <2>4. activeTab' \in 0 .. Len(tabs')  BY <2>1, <2>3, TabsType
  <2> QED  BY <2>1, <2>3, <2>4, StartedType DEF TypeInv
<1>2. CASE SplitPane
  <2>1. PICK s \in Sessions :
           /\ activeTab # 0 /\ Started(s) /\ activeTab' = activeTab
           /\ tabs' = [tabs EXCEPT ![activeTab] =
                         [panes |-> Append(tabs[activeTab].panes, s),
                          active |-> Len(Append(tabs[activeTab].panes, s))]]
    BY <1>2 DEF SplitPane
  <2>2. activeTab \in 1 .. Len(tabs)  BY <2>1, TabsType DEF TypeInv
  <2>3. /\ Append(tabs[activeTab].panes, s) \in Seq(Sessions)
        /\ Len(Append(tabs[activeTab].panes, s)) \in Nat
    BY <2>2, TabsType, AppendProperties, LenProperties
  <2>4. [panes |-> Append(tabs[activeTab].panes, s),
         active |-> Len(Append(tabs[activeTab].panes, s))] \in Tabs
    BY <2>3 DEF Tabs
  <2>5. tabs' \in Seq(Tabs) /\ Len(tabs') = Len(tabs)
    BY <2>1, <2>2, <2>4, TabsType, ExceptSeq
  <2> QED  BY <2>1, <2>5, StartedType DEF TypeInv
<1>3. CASE SelectTab
  BY <1>3, TabsType DEF SelectTab, TypeInv
<1>4. CASE SelectPane
  <2>1. PICK k \in DOMAIN tabs[activeTab].panes : tabs' = [tabs EXCEPT ![activeTab].active = k]
    BY <1>4 DEF SelectPane
  <2>2. activeTab \in 1 .. Len(tabs)  BY <1>4, TabsType DEF SelectPane, TypeInv
  <2>3. k \in Nat  BY <2>2, TabsType, LenProperties
  <2>4. [tabs[activeTab] EXCEPT !.active = k] \in Tabs  BY <2>2, <2>3, TabsType DEF Tabs
  <2>5. tabs' = [tabs EXCEPT ![activeTab] = [tabs[activeTab] EXCEPT !.active = k]]  BY <2>1
  <2>6. tabs' \in Seq(Tabs) /\ Len(tabs') = Len(tabs)
    BY <2>2, <2>4, <2>5, TabsType, ExceptSeq
  <2> QED  BY <1>4, <2>6 DEF SelectPane, TypeInv
<1>5. CASE CloseTab
  <2>1. PICK i \in DOMAIN tabs : job' = Closing(tabs[i].panes, i, FALSE)  BY <1>5 DEF CloseTab
  <2>2. i \in 1 .. Len(tabs) /\ i \in Nat  BY TabsType
  <2>3. job' \in Jobs /\ job'.kind = "close" /\ ~job'.wait /\ job'.tab = i
    BY <2>1, <2>2, TabsType, ClosingType, ZenonT(60)
  <2> QED  BY <1>5, <2>2, <2>3 DEF CloseTab, TypeInv
<1>6. CASE CloseAll
  <2>1. Len(tabs) \in 1 .. Len(tabs)
    <3>1. tabs # <<>>  BY <1>6 DEF CloseAll
    <3> QED  BY <3>1, TabsType, EmptySeq
  <2>2. job' = Closing(tabs[Len(tabs)].panes, Len(tabs), TRUE)  BY <1>6 DEF CloseAll, Last
  <2>3. job' \in Jobs /\ job'.kind = "close" /\ ~job'.wait /\ job'.tab = Len(tabs)
    BY <2>1, <2>2, TabsType, ClosingType, ZenonT(60)
  <2> QED  BY <1>6, <2>1, <2>3 DEF CloseAll, TypeInv
<1>7. CASE ClosePane
  <2> DEFINE s == Head(job.left)
             waits == pid[s] /\ child[s] # "collected"
  <2>1. s \in Sessions /\ Tail(job.left) \in Seq(Sessions) /\ job.left # <<>>
    BY <1>7, HeadType DEF ClosePane
  <2>2. /\ job' = IF waits THEN [job EXCEPT !.wait = TRUE] ELSE [job EXCEPT !.left = Tail(@)]
        /\ watch' = Unwatched(s) /\ fd' = [fd EXCEPT ![s] = 0] /\ pid' = [pid EXCEPT ![s] = waits]
        /\ signalled' = IF pid[s] THEN signalled \cup {s} ELSE signalled
        /\ job.kind = "close" /\ ~job.wait
        /\ UNCHANGED <<tabs, activeTab, child, ended>>
    BY <1>7 DEF ClosePane
  <2> HIDE DEF s
  <2>3. job' \in Jobs /\ job'.kind = "close" /\ (job'.wait => job'.left # <<>>)
    BY <2>1, <2>2 DEF TypeInv, Jobs
  <2>4. pid' \in [Sessions -> BOOLEAN]  BY <2>1, <2>2 DEF TypeInv
  <2>5. watch' \in [Descriptors -> 0 .. MaxSessions]
    <3>1. CASE fd[s] = 0  BY <2>2, <3>1 DEF Unwatched, TypeInv
    <3>2. CASE fd[s] # 0
      <4>1. fd[s] \in 1 .. MaxSessions  BY <2>1, <3>2, SessionsAssumption DEF TypeInv
      <4>2. watch' = [watch EXCEPT ![fd[s]] = 0]  BY <2>2, <3>2 DEF Unwatched
      <4> QED  BY <4>1, <4>2, SessionsAssumption DEF TypeInv, Descriptors
    <3> QED  BY <3>1, <3>2
  <2>6. fd' \in [Sessions -> 0 .. MaxSessions]  BY <2>1, <2>2, SessionsAssumption DEF TypeInv
  <2>7. signalled' \in SUBSET Sessions  BY <2>1, <2>2 DEF TypeInv
  <2> QED  BY <2>2, <2>3, <2>4, <2>5, <2>6, <2>7, SMTT(60) DEF TypeInv
<1>8. CASE ChildCollected
  <2>1. /\ job.left # <<>> /\ Head(job.left) \in Sessions /\ Tail(job.left) \in Seq(Sessions)
    BY <1>8, HeadType DEF ChildCollected, TypeInv
  <2>2. job' = IF job.kind = "reap" THEN Idle ELSE [job EXCEPT !.left = Tail(@), !.wait = FALSE]
    BY <1>8 DEF ChildCollected
  <2>3. job.kind # "idle"  BY <1>8, IdleType DEF ChildCollected, TypeInv
  <2>4. /\ job' \in Jobs /\ ~job'.wait /\ (job'.kind = "idle" => job' = Idle)
        /\ (job'.kind = "close" => job'.tab \in 1 .. Len(tabs))
    BY <2>1, <2>2, <2>3, IdleType DEF TypeInv, Jobs
  <2> QED  BY <1>8, <2>1, <2>4 DEF ChildCollected, TypeInv
<1>9. CASE TabClosed
  <2> DEFINE rest == RemoveAt(tabs, job.tab)
             next == Closing(Last(rest).panes, Len(rest), TRUE)
  <2>1. /\ tabs' = rest /\ activeTab' = Low(High(activeTab, 1), Len(rest))
        /\ job' = IF job.all /\ rest # <<>> THEN next ELSE Idle
        /\ UNCHANGED <<fd, pid, child, watch, ended, signalled>>
    BY <1>9 DEF TabClosed
  <2>2. job.tab \in 1 .. Len(tabs)  BY <1>9 DEF TabClosed, TypeInv
  <2>3. rest \in Seq(Tabs) /\ Len(rest) \in Nat  BY <2>2, TabsType, Rest, LenProperties
  <2>4. activeTab' \in 0 .. Len(tabs')  BY <2>1, <2>3, TabsType DEF TypeInv, Low, High
  <2>5. ASSUME rest # <<>>
        PROVE  next \in Jobs /\ next.kind = "close" /\ ~next.wait /\ next.tab \in 1 .. Len(rest)
    <3>1. Len(rest) \in 1 .. Len(rest)  BY <2>3, <2>5, EmptySeq
    <3>2. Last(rest) \in Tabs  BY <2>3, <3>1, ElementOfSeq DEF Last
    <3>3. Last(rest).panes \in Seq(Sessions)  BY <3>2 DEF Tabs
    <3> QED  BY <2>3, <3>1, <3>3, ClosingType, ZenonT(60)
  <2>6. /\ job' \in Jobs /\ ~job'.wait /\ (job'.kind = "idle" => job' = Idle)
        /\ job'.kind = "close" => job'.tab \in 1 .. Len(tabs')
    BY <2>1, <2>5, IdleType
  <2> QED  BY <2>1, <2>3, <2>4, <2>6 DEF TypeInv
<1>10. CASE DrainEnd
  <2>1. PICK s \in Sessions :
           /\ fd' = [fd EXCEPT ![s] = 0] /\ ended' = ended \cup {s}
           /\ pid' = [pid EXCEPT ![s] = pid[s] /\ child[s] # "collected"]
           /\ job' = IF pid[s] /\ child[s] # "collected" THEN Reaping(s) ELSE Idle
           /\ UNCHANGED <<tabs, activeTab, child, watch, signalled>>
    BY <1>10 DEF DrainEnd
  <2>3. /\ job' \in Jobs /\ (job'.wait => job'.left # <<>>)
        /\ (job'.kind = "idle" => job' = Idle) /\ job'.kind # "close"
    BY <2>1, ReapingType, IdleType
  <2>4. pid' \in [Sessions -> BOOLEAN]  BY <2>1 DEF TypeInv
  <2>5. fd' \in [Sessions -> 0 .. MaxSessions]  BY <2>1, SessionsAssumption DEF TypeInv
  <2> QED  BY <2>1, <2>3, <2>4, <2>5 DEF TypeInv
<1>11. CASE ReadPanes
  <2>1. child' \in [Sessions -> {"none", "running", "exited", "collected"}]
    BY <1>11 DEF ReadPanes, Asked, TypeInv
  <2> QED  BY <1>11, <2>1 DEF ReadPanes, TypeInv
<1>12. CASE ChildExits  BY <1>12 DEF ChildExits, TypeInv
<1>13. CASE UNCHANGED sessionVars  BY <1>13 DEF sessionVars, TypeInv
<1> QED
  BY <1>1, <1>2, <1>3, <1>4, <1>5, <1>6, <1>7, <1>8, <1>9, <1>10, <1>11, <1>12, <1>13
  DEF SessionsNext

Alive == {"running", "exited"}

(* What the session knows of its child.  A session whose pty ended keeps its  *)
(* number only while _reap waits for it, and close() closes the descriptor of *)
(* a session it signals.                                                     *)
SessionInv ==
    /\ \A s \in Sessions :
         /\ child[s] = "none" => fd[s] = 0 /\ ~pid[s] /\ s \notin ended /\ s \notin signalled
         /\ child[s] \in Alive => pid[s]
         /\ s \in signalled => fd[s] = 0
         /\ s \in ended => s \notin signalled
         /\ s \in ended /\ pid[s] => job.kind = "reap" /\ s = Head(job.left)
    /\ job.kind = "reap" => job.wait

LEMMA InitSession == SessionsInit => SessionInv
BY IdleType DEF SessionsInit, SessionInv, Alive

LEMMA StartedSession ==
    ASSUME TypeInv, SessionInv, job = Idle, NEW s \in Sessions, Fresh(s), Started(s)
    PROVE  SessionInv'
<1>1. PICK f \in Descriptors :
         /\ fd' = [fd EXCEPT ![s] = f] /\ pid' = [pid EXCEPT ![s] = TRUE]
         /\ child' = [child EXCEPT ![s] = "running"] /\ UNCHANGED <<job, ended, signalled>>
  BY DEF Started
<1>2. child[s] = "none" /\ s \notin ended /\ s \notin signalled  BY DEF Fresh, SessionInv
<1> QED  BY <1>1, <1>2 DEF SessionInv, TypeInv, Alive

LEMMA StepSession == TypeInv /\ SessionInv /\ [SessionsNext]_sessionVars => SessionInv'
<1> SUFFICES ASSUME TypeInv, SessionInv, [SessionsNext]_sessionVars PROVE SessionInv'  OBVIOUS
<1>1. CASE OpenTab  BY <1>1, StartedSession DEF OpenTab
<1>2. CASE SplitPane  BY <1>2, StartedSession DEF SplitPane
<1>3. CASE SelectTab  BY <1>3 DEF SelectTab, SessionInv
<1>4. CASE SelectPane  BY <1>4 DEF SelectPane, SessionInv
<1>5. CASE CloseTab
  <2>1. job = Idle /\ job'.kind = "close" /\ UNCHANGED <<fd, pid, child, ended, signalled>>
    BY <1>5 DEF CloseTab, Closing
  <2> QED  BY <2>1, IdleType DEF SessionInv
<1>6. CASE CloseAll
  <2>1. job = Idle /\ job'.kind = "close" /\ UNCHANGED <<fd, pid, child, ended, signalled>>
    BY <1>6 DEF CloseAll, Closing
  <2> QED  BY <2>1, IdleType DEF SessionInv
<1>7. CASE ClosePane
  <2> DEFINE s == Head(job.left)
             waits == pid[s] /\ child[s] # "collected"
  <2>1. s \in Sessions  BY <1>7, HeadType DEF ClosePane
  <2>2. /\ job.kind = "close" /\ job'.kind = "close"
        /\ fd' = [fd EXCEPT ![s] = 0] /\ pid' = [pid EXCEPT ![s] = waits]
        /\ signalled' = IF pid[s] THEN signalled \cup {s} ELSE signalled
        /\ UNCHANGED <<child, ended>>
    BY <1>7 DEF ClosePane, TypeInv, Jobs
  <2>3. \A r \in ended : ~pid[r]  BY <2>2 DEF SessionInv, TypeInv
  <2> HIDE DEF s
  <2> QED  BY <2>1, <2>2, <2>3 DEF SessionInv, TypeInv, Alive
<1>8. CASE ChildCollected
  <2> DEFINE s == Head(job.left)
  <2>1. s \in Sessions  BY <1>8, HeadType DEF ChildCollected, TypeInv
  <2>2. /\ child' = [child EXCEPT ![s] = "collected"] /\ pid' = [pid EXCEPT ![s] = FALSE]
        /\ child[s] = "exited" /\ UNCHANGED <<fd, ended, signalled>>
    BY <1>8 DEF ChildCollected
  <2>3. job'.kind # "reap"
    BY <1>8, IdleType DEF ChildCollected, TypeInv, Jobs
  <2>4. \A r \in ended : ~pid'[r]
    BY <2>1, <2>2 DEF SessionInv, TypeInv
  <2> HIDE DEF s
  <2> QED  BY <2>1, <2>2, <2>3, <2>4 DEF SessionInv, TypeInv, Alive
<1>9. CASE TabClosed
  <2>1. job.kind = "close" /\ job'.kind # "reap" /\ UNCHANGED <<fd, pid, child, ended, signalled>>
    BY <1>9, IdleType DEF TabClosed, Closing
  <2> QED  BY <2>1 DEF SessionInv
<1>10. CASE DrainEnd
  <2>1. PICK s \in Sessions :
           /\ job = Idle /\ fd[s] # 0
           /\ fd' = [fd EXCEPT ![s] = 0] /\ ended' = ended \cup {s}
           /\ pid' = [pid EXCEPT ![s] = pid[s] /\ child[s] # "collected"]
           /\ job' = IF pid[s] /\ child[s] # "collected" THEN Reaping(s) ELSE Idle
           /\ UNCHANGED <<child, signalled>>
    BY <1>10 DEF DrainEnd
  <2>2. \A r \in ended : ~pid[r]  BY <2>1, IdleType DEF SessionInv, TypeInv
  <2>3. s \notin signalled /\ child[s] # "none"  BY <2>1 DEF SessionInv
  <2>4. pid'[s] => job'.kind = "reap" /\ s = Head(job'.left)
    <3>1. pid'[s] => job' = Reaping(s)  BY <2>1 DEF TypeInv
    <3>2. Head(<<s>>) = s  OBVIOUS
    <3> QED  BY <3>1, <3>2, ReapingType
  <2>5. job'.kind = "reap" => job'.wait  BY <2>1, ReapingType, IdleType
  <2> QED  BY <2>1, <2>2, <2>3, <2>4, <2>5 DEF SessionInv, TypeInv, Alive
<1>11. CASE ReadPanes
  <2>1. /\ \A s \in Sessions : child'[s] = child[s] \/ (child[s] = "exited" /\ child'[s] = "collected")
        /\ UNCHANGED <<fd, pid, job, ended, signalled>>
    BY <1>11 DEF ReadPanes, Asked
  <2> QED  BY <2>1 DEF SessionInv, Alive
<1>12. CASE ChildExits  BY <1>12 DEF ChildExits, SessionInv, TypeInv, Alive
<1>13. CASE UNCHANGED sessionVars  BY <1>13 DEF sessionVars, SessionInv
<1> QED
  BY <1>1, <1>2, <1>3, <1>4, <1>5, <1>6, <1>7, <1>8, <1>9, <1>10, <1>11, <1>12, <1>13
  DEF SessionsNext

(* The notifier of an open pty: a step opens a free descriptor, with the      *)
(* session's own notifier, or closes one.                                     *)
LEMMA StepWatchers ==
    TypeInv /\ WatchersMatch /\ [SessionsNext]_sessionVars => WatchersMatch'
<1> SUFFICES ASSUME TypeInv, WatchersMatch, [SessionsNext]_sessionVars PROVE WatchersMatch'
  OBVIOUS
<1>1. ASSUME NEW s \in Sessions, Started(s) PROVE WatchersMatch'
  <2>1. PICK f \in Descriptors : /\ FreeFd(f) /\ fd' = [fd EXCEPT ![s] = f]
                                 /\ watch' = [watch EXCEPT ![f] = s]
    BY <1>1 DEF Started, _watch
  <2>2. \A r \in Sessions : fd[r] # f  BY <2>1 DEF FreeFd
  <2> QED  BY <2>1, <2>2, SessionsAssumption DEF WatchersMatch, TypeInv, Descriptors
<1>2. CASE OpenTab  BY <1>1, <1>2 DEF OpenTab
<1>3. CASE SplitPane  BY <1>1, <1>3 DEF SplitPane
<1>4. CASE SelectTab \/ SelectPane \/ CloseTab \/ CloseAll
  BY <1>4 DEF SelectTab, SelectPane, CloseTab, CloseAll, WatchersMatch
<1>5. CASE ClosePane
  <2> DEFINE s == Head(job.left)
  <2>1. s \in Sessions  BY <1>5, HeadType DEF ClosePane
  <2>2. fd' = [fd EXCEPT ![s] = 0] /\ watch' = Unwatched(s)  BY <1>5 DEF ClosePane
  <2> HIDE DEF s
  <2>3. CASE fd[s] = 0  BY <2>1, <2>2, <2>3 DEF Unwatched, WatchersMatch, TypeInv
  <2>4. CASE fd[s] # 0
    <3>1. watch' = [watch EXCEPT ![fd[s]] = 0]  BY <2>2, <2>4 DEF Unwatched
    <3>2. ASSUME NEW r \in Sessions, fd'[r] # 0 PROVE watch'[fd'[r]] = r
      <4>1. r # s /\ fd'[r] = fd[r] /\ watch[fd[r]] = r /\ watch[fd[s]] = s
        BY <2>1, <2>2, <2>4, <3>2 DEF WatchersMatch, TypeInv
      <4>2. fd[r] # fd[s]  BY <4>1
      <4>3. fd[r] \in Descriptors
        BY <3>2, <4>1, SessionsAssumption DEF TypeInv, Descriptors
      <4> QED  BY <3>1, <4>1, <4>2, <4>3 DEF TypeInv
    <3> QED  BY <3>2 DEF WatchersMatch
  <2> QED  BY <2>3, <2>4
<1>6. CASE ChildCollected \/ TabClosed
  BY <1>6 DEF ChildCollected, TabClosed, WatchersMatch
<1>7. CASE DrainEnd  BY <1>7 DEF DrainEnd, WatchersMatch, TypeInv
<1>8. CASE ReadPanes \/ ChildExits  BY <1>8 DEF ReadPanes, ChildExits, WatchersMatch
<1>9. CASE UNCHANGED sessionVars  BY <1>9 DEF sessionVars, WatchersMatch
<1> QED  BY <1>2, <1>3, <1>4, <1>5, <1>6, <1>7, <1>8, <1>9 DEF SessionsNext

Shown(s) == \E i \in 1 .. Len(tabs) : s \in Range(tabs[i].panes)

(* Every living shell has a pane until its tab is gone, and a tab that is     *)
(* being closed goes only after each of its living shells was waited for.    *)
HeldInv ==
    /\ \A s \in Sessions : child[s] \in Alive => Shown(s)
    /\ job.kind = "close" =>
         \A s \in Sessions : child[s] \in Alive /\ s \in Range(tabs[job.tab].panes)
                                => s \in Range(job.left)

LEMMA AppendRange ==
    ASSUME NEW S, NEW q \in Seq(S), NEW x \in S
    PROVE  x \in Range(Append(q, x)) /\ Range(q) \subseteq Range(Append(q, x))
<1>1. /\ Append(q, x) \in Seq(S) /\ Len(Append(q, x)) = Len(q) + 1
      /\ \A i \in 1 .. Len(q) : Append(q, x)[i] = q[i]
      /\ Append(q, x)[Len(q) + 1] = x
  BY AppendProperties
<1>2. DOMAIN q = 1 .. Len(q) /\ Len(q) \in Nat /\ DOMAIN Append(q, x) = 1 .. Len(q) + 1
  BY <1>1, LenProperties
<1> QED  BY <1>1, <1>2 DEF Range

LEMMA TailRange ==
    ASSUME NEW S, NEW q \in Seq(S), q # <<>>, NEW x \in Range(q), x # Head(q)
    PROVE  x \in Range(Tail(q))
<1>1. DOMAIN q = 1 .. Len(q) /\ Len(q) \in Nat  BY LenProperties
<1>2. PICK i \in 1 .. Len(q) : x = q[i]  BY <1>1 DEF Range
<1>3. /\ Tail(q) \in Seq(S) /\ Len(Tail(q)) = Len(q) - 1
      /\ \A j \in 1 .. Len(Tail(q)) : Tail(q)[j] = q[j + 1]
  BY HeadTailProperties
<1>4. DOMAIN Tail(q) = 1 .. Len(q) - 1  BY <1>3, LenProperties
<1>5. i # 1  BY <1>2
<1>6. i - 1 \in 1 .. Len(q) - 1 /\ (i - 1) + 1 = i  BY <1>1, <1>2, <1>5
<1>7. Tail(q)[i - 1] = x  BY <1>2, <1>3, <1>6
<1> QED  BY <1>4, <1>6, <1>7 DEF Range

LEMMA InitHeld == SessionsInit => HeldInv
BY IdleType DEF SessionsInit, HeldInv, Alive

LEMMA StepHeld ==
    TypeInv /\ SessionInv /\ HeldInv /\ [SessionsNext]_sessionVars => HeldInv'
<1> SUFFICES ASSUME TypeInv, SessionInv, HeldInv, [SessionsNext]_sessionVars PROVE HeldInv'
  OBVIOUS
<1>1. CASE OpenTab
  <2>1. PICK s \in Sessions :
           /\ job = Idle /\ Started(s) /\ tabs' = Append(tabs, [panes |-> <<s>>, active |-> 1])
    BY <1>1 DEF OpenTab
  <2>2. [panes |-> <<s>>, active |-> 1] \in Tabs  BY DEF Tabs
  <2>3. /\ Len(tabs') = Len(tabs) + 1 /\ tabs'[Len(tabs) + 1] = [panes |-> <<s>>, active |-> 1]
        /\ \A i \in 1 .. Len(tabs) : tabs'[i] = tabs[i]
    BY <2>1, <2>2, TabsType, AppendProperties
  <2>4. s \in Range(tabs'[Len(tabs) + 1].panes)  BY <2>3 DEF Range
  <2>5. \A r \in Sessions : Shown(r) => Shown(r)'  BY <2>3, TabsType DEF Shown
  <2>6. Shown(s)'  BY <2>3, <2>4, TabsType DEF Shown
  <2>7. job' = Idle /\ \A r \in Sessions : r # s => child'[r] = child[r]
    BY <2>1 DEF Started, TypeInv
  <2> QED  BY <2>5, <2>6, <2>7, IdleType DEF HeldInv
<1>2. CASE SplitPane
  <2>1. PICK s \in Sessions :
           /\ job = Idle /\ activeTab # 0 /\ Started(s)
           /\ tabs' = [tabs EXCEPT ![activeTab] =
                         [panes |-> Append(tabs[activeTab].panes, s),
                          active |-> Len(Append(tabs[activeTab].panes, s))]]
    BY <1>2 DEF SplitPane
  <2>2. activeTab \in 1 .. Len(tabs)  BY <2>1, TabsType DEF TypeInv
  <2>3. /\ Len(tabs') = Len(tabs) /\ tabs'[activeTab].panes = Append(tabs[activeTab].panes, s)
        /\ \A i \in 1 .. Len(tabs) : i # activeTab => tabs'[i] = tabs[i]
    BY <2>1, <2>2, TabsType
  <2>4. /\ s \in Range(tabs'[activeTab].panes)
        /\ Range(tabs[activeTab].panes) \subseteq Range(tabs'[activeTab].panes)
    BY <2>2, <2>3, TabsType, AppendRange
  <2>5. \A r \in Sessions : Shown(r) => Shown(r)'  BY <2>2, <2>3, <2>4, TabsType DEF Shown
  <2>6. Shown(s)'  BY <2>2, <2>3, <2>4 DEF Shown
  <2>7. job' = Idle /\ \A r \in Sessions : r # s => child'[r] = child[r]
    BY <2>1 DEF Started, TypeInv
  <2> QED  BY <2>5, <2>6, <2>7, IdleType DEF HeldInv
<1>3. CASE SelectTab  BY <1>3 DEF SelectTab, HeldInv, Shown
<1>4. CASE SelectPane
  <2>1. PICK k \in DOMAIN tabs[activeTab].panes : tabs' = [tabs EXCEPT ![activeTab].active = k]
    BY <1>4 DEF SelectPane
  <2>2. activeTab \in 1 .. Len(tabs)  BY <1>4, TabsType DEF SelectPane, TypeInv
  <2>3. Len(tabs') = Len(tabs) /\ \A i \in 1 .. Len(tabs) : tabs'[i].panes = tabs[i].panes
    BY <2>1, <2>2, TabsType DEF Tabs
  <2>4. \A r \in Sessions : Shown(r) => Shown(r)'  BY <2>3 DEF Shown
  <2>5. job' = Idle /\ child' = child  BY <1>4 DEF SelectPane
  <2> QED  BY <2>4, <2>5, IdleType DEF HeldInv
<1>5. CASE CloseTab
  <2>1. PICK i \in DOMAIN tabs : job' = Closing(tabs[i].panes, i, FALSE)  BY <1>5 DEF CloseTab
  <2>2. job'.tab = i /\ job'.left = tabs[i].panes  BY <2>1 DEF Closing
  <2> QED  BY <1>5, <2>2 DEF CloseTab, HeldInv, Shown
<1>6. CASE CloseAll
  <2>1. job' = Closing(tabs[Len(tabs)].panes, Len(tabs), TRUE)  BY <1>6 DEF CloseAll, Last
  <2>2. job'.tab = Len(tabs) /\ job'.left = tabs[Len(tabs)].panes  BY <2>1 DEF Closing
  <2> QED  BY <1>6, <2>2 DEF CloseAll, HeldInv, Shown
<1>7. CASE ClosePane
  <2> DEFINE s == Head(job.left)
             waits == pid[s] /\ child[s] # "collected"
  <2>1. /\ job' = IF waits THEN [job EXCEPT !.wait = TRUE] ELSE [job EXCEPT !.left = Tail(@)]
        /\ job.kind = "close" /\ job.left # <<>> /\ UNCHANGED <<tabs, child>>
    BY <1>7 DEF ClosePane
  <2>2. s \in Sessions /\ job.left \in Seq(Sessions) /\ job \in Jobs
    BY <2>1, HeadType DEF TypeInv, Jobs
  <2>3. ~waits => child[s] \notin Alive  BY <2>2 DEF SessionInv, Alive
  <2>4. job'.tab = job.tab /\ (waits => job'.left = job.left) /\ (~waits => job'.left = Tail(job.left))
    BY <2>1, <2>2 DEF Jobs
  <2>5. ASSUME NEW r \in Sessions, child[r] \in Alive, r \in Range(job.left)
        PROVE  r \in Range(job'.left)
    <3>1. CASE waits  BY <2>4, <2>5, <3>1
    <3>2. CASE ~waits
      <4>1. r # s  BY <2>3, <2>5, <3>2
      <4>2. r \in Range(Tail(job.left))  BY <2>1, <2>2, <2>5, <4>1, TailRange
      <4> QED  BY <2>4, <3>2, <4>2
    <3> QED  BY <3>1, <3>2
  <2> HIDE DEF waits
  <2> QED  BY <2>1, <2>4, <2>5 DEF HeldInv, Shown
<1>8. CASE ChildCollected
  <2> DEFINE s == Head(job.left)
  <2>1. /\ child' = [child EXCEPT ![s] = "collected"] /\ tabs' = tabs /\ job.wait
        /\ job' = IF job.kind = "reap" THEN Idle ELSE [job EXCEPT !.left = Tail(@), !.wait = FALSE]
    BY <1>8 DEF ChildCollected
  <2>2. s \in Sessions /\ job.left \in Seq(Sessions) /\ job \in Jobs /\ job.left # <<>>
    BY <2>1, HeadType DEF TypeInv, Jobs
  <2>3. \A r \in Sessions : child'[r] \in Alive => r # s /\ child[r] \in Alive
    BY <2>1, <2>2 DEF TypeInv, Alive
  <2>4. job'.kind = "close" => job.kind = "close" /\ job'.tab = job.tab /\ job'.left = Tail(job.left)
    BY <2>1, <2>2, IdleType DEF Jobs
  <2>5. \A r \in Range(job.left) : r # s => r \in Range(Tail(job.left))
    BY <2>2, TailRange
  <2> HIDE DEF s
  <2> QED  BY <2>1, <2>3, <2>4, <2>5 DEF HeldInv, Shown
<1>9. CASE TabClosed
  <2> DEFINE rest == RemoveAt(tabs, job.tab)
  <2>1. /\ tabs' = rest /\ child' = child /\ job.kind = "close" /\ job.left = <<>>
        /\ job' = Idle \/ job' = Closing(Last(rest).panes, Len(rest), TRUE)
    BY <1>9, ZenonT(60) DEF TabClosed
  <2>2. job.tab \in 1 .. Len(tabs)  BY <2>1 DEF TypeInv
  <2>3. /\ Len(rest) = Len(tabs) - 1
        /\ \A j \in 1 .. job.tab - 1 : rest[j] = tabs[j]
        /\ \A j \in job.tab .. Len(tabs) - 1 : rest[j] = tabs[j + 1]
    BY <2>2, TabsType, Rest, ZenonT(60)
  <2> HIDE DEF rest
  <2>4. ASSUME NEW r \in Sessions, child[r] \in Alive PROVE Shown(r)'
    <3>1. r \notin Range(job.left)  BY <2>1 DEF Range
    <3>2. r \notin Range(tabs[job.tab].panes)  BY <2>1, <2>4, <3>1 DEF HeldInv
    <3>3. PICK i \in 1 .. Len(tabs) : r \in Range(tabs[i].panes)  BY <2>4 DEF HeldInv, Shown
    <3>4. i # job.tab  BY <3>2, <3>3
    <3>5. CASE i < job.tab
      <4>1. i \in 1 .. job.tab - 1 /\ i \in 1 .. Len(rest)  BY <2>2, <2>3, <3>5, TabsType
      <4> QED  BY <2>1, <2>3, <3>3, <4>1 DEF Shown
    <3>6. CASE i > job.tab
      <4>1. i - 1 \in job.tab .. Len(tabs) - 1 /\ i - 1 \in 1 .. Len(rest) /\ (i - 1) + 1 = i
        BY <2>2, <2>3, <3>6, TabsType
      <4>2. rest[i - 1] = tabs[i]  BY <2>3, <4>1
      <4> QED  BY <2>1, <3>3, <4>1, <4>2 DEF Shown
    <3> QED  BY <2>2, <3>4, <3>5, <3>6, TabsType
  <2>5. job'.kind = "close" => job'.left = tabs'[job'.tab].panes
    BY <2>1, IdleType DEF Closing, Last
  <2> QED  BY <2>1, <2>4, <2>5 DEF HeldInv
<1>10. CASE DrainEnd
  <2>1. tabs' = tabs /\ child' = child /\ job'.kind # "close"
    BY <1>10, ReapingType, IdleType DEF DrainEnd
  <2> QED  BY <2>1 DEF HeldInv, Shown
<1>11. CASE ReadPanes
  <2>1. /\ tabs' = tabs /\ job' = job
        /\ \A s \in Sessions : child'[s] \in Alive => child[s] \in Alive
    BY <1>11 DEF ReadPanes, Asked, Alive
  <2> QED  BY <2>1 DEF HeldInv, Shown
<1>12. CASE ChildExits
  <2>1. tabs' = tabs /\ job' = job /\ \A s \in Sessions : child'[s] \in Alive => child[s] \in Alive
    BY <1>12 DEF ChildExits, TypeInv, Alive
  <2> QED  BY <2>1 DEF HeldInv, Shown
<1>13. CASE UNCHANGED sessionVars  BY <1>13 DEF sessionVars, HeldInv, Shown
<1> QED
  BY <1>1, <1>2, <1>3, <1>4, <1>5, <1>6, <1>7, <1>8, <1>9, <1>10, <1>11, <1>12, <1>13
  DEF SessionsNext

(* The three together are inductive.                                         *)
LEMMA SessionsInvariant == SessionsSpec => [](TypeInv /\ SessionInv /\ HeldInv)
<1>1. SessionsInit => TypeInv /\ SessionInv /\ HeldInv  BY InitType, InitSession, InitHeld
<1>2. TypeInv /\ SessionInv /\ HeldInv /\ [SessionsNext]_sessionVars
        => (TypeInv /\ SessionInv /\ HeldInv)'
  BY StepType, StepSession, StepHeld
<1> QED  BY <1>1, <1>2, PTL DEF SessionsSpec

-----------------------------------------------------------------------------
(* A session that has a descriptor is drained by its own notifier, for every  *)
(* number of shells (TerminalModel._watch, _unwatch, _drain).                *)
THEOREM NotifiersMatch == SessionsSpec => []WatchersMatch
<1>1. SessionsInit => WatchersMatch  BY DEF SessionsInit, WatchersMatch
<1> QED  BY <1>1, SessionsInvariant, StepWatchers, PTL DEF SessionsSpec

(* A shell that lives, or has ended and not been waited for, still has its    *)
(* pane (TerminalModel.closeTab, PtySession.close and _reap).                *)
THEOREM ShellsAreHeld == SessionsSpec => []NoShellLeftBehind
<1>1. TypeInv /\ HeldInv => NoShellLeftBehind
  BY TabsType DEF HeldInv, NoShellLeftBehind, Shown, Held, Alive
<1> QED  BY <1>1, SessionsInvariant, PTL

(* A number whose pty was read to its end is never signalled by close(): the  *)
(* number may belong to another process by then (PtySession._reap).          *)
THEOREM NoStaleSignal == SessionsSpec => []EndedIsNotSignalled
<1>1. TypeInv /\ SessionInv => EndedIsNotSignalled
  BY DEF TypeInv, SessionInv, EndedIsNotSignalled
<1> QED  BY <1>1, SessionsInvariant, PTL

-----------------------------------------------------------------------------

(* The screen, for every size, limit and number a sequence may carry.        *)

ShellInk == {NoInk, "shell"}
AnyInk == ShellInk \cup {"application"}
Positive == Nat \ {0}
RowOf(I, c) == {l \in Seq(I) : Len(l) = c}
GridOf(I, c, r) == {g \in Seq(RowOf(I, c)) : Len(g) = r}

(* What the present grid may be inked with: an application draws on its own. *)
Inks(s) == IF s.main = NoGrid THEN ShellInk ELSE AnyInk
Screens == [columns : Positive, rows : Positive, grid : Seq(Seq(AnyInk)),
            scrollback : Seq(Seq(AnyInk)), x : Nat, y : Nat, saved : Nat \X Nat,
            top : Nat, bottom : Nat, main : Seq(Seq(ShellInk))]

(* The screen given to an application has the size of the window.  The main *)
(* screen may have rows of any number and length: the window changed behind *)
(* it.  It has a row, which is how the code knows that one is put aside.     *)
Sound(s) ==
    /\ s \in Screens
    /\ s.grid \in Seq(Seq(Inks(s))) /\ Len(s.grid) > 0
    /\ s.main # NoGrid => InSize(s, s.grid)
    /\ s.top <= s.bottom /\ s.bottom < s.rows /\ Len(s.scrollback) <= Limit

(* What every step but a resize and a change of screens leaves as it is.     *)
Follows(s, t) ==
    /\ Sound(t) /\ t.columns = s.columns /\ t.rows = s.rows /\ t.main = s.main
    /\ InSize(s, s.grid) => InSize(t, t.grid)
    /\ DrawnOn(t.scrollback) => DrawnOn(s.scrollback)

LEMMA LineFunctions ==
    ASSUME NEW I, NEW c \in Nat PROVE RowOf(I, c) = [1 .. c -> I]
BY SeqDef, LenProperties DEF RowOf

LEMMA LineIsASeq ==
    ASSUME NEW I, NoInk \in I, NEW c \in Nat PROVE Line(c) \in RowOf(I, c)
BY SeqDef, LenProperties DEF Line, RowOf

LEMMA PageIsAGrid ==
    ASSUME NEW I, NoInk \in I, NEW c \in Nat, NEW r \in Nat
    PROVE  Page(c, r) \in GridOf(I, c, r)
<1>1. Page(c, r) \in [1 .. r -> RowOf(I, c)]  BY LineIsASeq DEF Page
<1> QED  BY <1>1, SeqDef, LenProperties DEF GridOf

(* A grid has rows of its inks. *)
LEMMA GridRows ==
    ASSUME NEW I, NEW c, NEW r \in Nat, NEW g \in GridOf(I, c, r)
    PROVE  /\ g \in Seq(Seq(I)) /\ Len(g) = r
           /\ \A j \in 1 .. r : g[j] \in RowOf(I, c) /\ g[j] \in Seq(I) /\ Len(g[j]) = c
           /\ g \in [1 .. r -> RowOf(I, c)]
<1>1. g \in Seq(RowOf(I, c)) /\ Len(g) = r  BY DEF GridOf
<1>2. \A j \in 1 .. r : g[j] \in RowOf(I, c)  BY <1>1
<1>3. \A j \in 1 .. r : g[j] \in Seq(I) /\ Len(g[j]) = c  BY <1>2 DEF RowOf
<1>4. g \in [1 .. r -> Seq(I)]  BY <1>1, <1>3, LenProperties
<1>5. g \in [1 .. r -> RowOf(I, c)]  BY <1>1, LenProperties
<1> QED  BY <1>1, <1>2, <1>3, <1>4, <1>5, SeqDef

(* More inks make no difference. *)
LEMMA GridWidens ==
    ASSUME NEW I, NEW J, I \subseteq J, NEW c, NEW r \in Nat, NEW g \in GridOf(I, c, r)
    PROVE  g \in GridOf(J, c, r)
<1>1. \A l \in Seq(I) : l \in Seq(J)  BY SeqDef
<1>2. RowOf(I, c) \subseteq RowOf(J, c)  BY <1>1 DEF RowOf
<1>3. g \in Seq(RowOf(I, c)) /\ Len(g) = r  BY DEF GridOf
<1>4. g \in [1 .. r -> RowOf(J, c)]  BY <1>2, <1>3, LenProperties
<1> QED  BY <1>4, <1>3, SeqDef DEF GridOf

LEMMA InsertedFacts ==
    ASSUME NEW S, NEW q \in Seq(S), NEW i \in Nat, NEW e \in S
    PROVE  Inserted(q, i, e) \in Seq(S) /\ Len(Inserted(q, i, e)) = Len(q) + 1
<1> DEFINE k == Smaller(i, Len(q))
           a == SubSeq(q, 1, k)
           b == SubSeq(q, k + 1, Len(q))
<1>1. k \in 0 .. Len(q)  BY DEF Smaller
<1>2. a \in Seq(S) /\ Len(a) = k  BY <1>1
<1>3. b \in Seq(S) /\ Len(b) = Len(q) - k  BY <1>1
<1>4. <<e>> \in Seq(S) /\ Len(<<e>>) = 1  OBVIOUS
<1> HIDE DEF a, b, k
<1>5. a \o <<e>> \in Seq(S) /\ Len(a \o <<e>>) = k + 1  BY <1>2, <1>4
<1> DEFINE c == a \o <<e>>
<1> HIDE DEF c
<1>6. c \in Seq(S) /\ Len(c) = k + 1  BY <1>5 DEF c
<1>7. c \o b \in Seq(S) /\ Len(c \o b) = Len(c) + Len(b)  BY <1>3, <1>6, SMTT(30)
<1>8. Len(c) + Len(b) = Len(q) + 1  BY <1>1, <1>3, <1>6
<1> QED  BY <1>7, <1>8 DEF Inserted, a, b, c, k

LEMMA DeletedFacts ==
    ASSUME NEW S, NEW q \in Seq(S), NEW i \in Nat, i < Len(q)
    PROVE  Deleted(q, i) \in Seq(S) /\ Len(Deleted(q, i)) = Len(q) - 1
<1>1. i + 1 \in 1 .. Len(q)  OBVIOUS
<1>2. Deleted(q, i) = SubSeq(q, 1, (i + 1) - 1) \o SubSeq(q, (i + 1) + 1, Len(q))
  BY DEF Deleted, RemoveAt
<1> QED  BY <1>1, <1>2, WithoutOne

LEMMA RowGoesIn ==
    ASSUME NEW I, NoInk \in I, NEW c \in Nat, NEW r \in Nat, NEW g \in GridOf(I, c, r), NEW i \in Nat
    PROVE  Inserted(g, i, Line(c)) \in GridOf(I, c, r + 1)
<1> DEFINE S == RowOf(I, c)
<1>1. Line(c) \in S /\ g \in Seq(S) /\ Len(g) = r  BY LineIsASeq DEF GridOf
<1> HIDE DEF S
<1>2. Inserted(g, i, Line(c)) \in Seq(S) /\ Len(Inserted(g, i, Line(c))) = r + 1
  BY ZenonT(30), <1>1, InsertedFacts
<1> QED  BY <1>2 DEF S, GridOf

LEMMA RowGoesOut ==
    ASSUME NEW I, NEW c \in Nat, NEW r \in Nat, NEW g \in GridOf(I, c, r), NEW i \in Nat, i < r
    PROVE  Deleted(g, i) \in GridOf(I, c, r - 1)
BY DeletedFacts DEF GridOf

(* Cells are replaced one row at a time. *)
LEMMA RowChanges ==
    ASSUME NEW I, NEW c \in Nat, NEW r \in Nat, NEW h, h \in [1 .. r -> RowOf(I, c)]
    PROVE  h \in GridOf(I, c, r)
BY SeqDef, LenProperties DEF GridOf

LEMMA TrimmedFacts ==
    ASSUME NEW S, NEW q \in Seq(S)
    PROVE  Trimmed(q) \in Seq(S) /\ Len(Trimmed(q)) <= Limit
<1> DEFINE k == Larger(1, Len(q) - Limit + 1)
<1>1. k \in 1 .. Len(q) + 1 /\ Len(q) - k + 1 <= Limit /\ Limit \in Nat
  BY ScreenAssumption DEF Larger
<1>2. SubSeq(q, k, Len(q)) \in Seq(S) /\ Len(SubSeq(q, k, Len(q))) = Len(q) - k + 1
  BY <1>1
<1> QED  BY <1>1, <1>2 DEF Trimmed

-----------------------------------------------------------------------------
LEMMA Widened == ASSUME NEW q \in Seq(Seq(ShellInk)) PROVE q \in Seq(Seq(AnyInk))
<1>1. \A l \in Seq(ShellInk) : l \in Seq(AnyInk)  BY SeqDef DEF AnyInk
<1> DEFINE S == Seq(ShellInk)
           T == Seq(AnyInk)
<1>2. q \in Seq(S) /\ \A l \in S : l \in T  BY <1>1
<1> HIDE DEF S, T
<1>3. q \in Seq(T)  BY <1>2, SeqDef
<1> QED  BY <1>3 DEF T

(* A grid in size is what the lemmas above speak of. *)
LEMMA SizedGrids ==
    ASSUME NEW s, s.rows \in Nat, s.columns \in Nat, NEW I
    PROVE  /\ \A g \in Seq(Seq(I)) : InSize(s, g) => g \in GridOf(I, s.columns, s.rows)
           /\ \A g \in GridOf(I, s.columns, s.rows) : g \in Seq(Seq(I)) /\ InSize(s, g)
<1>1. ASSUME NEW g \in Seq(Seq(I)), InSize(s, g) PROVE g \in GridOf(I, s.columns, s.rows)
  <2>1. Len(g) = s.rows /\ \A j \in 1 .. s.rows : Len(g[j]) = s.columns
    BY <1>1 DEF InSize
  <2>2. \A j \in 1 .. s.rows : g[j] \in Seq(I)  BY <2>1
  <2>3. g \in [1 .. s.rows -> RowOf(I, s.columns)]  BY <2>1, <2>2, LenProperties DEF RowOf
  <2> QED  BY <2>3, RowChanges
<1>2. ASSUME NEW g \in GridOf(I, s.columns, s.rows) PROVE g \in Seq(Seq(I)) /\ InSize(s, g)
  <2> DEFINE r == s.rows
             c == s.columns
  <2> HIDE DEF r, c
  <2>1. g \in GridOf(I, c, r) /\ r \in Nat  BY <1>2 DEF r, c
  <2>2. g \in Seq(Seq(I)) /\ Len(g) = r /\ \A j \in 1 .. r : Len(g[j]) = c  BY <2>1, GridRows
  <2>3. DOMAIN g = 1 .. r  BY <2>2
  <2> QED  BY <2>2, <2>3 DEF InSize, r, c
<1> QED  BY <1>1, <1>2

-----------------------------------------------------------------------------
(* One operation after another keeps a screen sound. *)
LEMMA SoundFields ==
    ASSUME NEW s, Sound(s)
    PROVE  /\ s \in Screens
           /\ s.columns \in Nat /\ s.columns > 0 /\ s.rows \in Nat /\ s.rows > 0
           /\ s.x \in Nat /\ s.y \in Nat /\ s.top \in Nat /\ s.bottom \in Nat
           /\ s.top <= s.bottom /\ s.bottom < s.rows
           /\ s.saved \in Nat \X Nat /\ s.saved[1] \in Nat /\ s.saved[2] \in Nat
           /\ s.grid \in Seq(Seq(Inks(s))) /\ Len(s.grid) \in Nat /\ Len(s.grid) > 0
           /\ s.main \in Seq(Seq(ShellInk))
           /\ s.scrollback \in Seq(Seq(AnyInk)) /\ Len(s.scrollback) <= Limit
           /\ NoInk \in Inks(s) /\ Inks(s) \subseteq AnyInk
<1>1. s \in Screens  BY DEF Sound
<1>2. NoInk \in Inks(s) /\ Inks(s) \subseteq AnyInk  BY DEF Inks, ShellInk, AnyInk
<1>3. /\ s.grid \in Seq(Seq(Inks(s))) /\ Len(s.grid) > 0 /\ Len(s.scrollback) <= Limit
      /\ s.top <= s.bottom /\ s.bottom < s.rows
  BY DEF Sound
<1>4. Len(s.grid) \in Nat  BY <1>3
<1> QED  BY <1>1, <1>2, <1>3, <1>4 DEF Screens, Positive

LEMMA FollowsItself == ASSUME NEW s, Sound(s) PROVE Follows(s, s)
BY DEF Follows

LEMMA FollowsOn ==
    ASSUME NEW s, NEW t, NEW u, Follows(s, t), Follows(t, u) PROVE Follows(s, u)
BY DEF Follows

LEMMA CursorMoves ==
    ASSUME NEW s, Sound(s), NEW x \in Nat, NEW y \in Nat
    PROVE  /\ Follows(s, [s EXCEPT !.x = x]) /\ Follows(s, [s EXCEPT !.y = y])
           /\ Follows(s, [s EXCEPT !.x = x, !.y = y])
           /\ Follows(s, [s EXCEPT !.y = y, !.x = x])
           /\ Follows(s, [s EXCEPT !.saved = <<x, y>>])
BY DEF Follows, Sound, Screens, Inks, InSize

LEMMA GridChanges ==
    ASSUME NEW s, Sound(s), NEW g \in Seq(Seq(Inks(s))), Len(g) > 0,
           InSize(s, s.grid) => InSize(s, g)
    PROVE  Follows(s, [s EXCEPT !.grid = g])
<1> DEFINE t == [s EXCEPT !.grid = g]
<1>1. g \in Seq(Seq(AnyInk))
  <2>1. Inks(s) = ShellInk \/ Inks(s) = AnyInk  BY DEF Inks
  <2> QED  BY <2>1, Widened
<1>2. /\ t \in Screens /\ t.grid = g /\ t.columns = s.columns /\ t.rows = s.rows
      /\ t.main = s.main /\ t.scrollback = s.scrollback /\ t.top = s.top /\ t.bottom = s.bottom
  <2>1. s \in Screens  BY DEF Sound
  <2> QED  BY <1>1, <2>1 DEF Screens
<1>3. Inks(t) = Inks(s)  BY <1>2 DEF Inks
<1>4. InSize(t, g) <=> InSize(s, g)  BY <1>2 DEF InSize
<1> HIDE DEF t
<1> QED  BY <1>2, <1>3, <1>4 DEF Follows, Sound, t

(* Cells are replaced row by row.  A row of the screen's width stays one.    *)
LEMMA RowsChange ==
    ASSUME NEW s, Sound(s), NEW h,
           h \in [1 .. Len(s.grid) -> Seq(Inks(s))],
           \A j \in 1 .. Len(s.grid) : Len(s.grid[j]) = s.columns => Len(h[j]) = s.columns
    PROVE  Follows(s, [s EXCEPT !.grid = h])
<1> DEFINE S == Seq(Inks(s))
<1>0. s.grid \in Seq(S) /\ Len(s.grid) \in Nat /\ h \in [1 .. Len(s.grid) -> S]  BY SoundFields
<1> HIDE DEF S
<1>1. h \in Seq(S) /\ Len(h) = Len(s.grid) /\ DOMAIN h = DOMAIN s.grid
  <2> DEFINE n == Len(s.grid)
  <2>1. h \in [1 .. n -> S] /\ n \in Nat  BY <1>0
  <2> HIDE DEF n
  <2>2. h \in Seq(S)  BY <2>1, SeqDef
  <2>3. Len(h) = n /\ DOMAIN h = 1 .. n  BY <2>1, <2>2, LenProperties
  <2> QED  BY <1>0, <2>2, <2>3, LenProperties DEF n
<1>2. InSize(s, s.grid) => InSize(s, h)  BY <1>0, <1>1, LenProperties DEF InSize
<1> QED  BY <1>1, <1>2, SoundFields, GridChanges DEF S

LEMMA RowChanged ==
    ASSUME NEW s, Sound(s), NEW k \in 1 .. Len(s.grid), NEW row \in Seq(Inks(s)),
           Len(s.grid[k]) = s.columns => Len(row) = s.columns
    PROVE  Follows(s, [s EXCEPT !.grid = [s.grid EXCEPT ![k] = row]])
<1> DEFINE h == [s.grid EXCEPT ![k] = row]
           S == Seq(Inks(s))
<1>1. s.grid \in Seq(S)  BY SoundFields
<1> HIDE DEF S
<1>2. s.grid \in [1 .. Len(s.grid) -> S]  BY <1>1, LenProperties
<1>3. h \in [1 .. Len(s.grid) -> S]  BY <1>2 DEF S
<1>4. \A j \in 1 .. Len(s.grid) : h[j] = IF j = k THEN row ELSE s.grid[j]  BY <1>2
<1> HIDE DEF h
<1>5. Follows(s, [s EXCEPT !.grid = h])  BY <1>3, <1>4, RowsChange DEF S
<1> QED  BY <1>5 DEF h

LEMMA RowIsASeq ==
    ASSUME NEW s, Sound(s), NEW k \in 1 .. Len(s.grid)
    PROVE  /\ s.grid[k] \in Seq(Inks(s)) /\ Len(s.grid[k]) \in Nat
           /\ DOMAIN s.grid[k] = 1 .. Len(s.grid[k])
           /\ \A i \in 1 .. Len(s.grid[k]) : s.grid[k][i] \in Inks(s)
<1> DEFINE S == Seq(Inks(s))
<1>1. s.grid \in Seq(S)  BY SoundFields
<1> HIDE DEF S
<1>2. s.grid[k] \in S  BY <1>1
<1> QED  BY <1>2 DEF S

(* A row goes out and a blank one comes in, as when a region scrolls. *)
LEMMA LinesMove ==
    ASSUME NEW s, Sound(s), NEW i \in Nat, i < Len(s.grid), NEW k \in Nat
    PROVE  LET g == Inserted(Deleted(s.grid, i), k, Line(s.columns)) IN
           /\ g \in Seq(Seq(Inks(s))) /\ Len(g) > 0
           /\ InSize(s, s.grid) => InSize(s, g)
<1> DEFINE I == Inks(s)
           S == Seq(I)
           d == Deleted(s.grid, i)
           g == Inserted(d, k, Line(s.columns))
           n == s.rows - 1
<1>1. s.grid \in Seq(S) /\ NoInk \in I /\ s.columns \in Nat  BY SoundFields
<1>2. Line(s.columns) \in S  BY <1>1, LineIsASeq DEF RowOf
<1> HIDE DEF S, I
<1>3. d \in Seq(S) /\ Len(d) = Len(s.grid) - 1  BY <1>1, DeletedFacts
<1> HIDE DEF d
<1>4. g \in Seq(S) /\ Len(g) = Len(d) + 1  BY <1>2, <1>3, InsertedFacts
<1>5. Len(g) > 0  BY <1>3, <1>4, SoundFields
<1>6. ASSUME InSize(s, s.grid) PROVE InSize(s, g)
  <2>1. s.grid \in GridOf(I, s.columns, s.rows)  BY <1>1, <1>6, SoundFields, SizedGrids DEF S
  <2>2. Len(s.grid) = s.rows  BY <1>6 DEF InSize
  <2>3. n \in Nat /\ n + 1 = s.rows /\ i < s.rows  BY <2>2, SoundFields
  <2>4. d \in GridOf(I, s.columns, n)  BY <2>1, <2>3, SoundFields, RowGoesOut DEF d
  <2> HIDE DEF n, g
  <2>5. g \in GridOf(I, s.columns, n + 1)  BY <1>1, <2>3, <2>4, RowGoesIn DEF g
  <2> QED  BY <2>3, <2>5, SoundFields, SizedGrids
<1> QED  BY <1>4, <1>5, <1>6 DEF S, I, d

LEMMA DrawnTrimmed ==
    ASSUME NEW S, NEW q \in Seq(S), DrawnOn(Trimmed(q)) PROVE DrawnOn(q)
<1> DEFINE k == Larger(1, Len(q) - Limit + 1)
<1>1. k \in 1 .. Len(q) + 1  BY ScreenAssumption DEF Larger
<1>2. PICK j \in DOMAIN Trimmed(q) : \E i \in DOMAIN Trimmed(q)[j] : Trimmed(q)[j][i] = "application"
  BY DEF DrawnOn
<1>3. Trimmed(q) = SubSeq(q, k, Len(q))  BY DEF Trimmed
<1> HIDE DEF k
<1>4. /\ DOMAIN Trimmed(q) = 1 .. Len(q) - k + 1
      /\ \A m \in 1 .. Len(q) - k + 1 : Trimmed(q)[m] = q[k + m - 1] /\ k + m - 1 \in DOMAIN q
  BY <1>1, <1>3
<1> QED  BY <1>2, <1>4 DEF DrawnOn

LEMMA DrawnAppended ==
    ASSUME NEW S, NEW q \in Seq(S), NEW l \in Seq(ShellInk), l \in S, DrawnOn(Append(q, l))
    PROVE  DrawnOn(q)
<1>1. PICK j \in DOMAIN Append(q, l) :
         \E i \in DOMAIN Append(q, l)[j] : Append(q, l)[j][i] = "application"
  BY DEF DrawnOn
<1>2. /\ DOMAIN Append(q, l) = 1 .. Len(q) + 1 /\ Append(q, l)[Len(q) + 1] = l
      /\ \A m \in 1 .. Len(q) : Append(q, l)[m] = q[m] /\ m \in DOMAIN q
  OBVIOUS
<1>3. \A i \in DOMAIN l : l[i] # "application"
  <2>1. \A i \in DOMAIN l : l[i] \in ShellInk  OBVIOUS
  <2> QED  BY <2>1 DEF ShellInk, NoInk
<1>4. j # Len(q) + 1  BY <1>1, <1>2, <1>3
<1>5. j \in 1 .. Len(q)  BY <1>2, <1>4
<1> QED  BY <1>1, <1>2, <1>5 DEF DrawnOn

(* Another scrollback, on which nothing more was drawn. *)
LEMMA ScrollbackChanges ==
    ASSUME NEW s, Sound(s), NEW b \in Seq(Seq(AnyInk)), Len(b) <= Limit,
           DrawnOn(b) => DrawnOn(s.scrollback)
    PROVE  Follows(s, [s EXCEPT !.scrollback = b])
<1> DEFINE t == [s EXCEPT !.scrollback = b]
<1>1. /\ t \in Screens /\ t.grid = s.grid /\ t.columns = s.columns /\ t.rows = s.rows
      /\ t.main = s.main /\ t.scrollback = b /\ t.top = s.top /\ t.bottom = s.bottom
  <2>1. s \in Screens  BY DEF Sound
  <2> QED  BY <2>1 DEF Screens
<1>2. Inks(t) = Inks(s) /\ (InSize(t, t.grid) <=> InSize(s, s.grid))
  BY <1>1 DEF Inks, InSize
<1> HIDE DEF t
<1> QED  BY <1>1, <1>2 DEF Follows, Sound, t

LEMMA NewlinedFollows == ASSUME NEW s, Sound(s) PROVE Follows(s, Newlined(s))
<1>1. CASE s.y # s.bottom
  <2> DEFINE y == Smaller(s.y + 1, s.rows - 1)
  <2>1. y \in Nat  BY SoundFields DEF Smaller
  <2>2. Newlined(s) = [s EXCEPT !.y = y]
    <3>1. s \in Screens  BY SoundFields
    <3> QED  BY <1>1, <3>1 DEF Newlined, Screens
  <2> HIDE DEF y
  <2>3. Follows(s, [s EXCEPT !.y = y])  BY <2>1, CursorMoves
  <2> QED  BY <2>2, <2>3
<1>2. CASE s.y = s.bottom /\ s.top >= Len(s.grid)
  <2>1. Newlined(s) = s  BY <1>2 DEF Newlined
  <2> QED  BY <2>1, FollowsItself
<1>3. CASE s.y = s.bottom /\ s.top < Len(s.grid)
  <2> DEFINE g == Inserted(Deleted(s.grid, s.top), s.bottom, Line(s.columns))
             kept == IF s.top = 0 /\ s.main = NoGrid
                     THEN Trimmed(Append(s.scrollback, s.grid[1])) ELSE s.scrollback
             t == [s EXCEPT !.grid = g]
  <2>1. Follows(s, t)
    <3>1. /\ g \in Seq(Seq(Inks(s))) /\ Len(g) > 0
          /\ InSize(s, s.grid) => InSize(s, g)
      BY <1>3, SoundFields, LinesMove
    <3> HIDE DEF g
    <3> QED  BY <3>1, GridChanges
  <2>2. kept \in Seq(Seq(AnyInk)) /\ Len(kept) <= Limit /\ (DrawnOn(kept) => DrawnOn(s.scrollback))
    <3>1. CASE s.top = 0 /\ s.main = NoGrid
      <4> DEFINE l == s.grid[1]
                 b == s.scrollback
                 S == Seq(AnyInk)
      <4>1. 1 \in 1 .. Len(s.grid)  BY SoundFields
      <4>2. l \in Seq(ShellInk)  BY <3>1, <4>1, RowIsASeq DEF Inks
      <4>3. l \in S  BY <4>2, SeqDef DEF AnyInk
      <4>4. b \in Seq(S)  BY SoundFields
      <4> HIDE DEF l, b, S
      <4>5. Append(b, l) \in Seq(S)  BY <4>3, <4>4
      <4>6. Trimmed(Append(b, l)) \in Seq(S) /\ Len(Trimmed(Append(b, l))) <= Limit
        BY <4>5, TrimmedFacts
      <4>7. DrawnOn(Trimmed(Append(b, l))) => DrawnOn(b)
        BY <4>2, <4>3, <4>4, <4>5, DrawnTrimmed, DrawnAppended
      <4>8. kept = Trimmed(Append(b, l))  BY <3>1 DEF b, l
      <4> QED  BY <4>6, <4>7, <4>8 DEF b, S
    <3>2. CASE ~(s.top = 0 /\ s.main = NoGrid)  BY <3>2, SoundFields
    <3> QED  BY <3>1, <3>2
  <2>3. Newlined(s) = [t EXCEPT !.scrollback = kept] /\ t.scrollback = s.scrollback
    <3>1. s \in Screens  BY SoundFields
    <3> QED  BY <1>3, <3>1, SoundFields DEF Newlined, Screens
  <2> HIDE DEF g, kept, t
  <2>4. Sound(t)  BY <2>1 DEF Follows
  <2>5. Follows(t, [t EXCEPT !.scrollback = kept])  BY <2>2, <2>3, <2>4, ScrollbackChanges
  <2> QED  BY <2>1, <2>3, <2>5, FollowsOn
<1>4. s.top >= Len(s.grid) \/ s.top < Len(s.grid)  BY SoundFields
<1> QED  BY <1>1, <1>2, <1>3, <1>4

LEMMA PrintedFollows ==
    ASSUME NEW s, Sound(s)
    PROVE  Follows(s, Printed(s, IF s.main = NoGrid THEN "shell" ELSE "application"))
<1> DEFINE ink == IF s.main = NoGrid THEN "shell" ELSE "application"
           t == IF s.x >= s.columns THEN Newlined([s EXCEPT !.x = 0]) ELSE s
<1>1. Follows(s, t)
  <2> DEFINE u == [s EXCEPT !.x = 0]
  <2>1. Follows(s, u)  BY CursorMoves
  <2> HIDE DEF u
  <2>2. Sound(u)  BY <2>1 DEF Follows
  <2>3. Follows(s, Newlined(u))  BY <2>1, <2>2, NewlinedFollows, FollowsOn
  <2> QED  BY <2>3, FollowsItself DEF u
<1>2. Sound(t) /\ t.main = s.main  BY <1>1 DEF Follows
<1>3. ink \in Inks(t)  BY <1>2 DEF Inks, ShellInk, AnyInk
<1> HIDE DEF ink, t
<1>4. CASE HasCell(t, t.x, t.y)
  <2> DEFINE k == t.y + 1
             old == t.grid[k]
             row == [old EXCEPT ![t.x + 1] = ink]
             u == [t EXCEPT !.grid = [t.grid EXCEPT ![k] = row]]
             x == u.x + 1
  <2>1. k \in 1 .. Len(t.grid)  BY <1>2, <1>4, SoundFields DEF HasCell
  <2>2. row \in Seq(Inks(t)) /\ Len(row) = Len(old)
    <3> DEFINE I == Inks(t)
               n == Len(old)
    <3>1. n \in Nat /\ DOMAIN old = 1 .. n /\ \A i \in 1 .. n : old[i] \in I
      BY <1>2, <2>1, RowIsASeq
    <3> HIDE DEF I, n
    <3>2. row \in [1 .. n -> I]  BY <1>3, <3>1 DEF I
    <3>3. row \in Seq(I)  BY <3>1, <3>2, SeqDef
    <3> QED  BY <3>1, <3>2, <3>3, LenProperties DEF I, n
  <2> HIDE DEF row
  <2>3. Follows(t, u)  BY <1>2, <2>1, <2>2, RowChanged
  <2>4. PutAt(t, t.x, ink) = u
    <3>1. t \in Screens  BY <1>2 DEF Sound
    <3> QED  BY <3>1 DEF PutAt, row, Screens
  <2> HIDE DEF u
  <2>5. Sound(u)  BY <2>3 DEF Follows
  <2>6. x \in Nat  BY <2>5, SoundFields
  <2> HIDE DEF x
  <2>7. Follows(u, [u EXCEPT !.x = x])  BY <2>5, <2>6, CursorMoves
  <2>8. Printed(s, ink) = [u EXCEPT !.x = x]  BY <1>4, <2>4 DEF Printed, t, x
  <2> QED  BY <1>1, <2>3, <2>7, <2>8, FollowsOn DEF ink
<1>5. CASE ~HasCell(t, t.x, t.y)  BY <1>1, <1>5 DEF Printed, t, ink
<1> QED  BY <1>4, <1>5

LEMMA ErasedLineFollows ==
    ASSUME NEW s, Sound(s), NEW mode PROVE Follows(s, ErasedLine(s, mode))
<1>1. CASE s.y >= Len(s.grid)
  <2>1. ErasedLine(s, mode) = s  BY <1>1 DEF ErasedLine
  <2> QED  BY <2>1, FollowsItself
<1>2. CASE s.y < Len(s.grid)
  <2> DEFINE k == s.y + 1
             old == s.grid[k]
             row == [i \in DOMAIN old |-> IF Erases(s, mode, i) THEN NoInk ELSE old[i]]
  <2>1. k \in 1 .. Len(s.grid)  BY <1>2, SoundFields
  <2>2. row \in Seq(Inks(s)) /\ Len(row) = Len(old)
    <3> DEFINE I == Inks(s)
               n == Len(old)
    <3>1. /\ n \in Nat /\ DOMAIN old = 1 .. n /\ NoInk \in I /\ \A i \in 1 .. n : old[i] \in I
      BY <2>1, SoundFields, RowIsASeq
    <3> HIDE DEF I, n
    <3>2. row \in [1 .. n -> I]  BY <3>1
    <3>3. row \in Seq(I)  BY <3>1, <3>2, SeqDef
    <3> QED  BY <3>1, <3>2, <3>3, LenProperties DEF I, n
  <2>3. ErasedLine(s, mode) = [s EXCEPT !.grid = [s.grid EXCEPT ![k] = row]]
    <3>1. s \in Screens /\ ~(s.y >= Len(s.grid))  BY <1>2, SoundFields
    <3> QED  BY <3>1 DEF ErasedLine, Screens
  <2> HIDE DEF row
  <2> QED  BY <2>1, <2>2, <2>3, RowChanged
<1>3. s.y >= Len(s.grid) \/ s.y < Len(s.grid)  BY SoundFields
<1> QED  BY <1>1, <1>2, <1>3

LEMMA BlankRow ==
    ASSUME NEW s, Sound(s)
    PROVE  Line(s.columns) \in Seq(Inks(s)) /\ Len(Line(s.columns)) = s.columns
BY SoundFields, LineIsASeq DEF RowOf

LEMMA BlankPage ==
    ASSUME NEW s, Sound(s)
    PROVE  /\ Page(s.columns, s.rows) \in Seq(Seq(Inks(s))) /\ Len(Page(s.columns, s.rows)) > 0
           /\ InSize(s, Page(s.columns, s.rows))
<1>1. Page(s.columns, s.rows) \in GridOf(Inks(s), s.columns, s.rows)
  BY SoundFields, PageIsAGrid
<1>2. Page(s.columns, s.rows) \in Seq(Seq(Inks(s))) /\ InSize(s, Page(s.columns, s.rows))
  BY <1>1, SoundFields, SizedGrids
<1> QED  BY <1>2, SoundFields DEF InSize

LEMMA ErasedDisplayFollows ==
    ASSUME NEW s, Sound(s), NEW mode PROVE Follows(s, ErasedDisplay(s, mode))
<1> DEFINE t == ErasedLine(s, mode)
<1>1. CASE mode \in {2, 3}
  <2> DEFINE u == [s EXCEPT !.grid = Page(s.columns, s.rows)]
             kept == IF mode = 3 THEN <<>> ELSE s.scrollback
  <2>1. Follows(s, u)  BY BlankPage, GridChanges
  <2>2. kept \in Seq(Seq(AnyInk)) /\ Len(kept) <= Limit /\ (DrawnOn(kept) => DrawnOn(s.scrollback))
    BY ScreenAssumption, SoundFields DEF DrawnOn
  <2>3. ErasedDisplay(s, mode) = [u EXCEPT !.scrollback = kept] /\ u.scrollback = s.scrollback
    <3>1. s \in Screens  BY SoundFields
    <3> QED  BY <1>1, <3>1 DEF ErasedDisplay, Screens
  <2> HIDE DEF u, kept
  <2>4. Sound(u)  BY <2>1 DEF Follows
  <2>5. Follows(u, [u EXCEPT !.scrollback = kept])  BY <2>2, <2>3, <2>4, ScrollbackChanges
  <2> QED  BY <2>1, <2>3, <2>5, FollowsOn
<1>2. CASE mode \notin {2, 3} /\ ErasedDisplay(s, mode) = t
  BY <1>2, ErasedLineFollows
<1>3. CASE mode \notin {2, 3} /\ ErasedDisplay(s, mode) # t
  <2> DEFINE Over(j) == \/ mode = 0 /\ s.y + 1 < j /\ j <= s.rows
                        \/ mode = 1 /\ j < s.y + 1
             h == [j \in DOMAIN t.grid |-> IF Over(j) THEN Line(s.columns) ELSE t.grid[j]]
  <2>1. Follows(s, t)  BY ErasedLineFollows
  <2>2. ErasedDisplay(s, mode) = [t EXCEPT !.grid = h]
    <3>1. t \in Screens  BY <2>1 DEF Follows, Sound
    <3>2. ~(s.y >= Len(s.grid) \/ Reaches(s, mode) > Len(s.grid[s.y + 1]))
      BY <1>3 DEF ErasedDisplay
    <3>3. ErasedDisplay(s, mode) = [t EXCEPT !.grid = [j \in DOMAIN t.grid |->
              IF \/ mode = 0 /\ s.y + 1 < j /\ j <= s.rows
                 \/ mode = 1 /\ j < s.y + 1
              THEN Line(s.columns) ELSE t.grid[j]]]
      BY <1>3, <3>1, <3>2 DEF ErasedDisplay, Screens
    <3> HIDE DEF t
    <3>4. [j \in DOMAIN t.grid |->
              IF \/ mode = 0 /\ s.y + 1 < j /\ j <= s.rows
                 \/ mode = 1 /\ j < s.y + 1
              THEN Line(s.columns) ELSE t.grid[j]] = h
      OBVIOUS
    <3> QED  BY <3>3, <3>4
  <2> HIDE DEF t, Over
  <2>3. Sound(t) /\ t.columns = s.columns  BY <2>1 DEF Follows
  <2>4. /\ Line(s.columns) \in Seq(Inks(t)) /\ Len(Line(s.columns)) = t.columns
        /\ DOMAIN t.grid = 1 .. Len(t.grid)
        /\ \A j \in 1 .. Len(t.grid) : t.grid[j] \in Seq(Inks(t))
    <3>1. DOMAIN t.grid = 1 .. Len(t.grid)  BY <2>3, SoundFields, LenProperties
    <3> QED  BY <2>3, <3>1, BlankRow, RowIsASeq
  <2>5. h \in [1 .. Len(t.grid) -> Seq(Inks(t))]  BY <2>4
  <2>6. \A j \in 1 .. Len(t.grid) : Len(t.grid[j]) = t.columns => Len(h[j]) = t.columns
    BY <2>4
  <2> HIDE DEF h
  <2>7. Follows(t, [t EXCEPT !.grid = h])  BY <2>3, <2>5, <2>6, RowsChange
  <2> QED  BY <2>1, <2>2, <2>7, FollowsOn
<1> QED  BY <1>1, <1>2, <1>3

LEMMA CharsFollow ==
    ASSUME NEW s, Sound(s), NEW n \in Nat
    PROVE  Follows(s, CharsDeleted(s, n)) /\ Follows(s, CharsErased(s, n))
<1>1. CASE s.y >= Len(s.grid)
  <2>1. CharsDeleted(s, n) = s /\ CharsErased(s, n) = s
    BY <1>1 DEF CharsDeleted, CharsErased
  <2> QED  BY <2>1, FollowsItself
<1>2. CASE s.y < Len(s.grid)
  <2> DEFINE k == s.y + 1
             old == s.grid[k]
             I == Inks(s)
             m == Len(old)
             without == LineWithout(old, s.x, n, s.columns)
             Over(i) == i > s.x /\ i <= s.x + n /\ i <= s.columns
             blank == [i \in DOMAIN old |-> IF Over(i) THEN NoInk ELSE old[i]]
  <2>1. k \in 1 .. Len(s.grid)  BY <1>2, SoundFields
  <2>2. /\ m \in Nat /\ DOMAIN old = 1 .. m /\ NoInk \in I /\ \A i \in 1 .. m : old[i] \in I
        /\ s.x \in Nat /\ s.columns \in Nat
    BY <2>1, SoundFields, RowIsASeq
  <2>3. CharsDeleted(s, n) = [s EXCEPT !.grid = [s.grid EXCEPT ![k] = without]]
    <3>1. s \in Screens /\ ~(s.y >= Len(s.grid))  BY <1>2, SoundFields
    <3> QED  BY <3>1 DEF CharsDeleted, Screens
  <2>4. CharsErased(s, n) = [s EXCEPT !.grid = [s.grid EXCEPT ![k] = blank]]
    <3>1. s \in Screens /\ ~(s.y >= Len(s.grid))  BY <1>2, SoundFields
    <3> QED  BY <3>1 DEF CharsErased, Screens
  <2> HIDE DEF Over
  <2>5. blank \in Seq(I) /\ Len(blank) = m
    <3> HIDE DEF I, m
    <3>1. blank \in [1 .. m -> I]  BY <2>2
    <3>2. blank \in Seq(I)  BY <2>2, <3>1, SeqDef
    <3> QED  BY <2>2, <3>1, <3>2, LenProperties
  <2>6. without \in Seq(I) /\ (m = s.columns => Len(without) = s.columns)
    <3> DEFINE c == s.columns
               x == s.x
               left == Larger(Smaller(x, m), m - n)
               w == Larger(left, c)
    <3>1. /\ left \in Nat /\ left <= m /\ w \in Nat /\ (m = c => w = c)
          /\ \A i \in 1 .. left : i > x => i + n \in 1 .. m
      <4> HIDE DEF m
      <4> QED  BY <2>2 DEF Larger, Smaller
    <3>2. without = [i \in 1 .. w |->
                       IF i > left THEN NoInk ELSE IF i > x THEN old[i + n] ELSE old[i]]
      BY DEF LineWithout
    <3> HIDE DEF I, m, c, left, w, without, old, x
    <3>3. ASSUME NEW i \in 1 .. w
          PROVE  (IF i > left THEN NoInk ELSE IF i > x THEN old[i + n] ELSE old[i]) \in I
      <4>1. CASE i > left  BY <2>2, <4>1
      <4>2. CASE ~(i > left) /\ i > x
        <5>1. i + n \in 1 .. m  BY <3>1, <4>2
        <5> QED  BY <2>2, <4>2, <5>1
      <4>3. CASE ~(i > left) /\ ~(i > x)
        <5>1. i \in 1 .. m  BY <2>2, <3>1, <4>3
        <5> QED  BY <2>2, <4>3, <5>1
      <4> QED  BY <4>1, <4>2, <4>3
    <3>4. without \in [1 .. w -> I]  BY <3>2, <3>3
    <3>5. without \in Seq(I)  BY <3>1, <3>4, SeqDef
    <3>6. Len(without) = w  BY <3>1, <3>4, <3>5, LenProperties
    <3> QED  BY <3>1, <3>5, <3>6 DEF c
  <2> HIDE DEF without, blank
  <2>7. Follows(s, CharsDeleted(s, n))  BY <2>1, <2>3, <2>6, RowChanged
  <2>8. Follows(s, CharsErased(s, n))  BY <2>1, <2>4, <2>5, RowChanged
  <2> QED  BY <2>7, <2>8
<1>3. s.y >= Len(s.grid) \/ s.y < Len(s.grid)  BY SoundFields
<1> QED  BY <1>1, <1>2, <1>3

LEMMA LineInsertedFollows == ASSUME NEW s, Sound(s) PROVE Follows(s, LineInserted(s))
<1> DEFINE I == Inks(s)
           S == Seq(I)
           g == Inserted(s.grid, s.y, Line(s.columns))
           h == Deleted(g, s.bottom + 1)
           n == s.rows + 1
<1>1. /\ s.grid \in Seq(S) /\ NoInk \in I /\ s.columns \in Nat /\ s.y \in Nat
      /\ s.bottom + 1 \in Nat
  BY SoundFields
<1>2. Line(s.columns) \in S  BY BlankRow
<1> HIDE DEF S, I
<1>3. g \in Seq(S) /\ Len(g) = Len(s.grid) + 1  BY <1>1, <1>2, InsertedFacts
<1> HIDE DEF g
<1>4. h \in Seq(S) /\ Len(h) > 0
  <2>1. CASE s.bottom + 1 < Len(g)
    <3>1. h \in Seq(S) /\ Len(h) = Len(g) - 1  BY <1>1, <1>3, <2>1, DeletedFacts
    <3> QED  BY <1>3, <3>1, SoundFields
  <2>2. CASE ~(s.bottom + 1 < Len(g))
    <3>1. h = g  BY <2>2 DEF Deleted
    <3> QED  BY <1>3, <3>1, SoundFields
  <2> QED  BY <2>1, <2>2
<1>5. ASSUME InSize(s, s.grid) PROVE InSize(s, h)
  <2>1. s.grid \in GridOf(I, s.columns, s.rows)  BY <1>1, <1>5, SoundFields, SizedGrids DEF S
  <2>2. n \in Nat /\ n - 1 = s.rows /\ s.bottom + 1 < n  BY SoundFields
  <2>3. g \in GridOf(I, s.columns, n)  BY <1>1, <2>1, SoundFields, RowGoesIn DEF g
  <2> HIDE DEF n, h
  <2>4. h \in GridOf(I, s.columns, n - 1)  BY <1>1, <2>2, <2>3, RowGoesOut DEF h
  <2> QED  BY <2>2, <2>4, SoundFields, SizedGrids
<1>6. LineInserted(s) = [s EXCEPT !.grid = h]
  <2>1. s \in Screens  BY SoundFields
  <2> QED  BY <2>1 DEF LineInserted, g, Screens
<1> HIDE DEF h
<1> QED  BY <1>4, <1>5, <1>6, GridChanges DEF S, I

LEMMA LineDeletedFollows == ASSUME NEW s, Sound(s) PROVE Follows(s, LineDeleted(s))
<1>1. CASE s.y >= Len(s.grid)
  <2>1. LineDeleted(s) = s  BY <1>1 DEF LineDeleted
  <2> QED  BY <2>1, FollowsItself
<1>2. CASE s.y < Len(s.grid)
  <2> DEFINE g == Inserted(Deleted(s.grid, s.y), s.bottom, Line(s.columns))
  <2>1. g \in Seq(Seq(Inks(s))) /\ Len(g) > 0 /\ (InSize(s, s.grid) => InSize(s, g))
    BY <1>2, SoundFields, LinesMove
  <2>2. LineDeleted(s) = [s EXCEPT !.grid = g]
    <3>1. s \in Screens /\ ~(s.y >= Len(s.grid))  BY <1>2, SoundFields
    <3> QED  BY <3>1 DEF LineDeleted, Screens
  <2> HIDE DEF g
  <2> QED  BY <2>1, <2>2, GridChanges
<1>3. s.y >= Len(s.grid) \/ s.y < Len(s.grid)  BY SoundFields
<1> QED  BY <1>1, <1>2, <1>3

-----------------------------------------------------------------------------
(* What Times computes: a function that takes its steps up to n exists, so   *)
(* the one Times chooses is one.                                             *)
Steps(g, F, s, n) == g = [k \in 0 .. n |-> IF k = 0 THEN s ELSE F[g[k - 1]]]

LEMMA StepsExist == ASSUME NEW F, NEW s, NEW n \in Nat PROVE \E g : Steps(g, F, s, n)
<1> DEFINE T == {k \in Nat : \E g : Steps(g, F, s, k)}
<1>1. 0 \in T
  <2>1. Steps([k \in 0 .. 0 |-> s], F, s, 0)  BY DEF Steps
  <2> QED  BY <2>1
<1>2. ASSUME NEW k \in 0 .. n - 1, k \in T PROVE k + 1 \in T
  <2>1. PICK g : Steps(g, F, s, k)  BY <1>2
  <2> DEFINE last == F[g[k]]
             h == [i \in 0 .. k + 1 |-> IF i = k + 1 THEN last ELSE g[i]]
  <2>2. \A i \in 0 .. k : h[i] = g[i]  OBVIOUS
  <2>3. h[k + 1] = last  OBVIOUS
  <2>4. \A i \in 0 .. k : g[i] = IF i = 0 THEN s ELSE F[g[i - 1]]  BY <2>1 DEF Steps
  <2>5. \A i \in 0 .. k + 1 : h[i] = IF i = 0 THEN s ELSE F[h[i - 1]]
    <3>1. TAKE i \in 0 .. k + 1
    <3>2. CASE i = k + 1
      <4>1. h[i - 1] = g[k]  BY <2>2, <3>2
      <4> HIDE DEF h
      <4> QED  BY <2>3, <3>2, <4>1
    <3>3. CASE i \in 1 .. k
      <4>1. h[i] = g[i] /\ h[i - 1] = g[i - 1]  BY <2>2, <3>3
      <4> HIDE DEF h, last
      <4> QED  BY <2>4, <3>3, <4>1
    <3>4. CASE i = 0  BY <2>2, <2>4, <3>4
    <3> QED  BY <3>2, <3>3, <3>4
  <2>6. Steps(h, F, s, k + 1)
    <3>1. h = [i \in 0 .. k + 1 |-> h[i]]  OBVIOUS
    <3> HIDE DEF h, last
    <3> QED  BY <2>5, <3>1 DEF Steps
  <2> QED  BY <2>6
<1> HIDE DEF T
<1>3. 0 .. n \subseteq T  BY <1>1, <1>2, InductiveSet
<1> QED  BY <1>3 DEF T

(* What F takes from T[k - 1] to T[k] reaches T[n] in n steps, and the steps *)
(* can be taken with any operator that agrees with F there.                  *)
LEMMA StepsReach ==
    ASSUME NEW F, NEW T, NEW s, NEW n \in Nat, s \in T[0],
           \A k \in 0 .. n - 1 : \A t \in T[k] : F[t] \in T[k + 1],
           NEW g, Steps(g, F, s, n)
    PROVE  \A k \in 0 .. n : g[k] \in T[k]
<1> DEFINE Good == {k \in 0 .. n : g[k] \in T[k]}
<1>1. \A k \in 0 .. n : g[k] = IF k = 0 THEN s ELSE F[g[k - 1]]  BY DEF Steps
<1>2. 0 \in Good  BY <1>1
<1>3. ASSUME NEW k \in 0 .. n - 1, k \in Good PROVE k + 1 \in Good
  <2>1. k + 1 \in 0 .. n /\ (k + 1) - 1 = k /\ k + 1 # 0  OBVIOUS
  <2>2. g[k + 1] = F[g[k]]  BY <1>1, <2>1
  <2> QED  BY <1>3, <2>1, <2>2
<1> HIDE DEF Good
<1>4. 0 .. n \subseteq Good  BY <1>2, <1>3, InductiveSet
<1> QED  BY <1>4 DEF Good

FollowersOf(s) == {t \in Screens : Follows(s, t)}

LEMMA LinesInsertedFollow ==
    ASSUME NEW s, Sound(s), NEW n \in Nat PROVE Follows(s, Times(n, LineInserted, s))
<1> DEFINE F == [t \in FollowersOf(s) |-> LineInserted(t)]
           T == [k \in 0 .. n |-> FollowersOf(s)]
           f == CHOOSE g : g = [k \in 0 .. n |-> IF k = 0 THEN s ELSE LineInserted(g[k - 1])]
<1>1. \A t \in FollowersOf(s) : F[t] = LineInserted(t) /\ LineInserted(t) \in FollowersOf(s)
  <2> SUFFICES ASSUME NEW t \in FollowersOf(s) PROVE LineInserted(t) \in FollowersOf(s)  OBVIOUS
  <2>1. Follows(s, t) /\ Sound(t)  BY DEF FollowersOf, Follows
  <2>2. Follows(s, LineInserted(t))  BY <2>1, LineInsertedFollows, FollowsOn
  <2> QED  BY <2>2 DEF FollowersOf, Follows, Sound
<1>2. s \in T[0] /\ \A k \in 0 .. n - 1 : \A t \in T[k] : F[t] \in T[k + 1]
  <2>1. s \in FollowersOf(s)  BY FollowsItself DEF FollowersOf, Sound
  <2>2. \A k \in 0 .. n : T[k] = FollowersOf(s)  OBVIOUS
  <2> HIDE DEF F, T
  <2>3. ASSUME NEW k \in 0 .. n - 1 PROVE \A t \in T[k] : F[t] \in T[k + 1]
    <3>1. T[k] = FollowersOf(s) /\ T[k + 1] = FollowersOf(s)  BY <2>2
    <3> QED  BY <1>1, <3>1
  <2> QED  BY <2>1, <2>2, <2>3
<1> HIDE DEF F
<1>3. PICK g : Steps(g, F, s, n)  BY StepsExist
<1>4. \A k \in 0 .. n : g[k] \in FollowersOf(s)
  <2> HIDE DEF T
  <2>1. \A k \in 0 .. n : g[k] \in T[k]  BY <1>2, <1>3, StepsReach
  <2> QED  BY <2>1 DEF T
<1>5. g = [k \in 0 .. n |-> IF k = 0 THEN s ELSE LineInserted(g[k - 1])]
  <2> HIDE DEF T, f
  <2>1. g = [k \in 0 .. n |-> IF k = 0 THEN s ELSE F[g[k - 1]]]  BY <1>3 DEF Steps
  <2>2. ASSUME NEW k \in 0 .. n
        PROVE  (IF k = 0 THEN s ELSE F[g[k - 1]]) = (IF k = 0 THEN s ELSE LineInserted(g[k - 1]))
    <3>1. k # 0 => k - 1 \in 0 .. n  OBVIOUS
    <3> QED  BY <1>1, <1>4, <3>1
  <2> QED  BY <2>1, <2>2, Zenon
<1>6. f = [k \in 0 .. n |-> IF k = 0 THEN s ELSE LineInserted(f[k - 1])]  BY <1>5
<1> HIDE DEF f
<1> DEFINE Good == {k \in 0 .. n : f[k] \in FollowersOf(s)}
<1>7. 0 \in Good  BY <1>6, FollowsItself DEF FollowersOf, Sound
<1>8. ASSUME NEW k \in 0 .. n - 1, k \in Good PROVE k + 1 \in Good
  <2>1. k + 1 \in 0 .. n /\ (k + 1) - 1 = k /\ k + 1 # 0  OBVIOUS
  <2>2. f[k + 1] = LineInserted(f[k])  BY <1>6, <2>1
  <2> QED  BY <1>1, <1>8, <2>1, <2>2
<1> HIDE DEF Good
<1>9. 0 .. n \subseteq Good  BY <1>7, <1>8, InductiveSet
<1>10. Follows(s, f[n])  BY <1>9 DEF Good, FollowersOf
<1> QED  BY <1>10 DEF Times, f

LEMMA LinesDeletedFollow ==
    ASSUME NEW s, Sound(s), NEW n \in Nat PROVE Follows(s, Times(n, LineDeleted, s))
<1> DEFINE F == [t \in FollowersOf(s) |-> LineDeleted(t)]
           T == [k \in 0 .. n |-> FollowersOf(s)]
           f == CHOOSE g : g = [k \in 0 .. n |-> IF k = 0 THEN s ELSE LineDeleted(g[k - 1])]
<1>1. \A t \in FollowersOf(s) : F[t] = LineDeleted(t) /\ LineDeleted(t) \in FollowersOf(s)
  <2> SUFFICES ASSUME NEW t \in FollowersOf(s) PROVE LineDeleted(t) \in FollowersOf(s)  OBVIOUS
  <2>1. Follows(s, t) /\ Sound(t)  BY DEF FollowersOf, Follows
  <2>2. Follows(s, LineDeleted(t))  BY <2>1, LineDeletedFollows, FollowsOn
  <2> QED  BY <2>2 DEF FollowersOf, Follows, Sound
<1>2. s \in T[0] /\ \A k \in 0 .. n - 1 : \A t \in T[k] : F[t] \in T[k + 1]
  <2>1. s \in FollowersOf(s)  BY FollowsItself DEF FollowersOf, Sound
  <2>2. \A k \in 0 .. n : T[k] = FollowersOf(s)  OBVIOUS
  <2> HIDE DEF F, T
  <2>3. ASSUME NEW k \in 0 .. n - 1 PROVE \A t \in T[k] : F[t] \in T[k + 1]
    <3>1. T[k] = FollowersOf(s) /\ T[k + 1] = FollowersOf(s)  BY <2>2
    <3> QED  BY <1>1, <3>1
  <2> QED  BY <2>1, <2>2, <2>3
<1> HIDE DEF F
<1>3. PICK g : Steps(g, F, s, n)  BY StepsExist
<1>4. \A k \in 0 .. n : g[k] \in FollowersOf(s)
  <2> HIDE DEF T
  <2>1. \A k \in 0 .. n : g[k] \in T[k]  BY <1>2, <1>3, StepsReach
  <2> QED  BY <2>1 DEF T
<1>5. g = [k \in 0 .. n |-> IF k = 0 THEN s ELSE LineDeleted(g[k - 1])]
  <2> HIDE DEF T, f
  <2>1. g = [k \in 0 .. n |-> IF k = 0 THEN s ELSE F[g[k - 1]]]  BY <1>3 DEF Steps
  <2>2. ASSUME NEW k \in 0 .. n
        PROVE  (IF k = 0 THEN s ELSE F[g[k - 1]]) = (IF k = 0 THEN s ELSE LineDeleted(g[k - 1]))
    <3>1. k # 0 => k - 1 \in 0 .. n  OBVIOUS
    <3> QED  BY <1>1, <1>4, <3>1
  <2> QED  BY <2>1, <2>2, Zenon
<1>6. f = [k \in 0 .. n |-> IF k = 0 THEN s ELSE LineDeleted(f[k - 1])]  BY <1>5
<1> HIDE DEF f
<1> DEFINE Good == {k \in 0 .. n : f[k] \in FollowersOf(s)}
<1>7. 0 \in Good  BY <1>6, FollowsItself DEF FollowersOf, Sound
<1>8. ASSUME NEW k \in 0 .. n - 1, k \in Good PROVE k + 1 \in Good
  <2>1. k + 1 \in 0 .. n /\ (k + 1) - 1 = k /\ k + 1 # 0  OBVIOUS
  <2>2. f[k + 1] = LineDeleted(f[k])  BY <1>6, <2>1
  <2> QED  BY <1>1, <1>8, <2>1, <2>2
<1> HIDE DEF Good
<1>9. 0 .. n \subseteq Good  BY <1>7, <1>8, InductiveSet
<1>10. Follows(s, f[n])  BY <1>9 DEF Good, FollowersOf
<1> QED  BY <1>10 DEF Times, f

-----------------------------------------------------------------------------
(* What a resize does to the rows with ink. *)
Inked(lines) == Only({TRUE}, Tagged(lines))
Tags(S) == [kind : BOOLEAN, line : S]

LEMMA TaggedIsASeq ==
    ASSUME NEW S, NEW q \in Seq(S)
    PROVE  Tagged(q) \in Seq(Tags(S)) /\ Len(Tagged(q)) = Len(q)
<1>1. \A j \in 1 .. Len(q) : HasInk(q[j]) \in BOOLEAN /\ q[j] \in S  BY DEF HasInk
<1>2. Tagged(q) \in [1 .. Len(q) -> Tags(S)]  BY <1>1 DEF Tagged, Tags
<1> QED  BY <1>2, SeqDef, LenProperties

LEMMA InkedConcat ==
    ASSUME NEW S, NEW p \in Seq(S), NEW q \in Seq(S)
    PROVE  Inked(p \o q) = Inked(p) \o Inked(q)
<1>1. /\ Tagged(p) \in Seq(Tags(S)) /\ Len(Tagged(p)) = Len(p)
      /\ Tagged(q) \in Seq(Tags(S)) /\ Len(Tagged(q)) = Len(q)
  BY TaggedIsASeq
<1>2. p \o q \in Seq(S) /\ Len(p \o q) = Len(p) + Len(q)  OBVIOUS
<1>3. Tagged(p \o q) \in Seq(Tags(S)) /\ Len(Tagged(p \o q)) = Len(p) + Len(q)
  BY <1>2, TaggedIsASeq
<1>4. /\ Tagged(p) \o Tagged(q) \in Seq(Tags(S))
      /\ Len(Tagged(p) \o Tagged(q)) = Len(p) + Len(q)
  <2> DEFINE a == Tagged(p)
             b == Tagged(q)
             T == Tags(S)
  <2>1. a \in Seq(T) /\ b \in Seq(T) /\ Len(a) = Len(p) /\ Len(b) = Len(q)  BY <1>1
  <2> HIDE DEF a, b, T
  <2>2. a \o b \in Seq(T) /\ Len(a \o b) = Len(a) + Len(b)  BY <2>1
  <2> QED  BY <2>1, <2>2 DEF a, b, T
<1>5. ASSUME NEW j \in 1 .. Len(p) + Len(q)
      PROVE  Tagged(p \o q)[j] = (Tagged(p) \o Tagged(q))[j]
  <2>1. Tagged(p \o q)[j] = [kind |-> HasInk((p \o q)[j]), line |-> (p \o q)[j]]
    BY <1>2 DEF Tagged
  <2>2. CASE j <= Len(p)
    <3>1. (p \o q)[j] = p[j] /\ j \in 1 .. Len(p)  BY <2>2
    <3>2. (Tagged(p) \o Tagged(q))[j] = Tagged(p)[j]  BY <1>1, <2>2
    <3>3. Tagged(p)[j] = [kind |-> HasInk(p[j]), line |-> p[j]]  BY <3>1 DEF Tagged
    <3> QED  BY <2>1, <3>1, <3>2, <3>3
  <2>3. CASE j > Len(p)
    <3> DEFINE i == j - Len(p)
    <3>1. (p \o q)[j] = q[i] /\ i \in 1 .. Len(q)  BY <2>3
    <3>2. (Tagged(p) \o Tagged(q))[j] = Tagged(q)[i]  BY <1>1, <2>3
    <3>3. Tagged(q)[i] = [kind |-> HasInk(q[i]), line |-> q[i]]  BY <3>1 DEF Tagged
    <3> QED  BY <2>1, <3>1, <3>2, <3>3
  <2>4. j <= Len(p) \/ j > Len(p)  OBVIOUS
  <2> QED  BY <2>2, <2>3, <2>4
<1>6. Tagged(p \o q) = Tagged(p) \o Tagged(q)  BY <1>3, <1>4, <1>5, SeqEqual
<1> QED  BY <1>1, <1>6, OnlyConcat DEF Inked

LEMMA InkedIsASeq ==
    ASSUME NEW S, NEW q \in Seq(S) PROVE Inked(q) \in Seq(Tags(S))
BY TaggedIsASeq, OnlyIsASeq DEF Inked

LEMMA InkedBlank ==
    ASSUME NEW S, NEW q \in Seq(S), \A j \in 1 .. Len(q) : ~HasInk(q[j])
    PROVE  Inked(q) = <<>>
<1> DEFINE M == [kind : {FALSE}, line : S]
<1>1. \A j \in 1 .. Len(q) : HasInk(q[j]) = FALSE /\ q[j] \in S  BY DEF HasInk
<1>2. \A j \in 1 .. Len(q) : [kind |-> HasInk(q[j]), line |-> q[j]] \in M  BY <1>1
<1>3. \A m \in M : m.kind \notin {TRUE}  OBVIOUS
<1> HIDE DEF M
<1>4. Tagged(q) \in [1 .. Len(q) -> M]  BY <1>2 DEF Tagged
<1>5. Tagged(q) \in Seq(M)  BY <1>4, SeqDef
<1> QED  BY <1>3, <1>5, OnlyNone DEF Inked

LEMMA ConcatEnds ==
    ASSUME NEW M, NEW a \in Seq(M), NEW b \in Seq(M) PROVE EndOf(b, a \o b)
<1> DEFINE q == a \o b
           n == Len(a) + 1
<1>1. q \in Seq(M) /\ Len(q) = Len(a) + Len(b) /\ n \in 1 .. Len(q) + 1  OBVIOUS
<1>2. \A i \in 1 .. Len(b) : q[Len(a) + i] = b[i]  OBVIOUS
<1> HIDE DEF q
<1>3. /\ SubSeq(q, n, Len(q)) \in Seq(M) /\ Len(SubSeq(q, n, Len(q))) = Len(b)
      /\ \A i \in 1 .. Len(b) : SubSeq(q, n, Len(q))[i] = q[Len(a) + i]
  BY <1>1
<1> HIDE DEF n
<1>4. b = SubSeq(q, n, Len(q))
  <2> DEFINE e == SubSeq(q, n, Len(q))
  <2>1. e \in Seq(M) /\ Len(e) = Len(b) /\ \A i \in 1 .. Len(b) : e[i] = b[i]  BY <1>2, <1>3
  <2> HIDE DEF e
  <2>2. b = e  BY <2>1, SeqEqual
  <2> QED  BY <2>2 DEF e
<1> QED  BY <1>1, <1>4 DEF EndOf, q

(* Trimming the scrollback costs the oldest rows, if any. *)
LEMMA TrimmedEnds ==
    ASSUME NEW S, NEW b \in Seq(S), NEW g \in Seq(S)
    PROVE  \/ Trimmed(b) = b
           \/ Len(Trimmed(b)) = Limit /\ EndOf(Inked(Trimmed(b) \o g), Inked(b \o g))
<1> DEFINE k == Larger(1, Len(b) - Limit + 1)
           p == SubSeq(b, 1, k - 1)
           q == SubSeq(b, k, Len(b))
<1>1. Trimmed(b) = q  BY DEF Trimmed
<1>2. k \in 1 .. Len(b) + 1 /\ Limit \in Nat  BY ScreenAssumption DEF Larger
<1>3. CASE k = 1
  <2>1. SubSeq(b, 1, Len(b)) = b  OBVIOUS
  <2> QED  BY <1>1, <1>3, <2>1
<1>4. CASE k # 1
  <2>1. k = Len(b) - Limit + 1  BY <1>4 DEF Larger
  <2> HIDE DEF k
  <2>2. q \in Seq(S) /\ Len(q) = Limit /\ p \in Seq(S)  BY <1>2, <2>1
  <2>3. b = p \o q
    <3>1. k - 1 \in 0 .. Len(b) /\ (k - 1) + 1 = k  BY <1>2
    <3> QED  BY <3>1, SplitsAt
  <2> HIDE DEF p, q
  <2>4. b \o g = p \o (q \o g) /\ q \o g \in Seq(S)  BY SMTT(30), <2>2, <2>3, Regroup
  <2>5. Inked(b \o g) = Inked(p) \o Inked(q \o g)  BY <2>2, <2>4, InkedConcat
  <2>6. Inked(p) \in Seq(Tags(S)) /\ Inked(q \o g) \in Seq(Tags(S))
    BY <2>2, <2>4, InkedIsASeq
  <2> QED  BY <1>1, <2>2, <2>5, <2>6, ConcatEnds
<1> QED  BY <1>3, <1>4

(* Base with n rows in the middle of a resize: its inked rows are kept, and  *)
(* those of a shell's screen are the only ones that go to the scrollback.    *)
Shrinking(base, c, n) ==
    {t \in Screens :
        /\ t.main = base.main /\ t.grid \in GridOf(Inks(base), c, n)
        /\ Inked(t.scrollback \o t.grid) = Inked(base.scrollback \o base.grid)
        /\ base.main = NoGrid /\ DrawnOn(t.scrollback) => DrawnOn(base.scrollback)}

LEMMA GridsAreSeqs ==
    ASSUME NEW s, NEW c \in Nat, NEW n \in Nat, NEW g \in GridOf(Inks(s), c, n)
    PROVE  g \in Seq(Seq(AnyInk)) /\ Len(g) = n
<1>1. Inks(s) \subseteq AnyInk  BY DEF Inks, ShellInk, AnyInk
<1>2. g \in GridOf(AnyInk, c, n)  BY <1>1, GridWidens
<1> QED  BY <1>2, GridRows

LEMMA ShrunkKeeps ==
    ASSUME NEW base, NEW c \in Nat, NEW n \in Nat, NEW t \in Shrinking(base, c, n + 1)
    PROVE  Shrunk(t) \in Shrinking(base, c, n)
<1> DEFINE inked == Inked(base.scrollback \o base.grid)
           J == Inks(base)
           g == t.grid
           b == t.scrollback
           S == Seq(AnyInk)
           L == RowOf(J, c)
<1>1. /\ t \in Screens /\ t.main = base.main /\ b \in Seq(S) /\ t.y \in Nat
      /\ g \in GridOf(J, c, n + 1) /\ Inked(b \o g) = inked
      /\ base.main = NoGrid /\ DrawnOn(b) => DrawnOn(base.scrollback)
  BY DEF Shrinking, Screens
<1>2. g \in Seq(S) /\ g \in Seq(L) /\ Len(g) = n + 1
  <2>1. n + 1 \in Nat  OBVIOUS
  <2>2. g \in Seq(S) /\ Len(g) = n + 1  BY <1>1, <2>1, GridsAreSeqs
  <2>3. g \in Seq(L)  BY <1>1 DEF GridOf
  <2> QED  BY <2>2, <2>3
<1>3. Inked(b \o g) = Inked(b) \o Inked(g)
  <2> HIDE DEF b, g, S
  <2> QED  BY <1>1, <1>2, InkedConcat
<1> HIDE DEF inked
<1>4. CASE n > t.y /\ ~HasInk(g[n + 1])
  <2> DEFINE p == SubSeq(g, 1, n)
             q == SubSeq(g, n + 1, n + 1)
  <2>1. p \in Seq(S) /\ p \in Seq(L) /\ Len(p) = n /\ q \in Seq(S) /\ Len(q) = 1 /\ q[1] = g[n + 1]
    <3> HIDE DEF g, S, L
    <3> QED  BY <1>2
  <2>2. g = p \o q
    <3> HIDE DEF g, S, L
    <3> QED  BY <1>2, SplitsAt
  <2>3. Inked(q) = <<>>
    <3>1. \A j \in 1 .. Len(q) : ~HasInk(q[j])  BY <1>4, <2>1
    <3> HIDE DEF q, S
    <3> QED  BY <2>1, <3>1, InkedBlank
  <2> HIDE DEF p, q
  <2>4. Inked(g) = Inked(p)
    <3> HIDE DEF g, S
    <3>1. Inked(g) = Inked(p) \o Inked(q)  BY <2>1, <2>2, InkedConcat
    <3>2. Inked(p) \in Seq(Tags(S))  BY <2>1, InkedIsASeq
    <3> QED  BY <2>3, <3>1, <3>2, ConcatEmptySeq
  <2>5. Inked(b \o p) = inked
    <3> HIDE DEF b, g, S
    <3> QED  BY ZenonT(30), <1>1, <1>3, <2>1, <2>4, InkedConcat
  <2>6. Shrunk(t) = [t EXCEPT !.grid = p]
    <3>1. Front(g) = p /\ Len(g) - 1 = n  BY <1>2 DEF Front, p
    <3>2. Shrunk(t) = [t EXCEPT !.grid = Front(g)]  BY <1>2, <1>4, <3>1 DEF Shrunk
    <3> QED  BY <3>1, <3>2
  <2>7. p \in GridOf(J, c, n)  BY <2>1 DEF GridOf
  <2>8. p \in Seq(Seq(AnyInk))  BY <2>1
  <2> HIDE DEF J
  <2>9. /\ Shrunk(t) \in Screens /\ Shrunk(t).main = base.main /\ Shrunk(t).grid = p
        /\ Shrunk(t).scrollback = b
    BY <1>1, <2>6, <2>8 DEF Screens
  <2> QED  BY <1>1, <2>5, <2>7, <2>9 DEF Shrinking, J, inked
<1>5. CASE ~(n > t.y /\ ~HasInk(g[n + 1]))
  <2> DEFINE h == Head(g)
             q == Tail(g)
             d == Append(b, h)
             y == Larger(0, t.y - 1)
  <2>1. h \in S /\ h \in L /\ q \in Seq(S) /\ q \in Seq(L) /\ Len(q) = n
    <3> HIDE DEF g, S, L
    <3> QED  BY <1>2
  <2>2. g = <<h>> \o q
    <3> HIDE DEF g, S
    <3> QED  BY <1>2, HeadAndTail
  <2> HIDE DEF h, q
  <2>3. d \in Seq(S) /\ d = b \o <<h>>
    <3> HIDE DEF S
    <3> QED  BY <1>1, <2>1, AppendIsConcat
  <2>4. d \o q = b \o g
    <3> HIDE DEF b, g, S, d
    <3>1. <<h>> \in Seq(S)  BY <2>1
    <3> QED  BY <1>1, <2>1, <2>2, <2>3, <3>1, Regroup
  <2>5. Shrunk(t) = [t EXCEPT !.grid = q, !.scrollback = d, !.y = y]
    BY <1>1, <1>2, <1>5 DEF Shrunk, h, q, Screens
  <2>6. y \in Nat  BY <1>1 DEF Larger
  <2>7. q \in GridOf(J, c, n)  BY <2>1 DEF GridOf
  <2>8. q \in Seq(Seq(AnyInk))  BY <2>1
  <2>9. base.main = NoGrid /\ DrawnOn(d) => DrawnOn(base.scrollback)
    <3> SUFFICES ASSUME base.main = NoGrid, DrawnOn(d) PROVE DrawnOn(base.scrollback)
      OBVIOUS
    <3>1. h \in Seq(ShellInk)  BY <2>1 DEF Inks, RowOf
    <3> HIDE DEF b, S
    <3>2. DrawnOn(b)  BY <1>1, <2>1, <3>1, DrawnAppended
    <3> QED  BY <1>1, <3>2
  <2> HIDE DEF d, y, J
  <2>10. /\ Shrunk(t) \in Screens /\ Shrunk(t).main = base.main /\ Shrunk(t).grid = q
         /\ Shrunk(t).scrollback = d
    BY <1>1, <2>3, <2>5, <2>6, <2>8 DEF Screens
  <2>11. Inked(d \o q) = inked  BY <1>1, <2>4
  <2> QED  BY <2>7, <2>9, <2>10, <2>11 DEF Shrinking, J, inked
<1> QED  BY <1>4, <1>5

(* Screens that s becomes in n turns. *)
ShrunkTo(base, s, c, n, r) == {t \in Shrinking(base, c, r) : n = 0 => t = s}

LEMMA ShrunkOften ==
    ASSUME NEW base, NEW c \in Nat, NEW n \in Nat, NEW r \in Nat,
           NEW s \in Shrinking(base, c, r + n)
    PROVE  Times(n, Shrunk, s) \in ShrunkTo(base, s, c, n, r)
<1> DEFINE T == [k \in 0 .. n |-> Shrinking(base, c, (r + n) - k)]
           All == UNION {T[k] : k \in 0 .. n}
           F == [t \in All |-> Shrunk(t)]
           f == CHOOSE g : g = [k \in 0 .. n |-> IF k = 0 THEN s ELSE Shrunk(g[k - 1])]
<1>1. ASSUME NEW k \in 0 .. n - 1, NEW t \in T[k] PROVE Shrunk(t) \in T[k + 1]
  <2> DEFINE m == (r + n) - (k + 1)
  <2>1. m \in Nat /\ (r + n) - k = m + 1 /\ k \in 0 .. n /\ k + 1 \in 0 .. n  OBVIOUS
  <2>2. T[k] = Shrinking(base, c, m + 1) /\ T[k + 1] = Shrinking(base, c, m)  BY <2>1
  <2> HIDE DEF m, T
  <2> QED  BY <2>1, <2>2, ShrunkKeeps
<1>2. s \in T[0]  OBVIOUS
<1>3. \A k \in 0 .. n : \A t \in T[k] : F[t] = Shrunk(t)  OBVIOUS
<1>4. T[n] = Shrinking(base, c, r)  OBVIOUS
<1> HIDE DEF T, F, All
<1>5. PICK g : Steps(g, F, s, n)  BY StepsExist
<1>6. \A k \in 0 .. n : g[k] \in T[k]
  <2>1. \A k \in 0 .. n - 1 : \A t \in T[k] : F[t] \in T[k + 1]  BY <1>1, <1>3
  <2> QED  BY <1>2, <1>5, <2>1, StepsReach
<1>7. g = [k \in 0 .. n |-> IF k = 0 THEN s ELSE Shrunk(g[k - 1])]
  <2>1. \A k \in 1 .. n : F[g[k - 1]] = Shrunk(g[k - 1])  BY <1>3, <1>6
  <2>2. \A k \in 0 .. n : (IF k = 0 THEN s ELSE F[g[k - 1]])
                        = (IF k = 0 THEN s ELSE Shrunk(g[k - 1]))
    BY <2>1
  <2>3. g = [k \in 0 .. n |-> IF k = 0 THEN s ELSE F[g[k - 1]]]  BY <1>5 DEF Steps
  <2> QED  BY <2>2, <2>3, Zenon
<1>8. f = [k \in 0 .. n |-> IF k = 0 THEN s ELSE Shrunk(f[k - 1])]  BY <1>7
<1> HIDE DEF f
<1> DEFINE Good == {k \in 0 .. n : f[k] \in T[k]}
<1>9. 0 \in Good /\ f[0] = s  BY <1>2, <1>8
<1>10. ASSUME NEW k \in 0 .. n - 1, k \in Good PROVE k + 1 \in Good
  <2>1. k + 1 \in 0 .. n /\ (k + 1) - 1 = k /\ k + 1 # 0  OBVIOUS
  <2>2. f[k + 1] = Shrunk(f[k])  BY <1>8, <2>1
  <2> QED  BY <1>1, <1>10, <2>1, <2>2
<1> HIDE DEF Good
<1>11. 0 .. n \subseteq Good  BY <1>9, <1>10, InductiveSet
<1>12. f[n] \in T[n]  BY <1>11 DEF Good
<1> QED  BY <1>4, <1>9, <1>12 DEF Times, f, ShrunkTo

(* What a resize makes of a screen of any shape. *)
LEMMA ResizedKeeps ==
    ASSUME NEW s, Sound(s), NEW c \in Positive, NEW r \in Positive
    PROVE  LET u == Resized(s, c, r) IN
           /\ Sound(u) /\ InSize(u, u.grid) /\ u.main = s.main /\ u.rows = r /\ u.columns = c
           /\ DrawnOn(u.scrollback) => \/ DrawnOn(s.scrollback)
                                       \/ s.main # NoGrid /\ r < s.rows
           /\ (\A j \in DOMAIN s.grid : Len(s.grid[j]) = c) =>
                 \/ InkedRows(u) = InkedRows(s)
                 \/ Len(u.scrollback) = Limit /\ EndOf(InkedRows(u), InkedRows(s))
<1> DEFINE g == s.grid
           b == s.scrollback
           J == Inks(s)
           S == Seq(AnyInk)
           m == Len(g)
           N == Larger(r, m)
           fitted == [j \in 1 .. N |->
                        [i \in 1 .. c |-> IF j <= m /\ i <= Len(g[j])
                                          THEN g[j][i] ELSE NoInk]]
           base == [s EXCEPT !.grid = fitted]
           t == Times(Len(fitted) - r, Shrunk, base)
           u == Resized(s, c, r)
<1>1. /\ s \in Screens /\ c \in Nat /\ r \in Nat /\ m \in Nat /\ b \in Seq(S)
      /\ NoInk \in J /\ J \subseteq AnyInk /\ c > 0 /\ r > 0
  BY SoundFields DEF Positive
<1>2. /\ g \in Seq(S) /\ DOMAIN g = 1 .. m
      /\ \A j \in 1 .. m : /\ g[j] \in Seq(J) /\ Len(g[j]) \in Nat
                           /\ \A i \in 1 .. Len(g[j]) : g[j][i] \in J
  <2>1. g \in Seq(S)  BY <1>1 DEF Screens
  <2>2. DOMAIN g = 1 .. m
    <3> HIDE DEF g, S
    <3> QED  BY <2>1
  <2> QED  BY <2>1, <2>2, RowIsASeq
<1>3. N \in Nat /\ N >= r /\ N >= m /\ (m <= r => N = r)  BY <1>1 DEF Larger
<1> HIDE DEF N
<1>4. \A j \in 1 .. N : fitted[j] \in RowOf(J, c)
  <2>1. TAKE j \in 1 .. N
  <2>2. ASSUME NEW i \in 1 .. c, j <= m, i <= Len(g[j]) PROVE g[j][i] \in J
    <3>1. j \in 1 .. m  BY <1>1, <2>2
    <3>2. i \in 1 .. Len(g[j])  BY <1>1, <1>2, <2>2, <3>1
    <3> QED  BY <1>2, <3>1, <3>2
  <2> HIDE DEF J, m, g
  <2>3. fitted[j] \in [1 .. c -> J]  BY <1>1, <2>2
  <2> HIDE DEF fitted
  <2> QED  BY <1>1, <2>3, LineFunctions
<1>5. fitted \in GridOf(J, c, N)
  <2>1. fitted \in [1 .. N -> RowOf(J, c)]  BY <1>4
  <2> HIDE DEF fitted, J
  <2> QED  BY <1>1, <1>3, <2>1, RowChanges
<1> HIDE DEF fitted
<1>6. /\ base \in Screens /\ base.main = s.main /\ base.grid = fitted /\ base.scrollback = b
      /\ Inks(base) = J
  <2>1. fitted \in Seq(Seq(AnyInk))  BY <1>1, <1>3, <1>5, GridsAreSeqs
  <2>2. /\ base \in Screens /\ base.main = s.main /\ base.grid = fitted /\ base.scrollback = b
    BY <1>1, <2>1 DEF Screens
  <2> QED  BY <2>2 DEF Inks
<1> HIDE DEF J, base
<1>7. t \in Shrinking(base, c, r) /\ (N = r => t = base)
  <2>1. Len(fitted) = N  BY <1>5 DEF GridOf
  <2>2. N - r \in Nat /\ r + (N - r) = N /\ (N = r => N - r = 0)  BY <1>1, <1>3
  <2>3. base \in Shrinking(base, c, r + (N - r))
    BY <1>5, <1>6, <2>2 DEF Shrinking
  <2> DEFINE n == N - r
  <2>4. n \in Nat /\ base \in Shrinking(base, c, r + n) /\ (N = r => n = 0)  BY <2>2, <2>3
  <2> HIDE DEF n
  <2>5. Times(n, Shrunk, base) \in ShrunkTo(base, base, c, n, r)  BY <1>1, <2>4, ShrunkOften
  <2> QED  BY <2>1, <2>4, <2>5 DEF n, ShrunkTo
<1>8. u = [t EXCEPT !.columns = c, !.rows = r, !.top = Smaller(@, r - 1), !.bottom = r - 1,
                    !.x = Smaller(@, c - 1), !.y = Smaller(@, r - 1), !.scrollback = Trimmed(@)]
  BY DEF Resized, N, fitted, base
<1> HIDE DEF t, u
<1>9. /\ t \in Screens /\ t.main = s.main /\ t.grid \in GridOf(J, c, r)
      /\ Inked(t.scrollback \o t.grid) = Inked(b \o fitted) /\ t.scrollback \in Seq(S)
      /\ s.main = NoGrid /\ DrawnOn(t.scrollback) => DrawnOn(b)
  BY <1>6, <1>7 DEF Shrinking, Screens
<1>10. Trimmed(t.scrollback) \in Seq(S) /\ Len(Trimmed(t.scrollback)) <= Limit
  BY <1>9, TrimmedFacts
<1>11. /\ Smaller(t.top, r - 1) \in Nat /\ Smaller(t.top, r - 1) <= r - 1 /\ r - 1 \in Nat
       /\ Smaller(t.x, c - 1) \in Nat /\ Smaller(t.y, r - 1) \in Nat /\ r - 1 < r
  <2>1. t.top \in Nat /\ t.x \in Nat /\ t.y \in Nat  BY <1>9 DEF Screens
  <2>2. r - 1 \in Nat /\ c - 1 \in Nat /\ r - 1 < r  BY <1>1
  <2> QED  BY <2>1, <2>2 DEF Smaller
<1>12. /\ u \in Screens /\ u.scrollback = Trimmed(t.scrollback) /\ u.grid = t.grid
       /\ u.main = s.main /\ u.rows = r /\ u.columns = c
       /\ u.top = Smaller(t.top, r - 1) /\ u.bottom = r - 1
  BY <1>8, <1>9, <1>10, <1>11 DEF Screens
<1>13. InSize(u, u.grid) /\ u.grid \in Seq(Seq(Inks(u))) /\ Len(u.grid) > 0
  <2>1. Inks(u) = J  BY <1>12 DEF Inks, J
  <2>2. u.grid \in GridOf(J, u.columns, u.rows)  BY <1>9, <1>12
  <2>3. u.grid \in Seq(Seq(J)) /\ InSize(u, u.grid)  BY <1>1, <1>12, <2>2, SizedGrids
  <2>4. Len(u.grid) = r  BY <1>12, <2>3 DEF InSize
  <2> QED  BY <1>1, <2>1, <2>3, <2>4
<1>14. Sound(u)
  BY <1>10, <1>11, <1>12, <1>13 DEF Sound
<1>15. ASSUME DrawnOn(u.scrollback), ~DrawnOn(b) PROVE s.main # NoGrid /\ r < s.rows
  <2>1. DrawnOn(t.scrollback)  BY <1>9, <1>12, <1>15, DrawnTrimmed
  <2>2. s.main # NoGrid  BY <1>9, <1>15, <2>1
  <2>3. m = s.rows  BY <2>2 DEF Sound, InSize
  <2>4. t # base  BY <1>6, <1>15, <2>1
  <2> QED  BY <1>1, <1>3, <1>7, <2>2, <2>3, <2>4
<1>16. ASSUME \A j \in 1 .. m : Len(g[j]) = c PROVE Inked(b \o fitted) = Inked(b \o g)
  <2> DEFINE p == SubSeq(fitted, 1, m)
             q == SubSeq(fitted, m + 1, N)
  <2>1. fitted \in Seq(S) /\ Len(fitted) = N  BY <1>1, <1>3, <1>5, GridsAreSeqs DEF J
  <2> HIDE DEF m, S
  <2>2. /\ p \in Seq(S) /\ Len(p) = m /\ \A j \in 1 .. m : p[j] = fitted[j]
        /\ q \in Seq(S) /\ Len(q) = N - m /\ \A j \in 1 .. N - m : q[j] = fitted[m + j]
        /\ m \in 0 .. N
    <3>1. m \in 0 .. N  BY <1>1, <1>3
    <3> QED  BY <2>1, <3>1
  <2>3. fitted = p \o q  BY ZenonT(30), <2>1, <2>2, SplitsAt
  <2> HIDE DEF p, q
  <2>4. \A j \in 1 .. m : fitted[j] = g[j]
    <3>1. TAKE j \in 1 .. m
    <3>2. g[j] \in [1 .. c -> J] /\ j \in 1 .. N /\ j <= m
      <4>1. g[j] \in Seq(J) /\ Len(g[j]) = c  BY <1>2, <1>16
      <4>2. g[j] \in [1 .. c -> J]  BY <1>1, <4>1, LineFunctions DEF RowOf
      <4> QED  BY <1>1, <1>3, <4>2
    <3>3. fitted[j] = [i \in 1 .. c |-> g[j][i]]  BY <1>16, <3>2 DEF fitted
    <3> HIDE DEF g
    <3> QED  BY <3>2, <3>3
  <2>5. p = g
    <3> HIDE DEF g
    <3>1. Len(g) = m  BY DEF m
    <3> QED  BY <1>2, <2>2, <2>4, <3>1, SeqEqual
  <2>6. Inked(q) = <<>>
    <3>1. ASSUME NEW j \in 1 .. N - m PROVE ~HasInk(q[j])
      <4>1. m + j \in 1 .. N /\ ~(m + j <= m)  BY <1>1, <1>3
      <4>2. fitted[m + j] = [i \in 1 .. c |-> NoInk]  BY <4>1 DEF fitted
      <4>3. q[j] = [i \in 1 .. c |-> NoInk]  BY <2>2, <4>2
      <4> QED  BY <4>3 DEF HasInk
    <3> QED  BY <2>2, <3>1, InkedBlank
  <2>7. Inked(fitted) = Inked(g)
    <3>1. Inked(fitted) = Inked(p) \o Inked(q)  BY <2>2, <2>3, InkedConcat
    <3>2. Inked(p) \in Seq(Tags(S))  BY <2>2, InkedIsASeq
    <3> QED  BY <2>5, <2>6, <3>1, <3>2, ConcatEmptySeq
  <2>8. Inked(b \o fitted) = Inked(b) \o Inked(fitted) /\ Inked(b \o g) = Inked(b) \o Inked(g)
    BY <1>1, <1>2, <2>1, InkedConcat
  <2> QED  BY <2>7, <2>8
<1>17. /\ InkedRows(s) = Inked(b \o g)
       /\ InkedRows(u) = Inked(Trimmed(t.scrollback) \o t.grid)
  BY <1>12 DEF InkedRows, Inked
<1>18. \/ Trimmed(t.scrollback) = t.scrollback
       \/ /\ Len(Trimmed(t.scrollback)) = Limit
          /\ EndOf(Inked(Trimmed(t.scrollback) \o t.grid), Inked(t.scrollback \o t.grid))
  <2>1. t.grid \in Seq(S)  BY <1>1, <1>9, GridsAreSeqs DEF J
  <2> QED  BY <1>9, <2>1, TrimmedEnds
<1>19. ASSUME \A j \in DOMAIN s.grid : Len(s.grid[j]) = c
       PROVE  \/ InkedRows(u) = InkedRows(s)
              \/ Len(u.scrollback) = Limit /\ EndOf(InkedRows(u), InkedRows(s))
  <2>1. Inked(b \o fitted) = Inked(b \o g)  BY <1>2, <1>16, <1>19
  <2> QED  BY <1>9, <1>12, <1>17, <1>18, <2>1
<1> QED  BY <1>12, <1>13, <1>14, <1>15, <1>19 DEF u

-----------------------------------------------------------------------------
LEMMA FreshSound ==
    ASSUME NEW c \in Positive, NEW r \in Positive
    PROVE  /\ Sound(FreshScreen(c, r))
           /\ InSize(FreshScreen(c, r), FreshScreen(c, r).grid)
           /\ ~DrawnOn(FreshScreen(c, r).scrollback)
           /\ FreshScreen(c, r).rows = r
<1> DEFINE s == FreshScreen(c, r)
<1>1. c \in Nat /\ r \in Nat /\ r > 0  BY DEF Positive
<1>2. Page(c, r) \in GridOf(ShellInk, c, r)  BY <1>1, PageIsAGrid DEF ShellInk
<1>3. Page(c, r) \in Seq(Seq(ShellInk)) /\ Page(c, r) \in Seq(Seq(AnyInk)) /\ Len(Page(c, r)) = r
  BY <1>1, <1>2, GridRows, Widened
<1>4. 0 \in Nat /\ r - 1 \in Nat /\ 0 <= r - 1 /\ r - 1 < r /\ <<0, 0>> \in Nat \X Nat
  BY <1>1
<1>5. Limit \in Nat /\ <<>> \in Seq(Seq(ShellInk)) /\ <<>> \in Seq(Seq(AnyInk)) /\ Len(<<>>) = 0
  BY ScreenAssumption
<1>6. s \in Screens  BY <1>3, <1>4, <1>5 DEF FreshScreen, Screens, NoGrid
<1>7. /\ s.main = NoGrid /\ s.grid = Page(c, r) /\ s.columns = c /\ s.rows = r /\ s.top = 0
      /\ s.bottom = r - 1 /\ s.scrollback = <<>>
  BY DEF FreshScreen
<1> HIDE DEF s
<1>8. InSize(s, s.grid)  BY <1>1, <1>2, <1>7, SizedGrids
<1>9. Sound(s)  BY <1>1, <1>3, <1>4, <1>5, <1>6, <1>7 DEF Sound, Inks
<1>10. ~DrawnOn(s.scrollback)  BY <1>7 DEF DrawnOn
<1> QED  BY <1>7, <1>8, <1>9, <1>10 DEF s

LEMMA RegionFollows ==
    ASSUME NEW s, Sound(s), NEW m \in Nat, NEW n \in Nat
    PROVE  LET top == Clamp(m - 1, s.rows - 1)
               bottom == IF n = 0 THEN s.rows - 1 ELSE n - 1
           IN  Follows(s, [s EXCEPT !.top = top,
                                    !.bottom = Larger(top, Smaller(bottom, s.rows - 1)),
                                    !.x = 0, !.y = top])
<1> DEFINE top == Clamp(m - 1, s.rows - 1)
           bottom == IF n = 0 THEN s.rows - 1 ELSE n - 1
           low == Larger(top, Smaller(bottom, s.rows - 1))
           t == [s EXCEPT !.top = top, !.bottom = low, !.x = 0, !.y = top]
<1>1. s.rows - 1 \in Nat  BY SoundFields
<1>2. top \in Nat /\ top <= s.rows - 1  BY <1>1 DEF Clamp, Larger, Smaller
<1>3. bottom \in Nat  BY <1>1
<1> HIDE DEF top, bottom
<1>4. low \in Nat /\ top <= low /\ low <= s.rows - 1  BY <1>1, <1>2, <1>3 DEF Larger, Smaller
<1>5. low < s.rows  BY <1>1, <1>4, SoundFields
<1> HIDE DEF low
<1>6. /\ t \in Screens /\ t.grid = s.grid /\ t.main = s.main /\ t.columns = s.columns
      /\ t.rows = s.rows /\ t.scrollback = s.scrollback /\ t.top = top /\ t.bottom = low
  <2>1. s \in Screens  BY SoundFields
  <2> QED  BY <1>2, <1>4, <2>1 DEF Screens
<1> HIDE DEF t
<1>7. Inks(t) = Inks(s) /\ (InSize(t, t.grid) <=> InSize(s, s.grid))
  BY <1>6 DEF Inks, InSize
<1>8. Follows(s, t)  BY <1>4, <1>5, <1>6, <1>7, SoundFields DEF Follows, Sound
<1> QED  BY <1>8 DEF t, low, top, bottom

(* The screen the other one is exchanged for. *)
LEMMA SwitchSound ==
    ASSUME NEW s, Sound(s)
    PROVE  /\ s.main = NoGrid =>
                 LET t == SwitchedTo(s) IN
                 Sound(t) /\ InSize(t, t.grid) /\ t.rows = s.rows /\ t.scrollback = s.scrollback
           /\ s.main # NoGrid =>
                 LET t == SwitchedBack(s) IN
                 /\ Sound(t) /\ t.main = NoGrid /\ (InSize(s, s.main) => InSize(t, t.grid))
                 /\ t.rows = s.rows /\ t.scrollback = s.scrollback
<1>1. ASSUME s.main = NoGrid
      PROVE  LET t == SwitchedTo(s) IN
             Sound(t) /\ InSize(t, t.grid) /\ t.rows = s.rows /\ t.scrollback = s.scrollback
  <2> DEFINE t == SwitchedTo(s)
             page == Page(s.columns, s.rows)
  <2>1. s.grid \in Seq(Seq(ShellInk)) /\ s.grid # NoGrid
    BY <1>1, SoundFields DEF Inks, NoGrid
  <2>2. page \in Seq(Seq(Inks(s))) /\ Len(page) > 0 /\ InSize(s, page)  BY BlankPage
  <2>3. page \in Seq(Seq(AnyInk))  BY <1>1, <2>2, Widened DEF Inks
  <2> HIDE DEF page
  <2>4. /\ t \in Screens /\ t.grid = page /\ t.main = s.grid /\ t.columns = s.columns
        /\ t.rows = s.rows /\ t.scrollback = s.scrollback /\ t.top = s.top /\ t.bottom = s.bottom
    <3>1. s \in Screens /\ s.x \in Nat /\ s.y \in Nat  BY SoundFields
    <3> QED  BY <2>1, <2>3, <3>1 DEF SwitchedTo, page, Screens
  <2> HIDE DEF t
  <2>5. Inks(t) = AnyInk /\ InSize(t, t.grid)  BY <2>1, <2>2, <2>4 DEF Inks, InSize
  <2>6. Sound(t)  BY <2>2, <2>3, <2>4, <2>5, SoundFields DEF Sound
  <2> QED  BY <2>4, <2>5, <2>6 DEF t
<1>2. ASSUME s.main # NoGrid
      PROVE  LET t == SwitchedBack(s) IN
             /\ Sound(t) /\ t.main = NoGrid /\ (InSize(s, s.main) => InSize(t, t.grid))
             /\ t.rows = s.rows /\ t.scrollback = s.scrollback
  <2> DEFINE t == SwitchedBack(s)
  <2>1. /\ s.main \in Seq(Seq(ShellInk)) /\ s.main \in Seq(Seq(AnyInk))
        /\ NoGrid \in Seq(Seq(ShellInk))
    BY SoundFields, Widened DEF NoGrid
  <2>2. Len(s.main) > 0
    <3> DEFINE S == Seq(ShellInk)
    <3>1. s.main \in Seq(S) /\ s.main # <<>>  BY <1>2, <2>1 DEF NoGrid
    <3> HIDE DEF S
    <3> QED  BY <3>1
  <2>3. /\ t \in Screens /\ t.grid = s.main /\ t.main = NoGrid /\ t.columns = s.columns
        /\ t.rows = s.rows /\ t.scrollback = s.scrollback /\ t.top = s.top /\ t.bottom = s.bottom
    <3>1. s \in Screens /\ s.saved[1] \in Nat /\ s.saved[2] \in Nat  BY SoundFields
    <3> QED  BY <2>1, <3>1 DEF SwitchedBack, Screens
  <2> HIDE DEF t
  <2>4. Inks(t) = ShellInk /\ (InSize(s, s.main) => InSize(t, t.grid))
    BY <2>3 DEF Inks, InSize
  <2>5. Sound(t)  BY <2>1, <2>2, <2>3, <2>4, SoundFields DEF Sound
  <2> QED  BY <2>3, <2>4, <2>5 DEF t
<1> QED  BY <1>1, <1>2

LEMMA AmountsAreCounts == Amounts \subseteq Nat /\ Counts \subseteq Nat
  /\ \A n \in Amounts : n - 1 \in Nat
BY ScreenAssumption DEF Amounts, Larger

LEMMA ControlsFollow ==
    ASSUME Sound(scr), Control \/ MoveCursor \/ Position PROVE Follows(scr, scr')
<1>1. /\ scr.columns - 1 \in Nat /\ scr.rows - 1 \in Nat /\ scr.x \in Nat /\ scr.y \in Nat
  BY SoundFields
<1>2. /\ \A x \in Nat : Follows(scr, [scr EXCEPT !.x = x])
      /\ \A y \in Nat : Follows(scr, [scr EXCEPT !.y = y])
      /\ \A x, y \in Nat : Follows(scr, [scr EXCEPT !.y = y, !.x = x])
  BY <1>1, CursorMoves
<1>3. CASE Control
  <2> DEFINE tab == Smaller(scr.columns - 1, (scr.x \div 8 + 1) * 8)
             back == Larger(0, scr.x - 1)
  <2>1. tab \in Nat
    <3>1. (scr.x \div 8 + 1) * 8 \in Nat  BY <1>1
    <3> QED  BY <1>1, <3>1 DEF Smaller
  <2>2. back \in Nat  BY <1>1 DEF Larger
  <2>3. \/ scr' = [scr EXCEPT !.x = 0] \/ scr' = Newlined(scr)
        \/ scr' = [scr EXCEPT !.x = back] \/ scr' = [scr EXCEPT !.x = tab]
    BY <1>3 DEF Control
  <2> HIDE DEF tab, back
  <2>4. 0 \in Nat /\ Follows(scr, Newlined(scr))  BY NewlinedFollows
  <2> QED  BY <1>2, <2>1, <2>2, <2>3, <2>4
<1>4. CASE MoveCursor
  <2>1. PICK k \in Amounts :
           \/ scr' = [scr EXCEPT !.y = Larger(0, scr.y - k)]
           \/ scr' = [scr EXCEPT !.y = Smaller(scr.rows - 1, scr.y + k)]
           \/ scr' = [scr EXCEPT !.x = Smaller(scr.columns - 1, scr.x + k)]
           \/ scr' = [scr EXCEPT !.x = Larger(0, scr.x - k)]
    BY <1>4 DEF MoveCursor
  <2> DEFINE y1 == Larger(0, scr.y - k)
             y2 == Smaller(scr.rows - 1, scr.y + k)
             x1 == Smaller(scr.columns - 1, scr.x + k)
             x2 == Larger(0, scr.x - k)
  <2>2. \/ scr' = [scr EXCEPT !.y = y1] \/ scr' = [scr EXCEPT !.y = y2]
        \/ scr' = [scr EXCEPT !.x = x1] \/ scr' = [scr EXCEPT !.x = x2]
    BY <2>1
  <2>3. y1 \in Nat /\ y2 \in Nat /\ x1 \in Nat /\ x2 \in Nat
    BY <1>1, AmountsAreCounts DEF Larger, Smaller
  <2> HIDE DEF y1, y2, x1, x2
  <2> QED  BY <1>2, <2>2, <2>3
<1>5. CASE Position
  <2> DEFINE Y(k) == Clamp(k - 1, scr.rows - 1)
             X(k) == Clamp(k - 1, scr.columns - 1)
  <2>1. \A k \in Amounts : X(k) \in Nat /\ Y(k) \in Nat
    BY <1>1, AmountsAreCounts DEF Clamp, Larger, Smaller
  <2>2. \/ \E m, n \in Amounts : scr' = [scr EXCEPT !.y = Y(m), !.x = X(n)]
        \/ \E n \in Amounts : scr' = [scr EXCEPT !.x = X(n)]
        \/ \E n \in Amounts : scr' = [scr EXCEPT !.y = Y(n)]
    BY <1>5 DEF Position
  <2> HIDE DEF X, Y
  <2> QED  BY <1>2, <2>1, <2>2
<1> QED  BY <1>3, <1>4, <1>5

LEMMA EditsFollow ==
    ASSUME Sound(scr), Erase \/ EditCells \/ ScrollRegion PROVE Follows(scr, scr')
<1>1. CASE Erase  BY <1>1, ErasedDisplayFollows, ErasedLineFollows DEF Erase
<1>2. CASE EditCells
  <2>1. PICK k \in Amounts :
           \/ scr' = Times(k, LineInserted, scr) \/ scr' = Times(k, LineDeleted, scr)
           \/ scr' = CharsDeleted(scr, k) \/ scr' = CharsErased(scr, k)
    BY <1>2 DEF EditCells
  <2>2. k \in Nat  BY AmountsAreCounts
  <2>3. Follows(scr, Times(k, LineInserted, scr))  BY <2>2, LinesInsertedFollow
  <2>4. Follows(scr, Times(k, LineDeleted, scr))  BY <2>2, LinesDeletedFollow
  <2>5. Follows(scr, CharsDeleted(scr, k)) /\ Follows(scr, CharsErased(scr, k))
    BY <2>2, CharsFollow
  <2> QED  BY <2>1, <2>3, <2>4, <2>5
<1>3. CASE ScrollRegion
  <2> DEFINE Region(m, n) ==
               LET top == Clamp(m - 1, scr.rows - 1)
                   bottom == IF n = 0 THEN scr.rows - 1 ELSE n - 1
               IN  [scr EXCEPT !.top = top,
                               !.bottom = Larger(top, Smaller(bottom, scr.rows - 1)),
                               !.x = 0, !.y = top]
  <2>1. PICK m \in Amounts, n \in Counts : scr' = Region(m, n)  BY <1>3 DEF ScrollRegion
  <2>2. Follows(scr, Region(m, n))  BY AmountsAreCounts, RegionFollows
  <2> HIDE DEF Region
  <2> QED  BY <2>1, <2>2
<1> QED  BY <1>1, <1>2, <1>3

(* Every step but three follows the screen before it. *)
LEMMA MostStepsFollow ==
    ASSUME Sound(scr), [ScreenNext]_scr, ~Resize, ~AlternateScreen, ~Reset
    PROVE  Follows(scr, scr')
<1>1. CASE Write
  BY <1>1, PrintedFollows DEF Write, Ink, Alternate
<1>2. CASE Control \/ MoveCursor \/ Position  BY <1>2, ControlsFollow
<1>3. CASE Erase \/ EditCells \/ ScrollRegion  BY <1>3, EditsFollow
<1>4. CASE SaveCursor  BY <1>4, SoundFields, CursorMoves DEF SaveCursor
<1>5. CASE RestoreCursor  BY <1>5, SoundFields, CursorMoves DEF RestoreCursor
<1>6. CASE UNCHANGED scr
  <2>1. scr' = scr  BY <1>6
  <2>2. Follows(scr, scr)  BY FollowsItself
  <2> QED  BY <2>1, <2>2
<1> QED  BY <1>1, <1>2, <1>3, <1>4, <1>5, <1>6 DEF ScreenNext

LEMMA ResizeSteps ==
    ASSUME Sound(scr), Resize
    PROVE  /\ Sound(scr') /\ InSize(scr', scr'.grid)
           /\ DrawnOn(scr'.scrollback) => \/ DrawnOn(scr.scrollback)
                                          \/ Alternate /\ scr'.rows < scr.rows
           /\ (\A j \in DOMAIN scr.grid : Len(scr.grid[j]) = scr'.columns) =>
                 \/ InkedRows(scr') = InkedRows(scr)
                 \/ Len(scr'.scrollback) = Limit /\ EndOf(InkedRows(scr'), InkedRows(scr))
<1>1. PICK z \in Sizes : scr' = Resized(scr, z[1], z[2])  BY DEF Resize
<1>2. z[1] \in Positive /\ z[2] \in Positive  BY ScreenAssumption DEF Positive
<1> DEFINE c == z[1]
           r == z[2]
           u == Resized(scr, c, r)
<1>3. c \in Positive /\ r \in Positive  BY <1>2
<1> HIDE DEF c, r
<1>4. /\ Sound(u) /\ InSize(u, u.grid) /\ u.rows = r /\ u.columns = c
      /\ DrawnOn(u.scrollback) => \/ DrawnOn(scr.scrollback)
                                  \/ scr.main # NoGrid /\ r < scr.rows
      /\ (\A j \in DOMAIN scr.grid : Len(scr.grid[j]) = c) =>
            \/ InkedRows(u) = InkedRows(scr)
            \/ Len(u.scrollback) = Limit /\ EndOf(InkedRows(u), InkedRows(scr))
  BY <1>3, ResizedKeeps
<1>5. scr' = u  BY <1>1 DEF c, r
<1> HIDE DEF u
<1> QED  BY <1>4, <1>5 DEF Alternate

LEMMA SwitchSteps ==
    ASSUME Sound(scr), AlternateScreen
    PROVE  /\ Sound(scr') /\ scr'.rows = scr.rows /\ scr'.scrollback = scr.scrollback
           /\ ~InSize(scr', scr'.grid) => Alternate /\ ~Alternate' /\ ~InSize(scr, scr.main)
<1>1. CASE ~Alternate /\ scr' = SwitchedTo(scr)  BY <1>1, SwitchSound DEF Alternate
<1>2. CASE Alternate /\ scr' = SwitchedBack(scr)  BY <1>2, SwitchSound DEF Alternate
<1> QED  BY <1>1, <1>2 DEF AlternateScreen

LEMMA ResetSteps ==
    ASSUME Sound(scr), Reset
    PROVE  /\ Sound(scr') /\ scr'.rows = scr.rows
           /\ InSize(scr', scr'.grid) /\ ~DrawnOn(scr'.scrollback)
<1>1. scr.columns \in Positive /\ scr.rows \in Positive  BY DEF Sound, Screens
<1> QED  BY <1>1, FreshSound DEF Reset

(* A screen stays sound. *)
LEMMA ScreensStaySound == ScreenSpec => []Sound(scr)
<1>1. ScreenInit => Sound(scr)
  <2>1. ASSUME NEW z \in Sizes PROVE z[1] \in Positive /\ z[2] \in Positive
    BY ScreenAssumption DEF Positive
  <2> QED  BY <2>1, FreshSound DEF ScreenInit
<1>2. Sound(scr) /\ [ScreenNext]_scr => Sound(scr)'
  BY MostStepsFollow, ResizeSteps, SwitchSteps, ResetSteps DEF Follows
<1> QED  BY <1>1, <1>2, PTL DEF ScreenSpec

(* For every size and limit, whatever an application sends and whenever the  *)
(* window changes: a screen given to an application has the window's size,   *)
(* and region and scrollback keep their limits (Screen.feed, resize).        *)
THEOREM GridsFit == ScreenSpec => []ScreenFits
<1>1. Sound(scr) => ScreenFits
  BY SoundFields DEF Sound, ScreenFits, Alternate
<1> QED  BY <1>1, ScreensStaySound, PTL

(* For every size and limit: nothing an application drew is on the screen    *)
(* the shell gets back, whenever the window changed (_alternate_screen).     *)
THEOREM ShellsAreClean == ScreenSpec => []ShellScreenIsClean
<1>1. Sound(scr) => ShellScreenIsClean
  <2> SUFFICES ASSUME Sound(scr) PROVE ~DrawnOn(ShellScreen)  BY DEF ShellScreenIsClean
  <2> DEFINE own == ShellScreen
  <2>1. own \in Seq(Seq(ShellInk))  BY SoundFields DEF ShellScreen, Alternate, Inks
  <2> HIDE DEF own
  <2>2. \A j \in DOMAIN own : own[j] \in Seq(ShellInk)
    <3> DEFINE S == Seq(ShellInk)
    <3>1. own \in Seq(S)  BY <2>1
    <3> HIDE DEF S
    <3>2. \A j \in DOMAIN own : own[j] \in S  BY <3>1
    <3> QED  BY <3>2 DEF S
  <2>3. \A j \in DOMAIN own : \A i \in DOMAIN own[j] : own[j][i] \in ShellInk  BY <2>2
  <2>4. ~DrawnOn(own)  BY <2>3 DEF DrawnOn, ShellInk, NoInk
  <2> QED  BY <2>4 DEF own
<1> QED  BY <1>1, ScreensStaySound, PTL

(* For every size and limit: the screen shown parts from the window's size   *)
(* only when an application leaves, and rows of one get into the shell's     *)
(* scrollback only when the window is made lower while it runs.              *)
THEOREM MixedOnlyThen == ScreenSpec => MixedOnlyByResize
<1> DEFINE Step == /\ InSize(scr, scr.grid) /\ ~InSize(scr, scr.grid)'
                         => Alternate /\ ~Alternate' /\ ~InSize(scr, scr.main)
                   /\ ~DrawnOn(scr.scrollback) /\ DrawnOn(scr.scrollback)'
                         => Alternate /\ scr'.rows < scr.rows
<1>1. Sound(scr) /\ [ScreenNext]_scr => Step
  <2> SUFFICES ASSUME Sound(scr), [ScreenNext]_scr PROVE Step  OBVIOUS
  <2>1. CASE Resize  BY <2>1, ResizeSteps
  <2>2. CASE AlternateScreen  BY <2>2, SwitchSteps
  <2>3. CASE Reset  BY <2>3, ResetSteps
  <2>4. CASE ~Resize /\ ~AlternateScreen /\ ~Reset
    BY <2>4, MostStepsFollow DEF Follows
  <2> QED  BY <2>1, <2>2, <2>3, <2>4
<1> HIDE DEF Step
<1>2. Sound(scr) /\ [ScreenNext]_scr => [Step]_scr  BY <1>1
<1>3. ScreenSpec => [][Step]_scr  BY <1>2, ScreensStaySound, PTL DEF ScreenSpec
<1> QED  BY <1>3 DEF MixedOnlyByResize, Step

(* For every size and limit: a resize that cuts no row loses no inked row,   *)
(* except the oldest ones to a full scrollback (Screen.resize).              *)
THEOREM RowsAreKept == ScreenSpec => RowsNeverVanish
<1> DEFINE Step == /\ scr'.rows # scr.rows
                   /\ \A j \in DOMAIN scr.grid : Len(scr.grid[j]) = scr'.columns
                   => \/ InkedRows(scr') = InkedRows(scr)
                      \/ Len(scr'.scrollback) = Limit /\ EndOf(InkedRows(scr'), InkedRows(scr))
<1>1. Sound(scr) /\ [ScreenNext]_scr => Step
  <2> SUFFICES ASSUME Sound(scr), [ScreenNext]_scr, scr'.rows # scr.rows PROVE Step  OBVIOUS
  <2>1. ~AlternateScreen /\ ~Reset  BY SwitchSteps, ResetSteps
  <2>2. Resize  BY <2>1, MostStepsFollow DEF Follows
  <2> QED  BY <2>2, ResizeSteps
<1> HIDE DEF Step
<1>2. Sound(scr) /\ [ScreenNext]_scr => [Step]_scr  BY <1>1
<1>3. ScreenSpec => [][Step]_scr  BY <1>2, ScreensStaySound, PTL DEF ScreenSpec
<1> QED  BY <1>3 DEF RowsNeverVanish, Step

-----------------------------------------------------------------------------
(* Styles.  The functions that _sgr, lines and the concatenation of         *)
(* sequences compute, step by step, and that each of them exists.           *)
SgrRun(f, s, v, n) ==
    f = [i \in 0 .. n |-> IF i = 0 THEN [s |-> s, next |-> 1] ELSE ReadAt(f[i - 1], v, i)]
MeaningRun(f, s, gs, n) ==
    f = [i \in 0 .. n |-> IF i = 0 THEN s ELSE Meaning(f[i - 1], gs[i])]
LineRun(f, line, n) ==
    f = [i \in 0 .. n |-> IF i = 0 THEN <<>> ELSE WithCell(f[i - 1], line[i])]
FlattenRun(f, q, n) ==
    f = [i \in 1 .. n |-> IF i = 1 THEN q[i] ELSE f[i - 1] \o q[i]]

(* h is g, which ends at k, with one more value.                            *)
Spans(h, m, n) == h = [i \in m .. n |-> h[i]]
Longer(h, g, m, k, last) ==
    /\ Spans(h, m, k + 1)
    /\ \A i \in m .. k : h[i] = g[i]
    /\ m <= k + 1 => h[k + 1] = last

LEMMA OneMore ==
    ASSUME NEW m \in Nat, NEW k \in Nat, NEW g, NEW last
    PROVE  \E h : Longer(h, g, m, k, last)
<1> DEFINE h == [i \in m .. k + 1 |-> IF i = k + 1 THEN last ELSE g[i]]
<1>1. Spans(h, m, k + 1)  BY DEF Spans
<1>2. \A i \in m .. k : h[i] = g[i]  OBVIOUS
<1>3. m <= k + 1 => h[k + 1] = last  OBVIOUS
<1> HIDE DEF h
<1>4. Longer(h, g, m, k, last)  BY <1>1, <1>2, <1>3 DEF Longer
<1> QED  BY <1>4

LEMMA SgrExists == ASSUME NEW s, NEW v, NEW n \in Nat PROVE \E f : SgrRun(f, s, v, n)
<1> DEFINE T == {k \in Nat : \E f : SgrRun(f, s, v, k)}
           b == [s |-> s, next |-> 1]
<1>1. 0 \in T
  <2>1. SgrRun([i \in 0 .. 0 |-> b], s, v, 0)  BY DEF SgrRun
  <2> QED  BY <2>1
<1>2. ASSUME NEW k \in 0 .. n - 1, k \in T PROVE k + 1 \in T
  <2>1. PICK g : SgrRun(g, s, v, k)  BY <1>2
  <2> DEFINE last == ReadAt(g[k], v, k + 1)
  <2> HIDE DEF last
  <2>0. PICK h : Longer(h, g, 0, k, last)  BY OneMore
  <2>1a. k \in Nat  OBVIOUS
  <2>2. (\A i \in 0 .. k : h[i] = g[i]) /\ h[k + 1] = last  BY <2>0, <2>1a DEF Longer
  <2> HIDE DEF b
  <2>3. \A i \in 0 .. k : g[i] = IF i = 0 THEN b ELSE ReadAt(g[i - 1], v, i)
    BY <2>1 DEF SgrRun, b
  <2>4. \A i \in 0 .. k + 1 : h[i] = IF i = 0 THEN b ELSE ReadAt(h[i - 1], v, i)
    <3>1. TAKE i \in 0 .. k + 1
    <3>2. CASE i = k + 1
      <4>1. h[i] = last /\ h[i - 1] = g[k]  BY <2>2, <3>2
      <4> QED  BY <3>2, <4>1 DEF last
    <3>3. CASE i \in 1 .. k
      <4>1. h[i] = g[i] /\ h[i - 1] = g[i - 1]  BY <2>2, <3>3
      <4> QED  BY <2>3, <3>3, <4>1
    <3>4. CASE i = 0  BY <2>2, <2>3, <3>4
    <3> QED  BY <3>2, <3>3, <3>4
  <2>5. SgrRun(h, s, v, k + 1)  BY <2>0, <2>4 DEF Longer, Spans, SgrRun, b
  <2> QED  BY <2>5
<1> HIDE DEF T
<1>3. 0 .. n \subseteq T  BY <1>1, <1>2, InductiveSet
<1> QED  BY <1>3 DEF T

LEMMA MeaningExists == ASSUME NEW s, NEW gs, NEW n \in Nat PROVE \E f : MeaningRun(f, s, gs, n)
<1> DEFINE T == {k \in Nat : \E f : MeaningRun(f, s, gs, k)}
<1>1. 0 \in T
  <2>1. MeaningRun([i \in 0 .. 0 |-> s], s, gs, 0)  BY DEF MeaningRun
  <2> QED  BY <2>1
<1>2. ASSUME NEW k \in 0 .. n - 1, k \in T PROVE k + 1 \in T
  <2>1. PICK g : MeaningRun(g, s, gs, k)  BY <1>2
  <2> DEFINE last == Meaning(g[k], gs[k + 1])
  <2> HIDE DEF last
  <2>0. PICK h : Longer(h, g, 0, k, last)  BY OneMore
  <2>1a. k \in Nat  OBVIOUS
  <2>2. (\A i \in 0 .. k : h[i] = g[i]) /\ h[k + 1] = last  BY <2>0, <2>1a DEF Longer
  <2>3. \A i \in 0 .. k : g[i] = IF i = 0 THEN s ELSE Meaning(g[i - 1], gs[i])
    BY <2>1 DEF MeaningRun
  <2>4. \A i \in 0 .. k + 1 : h[i] = IF i = 0 THEN s ELSE Meaning(h[i - 1], gs[i])
    <3>1. TAKE i \in 0 .. k + 1
    <3>2. CASE i = k + 1
      <4>1. h[i] = last /\ h[i - 1] = g[k]  BY <2>2, <3>2
      <4> QED  BY <3>2, <4>1 DEF last
    <3>3. CASE i \in 1 .. k
      <4>1. h[i] = g[i] /\ h[i - 1] = g[i - 1]  BY <2>2, <3>3
      <4> QED  BY <2>3, <3>3, <4>1
    <3>4. CASE i = 0  BY <2>2, <2>3, <3>4
    <3> QED  BY <3>2, <3>3, <3>4
  <2>5. MeaningRun(h, s, gs, k + 1)  BY <2>0, <2>4 DEF Longer, Spans, MeaningRun
  <2> QED  BY <2>5
<1> HIDE DEF T
<1>3. 0 .. n \subseteq T  BY <1>1, <1>2, InductiveSet
<1> QED  BY <1>3 DEF T

LEMMA LineExists == ASSUME NEW line, NEW n \in Nat PROVE \E f : LineRun(f, line, n)
<1> DEFINE T == {k \in Nat : \E f : LineRun(f, line, k)}
<1>1. 0 \in T
  <2>1. LineRun([i \in 0 .. 0 |-> <<>>], line, 0)  BY DEF LineRun
  <2> QED  BY <2>1
<1>2. ASSUME NEW k \in 0 .. n - 1, k \in T PROVE k + 1 \in T
  <2>1. PICK g : LineRun(g, line, k)  BY <1>2
  <2> DEFINE last == WithCell(g[k], line[k + 1])
  <2> HIDE DEF last
  <2>0. PICK h : Longer(h, g, 0, k, last)  BY OneMore
  <2>1a. k \in Nat  OBVIOUS
  <2>2. (\A i \in 0 .. k : h[i] = g[i]) /\ h[k + 1] = last  BY <2>0, <2>1a DEF Longer
  <2>3. \A i \in 0 .. k : g[i] = IF i = 0 THEN <<>> ELSE WithCell(g[i - 1], line[i])
    BY <2>1 DEF LineRun
  <2>4. \A i \in 0 .. k + 1 : h[i] = IF i = 0 THEN <<>> ELSE WithCell(h[i - 1], line[i])
    <3>1. TAKE i \in 0 .. k + 1
    <3>2. CASE i = k + 1
      <4>1. h[i] = last /\ h[i - 1] = g[k]  BY <2>2, <3>2
      <4> QED  BY <3>2, <4>1 DEF last
    <3>3. CASE i \in 1 .. k
      <4>1. h[i] = g[i] /\ h[i - 1] = g[i - 1]  BY <2>2, <3>3
      <4> QED  BY <2>3, <3>3, <4>1
    <3>4. CASE i = 0  BY <2>2, <2>3, <3>4
    <3> QED  BY <3>2, <3>3, <3>4
  <2>5. LineRun(h, line, k + 1)  BY <2>0, <2>4 DEF Longer, Spans, LineRun
  <2> QED  BY <2>5
<1> HIDE DEF T
<1>3. 0 .. n \subseteq T  BY <1>1, <1>2, InductiveSet
<1> QED  BY <1>3 DEF T

LEMMA FlattenExists == ASSUME NEW q, NEW n \in Nat PROVE \E f : FlattenRun(f, q, n)
<1> DEFINE T == {k \in Nat : \E f : FlattenRun(f, q, k)}
<1>1. 0 \in T
  <2> DEFINE e == [i \in 1 .. 0 |-> <<>>]
  <2>1. e = [i \in 1 .. 0 |-> IF i = 1 THEN q[i] ELSE e[i - 1] \o q[i]]  OBVIOUS
  <2> HIDE DEF e
  <2>2. FlattenRun(e, q, 0)  BY <2>1 DEF FlattenRun
  <2> QED  BY <2>2
<1>2. ASSUME NEW k \in 0 .. n - 1, k \in T PROVE k + 1 \in T
  <2>1. PICK g : FlattenRun(g, q, k)  BY <1>2
  <2> DEFINE last == IF k = 0 THEN q[1] ELSE g[k] \o q[k + 1]
  <2> HIDE DEF last
  <2>0. PICK h : Longer(h, g, 1, k, last)  BY OneMore
  <2>1a. k \in Nat  OBVIOUS
  <2>2. (\A i \in 1 .. k : h[i] = g[i]) /\ h[k + 1] = last  BY <2>0, <2>1a DEF Longer
  <2>3. \A i \in 1 .. k : g[i] = IF i = 1 THEN q[i] ELSE g[i - 1] \o q[i]
    BY <2>1 DEF FlattenRun
  <2>4. \A i \in 1 .. k + 1 : h[i] = IF i = 1 THEN q[i] ELSE h[i - 1] \o q[i]
    <3>1. TAKE i \in 1 .. k + 1
    <3>2. CASE i = k + 1
      <4>1. h[i] = last  BY <2>2, <3>2
      <4>2. CASE k = 0  BY <3>2, <4>1, <4>2 DEF last
      <4>3. CASE k # 0
        <5>1. h[i - 1] = g[k] /\ i # 1  BY <2>2, <3>2, <4>3
        <5> QED  BY <3>2, <4>1, <4>3, <5>1 DEF last
      <4> QED  BY <4>2, <4>3
    <3>3. CASE i \in 1 .. k
      <4>1. h[i] = g[i] /\ (i # 1 => h[i - 1] = g[i - 1])  BY <2>2, <3>3
      <4> QED  BY <2>3, <3>3, <4>1
    <3> QED  BY <3>2, <3>3
  <2>5. FlattenRun(h, q, k + 1)  BY <2>0, <2>4 DEF Longer, Spans, FlattenRun
  <2> QED  BY <2>5
<1> HIDE DEF T
<1>3. 0 .. n \subseteq T  BY <1>1, <1>2, InductiveSet
<1> QED  BY <1>3 DEF T

-----------------------------------------------------------------------------
(* What they return is what any such function returns.                      *)
LEMMA SgrIs ==
    ASSUME NEW s, NEW v \in Seq(Nat)
    PROVE  \E f : SgrRun(f, s, v, Len(v)) /\ Sgr(s, v) = f[Len(v)].s
<1> DEFINE f == CHOOSE f : SgrRun(f, s, v, Len(v))
<1>1. SgrRun(f, s, v, Len(v))  BY SgrExists, LenProperties
<1>2. Sgr(s, v) = f[Len(v)].s  BY DEF Sgr, SgrRun
<1> HIDE DEF f
<1> QED  BY <1>1, <1>2

LEMMA MeaningsIs ==
    ASSUME NEW s, NEW G, NEW gs \in Seq(G)
    PROVE  \E f : MeaningRun(f, s, gs, Len(gs)) /\ Meanings(s, gs) = f[Len(gs)]
<1> DEFINE f == CHOOSE f : MeaningRun(f, s, gs, Len(gs))
<1>1. MeaningRun(f, s, gs, Len(gs))  BY MeaningExists, LenProperties
<1>2. Meanings(s, gs) = f[Len(gs)]  BY DEF Meanings, MeaningRun
<1> HIDE DEF f
<1> QED  BY <1>1, <1>2

LEMMA RunsIs ==
    ASSUME NEW C, NEW line \in Seq(C)
    PROVE  \E f : LineRun(f, line, Len(line)) /\ Runs(line) = f[Len(line)]
<1> DEFINE f == CHOOSE f : LineRun(f, line, Len(line))
<1>1. LineRun(f, line, Len(line))  BY LineExists, LenProperties
<1>2. Runs(line) = f[Len(line)]  BY DEF Runs, LineRun
<1> HIDE DEF f
<1> QED  BY <1>1, <1>2

LEMMA FlattenIs ==
    ASSUME NEW C, NEW q \in Seq(C), q # <<>>
    PROVE  \E f : FlattenRun(f, q, Len(q)) /\ FlattenSeq(q) = f[Len(q)]
<1> DEFINE f == CHOOSE f : FlattenRun(f, q, Len(q))
<1>1. FlattenRun(f, q, Len(q))  BY FlattenExists, LenProperties
<1>2. Len(q) # 0  BY EmptySeq
<1>3. FlattenSeq(q) = f[Len(q)]  BY <1>2 DEF FlattenSeq, FlattenRun
<1> HIDE DEF f
<1> QED  BY <1>1, <1>3

-----------------------------------------------------------------------------
(* One more group, cell or sequence changes nothing about those before it.  *)
LEMMA MeaningsAppend ==
    ASSUME NEW s, NEW G, NEW gs \in Seq(G), NEW g \in G
    PROVE  Meanings(s, Append(gs, g)) = Meaning(Meanings(s, gs), g)
<1> DEFINE n == Len(gs)
           w == Append(gs, g)
<1>1. n \in Nat  BY LenProperties
<1>2. /\ w \in Seq(G) /\ Len(w) = n + 1 /\ w[n + 1] = g
      /\ \A i \in 1 .. n : w[i] = gs[i]
  BY AppendProperties
<1>3. PICK f : MeaningRun(f, s, gs, n) /\ Meanings(s, gs) = f[n]  BY MeaningsIs
<1>4. PICK h : MeaningRun(h, s, w, n + 1) /\ Meanings(s, w) = h[n + 1]
  <2> HIDE DEF w
  <2> QED  BY <1>2, MeaningsIs
<1>5. \A i \in 0 .. n : f[i] = IF i = 0 THEN s ELSE Meaning(f[i - 1], gs[i])
  BY <1>3 DEF MeaningRun
<1>6. \A i \in 0 .. n + 1 : h[i] = IF i = 0 THEN s ELSE Meaning(h[i - 1], w[i])
  BY <1>4 DEF MeaningRun
<1> HIDE DEF n, w
<1> DEFINE T == {i \in 0 .. n : h[i] = f[i]}
<1>7. 0 \in T  BY <1>1, <1>5, <1>6
<1>8. ASSUME NEW k \in 0 .. n - 1, k \in T PROVE k + 1 \in T
  <2>1. /\ k + 1 \in 0 .. n /\ k + 1 \in 1 .. n /\ k + 1 \in 0 .. n + 1
        /\ k + 1 # 0 /\ (k + 1) - 1 = k
    BY <1>1
  <2>2. h[k + 1] = Meaning(h[k], w[k + 1]) /\ f[k + 1] = Meaning(f[k], gs[k + 1])
    BY <1>5, <1>6, <2>1
  <2> QED  BY <1>2, <1>8, <2>1, <2>2
<1> HIDE DEF T
<1>9. 0 .. n \subseteq T  BY <1>1, <1>7, <1>8, InductiveSet
<1>10. h[n] = f[n]  BY <1>1, <1>9 DEF T
<1>11. h[n + 1] = Meaning(h[n], w[n + 1])
  <2>1. n + 1 \in 0 .. n + 1 /\ n + 1 # 0 /\ (n + 1) - 1 = n  BY <1>1
  <2> QED  BY <1>6, <2>1
<1> QED  BY <1>2, <1>3, <1>4, <1>10, <1>11 DEF w

LEMMA RunsAppend ==
    ASSUME NEW C, NEW line \in Seq(C), NEW c \in C
    PROVE  Runs(Append(line, c)) = WithCell(Runs(line), c)
<1> DEFINE n == Len(line)
           w == Append(line, c)
<1>1. n \in Nat  BY LenProperties
<1>2. /\ w \in Seq(C) /\ Len(w) = n + 1 /\ w[n + 1] = c
      /\ \A i \in 1 .. n : w[i] = line[i]
  BY AppendProperties
<1>3. PICK f : LineRun(f, line, n) /\ Runs(line) = f[n]  BY RunsIs
<1>4. PICK h : LineRun(h, w, n + 1) /\ Runs(w) = h[n + 1]
  <2> HIDE DEF w
  <2> QED  BY <1>2, RunsIs
<1>5. \A i \in 0 .. n : f[i] = IF i = 0 THEN <<>> ELSE WithCell(f[i - 1], line[i])
  BY <1>3 DEF LineRun
<1>6. \A i \in 0 .. n + 1 : h[i] = IF i = 0 THEN <<>> ELSE WithCell(h[i - 1], w[i])
  BY <1>4 DEF LineRun
<1> HIDE DEF n, w
<1> DEFINE T == {i \in 0 .. n : h[i] = f[i]}
<1>7. 0 \in T  BY <1>1, <1>5, <1>6
<1>8. ASSUME NEW k \in 0 .. n - 1, k \in T PROVE k + 1 \in T
  <2>1. /\ k + 1 \in 0 .. n /\ k + 1 \in 1 .. n /\ k + 1 \in 0 .. n + 1
        /\ k + 1 # 0 /\ (k + 1) - 1 = k
    BY <1>1
  <2>2. h[k + 1] = WithCell(h[k], w[k + 1]) /\ f[k + 1] = WithCell(f[k], line[k + 1])
    BY <1>5, <1>6, <2>1
  <2> QED  BY <1>2, <1>8, <2>1, <2>2
<1> HIDE DEF T
<1>9. 0 .. n \subseteq T  BY <1>1, <1>7, <1>8, InductiveSet
<1>10. h[n] = f[n]  BY <1>1, <1>9 DEF T
<1>11. h[n + 1] = WithCell(h[n], w[n + 1])
  <2>1. n + 1 \in 0 .. n + 1 /\ n + 1 # 0 /\ (n + 1) - 1 = n  BY <1>1
  <2> QED  BY <1>6, <2>1
<1> QED  BY <1>2, <1>3, <1>4, <1>10, <1>11 DEF w

LEMMA FlattenIsASeq ==
    ASSUME NEW S, NEW q \in Seq(Seq(S))
    PROVE  FlattenSeq(q) \in Seq(S)
<1>1. CASE q = <<>>
  <2>1. FlattenSeq(q) = <<>>  BY <1>1 DEF FlattenSeq
  <2> QED  BY <2>1
<1>2. CASE q # <<>>
  <2> DEFINE n == Len(q) - 1
  <2>1. n \in Nat /\ Len(q) = n + 1  BY <1>2, EmptySeq, LenProperties
  <2>2. PICK f : FlattenRun(f, q, n + 1) /\ FlattenSeq(q) = f[n + 1]
    <3>1. \E f : FlattenRun(f, q, Len(q)) /\ FlattenSeq(q) = f[Len(q)]  BY <1>2, FlattenIs
    <3> QED  BY <2>1, <3>1
  <2> HIDE DEF n
  <2>3. \A i \in 1 .. n + 1 : f[i] = IF i = 1 THEN q[i] ELSE f[i - 1] \o q[i]
    BY <2>2 DEF FlattenRun
  <2>4. \A i \in 1 .. n + 1 : q[i] \in Seq(S)  BY <2>1, ElementOfSeq
  <2> DEFINE T == {i \in 0 .. n : f[i + 1] \in Seq(S)}
  <2>5. 0 \in T  BY <2>1, <2>3, <2>4
  <2>6. ASSUME NEW k \in 0 .. n - 1, k \in T PROVE k + 1 \in T
    <3>1. /\ k + 1 \in 0 .. n /\ k + 1 + 1 \in 1 .. n + 1
          /\ k + 1 + 1 # 1 /\ (k + 1 + 1) - 1 = k + 1
      BY <2>1
    <3>2. f[k + 1 + 1] = f[k + 1] \o q[k + 1 + 1]  BY <2>3, <3>1
    <3>3. f[k + 1] \in Seq(S) /\ q[k + 1 + 1] \in Seq(S)  BY <2>4, <2>6, <3>1
    <3>4. f[k + 1 + 1] \in Seq(S)  BY <3>2, <3>3, ConcatProperties
    <3> QED  BY <3>1, <3>4
  <2> HIDE DEF T
  <2>7. 0 .. n \subseteq T  BY <2>1, <2>5, <2>6, InductiveSet
  <2> QED  BY <2>1, <2>2, <2>7 DEF T
<1> QED  BY <1>1, <1>2

LEMMA FlattenAppend ==
    ASSUME NEW S, NEW q \in Seq(Seq(S)), NEW x \in Seq(S)
    PROVE  FlattenSeq(Append(q, x)) = FlattenSeq(q) \o x
<1> DEFINE n == Len(q)
           w == Append(q, x)
<1>1. n \in Nat  BY LenProperties
<1>2. /\ w \in Seq(Seq(S)) /\ Len(w) = n + 1 /\ w[n + 1] = x /\ w # <<>>
      /\ \A i \in 1 .. n : w[i] = q[i]
  BY AppendProperties
<1> HIDE DEF w
<1>3. PICK h : FlattenRun(h, w, n + 1) /\ FlattenSeq(w) = h[n + 1]  BY <1>2, FlattenIs
<1>4. \A i \in 1 .. n + 1 : h[i] = IF i = 1 THEN w[i] ELSE h[i - 1] \o w[i]
  BY <1>3 DEF FlattenRun
<1>5. CASE q = <<>>
  <2>1. n = 0 /\ FlattenSeq(q) = <<>>  BY <1>5 DEF FlattenSeq
  <2>2. h[1] = x  BY <1>2, <1>4, <2>1
  <2> QED  BY <1>3, <2>1, <2>2, ConcatEmptySeq DEF w
<1>6. CASE q # <<>>
  <2>1. PICK f : FlattenRun(f, q, n) /\ FlattenSeq(q) = f[n]  BY <1>6, FlattenIs
  <2>2. \A i \in 1 .. n : f[i] = IF i = 1 THEN q[i] ELSE f[i - 1] \o q[i]
    BY <2>1 DEF FlattenRun
  <2>3. n # 0  BY <1>6, EmptySeq
  <2> HIDE DEF n
  <2> DEFINE T == {i \in 0 .. n - 1 : h[i + 1] = f[i + 1]}
  <2>4. 0 \in T  BY <1>1, <1>2, <1>4, <2>2, <2>3
  <2>5. ASSUME NEW k \in 0 .. (n - 1) - 1, k \in T PROVE k + 1 \in T
    <3>1. /\ k + 1 \in 0 .. n - 1 /\ k + 1 + 1 \in 1 .. n /\ k + 1 + 1 \in 1 .. n + 1
          /\ k + 1 + 1 # 1 /\ (k + 1 + 1) - 1 = k + 1
      BY <1>1, <2>3
    <3>2. /\ f[k + 1 + 1] = f[k + 1] \o q[k + 1 + 1]
          /\ h[k + 1 + 1] = h[k + 1] \o w[k + 1 + 1]
      BY <1>4, <2>2, <3>1
    <3> QED  BY <1>2, <2>5, <3>1, <3>2
  <2> HIDE DEF T
  <2>6. n - 1 \in Nat  BY <1>1, <2>3
  <2>7. 0 .. n - 1 \subseteq T  BY <2>4, <2>5, <2>6, InductiveSet
  <2>8. h[n] = f[n]
    <3>1. n - 1 \in T /\ (n - 1) + 1 = n  BY <2>6, <2>7, <1>1
    <3> QED  BY <3>1 DEF T
  <2>9. h[n + 1] = h[n] \o w[n + 1]
    <3>1. n + 1 \in 1 .. n + 1 /\ n + 1 # 1 /\ (n + 1) - 1 = n  BY <1>1, <2>3
    <3> QED  BY <1>4, <3>1
  <2> QED  BY <1>2, <1>3, <2>1, <2>8, <2>9 DEF w
<1> QED  BY <1>5, <1>6

-----------------------------------------------------------------------------
(* Every extended colour that is read has all of its numbers.               *)
HeadsIn(f, v, m, n) == \A i \in m + 1 .. n :
    f[i - 1].next = i /\ v[i] \in {38, 48} =>
        \/ i + 2 <= n /\ v[i + 1] = 5
        \/ i + 4 <= n /\ v[i + 1] = 2
Heads(f, v) == HeadsIn(f, v, 0, Len(v))
ReadsIn(f, v, m, n) == \A i \in m + 1 .. n : f[i] = ReadAt(f[i - 1], v, i)
(* The numbers v turn style s into t, and none of them waits for more.      *)
ReadsAs(s, v, t) == \A f : SgrRun(f, s, v, Len(v)) =>
    f[Len(v)] = [s |-> t, next |-> Len(v) + 1] /\ Heads(f, v)

LEMMA ReadsIs ==
    ASSUME NEW s, NEW v \in Seq(Nat), NEW t, ReadsAs(s, v, t) PROVE Sgr(s, v) = t
<1>1. PICK f : SgrRun(f, s, v, Len(v)) /\ Sgr(s, v) = f[Len(v)].s  BY SgrIs
<1>2. f[Len(v)] = [s |-> t, next |-> Len(v) + 1]  BY <1>1 DEF ReadsAs
<1> QED  BY <1>1, <1>2

LEMMA ReadsNothing == ASSUME NEW s PROVE ReadsAs(s, <<>>, s)
<1>1. Len(<<>>) = 0  BY EmptySeq
<1>2. SUFFICES ASSUME NEW f, SgrRun(f, s, <<>>, 0)
      PROVE f[0] = [s |-> s, next |-> 1] /\ Heads(f, <<>>)
  BY <1>1 DEF ReadsAs
<1>3. f[0] = [s |-> s, next |-> 1]  BY <1>2 DEF SgrRun
<1>4. Heads(f, <<>>)  BY <1>1 DEF Heads, HeadsIn
<1> QED  BY <1>3, <1>4

(* What is read before a group does not depend on the group.                *)
LEMMA ReadSame ==
    ASSUME NEW v \in Seq(Nat), NEW g \in Seq(Nat), NEW i \in 1 .. Len(v), NEW b,
           b.next = i /\ v[i] \in {38, 48} =>
               \/ i + 2 <= Len(v) /\ v[i + 1] = 5
               \/ i + 4 <= Len(v) /\ v[i + 1] = 2
    PROVE  ReadAt(b, v \o g, i) = ReadAt(b, v, i)
<1> DEFINE w == v \o g
<1>1. Len(v) \in Nat /\ Len(g) \in Nat  BY LenProperties
<1>2. Len(w) = Len(v) + Len(g) /\ \A j \in 1 .. Len(v) : w[j] = v[j]
  BY <1>1, ConcatProperties
<1>3. i + 4 <= Len(v) => SubSeq(w, i + 2, i + 4) = SubSeq(v, i + 2, i + 4)
  BY <1>1, SubSeqOfConcat1
<1> HIDE DEF w
<1>4. w[i] = v[i]  BY <1>2
<1>5. CASE b.next # i  BY <1>5 DEF ReadAt, w
<1>6. CASE b.next = i /\ ~ v[i] \in {38, 48}
  <2>1. ReadAt(b, w, i) = ReadAt(b, v, i)  BY <1>4, <1>6 DEF ReadAt
  <2> QED  BY <2>1 DEF w
<1>7. CASE b.next = i /\ v[i] \in {38, 48} /\ i + 2 <= Len(v) /\ v[i + 1] = 5
  <2>1. w[i + 1] = 5 /\ w[i + 2] = v[i + 2] /\ i + 2 <= Len(w) /\ i < Len(v) /\ i < Len(w)
    <3>1. i + 2 <= Len(v) /\ v[i + 1] = 5  BY <1>7
    <3>2. i + 1 \in 1 .. Len(v) /\ i + 2 \in 1 .. Len(v)  BY <1>1, <3>1
    <3>3. w[i + 1] = 5 /\ w[i + 2] = v[i + 2]  BY <1>2, <3>1, <3>2
    <3>4. i + 2 <= Len(w) /\ i < Len(v) /\ i < Len(w)  BY <1>1, <1>2, <3>1
    <3> QED  BY <3>3, <3>4
  <2>2. Consumed(w, i) = 2 /\ Consumed(v, i) = 2  BY <1>7, <2>1 DEF Consumed
  <2>3. Spelt(w, i) = Spelt(v, i)  BY <1>7, <2>1 DEF Spelt
  <2>4. Extended(b.s, w, i) = Extended(b.s, v, i)  BY <1>4, <2>2, <2>3 DEF Extended
  <2>5. ReadAt(b, w, i) = ReadAt(b, v, i)  BY <1>4, <1>7, <2>1, <2>2, <2>4 DEF ReadAt
  <2> QED  BY <2>5 DEF w
<1>8. CASE b.next = i /\ v[i] \in {38, 48} /\ i + 4 <= Len(v) /\ v[i + 1] = 2
  <2>1. w[i + 1] = 2 /\ i + 4 <= Len(w) /\ i < Len(v) /\ i < Len(w)
    <3>1. i + 1 \in 1 .. Len(v)  BY <1>1, <1>8
    <3>2. w[i + 1] = 2  BY <1>2, <1>8, <3>1
    <3>3. i + 4 <= Len(w) /\ i < Len(v) /\ i < Len(w)  BY SMTT(30), <1>1, <1>2, <1>8
    <3> QED  BY <3>2, <3>3
  <2>2. Consumed(w, i) = 4 /\ Consumed(v, i) = 4  BY <1>8, <2>1 DEF Consumed
  <2>3. Spelt(w, i) = Spelt(v, i)  BY SMTT(30), <1>3, <1>8, <2>1 DEF Spelt
  <2>4. Extended(b.s, w, i) = Extended(b.s, v, i)  BY <1>4, <2>2, <2>3 DEF Extended
  <2>5. ReadAt(b, w, i) = ReadAt(b, v, i)  BY <1>4, <1>8, <2>1, <2>2, <2>4 DEF ReadAt
  <2> QED  BY <2>5 DEF w
<1> QED  BY <1>5, <1>6, <1>7, <1>8

LEMMA SingleIs ==
    ASSUME NEW S, NEW q \in Seq(S), Len(q) = 1, NEW x, q[1] = x PROVE q = <<x>>
  OBVIOUS

(* A group by itself means what it says, and no number of it is left.       *)
LEMMA ReadsGroup ==
    ASSUME NEW v \in Seq(Nat), NEW g, WholeGroup(g), NEW t, NEW h,
           h[Len(v)] = [s |-> t, next |-> Len(v) + 1],
           ReadsIn(h, v \o g, Len(v), Len(v) + Len(g))
    PROVE  /\ h[Len(v) + Len(g)] = [s |-> Meaning(t, g), next |-> Len(v) + Len(g) + 1]
           /\ HeadsIn(h, v \o g, Len(v), Len(v) + Len(g))
<1> DEFINE w == v \o g
           n == Len(v)
           k == n + 1
<1>0. \A i \in n + 1 .. n + Len(g) : h[i] = ReadAt(h[i - 1], w, i)  BY DEF ReadsIn
<1>1. n \in Nat /\ g \in Seq(Nat) /\ Len(g) \in Nat  BY LenProperties DEF WholeGroup
<1>2. Len(w) = n + Len(g) /\ \A j \in 1 .. Len(g) : w[n + j] = g[j]
  BY <1>1, ConcatProperties
<1> HIDE DEF w
<1>3. h[n].s = t /\ h[n].next = k  OBVIOUS
<1> HIDE DEF n
<1> DEFINE m == Meaning(t, g)
<1> HIDE DEF m
<1>4. CASE Len(g) = 1 /\ g[1] \notin {38, 48}
  <2>1. w[k] = g[1] /\ n + Len(g) = k /\ k - 1 = n  BY <1>1, <1>2, <1>4
  <2>2. h[k] = ReadAt(h[n], w, k)  BY <1>0, <1>1, <2>1
  <2>3. h[k] = [s |-> Basic(t, g[1]), next |-> k + 1]
    BY <1>3, <1>4, <2>1, <2>2 DEF ReadAt
  <2>4. Meaning(t, g) = Basic(t, g[1])  BY <1>4 DEF Meaning
  <2>5. \A i \in n + 1 .. n + Len(g) : i = k  BY <1>1, <1>4
  <2> QED
    <3>1. h[n + Len(g)] = [s |-> Meaning(t, g), next |-> n + Len(g) + 1]
      BY <1>1, <2>1, <2>3, <2>4
    <3>2. HeadsIn(h, w, n, n + Len(g))  BY <1>4, <2>1, <2>5 DEF HeadsIn
    <3> QED  BY <3>1, <3>2 DEF w, n
<1>5. CASE Len(g) = 3 /\ g[1] \in {38, 48} /\ g[2] = 5
  <2>1. /\ w[k] = g[1] /\ w[k + 1] = 5 /\ w[k + 2] = g[3] /\ n + Len(g) = k + 2
        /\ Len(w) = k + 2 /\ k - 1 = n
    BY <1>1, <1>2, <1>5
  <2>2. /\ h[k] = ReadAt(h[n], w, k)
        /\ h[k + 1] = ReadAt(h[k], w, k + 1) /\ h[k + 2] = ReadAt(h[k + 1], w, k + 2)
    <3>1. /\ k \in n + 1 .. n + Len(g) /\ k + 1 \in n + 1 .. n + Len(g)
          /\ k + 2 \in n + 1 .. n + Len(g)
          /\ (k + 1) - 1 = k /\ (k + 2) - 1 = k + 1
      BY <1>1, <1>5
    <3> QED  BY <1>0, <2>1, <3>1
  <2>3. Consumed(w, k) = 2  BY <1>1, <2>1 DEF Consumed
  <2>4. Spelt(w, k) = <<g[3]>>  BY <2>1 DEF Spelt
  <2>5. SubSeq(g, 3, Len(g)) = <<g[3]>>
    <3>0. g[3] \in Nat
      <4>1. 3 \in 1 .. Len(g)  BY <1>5
      <4> QED  BY <1>1, <4>1, ElementOfSeq
    <3>1. \A i \in 3 .. 3 : g[i] \in Nat  BY <3>0
    <3>2. /\ SubSeq(g, 3, 3) \in Seq(Nat) /\ Len(SubSeq(g, 3, 3)) = 1
          /\ SubSeq(g, 3, 3)[1] = g[3]
      BY <3>1, SubSeqProperties
    <3>4. SubSeq(g, 3, 3) = <<g[3]>>  BY <3>2, SingleIs
    <3> QED  BY <1>5, <3>4
  <2>6. Extended(t, w, k) = Meaning(t, g)
    <3> DEFINE c == SubSeq(g, 3, Len(g))
    <3>0. Spelt(w, k) = c  BY <2>4, <2>5
    <3> HIDE DEF c
    <3>1. Extended(t, w, k) = IF g[1] = 38 THEN [t EXCEPT !.foreground = c]
                              ELSE [t EXCEPT !.background = c]
      <4>1. Consumed(w, k) # 1  BY <2>3
      <4>2. w[k] = g[1]  BY <2>1
      <4> QED  BY <3>0, <4>1, <4>2 DEF Extended
    <3>2. CASE g[1] = 38  BY <3>1, <3>2 DEF Meaning, c
    <3>3. CASE g[1] = 48  BY <3>1, <3>3 DEF Meaning, c
    <3> QED  BY <1>5, <3>2, <3>3
  <2>7. h[k] = [s |-> m, next |-> k + 3]
    <3>1. h[k] = [s |-> m, next |-> k + 1 + Consumed(w, k)]
      <4>1. h[n].next = k /\ w[k] \in {38, 48} /\ k < Len(w) /\ Extended(h[n].s, w, k) = m
        BY <1>1, <1>3, <1>5, <2>1, <2>6 DEF m
      <4> QED  BY <2>2, <4>1 DEF ReadAt
    <3> QED  BY <1>1, <2>3, <3>1
  <2>8. h[k + 1] = h[k]  BY <1>1, <2>2, <2>7 DEF ReadAt
  <2>9. h[k + 2] = h[k]  BY <1>1, <2>2, <2>7, <2>8 DEF ReadAt
  <2>10. \A i \in n + 1 .. n + Len(g) : i = k \/ (h[i - 1].next = k + 3 /\ i < k + 3)
    <3>1. TAKE i \in n + 1 .. n + Len(g)
    <3>2. i = k \/ i - 1 = k \/ i - 1 = k + 1
      <4>1. i \in Int /\ k <= i /\ i <= k + 2 /\ k \in Nat  BY <1>1, <1>5
      <4> QED  BY <4>1
    <3> QED  BY SMTT(30), <1>1, <1>5, <2>7, <2>8, <3>2
  <2> QED
    <3>1. h[n + Len(g)] = [s |-> Meaning(t, g), next |-> n + Len(g) + 1]
      BY <1>1, <2>1, <2>7, <2>9 DEF m
    <3>2. \A i \in n + 1 .. n + Len(g) : h[i - 1].next = i => i = k
      <4>1. TAKE i \in n + 1 .. n + Len(g)
      <4> DEFINE x == h[i - 1].next
      <4>2. i = k \/ (x = k + 3 /\ i < k + 3)  BY <2>10
      <4>3. i \in Int /\ k \in Int  BY <1>1
      <4> HIDE DEF x, k
      <4>4. x = i => i = k  BY <4>2, <4>3
      <4> QED  BY <4>4 DEF x
    <3>3. k + 2 <= n + Len(g) /\ w[k + 1] = 5  BY <1>1, <2>1
    <3>4. HeadsIn(h, w, n, n + Len(g))  BY <3>2, <3>3 DEF HeadsIn
    <3> QED  BY <3>1, <3>4 DEF w, n
<1>6. CASE Len(g) = 5 /\ g[1] \in {38, 48} /\ g[2] = 2
  <2>1. /\ w[k] = g[1] /\ w[k + 1] = 2 /\ n + Len(g) = k + 4
        /\ Len(w) = k + 4 /\ k - 1 = n
    <3>1. w[n + 1] = g[1] /\ w[n + 2] = g[2]  BY <1>2, <1>6
    <3>2. n + 2 = k + 1 /\ n + 5 = k + 4 /\ k - 1 = n  BY <1>1
    <3> QED  BY <1>2, <1>6, <3>1, <3>2
  <2>2. /\ h[k] = ReadAt(h[n], w, k)
        /\ h[k + 1] = ReadAt(h[k], w, k + 1) /\ h[k + 2] = ReadAt(h[k + 1], w, k + 2)
        /\ h[k + 3] = ReadAt(h[k + 2], w, k + 3) /\ h[k + 4] = ReadAt(h[k + 3], w, k + 4)
    <3>1. /\ k \in n + 1 .. n + Len(g) /\ k + 1 \in n + 1 .. n + Len(g)
          /\ k + 2 \in n + 1 .. n + Len(g) /\ k + 3 \in n + 1 .. n + Len(g)
          /\ k + 4 \in n + 1 .. n + Len(g)
          /\ (k + 1) - 1 = k /\ (k + 2) - 1 = k + 1 /\ (k + 3) - 1 = k + 2
          /\ (k + 4) - 1 = k + 3
      <4>1. n + Len(g) = n + 5  BY <1>6
      <4> QED  BY <1>1, <4>1
    <3> QED  BY <1>0, <2>1, <3>1
  <2>3. Consumed(w, k) = 4  BY <1>1, <2>1 DEF Consumed
  <2>4. Spelt(w, k) = SubSeq(g, 3, Len(g))
    <3>1. /\ k + 2 \in n + 1 .. n + Len(g) /\ k + 4 \in n + 1 .. n + Len(g)
          /\ (k + 2) - n = 3 /\ (k + 4) - n = Len(g)
      <4>1. n + Len(g) = n + 5  BY <1>6
      <4> QED  BY <1>1, <1>6, <4>1
    <3> HIDE DEF k
    <3>2. SubSeq(v \o g, k + 2, k + 4) = SubSeq(g, (k + 2) - n, (k + 4) - n)
      BY <1>1, <3>1, SubSeqOfConcat2, ZenonT(60) DEF n
    <3>3. SubSeq(w, k + 2, k + 4) = SubSeq(g, 3, Len(g))  BY <3>1, <3>2 DEF w
    <3>4. w[k + 1] # 5  BY <2>1
    <3>5. Spelt(w, k) = SubSeq(w, k + 2, k + 4)  BY <3>4, Zenon DEF Spelt
    <3> QED  BY <3>3, <3>5
  <2>6. Extended(t, w, k) = Meaning(t, g)
    <3> DEFINE c == SubSeq(g, 3, Len(g))
    <3>0. Spelt(w, k) = c  BY <2>4
    <3> HIDE DEF c
    <3>1. Extended(t, w, k) = IF g[1] = 38 THEN [t EXCEPT !.foreground = c]
                              ELSE [t EXCEPT !.background = c]
      <4>1. Consumed(w, k) # 1  BY <2>3
      <4>2. w[k] = g[1]  BY <2>1
      <4> QED  BY <3>0, <4>1, <4>2 DEF Extended
    <3>2. CASE g[1] = 38  BY <3>1, <3>2 DEF Meaning, c
    <3>3. CASE g[1] = 48  BY <3>1, <3>3 DEF Meaning, c
    <3> QED  BY <1>6, <3>2, <3>3
  <2>7. h[k] = [s |-> m, next |-> k + 5]
    <3>1. h[k] = [s |-> m, next |-> k + 1 + Consumed(w, k)]
      <4>1. h[n].next = k /\ w[k] \in {38, 48} /\ k < Len(w) /\ Extended(h[n].s, w, k) = m
        BY <1>1, <1>3, <1>6, <2>1, <2>6, SMTT(30) DEF m
      <4> QED  BY <2>2, <4>1, ZenonT(60) DEF ReadAt
    <3> QED  BY <1>1, <2>3, <3>1, SMTT(30)
  <2>8. h[k + 1] = h[k]
    <3>1. h[k].next # k + 1  BY <1>1, <2>7, SMTT(30)
    <3> QED  BY <2>2, <3>1, ZenonT(60) DEF ReadAt
  <2>9. h[k + 2] = h[k]
    <3>1. h[k + 1].next # k + 2  BY <1>1, <2>7, <2>8, SMTT(30)
    <3> QED  BY <2>2, <2>8, <3>1, ZenonT(60) DEF ReadAt
  <2>10. h[k + 3] = h[k]
    <3>1. h[k + 2].next # k + 3  BY <1>1, <2>7, <2>9, SMTT(30)
    <3> QED  BY <2>2, <2>9, <3>1, ZenonT(60) DEF ReadAt
  <2>11. h[k + 4] = h[k]
    <3>1. h[k + 3].next # k + 4  BY <1>1, <2>7, <2>10
    <3> QED  BY <2>2, <2>10, <3>1, ZenonT(60) DEF ReadAt
  <2>12. \A i \in n + 1 .. n + Len(g) : i = k \/ (h[i - 1].next = k + 5 /\ i < k + 5)
    <3>1. TAKE i \in n + 1 .. n + Len(g)
    <3>2. i = k \/ i - 1 = k \/ i - 1 = k + 1 \/ i - 1 = k + 2 \/ i - 1 = k + 3
      <4>1. i \in Int /\ k <= i /\ i <= k + 4 /\ k \in Nat  BY <1>1, <1>6
      <4> QED  BY SMTT(30), <4>1
    <3> QED  BY <1>1, <1>6, <2>7, <2>8, <2>9, <2>10, <3>2
  <2> QED
    <3>1. h[n + Len(g)] = [s |-> Meaning(t, g), next |-> n + Len(g) + 1]
      BY <1>1, <2>1, <2>7, <2>11 DEF m
    <3>2. \A i \in n + 1 .. n + Len(g) : h[i - 1].next = i => i = k
      <4>1. TAKE i \in n + 1 .. n + Len(g)
      <4> DEFINE x == h[i - 1].next
      <4>2. i = k \/ (x = k + 5 /\ i < k + 5)  BY <2>12
      <4>3. i \in Int /\ k \in Int  BY <1>1
      <4> HIDE DEF x, k
      <4>4. x = i => i = k  BY <4>2, <4>3
      <4> QED  BY <4>4 DEF x
    <3>3. k + 4 <= n + Len(g) /\ w[k + 1] = 2  BY <1>1, <2>1
    <3>4. HeadsIn(h, w, n, n + Len(g))  BY <3>2, <3>3 DEF HeadsIn
    <3> QED  BY <3>1, <3>4 DEF w, n
<1> QED  BY <1>4, <1>5, <1>6 DEF WholeGroup

LEMMA ReadsMore ==
    ASSUME NEW s, NEW v \in Seq(Nat), NEW t, ReadsAs(s, v, t), NEW g, WholeGroup(g)
    PROVE  ReadsAs(s, v \o g, Meaning(t, g))
<1> DEFINE w == v \o g
           n == Len(v)
<1>1. n \in Nat /\ g \in Seq(Nat) /\ Len(g) \in Nat  BY LenProperties DEF WholeGroup
<1>2. /\ w \in Seq(Nat) /\ Len(w) = n + Len(g)
      /\ \A j \in 1 .. n : w[j] = v[j]
  BY <1>1, ConcatProperties
<1>3. PICK f : SgrRun(f, s, v, n) /\ Sgr(s, v) = f[n].s  BY SgrIs
<1>4. f[n] = [s |-> t, next |-> n + 1] /\ Heads(f, v)  BY <1>3 DEF ReadsAs
<1>5. SUFFICES ASSUME NEW h, SgrRun(h, s, w, n + Len(g))
      PROVE  /\ h[n + Len(g)] = [s |-> Meaning(t, g), next |-> n + Len(g) + 1]
             /\ Heads(h, w)
  <2> HIDE DEF w
  <2>1. ReadsAs(s, w, Meaning(t, g))  BY <1>2 DEF ReadsAs
  <2> QED  BY <2>1 DEF w
<1> HIDE DEF w, n
<1> DEFINE b == [s |-> s, next |-> 1]
<1>6. \A i \in 0 .. n : f[i] = IF i = 0 THEN b ELSE ReadAt(f[i - 1], v, i)
  BY <1>3 DEF SgrRun
<1>7. \A i \in 0 .. n + Len(g) : h[i] = IF i = 0 THEN b ELSE ReadAt(h[i - 1], w, i)
  BY <1>5 DEF SgrRun
<1> HIDE DEF b
<1> DEFINE T == {i \in 0 .. n : h[i] = f[i]}
<1>8. 0 \in T  BY <1>1, <1>6, <1>7
<1>9. ASSUME NEW k \in 0 .. n - 1, k \in T PROVE k + 1 \in T
  <2>1. /\ k + 1 \in 0 .. n /\ k + 1 \in 1 .. n /\ k + 1 \in 0 .. n + Len(g)
        /\ k + 1 # 0 /\ (k + 1) - 1 = k
    BY <1>1
  <2>2. h[k + 1] = ReadAt(h[k], w, k + 1) /\ f[k + 1] = ReadAt(f[k], v, k + 1)
    BY <1>6, <1>7, <2>1
  <2>3. ReadAt(f[k], w, k + 1) = ReadAt(f[k], v, k + 1)
    <3>1. f[k].next = k + 1 /\ v[k + 1] \in {38, 48} =>
             \/ k + 1 + 2 <= Len(v) /\ v[k + 1 + 1] = 5
             \/ k + 1 + 4 <= Len(v) /\ v[k + 1 + 1] = 2
      BY <1>4, <2>1 DEF Heads, HeadsIn, n
    <3> QED  BY <1>1, <2>1, <3>1, ReadSame DEF n, w
  <2> QED  BY <1>9, <2>1, <2>2, <2>3
<1> HIDE DEF T
<1>10. 0 .. n \subseteq T  BY <1>1, <1>8, <1>9, InductiveSet
<1>11. \A i \in 0 .. n : h[i] = f[i]  BY <1>10 DEF T
<1>12. h[n] = [s |-> t, next |-> n + 1]  BY <1>1, <1>4, <1>11
<1>13. ReadsIn(h, w, n, n + Len(g))  BY <1>1, <1>7 DEF ReadsIn
<1>14. /\ h[n + Len(g)] = [s |-> Meaning(t, g), next |-> n + Len(g) + 1]
       /\ HeadsIn(h, w, n, n + Len(g))
  <2>1. h[Len(v)] = [s |-> t, next |-> Len(v) + 1]  BY <1>12 DEF n
  <2>2. ReadsIn(h, v \o g, Len(v), Len(v) + Len(g))  BY <1>13 DEF w, n
  <2> QED  BY <2>1, <2>2, ReadsGroup DEF w, n
<1>15. Heads(h, w)
  <2>1. SUFFICES ASSUME NEW i \in 1 .. n + Len(g), h[i - 1].next = i, w[i] \in {38, 48}
        PROVE  \/ i + 2 <= n + Len(g) /\ w[i + 1] = 5
               \/ i + 4 <= n + Len(g) /\ w[i + 1] = 2
    BY <1>2 DEF Heads, HeadsIn
  <2>2. CASE i \in n + 1 .. n + Len(g)  BY <1>14, <2>1, <2>2 DEF HeadsIn
  <2>3. CASE i \in 1 .. n
    <3>0. i - 1 \in 0 .. n  BY <1>1, <2>3
    <3>1. h[i - 1] = f[i - 1] /\ w[i] = v[i]  BY <1>2, <1>11, <2>3, <3>0
    <3>2. \/ i + 2 <= n /\ v[i + 1] = 5
          \/ i + 4 <= n /\ v[i + 1] = 2
      <4>1. HeadsIn(f, v, 0, n)  BY <1>4 DEF Heads, n
      <4>2. f[i - 1].next = i /\ v[i] \in {38, 48} /\ i \in 0 + 1 .. n
        BY <2>1, <2>3, <3>1
      <4> QED  BY <4>1, <4>2 DEF HeadsIn
    <3>3. w[i + 1] = v[i + 1]  BY <1>1, <1>2, <2>3, <3>2
    <3> QED  BY <1>1, <2>3, <3>2, <3>3
  <2> QED  BY <1>1, <2>2, <2>3
<1> QED  BY <1>14, <1>15

-----------------------------------------------------------------------------
(* Runs and the cells they spell.                                           *)
CellIn(S) == [text : Nat, style : S]
RunOf(S) == [text : Seq(Nat), style : S]
OfRuns(runs) == [k \in DOMAIN runs |-> CellsOf(runs[k])]
Apart(runs) == \A k \in 1 .. Len(runs) - 1 : runs[k].style # runs[k + 1].style

LEMMA CellsOfIsASeq ==
    ASSUME NEW S, NEW r \in RunOf(S)
    PROVE  CellsOf(r) \in Seq(CellIn(S)) /\ Len(CellsOf(r)) = Len(r.text)
<1> DEFINE n == Len(r.text)
<1>1. r.text \in Seq(Nat) /\ r.style \in S  BY DEF RunOf
<1>2. DOMAIN r.text = 1 .. n /\ n \in Nat  BY <1>1, LenProperties
<1>3. \A i \in 1 .. n : r.text[i] \in Nat  BY <1>1, ElementOfSeq
<1> HIDE DEF n
<1>4. CellsOf(r) = [i \in 1 .. n |-> Cell(r.text[i], r.style)]  BY <1>2 DEF CellsOf
<1>5. \A i \in 1 .. n : Cell(r.text[i], r.style) \in CellIn(S)  BY <1>1, <1>3 DEF Cell, CellIn
<1>6. CellsOf(r) \in [1 .. n -> CellIn(S)]  BY <1>4, <1>5
<1> QED  BY <1>2, <1>6 DEF n

LEMMA CellsOfMore ==
    ASSUME NEW S, NEW r \in RunOf(S), NEW x \in Nat
    PROVE  CellsOf([text |-> Append(r.text, x), style |-> r.style])
               = Append(CellsOf(r), Cell(x, r.style))
<1> DEFINE n == Len(r.text)
           t == Append(r.text, x)
           q == [text |-> t, style |-> r.style]
           c == Cell(x, r.style)
<1>1. r.text \in Seq(Nat) /\ r.style \in S  BY DEF RunOf
<1>2. /\ t \in Seq(Nat) /\ Len(t) = n + 1 /\ t[n + 1] = x
      /\ \A i \in 1 .. n : t[i] = r.text[i]
  BY <1>1, AppendProperties
<1>3. n \in Nat /\ DOMAIN r.text = 1 .. n  BY <1>1, LenProperties
<1> HIDE DEF t, n
<1>4. q.text = t /\ q.style = r.style  OBVIOUS
<1>5. q \in RunOf(S)  BY <1>1, <1>2 DEF RunOf
<1> HIDE DEF q
<1>6. DOMAIN t = 1 .. n + 1  BY <1>2, LenProperties
<1>7. c \in CellIn(S)  BY <1>1 DEF Cell, CellIn
<1>8. CellsOf(q) \in Seq(CellIn(S)) /\ Len(CellsOf(q)) = n + 1
  BY <1>2, <1>4, <1>5, CellsOfIsASeq
<1>9. CellsOf(r) \in Seq(CellIn(S)) /\ Len(CellsOf(r)) = n  BY CellsOfIsASeq DEF n
<1> HIDE DEF c
<1> DEFINE a == Append(CellsOf(r), c)
<1>10. /\ a \in Seq(CellIn(S)) /\ Len(a) = n + 1 /\ a[n + 1] = c
       /\ \A i \in 1 .. n : a[i] = CellsOf(r)[i]
  BY <1>7, <1>9, AppendProperties
<1> HIDE DEF a
<1>11. \A i \in 1 .. n + 1 : CellsOf(q)[i] = Cell(t[i], r.style)  BY <1>4, <1>6 DEF CellsOf
<1>12. \A i \in 1 .. n : CellsOf(r)[i] = Cell(r.text[i], r.style)  BY <1>3 DEF CellsOf
<1>13. \A i \in 1 .. n + 1 : CellsOf(q)[i] = a[i]
  <2>1. TAKE i \in 1 .. n + 1
  <2>2. CASE i = n + 1  BY <1>2, <1>10, <1>11, <2>2 DEF c
  <2>3. CASE i \in 1 .. n
    <3>1. CellsOf(q)[i] = Cell(t[i], r.style)  BY <1>11
    <3>2. a[i] = Cell(r.text[i], r.style)  BY <1>10, <1>12, <2>3
    <3> QED  BY <1>2, <2>3, <3>1, <3>2
  <2> QED  BY <1>3, <2>2, <2>3
<1>14. CellsOf(q) = a  BY <1>8, <1>10, <1>13, SeqEqual
<1> QED  BY <1>14 DEF a, c, q, t

LEMMA OfRunsIsASeq ==
    ASSUME NEW S, NEW runs \in Seq(RunOf(S))
    PROVE  OfRuns(runs) \in Seq(Seq(CellIn(S))) /\ Len(OfRuns(runs)) = Len(runs)
<1> DEFINE n == Len(runs)
<1>1. n \in Nat /\ DOMAIN runs = 1 .. n  BY LenProperties
<1>2. \A k \in 1 .. n : CellsOf(runs[k]) \in Seq(CellIn(S))  BY ElementOfSeq, CellsOfIsASeq
<1> HIDE DEF n
<1>3. OfRuns(runs) \in [1 .. n -> Seq(CellIn(S))]  BY <1>1, <1>2 DEF OfRuns
<1> QED  BY <1>1, <1>3 DEF n

LEMMA OfRunsAppend ==
    ASSUME NEW S, NEW runs \in Seq(RunOf(S)), NEW r \in RunOf(S)
    PROVE  OfRuns(Append(runs, r)) = Append(OfRuns(runs), CellsOf(r))
<1> DEFINE n == Len(runs)
           w == Append(runs, r)
           a == Append(OfRuns(runs), CellsOf(r))
<1>1. n \in Nat /\ DOMAIN runs = 1 .. n  BY LenProperties
<1>2. /\ w \in Seq(RunOf(S)) /\ Len(w) = n + 1 /\ w[n + 1] = r
      /\ \A k \in 1 .. n : w[k] = runs[k]
  BY AppendProperties
<1>3. OfRuns(runs) \in Seq(Seq(CellIn(S))) /\ Len(OfRuns(runs)) = n  BY OfRunsIsASeq
<1>4. CellsOf(r) \in Seq(CellIn(S))  BY CellsOfIsASeq
<1>5. /\ a \in Seq(Seq(CellIn(S))) /\ Len(a) = n + 1 /\ a[n + 1] = CellsOf(r)
      /\ \A k \in 1 .. n : a[k] = OfRuns(runs)[k]
  BY <1>3, <1>4, AppendProperties
<1> HIDE DEF n, w, a
<1>6. OfRuns(w) \in Seq(Seq(CellIn(S))) /\ Len(OfRuns(w)) = n + 1  BY <1>2, OfRunsIsASeq
<1>7. DOMAIN w = 1 .. n + 1  BY <1>2, LenProperties
<1>8. \A k \in 1 .. n + 1 : OfRuns(w)[k] = a[k]
  <2>1. TAKE k \in 1 .. n + 1
  <2>2. OfRuns(w)[k] = CellsOf(w[k])  BY <1>7 DEF OfRuns
  <2>3. CASE k = n + 1  BY <1>2, <1>5, <2>2, <2>3
  <2>4. CASE k \in 1 .. n
    <3>1. OfRuns(runs)[k] = CellsOf(runs[k])  BY <1>1, <2>4 DEF OfRuns
    <3> QED  BY <1>2, <1>5, <2>2, <2>4, <3>1
  <2> QED  BY <1>1, <2>3, <2>4
<1>9. OfRuns(w) = a  BY <1>5, <1>6, <1>8, SeqEqual
<1> QED  BY <1>9 DEF w, a

LEMMA LastOf ==
    ASSUME NEW T, NEW q \in Seq(T), q # <<>>
    PROVE  \E p \in Seq(T), x \in T : q = Append(p, x) /\ Len(p) = Len(q) - 1
<1> DEFINE n == Len(q) - 1
           p == SubSeq(q, 1, n)
           x == q[n + 1]
           w == Append(p, x)
<1>1. n \in Nat /\ Len(q) = n + 1  BY EmptySeq, LenProperties
<1> HIDE DEF n
<1>2. \A i \in 1 .. n + 1 : q[i] \in T  BY <1>1, ElementOfSeq
<1>3. x \in T  BY <1>1, <1>2
<1>4. p \in Seq(T) /\ Len(p) = n /\ \A i \in 1 .. n : p[i] = q[i]
  <2>1. \A i \in 1 .. n : q[i] \in T  BY <1>1, <1>2
  <2>2. 1 \in Int /\ n \in Int  BY <1>1
  <2>3. /\ p \in Seq(T) /\ Len(p) = IF 1 <= n THEN n - 1 + 1 ELSE 0
        /\ \A i \in 1 .. n - 1 + 1 : p[i] = q[1 + i - 1]
    BY <2>1, <2>2, SubSeqProperties
  <2> HIDE DEF p
  <2>4. Len(p) = n  BY <1>1, <2>3
  <2>5. ASSUME NEW i \in 1 .. n PROVE p[i] = q[i]
    <3>1. i \in 1 .. n - 1 + 1 /\ 1 + i - 1 = i  BY <1>1
    <3> QED  BY <2>3, <3>1
  <2> QED  BY <2>3, <2>4, <2>5
<1> HIDE DEF p, x
<1>5. /\ w \in Seq(T) /\ Len(w) = n + 1 /\ w[n + 1] = x
      /\ \A i \in 1 .. n : w[i] = p[i]
  BY <1>3, <1>4, AppendProperties
<1> HIDE DEF w
<1>6. \A i \in 1 .. n + 1 : q[i] = w[i]
  <2>1. TAKE i \in 1 .. n + 1
  <2>2. i = n + 1 \/ i \in 1 .. n  BY <1>1
  <2> QED  BY <1>4, <1>5, <2>2 DEF x
<1>7. q = w  BY <1>1, <1>5, <1>6, SeqEqual
<1> QED  BY <1>1, <1>3, <1>4, <1>7 DEF w

LEMMA ConcatAppend ==
    ASSUME NEW S, NEW q \in Seq(S), NEW r \in Seq(S), NEW x \in S
    PROVE  q \o Append(r, x) = Append(q \o r, x)
<1>1. <<x>> \in Seq(S)  OBVIOUS
<1>2. Append(r, x) = r \o <<x>>  BY AppendIsConcat
<1>3. q \o r \in Seq(S)  BY ConcatProperties
<1>4. Append(q \o r, x) = (q \o r) \o <<x>>  BY <1>3, AppendIsConcat
<1> QED  BY <1>1, <1>2, <1>4, ConcatAssociative

(* The runs of a line, and of the line with one more cell.                  *)
RunsOf(S, runs, line) ==
    /\ runs \in Seq(RunOf(S)) /\ FlattenSeq(OfRuns(runs)) = line /\ Apart(runs)

LEMMA TextGoesOn ==
    ASSUME NEW t, NEW s, NEW x
    PROVE  [[text |-> t, style |-> s] EXCEPT !.text = Append(@, x)]
               = [text |-> Append(t, x), style |-> s]
  OBVIOUS

LEMMA RunGoesOn ==
    ASSUME NEW S, NEW line \in Seq(CellIn(S)), NEW runs, RunsOf(S, runs, line),
           NEW c \in CellIn(S), runs # <<>>, Last(runs).style = c.style
    PROVE  RunsOf(S, WithCell(runs, c), Append(line, c))
<1>1. runs \in Seq(RunOf(S)) /\ FlattenSeq(OfRuns(runs)) = line /\ Apart(runs)  BY DEF RunsOf
<1>2. PICK p \in Seq(RunOf(S)), r \in RunOf(S) :
          runs = Append(p, r) /\ Len(p) = Len(runs) - 1
  BY <1>1, LastOf
<1> DEFINE n == Len(p)
           r2 == [text |-> Append(r.text, c.text), style |-> r.style]
           w == Append(p, r2)
<1>3. n \in Nat /\ Len(runs) = n + 1  BY <1>1, <1>2, LenProperties
<1>4. runs[n + 1] = r /\ \A k \in 1 .. n : runs[k] = p[k]  BY <1>2, AppendProperties
<1>5. c.text \in Nat /\ c.style \in S /\ c = Cell(c.text, c.style)  BY DEF CellIn, Cell
<1>6. r.text \in Seq(Nat) /\ r.style \in S /\ r = [text |-> r.text, style |-> r.style]
  BY DEF RunOf
<1>7. r2 \in RunOf(S)
  <2>1. Append(r.text, c.text) \in Seq(Nat)  BY <1>5, <1>6, AppendProperties
  <2> QED  BY <1>6, <2>1 DEF RunOf
<1>8. r.style = c.style  BY <1>3, <1>4 DEF Last
<1>9. WithCell(runs, c) = w
  <2> DEFINE e == [runs EXCEPT ![n + 1] = r2]
  <2>1. [r EXCEPT !.text = Append(@, c.text)] = r2
    <3>1. r.text \in Seq(Nat) /\ r = [text |-> r.text, style |-> r.style]  BY <1>6
    <3> QED  BY <3>1, TextGoesOn
  <2>2. WithCell(runs, c) = [runs EXCEPT ![n + 1].text = Append(@, c.text)]
    BY <1>3 DEF WithCell
  <2>3. WithCell(runs, c) = e
    <3>1. [runs EXCEPT ![n + 1].text = Append(@, c.text)]
              = [runs EXCEPT ![n + 1] = [runs[n + 1] EXCEPT !.text = Append(@, c.text)]]
      OBVIOUS
    <3> HIDE DEF n, r2
    <3> QED  BY <1>4, <2>1, <2>2, <3>1
  <2> HIDE DEF n, r2
  <2>4. n + 1 \in 1 .. Len(runs)  BY <1>3
  <2>5. /\ e \in Seq(RunOf(S)) /\ Len(e) = n + 1
        /\ \A j \in 1 .. n + 1 : e[j] = IF j = n + 1 THEN r2 ELSE runs[j]
    BY <1>1, <1>3, <1>7, <2>4, ExceptSeq
  <2>6. /\ w \in Seq(RunOf(S)) /\ Len(w) = n + 1 /\ w[n + 1] = r2
        /\ \A k \in 1 .. n : w[k] = p[k]
    BY <1>7, AppendProperties DEF n
  <2> HIDE DEF e, w
  <2>7. \A j \in 1 .. n + 1 : e[j] = w[j]
    <3>1. TAKE j \in 1 .. n + 1
    <3>2. j = n + 1 \/ (j \in 1 .. n /\ j # n + 1)  BY <1>3
    <3> QED  BY <1>4, <2>5, <2>6, <3>2
  <2>8. e = w  BY <2>5, <2>6, <2>7, SeqEqual
  <2> QED  BY <2>3, <2>8
<1> HIDE DEF n, r2, w
<1>10. w \in Seq(RunOf(S)) /\ Len(w) = n + 1 /\ w[n + 1] = r2 /\ \A k \in 1 .. n : w[k] = p[k]
  BY <1>7, AppendProperties DEF w, n
<1>11. FlattenSeq(OfRuns(w)) = Append(line, c)
  <2> DEFINE f == FlattenSeq(OfRuns(p))
  <2>1. OfRuns(p) \in Seq(Seq(CellIn(S)))  BY OfRunsIsASeq
  <2>2. CellsOf(r) \in Seq(CellIn(S)) /\ CellsOf(r2) \in Seq(CellIn(S))
    BY <1>7, CellsOfIsASeq
  <2>3. f \in Seq(CellIn(S))  BY <2>1, FlattenIsASeq
  <2> HIDE DEF f
  <2>4. line = f \o CellsOf(r)
    <3>1. OfRuns(runs) = Append(OfRuns(p), CellsOf(r))  BY <1>2, OfRunsAppend
    <3> QED  BY <1>1, <2>1, <2>2, <3>1, FlattenAppend DEF f
  <2>5. FlattenSeq(OfRuns(w)) = f \o CellsOf(r2)
    <3>1. OfRuns(w) = Append(OfRuns(p), CellsOf(r2))  BY <1>7, OfRunsAppend DEF w
    <3> QED  BY <2>1, <2>2, <3>1, FlattenAppend DEF f
  <2>6. CellsOf(r2) = Append(CellsOf(r), c)  BY <1>5, <1>8, CellsOfMore DEF r2
  <2>7. f \o Append(CellsOf(r), c) = Append(f \o CellsOf(r), c)
    BY <2>2, <2>3, ConcatAppend
  <2> QED  BY <2>4, <2>5, <2>6, <2>7
<1>12. Apart(w)
  <2>1. r2.style = r.style  BY DEF r2
  <2>2. \A k \in 1 .. n + 1 : w[k].style = runs[k].style
    <3>1. TAKE k \in 1 .. n + 1
    <3>2. k = n + 1 \/ k \in 1 .. n  BY <1>3
    <3> QED  BY <1>4, <1>10, <2>1, <3>2
  <2>3. \A k \in 1 .. n : runs[k].style # runs[k + 1].style
    <3>1. Len(runs) - 1 = n  BY <1>3
    <3> QED  BY <1>1, <3>1 DEF Apart
  <2>4. Len(w) - 1 = n  BY <1>3, <1>10
  <2>5. \A k \in 1 .. n : k \in 1 .. n + 1 /\ k + 1 \in 1 .. n + 1  BY <1>3
  <2> QED  BY <2>2, <2>3, <2>4, <2>5 DEF Apart
<1> QED  BY <1>9, <1>10, <1>11, <1>12 DEF RunsOf

LEMMA RunBegins ==
    ASSUME NEW S, NEW line \in Seq(CellIn(S)), NEW runs, RunsOf(S, runs, line),
           NEW c \in CellIn(S), ~ (runs # <<>> /\ Last(runs).style = c.style)
    PROVE  RunsOf(S, WithCell(runs, c), Append(line, c))
<1> DEFINE n == Len(runs)
           r == [text |-> <<c.text>>, style |-> c.style]
           w == Append(runs, r)
<1>1. runs \in Seq(RunOf(S)) /\ FlattenSeq(OfRuns(runs)) = line /\ Apart(runs)  BY DEF RunsOf
<1>2. n \in Nat  BY <1>1, LenProperties
<1>3. c.text \in Nat /\ c.style \in S /\ c = [text |-> c.text, style |-> c.style]
  BY DEF CellIn
<1>4. r \in RunOf(S)  BY <1>3 DEF RunOf
<1>5. WithCell(runs, c) = w  BY DEF WithCell
<1>6. CellsOf(r) = <<c>>
  <2>1. r.text = <<c.text>> /\ r.style = c.style  OBVIOUS
  <2>2. Len(r.text) = 1 /\ DOMAIN r.text = 1 .. 1 /\ r.text[1] = c.text  BY <1>3, <2>1
  <2> HIDE DEF r
  <2>3. CellsOf(r) \in Seq(CellIn(S)) /\ Len(CellsOf(r)) = 1  BY <1>4, <2>2, CellsOfIsASeq
  <2>4. CellsOf(r)[1] = Cell(c.text, c.style)  BY <2>1, <2>2 DEF CellsOf
  <2>5. CellsOf(r)[1] = c  BY <1>3, <2>4 DEF Cell
  <2> QED  BY <2>3, <2>5, SingleIs
<1> HIDE DEF r, n
<1>7. w \in Seq(RunOf(S)) /\ Len(w) = n + 1 /\ w[n + 1] = r /\ \A k \in 1 .. n : w[k] = runs[k]
  BY <1>1, <1>4, AppendProperties DEF n
<1>8. FlattenSeq(OfRuns(w)) = Append(line, c)
  <2>1. OfRuns(runs) \in Seq(Seq(CellIn(S)))  BY <1>1, OfRunsIsASeq
  <2>2. CellsOf(r) \in Seq(CellIn(S))  BY <1>4, CellsOfIsASeq
  <2>3. OfRuns(w) = Append(OfRuns(runs), CellsOf(r))  BY <1>1, <1>4, OfRunsAppend
  <2>4. FlattenSeq(OfRuns(w)) = line \o CellsOf(r)  BY <1>1, <2>1, <2>2, <2>3, FlattenAppend
  <2>5. Append(line, c) = line \o <<c>>  BY AppendIsConcat
  <2> QED  BY <1>6, <2>4, <2>5
<1>9. Apart(w)
  <2>1. SUFFICES ASSUME NEW k \in 1 .. n PROVE w[k].style # w[k + 1].style
    <3>1. Len(w) - 1 = n  BY <1>2, <1>7
    <3> HIDE DEF w
    <3> QED  BY <3>1 DEF Apart
  <2> HIDE DEF w
  <2>2. CASE k = n
    <3>1. w[k] = runs[n] /\ w[k + 1] = r  BY <1>7, <2>1, <2>2
    <3>2. runs # <<>>  BY <1>2, <2>1, <2>2, EmptySeq DEF n
    <3>3. runs[n].style # c.style  BY <3>2 DEF Last, n
    <3> QED  BY <3>1, <3>3 DEF r
  <2>3. CASE k # n
    <3>1. k \in 1 .. n - 1 /\ k + 1 \in 1 .. n  BY <1>2, <2>1, <2>3
    <3>2. w[k] = runs[k] /\ w[k + 1] = runs[k + 1]  BY <1>7, <2>1, <3>1
    <3> QED  BY <1>1, <3>1, <3>2 DEF Apart, n
  <2> QED  BY <2>2, <2>3
<1> HIDE DEF w
<1> QED  BY <1>5, <1>7, <1>8, <1>9 DEF RunsOf

-----------------------------------------------------------------------------
StyleInv ==
    /\ groups \in Seq(Groups)
    /\ style = Meanings(start, groups) /\ ReadsAs(start, FlattenSeq(groups), style)
LineInv == \E S :
    /\ style \in S /\ cells \in Seq(CellIn(S))
    /\ RunsOf(S, Runs(cells), cells)

LEMMA GroupsFact == \A G : Seq(Groups) \subseteq Seq(Seq(Nat))
<1>1. Groups \subseteq Seq(Nat)  BY GroupsAssumption DEF WholeGroup
<1> QED  BY <1>1, SeqMonotonic

LEMMA MeaningsNothing == ASSUME NEW s PROVE Meanings(s, <<>>) = s
<1>1. <<>> \in Seq({}) /\ Len(<<>>) = 0  BY EmptySeq
<1>2. PICK f : MeaningRun(f, s, <<>>, 0) /\ Meanings(s, <<>>) = f[0]  BY <1>1, MeaningsIs
<1> QED  BY <1>2 DEF MeaningRun

LEMMA RunsNothing == ASSUME NEW S PROVE Runs(<<>>) = <<>> /\ RunsOf(S, <<>>, <<>>)
<1>1. <<>> \in Seq({}) /\ Len(<<>>) = 0  BY EmptySeq
<1>2. PICK f : LineRun(f, <<>>, 0) /\ Runs(<<>>) = f[0]  BY <1>1, RunsIs
<1>3. Runs(<<>>) = <<>>  BY <1>2 DEF LineRun
<1>4. <<>> \in Seq(RunOf(S)) /\ Apart(<<>>)  BY <1>1, EmptySeq DEF Apart
<1>5. OfRuns(<<>>) \in Seq(Seq(CellIn(S))) /\ Len(OfRuns(<<>>)) = 0  BY <1>1, <1>4, OfRunsIsASeq
<1>6. OfRuns(<<>>) = <<>>  BY <1>5, EmptySeq
<1>7. FlattenSeq(<<>>) = <<>>  BY <1>1 DEF FlattenSeq
<1> QED  BY <1>3, <1>4, <1>6, <1>7 DEF RunsOf

LEMMA StyleStarts == StyleInit => StyleInv /\ LineInv
<1> SUFFICES ASSUME StyleInit PROVE StyleInv /\ LineInv  OBVIOUS
<1> USE DEF StyleInit
<1>1. FlattenSeq(<<>>) = <<>>
  <2>1. Len(<<>>) = 0  BY EmptySeq
  <2> QED  BY <2>1 DEF FlattenSeq
<1>2. StyleInv
  <2>1. <<>> \in Seq(Groups)  BY EmptySeq
  <2>2. ReadsAs(start, FlattenSeq(groups), style)  BY <1>1, ReadsNothing
  <2> QED  BY <2>1, <2>2, MeaningsNothing DEF StyleInv
<1>3. LineInv
  <2>1. RunsOf({Plain}, Runs(cells), cells)  BY RunsNothing
  <2>2. cells \in Seq(CellIn({Plain}))  BY EmptySeq
  <2>3. style \in {Plain}  OBVIOUS
  <2> QED  BY <2>1, <2>2, <2>3 DEF LineInv
<1> QED  BY <1>2, <1>3

LEMMA GroupKeeps ==
    ASSUME StyleInv, LineInv, NextGroup PROVE StyleInv' /\ LineInv'
<1>1. PICK g \in Groups :
         /\ groups' = Append(groups, g)
         /\ style' = Sgr(start, FlattenSeq(Append(groups, g)))
         /\ start' = start /\ cells' = cells
  BY DEF NextGroup
<1> DEFINE v == FlattenSeq(groups)
           m == Meaning(style, g)
<1>2. groups \in Seq(Groups) /\ style = Meanings(start, groups) /\ ReadsAs(start, v, style)
  BY DEF StyleInv
<1>3. groups \in Seq(Seq(Nat))  BY <1>2, GroupsFact
<1>4. WholeGroup(g) /\ g \in Seq(Nat)  BY GroupsAssumption DEF WholeGroup
<1>5. v \in Seq(Nat)  BY <1>3, FlattenIsASeq
<1>6. FlattenSeq(Append(groups, g)) = v \o g  BY <1>3, <1>4, FlattenAppend
<1> HIDE DEF v
<1>7. ReadsAs(start, v \o g, m)  BY <1>2, <1>4, <1>5, ReadsMore
<1>8. v \o g \in Seq(Nat)  BY <1>4, <1>5, ConcatProperties
<1> HIDE DEF m
<1>9. style' = m  BY <1>1, <1>6, <1>7, <1>8, ReadsIs
<1>10. Meanings(start, Append(groups, g)) = m  BY <1>2, MeaningsAppend DEF m
<1>11. Append(groups, g) \in Seq(Groups)  BY <1>2, AppendProperties
<1>12. StyleInv'  BY <1>1, <1>6, <1>7, <1>9, <1>10, <1>11 DEF StyleInv
<1>13. LineInv'
  <2>1. PICK S : style \in S /\ cells \in Seq(CellIn(S)) /\ RunsOf(S, Runs(cells), cells)
    BY DEF LineInv
  <2> DEFINE T == S \cup {style'}
  <2>2. CellIn(S) \subseteq CellIn(T) /\ RunOf(S) \subseteq RunOf(T)  BY DEF CellIn, RunOf
  <2>3. cells \in Seq(CellIn(T))  BY <2>1, <2>2, SeqMonotonic
  <2>4. Runs(cells) \in Seq(RunOf(T))  BY <2>1, <2>2, SeqMonotonic DEF RunsOf
  <2>5. style' \in T  OBVIOUS
  <2> HIDE DEF T
  <2>6. RunsOf(T, Runs(cells), cells)  BY <2>1, <2>4 DEF RunsOf
  <2> QED  BY <1>1, <2>3, <2>5, <2>6 DEF LineInv
<1> QED  BY <1>12, <1>13

LEMMA CellKeeps ==
    ASSUME StyleInv, LineInv, WriteCell PROVE StyleInv' /\ LineInv'
<1> USE DEF WriteCell
<1>1. StyleInv'
  <2>1. FlattenSeq(<<>>) = <<>>
    <3>1. Len(<<>>) = 0  BY EmptySeq
    <3> QED  BY <3>1 DEF FlattenSeq
  <2>2. <<>> \in Seq(Groups)  BY EmptySeq
  <2>3. start' = style /\ style' = style /\ groups' = <<>>  OBVIOUS
  <2>4. ReadsAs(style, <<>>, style) /\ Meanings(style, <<>>) = style
    BY ReadsNothing, MeaningsNothing
  <2> QED  BY <2>1, <2>2, <2>3, <2>4 DEF StyleInv
<1>2. LineInv'
  <2>1. PICK S : style \in S /\ cells \in Seq(CellIn(S)) /\ RunsOf(S, Runs(cells), cells)
    BY DEF LineInv
  <2> DEFINE c == Cell(Len(cells), style)
  <2>2. c \in CellIn(S)  BY <2>1, LenProperties DEF Cell, CellIn
  <2>3. cells' = Append(cells, c) /\ style' = style  OBVIOUS
  <2> HIDE DEF c
  <2>4. Append(cells, c) \in Seq(CellIn(S))  BY <2>1, <2>2, AppendProperties
  <2>5. Runs(Append(cells, c)) = WithCell(Runs(cells), c)  BY <2>1, <2>2, RunsAppend
  <2>6. RunsOf(S, WithCell(Runs(cells), c), Append(cells, c))
    BY <2>1, <2>2, RunGoesOn, RunBegins
  <2>7. style' \in S /\ cells' \in Seq(CellIn(S)) /\ RunsOf(S, Runs(cells'), cells')
    BY <2>1, <2>3, <2>4, <2>5, <2>6
  <2> QED  BY <2>7 DEF LineInv
<1> QED  BY <1>1, <1>2

LEMMA StyleTruths == ASSUME StyleInv, LineInv PROVE StylesAreExact
<1>1. GroupsAreIndependent  BY DEF StyleInv, GroupsAreIndependent
<1>2. PICK S : RunsOf(S, Runs(cells), cells)  BY DEF LineInv
<1>3. RunsAreTheLine  BY <1>2 DEF RunsOf, OfRuns, Apart, RunsAreTheLine
<1> QED  BY <1>1, <1>3 DEF StylesAreExact

(* Whatever groups a sequence is made of, however many, the style is what   *)
(* they mean one after another, and the runs QML draws are the line itself  *)
(* with no two neighbours of one style (_sgr, _extended_colour, lines).     *)
THEOREM StylesAreTrue == StyleSpec => []StylesAreExact
<1>1. StyleInit => StyleInv /\ LineInv  BY StyleStarts
<1>2. StyleInv /\ LineInv /\ [StyleNext]_styleVars => StyleInv' /\ LineInv'
  <2> SUFFICES ASSUME StyleInv, LineInv, [StyleNext]_styleVars PROVE StyleInv' /\ LineInv'
    OBVIOUS
  <2>1. CASE NextGroup  BY <2>1, GroupKeeps
  <2>2. CASE WriteCell  BY <2>2, CellKeeps
  <2>3. CASE UNCHANGED styleVars
    <3>1. style' = style /\ start' = start /\ groups' = groups /\ cells' = cells
      BY <2>3 DEF styleVars
    <3> QED  BY <3>1 DEF StyleInv, LineInv
  <2> QED  BY <2>1, <2>2, <2>3 DEF StyleNext
<1>3. StyleInv /\ LineInv => StylesAreExact  BY StyleTruths
<1> QED  BY <1>1, <1>2, <1>3, PTL DEF StyleSpec

-----------------------------------------------------------------------------
(* A sequence split across two reads is held over, not mangled: however the  *)
(* pty cuts a UTF-8 stream into reads, the terminal handles the pieces it    *)
(* would have handled at once.  Parse is a recursive function, so first that *)
(* there is one; then that reading r and c one after the other is reading    *)
(* r \o c, by induction on r, one turn of the loop at a time.                *)

(* RunIn finds the one run of bytes of S at place i of d.                    *)
Stops(S, d, i, n) ==
    /\ n \in 0 .. Len(d) - i + 1
    /\ \A k \in i .. i + n - 1 : d[k] \in S
    /\ At(d, i + n) \notin S

LEMMA RunIs ==
    ASSUME NEW S, "end" \notin S, NEW B, NEW d \in Seq(B), NEW i \in 1 .. Len(d) + 1
    PROVE  Stops(S, d, i, RunIn(S, d, i))
<1> DEFINE n == Len(d) - i + 1
           T == {m \in 0 .. n : At(d, i + m) \notin S}
<1>1. Len(d) \in Nat /\ DOMAIN d = 1 .. Len(d)  BY LenProperties
<1>2. n \in T
  <2>1. At(d, i + n) = "end"  BY <1>1 DEF At
  <2> QED  BY <1>1, <2>1
<1>3. PICK m \in T : \A k \in T : m <= k
  <2>1. T \subseteq 0 .. n /\ T # {}  BY <1>2
  <2>2. 0 .. n \subseteq Nat  BY <1>1
  <2> HIDE DEF T
  <2> QED  BY <2>1, <2>2, LeastOf
<1>4. \A k \in i .. i + m - 1 : d[k] \in S
  <2>1. TAKE k \in i .. i + m - 1
  <2>2. k - i \in 0 .. n /\ ~(m <= k - i) /\ k \in DOMAIN d /\ i + (k - i) = k  BY <1>1, <1>3
  <2>3. At(d, k) \in S  BY <1>3, <2>2
  <2> QED  BY <2>2, <2>3 DEF At
<1>5. Stops(S, d, i, m)  BY <1>3, <1>4 DEF Stops
<1> QED  BY <1>5 DEF RunIn, Stops

LEMMA RunUnique ==
    ASSUME NEW S, "end" \notin S, NEW B, NEW d \in Seq(B), NEW i \in 1 .. Len(d) + 1,
           NEW n, Stops(S, d, i, n)
    PROVE  RunIn(S, d, i) = n
<1> DEFINE m == RunIn(S, d, i)
<1>1. Stops(S, d, i, m)  BY RunIs
<1>2. Len(d) \in Nat /\ DOMAIN d = 1 .. Len(d)  BY LenProperties
<1> HIDE DEF m
<1>3. CASE m < n
  <2>1. i + m \in i .. i + n - 1 /\ i + m \in DOMAIN d  BY <1>1, <1>2, <1>3 DEF Stops
  <2> QED  BY <1>1, <2>1 DEF Stops, At
<1>4. CASE n < m
  <2>1. i + n \in i .. i + m - 1 /\ i + n \in DOMAIN d  BY <1>1, <1>2, <1>4 DEF Stops
  <2> QED  BY <1>1, <2>1 DEF Stops, At
<1>5. m \in Int /\ n \in Int  BY <1>1, <1>2 DEF Stops
<1> QED  BY <1>3, <1>4, <1>5 DEF m

(* The bytes of two chunks, in the chunk they make together.                *)
LEMMA AtConcat ==
    ASSUME NEW B, NEW d \in Seq(B), NEW c \in Seq(B)
    PROVE  /\ d \o c \in Seq(B) /\ Len(d \o c) = Len(d) + Len(c)
           /\ Len(d) \in Nat /\ Len(c) \in Nat
           /\ \A i \in 1 .. Len(d) : (d \o c)[i] = d[i] /\ At(d \o c, i) = d[i] /\ At(d, i) = d[i]
           /\ \A i \in 1 .. Len(c) : /\ (d \o c)[Len(d) + i] = c[i]
                                     /\ At(d \o c, Len(d) + i) = c[i] /\ At(c, i) = c[i]
<1>1. /\ d \o c \in Seq(B) /\ Len(d \o c) = Len(d) + Len(c)
      /\ \A i \in 1 .. Len(d) + Len(c) :
            (d \o c)[i] = IF i <= Len(d) THEN d[i] ELSE c[i - Len(d)]
  BY ConcatProperties
<1>2. /\ Len(d) \in Nat /\ Len(c) \in Nat
      /\ DOMAIN d = 1 .. Len(d) /\ DOMAIN c = 1 .. Len(c)
  BY LenProperties
<1>3. DOMAIN (d \o c) = 1 .. Len(d) + Len(c)  BY <1>1, LenProperties
<1>4. ASSUME NEW i \in 1 .. Len(d)
      PROVE  (d \o c)[i] = d[i] /\ At(d \o c, i) = d[i] /\ At(d, i) = d[i]
  <2>1. i \in 1 .. Len(d) + Len(c) /\ i <= Len(d)  BY <1>2
  <2> QED  BY <1>1, <1>2, <1>3, <2>1 DEF At
<1>5. ASSUME NEW i \in 1 .. Len(c)
      PROVE  /\ (d \o c)[Len(d) + i] = c[i]
             /\ At(d \o c, Len(d) + i) = c[i] /\ At(c, i) = c[i]
  <2>1. /\ Len(d) + i \in 1 .. Len(d) + Len(c) /\ ~(Len(d) + i <= Len(d))
        /\ (Len(d) + i) - Len(d) = i
    BY <1>2
  <2> QED  BY <1>1, <1>2, <1>3, <2>1 DEF At
<1> QED  BY <1>1, <1>2, <1>4, <1>5

(* A run that ends inside a chunk is the same when more arrives.             *)
LEMMA RunStable ==
    ASSUME NEW S, "end" \notin S, NEW B, NEW d \in Seq(B), NEW c \in Seq(B),
           NEW i \in 1 .. Len(d), i + RunIn(S, d, i) <= Len(d)
    PROVE  RunIn(S, d \o c, i) = RunIn(S, d, i)
<1> DEFINE n == RunIn(S, d, i)
<1>1. Len(d) \in Nat  BY LenProperties
<1>2. Stops(S, d, i, n) /\ i + n <= Len(d)
  <2>1. i \in 1 .. Len(d) + 1  BY <1>1
  <2> QED  BY <2>1, RunIs
<1> HIDE DEF n
<1>3. /\ d \o c \in Seq(B) /\ Len(d \o c) = Len(d) + Len(c) /\ Len(c) \in Nat
      /\ \A k \in 1 .. Len(d) : /\ (d \o c)[k] = d[k] /\ At(d \o c, k) = d[k]
                                /\ At(d, k) = d[k]
  BY AtConcat
<1>4. Stops(S, d \o c, i, n)
  <2>1. n \in 0 .. Len(d \o c) - i + 1  BY <1>1, <1>2, <1>3 DEF Stops
  <2>2. \A k \in i .. i + n - 1 : k \in 1 .. Len(d)  BY <1>1, <1>2 DEF Stops
  <2>3. \A k \in i .. i + n - 1 : (d \o c)[k] \in S  BY <1>2, <1>3, <2>2 DEF Stops
  <2>4. i + n \in 1 .. Len(d)  BY <1>1, <1>2 DEF Stops
  <2> QED  BY <1>2, <1>3, <2>1, <2>3, <2>4 DEF Stops
<1>5. i \in 1 .. Len(d \o c) + 1  BY <1>1, <1>3
<1> QED  BY <1>3, <1>4, <1>5, RunUnique DEF n

(* A sequence that is complete is complete, and as long, when more arrives.  *)
LEMMA CsiIs ==
    ASSUME NEW d \in Seq(Bytes), Len(d) >= 2, CsiLength(d) # 0
    PROVE  /\ d[2] = "[" /\ CsiLength(d) \in 3 .. Len(d) /\ d[CsiLength(d)] \in Final
           /\ \A c \in Seq(Bytes) : CsiLength(d \o c) = CsiLength(d)
<1> DEFINE p == RunIn(Param, d, 3)
           m == RunIn(Intermediate, d, 3 + p)
<1>1. Len(d) \in Nat /\ DOMAIN d = 1 .. Len(d)  BY LenProperties
<1>2. "end" \notin Param /\ "end" \notin Intermediate /\ "end" \notin Final
  BY DEF Param, Intermediate, Final
<1>3. Stops(Param, d, 3, p)
  <2>1. 3 \in 1 .. Len(d) + 1  BY <1>1
  <2> QED  BY <1>2, <2>1, RunIs
<1>4. Stops(Intermediate, d, 3 + p, m)
  <2>1. 3 + p \in 1 .. Len(d) + 1  BY <1>1, <1>3 DEF Stops
  <2> QED  BY <1>2, <2>1, RunIs
<1>5. p \in Nat /\ m \in Nat  BY <1>1, <1>3, <1>4 DEF Stops
<1>6. /\ d[2] = "[" /\ At(d, 3 + p + m) \in Final /\ CsiLength(d) = 3 + p + m
  BY DEF CsiLength
<1>7. 3 + p + m \in 1 .. Len(d) /\ d[3 + p + m] \in Final  BY <1>1, <1>2, <1>6 DEF At
<1>8. ASSUME NEW c \in Seq(Bytes) PROVE CsiLength(d \o c) = CsiLength(d)
  <2>1. RunIn(Param, d \o c, 3) = p
    <3>1. 3 \in 1 .. Len(d) /\ 3 + p <= Len(d)  BY <1>1, <1>5, <1>7
    <3> QED  BY <1>2, <3>1, RunStable
  <2>2. RunIn(Intermediate, d \o c, 3 + p) = m
    <3>1. 3 + p \in 1 .. Len(d) /\ 3 + p + m <= Len(d)  BY <1>1, <1>5, <1>7
    <3> QED  BY <1>2, <3>1, RunStable
  <2>3. (d \o c)[2] = d[2] /\ At(d \o c, 3 + p + m) = d[3 + p + m]
    <3>1. 2 \in 1 .. Len(d)  BY <1>1
    <3> QED  BY <1>7, <3>1, AtConcat
  <2> HIDE DEF p, m
  <2>4. CsiLength(d \o c) = 3 + p + m  BY <1>6, <1>7, <2>1, <2>2, <2>3 DEF CsiLength
  <2> QED  BY <1>6, <2>4
<1> HIDE DEF p, m
<1> QED  BY <1>5, <1>6, <1>7, <1>8

LEMMA OscIs ==
    ASSUME NEW d \in Seq(Bytes), Len(d) >= 2, OscLength(d) # 0
    PROVE  /\ d[2] = "]" /\ OscLength(d) \in 3 .. Len(d) /\ d[OscLength(d)] \in {"bel", "\\"}
           /\ \A c \in Seq(Bytes) : OscLength(d \o c) = OscLength(d)
<1> DEFINE S == Bytes \ {"bel", "esc"}
           e == 3 + RunIn(S, d, 3)
<1>1. Len(d) \in Nat /\ DOMAIN d = 1 .. Len(d)  BY LenProperties
<1>2. "end" \notin S  BY FeedAssumption DEF FeedAssumption
<1>3. Stops(S, d, 3, RunIn(S, d, 3))
  <2>1. 3 \in 1 .. Len(d) + 1  BY <1>1
  <2> HIDE DEF S
  <2> QED  BY <1>2, <2>1, RunIs
<1>4. RunIn(S, d, 3) \in Nat /\ e \in Nat /\ e >= 3  BY <1>1, <1>3 DEF Stops
<1>5. /\ d[2] = "]"
      /\ OscLength(d) = IF At(d, e) = "bel" THEN e
                        ELSE IF At(d, e) = "esc" /\ At(d, e + 1) = "\\" THEN e + 1 ELSE 0
  BY DEF OscLength
<1>6. (At(d, e) = "bel") \/ (At(d, e) = "esc" /\ At(d, e + 1) = "\\")  BY <1>5
<1>7. e \in 1 .. Len(d) /\ d[e] = At(d, e)  BY <1>1, <1>6 DEF At
<1>8. At(d, e) = "esc" => e + 1 \in 1 .. Len(d) /\ d[e + 1] = "\\"  BY <1>1, <1>6 DEF At
<1>9. ASSUME NEW c \in Seq(Bytes) PROVE OscLength(d \o c) = OscLength(d)
  <2>1. RunIn(S, d \o c, 3) = RunIn(S, d, 3)
    <3>1. 3 \in 1 .. Len(d) /\ 3 + RunIn(S, d, 3) <= Len(d)  BY <1>1, <1>4, <1>7
    <3> HIDE DEF S, e
    <3> QED  BY <1>2, <3>1, RunStable
  <2>2. (d \o c)[2] = d[2] /\ At(d \o c, e) = d[e]
    <3>1. 2 \in 1 .. Len(d)  BY <1>1
    <3> HIDE DEF e
    <3> QED  BY <1>7, <3>1, AtConcat
  <2>3. At(d, e) = "esc" => At(d \o c, e + 1) = d[e + 1]
    <3> HIDE DEF e
    <3> QED  BY <1>8, AtConcat
  <2>4. OscLength(d \o c) = IF At(d \o c, e) = "bel" THEN e
                            ELSE IF At(d \o c, e) = "esc" /\ At(d \o c, e + 1) = "\\"
                            THEN e + 1 ELSE 0
    BY <1>5, <2>1, <2>2 DEF OscLength
  <2> HIDE DEF e
  <2> QED  BY <1>5, <1>6, <1>7, <1>8, <2>2, <2>3, <2>4
<1> HIDE DEF e
<1> QED  BY <1>1, <1>4, <1>5, <1>6, <1>7, <1>8, <1>9

LEMMA EscapeIs ==
    ASSUME NEW d \in Seq(Bytes), d # <<>>
    PROVE  /\ Escape(d) \in 0 .. Len(d)
           /\ Escape(d) # 0 =>
                 /\ Escape(d) >= 2
                 /\ Escape(d) = 2 \/ d[Escape(d)] \in Final \cup {"bel"}
                 /\ \A c \in Seq(Bytes) : Escape(d \o c) = Escape(d)
<1>1. Len(d) \in Nat /\ Len(d) >= 1
  <2>1. Len(d) \in Nat \ {0}  BY EmptySeq
  <2> QED  BY <2>1
<1>2. CASE Len(d) = 1  BY <1>1, <1>2 DEF Escape
<1>3. CASE Len(d) # 1
  <2>0. \A n \in Nat : n >= 1 /\ n # 1 => n >= 2  OBVIOUS
  <2>1. Len(d) >= 2  BY <1>1, <1>3, <2>0
  <2>2. ASSUME NEW c \in Seq(Bytes) PROVE Len(d \o c) # 1 /\ (d \o c)[2] = d[2]
    <3>1. 2 \in 1 .. Len(d)  BY <1>1, <2>1
    <3> QED  BY <1>1, <2>1, <3>1, AtConcat
  <2>3. CASE CsiLength(d) # 0
    <3>1. /\ CsiLength(d) \in 3 .. Len(d) /\ d[CsiLength(d)] \in Final
          /\ \A c \in Seq(Bytes) : CsiLength(d \o c) = CsiLength(d)
      BY <2>1, <2>3, CsiIs
    <3>2. CsiLength(d) > 0 /\ Escape(d) = CsiLength(d)  BY <1>1, <1>3, <3>1 DEF Escape
    <3>3. \A c \in Seq(Bytes) : Escape(d \o c) = CsiLength(d)
      BY <2>2, <3>1, <3>2 DEF Escape
    <3> QED  BY <1>1, <3>1, <3>2, <3>3
  <2>4. CASE CsiLength(d) = 0 /\ OscLength(d) # 0
    <3>1. /\ OscLength(d) \in 3 .. Len(d) /\ d[OscLength(d)] \in {"bel", "\\"} /\ d[2] = "]"
          /\ \A c \in Seq(Bytes) : OscLength(d \o c) = OscLength(d)
      BY <2>1, <2>4, OscIs
    <3>2. OscLength(d) > 0 /\ Escape(d) = OscLength(d)  BY <1>1, <1>3, <2>4, <3>1 DEF Escape
    <3>3. \A c \in Seq(Bytes) : CsiLength(d \o c) = 0
      BY <2>2, <3>1 DEF CsiLength
    <3>4. \A c \in Seq(Bytes) : Escape(d \o c) = OscLength(d)
      BY <2>2, <3>1, <3>2, <3>3 DEF Escape
    <3> QED  BY <1>1, <3>1, <3>2, <3>4 DEF Final
  <2>5. CASE CsiLength(d) = 0 /\ OscLength(d) = 0
    <3>1. Escape(d) = IF d[2] \in {"[", "]"} THEN 0 ELSE 2  BY <1>3, <2>5 DEF Escape
    <3>2. ASSUME d[2] \notin {"[", "]"}, NEW c \in Seq(Bytes) PROVE Escape(d \o c) = 2
      <4>1. CsiLength(d \o c) = 0 /\ OscLength(d \o c) = 0
        BY <2>2, <3>2 DEF CsiLength, OscLength
      <4> QED  BY <2>2, <3>2, <4>1 DEF Escape
    <3> QED  BY <1>1, <2>1, <3>1, <3>2
  <2> QED  BY <2>3, <2>4, <2>5
<1> QED  BY <1>2, <1>3

(* The pieces of two lists, one list after the other.                       *)
LEMMA FlattenConcat ==
    ASSUME NEW S, NEW a \in Seq(Seq(S)), NEW b \in Seq(Seq(S))
    PROVE  FlattenSeq(a \o b) = FlattenSeq(a) \o FlattenSeq(b)
<1> DEFINE Q == Seq(S)
           B(k) == SubSeq(b, 1, k)
           F == FlattenSeq(a)
           T == {k \in 0 .. Len(b) : FlattenSeq(a \o B(k)) = F \o FlattenSeq(B(k))}
<1>1. F \in Seq(S)  BY FlattenIsASeq
<1>2. Len(b) \in Nat  BY LenProperties
<1>3. ASSUME NEW r \in Seq(Q), NEW x \in Q, FlattenSeq(a \o r) = F \o FlattenSeq(r)
      PROVE  FlattenSeq(a \o Append(r, x)) = F \o FlattenSeq(Append(r, x))
  <2>1. a \o r \in Seq(Q)  BY ConcatProperties
  <2>2. FlattenSeq(r) \in Seq(S)  BY <1>3, FlattenIsASeq
  <2>3. FlattenSeq(Append(r, x)) = FlattenSeq(r) \o x  BY <1>3, FlattenAppend
  <2>4. FlattenSeq(Append(a \o r, x)) = FlattenSeq(a \o r) \o x  BY <1>3, <2>1, FlattenAppend
  <2> HIDE DEF F
  <2>5. (F \o FlattenSeq(r)) \o x = F \o (FlattenSeq(r) \o x)
    BY SMTT(30), <1>1, <1>3, <2>2, ConcatAssociative
  <2>6. a \in Seq(Q)  OBVIOUS
  <2> HIDE DEF Q
  <2>7. a \o Append(r, x) = Append(a \o r, x)  BY <1>3, <2>6, ConcatAppend
  <2> QED  BY <1>3, <2>3, <2>4, <2>5, <2>7
<1>4. a \in Seq(Q) /\ b \in Seq(Q)  OBVIOUS
<1>5. FlattenSeq(<<>>) = <<>>  BY DEF FlattenSeq
<1>6. F \o <<>> = F  BY <1>1, ConcatEmptySeq
<1> HIDE DEF Q
<1>7. /\ B(0) = <<>> /\ B(Len(b)) = b
      /\ \A k \in 0 .. Len(b) : B(k) \in Seq(Q)
      /\ \A k \in 0 .. Len(b) - 1 : b[k + 1] \in Q /\ B(k + 1) = Append(B(k), b[k + 1])
  BY <1>4, PrefixFacts
<1> HIDE DEF B
<1>8. 0 \in T
  <2>1. a \o <<>> = a  BY <1>4, ConcatEmptySeq
  <2>2. 0 \in 0 .. Len(b)  BY <1>2
  <2> QED  BY <1>5, <1>6, <1>7, <2>1, <2>2
<1> HIDE DEF F
<1>9. ASSUME NEW k \in 0 .. Len(b) - 1, k \in T PROVE k + 1 \in T
  <2>1. k \in 0 .. Len(b) /\ k + 1 \in 0 .. Len(b)  BY <1>2
  <2>2. FlattenSeq(a \o B(k)) = F \o FlattenSeq(B(k))  BY <1>9
  <2>3. FlattenSeq(a \o B(k + 1)) = F \o FlattenSeq(B(k + 1))
    BY <1>3, <1>7, <2>1, <2>2
  <2> QED  BY <2>1, <2>3
<1>10. 0 .. Len(b) \subseteq T
  <2> HIDE DEF T
  <2> QED  BY <1>2, <1>8, <1>9, InductiveSet
<1>11. Len(b) \in T  BY SMTT(30), <1>2, <1>10
<1>12. FlattenSeq(a \o B(Len(b))) = F \o FlattenSeq(B(Len(b)))  BY <1>11
<1> QED  BY <1>7, <1>12 DEF F

(* What is handled: escape sequences, control bytes and decoded characters.  *)
Glyphs == Seq(Bytes \cup {"fffd"})
Chars(c) == [i \in DOMAIN c |-> CharAt(c, i)]
(* Does a character wait for its second byte at the end of d?               *)
EndsOpen(d) == d # <<>> /\ d[Len(d)] = Lead

LEMMA CharsAreGlyphs ==
    ASSUME NEW c \in Seq(Bytes)
    PROVE  /\ Chars(c) \in Seq(Seq(Glyphs)) /\ Len(Chars(c)) = Len(c)
           /\ Decoded(c) = FlattenSeq(Chars(c)) /\ Decoded(c) \in Seq(Glyphs)
<1>1. Len(c) \in Nat /\ DOMAIN c = 1 .. Len(c)  BY LenProperties
<1>2. ASSUME NEW i \in 1 .. Len(c) PROVE CharAt(c, i) \in Seq(Glyphs)
  <2>1. c[i] \in Bytes  BY ElementOfSeq
  <2>2. <<c[i]>> \in Glyphs /\ Replacement \in Glyphs  BY <2>1 DEF Glyphs, Replacement
  <2>3. At(c, i + 1) = Continuation => <<Lead, Continuation>> \in Glyphs \/ c[i] # Lead
    <3>1. ASSUME At(c, i + 1) = Continuation PROVE Continuation \in Bytes
      <4>1. i + 1 \in 1 .. Len(c)  BY <1>1, <3>1 DEF At, Continuation
      <4>2. c[i + 1] \in Bytes  BY <4>1, ElementOfSeq
      <4> QED  BY <1>1, <3>1, <4>1, <4>2 DEF At
    <3> QED  BY <2>1, <3>1 DEF Glyphs
  <2> HIDE DEF Glyphs
  <2>4. <<<<c[i]>>>> \in Seq(Glyphs) /\ <<Replacement>> \in Seq(Glyphs) /\ <<>> \in Seq(Glyphs)
    BY <2>2
  <2>5. <<Lead, Continuation>> \in Glyphs => <<<<Lead, Continuation>>>> \in Seq(Glyphs)
    OBVIOUS
  <2> QED  BY <2>3, <2>4, <2>5 DEF CharAt
<1>3. Chars(c) \in [1 .. Len(c) -> Seq(Glyphs)]  BY <1>1, <1>2 DEF Chars
<1>4. Chars(c) \in Seq(Seq(Glyphs)) /\ Len(Chars(c)) = Len(c)  BY <1>1, <1>3
<1>5. Decoded(c) = FlattenSeq(Chars(c))  BY DEF Decoded, Chars
<1> QED  BY <1>4, <1>5, FlattenIsASeq

(* Text that is cut between two characters is decoded in two parts.          *)
LEMMA DecodedConcat ==
    ASSUME NEW q \in Seq(Bytes), NEW t \in Seq(Bytes), ~EndsOpen(q)
    PROVE  Decoded(q \o t) = Decoded(q) \o Decoded(t)
<1> DEFINE d == q \o t
<1>1. /\ d \in Seq(Bytes) /\ Len(d) = Len(q) + Len(t) /\ Len(q) \in Nat /\ Len(t) \in Nat
      /\ \A i \in 1 .. Len(q) : d[i] = q[i] /\ At(d, i) = q[i] /\ At(q, i) = q[i]
      /\ \A i \in 1 .. Len(t) : /\ d[Len(q) + i] = t[i]
                                /\ At(d, Len(q) + i) = t[i] /\ At(t, i) = t[i]
  BY AtConcat
<1>2. DOMAIN q = 1 .. Len(q) /\ DOMAIN t = 1 .. Len(t) /\ DOMAIN d = 1 .. Len(q) + Len(t)
  BY <1>1, LenProperties
<1>3. q = <<>> \/ q[Len(q)] # Lead  BY DEF EndsOpen
<1>3a. q # <<>> => Len(q) # 0  BY EmptySeq
<1> HIDE DEF d
<1>4. ASSUME NEW i \in 1 .. Len(q) PROVE CharAt(d, i) = CharAt(q, i)
  <2>1. d[i] = q[i]  BY <1>1
  <2>2. At(d, i - 1) = At(q, i - 1)
    <3>1. CASE i = 1
      <4>1. i - 1 \notin DOMAIN d /\ i - 1 \notin DOMAIN q  BY <1>1, <1>2, <3>1
      <4> QED  BY <4>1 DEF At
    <3>2. CASE i # 1
      <4>1. i - 1 \in 1 .. Len(q)  BY <1>1, <3>2
      <4> QED  BY <1>1, <4>1
    <3> QED  BY <3>1, <3>2
  <2>3. q[i] = Lead => At(d, i + 1) = At(q, i + 1)
    <3>1. CASE i = Len(q)
      <4>1. q # <<>>  BY <1>1
      <4> QED  BY <1>3, <3>1, <4>1
    <3>2. CASE i # Len(q)
      <4>1. i + 1 \in 1 .. Len(q)  BY <1>1, <3>2
      <4> QED  BY <1>1, <4>1
    <3> QED  BY <3>1, <3>2
  <2> QED  BY <2>1, <2>2, <2>3 DEF CharAt, Second
<1>5. ASSUME NEW i \in 1 .. Len(t) PROVE CharAt(d, Len(q) + i) = CharAt(t, i)
  <2>1. d[Len(q) + i] = t[i]  BY <1>1
  <2>2. At(d, Len(q) + i - 1) = Lead <=> At(t, i - 1) = Lead
    <3>1. CASE i = 1
      <4>1. i - 1 \notin DOMAIN t /\ Len(q) + i - 1 = Len(q)  BY <1>1, <1>2, <3>1
      <4>2. At(t, i - 1) # Lead  BY <4>1 DEF At, Lead
      <4>3. At(d, Len(q)) # Lead
        <5>1. CASE Len(q) = 0
          <6>1. Len(q) \notin DOMAIN d  BY <1>2, <5>1
          <6> QED  BY <6>1 DEF At, Lead
        <5>2. CASE Len(q) # 0
          <6>1. Len(q) \in 1 .. Len(q)  BY <1>1, <5>2
          <6>2. q # <<>>  BY <5>2
          <6> QED  BY <1>1, <1>3, <6>1, <6>2
        <5> QED  BY <5>1, <5>2
      <4> QED  BY <4>1, <4>2, <4>3
    <3>2. CASE i # 1
      <4>1. i - 1 \in 1 .. Len(t) /\ Len(q) + (i - 1) = Len(q) + i - 1  BY <1>1, <3>2
      <4> QED  BY <1>1, <4>1
    <3> QED  BY <3>1, <3>2
  <2>3. At(d, Len(q) + i + 1) = At(t, i + 1)
    <3>1. CASE i = Len(t)
      <4>1. i + 1 \notin DOMAIN t /\ Len(q) + i + 1 \notin DOMAIN d  BY <1>1, <1>2, <3>1
      <4> QED  BY <4>1 DEF At
    <3>2. CASE i # Len(t)
      <4>1. i + 1 \in 1 .. Len(t) /\ Len(q) + (i + 1) = Len(q) + i + 1  BY <1>1, <3>2
      <4> QED  BY <1>1, <4>1
    <3> QED  BY <3>1, <3>2
  <2> QED  BY <2>1, <2>2, <2>3 DEF CharAt, Second
<1>6. Chars(d) = Chars(q) \o Chars(t)
  <2> DEFINE a == Chars(q)
             b == Chars(t)
             Q == Seq(Glyphs)
  <2>1. /\ a \in Seq(Q) /\ Len(a) = Len(q) /\ b \in Seq(Q) /\ Len(b) = Len(t)
        /\ Chars(d) \in Seq(Q) /\ Len(Chars(d)) = Len(q) + Len(t)
    BY <1>1, CharsAreGlyphs
  <2> HIDE DEF Q, a, b
  <2>2. /\ a \o b \in Seq(Q) /\ Len(a \o b) = Len(q) + Len(t)
        /\ \A i \in 1 .. Len(q) + Len(t) :
              (a \o b)[i] = IF i <= Len(q) THEN a[i] ELSE b[i - Len(q)]
    <3>1. a \in Seq(Q) /\ b \in Seq(Q)  BY <2>1
    <3>2. /\ a \o b \in Seq(Q) /\ Len(a \o b) = Len(a) + Len(b)
          /\ \A i \in 1 .. Len(a) + Len(b) :
                (a \o b)[i] = IF i <= Len(a) THEN a[i] ELSE b[i - Len(a)]
      BY <3>1, ConcatProperties
    <3>3. Len(a) = Len(q) /\ Len(b) = Len(t)  BY <2>1
    <3> QED  BY <3>2, <3>3
  <2>3. ASSUME NEW i \in 1 .. Len(q) + Len(t) PROVE Chars(d)[i] = (a \o b)[i]
    <3>1. Chars(d)[i] = CharAt(d, i)  BY <1>2 DEF Chars
    <3>2. CASE i <= Len(q)
      <4>1. i \in 1 .. Len(q)  BY <1>1, <3>2
      <4>2. a[i] = CharAt(q, i)  BY <1>2, <4>1 DEF Chars, a
      <4> QED  BY <1>4, <2>2, <3>1, <3>2, <4>1, <4>2
    <3>3. CASE ~(i <= Len(q))
      <4>1. i - Len(q) \in 1 .. Len(t) /\ Len(q) + (i - Len(q)) = i  BY <1>1, <3>3
      <4>2. b[i - Len(q)] = CharAt(t, i - Len(q))  BY <1>2, <4>1 DEF Chars, b
      <4>3. CharAt(d, Len(q) + (i - Len(q))) = CharAt(t, i - Len(q))  BY <1>5, <4>1
      <4> QED  BY <2>2, <3>1, <3>3, <4>1, <4>2, <4>3
    <3> QED  BY <3>2, <3>3
  <2>4. Chars(d) = a \o b  BY <2>1, <2>2, <2>3, SeqEqual
  <2> QED  BY <2>4 DEF a, b
<1>7. FlattenSeq(Chars(q) \o Chars(t)) = FlattenSeq(Chars(q)) \o FlattenSeq(Chars(t))
  BY CharsAreGlyphs, FlattenConcat
<1> QED  BY <1>1, <1>6, <1>7, CharsAreGlyphs DEF d

(* What is UTF-8 stays so before a cut, and after one between characters.     *)
LEMMA Utf8Prefix ==
    ASSUME NEW q \in Seq(Bytes), NEW t \in Seq(Bytes), Utf8(q \o t)
    PROVE  Utf8(q)
<1> DEFINE d == q \o t
<1>1. /\ d \in Seq(Bytes) /\ Len(d) = Len(q) + Len(t) /\ Len(q) \in Nat /\ Len(t) \in Nat
      /\ \A i \in 1 .. Len(q) : d[i] = q[i] /\ At(d, i) = q[i] /\ At(q, i) = q[i]
  BY AtConcat
<1>2. DOMAIN q = 1 .. Len(q) /\ DOMAIN d = 1 .. Len(q) + Len(t)
  BY <1>1, LenProperties
<1>3. Utf8(d)  OBVIOUS
<1> HIDE DEF d
<1>4. ASSUME NEW i \in 1 .. Len(q)
      PROVE  /\ d[i] = q[i] /\ i \in DOMAIN d
             /\ i > 1 => d[i - 1] = q[i - 1]
             /\ At(d, i - 1) = At(q, i - 1)
  <2>1. CASE i = 1
    <3>1. i - 1 \notin DOMAIN d /\ i - 1 \notin DOMAIN q  BY <1>1, <1>2, <2>1
    <3> QED  BY <1>1, <1>2, <2>1, <3>1 DEF At
  <2>2. CASE i # 1
    <3>1. i - 1 \in 1 .. Len(q) /\ i \in DOMAIN d  BY <1>1, <1>2, <2>2
    <3> QED  BY <1>1, <3>1
  <2> QED  BY <2>1, <2>2
<1> QED  BY <1>2, <1>3, <1>4 DEF Utf8

LEMMA Utf8Suffix ==
    ASSUME NEW q \in Seq(Bytes), NEW t \in Seq(Bytes), Utf8(q \o t), ~EndsOpen(q)
    PROVE  Utf8(t)
<1> DEFINE d == q \o t
<1>1. /\ d \in Seq(Bytes) /\ Len(d) = Len(q) + Len(t) /\ Len(q) \in Nat /\ Len(t) \in Nat
      /\ \A i \in 1 .. Len(q) : d[i] = q[i]
      /\ \A i \in 1 .. Len(t) : d[Len(q) + i] = t[i] /\ At(d, Len(q) + i) = t[i] /\ At(t, i) = t[i]
  BY AtConcat
<1>2. DOMAIN t = 1 .. Len(t) /\ DOMAIN d = 1 .. Len(q) + Len(t)
  BY <1>1, LenProperties
<1>3. Utf8(d)  OBVIOUS
<1>4. Len(q) > 0 => d[Len(q)] # Lead
  <2>1. Len(q) > 0 => q # <<>> /\ Len(q) \in 1 .. Len(q)  BY <1>1
  <2> QED  BY <1>1, <2>1 DEF EndsOpen
<1> HIDE DEF d
<1>5. ASSUME NEW i \in 1 .. Len(t)
      PROVE  /\ t[i] = Continuation <=> (i > 1 /\ t[i - 1] = Lead)
             /\ t[i] = Lead => At(t, i - 1) # "esc"
             /\ t[i] # "bad"
  <2> DEFINE j == Len(q) + i
  <2>1. j \in DOMAIN d /\ d[j] = t[i]  BY <1>1, <1>2
  <2>2. /\ d[j] = Continuation <=> (j > 1 /\ d[j - 1] = Lead)
        /\ d[j] = Lead => At(d, j - 1) # "esc"
        /\ d[j] # "bad"
    BY <1>3, <2>1 DEF Utf8
  <2>3. CASE i = 1
    <3>1. j - 1 = Len(q) /\ i - 1 \notin DOMAIN t  BY <1>1, <1>2, <2>3
    <3>2. ~(j > 1 /\ d[j - 1] = Lead)
      <4>1. j > 1 => Len(q) > 0  BY <1>1, <2>3
      <4> QED  BY <1>4, <3>1, <4>1
    <3>3. At(t, i - 1) = "end"  BY <3>1 DEF At
    <3>4. t[i] # Continuation /\ t[i] # "bad"  BY <2>1, <2>2, <3>2
    <3> QED  BY <2>3, <3>3, <3>4
  <2>4. CASE i # 1
    <3>1. /\ i - 1 \in 1 .. Len(t) /\ j - 1 = Len(q) + (i - 1) /\ j > 1 /\ i > 1
      BY <1>1, <2>4
    <3>2. d[j - 1] = t[i - 1] /\ At(d, j - 1) = At(t, i - 1)  BY <1>1, <3>1
    <3> HIDE DEF j
    <3> QED  BY <2>1, <2>2, <3>1, <3>2
  <2> QED  BY <2>3, <2>4
<1> QED  BY <1>2, <1>5 DEF Utf8

(* The one error of UTF-8 text is a character that has not all arrived.      *)
LEMMA OnlyLastWrong ==
    ASSUME NEW t \in Seq(Bytes), t # <<>>, Utf8(t)
    PROVE  /\ \A i \in 1 .. Len(t) - 1 : ~Wrong(t, i)
           /\ Wrong(t, Len(t)) <=> EndsOpen(t)
<1>1. Len(t) \in Nat /\ Len(t) >= 1 /\ DOMAIN t = 1 .. Len(t)
  <2>1. Len(t) \in Nat \ {0}  BY EmptySeq
  <2> QED  BY <2>1, LenProperties
<1>2. ASSUME NEW i \in 1 .. Len(t)
      PROVE  Wrong(t, i) <=> t[i] = Lead /\ At(t, i + 1) # Continuation
  <2>1. t[i] = Continuation => Second(t, i)
    <3>1. t[i] = Continuation => i > 1 /\ t[i - 1] = Lead  BY <1>1 DEF Utf8
    <3>2. i > 1 => i - 1 \in DOMAIN t  BY <1>1
    <3> QED  BY <3>1, <3>2 DEF Second, At
  <2>2. t[i] # "bad"  BY <1>1 DEF Utf8
  <2> QED  BY <2>1, <2>2 DEF Wrong
<1>3. ASSUME NEW i \in 1 .. Len(t) - 1 PROVE ~Wrong(t, i)
  <2>1. i \in 1 .. Len(t) /\ i + 1 \in DOMAIN t /\ i + 1 > 1 /\ (i + 1) - 1 = i  BY <1>1
  <2>2. t[i] = Lead => t[i + 1] = Continuation  BY <2>1 DEF Utf8
  <2> QED  BY <1>2, <2>1, <2>2 DEF At
<1>4. Wrong(t, Len(t)) <=> EndsOpen(t)
  <2>1. Len(t) \in 1 .. Len(t) /\ Len(t) + 1 \notin DOMAIN t  BY <1>1
  <2>2. At(t, Len(t) + 1) # Continuation  BY <2>1 DEF At, Continuation
  <2> QED  BY <1>2, <2>1, <2>2 DEF EndsOpen
<1> QED  BY <1>3, <1>4

LEMMA DecodeUtf8 ==
    ASSUME NEW t \in Seq(Bytes), Utf8(t)
    PROVE  DecodePartial(t) = IF EndsOpen(t)
                              THEN [text |-> Decoded(Front(t)), kept |-> <<Lead>>]
                              ELSE [text |-> Decoded(t), kept |-> <<>>]
<1>1. CASE t = <<>>  BY <1>1 DEF DecodePartial, EndsOpen
<1>2. CASE t # <<>>
  <2>1. EndsOpen(t) => Last(t) = Lead  BY DEF EndsOpen, Last
  <2>2. /\ \A i \in 1 .. Len(t) - 1 : ~Wrong(t, i)
        /\ Wrong(t, Len(t)) <=> EndsOpen(t)
    BY <1>2, OnlyLastWrong
  <2> QED  BY <1>2, <2>1, <2>2 DEF DecodePartial
<1> QED  BY <1>1, <1>2

LEMMA FrontOf ==
    ASSUME NEW S, NEW q \in Seq(S), NEW x \in S
    PROVE  Front(q \o <<x>>) = q /\ q \o <<x>> # <<>> /\ (q \o <<x>>)[Len(q \o <<x>>)] = x
<1> DEFINE w == Append(q, x)
<1>1. Append(q, x) = q \o <<x>>  BY AppendIsConcat
<1>2. /\ w \in Seq(S) /\ w # <<>> /\ Len(w) = Len(q) + 1 /\ Len(q) \in Nat
      /\ \A i \in 1 .. Len(q) : w[i] = q[i]
      /\ w[Len(q) + 1] = x
  BY AppendProperties, LenProperties
<1> HIDE DEF w
<1>3. Len(w) - 1 = Len(q)  BY <1>2
<1>4. \A i \in 1 .. Len(q) : q[i] \in S  BY ElementOfSeq
<1>5. /\ SubSeq(w, 1, Len(q)) \in Seq(S) /\ Len(SubSeq(w, 1, Len(q))) = Len(q)
      /\ \A i \in 1 .. Len(q) : SubSeq(w, 1, Len(q))[i] = q[i]
  <2>1. \A i \in 1 .. Len(q) : w[i] \in S  BY <1>2, <1>4
  <2>2. 1 \in Int /\ Len(q) \in Int  BY <1>2
  <2>3. /\ SubSeq(w, 1, Len(q)) \in Seq(S)
        /\ Len(SubSeq(w, 1, Len(q))) = IF 1 <= Len(q) THEN Len(q) - 1 + 1 ELSE 0
        /\ \A i \in 1 .. Len(q) - 1 + 1 : SubSeq(w, 1, Len(q))[i] = w[1 + i - 1]
    BY <2>1, <2>2, SubSeqProperties
  <2>4. Len(q) - 1 + 1 = Len(q) /\ (~(1 <= Len(q)) => Len(q) = 0)  BY <1>2
  <2>5. \A i \in 1 .. Len(q) : 1 + i - 1 = i  BY <1>2
  <2> QED  BY <1>2, <2>3, <2>4, <2>5
<1>6. SubSeq(w, 1, Len(q)) = q  BY <1>5, SeqEqual
<1> QED  BY <1>1, <1>2, <1>3, <1>6 DEF Front, w

(* What a turn of the loop takes and gives.                                  *)
LEMMA TextIs == "end" \notin TextBytes /\ TextBytes \subseteq Bytes
BY FeedAssumption DEF FeedAssumption, TextBytes

LEMMA PartIs ==
    ASSUME NEW t \in Seq(Bytes)
    PROVE  DecodePartial(t).text \in Seq(Glyphs) /\ DecodePartial(t).kept \in Seq(Bytes)
<1>1. CASE t = <<>>
  <2>1. DecodePartial(t) = [text |-> Decoded(t), kept |-> <<>>]  BY <1>1 DEF DecodePartial
  <2> QED  BY <2>1, CharsAreGlyphs
<1>2. CASE t # <<>>
  <2>1. PICK q \in Seq(Bytes), x \in Bytes : t = Append(q, x)  BY <1>2, LastOf
  <2>2. Front(t) = q /\ Last(t) = x
    <3>1. t = q \o <<x>>  BY <2>1, AppendIsConcat
    <3> QED  BY <3>1, FrontOf DEF Last
  <2>3. Decoded(q) \in Seq(Glyphs) /\ Decoded(t) \in Seq(Glyphs)  BY CharsAreGlyphs
  <2>4. <<x>> \in Seq(Bytes) /\ <<>> \in Seq(Bytes)  OBVIOUS
  <2>5. \/ DecodePartial(t) = [text |-> Decoded(q), kept |-> <<x>>]
        \/ DecodePartial(t) = [text |-> Decoded(t), kept |-> <<>>]
    BY <2>2 DEF DecodePartial
  <2>6. /\ DecodePartial(t).text \in {Decoded(q), Decoded(t)}
        /\ DecodePartial(t).kept \in {<<x>>, <<>>}
    BY <2>5
  <2> QED  BY <2>3, <2>4, <2>6
<1> QED  BY <1>1, <1>2

LEMMA TextRun ==
    ASSUME NEW d \in Seq(Bytes), d # <<>>, d[1] \in TextBytes
    PROVE  /\ RunIn(TextBytes, d, 1) \in 1 .. Len(d)
           /\ SubSeq(d, 1, RunIn(TextBytes, d, 1)) \in Seq(Bytes)
           /\ Stops(TextBytes, d, 1, RunIn(TextBytes, d, 1))
<1> DEFINE n == RunIn(TextBytes, d, 1)
<1>1. Len(d) \in Nat /\ Len(d) >= 1 /\ DOMAIN d = 1 .. Len(d)
  <2>1. Len(d) \in Nat \ {0}  BY EmptySeq
  <2> QED  BY <2>1, LenProperties
<1>2. Stops(TextBytes, d, 1, n)
  <2>1. 1 \in 1 .. Len(d) + 1  BY <1>1
  <2> QED  BY <2>1, TextIs, RunIs
<1> HIDE DEF n
<1>3. n # 0
  <2>1. At(d, 1) = d[1]  BY <1>1 DEF At
  <2> QED  BY <1>2, <2>1 DEF Stops
<1>4. n \in 1 .. Len(d)  BY <1>1, <1>2, <1>3 DEF Stops
<1>5. SubSeq(d, 1, n) \in Seq(Bytes)
  <2>1. n \in 0 .. Len(d)  BY <1>1, <1>4
  <2> QED  BY <2>1, PrefixFacts
<1> QED  BY <1>2, <1>4, <1>5 DEF n

LEMMA TurnIs ==
    ASSUME NEW d \in Seq(Bytes), d # <<>>
    PROVE  /\ Turn(d).used \in 1 .. Len(d)
           /\ Turn(d).out \in Seq(Glyphs) /\ Turn(d).held \in Seq(Bytes)
           /\ After(d, Turn(d).used) \in Seq(Bytes)
           /\ Len(After(d, Turn(d).used)) < Len(d)
<1>1. Len(d) \in Nat /\ Len(d) >= 1 /\ d[1] \in Bytes
  <2>1. Len(d) \in Nat \ {0}  BY EmptySeq
  <2>2. 1 \in 1 .. Len(d)  BY <2>1
  <2> QED  BY <2>1, <2>2, ElementOfSeq
<1>2. /\ Turn(d).used \in 1 .. Len(d)
      /\ Turn(d).out \in Seq(Glyphs) /\ Turn(d).held \in Seq(Bytes)
  <2>1. <<>> \in Seq(Glyphs) /\ <<>> \in Seq(Bytes)  OBVIOUS
  <2>2. CASE d[1] = "esc" /\ Escape(d) = 0
    <3>1. Turn(d) = [used |-> Len(d), out |-> <<>>, held |-> d]  BY <2>2 DEF Turn
    <3> QED  BY <1>1, <2>1, <3>1
  <2>3. CASE d[1] = "esc" /\ Escape(d) # 0
    <3>1. Escape(d) \in 1 .. Len(d)  BY <1>1, <2>3, EscapeIs
    <3>2. SubSeq(d, 1, Escape(d)) \in Seq(Bytes)
      <4>1. Escape(d) \in 0 .. Len(d)  BY <1>1, <3>1
      <4> QED  BY <4>1, PrefixFacts
    <3> DEFINE x == SubSeq(d, 1, Escape(d))
    <3>3. x \in Glyphs  BY <3>2, SeqMonotonic DEF Glyphs
    <3> HIDE DEF x
    <3>4. <<x>> \in Seq(Glyphs)  BY <3>3
    <3>5. Turn(d) = [used |-> Escape(d), out |-> <<x>>, held |-> <<>>]
      BY <2>3 DEF Turn, Taken, x
    <3> QED  BY <2>1, <3>1, <3>4, <3>5
  <2>4. CASE d[1] # "esc" /\ d[1] \in Controls
    <3> DEFINE x == <<d[1]>>
    <3>1. x \in Glyphs  BY <1>1 DEF Glyphs
    <3>2. Turn(d) = [used |-> 1, out |-> <<x>>, held |-> <<>>]  BY <2>4 DEF Turn, Taken
    <3> HIDE DEF x
    <3>3. <<x>> \in Seq(Glyphs)  BY <3>1
    <3> QED  BY <1>1, <2>1, <3>2, <3>3
  <2>5. CASE d[1] # "esc" /\ d[1] \notin Controls /\ d[1] \in Dropped
    <3>1. Turn(d) = [used |-> 1, out |-> <<>>, held |-> <<>>]  BY <2>5 DEF Turn, Taken
    <3> QED  BY <1>1, <2>1, <3>1
  <2>6. CASE d[1] # "esc" /\ d[1] \notin Controls /\ d[1] \notin Dropped
    <3> DEFINE n == RunIn(TextBytes, d, 1)
               t == SubSeq(d, 1, n)
               part == DecodePartial(t)
    <3>1. d[1] \in TextBytes  BY <1>1, <2>6 DEF TextBytes
    <3>2. n \in 1 .. Len(d) /\ t \in Seq(Bytes)  BY <3>1, TextRun
    <3>3. part.text \in Seq(Glyphs) /\ part.kept \in Seq(Bytes)
      <4> HIDE DEF t
      <4> QED  BY <3>2, PartIs
    <3>4. \/ Turn(d) = [used |-> n, out |-> part.text, held |-> <<>>]
          \/ Turn(d) = [used |-> n, out |-> part.text, held |-> part.kept]
          \/ Turn(d) = [used |-> n, out |-> Append(part.text, Replacement), held |-> <<>>]
      BY <2>6 DEF Turn, TextTurn, Taken
    <3> HIDE DEF part, n, t
    <3>5. Append(part.text, Replacement) \in Seq(Glyphs)
      <4>1. Replacement \in Glyphs  BY DEF Replacement, Glyphs
      <4> QED  BY <3>3, <4>1, AppendProperties
    <3>6. /\ Turn(d).used = n
          /\ Turn(d).out \in {part.text, Append(part.text, Replacement)}
          /\ Turn(d).held \in {<<>>, part.kept}
      BY <3>4
    <3> QED  BY <2>1, <3>2, <3>3, <3>5, <3>6
  <2> QED  BY <2>2, <2>3, <2>4, <2>5, <2>6
<1> DEFINE n == Turn(d).used
<1>3. n \in 1 .. Len(d)  BY <1>2
<1> HIDE DEF n
<1>4. After(d, n) \in Seq(Bytes)
  <2>1. n \in 0 .. Len(d)  BY <1>1, <1>3
  <2> QED  BY <2>1, SplitsAt DEF After
<1>5. Len(After(d, n)) < Len(d)
  <2>1. \A i \in n + 1 .. Len(d) : d[i] \in Bytes
    <3>1. \A i \in n + 1 .. Len(d) : i \in 1 .. Len(d)  BY <1>1, <1>3
    <3> QED  BY <3>1, ElementOfSeq
  <2>2. n + 1 \in Int /\ Len(d) \in Int  BY <1>1, <1>3
  <2>3. Len(SubSeq(d, n + 1, Len(d))) = IF n + 1 <= Len(d) THEN Len(d) - (n + 1) + 1 ELSE 0
    BY <2>1, <2>2, SubSeqProperties
  <2> QED  BY <1>1, <1>3, <2>3 DEF After
<1> QED  BY <1>2, <1>4, <1>5 DEF n

-----------------------------------------------------------------------------
(* One call of Parse, with f for the calls it makes; f is right up to length *)
(* n.  Such an f exists for every n, two agree where both are right, and so   *)
(* one function is right everywhere: Parse is what its definition says.      *)
ParseStep(f, d) ==
    IF d = <<>> THEN [out |-> <<>>, pending |-> <<>>]
    ELSE IF Turn(d).held # <<>> THEN [out |-> Turn(d).out, pending |-> Turn(d).held]
    ELSE Before(Turn(d).out, f[After(d, Turn(d).used)])
ParsesTo(f, n) ==
    \A d \in Seq(Bytes) : Len(d) <= n => f[d] = ParseStep(f, d)

LEMMA StepIsLocal ==
    ASSUME NEW f, NEW g, NEW d \in Seq(Bytes),
           \A c \in Seq(Bytes) : Len(c) < Len(d) => f[c] = g[c]
    PROVE  ParseStep(f, d) = ParseStep(g, d)
<1>1. CASE d = <<>>  BY <1>1 DEF ParseStep
<1>2. CASE d # <<>>
  <2>1. f[After(d, Turn(d).used)] = g[After(d, Turn(d).used)]  BY <1>2, TurnIs
  <2> QED  BY <1>2, <2>1 DEF ParseStep
<1> QED  BY <1>1, <1>2

LEMMA ParsersExist == ASSUME NEW n \in Nat PROVE \E f : ParsesTo(f, n)
<1> DEFINE T == {k \in Nat : \E f : ParsesTo(f, k)}
<1>1. 0 \in T
  <2> DEFINE f == [d \in Seq(Bytes) |-> [out |-> <<>>, pending |-> <<>>]]
  <2>1. ASSUME NEW d \in Seq(Bytes), Len(d) <= 0 PROVE f[d] = ParseStep(f, d)
    <3>1. d = <<>>
      <4>1. d # <<>> => Len(d) \in Nat \ {0}  BY EmptySeq
      <4> QED  BY <2>1, <4>1
    <3>2. f[d] = [out |-> <<>>, pending |-> <<>>]  OBVIOUS
    <3> HIDE DEF f
    <3> QED  BY <3>1, <3>2 DEF ParseStep
  <2> HIDE DEF f
  <2>2. ParsesTo(f, 0)  BY <2>1 DEF ParsesTo
  <2> QED  BY <2>2
<1>2. ASSUME NEW k \in 0 .. n - 1, k \in T PROVE k + 1 \in T
  <2>1. PICK g : ParsesTo(g, k)  BY <1>2
  <2> DEFINE h == [d \in Seq(Bytes) |-> ParseStep(g, d)]
  <2>2. \A d \in Seq(Bytes) : h[d] = ParseStep(g, d)  OBVIOUS
  <2> HIDE DEF h
  <2>3. ASSUME NEW d \in Seq(Bytes), Len(d) <= k + 1 PROVE h[d] = ParseStep(h, d)
    <3>1. ASSUME NEW c \in Seq(Bytes), Len(c) < Len(d) PROVE g[c] = h[c]
      <4>1. Len(c) <= k
        <5>1. Len(c) \in Nat /\ Len(d) \in Nat /\ k \in Nat  BY LenProperties
        <5> QED  BY <2>3, <3>1, <5>1
      <4> QED  BY <2>1, <2>2, <4>1 DEF ParsesTo
    <3>2. ParseStep(g, d) = ParseStep(h, d)  BY <3>1, StepIsLocal
    <3> QED  BY <2>2, <3>2
  <2>4. ParsesTo(h, k + 1)  BY <2>3 DEF ParsesTo
  <2> QED  BY <2>4
<1> HIDE DEF T
<1>3. 0 .. n \subseteq T  BY <1>1, <1>2, InductiveSet
<1> QED  BY <1>3 DEF T

LEMMA ParsersAgree ==
    ASSUME NEW m \in Nat, NEW n \in Nat, m <= n, NEW f, NEW g, ParsesTo(f, m), ParsesTo(g, n),
           NEW d \in Seq(Bytes), Len(d) <= m
    PROVE  f[d] = g[d]
<1> DEFINE T == {k \in 0 .. m : \A c \in Seq(Bytes) : Len(c) <= k => f[c] = g[c]}
<1>1. ASSUME NEW k \in 0 .. m,
             \A c \in Seq(Bytes) : Len(c) < k => f[c] = g[c],
             NEW c \in Seq(Bytes), Len(c) <= k
      PROVE  f[c] = g[c]
  <2>1. Len(c) \in Nat /\ Len(c) <= m /\ Len(c) <= n  BY <1>1, LenProperties
  <2>2. f[c] = ParseStep(f, c) /\ g[c] = ParseStep(g, c)  BY <2>1 DEF ParsesTo
  <2>3. ASSUME NEW e \in Seq(Bytes), Len(e) < Len(c) PROVE f[e] = g[e]
    <3>1. Len(e) < k
      <4>1. Len(e) \in Nat  BY LenProperties
      <4> QED  BY <1>1, <2>1, <2>3, <4>1
    <3> QED  BY <1>1, <3>1
  <2>4. ParseStep(f, c) = ParseStep(g, c)  BY <2>3, StepIsLocal
  <2> QED  BY <2>2, <2>4
<1>2. 0 \in T
  <2>1. \A c \in Seq(Bytes) : ~(Len(c) < 0)
    <3>1. TAKE c \in Seq(Bytes)
    <3>2. Len(c) \in Nat  BY LenProperties
    <3> QED  BY <3>2
  <2>2. 0 \in 0 .. m  OBVIOUS
  <2> QED  BY <1>1, <2>1, <2>2
<1>3. ASSUME NEW k \in 0 .. m - 1, k \in T PROVE k + 1 \in T
  <2>1. k + 1 \in 0 .. m  OBVIOUS
  <2>2. \A c \in Seq(Bytes) : Len(c) < k + 1 => f[c] = g[c]
    <3>1. TAKE c \in Seq(Bytes)
    <3>2. Len(c) \in Nat  BY LenProperties
    <3>3. Len(c) < k + 1 => Len(c) <= k  BY <3>2
    <3> QED  BY <1>3, <3>3
  <2> QED  BY <1>1, <2>1, <2>2
<1> HIDE DEF T
<1>4. 0 .. m \subseteq T  BY <1>2, <1>3, InductiveSet
<1>5. m \in T  BY <1>4
<1> QED  BY <1>5 DEF T

LEMMA ParseIs == ASSUME NEW d \in Seq(Bytes) PROVE Parse[d] = ParseStep(Parse, d)
<1> DEFINE By(n) == CHOOSE f : ParsesTo(f, n)
           p == [c \in Seq(Bytes) |-> By(Len(c))[c]]
           Parser(f) == f = [c \in Seq(Bytes) |-> ParseStep(f, c)]
<1>1. \A n \in Nat : ParsesTo(By(n), n)  BY ParsersExist
<1>2. \A c \in Seq(Bytes) : p[c] = By(Len(c))[c]  OBVIOUS
<1>3. p = [c \in Seq(Bytes) |-> p[c]]  OBVIOUS
<1> HIDE DEF By, p
<1>4. ASSUME NEW c \in Seq(Bytes) PROVE p[c] = ParseStep(p, c)
  <2> DEFINE f == By(Len(c))
  <2>1. Len(c) \in Nat  BY LenProperties
  <2>2. ParsesTo(f, Len(c)) /\ p[c] = f[c]  BY <1>1, <1>2, <2>1
  <2> HIDE DEF f
  <2>3. f[c] = ParseStep(f, c)
    <3>1. Len(c) <= Len(c)  BY <2>1
    <3> QED  BY <2>2, <3>1 DEF ParsesTo
  <2>4. ASSUME NEW e \in Seq(Bytes), Len(e) < Len(c) PROVE f[e] = p[e]
    <3>1. Len(e) \in Nat /\ Len(e) <= Len(e) /\ Len(e) <= Len(c)
      <4>1. Len(e) \in Nat  BY LenProperties
      <4> QED  BY <2>1, <2>4, <4>1
    <3>2. ParsesTo(By(Len(e)), Len(e)) /\ p[e] = By(Len(e))[e]  BY <1>1, <1>2, <3>1
    <3>3. By(Len(e))[e] = f[e]  BY <2>1, <2>2, <3>1, <3>2, ParsersAgree
    <3> QED  BY <3>2, <3>3
  <2>5. ParseStep(f, c) = ParseStep(p, c)  BY <2>4, StepIsLocal
  <2> QED  BY <2>2, <2>3, <2>5
<1>5. Parser(p)  BY <1>3, <1>4
<1>6. Parse = CHOOSE f : Parser(f)  BY DEF Parse, ParseStep
<1>7. Parser(Parse)
  <2> HIDE DEF Parser
  <2> QED  BY <1>5, <1>6
<1>8. Parse = [c \in Seq(Bytes) |-> ParseStep(Parse, c)]  BY <1>7
<1> DEFINE e(c) == ParseStep(Parse, c)
<1>9. \A P : P = [c \in Seq(Bytes) |-> e(c)] => P[d] = e(d)
  <2> HIDE DEF e
  <2> QED  OBVIOUS
<1> QED  BY <1>8, <1>9

-----------------------------------------------------------------------------
(* What Parse returns, and what it means to handle more before it.           *)
Parsed == [out : Seq(Glyphs), pending : Seq(Bytes)]

LEMMA BeforePair ==
    ASSUME NEW x, NEW o, NEW w
    PROVE  Before(x, [out |-> o, pending |-> w]) = [out |-> x \o o, pending |-> w]
<1> DEFINE r == [out |-> o, pending |-> w]
           y == x \o o
<1>1. Before(x, r) = [r EXCEPT !.out = x \o @]  BY DEF Before
<1>2. r.out = o  OBVIOUS
<1>3. [r EXCEPT !.out = x \o @] = [r EXCEPT !.out = y]  BY <1>2
<1>4. \A z : [r EXCEPT !.out = z] = [out |-> z, pending |-> w]  OBVIOUS
<1>5. [r EXCEPT !.out = y] = [out |-> y, pending |-> w]
  <2> HIDE DEF r, y
  <2> QED  BY <1>4
<1> HIDE DEF r
<1> QED  BY <1>1, <1>3, <1>5 DEF r

LEMMA BeforeIs ==
    ASSUME NEW a \in Seq(Glyphs), NEW r \in Parsed
    PROVE  /\ Before(a, r) = [out |-> a \o r.out, pending |-> r.pending]
           /\ Before(a, r) \in Parsed
           /\ Before(<<>>, r) = r
<1>1. PICK o \in Seq(Glyphs), w \in Seq(Bytes) : r = [out |-> o, pending |-> w]  BY DEF Parsed
<1>2. a \o o \in Seq(Glyphs) /\ <<>> \o o = o  BY ConcatProperties, ConcatEmptySeq
<1>3. Before(a, r) = [out |-> a \o o, pending |-> w]  BY <1>1, BeforePair
<1>4. Before(<<>>, r) = [out |-> <<>> \o o, pending |-> w]  BY <1>1, BeforePair
<1>5. Before(<<>>, r) = r  BY <1>1, <1>2, <1>4
<1>6. Before(a, r) \in Parsed  BY <1>2, <1>3 DEF Parsed
<1>7. r.out = o /\ r.pending = w  BY <1>1
<1> QED  BY <1>3, <1>5, <1>6, <1>7

LEMMA BeforeTwice ==
    ASSUME NEW a \in Seq(Glyphs), NEW b \in Seq(Glyphs), NEW r \in Parsed
    PROVE  Before(a, Before(b, r)) = Before(a \o b, r)
<1>1. PICK o \in Seq(Glyphs), w \in Seq(Bytes) : r = [out |-> o, pending |-> w]  BY DEF Parsed
<1>2. (a \o b) \o o = a \o (b \o o)  BY SMTT(30), ConcatAssociative
<1>3. Before(b, r) = [out |-> b \o o, pending |-> w]  BY <1>1, BeforePair
<1>4. Before(a, Before(b, r)) = [out |-> a \o (b \o o), pending |-> w]  BY <1>3, BeforePair, ZenonT(60)
<1>5. Before(a \o b, r) = [out |-> (a \o b) \o o, pending |-> w]  BY <1>1, BeforePair
<1> QED  BY <1>2, <1>4, <1>5

LEMMA ParseEmpty == Parse[<<>>] = [out |-> <<>>, pending |-> <<>>]
<1>1. <<>> \in Seq(Bytes)  OBVIOUS
<1> QED  BY <1>1, ParseIs DEF ParseStep

LEMMA ParseTurn ==
    ASSUME NEW d \in Seq(Bytes), d # <<>>
    PROVE  Parse[d] = IF Turn(d).held # <<>>
                      THEN [out |-> Turn(d).out, pending |-> Turn(d).held]
                      ELSE Before(Turn(d).out, Parse[After(d, Turn(d).used)])
<1>1. Parse[d] = ParseStep(Parse, d)  BY ParseIs
<1> QED  BY <1>1 DEF ParseStep

LEMMA ParseType == ASSUME NEW d \in Seq(Bytes) PROVE Parse[d] \in Parsed
<1> DEFINE n == Len(d)
           T == {k \in 0 .. n : \A c \in Seq(Bytes) : Len(c) <= k => Parse[c] \in Parsed}
<1>1. ASSUME NEW k \in 0 .. n,
             \A c \in Seq(Bytes) : Len(c) < k => Parse[c] \in Parsed,
             NEW c \in Seq(Bytes), Len(c) <= k
      PROVE  Parse[c] \in Parsed
  <2>1. CASE c = <<>>
    <3>1. <<>> \in Seq(Glyphs) /\ <<>> \in Seq(Bytes)  OBVIOUS
    <3> QED  BY <2>1, <3>1, ParseEmpty DEF Parsed
  <2>2. CASE c # <<>>
    <3> DEFINE rest == After(c, Turn(c).used)
    <3>1. /\ Turn(c).out \in Seq(Glyphs) /\ Turn(c).held \in Seq(Bytes)
          /\ rest \in Seq(Bytes) /\ Len(rest) < Len(c)
      BY <2>2, TurnIs
    <3>2. Parse[c] = IF Turn(c).held # <<>>
                     THEN [out |-> Turn(c).out, pending |-> Turn(c).held]
                     ELSE Before(Turn(c).out, Parse[rest])
      BY <2>2, ParseTurn
    <3> HIDE DEF rest
    <3>3. Len(rest) < k
      <4>1. Len(rest) \in Nat /\ Len(c) \in Nat /\ n \in Nat  BY <3>1, LenProperties
      <4> QED  BY <1>1, <3>1, <4>1
    <3>4. Parse[rest] \in Parsed  BY <1>1, <3>1, <3>3
    <3>5. Before(Turn(c).out, Parse[rest]) \in Parsed  BY <3>1, <3>4, BeforeIs
    <3> QED  BY <3>1, <3>2, <3>5 DEF Parsed
  <2> QED  BY <2>1, <2>2
<1>2. n \in Nat /\ \A c \in Seq(Bytes) : Len(c) \in Nat  BY LenProperties
<1> HIDE DEF n
<1>3. 0 \in T  BY <1>1, <1>2
<1>4. ASSUME NEW k \in 0 .. n - 1, k \in T PROVE k + 1 \in T
  <2>1. k + 1 \in 0 .. n  BY <1>2
  <2>2. \A c \in Seq(Bytes) : Len(c) < k + 1 => Parse[c] \in Parsed
    <3>1. \A c \in Seq(Bytes) : Len(c) < k + 1 => Len(c) <= k  BY <1>2
    <3> QED  BY <1>4, <3>1
  <2> QED  BY <1>1, <2>1, <2>2
<1> HIDE DEF T
<1>5. 0 .. n \subseteq T  BY <1>2, <1>3, <1>4, InductiveSet
<1>6. n \in T  BY <1>2, <1>5
<1> QED  BY <1>2, <1>6 DEF T, n

(* A chunk cut in two.                                                       *)
LEMMA CutsAt ==
    ASSUME NEW B, NEW a \in Seq(B), NEW b \in Seq(B)
    PROVE  SubSeq(a \o b, 1, Len(a)) = a /\ After(a \o b, Len(a)) = b
<1> DEFINE d == a \o b
<1>1. /\ d \in Seq(B) /\ Len(d) = Len(a) + Len(b) /\ Len(a) \in Nat /\ Len(b) \in Nat
      /\ \A i \in 1 .. Len(a) : d[i] = a[i]
      /\ \A i \in 1 .. Len(b) : d[Len(a) + i] = b[i]
  BY AtConcat
<1> HIDE DEF d
<1>2. \A i \in 1 .. Len(d) : d[i] \in B  BY <1>1, ElementOfSeq
<1>3. SubSeq(d, 1, Len(a)) = a
  <2> DEFINE s == SubSeq(d, 1, Len(a))
  <2>1. \A i \in 1 .. Len(a) : d[i] \in B  BY <1>1, <1>2
  <2>2. 1 \in Int /\ Len(a) \in Int  BY <1>1
  <2>3. /\ s \in Seq(B) /\ Len(s) = IF 1 <= Len(a) THEN Len(a) - 1 + 1 ELSE 0
        /\ \A i \in 1 .. Len(a) - 1 + 1 : s[i] = d[1 + i - 1]
    BY <2>1, <2>2, SubSeqProperties
  <2> HIDE DEF s
  <2>4. Len(s) = Len(a)  BY <1>1, <2>3
  <2>5. ASSUME NEW i \in 1 .. Len(a) PROVE s[i] = a[i]
    <3>1. i \in 1 .. Len(a) - 1 + 1 /\ 1 + i - 1 = i  BY <1>1
    <3> QED  BY <1>1, <2>3, <3>1
  <2>6. s = a  BY <2>3, <2>4, <2>5, SeqEqual
  <2> QED  BY <2>6 DEF s
<1>4. After(d, Len(a)) = b
  <2> DEFINE m == Len(a) + 1
             s == SubSeq(d, m, Len(d))
  <2>1. \A i \in m .. Len(d) : d[i] \in B
    <3>1. \A i \in m .. Len(d) : i \in 1 .. Len(d)  BY <1>1
    <3> QED  BY <1>2, <3>1
  <2>2. m \in Int /\ Len(d) \in Int  BY <1>1
  <2> HIDE DEF m
  <2>3. /\ s \in Seq(B) /\ Len(s) = IF m <= Len(d) THEN Len(d) - m + 1 ELSE 0
        /\ \A i \in 1 .. Len(d) - m + 1 : s[i] = d[m + i - 1]
    BY <2>1, <2>2, SubSeqProperties
  <2> HIDE DEF s
  <2>4. Len(s) = Len(b)  BY <1>1, <2>3 DEF m
  <2>5. ASSUME NEW i \in 1 .. Len(b) PROVE s[i] = b[i]
    <3>1. i \in 1 .. Len(d) - m + 1 /\ m + i - 1 = Len(a) + i  BY <1>1 DEF m
    <3> QED  BY <1>1, <2>3, <3>1
  <2>6. s = b  BY <2>3, <2>4, <2>5, SeqEqual
  <2> QED  BY <2>6 DEF s, m, After
<1> QED  BY <1>3, <1>4 DEF d

LEMMA AfterConcat ==
    ASSUME NEW d \in Seq(Bytes), NEW c \in Seq(Bytes), NEW n \in 0 .. Len(d)
    PROVE  /\ SubSeq(d, 1, n) \in Seq(Bytes) /\ Len(SubSeq(d, 1, n)) = n
           /\ SubSeq(d \o c, 1, n) = SubSeq(d, 1, n)
           /\ After(d, n) \in Seq(Bytes) /\ After(d \o c, n) = After(d, n) \o c
           /\ d = SubSeq(d, 1, n) \o After(d, n)
           /\ \A i \in 1 .. n : SubSeq(d, 1, n)[i] = d[i]
<1> DEFINE a == SubSeq(d, 1, n)
           b == After(d, n)
<1>1. a \in Seq(Bytes) /\ b \in Seq(Bytes) /\ d = a \o b  BY SplitsAt DEF After
<1>2. Len(d) \in Nat  BY LenProperties
<1>3. Len(a) = n /\ \A i \in 1 .. n : a[i] = d[i]
  <2>1. \A i \in 1 .. n : d[i] \in Bytes
    <3>1. \A i \in 1 .. n : i \in 1 .. Len(d)  BY <1>2
    <3> QED  BY <3>1, ElementOfSeq
  <2>2. 1 \in Int /\ n \in Int  BY <1>2
  <2>3. /\ Len(a) = IF 1 <= n THEN n - 1 + 1 ELSE 0
        /\ \A i \in 1 .. n - 1 + 1 : a[i] = d[1 + i - 1]
    BY <2>1, <2>2, SubSeqProperties
  <2> HIDE DEF a
  <2>4. Len(a) = n  BY <1>2, <2>3
  <2>5. \A i \in 1 .. n : i \in 1 .. n - 1 + 1 /\ 1 + i - 1 = i  BY <1>2
  <2> QED  BY <2>3, <2>4, <2>5
<1> HIDE DEF a, b
<1>4. d \o c = a \o (b \o c) /\ b \o c \in Seq(Bytes)
  BY SMTT(30), <1>1, ConcatAssociative, ConcatProperties
<1>5. SubSeq(d \o c, 1, n) = a /\ After(d \o c, n) = b \o c  BY <1>1, <1>3, <1>4, CutsAt, ZenonT(60)
<1> QED  BY <1>1, <1>3, <1>5 DEF a, b

-----------------------------------------------------------------------------
(* A turn that holds nothing over and ends inside the chunk is the same when *)
(* more arrives, and does not end within a character.                        *)
LEMMA TurnSettles ==
    ASSUME NEW r \in Seq(Bytes), r # <<>>, NEW c \in Seq(Bytes), Utf8(r \o c),
           Turn(r).held = <<>>, r[1] \in TextBytes => Turn(r).used < Len(r)
    PROVE  /\ Turn(r \o c) = Turn(r)
           /\ ~EndsOpen(SubSeq(r, 1, Turn(r).used))
<1> DEFINE d == r \o c
<1>1. /\ d \in Seq(Bytes) /\ Len(d) = Len(r) + Len(c) /\ Len(r) \in Nat /\ Len(c) \in Nat
      /\ \A i \in 1 .. Len(r) : d[i] = r[i] /\ At(d, i) = r[i] /\ At(r, i) = r[i]
  BY AtConcat
<1>2. Len(r) >= 1 /\ DOMAIN r = 1 .. Len(r)
  <2>1. Len(r) \in Nat \ {0}  BY EmptySeq
  <2> QED  BY <2>1, LenProperties
<1>3. Utf8(r)  BY Utf8Prefix
<1>4. \A n \in 0 .. Len(r) :
         /\ SubSeq(r, 1, n) \in Seq(Bytes) /\ Len(SubSeq(r, 1, n)) = n
         /\ SubSeq(d, 1, n) = SubSeq(r, 1, n)
         /\ \A i \in 1 .. n : SubSeq(r, 1, n)[i] = r[i]
  BY AfterConcat
<1>5. ASSUME NEW n \in 1 .. Len(r), r[n] # Lead PROVE ~EndsOpen(SubSeq(r, 1, n))
  <2>1. n \in 0 .. Len(r) /\ n \in 1 .. n  BY <1>1
  <2>2. SubSeq(r, 1, n)[Len(SubSeq(r, 1, n))] = r[n]  BY <1>4, <2>1
  <2> QED  BY <1>5, <2>2 DEF EndsOpen
<1>6. 1 \in 1 .. Len(r) /\ d[1] = r[1]  BY <1>1, <1>2
<1>7. r[1] \in Bytes  BY <1>6, ElementOfSeq
<1>8. CASE r[1] = "esc"
  <2>1. Escape(r) # 0
    <3>1. Escape(r) = 0 => Turn(r) = [used |-> Len(r), out |-> <<>>, held |-> r]
      BY <1>8 DEF Turn
    <3> QED  BY <3>1
  <2> DEFINE n == Escape(r)
  <2>2. /\ n \in 0 .. Len(r) /\ n >= 2
        /\ n = 2 \/ r[n] \in Final \cup {"bel"}
        /\ Escape(d) = n
    BY <2>1, EscapeIs
  <2> HIDE DEF n, d
  <2>3. Turn(r) = [used |-> n, out |-> <<SubSeq(r, 1, n)>>, held |-> <<>>]
    BY <1>8, <2>1 DEF Turn, Taken, n
  <2>4. Turn(d) = [used |-> n, out |-> <<SubSeq(d, 1, n)>>, held |-> <<>>]
    BY <1>6, <1>8, <2>1, <2>2 DEF Turn, Taken, n
  <2>5. r[n] # Lead
    <3>1. CASE n = 2
      <4>1. 2 \in DOMAIN r /\ 2 - 1 = 1  BY <1>1, <1>2, <2>2, <3>1
      <4>2. r[2] = Lead => At(r, 1) # "esc"  BY <1>3, <4>1 DEF Utf8
      <4> QED  BY <1>1, <1>6, <1>8, <3>1, <4>2
    <3>2. CASE r[n] \in Final \cup {"bel"}  BY <3>2 DEF Final, Lead
    <3> QED  BY <2>2, <3>1, <3>2
  <2>6. n \in 1 .. Len(r) /\ Turn(r).used = n  BY <1>1, <2>2, <2>3
  <2> QED  BY <1>4, <1>5, <2>2, <2>3, <2>4, <2>5, <2>6 DEF d
<1>9. CASE r[1] # "esc" /\ r[1] \in Controls \cup Dropped
  <2>1. Turn(d) = Turn(r) /\ Turn(r).used = 1
    <3> HIDE DEF d
    <3> QED  BY <1>6, <1>9 DEF Turn, Taken
  <2>2. r[1] # Lead  BY <1>9 DEF Controls, Dropped, Lead
  <2> QED  BY <1>5, <1>6, <2>1, <2>2
<1>10. CASE r[1] # "esc" /\ r[1] \notin Controls \cup Dropped
  <2> DEFINE n == RunIn(TextBytes, r, 1)
             part == DecodePartial(SubSeq(r, 1, n))
  <2>1. r[1] \in TextBytes  BY <1>7, <1>10 DEF TextBytes
  <2>2. n \in 1 .. Len(r) /\ Stops(TextBytes, r, 1, n)  BY <2>1, TextRun
  <2>3. Turn(r) = TextTurn(r)  BY <1>10 DEF Turn
  <2>4. Turn(d) = TextTurn(d)
    <3> HIDE DEF d
    <3> QED  BY <1>6, <1>10 DEF Turn
  <2>5. TextTurn(r).used = n  BY DEF TextTurn, Taken
  <2>6. n < Len(r)  BY <2>1, <2>3, <2>5
  <2>7. RunIn(TextBytes, d, 1) = n
    <3>1. 1 + n <= Len(r)  BY <1>1, <2>2, <2>6
    <3> QED  BY <1>6, <3>1, TextIs, RunStable
  <2>8. SubSeq(d, 1, n) = SubSeq(r, 1, n)
    <3>1. n \in 0 .. Len(r)  BY <1>1, <2>2
    <3> HIDE DEF n, d
    <3> QED  BY <1>4, <3>1
  <2> HIDE DEF n, d
  <2>9. n # Len(r) /\ n # Len(d)  BY <1>1, <2>2, <2>6
  <2>10. TextTurn(d) = TextTurn(r)  BY <2>7, <2>8, <2>9 DEF TextTurn, n
  <2>11. r[n] # Lead
    <3>1. n + 1 \in 1 .. Len(r) /\ n + 1 > 1 /\ (n + 1) - 1 = n  BY <1>1, <2>2, <2>6
    <3>2. r[n + 1] \notin TextBytes
      <4>1. At(r, 1 + n) \notin TextBytes /\ 1 + n = n + 1  BY <1>1, <2>2 DEF Stops
      <4> QED  BY <1>1, <3>1, <4>1
    <3>3. r[n + 1] \in Bytes  BY <3>1, ElementOfSeq
    <3>4. r[n + 1] # Continuation
      BY <3>2, <3>3 DEF TextBytes, Controls, Dropped, Continuation
    <3>5. n + 1 \in DOMAIN r  BY <1>2, <3>1
    <3>6. \A i \in DOMAIN r : r[i] = Continuation <=> (i > 1 /\ r[i - 1] = Lead)
      BY <1>3 DEF Utf8
    <3> QED  BY <3>1, <3>4, <3>5, <3>6
  <2> QED  BY <1>5, <2>2, <2>3, <2>4, <2>5, <2>10, <2>11 DEF d
<1> QED  BY <1>8, <1>9, <1>10

(* The turns of text.                                                        *)
LEMMA TextTurns ==
    ASSUME NEW d \in Seq(Bytes), d # <<>>, d[1] \in TextBytes
    PROVE  Turn(d) = TextTurn(d)
<1>1. d[1] # "esc" /\ d[1] \notin Controls /\ d[1] \notin Dropped  BY DEF TextBytes
<1> QED  BY <1>1 DEF Turn

LEMMA TextTurnIs ==
    ASSUME NEW d, NEW n, RunIn(TextBytes, d, 1) = n, NEW x, NEW w,
           DecodePartial(SubSeq(d, 1, n)) = [text |-> x, kept |-> w]
    PROVE  TextTurn(d) = IF w = <<>> THEN [used |-> n, out |-> x, held |-> <<>>]
                         ELSE IF n = Len(d) THEN [used |-> n, out |-> x, held |-> w]
                         ELSE [used |-> n, out |-> Append(x, Replacement), held |-> <<>>]
<1> DEFINE part == DecodePartial(SubSeq(d, 1, n))
<1>1. part.text = x /\ part.kept = w  OBVIOUS
<1>2. TextTurn(d) = IF part.kept = <<>> THEN Taken(n, part.text)
                    ELSE IF n = Len(d) THEN [used |-> n, out |-> part.text, held |-> part.kept]
                    ELSE Taken(n, Append(part.text, Replacement))
  BY DEF TextTurn
<1> HIDE DEF part
<1> QED  BY <1>1, <1>2 DEF Taken

LEMMA EndsOpenConcat ==
    ASSUME NEW q \in Seq(Bytes), NEW t \in Seq(Bytes), t # <<>>
    PROVE  /\ EndsOpen(q \o t) <=> EndsOpen(t)
           /\ EndsOpen(t) => \E s \in Seq(Bytes) :
                 t = s \o <<Lead>> /\ Front(t) = s /\ Front(q \o t) = q \o s
<1>1. /\ q \o t \in Seq(Bytes) /\ Len(q \o t) = Len(q) + Len(t) /\ Len(q) \in Nat
      /\ \A i \in 1 .. Len(t) : (q \o t)[Len(q) + i] = t[i]
  BY AtConcat
<1>2. Len(t) \in 1 .. Len(t) /\ Len(t) \in Nat /\ Len(t) # 0
  <2>1. Len(t) \in Nat \ {0}  BY EmptySeq
  <2> QED  BY <2>1
<1>3. q \o t # <<>>
  <2>1. Len(q \o t) # 0  BY <1>1, <1>2
  <2>2. Len(<<>>) = 0  OBVIOUS
  <2> QED  BY <2>1, <2>2
<1>4. EndsOpen(q \o t) <=> EndsOpen(t)  BY <1>1, <1>2, <1>3 DEF EndsOpen
<1>5. ASSUME EndsOpen(t)
      PROVE  \E s \in Seq(Bytes) : t = s \o <<Lead>> /\ Front(t) = s /\ Front(q \o t) = q \o s
  <2>1. PICK s \in Seq(Bytes), x \in Bytes : t = Append(s, x) /\ Len(s) = Len(t) - 1  BY LastOf
  <2>2. t = s \o <<x>>  BY <2>1, AppendIsConcat
  <2>3. Front(t) = s /\ t[Len(t)] = x  BY <2>2, FrontOf
  <2>4. x = Lead  BY <1>5, <2>3 DEF EndsOpen
  <2>5. <<x>> \in Seq(Bytes) /\ q \o s \in Seq(Bytes)  BY ConcatProperties
  <2>6. q \o t = (q \o s) \o <<x>>  BY <2>2, <2>5, ConcatAssociative
  <2>7. Front(q \o t) = q \o s  BY ZenonT(30), <2>5, <2>6, FrontOf
  <2> QED  BY <2>2, <2>3, <2>4, <2>7
<1> QED  BY <1>4, <1>5

(* What follows text is read the same with it and without it: text that ends *)
(* where q does, and text that goes on into c.                               *)
LEMMA TextAlone ==
    ASSUME NEW q \in Seq(Bytes), NEW c \in Seq(Bytes), q # <<>>, c # <<>>,
           \A i \in 1 .. Len(q) : q[i] \in TextBytes, ~EndsOpen(q), Utf8(q \o c), c[1] \notin TextBytes
    PROVE  Parse[q \o c] = Before(Decoded(q), Parse[c])
<1> DEFINE d == q \o c
           n == Len(q)
<1>1. /\ d \in Seq(Bytes) /\ Len(d) = n + Len(c) /\ n \in Nat /\ Len(c) \in Nat
      /\ \A i \in 1 .. n : d[i] = q[i]
      /\ \A i \in 1 .. Len(c) : /\ d[n + i] = c[i]
                                /\ At(d, n + i) = c[i] /\ At(c, i) = c[i]
  <2>1. \A i \in 1 .. n : d[i] = q[i]  BY AtConcat
  <2> QED  BY <2>1, AtConcat
<1>2. n >= 1 /\ Len(c) >= 1
  <2>1. n \in Nat \ {0} /\ Len(c) \in Nat \ {0}  BY EmptySeq
  <2> QED  BY <2>1
<1>3. SubSeq(d, 1, n) = q /\ After(d, n) = c  BY CutsAt
<1>4. Utf8(d) /\ Utf8(q)  BY Utf8Prefix
<1>5. \A i \in 1 .. n : q[i] \in TextBytes  OBVIOUS
<1> HIDE DEF d, n
<1>6. Stops(TextBytes, d, 1, n)
  <2>1. At(d, 1 + n) = c[1]
    <3>1. 1 \in 1 .. Len(c) /\ n + 1 = 1 + n  BY <1>1, <1>2
    <3> QED  BY <1>1, <3>1
  <2>2. \A k \in 1 .. 1 + n - 1 : k \in 1 .. n  BY <1>1
  <2>3. n \in 0 .. Len(d) - 1 + 1  BY <1>1
  <2> QED  BY <1>1, <1>5, <2>1, <2>2, <2>3 DEF Stops
<1>7. RunIn(TextBytes, d, 1) = n
  <2>1. 1 \in 1 .. Len(d) + 1  BY <1>1
  <2> QED  BY <1>1, <1>6, <2>1, TextIs, RunUnique
<1>8. DecodePartial(q) = [text |-> Decoded(q), kept |-> <<>>]  BY <1>4, DecodeUtf8
<1>9. TextTurn(d) = [used |-> n, out |-> Decoded(q), held |-> <<>>]
  BY ZenonT(30), <1>3, <1>7, <1>8, TextTurnIs
<1>10. d # <<>> /\ d[1] \in TextBytes
  <2>1. 1 \in 1 .. n /\ Len(d) # 0  BY <1>1, <1>2
  <2>2. Len(<<>>) = 0  OBVIOUS
  <2> QED  BY <1>1, <1>5, <2>1, <2>2
<1>11. Turn(d) = [used |-> n, out |-> Decoded(q), held |-> <<>>]
  BY <1>1, <1>9, <1>10, TextTurns
<1>12. Parse[d] = Before(Decoded(q), Parse[c])
  <2>1. Turn(d).used = n /\ Turn(d).out = Decoded(q) /\ Turn(d).held = <<>>  BY <1>11
  <2> QED  BY <1>1, <1>3, <1>10, <2>1, ParseTurn, ZenonT(60)
<1> QED  BY <1>12 DEF d

LEMMA SameAfter ==
    ASSUME NEW c \in Seq(Bytes), NEW d \in Seq(Bytes), c # <<>>, d # <<>>,
           NEW a \in Seq(Glyphs), Turn(d).out = a \o Turn(c).out, Turn(d).held = Turn(c).held,
           After(d, Turn(d).used) = After(c, Turn(c).used)
    PROVE  Parse[d] = Before(a, Parse[c])
<1> DEFINE o == Turn(c).out
           rest == After(c, Turn(c).used)
<1>1. o \in Seq(Glyphs) /\ rest \in Seq(Bytes)  BY TurnIs
<1>2. Turn(d).out = a \o o /\ After(d, Turn(d).used) = rest  OBVIOUS
<1>3. Parse[rest] \in Parsed  BY <1>1, ParseType
<1>4. Parse[c] = IF Turn(c).held # <<>> THEN [out |-> o, pending |-> Turn(c).held]
                 ELSE Before(o, Parse[rest])
  BY ParseTurn
<1>5. Parse[d] = IF Turn(c).held # <<>> THEN [out |-> a \o o, pending |-> Turn(c).held]
                 ELSE Before(a \o o, Parse[rest])
  BY <1>2, ParseTurn
<1> HIDE DEF o, rest
<1>6. Before(a \o o, Parse[rest]) = Before(a, Before(o, Parse[rest]))
  BY <1>1, <1>3, BeforeTwice
<1>7. Before(a, [out |-> o, pending |-> Turn(c).held])
        = [out |-> a \o o, pending |-> Turn(c).held]
  BY BeforePair
<1> QED  BY <1>4, <1>5, <1>6, <1>7

LEMMA TextContinues ==
    ASSUME NEW q \in Seq(Bytes), NEW c \in Seq(Bytes), q # <<>>, c # <<>>,
           \A i \in 1 .. Len(q) : q[i] \in TextBytes, ~EndsOpen(q), Utf8(q \o c), c[1] \in TextBytes
    PROVE  Parse[q \o c] = Before(Decoded(q), Parse[c])
<1> DEFINE d == q \o c
           n == Len(q)
           m == RunIn(TextBytes, c, 1)
           t == SubSeq(c, 1, m)
           u == After(c, m)
<1>1. /\ d \in Seq(Bytes) /\ Len(d) = n + Len(c) /\ n \in Nat /\ Len(c) \in Nat
      /\ \A i \in 1 .. n : d[i] = q[i]
      /\ \A i \in 1 .. Len(c) : d[n + i] = c[i] /\ At(d, n + i) = c[i] /\ At(c, i) = c[i]
  BY AtConcat
<1>2. n >= 1 /\ Len(c) >= 1
  <2>1. n \in Nat \ {0} /\ Len(c) \in Nat \ {0}  BY EmptySeq
  <2> QED  BY <2>1
<1>3. m \in 1 .. Len(c) /\ Stops(TextBytes, c, 1, m)  BY TextRun
<1>4. /\ t \in Seq(Bytes) /\ Len(t) = m /\ u \in Seq(Bytes) /\ c = t \o u
  <2>1. m \in 0 .. Len(c)  BY <1>1, <1>3
  <2> HIDE DEF m
  <2> QED  BY <2>1, AfterConcat
<1>5. \A i \in 1 .. n : q[i] \in TextBytes  OBVIOUS
<1> HIDE DEF m, t, u
<1>6. q \o t \in Seq(Bytes) /\ Len(q \o t) = n + m /\ d = (q \o t) \o u
  <2>1. q \o t \in Seq(Bytes) /\ Len(q \o t) = Len(q) + Len(t)  BY <1>4, ConcatProperties
  <2>2. t \in Seq(Bytes) /\ u \in Seq(Bytes)  BY <1>4
  <2>3. q \o (t \o u) = (q \o t) \o u  BY SMTT(30), <2>2, ConcatAssociative
  <2> QED  BY <1>4, <2>1, <2>3
<1>7. SubSeq(d, 1, n + m) = q \o t /\ After(d, n + m) = u
  <2> DEFINE s == q \o t
  <2>1. s \in Seq(Bytes) /\ Len(s) = n + m /\ d = s \o u  BY <1>6
  <2> HIDE DEF s, d, n
  <2>2. SubSeq(d, 1, n + m) = s /\ After(d, n + m) = u  BY <1>4, <2>1, CutsAt
  <2> QED  BY <2>2 DEF s
<1>8. Utf8(q \o t) /\ Utf8(t)
  <2>1. Utf8((q \o t) \o u)  BY <1>6
  <2>2. Utf8(q \o t)  BY <1>4, <1>6, <2>1, Utf8Prefix
  <2> QED  BY <1>4, <2>2, Utf8Suffix
<1> HIDE DEF d, n
<1>9. Stops(TextBytes, d, 1, n + m)
  <2>1. ASSUME NEW k \in 1 .. 1 + (n + m) - 1 PROVE d[k] \in TextBytes
    <3>1. CASE k <= n
      <4>1. k \in 1 .. n  BY <1>1, <3>1
      <4> QED  BY <1>1, <1>5, <4>1
    <3>2. CASE ~(k <= n)
      <4>1. k - n \in 1 .. 1 + m - 1 /\ k - n \in 1 .. Len(c) /\ n + (k - n) = k
        BY <1>1, <1>3, <3>2
      <4>2. c[k - n] \in TextBytes  BY <1>3, <4>1 DEF Stops
      <4> QED  BY <1>1, <4>1, <4>2
    <3> QED  BY <3>1, <3>2
  <2>2. At(d, 1 + (n + m)) \notin TextBytes
    <3>1. CASE m < Len(c)
      <4>1. 1 + m \in 1 .. Len(c) /\ n + (1 + m) = 1 + (n + m)  BY <1>1, <1>3, <3>1
      <4>2. At(c, 1 + m) \notin TextBytes  BY <1>3 DEF Stops
      <4> QED  BY <1>1, <4>1, <4>2
    <3>2. CASE ~(m < Len(c))
      <4>1. DOMAIN d = 1 .. Len(d)  BY <1>1, LenProperties
      <4>2. 1 + (n + m) \notin DOMAIN d  BY <1>1, <1>3, <3>2, <4>1
      <4>3. At(d, 1 + (n + m)) = "end"  BY <4>2 DEF At
      <4> QED  BY <4>3, TextIs
    <3> QED  BY <3>1, <3>2
  <2>3. n + m \in 0 .. Len(d) - 1 + 1  BY <1>1, <1>3
  <2> QED  BY <2>1, <2>2, <2>3 DEF Stops
<1>10. RunIn(TextBytes, d, 1) = n + m
  <2>1. 1 \in 1 .. Len(d) + 1  BY <1>1
  <2> QED  BY <1>1, <1>9, <2>1, TextIs, RunUnique
<1>11. /\ t # <<>> /\ d # <<>> /\ d[1] \in TextBytes
  <2>1. 1 \in 1 .. n /\ Len(d) # 0 /\ Len(t) # 0  BY <1>1, <1>2, <1>3, <1>4
  <2>2. Len(<<>>) = 0  OBVIOUS
  <2> QED  BY <1>1, <1>5, <2>1, <2>2
<1> DEFINE part == DecodePartial(t)
           a == Decoded(q)
<1>12. DecodePartial(q \o t) = [text |-> a \o part.text, kept |-> part.kept]
  <2>1. EndsOpen(q \o t) <=> EndsOpen(t)  BY <1>4, <1>11, EndsOpenConcat
  <2>2. CASE EndsOpen(t)
    <3>1. PICK s \in Seq(Bytes) : Front(t) = s /\ Front(q \o t) = q \o s
      BY <1>4, <1>11, <2>2, EndsOpenConcat
    <3>2. part = [text |-> Decoded(s), kept |-> <<Lead>>]  BY <1>4, <1>8, <2>2, <3>1, DecodeUtf8
    <3>3. DecodePartial(q \o t) = [text |-> Decoded(q \o s), kept |-> <<Lead>>]
      BY <1>6, <1>8, <2>1, <2>2, <3>1, DecodeUtf8
    <3>4. Decoded(q \o s) = a \o Decoded(s)  BY DecodedConcat
    <3> QED  BY <3>2, <3>3, <3>4
  <2>3. CASE ~EndsOpen(t)
    <3>1. part = [text |-> Decoded(t), kept |-> <<>>]  BY <1>4, <1>8, <2>3, DecodeUtf8
    <3>2. DecodePartial(q \o t) = [text |-> Decoded(q \o t), kept |-> <<>>]
      BY <1>6, <1>8, <2>1, <2>3, DecodeUtf8
    <3>3. Decoded(q \o t) = a \o Decoded(t)  BY <1>4, DecodedConcat
    <3> QED  BY <3>1, <3>2, <3>3
  <2> QED  BY <2>2, <2>3
<1>13. a \in Seq(Glyphs) /\ part.text \in Seq(Glyphs)  BY <1>4, PartIs, CharsAreGlyphs
<1> HIDE DEF part, a
<1>14. n + m = Len(d) <=> m = Len(c)
  <2>1. \A x, y, z \in Nat : x + y = x + z <=> y = z  OBVIOUS
  <2>2. m \in Nat /\ n \in Nat /\ Len(c) \in Nat  BY <1>1, <1>3
  <2>3. n + m = n + Len(c) <=> m = Len(c)  BY <2>1, <2>2
  <2>4. Len(d) = n + Len(c)  BY <1>1
  <2> QED  BY <2>3, <2>4
<1>15. a \o Append(part.text, Replacement) = Append(a \o part.text, Replacement)
  <2>1. Replacement \in Glyphs  BY DEF Replacement, Glyphs
  <2> QED  BY <1>13, <2>1, ConcatAppend
<1> DEFINE x == part.text
           w == part.kept
<1>16. DecodePartial(t) = [text |-> x, kept |-> w]
  <2>1. \/ DecodePartial(t) = [text |-> Decoded(Front(t)), kept |-> <<Lead>>]
        \/ DecodePartial(t) = [text |-> Decoded(t), kept |-> <<>>]
    BY <1>4, <1>8, DecodeUtf8
  <2> QED  BY <2>1 DEF part
<1>17. DecodePartial(q \o t) = [text |-> a \o x, kept |-> w] /\ a \o Append(x, Replacement) = Append(a \o x, Replacement)
  BY <1>12, <1>15
<1> HIDE DEF x, w
<1>18. Turn(c) = IF w = <<>> THEN [used |-> m, out |-> x, held |-> <<>>]
                 ELSE IF m = Len(c) THEN [used |-> m, out |-> x, held |-> w]
                 ELSE [used |-> m, out |-> Append(x, Replacement), held |-> <<>>]
  <2>1. Turn(c) = TextTurn(c)  BY TextTurns
  <2>2. RunIn(TextBytes, c, 1) = m /\ SubSeq(c, 1, m) = t  BY DEF m, t
  <2>3. DecodePartial(SubSeq(c, 1, m)) = [text |-> x, kept |-> w]  BY <1>16, <2>2
  <2>4. TextTurn(c) = IF w = <<>> THEN [used |-> m, out |-> x, held |-> <<>>]
                      ELSE IF m = Len(c) THEN [used |-> m, out |-> x, held |-> w]
                      ELSE [used |-> m, out |-> Append(x, Replacement), held |-> <<>>]
    BY <2>2, <2>3, TextTurnIs
  <2> QED  BY <2>1, <2>4
<1>18a. Turn(d) = IF w = <<>> THEN [used |-> n + m, out |-> a \o x, held |-> <<>>]
                 ELSE IF n + m = Len(d) THEN [used |-> n + m, out |-> a \o x, held |-> w]
                 ELSE [used |-> n + m, out |-> a \o Append(x, Replacement), held |-> <<>>]
  <2>1. Turn(d) = TextTurn(d)  BY <1>1, <1>11, TextTurns
  <2>2. TextTurn(d) =
          IF w = <<>> THEN [used |-> n + m, out |-> a \o x, held |-> <<>>]
          ELSE IF n + m = Len(d) THEN [used |-> n + m, out |-> a \o x, held |-> w]
          ELSE [used |-> n + m, out |-> Append(a \o x, Replacement), held |-> <<>>]
    <3>1. DecodePartial(SubSeq(d, 1, n + m)) = [text |-> a \o x, kept |-> w]  BY <1>7, <1>17
    <3> QED  BY <1>10, <3>1, TextTurnIs, ZenonT(60)
  <2> QED  BY <1>17, <2>1, <2>2
<1>19. /\ Turn(d).out = a \o Turn(c).out /\ Turn(d).held = Turn(c).held
       /\ Turn(d).used = n + m /\ Turn(c).used = m
  <2>1. CASE w = <<>>  BY <1>18, <1>18a, <2>1
  <2>2. CASE w # <<>> /\ m = Len(c)  BY <1>14, <1>18, <1>18a, <2>2
  <2>3. CASE w # <<>> /\ m # Len(c)
    <3>1. Turn(c) = [used |-> m, out |-> Append(x, Replacement), held |-> <<>>]
      BY <1>18, <2>3
    <3>2. Turn(d) = [used |-> n + m, out |-> a \o Append(x, Replacement), held |-> <<>>]
      BY <1>14, <1>18a, <2>3
    <3> DEFINE y == Append(x, Replacement)
               z == a \o y
    <3>3. Turn(c).out = y /\ Turn(c).held = <<>> /\ Turn(c).used = m  BY <3>1
    <3>4. Turn(d).out = z /\ Turn(d).held = <<>> /\ Turn(d).used = n + m  BY <3>2, SMTT(30)
    <3> HIDE DEF y
    <3> QED  BY <3>3, <3>4
  <2> QED  BY <2>1, <2>2, <2>3
<1>20. After(d, Turn(d).used) = After(c, Turn(c).used)  BY <1>7, <1>19 DEF u
<1>21. Parse[d] = Before(a, Parse[c])  BY <1>1, <1>11, <1>13, <1>19, <1>20, SameAfter
<1> QED  BY <1>21 DEF d, a

(* A chunk of text only.                                                     *)
LEMMA TextWhole ==
    ASSUME NEW r \in Seq(Bytes), r # <<>>, \A i \in 1 .. Len(r) : r[i] \in TextBytes, Utf8(r)
    PROVE  Parse[r] = IF EndsOpen(r) THEN [out |-> Decoded(Front(r)), pending |-> <<Lead>>]
                      ELSE [out |-> Decoded(r), pending |-> <<>>]
<1> DEFINE n == Len(r)
<1>1. n \in Nat /\ n >= 1 /\ DOMAIN r = 1 .. n
  <2>1. n \in Nat \ {0}  BY EmptySeq
  <2> QED  BY <2>1, LenProperties
<1>2. SubSeq(r, 1, n) = r  BY PrefixFacts
<1>3. \A i \in 1 .. n : r[i] \in TextBytes  OBVIOUS
<1> HIDE DEF n
<1>4. Stops(TextBytes, r, 1, n)
  <2>1. 1 + n \notin DOMAIN r  BY <1>1
  <2>2. At(r, 1 + n) = "end"  BY <2>1 DEF At
  <2>3. n \in 0 .. Len(r) - 1 + 1  BY <1>1 DEF n
  <2>4. \A k \in 1 .. 1 + n - 1 : k \in 1 .. n  BY <1>1
  <2> QED  BY <1>3, <2>2, <2>3, <2>4, TextIs DEF Stops
<1>5. RunIn(TextBytes, r, 1) = n
  <2>1. 1 \in 1 .. Len(r) + 1  BY <1>1 DEF n
  <2> QED  BY <1>4, <2>1, TextIs, RunUnique
<1>6. r[1] \in TextBytes  BY <1>1, <1>3
<1>7. Turn(r) = TextTurn(r)  BY <1>6, TextTurns
<1>8. CASE EndsOpen(r)
  <2>1. DecodePartial(r) = [text |-> Decoded(Front(r)), kept |-> <<Lead>>]  BY <1>8, DecodeUtf8
  <2>2. Turn(r) = [used |-> n, out |-> Decoded(Front(r)), held |-> <<Lead>>]
    <3>1. <<Lead>> # <<>> /\ n = Len(r)  BY DEF n
    <3>2. DecodePartial(SubSeq(r, 1, n)) = [text |-> Decoded(Front(r)), kept |-> <<Lead>>]
      BY <1>2, <2>1
    <3> QED  BY <1>5, <1>7, <3>1, <3>2, TextTurnIs
  <2> QED  BY <1>8, <2>2, ParseTurn
<1>9. CASE ~EndsOpen(r)
  <2>1. DecodePartial(r) = [text |-> Decoded(r), kept |-> <<>>]  BY <1>9, DecodeUtf8
  <2>2. Turn(r) = [used |-> n, out |-> Decoded(r), held |-> <<>>]
    <3>1. DecodePartial(SubSeq(r, 1, n)) = [text |-> Decoded(r), kept |-> <<>>]
      BY <1>2, <2>1
    <3> QED  BY <1>5, <1>7, <3>1, TextTurnIs
  <2>3. After(r, n) = <<>>  BY <1>1, SubSeqEmpty DEF After, n
  <2>4. Parse[r] = Before(Decoded(r), [out |-> <<>>, pending |-> <<>>])
    <3>1. Turn(r).used = n /\ Turn(r).out = Decoded(r) /\ Turn(r).held = <<>>  BY <2>2
    <3> QED  BY <2>3, <3>1, ParseTurn, ParseEmpty
  <2>5. Decoded(r) \o <<>> = Decoded(r)  BY CharsAreGlyphs, ConcatEmptySeq
  <2>6. Before(Decoded(r), [out |-> <<>>, pending |-> <<>>])
          = [out |-> Decoded(r) \o <<>>, pending |-> <<>>]
    BY BeforePair
  <2> QED  BY <1>9, <2>4, <2>5, <2>6
<1> QED  BY <1>8, <1>9

LEMMA TextJoins ==
    ASSUME NEW q \in Seq(Bytes), NEW c \in Seq(Bytes), c # <<>>,
           \A i \in 1 .. Len(q) : q[i] \in TextBytes, ~EndsOpen(q), Utf8(q \o c)
    PROVE  Parse[q \o c] = Before(Decoded(q), Parse[c])
<1>1. CASE q = <<>>
  <2>1. Decoded(q) = <<>>
    <3>1. Chars(q) \in Seq(Seq(Glyphs)) /\ Len(Chars(q)) = 0  BY <1>1, CharsAreGlyphs
    <3>2. Chars(q) = <<>>  BY <3>1
    <3>3. Decoded(q) = FlattenSeq(Chars(q))  BY CharsAreGlyphs
    <3> QED  BY <3>2, <3>3 DEF FlattenSeq
  <2>2. q \o c = c  BY <1>1, ConcatEmptySeq
  <2>3. Before(<<>>, Parse[c]) = Parse[c]
    <3>1. <<>> \in Seq(Glyphs)  OBVIOUS
    <3> QED  BY <3>1, ParseType, BeforeIs
  <2> QED  BY <2>1, <2>2, <2>3
<1>2. CASE q # <<>>  BY <1>2, TextAlone, TextContinues
<1> QED  BY <1>1, <1>2

(* Reading r and then c handles what reading both at once does.             *)
Joins(r, c) == Parse[r \o c] = Before(Parse[r].out, Parse[Parse[r].pending \o c])

LEMMA HeldJoins ==
    ASSUME NEW r \in Seq(Bytes), NEW c \in Seq(Bytes),
           Parse[r] = [out |-> <<>>, pending |-> r]
    PROVE  Joins(r, c)
<1>1. r \o c \in Seq(Bytes)  BY ConcatProperties
<1>2. Parse[r \o c] \in Parsed  BY <1>1, ParseType
<1>3. <<>> \in Seq(Glyphs)  OBVIOUS
<1>4. Before(<<>>, Parse[r \o c]) = Parse[r \o c]  BY <1>2, <1>3, BeforeIs
<1> QED  BY <1>4 DEF Joins

LEMMA TextRunJoins ==
    ASSUME NEW r \in Seq(Bytes), NEW c \in Seq(Bytes), r # <<>>, c # <<>>,
           \A i \in 1 .. Len(r) : r[i] \in TextBytes, Utf8(r \o c)
    PROVE  Joins(r, c)
<1>1. Utf8(r)  BY Utf8Prefix
<1>2. CASE ~EndsOpen(r)
  <2>1. Parse[r] = [out |-> Decoded(r), pending |-> <<>>]  BY <1>1, <1>2, TextWhole
  <2>2. <<>> \o c = c  BY ConcatEmptySeq
  <2>3. Parse[r \o c] = Before(Decoded(r), Parse[c])  BY <1>2, TextJoins
  <2> QED  BY <2>1, <2>2, <2>3 DEF Joins
<1>3. CASE EndsOpen(r)
  <2> DEFINE one == <<Lead>>
  <2>1. PICK q \in Seq(Bytes), x \in Bytes : r = Append(q, x) /\ Len(q) = Len(r) - 1  BY LastOf
  <2>2. r = q \o <<x>>  BY <2>1, AppendIsConcat
  <2>3. Front(r) = q /\ r[Len(r)] = x  BY <2>2, FrontOf
  <2>4. x = Lead  BY <1>3, <2>3 DEF EndsOpen
  <2>5. one \in Seq(Bytes) /\ r = q \o one  BY <2>2, <2>4
  <2>6. Parse[r] = [out |-> Decoded(q), pending |-> one]  BY <1>1, <1>3, <2>3, TextWhole
  <2>7. Len(one) = 1 /\ one[1] = Lead  OBVIOUS
  <2> HIDE DEF one
  <2>8. one \o c \in Seq(Bytes) /\ one \o c # <<>>
    <3>1. one \o c \in Seq(Bytes) /\ Len(one \o c) = Len(one) + Len(c)  BY <2>5, ConcatProperties
    <3>2. Len(c) \in Nat /\ Len(<<>>) = 0  BY LenProperties
    <3> QED  BY <2>7, <3>1, <3>2
  <2>9. r \o c = q \o (one \o c)
    <3>1. (q \o one) \o c = q \o (one \o c)  BY <2>5, ConcatAssociative, SMTT(30)
    <3> QED  BY <2>5, <3>1
  <2>10. Utf8(q \o (one \o c))  BY <2>9
  <2>11. /\ Len(q) \in Nat /\ Len(r) = Len(q) + 1 /\ DOMAIN r = 1 .. Len(r)
         /\ \A i \in 1 .. Len(q) : r[i] = q[i]
    BY <2>1, LenProperties, AppendProperties
  <2>12. \A i \in 1 .. Len(q) : q[i] \in TextBytes
    <3>1. \A i \in 1 .. Len(q) : i \in 1 .. Len(r)  BY <2>11
    <3> QED  BY <2>11, <3>1
  <2>13. ~EndsOpen(q)
    <3>1. SUFFICES ASSUME EndsOpen(q) PROVE FALSE  OBVIOUS
    <3>2. Len(q) \in 1 .. Len(q)
      <4>1. Len(q) \in Nat \ {0}  BY <3>1, EmptySeq DEF EndsOpen
      <4> QED  BY <4>1
    <3>3. r[Len(q)] = Lead  BY <2>11, <3>1, <3>2 DEF EndsOpen
    <3>4. Len(r) \in DOMAIN r /\ Len(r) > 1 /\ Len(r) - 1 = Len(q)  BY <2>11, <3>2
    <3>5. r[Len(r)] = Continuation  BY <1>1, <3>3, <3>4 DEF Utf8
    <3> QED  BY <2>3, <2>4, <3>5 DEF Lead, Continuation
  <2>14. Parse[q \o (one \o c)] = Before(Decoded(q), Parse[one \o c])
    BY <2>8, <2>10, <2>12, <2>13, TextJoins
  <2> QED  BY <2>6, <2>9, <2>14 DEF Joins
<1> QED  BY <1>2, <1>3

LEMMA SettledJoins ==
    ASSUME NEW r \in Seq(Bytes), NEW c \in Seq(Bytes), r # <<>>, c # <<>>, Utf8(r \o c),
           Turn(r).held = <<>>, r[1] \in TextBytes => Turn(r).used < Len(r),
           \A s \in Seq(Bytes) : Len(s) < Len(r) /\ Utf8(s \o c) => Joins(s, c)
    PROVE  Joins(r, c)
<1> DEFINE n == Turn(r).used
           o == Turn(r).out
           a == SubSeq(r, 1, n)
           s == After(r, n)
           d == r \o c
<1>1. /\ n \in 1 .. Len(r) /\ o \in Seq(Glyphs) /\ s \in Seq(Bytes) /\ Len(s) < Len(r)
  BY TurnIs
<1>2. Turn(d) = Turn(r) /\ ~EndsOpen(a)  BY TurnSettles
<1>3. a \in Seq(Bytes) /\ After(d, n) = s \o c /\ r = a \o s
  <2>1. n \in 0 .. Len(r)
    <3>1. Len(r) \in Nat  BY LenProperties
    <3> QED  BY <1>1, <3>1
  <2> HIDE DEF n
  <2> QED  BY <2>1, AfterConcat
<1>4. d \in Seq(Bytes) /\ d # <<>>
  <2>1. d \in Seq(Bytes)  BY ConcatProperties
  <2> QED  BY <2>1, ConcatEqualIffEmpty
<1>5. Parse[r] = Before(o, Parse[s])  BY ParseTurn
<1>6. Parse[d] = Before(o, Parse[s \o c])
  <2>1. Turn(d).held = <<>> /\ Turn(d).used = n /\ Turn(d).out = o  BY <1>2
  <2> HIDE DEF d, n, o, s
  <2> QED  BY <1>3, <1>4, <2>1, ParseTurn
<1> HIDE DEF a, s, o, n
<1>7. Utf8(s \o c)
  <2>1. r \o c = a \o (s \o c)  BY <1>1, <1>3, ConcatAssociative, SMTT(30)
  <2>2. s \o c \in Seq(Bytes)  BY <1>1, ConcatProperties
  <2> QED  BY <1>2, <1>3, <2>1, <2>2, Utf8Suffix
<1>8. Parse[s \o c] = Before(Parse[s].out, Parse[Parse[s].pending \o c])
  BY <1>1, <1>7 DEF Joins
<1>9. Parse[s] \in Parsed  BY <1>1, ParseType
<1> DEFINE p == Parse[s].out
           w == Parse[s].pending
<1>10. p \in Seq(Glyphs) /\ w \in Seq(Bytes)  BY <1>9 DEF Parsed
<1>11. Parse[r].out = o \o p /\ Parse[r].pending = w
  <2>1. Before(o, Parse[s]) = [out |-> o \o p, pending |-> w]  BY <1>1, <1>9, BeforeIs
  <2> QED  BY <1>5, <2>1
<1> HIDE DEF p, w
<1>12. Parse[w \o c] \in Parsed
  <2>1. w \o c \in Seq(Bytes)  BY <1>10, ConcatProperties
  <2> QED  BY <2>1, ParseType
<1>13. Parse[d] = Before(o \o p, Parse[w \o c])
  <2>1. Parse[s \o c] = Before(p, Parse[w \o c])  BY <1>8 DEF p, w
  <2>2. Before(o, Before(p, Parse[w \o c])) = Before(o \o p, Parse[w \o c])
    BY <1>1, <1>10, <1>12, BeforeTwice
  <2> QED  BY <1>6, <2>1, <2>2
<1> QED  BY <1>11, <1>13 DEF Joins, d

LEMMA ReadsJoin ==
    ASSUME NEW r \in Seq(Bytes), NEW c \in Seq(Bytes), c # <<>>, Utf8(r \o c)
    PROVE  Joins(r, c)
<1> DEFINE n == Len(r)
           T == {k \in 0 .. n : \A s \in Seq(Bytes) : Len(s) <= k /\ Utf8(s \o c) => Joins(s, c)}
<1>1. ASSUME NEW k \in 0 .. n,
             \A s \in Seq(Bytes) : Len(s) < k /\ Utf8(s \o c) => Joins(s, c),
             NEW s \in Seq(Bytes), Len(s) <= k, Utf8(s \o c)
      PROVE  Joins(s, c)
  <2>1. CASE s = <<>>
    <3>1. Parse[s] = [out |-> <<>>, pending |-> s]  BY <2>1, ParseEmpty
    <3> QED  BY <3>1, HeldJoins
  <2>2. CASE s # <<>> /\ Turn(s).held = <<>> /\ (s[1] \in TextBytes => Turn(s).used < Len(s))
    <3>1. ASSUME NEW e \in Seq(Bytes), Len(e) < Len(s), Utf8(e \o c) PROVE Joins(e, c)
      <4>1. Len(e) \in Nat /\ Len(s) \in Nat /\ n \in Nat  BY LenProperties
      <4>2. Len(e) < k  BY <1>1, <3>1, <4>1
      <4> QED  BY <1>1, <3>1, <4>2
    <3> QED  BY <1>1, <2>2, <3>1, SettledJoins
  <2>3. CASE s # <<>> /\ s[1] \in TextBytes /\ ~(Turn(s).used < Len(s))
    <3> DEFINE m == RunIn(TextBytes, s, 1)
    <3>1. Turn(s).used = m
      <4>1. Turn(s) = TextTurn(s)  BY <2>3, TextTurns
      <4> QED  BY <4>1 DEF TextTurn, Taken
    <3>2. m \in 1 .. Len(s) /\ Stops(TextBytes, s, 1, m)  BY <2>3, TextRun
    <3>3. Len(s) \in Nat  BY LenProperties
    <3> HIDE DEF m
    <3>4. m = Len(s)  BY <2>3, <3>1, <3>2, <3>3
    <3>5. \A i \in 1 .. Len(s) : s[i] \in TextBytes
      <4>1. \A i \in 1 .. Len(s) : i \in 1 .. 1 + m - 1  BY <3>3, <3>4
      <4> QED  BY <3>2, <4>1 DEF Stops
    <3> QED  BY <1>1, <2>3, <3>5, TextRunJoins
  <2>4. CASE s # <<>> /\ s[1] \notin TextBytes /\ Turn(s).held # <<>>
    <3>1. s[1] \in Bytes
      <4>1. Len(s) \in Nat \ {0}  BY <2>4, EmptySeq
      <4>2. 1 \in 1 .. Len(s)  BY <4>1
      <4> QED  BY <4>2, ElementOfSeq
    <3>2. s[1] = "esc" \/ s[1] \in Controls \/ s[1] \in Dropped  BY <2>4, <3>1 DEF TextBytes
    <3>3. Turn(s) = [used |-> Len(s), out |-> <<>>, held |-> s]
      <4>1. ASSUME s[1] = "esc", Escape(s) # 0 PROVE FALSE
        <5>1. Turn(s) = [used |-> Escape(s), out |-> <<SubSeq(s, 1, Escape(s))>>, held |-> <<>>]
          BY <4>1 DEF Turn, Taken
        <5> QED  BY <2>4, <5>1
      <4>2. ASSUME s[1] # "esc" PROVE FALSE
        <5>1. Turn(s).held = <<>>  BY <3>2, <4>2 DEF Turn, Taken
        <5> QED  BY <2>4, <5>1
      <4> QED  BY <4>1, <4>2 DEF Turn
    <3>4. Parse[s] = [out |-> <<>>, pending |-> s]
      <4>1. Turn(s).out = <<>> /\ Turn(s).held = s  BY <3>3
      <4> QED  BY <2>4, <4>1, ParseTurn
    <3> QED  BY <3>4, HeldJoins
  <2>5. ASSUME s # <<>>, s[1] \in TextBytes, Turn(s).used < Len(s) PROVE Turn(s).held = <<>>
    <3>1. Turn(s) = TextTurn(s)  BY <2>5, TextTurns
    <3>2. Len(s) \in Nat  BY LenProperties
    <3>3. Turn(s).used # Len(s)  BY <2>5, <3>2
    <3> DEFINE m == RunIn(TextBytes, s, 1)
               part == DecodePartial(SubSeq(s, 1, m))
    <3>4. TextTurn(s) = IF part.kept = <<>> THEN Taken(m, part.text)
                        ELSE IF m = Len(s)
                        THEN [used |-> m, out |-> part.text, held |-> part.kept]
                        ELSE Taken(m, Append(part.text, Replacement))
      BY DEF TextTurn
    <3> HIDE DEF part, m
    <3> QED  BY <3>1, <3>3, <3>4 DEF Taken
  <2> QED  BY <2>1, <2>2, <2>3, <2>4, <2>5
<1>2. n \in Nat /\ \A s \in Seq(Bytes) : Len(s) \in Nat  BY LenProperties
<1> HIDE DEF n
<1>3. 0 \in T
  <2>1. \A s \in Seq(Bytes) : ~(Len(s) < 0)  BY <1>2
  <2>2. 0 \in 0 .. n  BY <1>2
  <2> QED  BY <1>1, <2>1, <2>2
<1>4. ASSUME NEW k \in 0 .. n - 1, k \in T PROVE k + 1 \in T
  <2>1. k + 1 \in 0 .. n  BY <1>2
  <2>2. \A s \in Seq(Bytes) : Len(s) < k + 1 /\ Utf8(s \o c) => Joins(s, c)
    <3>1. \A s \in Seq(Bytes) : Len(s) < k + 1 => Len(s) <= k  BY <1>2
    <3> QED  BY <1>4, <3>1
  <2> QED  BY <1>1, <2>1, <2>2
<1> HIDE DEF T
<1>5. 0 .. n \subseteq T  BY <1>2, <1>3, <1>4, InductiveSet
<1>6. n \in T /\ Len(r) <= n  BY <1>2, <1>5 DEF n
<1> QED  BY <1>6 DEF T

(* The stream so far is UTF-8.                                               *)
FeedInv == sent \in Seq(Bytes) /\ Utf8(sent)

LEMMA ReadKeepsWhole ==
    ASSUME FeedInv, SplitReadsAreWhole, PtyRead
    PROVE  FeedInv' /\ SplitReadsAreWhole'
<1>1. PICK chunk \in UNION {[1 .. n -> Bytes] : n \in 1 .. MaxChunk} :
         /\ Utf8(sent \o chunk)
         /\ pending' = Parse[pending \o chunk].pending
         /\ out' = out \o Parse[pending \o chunk].out
         /\ sent' = sent \o chunk
  BY DEF PtyRead
<1>2. chunk \in Seq(Bytes) /\ chunk # <<>>
  <2>0. PICK n \in 1 .. MaxChunk : chunk \in [1 .. n -> Bytes]  OBVIOUS
  <2>1. n \in Nat /\ n # 0  BY FeedAssumption DEF FeedAssumption
  <2>2. chunk \in Seq(Bytes) /\ Len(chunk) = n  BY <2>0, <2>1
  <2>3. Len(<<>>) = 0  OBVIOUS
  <2> QED  BY <2>1, <2>2, <2>3
<1>3. sent \in Seq(Bytes) /\ out = Parse[sent].out /\ pending = Parse[sent].pending
  BY DEF FeedInv, SplitReadsAreWhole
<1>4. sent \o chunk \in Seq(Bytes)  BY <1>2, <1>3, ConcatProperties
<1>5. Joins(sent, chunk)  BY <1>1, <1>2, <1>3, ReadsJoin
<1> DEFINE more == Parse[pending \o chunk]
<1>6. Parse[sent \o chunk] = Before(out, more)  BY <1>3, <1>5 DEF Joins
<1>7. out \in Seq(Glyphs) /\ more \in Parsed
  <2>1. Parse[sent] \in Parsed  BY <1>3, ParseType
  <2>2. out \in Seq(Glyphs) /\ pending \in Seq(Bytes)  BY <1>3, <2>1 DEF Parsed
  <2>3. pending \o chunk \in Seq(Bytes)  BY <1>2, <2>2, ConcatProperties
  <2> QED  BY <2>2, <2>3, ParseType
<1>8. Before(out, more) = [out |-> out \o more.out, pending |-> more.pending]
  <2> HIDE DEF more
  <2> QED  BY <1>7, BeforeIs
<1>9. out' = Parse[sent'].out /\ pending' = Parse[sent'].pending  BY <1>1, <1>6, <1>8
<1>10. sent' \in Seq(Bytes) /\ Utf8(sent')  BY <1>1, <1>4
<1> QED  BY <1>9, <1>10 DEF FeedInv, SplitReadsAreWhole, Utf8, At

(* "A sequence split across two reads is held over, not mangled"             *)
(* (Screen.feed): however a UTF-8 stream is cut into reads, the terminal has *)
(* handled the pieces it would have handled at once, and the same bytes wait.*)
THEOREM ReadsAreWhole == FeedSpec => []SplitReadsAreWhole
<1>1. FeedInit => FeedInv /\ SplitReadsAreWhole
  <2>1. SUFFICES ASSUME FeedInit PROVE FeedInv /\ SplitReadsAreWhole  OBVIOUS
  <2>2. sent = <<>> /\ out = <<>> /\ pending = <<>>  BY <2>1 DEF FeedInit
  <2>3. FeedInv  BY <2>2 DEF FeedInv, Utf8
  <2>4. SplitReadsAreWhole  BY <2>2, ParseEmpty DEF SplitReadsAreWhole
  <2> QED  BY <2>3, <2>4
<1>2. FeedInv /\ SplitReadsAreWhole /\ [PtyRead]_feedVars => FeedInv' /\ SplitReadsAreWhole'
  <2>1. SUFFICES ASSUME FeedInv, SplitReadsAreWhole, [PtyRead]_feedVars
                 PROVE  FeedInv' /\ SplitReadsAreWhole'
    OBVIOUS
  <2>2. CASE PtyRead  BY <2>1, <2>2, ReadKeepsWhole
  <2>3. CASE UNCHANGED feedVars
    BY <2>1, <2>3 DEF feedVars, FeedInv, SplitReadsAreWhole, Utf8, At
  <2> QED  BY <2>1, <2>2, <2>3
<1> QED  BY <1>1, <1>2, PTL DEF FeedSpec
=============================================================================
