----------------------------- MODULE QueueProofs -----------------------------
(* Facts about Only.                                                         *)
EXTENDS Queues, SequencesExt, SequenceTheorems, WellFoundedInduction, TLAPS

Less == {p \in Nat \X Nat : p[1] < p[2]}

LEMMA LessIsWellFounded == IsWellFoundedOn(Less, Nat)
<1>1. IsWellFoundedOn(OpToRel(<, Nat), Nat)  BY NatLessThanWellFounded
<1>2. OpToRel(<, Nat) = Less  BY DEF OpToRel, Less
<1> QED  BY <1>1, <1>2

(* A set of natural numbers that has a member has a least one.               *)
LEMMA LeastOf ==
    ASSUME NEW T, T \subseteq Nat, T # {} PROVE \E n \in T : \A k \in T : n <= k
<1>1. PICK n \in T : \A k \in T : <<k, n>> \notin Less  BY LessIsWellFounded, WFMin
<1>2. ASSUME NEW k \in T PROVE n <= k
  <2>1. k \in Nat /\ n \in Nat  OBVIOUS
  <2>2. k < n => <<k, n>> \in Less  BY <2>1 DEF Less
  <2> QED  BY <1>1, <2>1, <2>2
<1> QED  BY <1>2

(* A set of numbers that holds zero and the successor of what it holds.      *)
LEMMA InductiveSet ==
    ASSUME NEW n \in Nat, NEW T, 0 \in T, \A k \in 0 .. n - 1 : k \in T => k + 1 \in T
    PROVE  0 .. n \subseteq T
<1> DEFINE Out == {k \in 0 .. n : k \notin T}
<1>1. SUFFICES ASSUME Out # {} PROVE FALSE  OBVIOUS
<1>2. PICK k \in Out : \A j \in Out : k <= j
  <2>1. Out \subseteq Nat  OBVIOUS
  <2> HIDE DEF Out
  <2> QED  BY <1>1, <2>1, LeastOf
<1>3. k # 0  OBVIOUS
<1>4. k - 1 \in 0 .. n - 1 /\ k - 1 \notin Out  BY <1>2, <1>3
<1>5. k - 1 \in T  BY <1>4
<1>6. (k - 1) + 1 \in T  BY <1>4, <1>5
<1> QED  BY <1>6

-----------------------------------------------------------------------------
(* kept, as a function that satisfies its equation up to n. *)
Kept(g, kinds, queue, n) ==
    g = [i \in 0 .. n |-> IF i = 0 THEN <<>>
                          ELSE IF queue[i].kind \in kinds THEN Append(g[i - 1], queue[i])
                          ELSE g[i - 1]]

LEMMA KeptExists ==
    ASSUME NEW M, NEW kinds, NEW queue \in Seq(M), NEW n \in Nat
    PROVE  \E g : Kept(g, kinds, queue, n)
<1> DEFINE T == {k \in Nat : \E g : Kept(g, kinds, queue, k)}
<1>1. 0 \in T
  <2>1. Kept([i \in 0 .. 0 |-> <<>>], kinds, queue, 0)  BY DEF Kept
  <2> QED  BY <2>1
<1>2. ASSUME NEW k \in 0 .. n - 1, k \in T PROVE k + 1 \in T
  <2>1. PICK g : Kept(g, kinds, queue, k)  BY <1>2
  <2> DEFINE last == IF queue[k + 1].kind \in kinds THEN Append(g[k], queue[k + 1]) ELSE g[k]
             h == [i \in 0 .. k + 1 |-> IF i = k + 1 THEN last ELSE g[i]]
  <2>2. \A i \in 0 .. k : h[i] = g[i]  OBVIOUS
  <2>3. h[k + 1] = last  OBVIOUS
  <2>4. \A i \in 0 .. k : g[i] = IF i = 0 THEN <<>>
                          ELSE IF queue[i].kind \in kinds THEN Append(g[i - 1], queue[i])
                          ELSE g[i - 1]
    BY <2>1 DEF Kept
  <2>5. \A i \in 0 .. k + 1 : h[i] = IF i = 0 THEN <<>>
                          ELSE IF queue[i].kind \in kinds THEN Append(h[i - 1], queue[i])
                          ELSE h[i - 1]
    <3>1. TAKE i \in 0 .. k + 1
    <3>2. CASE i = k + 1
      <4>1. h[i - 1] = g[k]  BY <2>2, <3>2
      <4> HIDE DEF h
      <4> QED  BY <2>3, <3>2, <4>1
    <3>3. CASE i \in 1 .. k
      <4>1. h[i] = g[i] /\ h[i - 1] = g[i - 1]  BY <2>2, <3>3
      <4> HIDE DEF h, last
      <4> QED  BY <2>4, <3>3, <4>1
    <3>4. CASE i = 0  BY <2>2, <2>4, <3>4
    <3> QED  BY <3>2, <3>3, <3>4
  <2>6. Kept(h, kinds, queue, k + 1)
    <3>1. h = [i \in 0 .. k + 1 |-> h[i]]  OBVIOUS
    <3> HIDE DEF h, last
    <3> QED  BY <2>5, <3>1 DEF Kept
  <2> QED  BY <2>6
<1> HIDE DEF T
<1>3. 0 .. n \subseteq T  BY <1>1, <1>2, InductiveSet
<1> QED  BY <1>3 DEF T

(* Two of them agree as far as their queues do. *)
LEMMA KeptAgree ==
    ASSUME NEW kinds, NEW p, NEW q, NEW m \in Nat, NEW n \in Nat, NEW g, NEW h,
           Kept(g, kinds, p, m), Kept(h, kinds, q, n), m <= n,
           \A i \in 1 .. m : p[i] = q[i]
    PROVE  \A i \in 0 .. m : g[i] = h[i]
<1> DEFINE T == {i \in 0 .. m : g[i] = h[i]}
<1>1. /\ \A i \in 0 .. m : g[i] = IF i = 0 THEN <<>>
                          ELSE IF p[i].kind \in kinds THEN Append(g[i - 1], p[i]) ELSE g[i - 1]
      /\ \A i \in 0 .. n : h[i] = IF i = 0 THEN <<>>
                          ELSE IF q[i].kind \in kinds THEN Append(h[i - 1], q[i]) ELSE h[i - 1]
  BY DEF Kept
<1>2. 0 \in T  BY <1>1
<1>3. ASSUME NEW k \in 0 .. m - 1, k \in T PROVE k + 1 \in T
  <2>1. k + 1 \in 1 .. m /\ k + 1 \in 0 .. n /\ (k + 1) - 1 = k  OBVIOUS
  <2>2. g[k + 1] = IF p[k + 1].kind \in kinds THEN Append(g[k], p[k + 1]) ELSE g[k]
    BY <1>1, <2>1
  <2>3. h[k + 1] = IF q[k + 1].kind \in kinds THEN Append(h[k], q[k + 1]) ELSE h[k]
    BY <1>1, <2>1
  <2> QED  BY <1>3, <2>1, <2>2, <2>3
<1> HIDE DEF T
<1>4. 0 .. m \subseteq T  BY <1>2, <1>3, InductiveSet
<1> QED  BY <1>4 DEF T

LEMMA OnlyIsKept ==
    ASSUME NEW M, NEW kinds, NEW queue \in Seq(M)
    PROVE  \E g : Kept(g, kinds, queue, Len(queue)) /\ Only(kinds, queue) = g[Len(queue)]
<1> DEFINE g == CHOOSE f : Kept(f, kinds, queue, Len(queue))
<1>1. Len(queue) \in Nat  OBVIOUS
<1>2. Kept(g, kinds, queue, Len(queue))  BY <1>1, KeptExists
<1>3. Only(kinds, queue) = g[Len(queue)]  BY DEF Only, Kept
<1> QED  BY <1>2, <1>3

(* The equations by which Only is known from here on. *)
LEMMA OnlyEmpty == ASSUME NEW kinds PROVE Only(kinds, <<>>) = <<>>
<1>1. <<>> \in Seq({}) /\ Len(<<>>) = 0  OBVIOUS
<1>2. PICK g : Kept(g, kinds, <<>>, Len(<<>>)) /\ Only(kinds, <<>>) = g[Len(<<>>)]
  BY <1>1, OnlyIsKept
<1> QED  BY <1>1, <1>2 DEF Kept

LEMMA OnlyAppend ==
    ASSUME NEW M, NEW kinds, NEW queue \in Seq(M), NEW m \in M
    PROVE  Only(kinds, Append(queue, m)) =
              IF m.kind \in kinds THEN Append(Only(kinds, queue), m) ELSE Only(kinds, queue)
<1> DEFINE longer == Append(queue, m)
           n == Len(queue)
<1>1. /\ longer \in Seq(M) /\ Len(longer) = n + 1 /\ n \in Nat /\ longer[n + 1] = m
      /\ \A i \in 1 .. n : longer[i] = queue[i]
  BY AppendProperties
<1>2. PICK g : Kept(g, kinds, queue, n) /\ Only(kinds, queue) = g[n]  BY OnlyIsKept
<1>3. PICK h : Kept(h, kinds, longer, Len(longer)) /\ Only(kinds, longer) = h[Len(longer)]
  BY <1>1, OnlyIsKept
<1> HIDE DEF longer
<1>4. g[n] = h[n]
  <2>1. n <= Len(longer) /\ n \in 0 .. n /\ \A i \in 1 .. n : queue[i] = longer[i]  BY <1>1
  <2> HIDE DEF n
  <2> QED  BY <1>1, <1>2, <1>3, <2>1, KeptAgree
<1>5. n + 1 \in 0 .. n + 1 /\ n + 1 # 0 /\ (n + 1) - 1 = n  BY <1>1
<1>6. h[n + 1] = IF longer[n + 1].kind \in kinds THEN Append(h[n], longer[n + 1]) ELSE h[n]
  BY <1>1, <1>3, <1>5 DEF Kept
<1> QED  BY <1>1, <1>2, <1>3, <1>4, <1>6 DEF longer
-----------------------------------------------------------------------------
(* Facts about every queue, by taking its prefixes one message at a time. *)

LEMMA PrefixFacts ==
    ASSUME NEW M, NEW q \in Seq(M)
    PROVE  /\ SubSeq(q, 1, 0) = <<>> /\ SubSeq(q, 1, Len(q)) = q
           /\ \A k \in 0 .. Len(q) : SubSeq(q, 1, k) \in Seq(M)
           /\ \A k \in 0 .. Len(q) - 1 :
                 q[k + 1] \in M /\ SubSeq(q, 1, k + 1) = Append(SubSeq(q, 1, k), q[k + 1])
<1>1. ASSUME NEW k \in 0 .. Len(q) PROVE SubSeq(q, 1, k) \in Seq(M)  OBVIOUS
<1>2. SubSeq(q, 1, 0) = <<>> /\ SubSeq(q, 1, Len(q)) = q  OBVIOUS
<1>3. ASSUME NEW k \in 0 .. Len(q) - 1
      PROVE  q[k + 1] \in M /\ SubSeq(q, 1, k + 1) = Append(SubSeq(q, 1, k), q[k + 1])
  <2> DEFINE a == SubSeq(q, 1, k + 1)
             b == Append(SubSeq(q, 1, k), q[k + 1])
  <2>1. q[k + 1] \in M /\ SubSeq(q, 1, k) \in Seq(M) /\ Len(SubSeq(q, 1, k)) = k  OBVIOUS
  <2>2. a \in Seq(M) /\ Len(a) = k + 1 /\ \A i \in 1 .. k + 1 : a[i] = q[i]  OBVIOUS
  <2>3. b \in Seq(M) /\ Len(b) = k + 1  BY <2>1
  <2>4. ASSUME NEW i \in 1 .. k + 1 PROVE b[i] = q[i]
    <3>1. CASE i = k + 1  BY <2>1, <3>1
    <3>2. CASE i # k + 1
      <4>1. i \in 1 .. k  BY <3>2
      <4> QED  BY <2>1, <4>1
    <3> QED  BY <3>1, <3>2
  <2> HIDE DEF a, b
  <2>5. a = b  BY <2>2, <2>3, <2>4, SeqEqual
  <2> QED  BY <2>1, <2>5 DEF a, b
<1> QED  BY <1>1, <1>2, <1>3

LEMMA OnlyIsASeq ==
    ASSUME NEW M, NEW kinds, NEW q \in Seq(M) PROVE Only(kinds, q) \in Seq(M)
<1> DEFINE T == {k \in 0 .. Len(q) : Only(kinds, SubSeq(q, 1, k)) \in Seq(M)}
<1>1. 0 \in T
  <2>1. SubSeq(q, 1, 0) = <<>>  BY PrefixFacts
  <2>2. Only(kinds, <<>>) = <<>>  BY OnlyEmpty
  <2>3. 0 \in 0 .. Len(q) /\ <<>> \in Seq(M)  OBVIOUS
  <2> QED  BY <2>1, <2>2, <2>3
<1>2. ASSUME NEW k \in 0 .. Len(q) - 1, k \in T PROVE k + 1 \in T
  <2> DEFINE here == SubSeq(q, 1, k)
             m == q[k + 1]
  <2>1. here \in Seq(M) /\ m \in M /\ SubSeq(q, 1, k + 1) = Append(here, m)  BY PrefixFacts
  <2>2. Only(kinds, here) \in Seq(M)  BY <1>2
  <2>3. k + 1 \in 0 .. Len(q)  OBVIOUS
  <2> HIDE DEF here, m
  <2>4. Only(kinds, Append(here, m)) =
           IF m.kind \in kinds THEN Append(Only(kinds, here), m) ELSE Only(kinds, here)
    BY <2>1, OnlyAppend
  <2>5. Only(kinds, Append(here, m)) \in Seq(M)  BY <2>1, <2>2, <2>4
  <2> QED  BY <2>1, <2>3, <2>5
<1>3. Len(q) \in Nat  OBVIOUS
<1>4. 0 .. Len(q) \subseteq T  BY <1>1, <1>2, <1>3, InductiveSet
<1>5. Len(q) \in T  BY <1>3, <1>4
<1>6. SubSeq(q, 1, Len(q)) = q  BY PrefixFacts
<1> QED  BY <1>5, <1>6 DEF T

LEMMA OnlyThose ==
    ASSUME NEW M, NEW kinds, NEW q \in Seq(M) PROVE Only(kinds, q) \in Seq({m \in M : m.kind \in kinds})
<1> DEFINE Those == {m \in M : m.kind \in kinds}
           T == {k \in 0 .. Len(q) : Only(kinds, SubSeq(q, 1, k)) \in Seq(Those)}
<1>1. 0 \in T
  <2>1. SubSeq(q, 1, 0) = <<>>  BY PrefixFacts
  <2>2. Only(kinds, <<>>) = <<>>  BY OnlyEmpty
  <2>3. 0 \in 0 .. Len(q) /\ <<>> \in Seq(Those)  OBVIOUS
  <2> QED  BY <2>1, <2>2, <2>3
<1>2. ASSUME NEW k \in 0 .. Len(q) - 1, k \in T PROVE k + 1 \in T
  <2> DEFINE here == SubSeq(q, 1, k)
             m == q[k + 1]
  <2>1. here \in Seq(M) /\ m \in M /\ SubSeq(q, 1, k + 1) = Append(here, m)  BY PrefixFacts
  <2>2. Only(kinds, here) \in Seq(Those)  BY <1>2
  <2>3. k + 1 \in 0 .. Len(q)  OBVIOUS
  <2> HIDE DEF here, m
  <2>4. Only(kinds, Append(here, m)) =
           IF m.kind \in kinds THEN Append(Only(kinds, here), m) ELSE Only(kinds, here)
    BY <2>1, OnlyAppend
  <2>5. Only(kinds, Append(here, m)) \in Seq(Those)
    <3>1. m.kind \in kinds => m \in Those  BY <2>1
    <3> HIDE DEF Those
    <3> QED  BY <2>2, <2>4, <3>1
  <2> QED  BY <2>1, <2>3, <2>5
<1>3. Len(q) \in Nat  OBVIOUS
<1>4. 0 .. Len(q) \subseteq T  BY <1>1, <1>2, <1>3, InductiveSet
<1>5. Len(q) \in T  BY <1>3, <1>4
<1>6. SubSeq(q, 1, Len(q)) = q  BY PrefixFacts
<1> QED  BY <1>5, <1>6 DEF T

LEMMA OnlyConcat ==
    ASSUME NEW M, NEW kinds, NEW p \in Seq(M), NEW q \in Seq(M)
    PROVE  Only(kinds, p \o q) = Only(kinds, p) \o Only(kinds, q)
<1> DEFINE Q(k) == SubSeq(q, 1, k)
           T == {k \in 0 .. Len(q) : Only(kinds, p \o Q(k)) = Only(kinds, p) \o Only(kinds, Q(k))}
<1>1. Only(kinds, p) \in Seq(M) /\ \A k \in 0 .. Len(q) : Q(k) \in Seq(M) /\ Only(kinds, Q(k)) \in Seq(M)
  BY PrefixFacts, OnlyIsASeq
<1>2. 0 \in T
  <2>1. Q(0) = <<>> /\ Only(kinds, <<>>) = <<>>  BY PrefixFacts, OnlyEmpty
  <2>2. p \o <<>> = p  OBVIOUS
  <2>3. Only(kinds, p) \o <<>> = Only(kinds, p)  BY <1>1, ConcatEmptySeq
  <2>4. 0 \in 0 .. Len(q)  OBVIOUS
  <2> HIDE DEF Q
  <2> QED  BY <2>1, <2>2, <2>3, <2>4
<1>3. ASSUME NEW k \in 0 .. Len(q) - 1, k \in T PROVE k + 1 \in T
  <2> DEFINE m == q[k + 1]
             here == Q(k)
  <2>1. here \in Seq(M) /\ m \in M /\ Q(k + 1) = Append(here, m)  BY PrefixFacts
  <2>2. Only(kinds, p \o here) = Only(kinds, p) \o Only(kinds, here)  BY <1>3
  <2>3. Only(kinds, here) \in Seq(M)  BY <1>1
  <2> HIDE DEF here, m
  <2>4. p \o Append(here, m) = Append(p \o here, m) /\ p \o here \in Seq(M)  BY <2>1
  <2>5. Only(kinds, p \o Append(here, m)) =
           IF m.kind \in kinds THEN Append(Only(kinds, p \o here), m) ELSE Only(kinds, p \o here)
    <3> DEFINE all == p \o here
    <3>0. all \in Seq(M)  BY <2>4
    <3> HIDE DEF all
    <3>1. Only(kinds, Append(all, m)) =
             IF m.kind \in kinds THEN Append(Only(kinds, all), m) ELSE Only(kinds, all)
      BY <2>1, <3>0, OnlyAppend
    <3> QED  BY <2>4, <3>1 DEF all
  <2>6. Only(kinds, Append(here, m)) =
           IF m.kind \in kinds THEN Append(Only(kinds, here), m) ELSE Only(kinds, here)
    BY <2>1, OnlyAppend, SMTT(60)
  <2>7. Append(Only(kinds, p) \o Only(kinds, here), m) = Only(kinds, p) \o Append(Only(kinds, here), m)
    <3> DEFINE a == Only(kinds, p)
               b == Only(kinds, here)
    <3>1. a \in Seq(M) /\ b \in Seq(M) /\ m \in M  BY <1>1, <2>1, <2>3
    <3> HIDE DEF a, b
    <3>2. Append(a \o b, m) = (a \o b) \o <<m>> /\ Append(b, m) = b \o <<m>>
      BY <3>1, AppendIsConcat, ConcatProperties
    <3>3. <<m>> \in Seq(M)  BY <3>1
    <3>4. (a \o b) \o <<m>> = a \o (b \o <<m>>)  BY <3>1, <3>3, ConcatAssociative, SMTT(60)
    <3> QED  BY <3>2, <3>4 DEF a, b
  <2>8. Only(kinds, p \o Append(here, m)) = Only(kinds, p) \o Only(kinds, Append(here, m))
    BY <2>2, <2>5, <2>6, <2>7
  <2>9. k + 1 \in 0 .. Len(q)  OBVIOUS
  <2> QED  BY <2>1, <2>8, <2>9
<1> HIDE DEF T
<1>4. Len(q) \in Nat  OBVIOUS
<1>5. 0 .. Len(q) \subseteq T  BY <1>2, <1>3, <1>4, InductiveSet
<1>6. Len(q) \in T  BY <1>4, <1>5
<1>7. Q(Len(q)) = q  BY PrefixFacts
<1> HIDE DEF Q
<1> QED  BY <1>6, <1>7 DEF T

(* A queue is its first message and the rest. *)
LEMMA OnlyFirst ==
    ASSUME NEW M, NEW kinds, NEW m \in M, NEW q \in Seq(M)
    PROVE  /\ m.kind \in kinds => Only(kinds, <<m>> \o q) = <<m>> \o Only(kinds, q)
           /\ m.kind \notin kinds => Only(kinds, <<m>> \o q) = Only(kinds, q)
<1> DEFINE one == <<m>>
           none == <<>>
<1>0. m \in M /\ none \in Seq(M)  OBVIOUS
<1>1. one \in Seq(M) /\ Append(none, m) = one  OBVIOUS
<1>2. Only(kinds, none) = none  BY OnlyEmpty
<1> HIDE DEF one, none
<1>3. Only(kinds, one \o q) = Only(kinds, one) \o Only(kinds, q)  BY <1>1, OnlyConcat
<1>4. Only(kinds, Append(none, m)) =
         IF m.kind \in kinds THEN Append(Only(kinds, none), m) ELSE Only(kinds, none)
  BY <1>0, OnlyAppend
<1>5. Only(kinds, one) = IF m.kind \in kinds THEN one ELSE none  BY <1>1, <1>2, <1>4
<1>6. Only(kinds, q) \in Seq(M)  BY OnlyIsASeq
<1>7. none \o Only(kinds, q) = Only(kinds, q)  BY <1>6 DEF none
<1> QED  BY <1>3, <1>5, <1>7 DEF one

LEMMA OnlyOne ==
    ASSUME NEW M, NEW kinds, NEW m \in M
    PROVE  Only(kinds, <<m>>) = IF m.kind \in kinds THEN <<m>> ELSE <<>>
<1> DEFINE none == <<>>
<1>1. m \in M /\ none \in Seq(M)  OBVIOUS
<1>2. Append(none, m) = <<m>>  OBVIOUS
<1>3. Only(kinds, none) = none  BY OnlyEmpty
<1> HIDE DEF none
<1>4. Only(kinds, Append(none, m)) =
         IF m.kind \in kinds THEN Append(Only(kinds, none), m) ELSE Only(kinds, none)
  BY <1>1, OnlyAppend
<1> QED  BY <1>2, <1>3, <1>4 DEF none

LEMMA HeadAndTail ==
    ASSUME NEW M, NEW q \in Seq(M), q # <<>>
    PROVE  Head(q) \in M /\ Tail(q) \in Seq(M) /\ q = <<Head(q)>> \o Tail(q)
OBVIOUS

(* Nothing is kept of a queue without messages of the given kinds.           *)
LEMMA OnlyNone ==
    ASSUME NEW M, NEW kinds, NEW q \in Seq(M), \A m \in M : m.kind \notin kinds
    PROVE  Only(kinds, q) = <<>>
<1> DEFINE T == {k \in 0 .. Len(q) : Only(kinds, SubSeq(q, 1, k)) = <<>>}
<1>1. 0 \in T
  <2>1. SubSeq(q, 1, 0) = <<>> /\ Only(kinds, <<>>) = <<>>  BY PrefixFacts, OnlyEmpty
  <2>2. 0 \in 0 .. Len(q)  OBVIOUS
  <2> QED  BY <2>1, <2>2
<1>2. ASSUME NEW k \in 0 .. Len(q) - 1, k \in T PROVE k + 1 \in T
  <2> DEFINE here == SubSeq(q, 1, k)
             m == q[k + 1]
  <2>1. here \in Seq(M) /\ m \in M /\ SubSeq(q, 1, k + 1) = Append(here, m)  BY PrefixFacts
  <2>2. Only(kinds, here) = <<>>  BY <1>2
  <2>3. k + 1 \in 0 .. Len(q)  OBVIOUS
  <2> HIDE DEF here, m
  <2>4. Only(kinds, Append(here, m)) = Only(kinds, here)  BY <2>1, OnlyAppend, SMTT(60)
  <2> QED  BY <2>1, <2>2, <2>3, <2>4
<1> HIDE DEF T
<1>3. Len(q) \in Nat  OBVIOUS
<1>4. 0 .. Len(q) \subseteq T  BY <1>1, <1>2, <1>3, InductiveSet
<1>5. SubSeq(q, 1, Len(q)) = q /\ Len(q) \in T  BY <1>3, <1>4, PrefixFacts
<1> QED  BY <1>5 DEF T

(* What is kept of what was kept.                                            *)
LEMMA OnlyTwice ==
    ASSUME NEW M, NEW outer, NEW inner, NEW q \in Seq(M)
    PROVE  Only(outer, Only(inner, q)) = Only(outer \cap inner, q)
<1> DEFINE Q(k) == SubSeq(q, 1, k)
           T == {k \in 0 .. Len(q) : Only(outer, Only(inner, Q(k))) = Only(outer \cap inner, Q(k))}
<1>1. 0 \in T
  <2>1. Q(0) = <<>>  BY PrefixFacts
  <2>2. \A kinds : Only(kinds, <<>>) = <<>>  BY OnlyEmpty
  <2>3. 0 \in 0 .. Len(q)  OBVIOUS
  <2> HIDE DEF Q
  <2> QED  BY <2>1, <2>2, <2>3
<1>2. ASSUME NEW k \in 0 .. Len(q) - 1, k \in T PROVE k + 1 \in T
  <2> DEFINE m == q[k + 1]
             here == Q(k)
             kept == Only(inner, here)
             both == outer \cap inner
  <2>1. here \in Seq(M) /\ m \in M /\ Q(k + 1) = Append(here, m)  BY PrefixFacts
  <2>2. Only(outer, kept) = Only(both, here)  BY <1>2
  <2>3. k + 1 \in 0 .. Len(q)  OBVIOUS
  <2>4. m.kind \in both <=> m.kind \in outer /\ m.kind \in inner  OBVIOUS
  <2> HIDE DEF here, m, Q, both
  <2>5. kept \in Seq(M)  BY <2>1, OnlyIsASeq
  <2>6. Only(inner, Append(here, m)) = IF m.kind \in inner THEN Append(kept, m) ELSE kept
    BY <2>1, OnlyAppend
  <2> HIDE DEF kept
  <2>7. Only(both, Append(here, m)) =
           IF m.kind \in both THEN Append(Only(both, here), m) ELSE Only(both, here)
    BY <2>1, OnlyAppend
  <2>8. Only(outer, Append(kept, m)) =
           IF m.kind \in outer THEN Append(Only(outer, kept), m) ELSE Only(outer, kept)
    BY <2>1, <2>5, OnlyAppend
  <2>9. Only(outer, Only(inner, Append(here, m))) = Only(both, Append(here, m))
    BY <2>2, <2>4, <2>6, <2>7, <2>8
  <2> QED  BY <2>1, <2>3, <2>9 DEF both
<1> HIDE DEF T
<1>3. Len(q) \in Nat  OBVIOUS
<1>4. 0 .. Len(q) \subseteq T  BY <1>1, <1>2, <1>3, InductiveSet
<1>5. Q(Len(q)) = q /\ Len(q) \in T  BY <1>3, <1>4, PrefixFacts
<1> HIDE DEF Q
<1> QED  BY <1>5 DEF T

(* Nothing comes in that was not in the queue.                               *)
LEMMA OnlyFrom ==
    ASSUME NEW M, NEW kinds, NEW q \in Seq(M), NEW i \in DOMAIN Only(kinds, q)
    PROVE  \E j \in 1 .. Len(q) : Only(kinds, q)[i] = q[j]
<1> DEFINE These == {q[j] : j \in 1 .. Len(q)}
           kept == Only(kinds, q)
<1>1. q \in Seq(These)  OBVIOUS
<1> HIDE DEF These
<1>2. kept \in Seq(These)  BY <1>1, OnlyIsASeq
<1>3. i \in DOMAIN kept  OBVIOUS
<1> HIDE DEF kept
<1>4. kept[i] \in These  BY <1>2, <1>3, SMTT(60)
<1> QED  BY <1>4 DEF These, kept

-----------------------------------------------------------------------------
(* The beginning of a queue. *)
Begins(a, q) == \E n \in 0 .. Len(q) : a = SubSeq(q, 1, n)

LEMMA ConcatBegins ==
    ASSUME NEW M, NEW a \in Seq(M), NEW b \in Seq(M) PROVE Begins(a, a \o b)
<1>1. Len(a) \in Nat /\ Len(b) \in Nat /\ Len(a \o b) = Len(a) + Len(b)  OBVIOUS
<1>2. Len(a) \in 0 .. Len(a \o b)  BY <1>1
<1>3. a = SubSeq(a \o b, 1, Len(a))
  <2> DEFINE c == SubSeq(a \o b, 1, Len(a))
  <2>1. c \in Seq(M) /\ Len(c) = Len(a) /\ \A i \in 1 .. Len(a) : c[i] = a[i]  OBVIOUS
  <2> HIDE DEF c
  <2>2. a = c  BY <2>1, SeqEqual, SMTT(60)
  <2> QED  BY <2>2 DEF c
<1> QED  BY <1>2, <1>3 DEF Begins

LEMMA WholeBegins == ASSUME NEW M, NEW q \in Seq(M) PROVE Begins(q, q)
<1>1. Len(q) \in 0 .. Len(q) /\ SubSeq(q, 1, Len(q)) = q  OBVIOUS
<1> QED  BY <1>1 DEF Begins

LEMMA SplitsAt ==
    ASSUME NEW M, NEW q \in Seq(M), NEW n \in 0 .. Len(q)
    PROVE  /\ SubSeq(q, 1, n) \in Seq(M) /\ SubSeq(q, n + 1, Len(q)) \in Seq(M)
           /\ q = SubSeq(q, 1, n) \o SubSeq(q, n + 1, Len(q))
<1> DEFINE a == SubSeq(q, 1, n)
           b == SubSeq(q, n + 1, Len(q))
           c == a \o b
<1>1. /\ a \in Seq(M) /\ Len(a) = n /\ b \in Seq(M) /\ Len(b) = Len(q) - n
      /\ \A i \in 1 .. n : a[i] = q[i]
      /\ \A i \in 1 .. Len(q) - n : b[i] = q[n + i]
  OBVIOUS
<1>2. c \in Seq(M) /\ Len(c) = Len(q)
  <2> HIDE DEF a, b
  <2>1. a \in Seq(M) /\ b \in Seq(M)  BY <1>1
  <2>2. c \in Seq(M) /\ Len(c) = Len(a) + Len(b)  BY ONLY <2>1, ConcatProperties
  <2> QED  BY <1>1, <2>2
<1>3. ASSUME NEW i \in 1 .. Len(q) PROVE c[i] = q[i]
  <2> HIDE DEF a, b
  <2>1. c[i] = IF i <= Len(a) THEN a[i] ELSE b[i - Len(a)]  BY <1>1
  <2>2. CASE i <= n  BY <1>1, <2>1, <2>2
  <2>3. CASE i > n
    <3>1. i - n \in 1 .. Len(q) - n /\ n + (i - n) = i  BY <2>3
    <3> QED  BY <1>1, <2>1, <2>3, <3>1
  <2>4. i \in Int /\ n \in Int  OBVIOUS
  <2> HIDE DEF c
  <2> QED  BY <2>2, <2>3, <2>4
<1>4. q = c
  <2> HIDE DEF c
  <2> QED  BY <1>2, <1>3, SeqEqual
<1> QED  BY <1>1, <1>4

LEMMA Regroup ==
    ASSUME NEW M, NEW a \in Seq(M), NEW b \in Seq(M), NEW c \in Seq(M)
    PROVE  a \o (b \o c) = (a \o b) \o c /\ a \o b \in Seq(M)
<1>1. (a \o b) \o c = a \o (b \o c)  BY ConcatAssociative, SMTT(60)
<1> QED  BY <1>1

(* A message of the given kinds is kept.                                     *)
LEMMA OnlyHas ==
    ASSUME NEW M, NEW kinds, NEW q \in Seq(M), NEW i \in 1 .. Len(q), q[i].kind \in kinds
    PROVE  \E j \in DOMAIN Only(kinds, q) : Only(kinds, q)[j] = q[i]
<1> DEFINE before == SubSeq(q, 1, i - 1)
           rest == SubSeq(q, i + 1, Len(q))
           m == q[i]
<1>1. i - 1 \in 0 .. Len(q) - 1 /\ (i - 1) + 1 = i /\ i \in 0 .. Len(q)  OBVIOUS
<1>2. SubSeq(q, 1, i) = Append(before, m) /\ before \in Seq(M) /\ m \in M
  BY <1>1, PrefixFacts
<1>3. Append(before, m) \in Seq(M) /\ rest \in Seq(M) /\ q = Append(before, m) \o rest
  BY <1>1, <1>2, SplitsAt, ZenonT(60)
<1>4. m.kind \in kinds  OBVIOUS
<1> HIDE DEF before, rest, m
<1> DEFINE front == Append(before, m)
           a == Only(kinds, before)
           b == Only(kinds, rest)
<1>5. Only(kinds, front) = Append(a, m)  BY <1>2, <1>4, OnlyAppend
<1>6. front \in Seq(M) /\ q = front \o rest  BY <1>3
<1> HIDE DEF front
<1>7. Only(kinds, q) = Only(kinds, front) \o b  BY <1>3, <1>6, OnlyConcat, SMTT(60)
<1>8. a \in Seq(M) /\ b \in Seq(M)  BY <1>2, <1>3, OnlyIsASeq
<1> HIDE DEF a, b
<1>9. Append(a, m) \in Seq(M) /\ Len(Append(a, m)) = Len(a) + 1 /\ Append(a, m)[Len(a) + 1] = m
      /\ Len(a) \in Nat
  BY <1>2, <1>8
<1> DEFINE c == Append(a, m)
           k == Len(a) + 1
<1>10. c \in Seq(M) /\ Len(c) = k /\ c[k] = m /\ k \in Nat /\ k > 0  BY <1>9
<1> HIDE DEF c, k
<1>11. k \in DOMAIN (c \o b) /\ (c \o b)[k] = m  BY <1>8, <1>10
<1> QED  BY <1>5, <1>7, <1>11 DEF c, m

(* What is kept of the beginning of a queue begins what is kept of it.       *)
LEMMA OnlyBegins ==
    ASSUME NEW M, NEW kinds, NEW p \in Seq(M), NEW q \in Seq(M), NEW r, Begins(r, q)
    PROVE  /\ r \in Seq(M)
           /\ Begins(Only(kinds, p) \o Only(kinds, r), Only(kinds, p) \o Only(kinds, q))
<1>1. PICK n \in 0 .. Len(q) : r = SubSeq(q, 1, n)  BY DEF Begins
<1> DEFINE rest == SubSeq(q, n + 1, Len(q))
<1>2. r \in Seq(M) /\ rest \in Seq(M) /\ q = r \o rest  BY <1>1, SplitsAt
<1> HIDE DEF rest
<1>3. Only(kinds, q) = Only(kinds, r) \o Only(kinds, rest)  BY <1>2, OnlyConcat, SMTT(60)
<1> DEFINE a == Only(kinds, p)
           b == Only(kinds, r)
           c == Only(kinds, rest)
<1>4. a \in Seq(M) /\ b \in Seq(M) /\ c \in Seq(M)  BY <1>2, OnlyIsASeq
<1> HIDE DEF a, b, c
<1>5. a \o (b \o c) = (a \o b) \o c /\ a \o b \in Seq(M)  BY <1>4, Regroup, SMTT(60)
<1>7. Begins(a \o b, (a \o b) \o c)
  <2> DEFINE d == a \o b
  <2> HIDE DEF d
  <2>1. d \in Seq(M)  BY <1>5 DEF d
  <2>2. Begins(d, d \o c)  BY <1>4, <2>1, ConcatBegins
  <2> QED  BY <2>2 DEF d
<1> QED  BY <1>2, <1>3, <1>5, <1>7 DEF a, b, c

(* A sequence without its element at i, as RemoveAt spells it.               *)
LEMMA WithoutOne ==
    ASSUME NEW S, NEW q \in Seq(S), NEW i \in 1 .. Len(q)
    PROVE  LET rest == SubSeq(q, 1, i - 1) \o SubSeq(q, i + 1, Len(q)) IN
           /\ rest \in Seq(S) /\ Len(rest) = Len(q) - 1
           /\ \A j \in 1 .. i - 1 : rest[j] = q[j]
           /\ \A j \in i .. Len(q) - 1 : rest[j] = q[j + 1]
<1> DEFINE a == SubSeq(q, 1, i - 1)
           b == SubSeq(q, i + 1, Len(q))
<1>1. i \in Int /\ Len(q) \in Nat /\ \A j \in 1 .. Len(q) : q[j] \in S
  BY LenProperties, ElementOfSeq
<1>2. /\ a \in Seq(S) /\ Len(a) = i - 1
      /\ \A j \in 1 .. i - 1 : a[j] = q[j]
  <2>1. \A j \in 1 .. i - 1 : q[j] \in S  BY <1>1
  <2>2. /\ a \in Seq(S) /\ Len(a) = IF 1 <= i - 1 THEN (i - 1) - 1 + 1 ELSE 0
        /\ \A j \in 1 .. (i - 1) - 1 + 1 : a[j] = q[1 + j - 1]
    BY <2>1, <1>1, SubSeqProperties, SMT
  <2> HIDE DEF a
  <2>3. Len(a) = i - 1  BY <2>2
  <2>4. ASSUME NEW j \in 1 .. i - 1 PROVE a[j] = q[j]
    <3>1. j \in 1 .. (i - 1) - 1 + 1 /\ 1 + j - 1 = j  OBVIOUS
    <3> QED  BY <2>2, <3>1, ZenonT(60)
  <2> QED  BY <2>2, <2>3, <2>4
<1>3. /\ b \in Seq(S) /\ Len(b) = Len(q) - i
      /\ \A j \in 1 .. Len(q) - i : b[j] = q[i + j]
  <2>1. \A j \in i + 1 .. Len(q) : q[j] \in S  BY <1>1
  <2>2. /\ b \in Seq(S) /\ Len(b) = IF i + 1 <= Len(q) THEN Len(q) - (i + 1) + 1 ELSE 0
        /\ \A j \in 1 .. Len(q) - (i + 1) + 1 : b[j] = q[i + 1 + j - 1]
    BY <2>1, <1>1, SubSeqProperties, SMT
  <2> HIDE DEF b
  <2>3. Len(b) = Len(q) - i
    <3>1. i + 1 <= Len(q) \/ i = Len(q)  OBVIOUS
    <3> QED  BY <2>2, <3>1
  <2>4. ASSUME NEW j \in 1 .. Len(q) - i PROVE b[j] = q[i + j]
    <3>1. j \in 1 .. Len(q) - (i + 1) + 1 /\ i + 1 + j - 1 = i + j  OBVIOUS
    <3> QED  BY <2>2, <3>1, ZenonT(60)
  <2> QED  BY <2>2, <2>3, <2>4
<1>4. /\ a \o b \in Seq(S) /\ Len(a \o b) = Len(a) + Len(b)
      /\ \A j \in 1 .. Len(a) + Len(b) : (a \o b)[j] = IF j <= Len(a) THEN a[j] ELSE b[j - Len(a)]
  BY <1>2, <1>3, ConcatProperties, Zenon
<1> HIDE DEF a, b
<1>5. Len(a \o b) = Len(q) - 1  BY <1>1, <1>2, <1>3, <1>4
<1>6. \A j \in 1 .. i - 1 : (a \o b)[j] = q[j]  BY <1>1, <1>2, <1>3, <1>4
<1>7. \A j \in i .. Len(q) - 1 : (a \o b)[j] = q[j + 1]
  <2> SUFFICES ASSUME NEW j \in i .. Len(q) - 1 PROVE (a \o b)[j] = q[j + 1]  OBVIOUS
  <2>1. j \in 1 .. Len(a) + Len(b) /\ ~(j <= Len(a)) /\ j - Len(a) = j - i + 1  BY <1>1, <1>2, <1>3
  <2>2. j - i + 1 \in 1 .. Len(q) - i /\ i + (j - i + 1) = j + 1  BY <1>1
  <2> QED  BY <2>1, <2>2, <1>3, <1>4, ZenonT(60)
<1>8. a \o b \in Seq(S)  BY <1>4
<1> QED  BY <1>5, <1>6, <1>7, <1>8, Zenon DEF a, b

-----------------------------------------------------------------------------
(* What FlattenSeq strings together, up to each of the sequences.            *)
FlatUpTo(f, s, n) == f = [i \in 1 .. n |-> IF i = 1 THEN s[i] ELSE f[i - 1] \o s[i]]

LEMMA FlatExists ==
    ASSUME NEW s, NEW n \in Nat
    PROVE  \E f : FlatUpTo(f, s, n)
<1> DEFINE T == {k \in Nat : \E f : FlatUpTo(f, s, k)}
<1>1. 0 \in T
  <2>1. FlatUpTo([i \in 1 .. 0 |-> <<>>], s, 0)  BY DEF FlatUpTo
  <2> QED  BY <2>1
<1>2. ASSUME NEW k \in 0 .. n - 1, k \in T PROVE k + 1 \in T
  <2>1. PICK g : FlatUpTo(g, s, k)  BY <1>2
  <2> DEFINE last == IF k + 1 = 1 THEN s[k + 1] ELSE g[k] \o s[k + 1]
             h == [i \in 1 .. k + 1 |-> IF i = k + 1 THEN last ELSE g[i]]
  <2>2. \A i \in 1 .. k : h[i] = g[i]  OBVIOUS
  <2>3. h[k + 1] = last  OBVIOUS
  <2>4. \A i \in 1 .. k : g[i] = IF i = 1 THEN s[i] ELSE g[i - 1] \o s[i]
    BY <2>1 DEF FlatUpTo
  <2>5. \A i \in 1 .. k + 1 : h[i] = IF i = 1 THEN s[i] ELSE h[i - 1] \o s[i]
    <3>1. TAKE i \in 1 .. k + 1
    <3>2. CASE i = 1 /\ k = 0  BY <2>3, <3>2
    <3>3. CASE i = 1 /\ k # 0
      <4>1. h[i] = g[i]  BY <2>2, <3>3
      <4> HIDE DEF h
      <4> QED  BY <2>4, <3>3, <4>1
    <3>4. CASE i = k + 1 /\ i # 1
      <4>1. h[i - 1] = g[k]  BY <2>2, <3>4
      <4> HIDE DEF h
      <4> QED  BY <2>3, <3>4, <4>1
    <3>5. CASE i \in 2 .. k
      <4>1. h[i] = g[i] /\ h[i - 1] = g[i - 1]  BY <2>2, <3>5
      <4> HIDE DEF h, last
      <4> QED  BY <2>4, <3>5, <4>1
    <3> QED  BY <3>2, <3>3, <3>4, <3>5
  <2>6. FlatUpTo(h, s, k + 1)
    <3>1. h = [i \in 1 .. k + 1 |-> h[i]]  OBVIOUS
    <3> HIDE DEF h, last
    <3> QED  BY <2>5, <3>1 DEF FlatUpTo
  <2> QED  BY <2>6
<1> HIDE DEF T
<1>3. 0 .. n \subseteq T  BY <1>1, <1>2, InductiveSet
<1> QED  BY <1>3 DEF T

LEMMA FlattenStepwise ==
    ASSUME NEW M, NEW s \in Seq(Seq(M)), s # <<>>
    PROVE  \E f : /\ \A i \in 1 .. Len(s) : f[i] = IF i = 1 THEN s[i] ELSE f[i - 1] \o s[i]
                  /\ FlattenSeq(s) = f[Len(s)]
<1> DEFINE f == CHOOSE g : FlatUpTo(g, s, Len(s))
<1>1. Len(s) \in Nat /\ Len(s) # 0  OBVIOUS
<1>2. FlatUpTo(f, s, Len(s))  BY <1>1, FlatExists
<1>3. FlattenSeq(s) = f[Len(s)]  BY <1>1 DEF FlattenSeq, FlatUpTo
<1> HIDE DEF f
<1>4. \A i \in 1 .. Len(s) : f[i] = IF i = 1 THEN s[i] ELSE f[i - 1] \o s[i]  BY <1>2 DEF FlatUpTo
<1> QED  BY <1>3, <1>4

(* What was strung together is there, and nothing else; each once, if it is  *)
(* in one place only.                                                        *)
Gathered(q, s, k) ==
    /\ \A i \in 1 .. k : \A x \in DOMAIN s[i] : \E j \in DOMAIN q : q[j] = s[i][x]
    /\ \A j \in DOMAIN q : \E i \in 1 .. k : \E x \in DOMAIN s[i] : q[j] = s[i][x]
OnePlace(s) == \A i, h \in DOMAIN s : \A x \in DOMAIN s[i] : \A y \in DOMAIN s[h] :
                   s[i][x] = s[h][y] => i = h /\ x = y
EachOnce(q) == \A i, j \in DOMAIN q : q[i] = q[j] => i = j

LEMMA JoinGathers ==
    ASSUME NEW M, NEW s \in Seq(Seq(M)), NEW k \in 1 .. Len(s) - 1,
           NEW q \in Seq(M), Gathered(q, s, k)
    PROVE  /\ Gathered(q \o s[k + 1], s, k + 1)
           /\ OnePlace(s) /\ EachOnce(q) => EachOnce(q \o s[k + 1])
<1> DEFINE t == s[k + 1]
<1>1. t \in Seq(M) /\ k + 1 \in DOMAIN s  OBVIOUS
<1>2. /\ q \o t \in Seq(M) /\ Len(q \o t) = Len(q) + Len(t)
      /\ \A j \in 1 .. Len(q) + Len(t) :
            (q \o t)[j] = IF j <= Len(q) THEN q[j] ELSE t[j - Len(q)]
  BY <1>1, ConcatProperties
<1> DEFINE w == q \o t
<1>3. /\ DOMAIN w = 1 .. Len(q) + Len(t) /\ DOMAIN q = 1 .. Len(q) /\ DOMAIN t = 1 .. Len(t)
      /\ Len(q) \in Nat /\ Len(t) \in Nat
  BY <1>1, <1>2
<1>4. \A j \in DOMAIN w : w[j] = IF j <= Len(q) THEN q[j] ELSE t[j - Len(q)]  BY <1>2, <1>3
<1> HIDE DEF w, t
<1>5. \A j \in DOMAIN q : j \in DOMAIN w /\ w[j] = q[j]  BY <1>3, <1>4
<1>6. ASSUME NEW x \in DOMAIN t PROVE Len(q) + x \in DOMAIN w /\ w[Len(q) + x] = t[x]
  <2>1. /\ Len(q) + x \in DOMAIN w /\ ~(Len(q) + x <= Len(q)) /\ (Len(q) + x) - Len(q) = x
    BY <1>3
  <2> QED  BY <1>4, <2>1
<1>7. \A j \in DOMAIN w : (j \in DOMAIN q /\ w[j] = q[j])
                          \/ (j - Len(q) \in DOMAIN t /\ w[j] = t[j - Len(q)])
  BY <1>3, <1>4
<1>8. Gathered(w, s, k + 1)
  <2>1. ASSUME NEW i \in 1 .. k + 1, NEW x \in DOMAIN s[i]
        PROVE  \E j \in DOMAIN w : w[j] = s[i][x]
    <3>1. CASE i = k + 1  BY <1>6, <2>1, <3>1 DEF t
    <3>2. CASE i \in 1 .. k  BY <1>5, <2>1, <3>2 DEF Gathered
    <3> QED  BY <3>1, <3>2
  <2>2. ASSUME NEW j \in DOMAIN w
        PROVE  \E i \in 1 .. k + 1 : \E x \in DOMAIN s[i] : w[j] = s[i][x]
    <3>1. CASE j \in DOMAIN q /\ w[j] = q[j]
      <4>1. PICK i \in 1 .. k : \E x \in DOMAIN s[i] : q[j] = s[i][x]  BY <3>1 DEF Gathered
      <4>2. i \in 1 .. k + 1  OBVIOUS
      <4> QED  BY <3>1, <4>1, <4>2
    <3>2. CASE j - Len(q) \in DOMAIN t /\ w[j] = t[j - Len(q)]
      <4>1. k + 1 \in 1 .. k + 1  OBVIOUS
      <4> QED  BY <3>2, <4>1 DEF t
    <3> QED  BY <1>7, <2>2, <3>1, <3>2
  <2> QED  BY <2>1, <2>2 DEF Gathered
<1>9. ASSUME OnePlace(s), EachOnce(q) PROVE EachOnce(w)
  <2>1. ASSUME NEW i \in DOMAIN q, NEW x \in DOMAIN t PROVE q[i] # t[x]
    <3>1. PICK h \in 1 .. k : \E y \in DOMAIN s[h] : q[i] = s[h][y]  BY DEF Gathered
    <3>2. h \in DOMAIN s /\ h # k + 1  OBVIOUS
    <3> QED  BY <1>1, <1>9, <3>1, <3>2 DEF OnePlace, t
  <2>2. ASSUME NEW i \in DOMAIN w, NEW j \in DOMAIN w, w[i] = w[j] PROVE i = j
    <3>1. CASE i \in DOMAIN q /\ j \in DOMAIN q  BY <1>5, <1>9, <2>2, <3>1 DEF EachOnce
    <3>2. CASE i \notin DOMAIN q /\ j \notin DOMAIN q
      <4>1. i - Len(q) = j - Len(q)  BY <1>1, <1>7, <1>9, <2>2, <3>2 DEF OnePlace, t
      <4> QED  BY <1>3, <4>1
    <3>3. CASE i \in DOMAIN q /\ j \notin DOMAIN q  BY <1>5, <1>7, <2>1, <2>2, <3>3
    <3>4. CASE i \notin DOMAIN q /\ j \in DOMAIN q  BY <1>5, <1>7, <2>1, <2>2, <3>4
    <3> QED  BY <3>1, <3>2, <3>3, <3>4
  <2> QED  BY <2>2 DEF EachOnce
<1> QED  BY <1>8, <1>9 DEF w, t

LEMMA FlattenGathers ==
    ASSUME NEW M, NEW s \in Seq(Seq(M))
    PROVE  /\ FlattenSeq(s) \in Seq(M)
           /\ Gathered(FlattenSeq(s), s, Len(s))
           /\ OnePlace(s) => EachOnce(FlattenSeq(s))
<1>1. CASE s = <<>>
  <2>1. Len(s) = 0 /\ FlattenSeq(s) = <<>>  BY <1>1 DEF FlattenSeq
  <2> QED  BY <2>1 DEF Gathered, EachOnce
<1>2. CASE s # <<>>
  <2>1. PICK f : /\ \A i \in 1 .. Len(s) : f[i] = IF i = 1 THEN s[i] ELSE f[i - 1] \o s[i]
                 /\ FlattenSeq(s) = f[Len(s)]
    BY <1>2, FlattenStepwise
  <2> DEFINE Good(q, k) == q \in Seq(M) /\ Gathered(q, s, k) /\ (OnePlace(s) => EachOnce(q))
             T == {k \in Nat : k = 0 \/ Good(f[k], k)}
  <2>2. Len(s) \in Nat /\ Len(s) # 0  BY <1>2
  <2>3. 0 \in T  OBVIOUS
  <2>4. ASSUME NEW k \in 0 .. Len(s) - 1, k \in T PROVE k + 1 \in T
    <3>1. k + 1 \in 1 .. Len(s) /\ s[k + 1] \in Seq(M) /\ k + 1 \in DOMAIN s  BY <2>2
    <3>2. CASE k = 0
      <4>1. f[1] = s[1] /\ 1 .. 1 = {1}  BY <2>1, <3>1, <3>2
      <4>2. Gathered(s[1], s, 1)  BY <4>1 DEF Gathered
      <4>3. OnePlace(s) => EachOnce(s[1])  BY <3>1, <3>2 DEF OnePlace, EachOnce
      <4> QED  BY <3>1, <3>2, <4>1, <4>2, <4>3
    <3>3. CASE k # 0
      <4>1. Good(f[k], k)  BY <2>4, <3>3
      <4>2. f[k + 1] = f[k] \o s[k + 1]
        <5>1. k + 1 # 1 /\ (k + 1) - 1 = k  BY <3>3
        <5> QED  BY <2>1, <3>1, <5>1
      <4>3. k \in 1 .. Len(s) - 1  BY <3>3, <2>2
      <4>4. f[k] \o s[k + 1] \in Seq(M)  BY <3>1, <4>1, ConcatProperties
      <4>5. /\ Gathered(f[k] \o s[k + 1], s, k + 1)
            /\ OnePlace(s) => EachOnce(f[k] \o s[k + 1])
        BY <4>1, <4>3, JoinGathers
      <4>6. Good(f[k + 1], k + 1)  BY <4>2, <4>4, <4>5
      <4> QED  BY <4>6
    <3> QED  BY <3>2, <3>3
  <2> HIDE DEF T
  <2>5. 0 .. Len(s) \subseteq T  BY <2>2, <2>3, <2>4, InductiveSet
  <2>6. Good(f[Len(s)], Len(s))
    <3>1. Len(s) \in 0 .. Len(s)  BY <2>2
    <3>2. Len(s) \in T  BY <2>5, <3>1
    <3> HIDE DEF Good
    <3> QED  BY <2>2, <3>2 DEF T
  <2> QED  BY <2>1, <2>6
<1> QED  BY <1>1, <1>2
=============================================================================
