----------------------- MODULE HalProxyChannelProofs ------------------------
(***************************************************************************)
(* Proofs about HalProxyChannel: the two counters of the event path are    *)
(* exact, and HalProxy implements the channel of SensorEventChannel, for   *)
(* every number of sub-HALs, every queue size and every batch.             *)
(***************************************************************************)
EXTENDS HalProxyChannel, HalProxyProofs, SequenceTheorems, WellFoundedInduction

(***************************************************************************)
(* FlattenSeq.  The library's induction theorems have an operator for a    *)
(* parameter; the induction used here is about a set of numbers.           *)
(***************************************************************************)

LEMMA SetInduction ==
  ASSUME NEW S, 0 \in S, \A n \in Nat : n \in S => n + 1 \in S
  PROVE  \A n \in Nat : n \in S
<1> DEFINE R == OpToRel(<, Nat)
           B == Nat \ S
<1>1. IsWellFoundedOn(R, Nat)
  BY NatLessThanWellFounded
<1>2. R = {ss \in Nat \X Nat : ss[1] < ss[2]}
  BY DEF OpToRel
<1> HIDE DEF R
<1>3. SUFFICES ASSUME B # {} PROVE FALSE
  OBVIOUS
<1>4. PICK m \in B : \A n \in B : <<n, m>> \notin R
  BY <1>1, <1>3, WFMin
<1>5. m \in Nat /\ m # 0 /\ m - 1 \in Nat
  BY <1>4
<1>6. <<m - 1, m>> \in R
  BY <1>2, <1>5
<1>7. m - 1 \in S
  BY <1>4, <1>5, <1>6
<1> QED BY <1>4, <1>5, <1>7

\* The equation by which FlattenSeq is defined.
Flattens(f, seqs, n) ==
  f = [i \in 1..n |-> IF i = 1 THEN seqs[i] ELSE f[i-1] \o seqs[i]]

LEMMA FlattensEntries ==
  ASSUME NEW f, NEW seqs, NEW n \in Nat, Flattens(f, seqs, n), NEW i \in 1..n
  PROVE  f[i] = IF i = 1 THEN seqs[i] ELSE f[i-1] \o seqs[i]
<1> DEFINE g == [k \in 1..n |-> IF k = 1 THEN seqs[k] ELSE f[k-1] \o seqs[k]]
<1>1. f = g
  BY DEF Flattens
<1>2. g[i] = IF i = 1 THEN seqs[i] ELSE f[i-1] \o seqs[i]
  OBVIOUS
<1> HIDE DEF g
<1> QED BY <1>1, <1>2

\* The equation has a solution for every length.
LEMMA FlattensExists ==
  ASSUME NEW seqs, NEW n \in Nat
  PROVE  \E f : Flattens(f, seqs, n)
<1> DEFINE S == {k \in Nat : \E f : Flattens(f, seqs, k)}
<1>1. 0 \in S
  <2>1. Flattens(<<>>, seqs, 0)
    BY DEF Flattens
  <2> QED BY <2>1
<1>2. ASSUME NEW k \in Nat, k \in S
      PROVE  k + 1 \in S
  <2>1. PICK f : Flattens(f, seqs, k)
    BY <1>2
  <2> DEFINE g == [i \in 1..(k + 1) |-> IF i <= k THEN f[i]
                                        ELSE IF i = 1 THEN seqs[i] ELSE f[k] \o seqs[i]]
  <2>2. ASSUME NEW i \in 1..(k + 1)
        PROVE  g[i] = IF i = 1 THEN seqs[i] ELSE g[i-1] \o seqs[i]
    <3>1. CASE i <= k
      <4>1. f[i] = IF i = 1 THEN seqs[i] ELSE f[i-1] \o seqs[i]
        BY <2>1, <3>1, FlattensEntries
      <4>2. g[i] = f[i] /\ (i # 1 => g[i-1] = f[i-1])
        BY <3>1
      <4> HIDE DEF g
      <4> QED BY <4>1, <4>2
    <3>2. CASE i = k + 1
      <4>1. i # 1 => g[i-1] = f[k] /\ g[i] = f[k] \o seqs[i]
        <5>1. i - 1 = k /\ ~(i <= k) /\ (i # 1 => k \in 1..(k + 1) /\ k <= k)
          BY <3>2
        <5>2. i # 1 => g[k] = f[k]
          BY <5>1
        <5>3. i # 1 => g[i] = f[k] \o seqs[i]
          BY <5>1
        <5> QED BY <5>1, <5>2, <5>3
      <4>2. i = 1 => g[i] = seqs[i]
        BY <3>2
      <4> HIDE DEF g
      <4> QED BY <4>1, <4>2
    <3> QED BY <3>1, <3>2
  <2>3. Flattens(g, seqs, k + 1)
    <3> DEFINE h == [i \in 1..(k + 1) |-> IF i = 1 THEN seqs[i] ELSE g[i-1] \o seqs[i]]
    <3>1. \A i \in 1..(k + 1) : h[i] = g[i]
      BY <2>2
    <3>2. DOMAIN g = 1..(k + 1) /\ g = [i \in DOMAIN g |-> g[i]]
      OBVIOUS
    <3>3. h = [i \in 1..(k + 1) |-> h[i]]
      OBVIOUS
    <3> HIDE DEF g
    <3>4. g = h
      <4> HIDE DEF h
      <4> QED BY <3>1, <3>2, <3>3
    <3> QED BY <3>4 DEF Flattens
  <2> HIDE DEF g
  <2> QED BY <2>3
<1> HIDE DEF S
<1>3. n \in S
  BY <1>1, <1>2, SetInduction
<1> QED BY <1>3 DEF S

\* Two solutions agree as far as the sequences do.
LEMMA FlattensUnique ==
  ASSUME NEW f, NEW seqs, NEW n \in Nat, Flattens(f, seqs, n),
         NEW g, NEW seqt, NEW m \in Nat, Flattens(g, seqt, m),
         n <= m, \A i \in 1..n : seqs[i] = seqt[i]
  PROVE  \A i \in 1..n : f[i] = g[i]
<1> DEFINE S == {i \in Nat : i \in 1..n => f[i] = g[i]}
<1>1. 0 \in S
  OBVIOUS
<1>2. ASSUME NEW i \in Nat, i \in S
      PROVE  i + 1 \in S
  <2>1. SUFFICES ASSUME i + 1 \in 1..n PROVE f[i + 1] = g[i + 1]
    OBVIOUS
  <2>2. i + 1 \in 1..n /\ i + 1 \in 1..m /\ (i + 1) - 1 = i /\ seqs[i + 1] = seqt[i + 1]
    BY <2>1
  <2> DEFINE j == i + 1
  <2>3. /\ f[j] = IF j = 1 THEN seqs[j] ELSE f[j-1] \o seqs[j]
        /\ g[j] = IF j = 1 THEN seqt[j] ELSE g[j-1] \o seqt[j]
    <3>1. j \in 1..n /\ j \in 1..m
      BY <2>2
    <3> HIDE DEF j
    <3> QED BY <3>1, FlattensEntries
  <2>4. j # 1 => f[j-1] = g[j-1]
    BY <1>2, <2>1
  <2> QED BY <2>2, <2>3, <2>4
<1> HIDE DEF S
<1>3. \A i \in Nat : i \in S
  BY <1>1, <1>2, SetInduction
<1> QED BY <1>3 DEF S

LEMMA FlattenIsLast ==
  ASSUME NEW seqs, NEW n \in Nat, Len(seqs) = n, n # 0
  PROVE  \E f : Flattens(f, seqs, n) /\ FlattenSeq(seqs) = f[n]
<1> DEFINE F == CHOOSE f : Flattens(f, seqs, n)
<1>1. Flattens(F, seqs, n)
  BY FlattensExists
<1>2. F = CHOOSE f : f = [i \in 1..n |-> IF i = 1 THEN seqs[i] ELSE f[i-1] \o seqs[i]]
  BY DEF Flattens
<1>3. FlattenSeq(seqs) = F[n]
  BY <1>2 DEF FlattenSeq
<1> QED BY <1>1, <1>3

\* Flattening nothing, and one sequence more.
LEMMA FlattenAppend ==
  ASSUME NEW T, NEW q \in Seq(Seq(T)), NEW e \in Seq(T)
  PROVE  /\ FlattenSeq(<<>>) = <<>>
         /\ FlattenSeq(Append(q, e)) = FlattenSeq(q) \o e
<1>0. FlattenSeq(<<>>) = <<>>
  BY DEF FlattenSeq
<1> DEFINE n == Len(q)
           r == Append(q, e)
<1>1. n \in Nat /\ Len(r) = n + 1 /\ r[n + 1] = e /\ \A i \in 1..n : q[i] = r[i]
  OBVIOUS
<1> HIDE DEF r
<1>2. PICK g : Flattens(g, r, n + 1) /\ FlattenSeq(r) = g[n + 1]
  BY <1>1, FlattenIsLast
<1>3. g[n + 1] = IF n = 0 THEN e ELSE g[n] \o e
  <2> DEFINE j == n + 1
  <2>1. j \in 1..j /\ j \in Nat /\ j - 1 = n /\ (j = 1 <=> n = 0) /\ r[j] = e
    BY <1>1
  <2> HIDE DEF n
  <2>2. g[j] = IF j = 1 THEN r[j] ELSE g[j-1] \o r[j]
    <3>1. Flattens(g, r, j)
      BY <1>2
    <3> HIDE DEF j
    <3> QED BY <2>1, <3>1, FlattensEntries
  <2> QED BY <2>1, <2>2
<1>4. CASE n = 0
  <2>1. q = <<>> /\ <<>> \o e = e
    BY <1>4
  <2> QED BY <1>0, <1>2, <1>3, <1>4, <2>1 DEF r
<1>5. CASE n # 0
  <2>1. PICK f : Flattens(f, q, n) /\ FlattenSeq(q) = f[n]
    BY <1>1, <1>5, FlattenIsLast
  <2>2. n \in 1..n /\ n + 1 \in Nat /\ n <= n + 1 /\ n <= n
    BY <1>1, <1>5
  <2>3. \A i \in 1..n : f[i] = g[i]
    <3> DEFINE m == n + 1
    <3>1. Flattens(g, r, m) /\ m \in Nat /\ n <= m
      BY <1>2, <2>2
    <3>2. n \in Nat /\ Flattens(f, q, n) /\ n <= n
      BY <1>1, <2>1, <2>2
    <3>3. \A i \in 1..n : q[i] = r[i]
      BY <1>1
    <3> HIDE DEF m, n
    <3> QED BY <3>1, <3>2, <3>3, FlattensUnique
  <2>4. FlattenSeq(r) = f[n] \o e
    BY <1>2, <1>3, <1>5, <2>2, <2>3
  <2> QED BY <1>0, <2>1, <2>4 DEF r
<1> QED BY <1>0, <1>4, <1>5 DEF r

\* Flattening, seen from the front: the first sequence and the others.
LEMMA FlattenFront ==
  ASSUME NEW T, NEW q \in Seq(Seq(T)), q # <<>>
  PROVE  /\ FlattenSeq(q) \in Seq(T) /\ FlattenSeq(Tail(q)) \in Seq(T)
         /\ FlattenSeq(q) = q[1] \o FlattenSeq(Tail(q))
<1> DEFINE n == Len(q)
           r == Tail(q)
<1>0. r \in Seq(Seq(T))
  OBVIOUS
<1>1. /\ n \in Nat /\ n # 0 /\ n - 1 \in Nat /\ Len(r) = n - 1
      /\ \A i \in 1..n : q[i] \in Seq(T)
      /\ \A i \in 1..(n - 1) : r[i] = q[i + 1]
  OBVIOUS
<1> HIDE DEF r
<1>2. PICK f : Flattens(f, q, n) /\ FlattenSeq(q) = f[n]
  BY <1>1, FlattenIsLast
<1>3. PICK g : Flattens(g, r, n - 1) /\ (n - 1 # 0 => FlattenSeq(r) = g[n - 1])
  <2> DEFINE m == n - 1
  <2>1. m \in Nat /\ Len(r) = m
    BY <1>1
  <2> HIDE DEF m
  <2>2. \E g : Flattens(g, r, m) /\ (m # 0 => FlattenSeq(r) = g[m])
    BY <2>1, FlattenIsLast, FlattensExists
  <2> QED BY <2>2 DEF m
<1> DEFINE S == {i \in Nat : i + 1 \in 2..n =>
                    /\ f[i + 1] = q[1] \o g[i] /\ g[i] \in Seq(T) /\ f[i + 1] \in Seq(T)}
<1>4. f[1] = q[1] /\ q[1] \in Seq(T)
  <2>1. 1 \in 1..n
    BY <1>1
  <2>2. f[1] = IF 1 = 1 THEN q[1] ELSE f[1-1] \o q[1]
    BY <1>1, <1>2, <2>1, FlattensEntries
  <2> QED BY <1>1, <2>1, <2>2
<1>5. 0 \in S
  BY <1>1
<1>b. \A i \in Nat : i \in S <=> (i + 1 \in 2..n =>
        /\ f[i + 1] = q[1] \o g[i] /\ g[i] \in Seq(T) /\ f[i + 1] \in Seq(T))
  OBVIOUS
<1> HIDE DEF S
<1>6. ASSUME NEW i \in Nat, i \in S
      PROVE  i + 1 \in S
  <2> DEFINE j == i + 1
             k == j + 1
  <2>a. j \in Nat
    OBVIOUS
  <2>1. SUFFICES ASSUME k \in 2..n
                 PROVE  f[k] = q[1] \o g[j] /\ g[j] \in Seq(T) /\ f[k] \in Seq(T)
    <3> HIDE DEF j
    <3>1. k \in 2..n => f[k] = q[1] \o g[j] /\ g[j] \in Seq(T) /\ f[k] \in Seq(T)
      BY <2>1
    <3>2. j \in S
      BY <1>b, <2>a, <3>1
    <3> QED BY <3>2 DEF j
  <2>2. /\ j \in 1..(n - 1) /\ k \in 1..n /\ k - 1 = j /\ j - 1 = i /\ k # 1
        /\ r[j] = q[k] /\ q[k] \in Seq(T) /\ (j # 1 => j \in 2..n) /\ j \in Nat
    BY <1>1, <2>1
  <2>3. f[k] = f[j] \o q[k]
    <3>1. f[k] = IF k = 1 THEN q[k] ELSE f[k-1] \o q[k]
      <4>1. k \in 1..n /\ n \in Nat /\ Flattens(f, q, n)
        BY <1>1, <1>2, <2>2
      <4> HIDE DEF k, n
      <4> QED BY <4>1, FlattensEntries
    <3> QED BY <2>2, <3>1
  <2>4. g[j] = IF j = 1 THEN q[k] ELSE g[i] \o q[k]
    <3> DEFINE m == n - 1
    <3>1. j \in 1..m /\ m \in Nat /\ Flattens(g, r, m)
      BY <1>1, <1>3, <2>2
    <3>2. g[j] = IF j = 1 THEN r[j] ELSE g[j-1] \o r[j]
      <4> HIDE DEF j, m
      <4> QED BY <3>1, FlattensEntries
    <3> QED BY <2>2, <3>2
  <2>5. j # 1 => f[j] = q[1] \o g[i] /\ g[i] \in Seq(T) /\ f[j] \in Seq(T)
    BY <1>6, <1>b, <2>2
  <2> HIDE DEF j, k, n
  <2>6. CASE j = 1
    <3> DEFINE a == q[1]
               c == q[k]
    <3>1. a \in Seq(T) /\ c \in Seq(T) /\ f[k] = a \o c /\ g[j] = c
      BY <1>4, <2>2, <2>3, <2>4, <2>6
    <3> HIDE DEF a, c
    <3>2. a \o c \in Seq(T)
      BY <3>1
    <3> QED BY <3>1, <3>2 DEF a
  <2>7. CASE j # 1
    <3> DEFINE a == q[1]
               b == g[i]
               c == q[k]
    <3>1. a \in Seq(T) /\ b \in Seq(T) /\ c \in Seq(T)
      BY <1>4, <2>2, <2>5, <2>7
    <3>2. f[k] = (a \o b) \o c /\ g[j] = b \o c
      BY <2>3, <2>4, <2>5, <2>7
    <3> HIDE DEF a, b, c
    <3>3. (a \o b) \o c = a \o (b \o c) /\ b \o c \in Seq(T) /\ a \o (b \o c) \in Seq(T)
      <4>1. (a \o b) \o c = a \o (b \o c)
        BY <3>1, ConcatAssociative
      <4>2. b \o c \in Seq(T)
        BY <3>1
      <4> QED BY <3>1, <4>1, <4>2, ConcatProperties
    <3> QED BY <3>2, <3>3 DEF a
  <2> QED BY <2>6, <2>7
<1>7. n - 1 \in S
  <2>1. \A i \in Nat : i \in S
    BY <1>5, <1>6, SetInduction
  <2> QED BY <1>1, <2>1
<1>8. CASE n = 1
  <2>1. r = <<>>
    BY <1>0, <1>1, <1>8, EmptySeq
  <2>2. FlattenSeq(r) = <<>>
    BY <2>1 DEF FlattenSeq
  <2>3. q[1] \o <<>> = q[1] /\ <<>> \in Seq(T)
    BY <1>4
  <2> QED BY <1>2, <1>4, <1>8, <2>2, <2>3 DEF r
<1>9. CASE n # 1
  <2>1. n - 1 + 1 = n /\ n \in 2..n /\ n - 1 # 0
    BY <1>1, <1>9
  <2>2. f[n] = q[1] \o g[n - 1] /\ g[n - 1] \in Seq(T) /\ f[n] \in Seq(T)
    BY <1>7, <2>1 DEF S
  <2> QED BY <1>2, <1>3, <2>1, <2>2 DEF r
<1> QED BY <1>8, <1>9
-----------------------------------------------------------------------------
(***************************************************************************)
(* The pending queue as one sequence of events.                            *)
(***************************************************************************)

Entry == [events : Seq(Event), numWakeupEvents : Nat]

EventsOf(q)  == [i \in DOMAIN q |-> q[i].events]
PendingOf(q) == FlattenSeq(EventsOf(q))

LEMMA EventsOfType ==
  ASSUME NEW q \in Seq(Entry)
  PROVE  /\ EventsOf(q) \in Seq(Seq(Event)) /\ Len(EventsOf(q)) = Len(q)
         /\ \A i \in 1..Len(q) : EventsOf(q)[i] = q[i].events
<1>1. Len(q) \in Nat /\ DOMAIN q = 1..Len(q)
  OBVIOUS
<1>2. \A i \in 1..Len(q) : q[i].events \in Seq(Event)
  <2>1. \A i \in 1..Len(q) : q[i] \in Entry
    <3> HIDE DEF Entry
    <3> QED BY <1>1
  <2> QED BY <2>1 DEF Entry
<1>3. EventsOf(q) \in [1..Len(q) -> Seq(Event)]
  BY <1>1, <1>2 DEF EventsOf
<1>4. EventsOf(q) \in Seq(Seq(Event))
  BY <1>1, <1>3, IsASeq
<1> QED BY <1>1, <1>3, <1>4 DEF EventsOf

LEMMA PendingType ==
  ASSUME NEW q \in Seq(Entry)
  PROVE  PendingOf(q) \in Seq(Event) /\ PendingOf(<<>>) = <<>>
<1> DEFINE E == EventsOf(q)
<1>1. E \in Seq(Seq(Event)) /\ Len(E) = Len(q)
  BY EventsOfType
<1>2. EventsOf(<<>>) = <<>> /\ FlattenSeq(<<>>) = <<>>
  <2>1. EventsOf(<<>>) = <<>>
    BY DEF EventsOf
  <2>2. FlattenSeq(<<>>) = <<>>
    BY DEF FlattenSeq
  <2> QED BY <2>1, <2>2
<1> HIDE DEF E
<1>3. FlattenSeq(E) \in Seq(Event)
  <2>1. CASE E = <<>>
    <3>1. FlattenSeq(E) = <<>>
      BY <1>2, <2>1
    <3>2. <<>> \in Seq(Event)
      OBVIOUS
    <3> QED BY <3>1, <3>2
  <2>2. CASE E # <<>>
    BY <1>1, <2>2, FlattenFront
  <2> QED BY <2>1, <2>2
<1> QED BY <1>2, <1>3 DEF E, PendingOf

\* An entry at the end of the queue.
LEMMA PendingAppend ==
  ASSUME NEW q \in Seq(Entry), NEW e \in Entry
  PROVE  PendingOf(Append(q, e)) = PendingOf(q) \o e.events
<1> DEFINE r == Append(q, e)
           E == EventsOf(q)
           F == EventsOf(r)
           G == Append(E, e.events)
<1>1. r \in Seq(Entry) /\ Len(r) = Len(q) + 1 /\ r[Len(q) + 1] = e
      /\ \A i \in 1..Len(q) : r[i] = q[i]
  <2> HIDE DEF Entry
  <2> QED OBVIOUS
<1>2. e.events \in Seq(Event)
  BY DEF Entry
<1> HIDE DEF r
<1>3. /\ E \in Seq(Seq(Event)) /\ Len(E) = Len(q) /\ \A i \in 1..Len(q) : E[i] = q[i].events
      /\ F \in Seq(Seq(Event)) /\ Len(F) = Len(r) /\ \A i \in 1..Len(r) : F[i] = r[i].events
  BY <1>1, EventsOfType
<1> HIDE DEF E, F
<1>4. /\ G \in Seq(Seq(Event)) /\ Len(G) = Len(q) + 1 /\ G[Len(q) + 1] = e.events
      /\ \A i \in 1..Len(q) : G[i] = E[i]
  BY <1>2, <1>3
<1> HIDE DEF G
<1>5. \A i \in 1..Len(F) : F[i] = G[i]
  <2> SUFFICES ASSUME NEW i \in 1..Len(F) PROVE F[i] = G[i]
    OBVIOUS
  <2>1. Len(q) \in Nat /\ i \in 1..Len(r) /\ (i \in 1..Len(q) \/ i = Len(q) + 1)
    BY <1>1, <1>3
  <2>2. F[i] = r[i].events
    BY <1>3, <2>1
  <2>3. CASE i \in 1..Len(q)
    <3>1. r[i] = q[i] /\ E[i] = q[i].events /\ G[i] = E[i]
      BY <1>1, <1>3, <1>4, <2>3
    <3> QED BY <2>2, <3>1
  <2>4. CASE i = Len(q) + 1
    BY <1>1, <1>4, <2>2, <2>4
  <2> QED BY <2>1, <2>3, <2>4
<1>6. F = G
  BY <1>1, <1>3, <1>4, <1>5, SeqEqual
<1>7. FlattenSeq(Append(E, e.events)) = FlattenSeq(E) \o e.events
  BY <1>2, <1>3, FlattenAppend
<1> QED BY <1>6, <1>7 DEF E, F, G, r, PendingOf

\* The front of the queue, whatever it is replaced by.
LEMMA PendingFront ==
  ASSUME NEW q \in Seq(Entry), q # <<>>, NEW e \in Entry
  PROVE  /\ Tail(q) \in Seq(Entry)
         /\ PendingOf(q) = q[1].events \o PendingOf(Tail(q))
         /\ PendingOf([q EXCEPT ![1] = e]) = e.events \o PendingOf(Tail(q))
<1>1. ASSUME NEW r \in Seq(Entry), r # <<>>, Tail(r) = Tail(q)
      PROVE  PendingOf(r) = r[1].events \o PendingOf(Tail(q))
  <2> DEFINE E == EventsOf(r)
             t == Tail(r)
             F == EventsOf(t)
  <2>1. /\ t \in Seq(Entry) /\ Len(t) = Len(r) - 1 /\ Len(r) \in Nat \ {0}
        /\ \A i \in 1..Len(t) : t[i] = r[i + 1]
    <3> HIDE DEF Entry
    <3> QED BY <1>1
  <2> HIDE DEF t
  <2>2. /\ E \in Seq(Seq(Event)) /\ Len(E) = Len(r) /\ \A i \in 1..Len(r) : E[i] = r[i].events
        /\ F \in Seq(Seq(Event)) /\ Len(F) = Len(t) /\ \A i \in 1..Len(t) : F[i] = t[i].events
    BY <2>1, EventsOfType
  <2> HIDE DEF E, F
  <2>3. E # <<>> /\ Tail(E) \in Seq(Seq(Event)) /\ Len(Tail(E)) = Len(r) - 1
        /\ \A i \in 1..(Len(r) - 1) : Tail(E)[i] = E[i + 1]
    BY <2>1, <2>2
  <2>4. \A i \in 1..Len(F) : F[i] = Tail(E)[i]
    <3> SUFFICES ASSUME NEW i \in 1..Len(F) PROVE F[i] = Tail(E)[i]
      OBVIOUS
    <3>1. i \in 1..Len(t) /\ i \in 1..(Len(r) - 1) /\ i + 1 \in 1..Len(r)
      BY <2>1, <2>2
    <3>2. F[i] = t[i].events /\ t[i] = r[i + 1] /\ E[i + 1] = r[i + 1].events
      BY <2>1, <2>2, <3>1
    <3>3. Tail(E)[i] = E[i + 1]
      BY <2>3, <3>1
    <3> QED BY <3>2, <3>3
  <2>5. F = Tail(E)
    <3> DEFINE G == Tail(E)
    <3>1. G \in Seq(Seq(Event)) /\ Len(G) = Len(F) /\ \A i \in 1..Len(F) : F[i] = G[i]
      BY <2>1, <2>2, <2>3, <2>4
    <3> HIDE DEF G
    <3>2. F = G
      BY <2>2, <3>1, SeqEqual
    <3> QED BY <3>2 DEF G
  <2>6. FlattenSeq(E) = E[1] \o FlattenSeq(Tail(E))
    BY <2>2, <2>3, FlattenFront
  <2>7. E[1] = r[1].events
    BY <2>1, <2>2
  <2> QED BY <1>1, <2>5, <2>6, <2>7 DEF E, F, t, PendingOf
<1>2. /\ Tail(q) \in Seq(Entry) /\ [q EXCEPT ![1] = e] \in Seq(Entry)
      /\ [q EXCEPT ![1] = e] # <<>> /\ [q EXCEPT ![1] = e][1] = e
      /\ Tail([q EXCEPT ![1] = e]) = Tail(q)
  <2> HIDE DEF Entry
  <2> DEFINE r == [q EXCEPT ![1] = e]
  <2>1. Len(q) \in Nat \ {0} /\ DOMAIN q = 1..Len(q) /\ 1 \in 1..Len(q) /\ Tail(q) \in Seq(Entry)
    OBVIOUS
  <2>2. r \in Seq(Entry)
    BY ReplaceFront
  <2>3. DOMAIN r = 1..Len(q) /\ r[1] = e /\ \A i \in 2..Len(q) : r[i] = q[i]
    BY <2>1
  <2> HIDE DEF r
  <2>4. Len(r) = Len(q) /\ r # <<>>
    BY <2>1, <2>2, <2>3
  <2>5. Tail(r) \in Seq(Entry) /\ Len(Tail(r)) = Len(q) - 1 /\ Len(Tail(q)) = Len(q) - 1
    BY <2>1, <2>2, <2>4
  <2>6. \A i \in 1..(Len(q) - 1) : Tail(r)[i] = Tail(q)[i]
    <3>1. \A i \in 1..(Len(q) - 1) : Tail(r)[i] = r[i + 1] /\ Tail(q)[i] = q[i + 1]
      BY <2>1, <2>2, <2>4
    <3> QED BY <2>1, <2>3, <3>1
  <2>7. Tail(r) = Tail(q)
    BY <2>1, <2>5, <2>6, SeqEqual
  <2> QED BY <2>1, <2>2, <2>3, <2>4, <2>7 DEF r
<1>3. PendingOf(q) = q[1].events \o PendingOf(Tail(q))
  BY <1>1
<1>4. PendingOf([q EXCEPT ![1] = e]) = e.events \o PendingOf(Tail(q))
  BY <1>1, <1>2
<1> QED BY <1>2, <1>3, <1>4

LEMMA Associative ==
  ASSUME NEW S, NEW a \in Seq(S), NEW b \in Seq(S), NEW c \in Seq(S)
  PROVE  /\ b \o c \in Seq(S)
         /\ (a \o b) \o c = a \o (b \o c)
BY ConcatAssociative, ConcatProperties

\* A sequence is what comes before a point and what comes after it.
LEMMA SplitAt ==
  ASSUME NEW S, NEW q \in Seq(S), NEW n \in 0..Len(q)
  PROVE  SubSeq(q, 1, n) \o SubSeq(q, n + 1, Len(q)) = q
<1> DEFINE first == SubSeq(q, 1, n)
           left  == SubSeq(q, n + 1, Len(q))
           all   == first \o left
<1>1. /\ first \in Seq(S) /\ left \in Seq(S) /\ Len(q) \in Nat
      /\ Len(first) = n /\ Len(left) = Len(q) - n
      /\ \A i \in 1..n : first[i] = q[i]
      /\ \A i \in 1..(Len(q) - n) : left[i] = q[n + i]
  OBVIOUS
<1> HIDE DEF first, left
<1>2. /\ all \in Seq(S) /\ Len(all) = Len(q)
      /\ \A i \in 1..Len(q) : all[i] = IF i <= n THEN first[i] ELSE left[i - n]
  <2>1. all \in Seq(S) /\ Len(all) = Len(first) + Len(left)
    BY <1>1, ConcatProperties
  <2>2. \A i \in 1..(Len(first) + Len(left)) :
          all[i] = IF i <= Len(first) THEN first[i] ELSE left[i - Len(first)]
    BY <1>1, ConcatProperties
  <2>3. Len(first) = n /\ Len(first) + Len(left) = Len(q)
    BY <1>1
  <2> HIDE DEF all
  <2> QED BY <2>1, <2>2, <2>3
<1> HIDE DEF all
<1>3. \A i \in 1..Len(q) : all[i] = q[i]
  BY <1>1, <1>2
<1>4. all = q
  BY <1>2, <1>3, SeqEqual
<1> QED BY <1>4 DEF all, first, left

\* What is left of a sequence without its first elements.
LEMMA WithoutFirst ==
  ASSUME NEW S, NEW a \in Seq(S), NEW b \in Seq(S), NEW n \in 0..Len(a)
  PROVE  SubSeq(a \o b, n + 1, Len(a \o b)) = SubSeq(a, n + 1, Len(a)) \o b
<1> DEFINE l == SubSeq(a \o b, n + 1, Len(a \o b))
           c == SubSeq(a, n + 1, Len(a))
           r == c \o b
<1>1. /\ a \o b \in Seq(S) /\ Len(a \o b) = Len(a) + Len(b) /\ Len(a) \in Nat /\ Len(b) \in Nat
      /\ \A i \in 1..(Len(a) + Len(b)) : (a \o b)[i] = IF i <= Len(a) THEN a[i] ELSE b[i - Len(a)]
  OBVIOUS
<1>2. /\ l \in Seq(S) /\ Len(l) = Len(a) + Len(b) - n
      /\ \A i \in 1..(Len(a) + Len(b) - n) : l[i] = (a \o b)[n + i]
  BY <1>1
<1>3. c \in Seq(S) /\ Len(c) = Len(a) - n /\ \A i \in 1..(Len(a) - n) : c[i] = a[n + i]
  BY <1>1
<1> HIDE DEF l, c
<1>4. /\ r \in Seq(S) /\ Len(r) = Len(a) + Len(b) - n
      /\ \A i \in 1..(Len(a) + Len(b) - n) : r[i] = IF i <= Len(a) - n THEN c[i] ELSE b[i - (Len(a) - n)]
  <2>1. r \in Seq(S) /\ Len(r) = Len(c) + Len(b)
    BY <1>3, ConcatProperties
  <2>2. \A i \in 1..(Len(c) + Len(b)) : r[i] = IF i <= Len(c) THEN c[i] ELSE b[i - Len(c)]
    BY <1>3
  <2>3. Len(c) = Len(a) - n /\ Len(c) + Len(b) = Len(a) + Len(b) - n
    BY <1>1, <1>3
  <2> QED BY <2>1, <2>2, <2>3
<1>5. \A i \in 1..Len(l) : l[i] = r[i]
  BY <1>1, <1>2, <1>3, <1>4
<1>6. l = r
  <2> HIDE DEF r
  <2> QED BY <1>2, <1>4, <1>5, SeqEqual
<1> QED BY <1>6 DEF l, c
-----------------------------------------------------------------------------
(***************************************************************************)
(* What the steps that touch the pending queue do to its events.           *)
(***************************************************************************)

LEMMA AllPendingType ==
  ASSUME QueuesOK
  PROVE  /\ mPendingWriteEventsQueue \in Seq(Entry)
         /\ AllPending = PendingOf(mPendingWriteEventsQueue)
         /\ AllPending \in Seq(Event) /\ Len(AllPending) \in Nat
<1>1. mPendingWriteEventsQueue \in Seq(Entry)
  BY DEF QueuesOK, Entry
<1>2. AllPending = PendingOf(mPendingWriteEventsQueue)
  BY DEF AllPending, PendingOf, EventsOf
<1>3. AllPending \in Seq(Event)
  BY <1>1, <1>2, PendingType
<1> QED BY <1>1, <1>2, <1>3

\* The step of a posting thread: the events of its batch, corrected, go to the
\* event FMQ and what is left over to the end of the pending queue or nowhere.
LEMMA PostWriteEffect ==
  ASSUME TypeOK, NEW s \in SubHals, PostWrite(s)
  PROVE  \E dropped \in SUBSET {i \in DOMAIN batch[s] : batch[s][i].handle \in WiseLight},
            num \in Nat, left \in Seq(Event) :
           LET events == AlsProcessed(batch[s], dropped)
           IN  /\ events \in Seq(Event) /\ Len(events) = Len(batch[s])
               /\ num \in 0..Len(events) /\ (num # 0 => mPendingWriteEventsQueue = <<>>)
               /\ left = SubSeq(events, num + 1, Len(events))
               /\ mEventQueue' = mEventQueue \o SubSeq(events, 1, num)
               /\ \/ /\ AllPending' = AllPending \o left
                     /\ mSizePendingWriteEventsQueue' = mSizePendingWriteEventsQueue + Len(left)
                     /\ mSizePendingWriteEventsQueue' <= kMaxSizePendingWriteEventsQueue
                     /\ pwPc' = Notified(pwPc)
                  \/ UNCHANGED <<queueVars, pwPc>> /\ (left = <<>> \/ ~undisturbed')
               /\ undisturbed' => undisturbed /\ \A i \in dropped : batch[s][i].handle \notin WakeUp
<1>1. PICK dropped \in SUBSET {i \in DOMAIN batch[s] : batch[s][i].handle \in WiseLight} :
        LET events == AlsProcessed(batch[s], dropped)
            num    == FitsNow(events)
            left   == SubSeq(events, num + 1, Len(events))
            keep   == left # <<>> /\ HasRoom(left)
        IN  /\ mEventQueue' = mEventQueue \o SubSeq(events, 1, num)
            /\ IF keep
               THEN /\ mPendingWriteEventsQueue' = Append(mPendingWriteEventsQueue,
                         [events |-> left, numWakeupEvents |-> numWakeup[s]])
                    /\ mSizePendingWriteEventsQueue' =
                         mSizePendingWriteEventsQueue + Len(left)
                    /\ pwPc' = Notified(pwPc)
               ELSE UNCHANGED <<queueVars, pwPc>>
            /\ undisturbed' = (/\ undisturbed
                               /\ left # <<>> => keep
                               /\ \A i \in dropped : batch[s][i].handle \notin WakeUp)
  BY DEF PostWrite
<1> DEFINE events == AlsProcessed(batch[s], dropped)
           num    == FitsNow(events)
           left   == SubSeq(events, num + 1, Len(events))
           entry  == [events |-> left, numWakeupEvents |-> numWakeup[s]]
<1>2. events \in Seq(Event) /\ Len(events) = Len(batch[s])
  BY AlsProcessedType DEF TypeOK, PostersOK
<1>3. num \in 0..Len(events) /\ num \in Nat /\ (num # 0 => mPendingWriteEventsQueue = <<>>)
  BY <1>2, FitsNowType DEF TypeOK, FitsNow
<1>4. left \in Seq(Event)
  BY <1>2, <1>3
<1>5. mEventQueue' = mEventQueue \o SubSeq(events, 1, num)
  BY <1>1
<1>6. undisturbed' => undisturbed /\ \A i \in dropped : batch[s][i].handle \notin WakeUp
  BY <1>1
<1>7. CASE left # <<>> /\ HasRoom(left)
  <2>1. /\ mPendingWriteEventsQueue' = Append(mPendingWriteEventsQueue, entry)
        /\ mSizePendingWriteEventsQueue' = mSizePendingWriteEventsQueue + Len(left)
        /\ pwPc' = Notified(pwPc)
    BY <1>1, <1>7
  <2>2. mSizePendingWriteEventsQueue' <= kMaxSizePendingWriteEventsQueue
    BY <1>7, <2>1 DEF HasRoom
  <2>3. entry \in Entry /\ entry.events = left
    BY <1>4 DEF Entry, TypeOK, PostersOK
  <2>4. AllPending' = PendingOf(mPendingWriteEventsQueue')
    BY DEF AllPending, PendingOf, EventsOf
  <2> HIDE DEF events, num, left, entry
  <2>5. AllPending' = AllPending \o left
    <3>1. QueuesOK
      BY DEF TypeOK
    <3> QED BY <2>1, <2>3, <2>4, <3>1, PendingAppend, AllPendingType
  <2> QED BY <1>2, <1>3, <1>4, <1>5, <1>6, <2>1, <2>2, <2>5 DEF events, num, left
<1>8. CASE ~(left # <<>> /\ HasRoom(left))
  <2>1. UNCHANGED <<queueVars, pwPc>> /\ (left = <<>> \/ ~undisturbed')
    BY <1>1, <1>8
  <2> QED BY <1>2, <1>3, <1>4, <1>5, <1>6, <2>1
<1> QED BY <1>7, <1>8

\* The front of the pending queue while the pending writes thread is using it.
LEMMA FrontOfPending ==
  ASSUME FrontInv, pwPc \in {"writing", "unref", "dropped", "relock"}
  PROVE  LET front == mPendingWriteEventsQueue[1].events
             rest  == PendingOf(Tail(mPendingWriteEventsQueue))
         IN  /\ mPendingWriteEventsQueue # <<>> /\ mPendingWriteEventsQueue[1] \in Entry
             /\ front \in Seq(Event) /\ rest \in Seq(Event)
             /\ AllPending = front \o rest
             /\ numToWrite = Lesser(Len(front), QueueSize) /\ numToWrite \in 0..Len(front)
<1> DEFINE q == mPendingWriteEventsQueue
           e == q[1]
<1>1. q # <<>> /\ numToWrite = Lesser(Len(e.events), QueueSize)
  BY DEF FrontInv, FrontStable
<1>2. q \in Seq(Entry) /\ AllPending = PendingOf(q)
  BY AllPendingType DEF FrontInv, TypeOK
<1> HIDE DEF q
<1>3. e \in Entry /\ Tail(q) \in Seq(Entry)
  <2> HIDE DEF Entry
  <2> QED BY <1>1, <1>2, FrontOfQueue
<1>4. e.events \in Seq(Event)
  BY <1>3 DEF Entry
<1>5. AllPending = e.events \o PendingOf(Tail(q))
  BY <1>1, <1>2, <1>3, PendingFront
<1>6. PendingOf(Tail(q)) \in Seq(Event)
  BY <1>3, PendingType
<1>7. numToWrite \in 0..Len(e.events)
  BY <1>1, <1>4, ConstantsAssumption DEF Lesser
<1> QED BY <1>1, <1>3, <1>4, <1>5, <1>6, <1>7 DEF q

\* Back under the mutex it forgets the first numToWrite events.
LEMMA PwRelockEffect ==
  ASSUME FrontInv, PwRelock
  PROVE  /\ numToWrite \in 0..Len(AllPending)
         /\ AllPending' = SubSeq(AllPending, numToWrite + 1, Len(AllPending))
<1> DEFINE q     == mPendingWriteEventsQueue
           front == q[1].events
           rest  == PendingOf(Tail(q))
           short == [q[1] EXCEPT !.events = SubSeq(front, QueueSize + 1, Len(front))]
<1>1. pwPc \in {"dropped", "relock"}
  BY DEF PwRelock
<1>2. /\ q # <<>> /\ q[1] \in Entry /\ front \in Seq(Event) /\ rest \in Seq(Event)
      /\ AllPending = front \o rest
      /\ numToWrite = Lesser(Len(front), QueueSize) /\ numToWrite \in 0..Len(front)
  BY <1>1, FrontOfPending
<1>3. q \in Seq(Entry)
  BY AllPendingType DEF FrontInv, TypeOK
<1>4. AllPending' = PendingOf(q')
  BY DEF AllPending, PendingOf, EventsOf
<1>5. SubSeq(AllPending, numToWrite + 1, Len(AllPending))
        = SubSeq(front, numToWrite + 1, Len(front)) \o rest
  <2> HIDE DEF front, rest
  <2> QED BY <1>2, WithoutFirst
<1>8. numToWrite \in 0..Len(AllPending)
  <2> HIDE DEF front, rest
  <2> QED BY <1>2
<1>6. CASE Len(front) > QueueSize
  <2>1. numToWrite = QueueSize
    BY <1>2, <1>6, ConstantsAssumption DEF Lesser
  <2>2. q' = [q EXCEPT ![1] = short]
    <3>1. q' = [q EXCEPT ![1].events = SubSeq(front, QueueSize + 1, Len(front))]
      BY <1>6 DEF PwRelock
    <3> QED BY <3>1
  <2>3. short \in Entry /\ short.events = SubSeq(front, QueueSize + 1, Len(front))
    <3>1. SubSeq(front, QueueSize + 1, Len(front)) \in Seq(Event)
      BY <1>2, <1>6, ConstantsAssumption
    <3> QED BY <1>2, <3>1 DEF Entry
  <2>4. PendingOf(q') = SubSeq(front, QueueSize + 1, Len(front)) \o rest
    <3>1. PendingOf([q EXCEPT ![1] = short]) = short.events \o PendingOf(Tail(q))
      <4> HIDE DEF short, q
      <4> QED BY <1>2, <1>3, <2>3, PendingFront
    <3> QED BY <2>2, <2>3, <3>1
  <2> HIDE DEF front, rest, short, q
  <2>5. SubSeq(AllPending, numToWrite + 1, Len(AllPending))
          = SubSeq(front, QueueSize + 1, Len(front)) \o rest
    BY <1>5, <2>1
  <2> QED BY <1>4, <1>8, <2>4, <2>5
<1>7. CASE ~(Len(front) > QueueSize)
  <2>1. numToWrite = Len(front)
    BY <1>2, <1>7, ConstantsAssumption DEF Lesser
  <2>2. q' = Tail(q)
    BY <1>7 DEF PwRelock
  <2>3. SubSeq(front, numToWrite + 1, Len(front)) \o rest = rest
    <3> HIDE DEF front, rest
    <3>1. SubSeq(front, numToWrite + 1, Len(front)) = <<>>
      BY <1>2, <2>1
    <3>2. <<>> \o rest = rest
      BY <1>2
    <3> QED BY <3>1, <3>2
  <2> QED BY <1>4, <1>5, <1>8, <2>2, <2>3
<1> QED BY <1>6, <1>7

\* Nothing else changes the pending queue.
LEMMA PendingSteps ==
  ASSUME [Next]_vars
  PROVE  \/ UNCHANGED queueVars
         \/ \E s \in SubHals : PostWrite(s)
         \/ PwRelock \/ InitClear
<1> USE DEF queueVars
<1>1. ASSUME NEW s \in SubHals, Poster(s)
      PROVE  UNCHANGED queueVars \/ PostWrite(s)
  BY <1>1 DEF Poster, CreateScopedWakelock, Acquire, PostEvents, PostLock, PostCount,
              ReleaseScopedWakelock, Unref
<1>2. CASE handlePendingWrites
  BY <1>2 DEF handlePendingWrites, PwLock, PwTest, PwPark, PwSpuriousWakeup, PwWrite,
              PwWriteTimeout, PwUnref
<1>3. CASE handleWakelocks
  BY <1>3 DEF handleWakelocks, WlLock, WlTest, WlPark, WlSpuriousWakeup, WlRead,
              WlReadTimeout, WlRelock
<1>4. CASE initializeCommon
  BY <1>4 DEF initializeCommon, InitStop, InitDrain, InitKick, InitNotifyWl, InitNotifyPw,
              InitJoin, InitReset, InitDisable, InitStart, InitSubHals
<1>5. CASE \/ \E s \in SubHals, enabled \in BOOLEAN : Activate(s, enabled)
           \/ Expire \/ FrameworkRead \/ FrameworkAck \/ UNCHANGED vars
  BY <1>5 DEF Activate, Expire, FrameworkRead, FrameworkAck, vars
<1> QED BY <1>1, <1>2, <1>3, <1>4, <1>5 DEF Next
-----------------------------------------------------------------------------
LEMMA PendingSizeNext ==
  ASSUME FrontInv, PendingSizeExact, [Next]_vars
  PROVE  PendingSizeExact'
<1>0. /\ AllPending \in Seq(Event) /\ Len(AllPending) \in Nat
      /\ mSizePendingWriteEventsQueue = Len(AllPending)
      /\ mSizePendingWriteEventsQueue <= kMaxSizePendingWriteEventsQueue
      /\ kMaxSizePendingWriteEventsQueue \in Nat
  BY AllPendingType, ConstantsAssumption DEF FrontInv, TypeOK, PendingSizeExact
<1>1. CASE UNCHANGED queueVars
  BY <1>0, <1>1 DEF queueVars, PendingSizeExact, AllPending
<1>2. ASSUME NEW s \in SubHals, PostWrite(s)
      PROVE  PendingSizeExact'
  <2>1. \/ UNCHANGED queueVars
        \/ \E left \in Seq(Event) :
             /\ AllPending' = AllPending \o left
             /\ mSizePendingWriteEventsQueue' = mSizePendingWriteEventsQueue + Len(left)
             /\ mSizePendingWriteEventsQueue' <= kMaxSizePendingWriteEventsQueue
    BY <1>2, PostWriteEffect DEF FrontInv
  <2>2. ASSUME NEW left \in Seq(Event), AllPending' = AllPending \o left
        PROVE  Len(AllPending') = Len(AllPending) + Len(left)
    BY <1>0, <2>2, Concatenation
  <2> QED BY <1>0, <1>1, <2>1, <2>2 DEF PendingSizeExact
<1>3. CASE PwRelock
  <2>1. /\ numToWrite \in 0..Len(AllPending)
        /\ AllPending' = SubSeq(AllPending, numToWrite + 1, Len(AllPending))
    BY <1>3, PwRelockEffect
  <2>2. Len(AllPending') = Len(AllPending) - numToWrite
    BY <1>0, <2>1
  <2>3. mSizePendingWriteEventsQueue' = mSizePendingWriteEventsQueue - numToWrite
    BY <1>3 DEF PwRelock
  <2> QED BY <1>0, <2>1, <2>2, <2>3 DEF PendingSizeExact
<1>4. CASE InitClear
  <2>1. mPendingWriteEventsQueue' = <<>> /\ mSizePendingWriteEventsQueue' = 0
    BY <1>4 DEF InitClear
  <2>2. AllPending' = <<>>
    BY <2>1 DEF AllPending, FlattenSeq
  <2> QED BY <1>0, <2>1, <2>2 DEF PendingSizeExact
<1> QED BY <1>1, <1>2, <1>3, <1>4, PendingSteps

\* mSizePendingWriteEventsQueue is the number of pending events, and within the
\* limit, in every behaviour: with batches longer than the event FMQ that are
\* written piece by piece, write timeouts, restarts, and sub-HALs that go on
\* posting across a restart.
THEOREM PendingSizeAlwaysExact == Spec => []PendingSizeExact
<1>1. Init => PendingSizeExact
  BY ConstantsAssumption DEF Init, PendingSizeExact, AllPending, FlattenSeq
<1>2. FrontInv /\ PendingSizeExact /\ [Next]_vars => PendingSizeExact'
  BY PendingSizeNext
<1> QED BY <1>1, <1>2, FrontInvInit, FrontInvNext, PTL DEF Spec
-----------------------------------------------------------------------------
(***************************************************************************)
(* The refinement.  What a poster has generated and not yet posted are the *)
(* last events it has generated, numbered in order.                        *)
(***************************************************************************)

Unposted == {"acquire", "post", "enter", "count", "write"}

BatchNumbered ==
  \A s \in SubHals :
    /\ generated[s] <= MaxEvents
    /\ pc[s] \in Unposted =>
         /\ Len(batch[s]) <= generated[s]
         /\ \A i \in 1..Len(batch[s]) :
              batch[s][i].src = s /\ batch[s][i].id = generated[s] - Len(batch[s]) + i

LEMMA BatchNumberedNext ==
  ASSUME TypeOK, BatchNumbered, [Next]_vars
  PROVE  BatchNumbered'
<1> DEFINE Numbered(p, b, g, s) ==
             /\ g <= MaxEvents
             /\ p \in Unposted =>
                  /\ Len(b) <= g
                  /\ \A i \in 1..Len(b) : b[i].src = s /\ b[i].id = g - Len(b) + i
<1>0. ASSUME \A t \in SubHals : Numbered(pc'[t], batch'[t], generated'[t], t)
      PROVE  BatchNumbered'
  BY <1>0 DEF BatchNumbered
<1>a. \A t \in SubHals : Numbered(pc[t], batch[t], generated[t], t)
  BY DEF BatchNumbered
<1>1. CASE UNCHANGED <<pc, batch, numWakeup, locked, generated>>
  BY <1>0, <1>1, <1>a
<1>2. ASSUME NEW s \in SubHals, Poster(s)
      PROVE  BatchNumbered'
  <2>1. ASSUME NEW t \in SubHals, t # s
        PROVE  Numbered(pc'[t], batch'[t], generated'[t], t)
    <3>1. pc'[t] = pc[t] /\ batch'[t] = batch[t] /\ generated'[t] = generated[t]
      BY <1>2, <2>1 DEF TypeOK, PostersOK, Poster, CreateScopedWakelock, Acquire, PostEvents,
                  PostLock, PostCount, PostWrite, ReleaseScopedWakelock, Unref, postVars
    <3> QED BY <1>a, <3>1
  <2>2. CASE CreateScopedWakelock(s)
    <3>1. PICK b \in Batches :
            /\ generated[s] + Len(b) <= MaxEvents
            /\ batch' = [batch EXCEPT ![s] =
                 [i \in 1..Len(b) |-> [src |-> s, id |-> generated[s] + i, handle |-> b[i]]]]
            /\ generated' = [generated EXCEPT ![s] = @ + Len(b)]
      BY <2>2 DEF CreateScopedWakelock
    <3> DEFINE new == [i \in 1..Len(b) |-> [src |-> s, id |-> generated[s] + i, handle |-> b[i]]]
    <3>2. batch'[s] = new /\ generated'[s] = generated[s] + Len(b)
          /\ Len(b) \in Nat /\ generated[s] \in Nat
      BY <3>1, ConstantsAssumption DEF TypeOK, PostersOK
    <3>3. /\ Len(new) = Len(b)
          /\ \A i \in 1..Len(b) : new[i].src = s /\ new[i].id = generated[s] + i
      BY <3>2
    <3> HIDE DEF new
    <3>4. Numbered(pc'[s], batch'[s], generated'[s], s)
      BY <3>1, <3>2, <3>3
    <3> HIDE DEF Numbered
    <3> QED BY <1>0, <2>1, <3>4
  <2>3. CASE ~CreateScopedWakelock(s)
    <3>1. /\ generated'[s] = generated[s]
          /\ pc'[s] \in Unposted => pc[s] \in Unposted /\ batch'[s] = batch[s]
      BY <1>2, <2>3 DEF TypeOK, PostersOK, Poster, Acquire, PostEvents, PostLock,
                  PostCount, PostWrite, ReleaseScopedWakelock, Unref, Unposted
    <3>2. Numbered(pc'[s], batch'[s], generated'[s], s)
      BY <1>a, <3>1
    <3> HIDE DEF Numbered
    <3> QED BY <1>0, <2>1, <3>2
  <2> QED BY <2>2, <2>3
<1> QED BY <1>1, <1>2, OthersLeavePosters DEF Next

\* What of the events the channel of SensorEventChannel knows.
Msg(q) == [i \in DOMAIN q |-> [src |-> q[i].src, id |-> q[i].id]]

LEMMA MsgType ==
  ASSUME NEW q \in Seq(Event)
  PROVE  /\ Msg(q) \in Seq([src : SubHals, id : Nat]) /\ Len(Msg(q)) = Len(q)
         /\ \A i \in 1..Len(q) : Msg(q)[i] = [src |-> q[i].src, id |-> q[i].id]
<1>1. Len(q) \in Nat /\ DOMAIN q = 1..Len(q)
  OBVIOUS
<1>2. \A i \in 1..Len(q) : [src |-> q[i].src, id |-> q[i].id] \in [src : SubHals, id : Nat]
  <2>1. \A i \in 1..Len(q) : q[i] \in Event
    <3> HIDE DEF Event
    <3> QED BY <1>1
  <2> QED BY <2>1 DEF Event
<1>3. Msg(q) \in [1..Len(q) -> [src : SubHals, id : Nat]]
  BY <1>1, <1>2 DEF Msg
<1>4. Msg(q) \in Seq([src : SubHals, id : Nat])
  <2> DEFINE M == [src : SubHals, id : Nat]
  <2>1. Msg(q) \in [1..Len(q) -> M]
    BY <1>3
  <2> HIDE DEF M
  <2>2. Msg(q) \in Seq(M)
    BY <1>1, <2>1
  <2> QED BY <2>2 DEF M
<1> QED BY <1>1, <1>3, <1>4 DEF Msg

LEMMA MsgOfConcat ==
  ASSUME NEW a \in Seq(Event), NEW b \in Seq(Event)
  PROVE  Msg(a \o b) = Msg(a) \o Msg(b)
<1> DEFINE M == [src : SubHals, id : Nat]
           c == a \o b
           A == Msg(a)
           B == Msg(b)
           C == Msg(c)
           D == A \o B
<1>1. /\ c \in Seq(Event) /\ Len(c) = Len(a) + Len(b) /\ Len(a) \in Nat /\ Len(b) \in Nat
      /\ \A i \in 1..Len(c) : c[i] = IF i <= Len(a) THEN a[i] ELSE b[i - Len(a)]
  OBVIOUS
<1> HIDE DEF c
<1>2. /\ A \in Seq(M) /\ Len(A) = Len(a)
      /\ \A i \in 1..Len(a) : A[i] = [src |-> a[i].src, id |-> a[i].id]
      /\ B \in Seq(M) /\ Len(B) = Len(b)
      /\ \A i \in 1..Len(b) : B[i] = [src |-> b[i].src, id |-> b[i].id]
      /\ C \in Seq(M) /\ Len(C) = Len(c)
      /\ \A i \in 1..Len(c) : C[i] = [src |-> c[i].src, id |-> c[i].id]
  BY <1>1, MsgType
<1> HIDE DEF A, B, C, M
<1>3. /\ D \in Seq(M) /\ Len(D) = Len(a) + Len(b)
      /\ \A i \in 1..(Len(a) + Len(b)) : D[i] = IF i <= Len(a) THEN A[i] ELSE B[i - Len(a)]
  <2>1. Len(A) \in Nat /\ Len(B) \in Nat /\ D \in Seq(M) /\ Len(D) = Len(A) + Len(B)
    BY <1>1, <1>2, ConcatProperties
  <2>2. \A i \in 1..(Len(A) + Len(B)) : D[i] = IF i <= Len(A) THEN A[i] ELSE B[i - Len(A)]
    BY <1>2, ConcatProperties
  <2> HIDE DEF D
  <2> QED BY <1>2, <2>1, <2>2
<1> HIDE DEF D
<1>4. ASSUME NEW i \in 1..Len(c)
      PROVE  C[i] = D[i]
  <2>1. CASE i <= Len(a)
    <3>1. i \in 1..Len(a) /\ c[i] = a[i] /\ D[i] = A[i]
      BY <1>1, <1>3, <2>1
    <3> QED BY <1>2, <3>1
  <2>2. CASE ~(i <= Len(a))
    <3>1. i - Len(a) \in 1..Len(b) /\ c[i] = b[i - Len(a)] /\ D[i] = B[i - Len(a)]
      BY <1>1, <1>3, <2>2
    <3> QED BY <1>2, <3>1
  <2> QED BY <2>1, <2>2
<1>5. C = D
  BY <1>1, <1>2, <1>3, <1>4, SeqEqual
<1> QED BY <1>5 DEF A, B, C, D, c

\* What a loss in the middle leaves.
LEMMA MiddleLost ==
  ASSUME NEW S, NEW a \in Seq(S), NEW b \in Seq(S), NEW c \in Seq(S)
  PROVE  LET all == a \o (b \o c)
         IN  /\ SubSeq(all, 1, Len(a)) = a
             /\ SubSeq(all, Len(a) + Len(b) + 1, Len(all)) = c
             /\ Len(all) = Len(a) + Len(b) + Len(c)
<1> DEFINE d   == b \o c
           all == a \o d
           f   == SubSeq(all, 1, Len(a))
           g   == SubSeq(all, Len(a) + Len(b) + 1, Len(all))
<1>1. /\ d \in Seq(S) /\ Len(d) = Len(b) + Len(c)
      /\ Len(a) \in Nat /\ Len(b) \in Nat /\ Len(c) \in Nat
      /\ \A i \in 1..Len(c) : d[Len(b) + i] = c[i]
  OBVIOUS
<1> HIDE DEF d
<1>2. /\ all \in Seq(S) /\ Len(all) = Len(a) + Len(d)
      /\ \A i \in 1..Len(a) : all[i] = a[i]
      /\ \A i \in 1..Len(d) : all[Len(a) + i] = d[i]
  <2>1. all \in Seq(S) /\ Len(all) = Len(a) + Len(d)
    BY <1>1, ConcatProperties
  <2>2. \A i \in 1..(Len(a) + Len(d)) : all[i] = IF i <= Len(a) THEN a[i] ELSE d[i - Len(a)]
    BY <1>1, ConcatProperties
  <2> HIDE DEF all
  <2>3. Len(a) \in Nat /\ Len(d) \in Nat
    BY <1>1
  <2>4. \A i \in 1..Len(a) : all[i] = a[i]
    BY <2>2, <2>3
  <2>5. ASSUME NEW i \in 1..Len(d) PROVE all[Len(a) + i] = d[i]
    <3>1. /\ Len(a) + i \in 1..(Len(a) + Len(d)) /\ ~(Len(a) + i <= Len(a))
          /\ (Len(a) + i) - Len(a) = i
      BY <2>3
    <3> QED BY <2>2, <3>1
  <2> QED BY <2>1, <2>4, <2>5
<1> HIDE DEF all
<1>3. /\ f \in Seq(S) /\ Len(f) = Len(a) /\ \A i \in 1..Len(a) : f[i] = a[i]
  BY <1>1, <1>2
<1>4. /\ g \in Seq(S) /\ Len(g) = Len(c)
      /\ \A i \in 1..Len(c) : g[i] = all[Len(a) + Len(b) + i]
  BY <1>1, <1>2
<1>5. \A i \in 1..Len(c) : g[i] = c[i]
  <2> SUFFICES ASSUME NEW i \in 1..Len(c) PROVE g[i] = c[i]
    OBVIOUS
  <2>1. Len(b) + i \in 1..Len(d) /\ Len(a) + Len(b) + i = Len(a) + (Len(b) + i)
    BY <1>1
  <2>2. all[Len(a) + (Len(b) + i)] = d[Len(b) + i]
    BY <1>2, <2>1
  <2> QED BY <1>1, <1>4, <2>1, <2>2
<1> HIDE DEF f, g
<1>6. f = a /\ g = c
  BY <1>3, <1>4, <1>5, SeqEqual
<1>7. Len(all) = Len(a) + Len(b) + Len(c)
  BY <1>1, <1>2
<1> QED BY <1>6, <1>7 DEF f, g, all, d
-----------------------------------------------------------------------------
(* The events in flight, step by step.                                     *)

LEMMA DoneInPending ==
  ASSUME FrontInv
  PROVE  /\ Done \in 0..Len(AllPending) /\ Done \in Nat
         /\ AllPending \in Seq(Event) /\ PendingEvents \in Seq(Event)
         /\ mEventQueue \in Seq(Event) /\ InFlight \in Seq(Event)
         /\ Done = 0 => PendingEvents = AllPending
<1>1. AllPending \in Seq(Event) /\ mEventQueue \in Seq(Event)
  BY AllPendingType DEF FrontInv, TypeOK, QueuesOK
<1>2. Done \in 0..Len(AllPending)
  <2>1. CASE pwPc \in {"unref", "dropped", "relock"}
    <3> DEFINE front == mPendingWriteEventsQueue[1].events
               rest  == PendingOf(Tail(mPendingWriteEventsQueue))
    <3>1. /\ front \in Seq(Event) /\ rest \in Seq(Event) /\ AllPending = front \o rest
          /\ numToWrite \in 0..Len(front)
      BY <2>1, FrontOfPending
    <3> HIDE DEF front, rest
    <3> QED BY <2>1, <3>1 DEF Done
  <2>2. CASE pwPc \notin {"unref", "dropped", "relock"}
    BY <1>1, <2>2 DEF Done
  <2> QED BY <2>1, <2>2
<1>3. PendingEvents \in Seq(Event)
  BY <1>1, <1>2 DEF PendingEvents
<1>4. InFlight \in Seq(Event)
  BY <1>1, <1>3, Concatenation DEF InFlight
<1>5. Done = 0 => PendingEvents = AllPending
  BY <1>1, SubSeqFull DEF PendingEvents
<1> QED BY <1>1, <1>2, <1>3, <1>4, <1>5

\* A step that leaves both queues alone and does not finish with the front.
LEMMA FlightUnchanged ==
  ASSUME UNCHANGED <<mEventQueue, mPendingWriteEventsQueue>>, Done' = Done
  PROVE  InFlight' = InFlight /\ PendingEvents' = PendingEvents
BY DEF InFlight, PendingEvents, AllPending

\* The correction of a batch gives a wake-up event for a wake-up event.
SameWakeups(events, b) ==
  \A i \in 1..Len(events) : events[i].handle \in WakeUp <=> b[i].handle \in WakeUp

\* A post adds the first events of the batch, corrected; all of them, and with
\* the same wake-up events, as long as nothing is lost.
LEMMA FlightPost ==
  ASSUME FrontInv, NEW s \in SubHals, PostWrite(s)
  PROVE  \E events \in Seq(Event), k \in 0..Len(batch[s]) :
           /\ Len(events) = Len(batch[s])
           /\ \A i \in 1..Len(events) :
                events[i].src = batch[s][i].src /\ events[i].id = batch[s][i].id
           /\ InFlight' = InFlight \o SubSeq(events, 1, k)
           /\ ZeroHandle \notin WakeUp /\ undisturbed' =>
                /\ undisturbed /\ k = Len(batch[s])
                /\ SameWakeups(events, batch[s])
<1>0. TypeOK
  BY DEF FrontInv
<1>1. PICK dropped \in SUBSET {i \in DOMAIN batch[s] : batch[s][i].handle \in WiseLight},
            num \in Nat, left \in Seq(Event) :
           LET events == AlsProcessed(batch[s], dropped)
           IN  /\ events \in Seq(Event) /\ Len(events) = Len(batch[s])
               /\ num \in 0..Len(events) /\ (num # 0 => mPendingWriteEventsQueue = <<>>)
               /\ left = SubSeq(events, num + 1, Len(events))
               /\ mEventQueue' = mEventQueue \o SubSeq(events, 1, num)
               /\ \/ /\ AllPending' = AllPending \o left
                     /\ pwPc' = Notified(pwPc)
                  \/ UNCHANGED <<queueVars, pwPc>> /\ (left = <<>> \/ ~undisturbed')
               /\ undisturbed' => undisturbed /\ \A i \in dropped : batch[s][i].handle \notin WakeUp
  BY <1>0, PostWriteEffect
<1> DEFINE events == AlsProcessed(batch[s], dropped)
           first  == SubSeq(events, 1, num)
<1>a. /\ \A i \in 1..Len(events) :
           events[i].src = batch[s][i].src /\ events[i].id = batch[s][i].id
      /\ ZeroHandle \notin WakeUp /\ undisturbed' =>
           undisturbed /\ SameWakeups(events, batch[s])
  <2>1. batch[s] \in Seq(Event) /\ DOMAIN batch[s] = 1..Len(batch[s])
    BY <1>0 DEF TypeOK, PostersOK
  <2>2. \A i \in 1..Len(batch[s]) : batch[s][i] \in Event
    <3> HIDE DEF Event
    <3> QED BY <2>1
  <2>3. \A i \in 1..Len(batch[s]) :
          events[i] = IF i \in dropped THEN [batch[s][i] EXCEPT !.handle = ZeroHandle]
                                       ELSE batch[s][i]
    BY <2>1 DEF AlsProcessed
  <2>4. Len(events) = Len(batch[s])
    BY <1>1
  <2>5. undisturbed' => undisturbed /\ \A i \in dropped : batch[s][i].handle \notin WakeUp
    BY <1>1
  <2> HIDE DEF events
  <2>6. ASSUME NEW i \in 1..Len(events)
        PROVE  /\ events[i].src = batch[s][i].src /\ events[i].id = batch[s][i].id
               /\ events[i].handle = IF i \in dropped THEN ZeroHandle ELSE batch[s][i].handle
    BY <2>2, <2>3, <2>4 DEF Event
  <2> QED BY <2>5, <2>6 DEF SameWakeups
<1> HIDE DEF events
<1>2. /\ events \in Seq(Event) /\ Len(events) = Len(batch[s]) /\ Len(events) \in Nat
      /\ num \in 0..Len(events)
      /\ left = SubSeq(events, num + 1, Len(events))
      /\ mEventQueue' = mEventQueue \o first
      /\ first \in Seq(Event)
  BY <1>1 DEF events
<1>b. ASSUME NEW k \in 0..Len(batch[s]), InFlight' = InFlight \o SubSeq(events, 1, k),
             undisturbed' => k = Len(batch[s])
      PROVE  \E evs \in Seq(Event), j \in 0..Len(batch[s]) :
               /\ Len(evs) = Len(batch[s])
               /\ \A i \in 1..Len(evs) :
                    evs[i].src = batch[s][i].src /\ evs[i].id = batch[s][i].id
               /\ InFlight' = InFlight \o SubSeq(evs, 1, j)
               /\ ZeroHandle \notin WakeUp /\ undisturbed' =>
                    /\ undisturbed /\ j = Len(batch[s])
                    /\ SameWakeups(evs, batch[s])
  BY <1>2, <1>a, <1>b
<1>3. first \o left = events /\ (num = 0 => first = <<>> /\ left = events)
      /\ SubSeq(events, 1, Len(events)) = events
  <2>1. SubSeq(events, 1, Len(events)) = events
    BY <1>2, SubSeqFull
  <2>2. num = 0 => first = <<>> /\ left = events
    BY <1>2, <2>1
  <2>3. CASE num = 0
    <3>1. <<>> \o events = events
      BY <1>2
    <3> QED BY <2>1, <2>2, <2>3, <3>1
  <2>4. CASE num # 0
    <3>1. first \o left = events
      BY <1>2, SplitAt
    <3> QED BY <2>1, <2>2, <3>1
  <2> QED BY <2>3, <2>4
<1>c. Len(events) \in 0..Len(batch[s]) /\ SubSeq(events, 1, Len(events)) = events
  <2>1. Len(events) \in 0..Len(batch[s])
    BY <1>2
  <2>2. SubSeq(events, 1, Len(events)) = events
    BY <1>3
  <2> QED BY <2>1, <2>2
<1>4. /\ AllPending \in Seq(Event) /\ PendingEvents \in Seq(Event)
      /\ mEventQueue \in Seq(Event) /\ Done \in 0..Len(AllPending)
  BY DoneInPending
<1>5. num # 0 => PendingEvents = <<>>
  <2> SUFFICES ASSUME num # 0 PROVE PendingEvents = <<>>
    OBVIOUS
  <2>1. mPendingWriteEventsQueue = <<>>
    BY <1>1
  <2>2. AllPending = <<>>
    BY <2>1 DEF AllPending, FlattenSeq
  <2>3. Done = 0
    BY <1>4, <2>2
  <2> QED BY <2>2, <2>3 DEF PendingEvents
<1>6. Done' = Done
  <2>1. numToWrite' = numToWrite
    BY DEF PostWrite
  <2>2. pwPc' = pwPc \/ (pwPc = "parked" /\ pwPc' = "lock")
    BY <1>1 DEF Notified
  <2> QED BY <2>1, <2>2 DEF Done
<1> HIDE DEF first
<1>7. CASE AllPending' = AllPending \o left
  <2>1. PendingEvents' = PendingEvents \o left
    BY <1>4, <1>6, <1>7, WithoutFirst DEF PendingEvents
  <2>2. InFlight' = (mEventQueue \o first) \o (PendingEvents \o left)
    BY <1>2, <2>1 DEF InFlight
  <2>3. CASE num = 0
    <3>1. InFlight' = mEventQueue \o (PendingEvents \o events)
      <4>1. mEventQueue \o <<>> = mEventQueue
        BY <1>4
      <4> QED BY <1>3, <2>2, <2>3, <4>1
    <3>2. mEventQueue \o (PendingEvents \o events) = (mEventQueue \o PendingEvents) \o events
      <4>1. events \in Seq(Event) /\ PendingEvents \in Seq(Event) /\ mEventQueue \in Seq(Event)
        BY <1>2, <1>4
      <4> QED BY <4>1, ConcatAssociative
    <3>3. InFlight' = InFlight \o events
      BY <3>1, <3>2 DEF InFlight
    <3>4. Len(events) \in 0..Len(batch[s]) /\ InFlight' = InFlight \o SubSeq(events, 1, Len(events))
      BY <1>c, <3>3
    <3> QED BY <1>2, <1>b, <3>4
  <2>4. CASE num # 0
    <3>1. <<>> \o left = left /\ mEventQueue \o <<>> = mEventQueue
      BY <1>4
    <3>2. InFlight' = (mEventQueue \o first) \o left /\ InFlight = mEventQueue
      BY <1>5, <2>2, <2>4, <3>1 DEF InFlight
    <3>3. (mEventQueue \o first) \o left = mEventQueue \o (first \o left)
      <4>1. first \in Seq(Event) /\ left \in Seq(Event) /\ mEventQueue \in Seq(Event)
        BY <1>2, <1>4
      <4> QED BY <4>1, ConcatAssociative
    <3>4. InFlight' = InFlight \o events
      BY <1>3, <3>2, <3>3
    <3>5. Len(events) \in 0..Len(batch[s]) /\ InFlight' = InFlight \o SubSeq(events, 1, Len(events))
      BY <1>c, <3>4
    <3> QED BY <1>2, <1>b, <3>5
  <2> QED BY <2>3, <2>4
<1>8. CASE UNCHANGED queueVars /\ (left = <<>> \/ ~undisturbed')
  <2>1. PendingEvents' = PendingEvents
    BY <1>6, <1>8 DEF queueVars, PendingEvents, AllPending
  <2>2. InFlight' = (mEventQueue \o first) \o PendingEvents
    BY <1>2, <2>1 DEF InFlight
  <2>3. InFlight' = InFlight \o first
    <3>1. mEventQueue \o <<>> = mEventQueue /\ (mEventQueue \o first) \o <<>> = mEventQueue \o first
      BY <1>2, <1>4, Concatenation
    <3>2. CASE num = 0
      <4>1. InFlight \o <<>> = InFlight
        BY DoneInPending
      <4> QED BY <1>3, <2>2, <3>1, <3>2, <4>1 DEF InFlight
    <3>3. CASE num # 0
      BY <1>5, <2>2, <3>1, <3>3 DEF InFlight
    <3> QED BY <3>2, <3>3
  <2>4. undisturbed' => num = Len(batch[s])
    <3>1. Len(left) = Len(events) - num
      BY <1>2
    <3>2. CASE ~undisturbed'
      BY <3>2
    <3>3. CASE left = <<>>
      <4>1. Len(left) = 0
        BY <3>3
      <4> QED BY <1>2, <3>1, <4>1
    <3> QED BY <1>8, <3>2, <3>3
  <2> QED BY <1>2, <1>b, <2>3, <2>4 DEF first
<1> QED BY <1>1, <1>7, <1>8

\* The pending writes thread moves events from the pending queue to the event
\* FMQ in two steps, or loses the first ones of the pending queue.
LEMMA FlightFront ==
  ASSUME FrontInv, PwWrite \/ PwWriteTimeout
  PROVE  LET a == SubSeq(mPendingWriteEventsQueue[1].events, 1, numToWrite)
         IN  /\ a \in Seq(Event) /\ PendingEvents' \in Seq(Event)
             /\ PendingEvents = a \o PendingEvents'
<1> DEFINE front == mPendingWriteEventsQueue[1].events
           rest  == PendingOf(Tail(mPendingWriteEventsQueue))
           a     == SubSeq(front, 1, numToWrite)
           b     == SubSeq(front, numToWrite + 1, Len(front))
<1>1. /\ front \in Seq(Event) /\ rest \in Seq(Event) /\ AllPending = front \o rest
      /\ numToWrite \in 0..Len(front)
  BY FrontOfPending DEF PwWrite, PwWriteTimeout
<1>2. /\ mPendingWriteEventsQueue' = mPendingWriteEventsQueue /\ numToWrite' = numToWrite
      /\ pwPc = "writing" /\ pwPc' \in {"relock", "unref", "dropped"}
  BY DEF PwWrite, PwWriteTimeout, queueVars
<1>3. AllPending' = AllPending /\ Done = 0 /\ Done' = numToWrite
  BY <1>2 DEF AllPending, Done
<1>4. PendingEvents = AllPending
  BY <1>3, DoneInPending
<1> HIDE DEF front, rest
<1>5. a \in Seq(Event) /\ b \in Seq(Event)
  BY <1>1
<1>6. a \o b = front
  BY <1>1, SplitAt
<1>7. PendingEvents' = b \o rest
  BY <1>1, <1>3, WithoutFirst DEF PendingEvents
<1> HIDE DEF a, b
<1>8. rest \in Seq(Event)
  BY <1>1
<1>9. b \o rest \in Seq(Event) /\ (a \o b) \o rest = a \o (b \o rest)
  BY <1>5, <1>8, Associative
<1>10. a \in Seq(Event) /\ PendingEvents' \in Seq(Event) /\ PendingEvents = a \o PendingEvents'
  BY <1>1, <1>4, <1>5, <1>6, <1>7, <1>9
<1> QED BY <1>10 DEF a, front

LEMMA FlightWrite ==
  ASSUME FrontInv, PwWrite
  PROVE  InFlight' = InFlight
<1> DEFINE a == SubSeq(mPendingWriteEventsQueue[1].events, 1, numToWrite)
<1>1. a \in Seq(Event) /\ PendingEvents' \in Seq(Event) /\ PendingEvents = a \o PendingEvents'
  BY FlightFront
<1>2. mEventQueue \in Seq(Event) /\ mEventQueue' = mEventQueue \o a
  BY DEF FrontInv, TypeOK, QueuesOK, PwWrite
<1> HIDE DEF a
<1>3. (mEventQueue \o a) \o PendingEvents' = mEventQueue \o (a \o PendingEvents')
  BY <1>1, <1>2, Associative
<1> QED BY <1>1, <1>2, <1>3 DEF InFlight

LEMMA FlightTimeout ==
  ASSUME FrontInv, PwWriteTimeout
  PROVE  \E b \in Seq(Event), c \in Seq(Event) :
           InFlight = mEventQueue \o (b \o c) /\ InFlight' = mEventQueue \o c
<1> DEFINE a == SubSeq(mPendingWriteEventsQueue[1].events, 1, numToWrite)
           c == PendingEvents'
<1>1. a \in Seq(Event) /\ c \in Seq(Event) /\ PendingEvents = a \o c
  BY FlightFront
<1>2. mEventQueue' = mEventQueue
  BY DEF PwWriteTimeout
<1>3. InFlight = mEventQueue \o (a \o c) /\ InFlight' = mEventQueue \o c
  BY <1>1, <1>2 DEF InFlight
<1> HIDE DEF a, c
<1> QED BY <1>1, <1>3

LEMMA FlightRelock ==
  ASSUME FrontInv, PwRelock
  PROVE  InFlight' = InFlight
<1>1. /\ numToWrite \in 0..Len(AllPending) /\ AllPending \in Seq(Event)
      /\ AllPending' = SubSeq(AllPending, numToWrite + 1, Len(AllPending))
  BY PwRelockEffect, DoneInPending
<1>2. mEventQueue' = mEventQueue /\ pwPc \in {"dropped", "relock"} /\ pwPc' = "test"
  BY DEF PwRelock
<1>3. Done = numToWrite /\ Done' = 0
  BY <1>2 DEF Done
<1>4. PendingEvents' = AllPending'
  <2> DEFINE q == SubSeq(AllPending, numToWrite + 1, Len(AllPending))
  <2>1. q \in Seq(Event) /\ AllPending' = q
    BY <1>1
  <2> HIDE DEF q
  <2>2. SubSeq(q, 1, Len(q)) = q
    BY <2>1, SubSeqFull
  <2> QED BY <1>3, <2>1, <2>2 DEF PendingEvents
<1>5. PendingEvents = AllPending'
  BY <1>1, <1>3 DEF PendingEvents
<1> QED BY <1>2, <1>4, <1>5 DEF InFlight
-----------------------------------------------------------------------------
(* Steps of the channel.                                                   *)

LEMMA ChannelStutter ==
  ASSUME InFlight' = InFlight, Posted' = Posted, lastRead' = lastRead
  PROVE  [Channel!ChanNext]_(Channel!chanVars)
BY DEF Channel!chanVars, Content

LEMMA ChannelLose ==
  ASSUME NEW a \in Seq(Event), NEW b \in Seq(Event), NEW c \in Seq(Event),
         InFlight = a \o (b \o c), InFlight' = a \o c, Posted' = Posted, lastRead' = lastRead
  PROVE  [Channel!ChanNext]_(Channel!chanVars)
<1> DEFINE A == Msg(a)
           B == Msg(b)
           C == Msg(c)
           M == [src : SubHals, id : Nat]
           i == Len(A)
           j == Len(A) + Len(B)
<1>1. A \in Seq(M) /\ B \in Seq(M) /\ C \in Seq(M)
  BY MsgType
<1>2. Content = Msg(a \o (b \o c)) /\ Content' = Msg(a \o c)
  BY DEF Content, Msg
<1>3. Content = A \o (B \o C) /\ Content' = A \o C
  <2>1. b \o c \in Seq(Event)
    BY Concatenation
  <2> QED BY <1>2, <2>1, MsgOfConcat
<1> HIDE DEF A, B, C, M
<1>4. /\ SubSeq(Content, 1, i) = A /\ SubSeq(Content, j + 1, Len(Content)) = C
      /\ Len(Content) = Len(A) + Len(B) + Len(C)
  BY <1>1, <1>3, MiddleLost
<1>5. Len(A) \in Nat /\ Len(B) \in Nat /\ Len(C) \in Nat
  BY <1>1
<1>6. CASE B = <<>>
  <2>1. B \o C = C
    BY <1>1, <1>6
  <2> QED BY <1>3, <2>1 DEF Channel!chanVars
<1>7. CASE B # <<>>
  <2>1. Len(B) # 0
    BY <1>1, <1>7, EmptySeq
  <2>2. j \in 1..Len(Content) /\ i \in 0..(j - 1)
    BY <1>4, <1>5, <2>1
  <2>3. Channel!ChanLose(i, j)
    BY <1>3, <1>4 DEF Channel!ChanLose
  <2> HIDE DEF i, j
  <2> QED BY <2>2, <2>3 DEF Channel!ChanNext
<1> QED BY <1>6, <1>7

\* The posting thread of s hands over its batch when it leaves the states of
\* Unposted, and does not touch the other sub-HALs.
LEMMA PostedByPoster ==
  ASSUME TypeOK, BatchNumbered, NEW s \in SubHals, Poster(s)
  PROVE  /\ Len(batch[s]) \in Nat
         /\ pc[s] \in Unposted /\ pc'[s] \notin Unposted =>
              /\ Len(batch[s]) \in 0..MaxEvents
              /\ Posted[s] = generated[s] - Len(batch[s])
              /\ Posted' = [Posted EXCEPT ![s] = @ + Len(batch[s])]
         /\ ~(pc[s] \in Unposted /\ pc'[s] \notin Unposted) => Posted' = Posted
<1> USE DEF Unposted
<1>1. Posted = [t \in SubHals |-> Posted[t]] /\ Posted' = [t \in SubHals |-> Posted'[t]]
  BY DEF Posted
<1>2. /\ \A t \in SubHals : Posted[t] = IF pc[t] \in Unposted
                                        THEN generated[t] - Len(batch[t]) ELSE generated[t]
      /\ \A t \in SubHals : Posted'[t] = IF pc'[t] \in Unposted
                                         THEN generated'[t] - Len(batch'[t]) ELSE generated'[t]
  BY DEF Posted
<1>3. ASSUME NEW t \in SubHals, t # s
      PROVE  Posted'[t] = Posted[t]
  <2>1. pc'[t] = pc[t] /\ batch'[t] = batch[t] /\ generated'[t] = generated[t]
    BY <1>3 DEF TypeOK, PostersOK, Poster, CreateScopedWakelock, Acquire, PostEvents,
                PostLock, PostCount, PostWrite, ReleaseScopedWakelock, Unref, postVars
  <2> QED BY <1>2, <2>1
<1>4. /\ batch[s] \in Seq(Event) /\ Len(batch[s]) \in Nat /\ generated[s] \in Nat
      /\ generated[s] <= MaxEvents /\ MaxEvents \in Nat
      /\ pc[s] \in Unposted => Len(batch[s]) <= generated[s]
  BY ConstantsAssumption DEF TypeOK, PostersOK, BatchNumbered
<1>5. CASE CreateScopedWakelock(s)
  <2>1. PICK b \in Batches :
          /\ batch' = [batch EXCEPT ![s] =
               [i \in 1..Len(b) |-> [src |-> s, id |-> generated[s] + i, handle |-> b[i]]]]
          /\ generated' = [generated EXCEPT ![s] = @ + Len(b)]
          /\ pc' = [pc EXCEPT ![s] =
               IF mThreadsRun /\ \E i \in DOMAIN b : b[i] \in WakeUp
               THEN "acquire" ELSE "post"]
    BY <1>5 DEF CreateScopedWakelock
  <2> DEFINE new == [i \in 1..Len(b) |-> [src |-> s, id |-> generated[s] + i, handle |-> b[i]]]
  <2>2. batch'[s] = new /\ generated'[s] = generated[s] + Len(b)
    BY <2>1 DEF TypeOK, PostersOK
  <2>3. Len(b) \in Nat /\ Len(new) = Len(b)
    BY ConstantsAssumption
  <2>4. pc'[s] \in {"acquire", "post"} /\ pc[s] = "idle"
    BY <1>5, <2>1 DEF TypeOK, PostersOK, CreateScopedWakelock
  <2> HIDE DEF new
  <2>5. Posted'[s] = generated[s] /\ Posted[s] = generated[s]
    BY <1>2, <1>4, <2>2, <2>3, <2>4
  <2>6. Posted' = Posted
    BY <1>1, <1>3, <2>5
  <2> QED BY <1>4, <2>4, <2>6
<1>6. CASE ~CreateScopedWakelock(s)
  <2>1. /\ generated'[s] = generated[s]
        /\ pc'[s] \in Unposted => pc[s] \in Unposted /\ batch'[s] = batch[s]
    BY <1>6 DEF TypeOK, PostersOK, Poster, Acquire, PostEvents, PostLock,
                PostCount, PostWrite, ReleaseScopedWakelock, Unref, postVars
  <2>2. CASE pc[s] \in Unposted /\ pc'[s] \notin Unposted
    <3>1. Posted[s] = generated[s] - Len(batch[s]) /\ Posted'[s] = Posted[s] + Len(batch[s])
      BY <1>2, <1>4, <2>1, <2>2
    <3>2. Posted' = [Posted EXCEPT ![s] = @ + Len(batch[s])]
      <4> DEFINE n == Len(batch[s])
                 P == Posted'
      <4>1. P[s] = Posted[s] + n /\ P = [t \in SubHals |-> P[t]]
        BY <1>1, <3>1
      <4>2. \A t \in SubHals : t # s => P[t] = Posted[t]
        BY <1>3
      <4> HIDE DEF n, P
      <4>3. P = [Posted EXCEPT ![s] = @ + n]
        BY <1>1, <4>1, <4>2
      <4> QED BY <4>3 DEF n, P
    <3> QED BY <1>4, <2>2, <3>1, <3>2
  <2>3. CASE ~(pc[s] \in Unposted /\ pc'[s] \notin Unposted)
    <3>1. Posted'[s] = Posted[s]
      BY <1>2, <2>1, <2>3
    <3> QED BY <1>1, <1>3, <1>4, <2>3, <3>1
  <2> QED BY <2>2, <2>3
<1> QED BY <1>5, <1>6

LEMMA ChannelPost ==
  ASSUME NEW s \in SubHals, NEW n \in 0..MaxEvents, NEW k \in 0..n,
         NEW new \in Seq(Event), InFlight \in Seq(Event), Len(new) = k,
         \A i \in 1..k : new[i].src = s /\ new[i].id = Posted[s] + i,
         InFlight' = InFlight \o new, Posted' = [Posted EXCEPT ![s] = @ + n],
         lastRead' = lastRead
  PROVE  [Channel!ChanNext]_(Channel!chanVars)
<1> DEFINE add == [i \in 1..k |-> [src |-> s, id |-> Posted[s] + i]]
<1>1. Content = Msg(InFlight) /\ Content' = Msg(InFlight')
  BY DEF Content, Msg
<1>2. Content' = Content \o Msg(new)
  BY <1>1, MsgOfConcat
<1>3. Msg(new) = add
  <2>1. DOMAIN new = 1..k
    OBVIOUS
  <2> QED BY <2>1 DEF Msg
<1>4. Channel!ChanPost(s, n, k)
  BY <1>2, <1>3 DEF Channel!ChanPost
<1> QED BY <1>4, ConstantsAssumption DEF Channel!ChanNext

LEMMA ChannelByPoster ==
  ASSUME FrontInv, BatchNumbered, NEW s \in SubHals, Poster(s)
  PROVE  [Channel!ChanNext]_(Channel!chanVars)
<1>0. TypeOK /\ InFlight \in Seq(Event)
  BY DoneInPending DEF FrontInv
<1>1. lastRead' = lastRead
  BY DEF Poster, CreateScopedWakelock, Acquire, PostEvents, PostLock, PostCount,
         PostWrite, ReleaseScopedWakelock, Unref, fwVars
<1>2. CASE PostWrite(s)
  <2>1. PICK events \in Seq(Event), k \in 0..Len(batch[s]) :
           /\ Len(events) = Len(batch[s])
           /\ \A i \in 1..Len(events) :
                events[i].src = batch[s][i].src /\ events[i].id = batch[s][i].id
           /\ InFlight' = InFlight \o SubSeq(events, 1, k)
    BY <1>2, FlightPost
  <2>2. pc[s] = "write" /\ pc'[s] = "release"
    BY <1>0, <1>2 DEF PostWrite, TypeOK, PostersOK
  <2>3. /\ Len(batch[s]) \in 0..MaxEvents
        /\ Posted[s] = generated[s] - Len(batch[s])
        /\ Posted' = [Posted EXCEPT ![s] = @ + Len(batch[s])]
    BY <1>0, <2>2, PostedByPoster DEF Unposted
  <2>4. \A i \in 1..Len(batch[s]) : batch[s][i].src = s /\ batch[s][i].id = Posted[s] + i
    BY <2>2, <2>3 DEF BatchNumbered, Unposted
  <2> DEFINE new == SubSeq(events, 1, k)
             n   == Len(batch[s])
  <2>5. /\ new \in Seq(Event) /\ Len(new) = k
        /\ \A i \in 1..k : new[i] = events[i] /\ i \in 1..Len(batch[s])
    BY <2>1, <2>3
  <2>6. \A i \in 1..k : new[i].src = s /\ new[i].id = Posted[s] + i
    BY <2>1, <2>4, <2>5
  <2>7. n \in 0..MaxEvents /\ k \in 0..n /\ Posted' = [Posted EXCEPT ![s] = @ + n]
        /\ InFlight' = InFlight \o new
    BY <2>1, <2>3
  <2> HIDE DEF new, n
  <2> QED BY <1>0, <1>1, <2>5, <2>6, <2>7, ChannelPost
<1>3. CASE ~PostWrite(s)
  <2>1. InFlight' = InFlight
    <3>1. UNCHANGED <<mEventQueue, mPendingWriteEventsQueue, pwPc, numToWrite>>
      BY <1>3 DEF Poster, CreateScopedWakelock, Acquire, PostEvents, PostLock, PostCount,
                  ReleaseScopedWakelock, Unref, queueVars, pwVars
    <3> QED BY <3>1, FlightUnchanged DEF Done
  <2>2. CASE pc[s] \in Unposted /\ pc'[s] \notin Unposted
    <3> DEFINE n == Len(batch[s])
    <3>1. n \in 0..MaxEvents /\ Posted' = [Posted EXCEPT ![s] = @ + n]
      BY <1>0, <2>2, PostedByPoster
    <3>2. 0 \in 0..n /\ <<>> \in Seq(Event) /\ Len(<<>>) = 0 /\ InFlight' = InFlight \o <<>>
      BY <1>0, <2>1, <3>1
    <3> HIDE DEF n
    <3> DEFINE new == <<>>
               k   == 0
    <3>3. /\ k \in 0..n /\ new \in Seq(Event) /\ Len(new) = k /\ InFlight' = InFlight \o new
          /\ \A i \in 1..k : new[i].src = s /\ new[i].id = Posted[s] + i
      BY <3>2
    <3> HIDE DEF new, k
    <3> QED BY <1>0, <1>1, <3>1, <3>3, ChannelPost
  <2>3. CASE ~(pc[s] \in Unposted /\ pc'[s] \notin Unposted)
    <3>1. Posted' = Posted
      BY <1>0, <2>3, PostedByPoster
    <3> QED BY <1>1, <2>1, <3>1, ChannelStutter
  <2> QED BY <2>2, <2>3
<1> QED BY <1>2, <1>3

LEMMA ChannelDeliver ==
  ASSUME FrontInv, FrameworkRead, Posted' = Posted
  PROVE  [Channel!ChanNext]_(Channel!chanVars)
<1> DEFINE e == Head(mEventQueue)
           t == Tail(mEventQueue)
           M == [src : SubHals, id : Nat]
<1>1. /\ mEventQueue # <<>> /\ mEventQueue' = t
      /\ lastRead' = [lastRead EXCEPT ![e.src] = e.id]
      /\ UNCHANGED <<mPendingWriteEventsQueue, pwPc, numToWrite>>
  BY DEF FrameworkRead, queueVars, pwVars
<1>2. mEventQueue \in Seq(Event) /\ PendingEvents \in Seq(Event)
  BY DoneInPending
<1>3. PendingEvents' = PendingEvents
  BY <1>1 DEF PendingEvents, AllPending, Done
<1>4. e \in Event /\ t \in Seq(Event) /\ mEventQueue = <<e>> \o t /\ <<e>> \in Seq(Event)
  <2>1. e \in Event /\ t \in Seq(Event) /\ <<e>> \in Seq(Event)
    BY <1>1, <1>2
  <2>2. mEventQueue = <<e>> \o t
    BY <1>1, <1>2
  <2> QED BY <2>1, <2>2
<1> HIDE DEF e, t
<1> DEFINE r == t \o PendingEvents
           c == [src |-> e.src, id |-> e.id]
<1>5. r \in Seq(Event) /\ InFlight = <<e>> \o r /\ InFlight' = r
  <2>1. r \in Seq(Event) /\ (<<e>> \o t) \o PendingEvents = <<e>> \o r
    BY <1>2, <1>4, Associative
  <2> QED BY <1>1, <1>3, <1>4, <2>1 DEF InFlight
<1> HIDE DEF r
<1>6. Content = Msg(<<e>> \o r) /\ Content' = Msg(r)
  BY <1>5 DEF Content, Msg
<1>7. Msg(<<e>> \o r) = Msg(<<e>>) \o Msg(r)
  BY <1>4, <1>5, MsgOfConcat
<1>8. Msg(<<e>>) = <<c>>
  BY DEF Msg
<1>9. Content = <<c>> \o Content' /\ Content' \in Seq(M) /\ c \in M
  <2>1. Msg(r) \in Seq(M)
    BY <1>5, MsgType
  <2>2. c \in M
    BY <1>4 DEF Event
  <2> HIDE DEF c, M
  <2> QED BY <1>6, <1>7, <1>8, <2>1, <2>2
<1>10. Content # <<>> /\ Head(Content) = c /\ Tail(Content) = Content'
  <2> DEFINE q == Content'
  <2>1. Content = <<c>> \o q /\ q \in Seq(M) /\ c \in M
    BY <1>9
  <2> HIDE DEF q, c, M
  <2>2. <<c>> \o q # <<>> /\ Head(<<c>> \o q) = c /\ Tail(<<c>> \o q) = q
    BY <2>1
  <2> QED BY <2>1, <2>2 DEF q
<1>11. lastRead' = [lastRead EXCEPT ![Head(Content).src] = Head(Content).id]
  <2>1. c.src = e.src /\ c.id = e.id
    OBVIOUS
  <2> HIDE DEF c
  <2> QED BY <1>1, <1>10, <2>1
<1>12. Channel!ChanDeliver
  BY <1>10, <1>11 DEF Channel!ChanDeliver
<1> QED BY <1>12 DEF Channel!ChanNext

LEMMA ChannelByOthers ==
  ASSUME FrontInv,
         \/ handlePendingWrites \/ handleWakelocks \/ initializeCommon
         \/ \E s \in SubHals, enabled \in BOOLEAN : Activate(s, enabled)
         \/ Expire \/ FrameworkRead \/ FrameworkAck \/ UNCHANGED vars
  PROVE  [Channel!ChanNext]_(Channel!chanVars)
<1> USE DEF queueVars, pwVars, fwVars
<1>0. Posted' = Posted
  BY OthersLeavePosters DEF Posted
<1>1. /\ mEventQueue \in Seq(Event) /\ PendingEvents \in Seq(Event)
      /\ <<>> \in Seq(Event) /\ InFlight = mEventQueue \o PendingEvents
  BY DoneInPending DEF InFlight
<1>2. CASE UNCHANGED <<mEventQueue, mPendingWriteEventsQueue, lastRead>> /\ Done' = Done
  BY <1>0, <1>2, FlightUnchanged, ChannelStutter
<1>3. CASE handlePendingWrites
  <2>1. CASE PwWrite
    BY <1>0, <2>1, FlightWrite, ChannelStutter DEF PwWrite
  <2>2. CASE PwRelock
    BY <1>0, <2>2, FlightRelock, ChannelStutter DEF PwRelock
  <2>3. CASE PwWriteTimeout
    <3>1. PICK b \in Seq(Event), c \in Seq(Event) :
            InFlight = mEventQueue \o (b \o c) /\ InFlight' = mEventQueue \o c
      BY <2>3, FlightTimeout
    <3>2. lastRead' = lastRead
      BY <2>3 DEF PwWriteTimeout
    <3> QED BY <1>0, <1>1, <3>1, <3>2, ChannelLose
  <2>4. CASE PwLock \/ PwTest \/ PwPark \/ PwSpuriousWakeup \/ PwUnref
    <3>1. UNCHANGED <<mEventQueue, mPendingWriteEventsQueue, lastRead>> /\ Done' = Done
      BY <2>4 DEF PwLock, PwTest, PwPark, PwSpuriousWakeup, PwUnref, Done
    <3> QED BY <1>2, <3>1
  <2> QED BY <1>3, <2>1, <2>2, <2>3, <2>4 DEF handlePendingWrites
<1>4. CASE handleWakelocks
  <2>1. UNCHANGED <<mEventQueue, mPendingWriteEventsQueue, lastRead, pwPc, numToWrite>>
    BY <1>4 DEF handleWakelocks, WlLock, WlTest, WlPark, WlSpuriousWakeup, WlRead,
                WlReadTimeout, WlRelock
  <2> QED BY <1>2, <2>1 DEF Done
<1>5. CASE InitDrain
  <2>1. InFlight' = PendingEvents
    <3>1. mEventQueue' = <<>> /\ UNCHANGED <<mPendingWriteEventsQueue, pwPc, numToWrite>>
      BY <1>5 DEF InitDrain
    <3>2. PendingEvents' = PendingEvents
      BY <3>1 DEF PendingEvents, AllPending, Done
    <3>3. <<>> \o PendingEvents = PendingEvents
      BY <1>1
    <3> QED BY <3>1, <3>2, <3>3 DEF InFlight
  <2>2. lastRead' = lastRead
    BY <1>5 DEF InitDrain
  <2> DEFINE a == <<>>
             c == PendingEvents
  <2>3. a \in Seq(Event) /\ InFlight = a \o (mEventQueue \o c) /\ InFlight' = a \o c
    <3>1. InFlight \in Seq(Event)
      BY DoneInPending
    <3>2. <<>> \o InFlight = InFlight /\ <<>> \o PendingEvents = PendingEvents
      BY <1>1, <3>1
    <3> QED BY <1>1, <2>1, <3>2
  <2>4. c \in Seq(Event)
    BY <1>1
  <2> HIDE DEF a, c
  <2> QED BY <1>0, <1>1, <2>2, <2>3, <2>4, ChannelLose
<1>6. CASE InitClear
  <2>1. InFlight' = <<>>
    <3>1. mEventQueue' = <<>> /\ mPendingWriteEventsQueue' = <<>> /\ pwPc' = "done"
      BY <1>6 DEF InitClear, InitGoto, FrontInv, ThreadsJoined
    <3>2. AllPending' = <<>> /\ Done' = 0
      BY <3>1 DEF AllPending, FlattenSeq, Done
    <3> QED BY <3>1, <3>2 DEF InFlight, PendingEvents
  <2>2. lastRead' = lastRead
    BY <1>6 DEF InitClear
  <2> DEFINE a == <<>>
  <2>3. a \in Seq(Event) /\ InFlight \in Seq(Event)
    BY DoneInPending
  <2>4. InFlight = a \o (InFlight \o a) /\ InFlight' = a \o a
    BY <2>1, <2>3
  <2> HIDE DEF a
  <2> QED BY <1>0, <2>2, <2>3, <2>4, ChannelLose
<1>7. CASE initializeCommon /\ ~InitDrain /\ ~InitClear
  <2>1. /\ UNCHANGED <<mEventQueue, mPendingWriteEventsQueue, lastRead, numToWrite>>
        /\ \/ pwPc' = pwPc
           \/ pwPc \in {"parked", "done"} /\ pwPc' = "lock"
    BY <1>7 DEF initializeCommon, InitStop, InitKick, InitNotifyWl, InitNotifyPw, InitJoin,
                InitReset, InitDisable, InitStart, InitSubHals, InitGoto, Notified,
                FrontInv, ThreadsJoined
  <2> QED BY <1>2, <2>1 DEF Done
<1>8. CASE FrameworkRead
  BY <1>0, <1>8, ChannelDeliver
<1>9. CASE \/ \E s \in SubHals, enabled \in BOOLEAN : Activate(s, enabled)
           \/ Expire \/ FrameworkAck \/ UNCHANGED vars
  <2>1. UNCHANGED <<mEventQueue, mPendingWriteEventsQueue, lastRead, pwPc, numToWrite>>
    BY <1>9 DEF Activate, Expire, FrameworkAck, vars
  <2> QED BY <1>2, <2>1 DEF Done
<1> QED BY <1>3, <1>4, <1>5, <1>6, <1>7, <1>8, <1>9

\* The proxy implements the channel: in every behaviour, for every number of
\* sub-HALs, every batch and both queue sizes, and whatever overflows, write
\* timeouts, restarts and failing deactivations happen, each step of the event
\* path posts, delivers or loses a block of the channel's events, or is none of
\* the channel's business.
THEOREM ProxyImplementsChannel == Spec => ImplementsChannel
<1> DEFINE Inv == FrontInv /\ BatchNumbered
<1>1. Init => Inv
  <2>1. Init => BatchNumbered
    BY ConstantsAssumption DEF Init, BatchNumbered, Unposted
  <2> QED BY <2>1, FrontInvInit
<1>2. Inv /\ [Next]_vars => Inv'
  BY FrontInvNext, BatchNumberedNext DEF FrontInv
<1>3. Init => Channel!ChanInit
  <2> SUFFICES ASSUME Init PROVE Channel!ChanInit
    OBVIOUS
  <2>1. AllPending = <<>> /\ Done = 0 /\ mEventQueue = <<>>
    BY DEF Init, AllPending, FlattenSeq, Done
  <2>2. InFlight = <<>>
    BY <2>1 DEF InFlight, PendingEvents
  <2>3. Content = <<>>
    BY <2>2 DEF Content
  <2>4. Posted = [s \in SubHals |-> 0]
    BY DEF Init, Posted
  <2> QED BY <2>3, <2>4 DEF Init, Channel!ChanInit
<1>4. Inv /\ [Next]_vars => [Channel!ChanNext]_(Channel!chanVars)
  <2> SUFFICES ASSUME Inv, [Next]_vars PROVE [Channel!ChanNext]_(Channel!chanVars)
    OBVIOUS
  <2>1. ASSUME NEW s \in SubHals, Poster(s)
        PROVE  [Channel!ChanNext]_(Channel!chanVars)
    BY <2>1, ChannelByPoster
  <2> QED BY <2>1, ChannelByOthers DEF Next
<1> HIDE DEF Inv
<1> QED BY <1>1, <1>2, <1>3, <1>4, PTL DEF Spec, ImplementsChannel, Channel!ChanSpec

ChannelThm == INSTANCE SensorEventChannelProofs WITH
  MaxPost <- MaxEvents, channel <- Content, posted <- Posted

\* What the framework is about to read of each sub-HAL is in the order in which
\* it was generated and newer than everything already read, across overflows,
\* write timeouts and restarts: what the channel promises, brought down to the
\* proxy by the refinement.
THEOREM EventsAlwaysInOrder == Spec => []EventsInOrder
<1>1. MaxEvents \in Nat
  BY ConstantsAssumption
<1>2. Channel!ChanInit => ChannelThm!ChanInv
  BY ChannelThm!ChanInvInit DEF Channel!ChanInit, ChannelThm!ChanInit
<1>3. ChannelThm!ChanInv /\ [Channel!ChanNext]_(Channel!chanVars) => ChannelThm!ChanInv'
  <2>1. [Channel!ChanNext]_(Channel!chanVars) => [ChannelThm!ChanNext]_(ChannelThm!chanVars)
    BY DEF Channel!ChanNext, Channel!chanVars, Channel!ChanPost, Channel!ChanDeliver,
           Channel!ChanLose, ChannelThm!ChanNext, ChannelThm!chanVars,
           ChannelThm!ChanPost, ChannelThm!ChanDeliver, ChannelThm!ChanLose
  <2> QED BY <1>1, <2>1, ChannelThm!ChanInvNext
<1>4. ChannelThm!ChanInv => EventsInOrder
  BY DEF ChannelThm!ChanInv, ChannelThm!InOrder, EventsInOrder, Channel!InOrder
<1> QED BY <1>2, <1>3, <1>4, ProxyImplementsChannel, PTL DEF ImplementsChannel, Channel!ChanSpec
-----------------------------------------------------------------------------
(***************************************************************************)
(* The reference count.  First what the parts of References are made of:   *)
(* the wake-up events of a sequence ...                                    *)
(***************************************************************************)

LEMMA Shifted ==
  ASSUME NEW T \in SUBSET Nat, IsFiniteSet(T), NEW n \in Nat
  PROVE  IsFiniteSet({n + j : j \in T}) /\ Cardinality({n + j : j \in T}) = Cardinality(T)
<1> DEFINE U == {n + j : j \in T}
           f == [j \in T |-> n + j]
<1>1. f \in [T -> U] /\ \A j \in T : f[j] = n + j
  OBVIOUS
<1>2. \A i, j \in T : f[i] = f[j] => i = j
  <2> HIDE DEF f
  <2> SUFFICES ASSUME NEW i \in T, NEW j \in T, f[i] = f[j] PROVE i = j
    OBVIOUS
  <2>1. i \in Nat /\ j \in Nat /\ n + i = n + j
    BY <1>1
  <2> QED BY <2>1
<1>3. \A u \in U : \E j \in T : f[j] = u
  BY <1>1
<1> HIDE DEF f, U
<1>4. f \in Bijection(T, U)
  BY <1>1, <1>2, <1>3 DEF Bijection, Injection, Surjection, IsInjective
<1>5. ExistsBijection(T, U)
  BY <1>4 DEF ExistsBijection
<1>6. IsFiniteSet(U) /\ Cardinality(U) = Cardinality(T)
  BY <1>5, FS_Bijection
<1> QED BY <1>6 DEF U

LEMMA CountConcat ==
  ASSUME NEW a \in Seq(Event), NEW b \in Seq(Event)
  PROVE  /\ countNumWakeupEvents(a) \in Nat /\ countNumWakeupEvents(b) \in Nat
         /\ countNumWakeupEvents(a \o b) = countNumWakeupEvents(a) + countNumWakeupEvents(b)
<1> DEFINE c == a \o b
           n == Len(a)
           A == {i \in DOMAIN a : a[i].handle \in WakeUp}
           B == {i \in DOMAIN b : b[i].handle \in WakeUp}
           C == {i \in DOMAIN c : c[i].handle \in WakeUp}
           D == {n + j : j \in B}
<1>1. /\ c \in Seq(Event) /\ n \in Nat /\ Len(b) \in Nat /\ DOMAIN c = 1..(n + Len(b))
      /\ DOMAIN a = 1..n /\ DOMAIN b = 1..Len(b)
      /\ \A i \in 1..(n + Len(b)) : c[i] = IF i <= n THEN a[i] ELSE b[i - n]
  BY ConcatProperties
<1>2. IsFiniteSet(A) /\ IsFiniteSet(B) /\ B \in SUBSET Nat
  <2>1. IsFiniteSet(1..n) /\ IsFiniteSet(1..Len(b))
    BY <1>1, FS_Interval
  <2>2. A \in SUBSET (1..n) /\ B \in SUBSET (1..Len(b))
    BY <1>1
  <2> QED BY <2>1, <2>2, FS_Subset
<1> HIDE DEF c
<1>3. C = A \cup D
  <2>1. ASSUME NEW i \in C PROVE i \in A \cup D
    <3>1. i \in 1..(n + Len(b)) /\ c[i].handle \in WakeUp
      BY <1>1, <2>1
    <3>2. CASE i <= n
      BY <1>1, <3>1, <3>2
    <3>3. CASE ~(i <= n)
      <4>1. i - n \in 1..Len(b) /\ c[i] = b[i - n] /\ i = n + (i - n)
        BY <1>1, <3>1, <3>3
      <4>2. i - n \in B
        BY <1>1, <3>1, <4>1
      <4> QED BY <4>1, <4>2
    <3> QED BY <3>2, <3>3
  <2>2. ASSUME NEW i \in A PROVE i \in C
    BY <1>1, <2>2
  <2>3. ASSUME NEW j \in B PROVE n + j \in C
    <3>1. n + j \in 1..(n + Len(b)) /\ ~(n + j <= n) /\ (n + j) - n = j
      BY <1>1, <2>3
    <3>2. c[n + j] = b[j]
      BY <1>1, <3>1
    <3> QED BY <1>1, <2>3, <3>1, <3>2
  <2> HIDE DEF A, B, C
  <2> QED BY <2>1, <2>2, <2>3
<1>4. A \cap D = {}
  BY <1>1
<1>5. IsFiniteSet(D) /\ Cardinality(D) = Cardinality(B)
  <2> HIDE DEF B, n
  <2> QED BY <1>1, <1>2, Shifted
<1>6. /\ Cardinality(A) \in Nat /\ Cardinality(B) \in Nat /\ Cardinality({}) = 0
  BY <1>2, FS_CardinalityType, FS_EmptySet
<1>7. Cardinality(A \cup D) = Cardinality(A) + Cardinality(D) - Cardinality(A \cap D)
  BY <1>2, <1>5, FS_Union
<1>8. Cardinality(C) = Cardinality(A) + Cardinality(B)
  <2> HIDE DEF A, B, C, D
  <2>1. Cardinality(A \cap D) = 0 /\ Cardinality(C) = Cardinality(A \cup D)
    BY <1>3, <1>4, <1>6
  <2> QED BY <1>5, <1>6, <1>7, <2>1
<1> QED BY <1>6, <1>8 DEF countNumWakeupEvents, c

(* ... the acknowledgements in the wake lock FMQ ...                       *)

LEMMA FlattenLast ==
  ASSUME NEW T, NEW E \in Seq(Seq(T)), NEW F \in Seq(Seq(T)), Len(F) = Len(E) + 1,
         \A i \in 1..Len(E) : F[i] = E[i]
  PROVE  FlattenSeq(F) = FlattenSeq(E) \o F[Len(F)]
<1> DEFINE e == F[Len(F)]
           G == Append(E, e)
<1>1. e \in Seq(T) /\ Len(E) \in Nat
  OBVIOUS
<1>2. /\ G \in Seq(Seq(T)) /\ Len(G) = Len(E) + 1 /\ G[Len(E) + 1] = e
      /\ \A i \in 1..Len(E) : G[i] = E[i]
  BY <1>1
<1> HIDE DEF G
<1>3. ASSUME NEW i \in 1..Len(F) PROVE F[i] = G[i]
  <2>1. i \in 1..Len(E) \/ (i = Len(E) + 1 /\ i = Len(F))
    BY <1>1
  <2> QED BY <1>2, <2>1
<1>4. F = G
  BY <1>2, <1>3, SeqEqual
<1> HIDE DEF e
<1>5. FlattenSeq(Append(E, e)) = FlattenSeq(E) \o e
  BY <1>1, FlattenAppend
<1> QED BY <1>4, <1>5 DEF G, e

LEMMA FlattenFirst ==
  ASSUME NEW T, NEW E \in Seq(Seq(T)), NEW F \in Seq(Seq(T)), Len(E) = Len(F) + 1,
         \A i \in 1..Len(F) : F[i] = E[i + 1]
  PROVE  FlattenSeq(F) \in Seq(T) /\ FlattenSeq(E) = E[1] \o FlattenSeq(F)
<1> DEFINE G == Tail(E)
<1>1. E # <<>> /\ Len(F) \in Nat
  OBVIOUS
<1>2. G \in Seq(Seq(T)) /\ Len(G) = Len(F) /\ \A i \in 1..Len(F) : G[i] = E[i + 1]
  BY <1>1
<1> HIDE DEF G
<1>3. F = G
  BY <1>2, SeqEqual
<1> QED BY <1>1, <1>3, FlattenFront DEF G

Acks(n) == [k \in 1..n |-> "ack"]
AcksOf(q) == FlattenSeq([i \in DOMAIN q |-> Acks(q[i])])

LEMMA AcksType ==
  ASSUME NEW n \in Nat
  PROVE  Acks(n) \in Seq({"ack"}) /\ Len(Acks(n)) = n
BY DEF Acks

LEMMA AcksOfQueue ==
  ASSUME NEW q \in Seq(Nat)
  PROVE  /\ AcksOf(<<>>) = <<>> /\ AcksOf(q) \in Seq({"ack"}) /\ Len(AcksOf(q)) \in Nat
         /\ \A n \in Nat : Len(AcksOf(Append(q, n))) = Len(AcksOf(q)) + n
         /\ q # <<>> => Head(q) \in Nat /\ Len(AcksOf(q)) = Head(q) + Len(AcksOf(Tail(q)))
<1> DEFINE T == {"ack"}
           M(r) == [i \in DOMAIN r |-> Acks(r[i])]
<1>1. ASSUME NEW r \in Seq(Nat)
      PROVE  M(r) \in Seq(Seq(T)) /\ Len(M(r)) = Len(r) /\ \A i \in 1..Len(r) : M(r)[i] = Acks(r[i])
  <2>1. Len(r) \in Nat /\ DOMAIN r = 1..Len(r) /\ \A i \in 1..Len(r) : r[i] \in Nat
    OBVIOUS
  <2>2. \A i \in 1..Len(r) : Acks(r[i]) \in Seq(T)
    BY <2>1, AcksType
  <2>3. M(r) \in [1..Len(r) -> Seq(T)]
    BY <2>1, <2>2
  <2>4. M(r) \in Seq(Seq(T))
    BY <2>1, <2>3, IsASeq
  <2> QED BY <2>1, <2>3, <2>4
<1>2. AcksOf(<<>>) = <<>>
  BY DEF AcksOf, FlattenSeq
<1>3. \A r : AcksOf(r) = FlattenSeq(M(r))
  BY DEF AcksOf
<1> HIDE DEF M, T
<1>4. ASSUME NEW r \in Seq(Nat), r # <<>>
      PROVE  /\ Head(r) \in Nat /\ Tail(r) \in Seq(Nat)
             /\ AcksOf(Tail(r)) \in Seq(T) /\ AcksOf(r) = Acks(Head(r)) \o AcksOf(Tail(r))
  <2> DEFINE t == Tail(r)
             E == M(r)
             F == M(t)
  <2>1. /\ t \in Seq(Nat) /\ Len(r) = Len(t) + 1 /\ \A i \in 1..Len(t) : t[i] = r[i + 1]
        /\ Len(t) \in Nat /\ Head(r) = r[1] /\ Head(r) \in Nat
    BY <1>4
  <2> HIDE DEF t
  <2>2. /\ E \in Seq(Seq(T)) /\ Len(E) = Len(r) /\ \A i \in 1..Len(r) : E[i] = Acks(r[i])
        /\ F \in Seq(Seq(T)) /\ Len(F) = Len(t) /\ \A i \in 1..Len(t) : F[i] = Acks(t[i])
    BY <1>1, <2>1
  <2> HIDE DEF E, F
  <2>3. ASSUME NEW i \in 1..Len(F) PROVE F[i] = E[i + 1]
    <3>1. i \in 1..Len(t) /\ i + 1 \in 1..Len(r) /\ t[i] = r[i + 1]
      BY <2>1, <2>2
    <3> QED BY <2>2, <3>1
  <2>4. FlattenSeq(F) \in Seq(T) /\ FlattenSeq(E) = E[1] \o FlattenSeq(F)
    <3>1. /\ E \in Seq(Seq(T)) /\ F \in Seq(Seq(T)) /\ Len(E) = Len(F) + 1
          /\ \A i \in 1..Len(F) : F[i] = E[i + 1]
      BY <2>1, <2>2, <2>3
    <3> QED BY <3>1, FlattenFirst
  <2>5. E[1] = Acks(Head(r))
    BY <2>1, <2>2
  <2> QED BY <1>3, <2>1, <2>4, <2>5 DEF E, F, t
<1>5. ASSUME NEW r \in Seq(Nat)
      PROVE  AcksOf(r) \in Seq(T)
  <2>1. CASE r = <<>>
    <3>1. <<>> \in Seq(T)
      OBVIOUS
    <3> QED BY <1>2, <2>1, <3>1
  <2>2. CASE r # <<>>
    <3>1. Acks(Head(r)) \in Seq(T)
      BY <1>4, <2>2, AcksType DEF T
    <3> QED BY <1>4, <2>2, <3>1, ConcatProperties
  <2> QED BY <2>1, <2>2
<1>6. ASSUME NEW n \in Nat
      PROVE  Len(AcksOf(Append(q, n))) = Len(AcksOf(q)) + n
  <2> DEFINE r == Append(q, n)
             E == M(q)
             F == M(r)
  <2>1. /\ r \in Seq(Nat) /\ Len(r) = Len(q) + 1 /\ r[Len(r)] = n /\ Len(q) \in Nat
        /\ \A i \in 1..Len(q) : r[i] = q[i]
    OBVIOUS
  <2> HIDE DEF r
  <2>2. /\ E \in Seq(Seq(T)) /\ Len(E) = Len(q) /\ \A i \in 1..Len(q) : E[i] = Acks(q[i])
        /\ F \in Seq(Seq(T)) /\ Len(F) = Len(r) /\ \A i \in 1..Len(r) : F[i] = Acks(r[i])
    BY <1>1, <2>1
  <2> HIDE DEF E, F
  <2>3. ASSUME NEW i \in 1..Len(E) PROVE F[i] = E[i]
    <3>1. i \in 1..Len(q) /\ i \in 1..Len(r) /\ r[i] = q[i]
      BY <2>1, <2>2
    <3> QED BY <2>2, <3>1
  <2>4. FlattenSeq(F) = FlattenSeq(E) \o F[Len(F)]
    <3>1. /\ E \in Seq(Seq(T)) /\ F \in Seq(Seq(T)) /\ Len(F) = Len(E) + 1
          /\ \A i \in 1..Len(E) : F[i] = E[i]
      BY <2>1, <2>2, <2>3
    <3> QED BY <3>1, FlattenLast
  <2>5. F[Len(F)] = Acks(n)
    BY <2>1, <2>2
  <2>6. Acks(n) \in Seq(T) /\ Len(Acks(n)) = n
    BY AcksType DEF T
  <2>7. AcksOf(r) = AcksOf(q) \o Acks(n) /\ AcksOf(q) \in Seq(T)
    BY <1>3, <1>5, <2>4, <2>5 DEF E, F
  <2>8. Len(AcksOf(q) \o Acks(n)) = Len(AcksOf(q)) + Len(Acks(n))
    BY <2>6, <2>7, ConcatProperties
  <2> QED BY <2>6, <2>7, <2>8 DEF r
<1>7. ASSUME q # <<>>
      PROVE  Head(q) \in Nat /\ Len(AcksOf(q)) = Head(q) + Len(AcksOf(Tail(q)))
  <2>1. /\ Head(q) \in Nat /\ AcksOf(Tail(q)) \in Seq(T)
        /\ AcksOf(q) = Acks(Head(q)) \o AcksOf(Tail(q))
    BY <1>4, <1>7
  <2>2. Acks(Head(q)) \in Seq(T) /\ Len(Acks(Head(q))) = Head(q)
    BY <2>1, AcksType DEF T
  <2>3. Len(Acks(Head(q)) \o AcksOf(Tail(q))) = Len(Acks(Head(q))) + Len(AcksOf(Tail(q)))
    BY <2>1, <2>2, ConcatProperties
  <2> QED BY <2>1, <2>2, <2>3
<1>8. AcksOf(q) \in Seq(T) /\ Len(AcksOf(q)) \in Nat
  <2>1. AcksOf(q) \in Seq(T)
    BY <1>5
  <2> QED BY <2>1
<1> QED BY <1>2, <1>6, <1>7, <1>8 DEF T

(* ... and the events counted by posters that have not yet queued them.    *)

\* One element for every wake-up event that the sub-HALs of W have counted.
CountedBy(W, n) == {t \in SubHals \X (1..MaxEvents) : t[1] \in W /\ t[2] <= n[t[1]]}

\* The sub-HALs that have counted the wake-up events of their batch.
Counting == {s \in SubHals : pc[s] = "write" /\ locked[s]}

LEMMA CountedIsBy == Counted = CountedBy(Counting, numWakeup)
<1>1. ASSUME NEW t \in SubHals \X (1..MaxEvents)
      PROVE  t[1] \in SubHals
  BY <1>1
<1>2. \A t \in SubHals \X (1..MaxEvents) :
        (pc[t[1]] = "write" /\ locked[t[1]] /\ t[2] <= numWakeup[t[1]])
          <=> (t[1] \in Counting /\ t[2] <= numWakeup[t[1]])
  BY <1>1 DEF Counting
<1> QED BY <1>2 DEF Counted, CountedBy

LEMMA CountedSame ==
  ASSUME NEW W, NEW n, NEW m, \A s \in W : n[s] = m[s]
  PROVE  CountedBy(W, n) = CountedBy(W, m)
BY DEF CountedBy

LEMMA CountedFinite ==
  ASSUME NEW W, NEW n
  PROVE  IsFiniteSet(CountedBy(W, n)) /\ Cardinality(CountedBy(W, n)) \in Nat
<1> DEFINE A == SubHals
           B == 1..MaxEvents
<1>1. IsFiniteSet(A) /\ IsFiniteSet(B)
  <2>1. 1 \in Int /\ MaxEvents \in Int
    BY ConstantsAssumption
  <2> QED BY <2>1, ConstantsAssumption, FS_Interval
<1>2. CountedBy(W, n) \subseteq A \X B
  BY DEF CountedBy
<1> HIDE DEF A, B
<1>3. IsFiniteSet(A \X B)
  BY <1>1, FS_Product
<1>4. IsFiniteSet(CountedBy(W, n))
  BY <1>2, <1>3, FS_Subset
<1> QED BY <1>4, FS_CardinalityType

LEMMA CountedByOneMore ==
  ASSUME NEW W, NEW n, NEW s \in SubHals, s \notin W, n[s] \in Nat, n[s] <= MaxEvents
  PROVE  Cardinality(CountedBy(W \cup {s}, n)) = Cardinality(CountedBy(W, n)) + n[s]
<1> DEFINE b   == n[s]
           one == {s} \X (1..b)
           old == CountedBy(W, n)
           new == CountedBy(W \cup {s}, n)
<1>1. b \in Nat /\ MaxEvents \in Nat /\ b <= MaxEvents
  BY ConstantsAssumption
<1>2. /\ \A k \in 1..MaxEvents : k <= b <=> k \in 1..b
      /\ 1..b \subseteq 1..MaxEvents
  BY <1>1
<1>3. new = old \cup one
  <2>1. ASSUME NEW q, NEW k
        PROVE  <<q, k>> \in new <=> <<q, k>> \in old \cup one
    <3>1. CASE q = s
      BY <1>2, <3>1 DEF CountedBy
    <3>2. CASE q # s
      BY <3>2 DEF CountedBy
    <3> QED BY <3>1, <3>2
  <2>2. /\ \A t \in new : t = <<t[1], t[2]>>
        /\ \A t \in old \cup one : t = <<t[1], t[2]>>
    BY DEF CountedBy
  <2> HIDE DEF old, one, new
  <2>3. ASSUME NEW t
        PROVE  t \in new <=> t \in old \cup one
    <3>1. <<t[1], t[2]>> \in new <=> <<t[1], t[2]>> \in old \cup one
      BY <2>1
    <3> QED BY <2>2, <3>1
  <2> QED BY <2>3
<1>4. IsFiniteSet(one) /\ Cardinality(one) = b
  <2> DEFINE A == {s}
             B == 1..b
  <2>1. IsFiniteSet(B) /\ Cardinality(B) = b
    <3>1. 1 \in Int /\ b \in Int
      BY <1>1
    <3>2. IsFiniteSet(1..b) /\ Cardinality(1..b) = IF 1 > b THEN 0 ELSE b - 1 + 1
      BY <3>1, FS_Interval
    <3> QED BY <1>1, <3>2
  <2>2. IsFiniteSet(A) /\ Cardinality(A) = 1
    BY FS_Singleton
  <2> HIDE DEF A, B
  <2>3. IsFiniteSet(A \X B) /\ Cardinality(A \X B) = Cardinality(A) * Cardinality(B)
    BY <2>1, <2>2, FS_Product
  <2>4. IsFiniteSet(A \X B) /\ Cardinality(A \X B) = b
    BY <1>1, <2>1, <2>2, <2>3
  <2> QED BY <2>4 DEF A, B
<1>5. IsFiniteSet(old) /\ Cardinality(old) \in Nat
  BY CountedFinite
<1>6. old \cap one = {}
  BY DEF CountedBy
<1> HIDE DEF old, one, new
<1>7. Cardinality(old \cup one) = Cardinality(old) + Cardinality(one) - Cardinality(old \cap one)
  BY <1>4, <1>5, FS_Union
<1>8. Cardinality(old \cap one) = 0 /\ Cardinality(new) = Cardinality(old \cup one)
  BY <1>3, <1>6, FS_EmptySet
<1>9. Cardinality(new) = Cardinality(old) + b
  BY <1>1, <1>4, <1>5, <1>7, <1>8
<1> QED BY <1>9 DEF old, new

\* A sequence has no more wake-up events than events; two sequences that agree
\* on which events are wake-up events have the same number of them.
LEMMA CountBounds ==
  ASSUME NEW q \in Seq(Event)
  PROVE  /\ countNumWakeupEvents(q) \in Nat /\ countNumWakeupEvents(q) <= Len(q)
         /\ \A r \in Seq(Event) : Len(r) = Len(q) /\ SameWakeups(r, q) =>
              countNumWakeupEvents(r) = countNumWakeupEvents(q)
<1> DEFINE W == {i \in DOMAIN q : q[i].handle \in WakeUp}
           D == 1..Len(q)
<1>1. Len(q) \in Nat /\ DOMAIN q = D
  OBVIOUS
<1>2. IsFiniteSet(D) /\ Cardinality(D) = Len(q)
  <2>1. 1 \in Int /\ Len(q) \in Int
    BY <1>1
  <2>2. IsFiniteSet(D) /\ Cardinality(D) = IF 1 > Len(q) THEN 0 ELSE Len(q) - 1 + 1
    BY <2>1, FS_Interval
  <2> QED BY <1>1, <2>2
<1>3. W \subseteq D
  BY <1>1
<1>4. ASSUME NEW r \in Seq(Event), Len(r) = Len(q), SameWakeups(r, q)
      PROVE  countNumWakeupEvents(r) = countNumWakeupEvents(q)
  <2>1. DOMAIN r = D
    BY <1>4
  <2>2. \A i \in D : r[i].handle \in WakeUp <=> q[i].handle \in WakeUp
    BY <1>4 DEF SameWakeups
  <2>3. {i \in DOMAIN r : r[i].handle \in WakeUp} = W
    BY <1>1, <2>1, <2>2
  <2> QED BY <2>3 DEF countNumWakeupEvents
<1> HIDE DEF W, D
<1>5. Cardinality(W) <= Cardinality(D) /\ Cardinality(W) \in Nat
  BY <1>2, <1>3, FS_Subset, FS_CardinalityType
<1>6. countNumWakeupEvents(q) = Cardinality(W)
  BY DEF countNumWakeupEvents, W
<1> QED BY <1>2, <1>4, <1>5, <1>6
-----------------------------------------------------------------------------
(***************************************************************************)
(* What is known as long as nothing has disturbed the count: before the    *)
(* first initialize nothing happens at all; after it the threads run, no   *)
(* ScopedWakelock is stale, and a poster has the lock exactly if its batch *)
(* holds a wake-up event.                                                  *)
(***************************************************************************)

Untouched ==
  /\ \A s \in SubHals : pc[s] = "idle" /\ ~active[s]
  /\ mEventQueue = <<>> /\ mPendingWriteEventsQueue = <<>> /\ mWakeLockQueue = <<>>
  /\ unacked = 0 /\ pwPc = "done" /\ wlPc = "done"

BeforeFirstStart == inits = 0 /\ initPc # "subhals"

RunsUndisturbed ==
  /\ BeforeFirstStart => ~mThreadsRun /\ Untouched
  /\ ~BeforeFirstStart => mThreadsRun /\ initPc \in {"idle", "subhals"}
  /\ pwPc \notin {"unref", "dropped"}
  /\ wlPc # "relock" => numProcessed = 0

PosterLocks ==
  \A s \in SubHals :
    /\ ~stale[s]
    /\ pc[s] \in {"idle", "acquire"} => ~locked[s]
    /\ pc[s] = "unref" => locked[s]
    /\ pc[s] \in {"post", "enter", "count", "write"} => (locked[s] <=> HasWakeup(batch[s]))
    /\ pc[s] = "write" => numWakeup[s] = countNumWakeupEvents(batch[s])

UndisturbedInv == undisturbed => RunsUndisturbed /\ PosterLocks

LEMMA UndisturbedInit == Init => UndisturbedInv
BY DEF Init, UndisturbedInv, RunsUndisturbed, BeforeFirstStart, Untouched, PosterLocks

LEMMA UndisturbedOnce ==
  ASSUME TypeOK, [Next]_vars, undisturbed'
  PROVE  undisturbed
<1>1. ASSUME NEW s \in SubHals, Poster(s)
      PROVE  undisturbed
  BY <1>1 DEF Poster, CreateScopedWakelock, Acquire, PostEvents, PostLock, PostCount,
              PostWrite, ReleaseScopedWakelock, Unref
<1>2. CASE handlePendingWrites
  BY <1>2 DEF handlePendingWrites, PwLock, PwTest, PwPark, PwSpuriousWakeup, PwWrite,
              PwWriteTimeout, PwUnref, PwRelock
<1>3. CASE handleWakelocks
  BY <1>3 DEF handleWakelocks, WlLock, WlTest, WlPark, WlSpuriousWakeup, WlRead,
              WlReadTimeout, WlRelock
<1>4. CASE initializeCommon
  BY <1>4 DEF initializeCommon, InitStop, InitDrain, InitKick, InitNotifyWl, InitNotifyPw,
              InitJoin, InitReset, InitDisable, InitClear, InitStart, InitSubHals
<1>5. CASE \/ \E s \in SubHals, enabled \in BOOLEAN : Activate(s, enabled)
           \/ Expire \/ FrameworkRead \/ FrameworkAck \/ UNCHANGED vars
  BY <1>5 DEF Activate, Expire, FrameworkRead, FrameworkAck, vars
<1> QED BY <1>1, <1>2, <1>3, <1>4, <1>5 DEF Next

LEMMA PosterRuns ==
  ASSUME RunsUndisturbed, NEW s \in SubHals, Poster(s)
  PROVE  mThreadsRun /\ ~BeforeFirstStart
BY DEF RunsUndisturbed, Untouched, Poster, CreateScopedWakelock, Acquire, PostEvents,
       PostLock, PostCount, PostWrite, ReleaseScopedWakelock, Unref

LEMMA RunsPoster ==
  ASSUME RunsUndisturbed, NEW s \in SubHals, Poster(s)
  PROVE  RunsUndisturbed'
<1> USE DEF queueVars, lockVars, pwVars, wlVars, initVars, postVars, fwVars
<1>1. mThreadsRun /\ ~BeforeFirstStart
  BY PosterRuns
<1>2. UNCHANGED <<mThreadsRun, inits, initPc, numProcessed>>
  BY DEF Poster, CreateScopedWakelock, Acquire, PostEvents, PostLock, PostCount,
         PostWrite, ReleaseScopedWakelock, Unref
<1>3. pwPc' = pwPc \/ pwPc' = Notified(pwPc)
  BY DEF Poster, CreateScopedWakelock, Acquire, PostEvents, PostLock, PostCount,
         PostWrite, ReleaseScopedWakelock, Unref
<1>4. wlPc' = wlPc \/ wlPc' = Notified(wlPc)
  BY DEF Poster, CreateScopedWakelock, Acquire, PostEvents, PostLock, PostCount,
         PostWrite, ReleaseScopedWakelock, Unref, IncrementRefCount
<1>5. /\ pwPc' \notin {"unref", "dropped"}
      /\ wlPc' # "relock" => numProcessed' = 0
  BY <1>2, <1>3, <1>4 DEF RunsUndisturbed, Notified
<1> QED BY <1>1, <1>2, <1>5 DEF RunsUndisturbed, BeforeFirstStart

LEMMA RunsOthers ==
  ASSUME TypeOK, RunsUndisturbed, undisturbed',
         \/ handlePendingWrites \/ handleWakelocks \/ initializeCommon
         \/ \E s \in SubHals, enabled \in BOOLEAN : Activate(s, enabled)
         \/ Expire \/ FrameworkRead \/ FrameworkAck \/ UNCHANGED vars
  PROVE  RunsUndisturbed'
<1> USE DEF queueVars, lockVars, pwVars, wlVars, initVars, postVars, fwVars
<1>0. UNCHANGED pc
  BY OthersLeavePosters
<1>1. CASE handlePendingWrites
  <2>1. pwPc # "done"
    BY <1>1 DEF handlePendingWrites, PwLock, PwTest, PwPark, PwSpuriousWakeup, PwWrite,
                PwWriteTimeout, PwUnref, PwRelock
  <2>2. UNCHANGED <<mThreadsRun, inits, initPc, numProcessed, wlPc>>
    BY <1>1 DEF handlePendingWrites, PwLock, PwTest, PwPark, PwSpuriousWakeup, PwWrite,
                PwWriteTimeout, PwUnref, PwRelock
  <2>3. pwPc' \notin {"unref", "dropped"}
    BY <1>1 DEF handlePendingWrites, PwLock, PwTest, PwPark, PwSpuriousWakeup, PwWrite,
                PwWriteTimeout, PwUnref, PwRelock, RunsUndisturbed
  <2> QED BY <2>1, <2>2, <2>3 DEF RunsUndisturbed, BeforeFirstStart, Untouched
<1>2. CASE handleWakelocks
  <2>1. wlPc # "done"
    BY <1>2 DEF handleWakelocks, WlLock, WlTest, WlPark, WlSpuriousWakeup, WlRead,
                WlReadTimeout, WlRelock
  <2>2. UNCHANGED <<mThreadsRun, inits, initPc, pwPc>>
    BY <1>2 DEF handleWakelocks, WlLock, WlTest, WlPark, WlSpuriousWakeup, WlRead,
                WlReadTimeout, WlRelock
  <2>3. wlPc' # "relock" => numProcessed' = 0
    BY <1>2 DEF handleWakelocks, WlLock, WlTest, WlPark, WlSpuriousWakeup, WlRead,
                WlReadTimeout, WlRelock, RunsUndisturbed
  <2> QED BY <2>1, <2>2, <2>3 DEF RunsUndisturbed, BeforeFirstStart, Untouched
<1>3. CASE InitStop
  BY <1>0, <1>3 DEF InitStop, InitGoto, RunsUndisturbed, BeforeFirstStart, Untouched
<1>4. CASE InitDrain \/ InitKick \/ InitNotifyWl \/ InitNotifyPw \/ InitJoin \/ InitReset \/ InitClear
  <2>1. BeforeFirstStart /\ BeforeFirstStart'
    BY <1>4 DEF InitDrain, InitKick, InitNotifyWl, InitNotifyPw, InitJoin, InitReset,
                InitClear, InitGoto, RunsUndisturbed, BeforeFirstStart
  <2>2. UNCHANGED <<mThreadsRun, active, numProcessed>>
    BY <1>4 DEF InitDrain, InitKick, InitNotifyWl, InitNotifyPw, InitJoin, InitReset, InitClear
  <2>3. Untouched
    BY <2>1 DEF RunsUndisturbed
  <2>4. UNCHANGED <<mEventQueue, mPendingWriteEventsQueue, mWakeLockQueue, unacked, pwPc, wlPc>>
    <3>1. /\ inits = 0 /\ mEventQueue = <<>> /\ mPendingWriteEventsQueue = <<>>
          /\ mWakeLockQueue = <<>> /\ unacked = 0 /\ pwPc = "done" /\ wlPc = "done"
      BY <2>1, <2>3 DEF Untouched, BeforeFirstStart
    <3>2. CASE InitDrain
      BY <3>1, <3>2 DEF InitDrain
    <3>3. CASE InitKick
      BY <3>1, <3>3 DEF InitKick
    <3>4. CASE InitNotifyWl \/ InitNotifyPw
      BY <3>1, <3>4 DEF InitNotifyWl, InitNotifyPw, Notified
    <3>5. CASE InitJoin \/ InitReset
      BY <3>5 DEF InitJoin, InitReset
    <3>6. CASE InitClear
      BY <3>1, <3>6 DEF InitClear
    <3> QED BY <1>4, <3>2, <3>3, <3>4, <3>5, <3>6
  <2> QED BY <1>0, <2>1, <2>2, <2>3, <2>4 DEF RunsUndisturbed, Untouched
<1>5. CASE InitDisable
  <2>1. PICK failing \in SUBSET MayFail :
          active' = [s \in SubHals |-> active[s] /\ s \in failing]
    BY <1>5 DEF InitDisable
  <2>2. \A s \in SubHals : ~active[s] => ~active'[s]
    BY <2>1
  <2>3. BeforeFirstStart /\ BeforeFirstStart'
    BY <1>5 DEF InitDisable, InitGoto, RunsUndisturbed, BeforeFirstStart
  <2>4. UNCHANGED <<mThreadsRun, mEventQueue, mPendingWriteEventsQueue, mWakeLockQueue,
                    unacked, pwPc, wlPc, numProcessed>>
    BY <1>5 DEF InitDisable
  <2> QED BY <1>0, <2>2, <2>3, <2>4 DEF RunsUndisturbed, Untouched
<1>6. CASE InitStart \/ InitSubHals
  <2>1. ~BeforeFirstStart' /\ mThreadsRun' /\ initPc' \in {"idle", "subhals"}
    <3>1. CASE InitStart
      BY <3>1 DEF InitStart, InitGoto, BeforeFirstStart
    <3>2. CASE InitSubHals
      <4>1. inits \in Nat /\ inits' = inits + 1 /\ initPc = "subhals" /\ initPc' = "idle"
            /\ mThreadsRun' = mThreadsRun
        BY <3>2 DEF InitSubHals, InitGoto, TypeOK, ThreadsOK
      <4>2. mThreadsRun
        BY <4>1 DEF RunsUndisturbed, BeforeFirstStart
      <4>3. inits' # 0
        BY <4>1
      <4> QED BY <4>1, <4>2, <4>3 DEF BeforeFirstStart
    <3> QED BY <1>6, <3>1, <3>2
  <2>2. pwPc' \notin {"unref", "dropped"} /\ (wlPc' # "relock" => numProcessed' = 0)
    BY <1>6 DEF InitStart, InitSubHals, InitGoto, RunsUndisturbed, BeforeFirstStart, Untouched
  <2> QED BY <2>1, <2>2 DEF RunsUndisturbed
<1>7. CASE \/ \E s \in SubHals, enabled \in BOOLEAN : Activate(s, enabled)
           \/ FrameworkRead \/ FrameworkAck
  <2>1. UNCHANGED <<mThreadsRun, inits, initPc, pwPc, wlPc, numProcessed>>
    BY <1>7 DEF Activate, FrameworkRead, FrameworkAck
  <2>2. ~BeforeFirstStart
    <3>1. inits > 0 \/ mEventQueue # <<>> \/ unacked > 0
      BY <1>7 DEF Activate, FrameworkRead, FrameworkAck
    <3>2. BeforeFirstStart => inits = 0 /\ mEventQueue = <<>> /\ unacked = 0
      BY DEF RunsUndisturbed, BeforeFirstStart, Untouched
    <3> QED BY <3>1, <3>2
  <2> QED BY <2>1, <2>2 DEF RunsUndisturbed, BeforeFirstStart
<1>8. CASE Expire \/ UNCHANGED vars
  <2>1. UNCHANGED <<mThreadsRun, inits, initPc, pwPc, wlPc, numProcessed, active,
                    mEventQueue, mPendingWriteEventsQueue, mWakeLockQueue, unacked>>
    BY <1>8 DEF Expire, vars
  <2> QED BY <1>0, <2>1 DEF RunsUndisturbed, BeforeFirstStart, Untouched
<1> QED BY <1>1, <1>2, <1>3, <1>4, <1>5, <1>6, <1>7, <1>8 DEF initializeCommon

LEMMA PosterLocksPoster ==
  ASSUME TypeOK, WakeupsCounted, mThreadsRun, PosterLocks, NEW s \in SubHals, Poster(s)
  PROVE  PosterLocks'
<1> USE DEF postVars
<1> DEFINE Fine(st, p, l, b, n) ==
             /\ ~st
             /\ p \in {"idle", "acquire"} => ~l
             /\ p = "unref" => l
             /\ p \in {"post", "enter", "count", "write"} => (l <=> HasWakeup(b))
             /\ p = "write" => n = countNumWakeupEvents(b)
<1>0. ASSUME \A t \in SubHals : Fine(stale'[t], pc'[t], locked'[t], batch'[t], numWakeup'[t])
      PROVE  PosterLocks'
  BY <1>0 DEF PosterLocks, HasWakeup, countNumWakeupEvents
<1>1. \A t \in SubHals : Fine(stale[t], pc[t], locked[t], batch[t], numWakeup[t])
  BY DEF PosterLocks
<1>2. ASSUME NEW t \in SubHals, t # s
      PROVE  Fine(stale'[t], pc'[t], locked'[t], batch'[t], numWakeup'[t])
  <2>1. /\ pc'[t] = pc[t] /\ locked'[t] = locked[t] /\ batch'[t] = batch[t]
        /\ numWakeup'[t] = numWakeup[t] /\ stale'[t] = stale[t]
    BY <1>2 DEF TypeOK, PostersOK, Poster, CreateScopedWakelock, Acquire, PostEvents,
                PostLock, PostCount, PostWrite, ReleaseScopedWakelock, Unref
  <2> QED BY <1>1, <2>1
<1>3. Fine(stale'[s], pc'[s], locked'[s], batch'[s], numWakeup'[s])
  <2>1. CASE CreateScopedWakelock(s)
    <3>1. PICK b \in Batches :
            /\ batch' = [batch EXCEPT ![s] =
                 [i \in 1..Len(b) |-> [src |-> s, id |-> generated[s] + i, handle |-> b[i]]]]
            /\ pc' = [pc EXCEPT ![s] =
                 IF mThreadsRun /\ \E i \in DOMAIN b : b[i] \in WakeUp
                 THEN "acquire" ELSE "post"]
      BY <2>1 DEF CreateScopedWakelock
    <3>2. DOMAIN b = 1..Len(b)
      BY ConstantsAssumption
    <3>3. batch'[s] = [i \in 1..Len(b) |->
                         [src |-> s, id |-> generated[s] + i, handle |-> b[i]]]
      BY <3>1 DEF TypeOK, PostersOK
    <3>4. HasWakeup(batch'[s]) => \E i \in DOMAIN b : b[i] \in WakeUp
      BY <3>2, <3>3 DEF HasWakeup
    <3>5. \/ pc'[s] = "acquire"
          \/ pc'[s] = "post" /\ ~HasWakeup(batch'[s])
      BY <3>1, <3>4 DEF TypeOK, PostersOK
    <3>6. ~locked'[s] /\ ~stale'[s]
      BY <1>1, <2>1 DEF CreateScopedWakelock
    <3> QED BY <3>5, <3>6
  <2>2. CASE Acquire(s)
    <3>1. /\ pc[s] = "acquire" /\ pc'[s] = "post" /\ locked'[s] /\ ~stale'[s]
          /\ batch'[s] = batch[s]
      BY <2>2 DEF TypeOK, PostersOK, Acquire
    <3>2. HasWakeup(batch[s])
      BY <3>1 DEF WakeupsCounted
    <3> QED BY <3>1, <3>2
  <2>3. CASE PostEvents(s) \/ PostLock(s) \/ PostCount(s) \/ PostWrite(s)
    <3>1. /\ stale'[s] = stale[s] /\ locked'[s] = locked[s] /\ batch'[s] = batch[s]
      BY <2>3 DEF PostEvents, PostLock, PostCount, PostWrite
    <3>2. \/ pc[s] = "post" /\ pc'[s] \in {"release", "enter"}
          \/ /\ pc[s] \in {"enter", "count"} /\ pc'[s] \in {"count", "write"}
             /\ numWakeup'[s] = numWakeup[s]
          \/ pc'[s] = "release"
      BY <2>3 DEF TypeOK, PostersOK, PostEvents, PostLock, PostCount, PostWrite
    <3>3. pc[s] \in {"enter", "count"} => numWakeup[s] = countNumWakeupEvents(batch[s])
      BY DEF WakeupsCounted
    <3> QED BY <1>1, <3>1, <3>2, <3>3
  <2>4. CASE ReleaseScopedWakelock(s)
    <3>1. /\ stale'[s] = stale[s] /\ (locked'[s] <=> locked[s])
          /\ \/ locked[s] /\ pc'[s] = "unref"
             \/ ~locked[s] /\ pc'[s] = "idle"
      BY <2>4 DEF TypeOK, PostersOK, ReleaseScopedWakelock
    <3> QED BY <1>1, <3>1
  <2>5. CASE Unref(s)
    <3>1. pc'[s] = "idle" /\ ~locked'[s] /\ ~stale'[s]
      BY <2>5 DEF TypeOK, PostersOK, Unref
    <3> QED BY <3>1
  <2> QED BY <2>1, <2>2, <2>3, <2>4, <2>5 DEF Poster
<1> HIDE DEF Fine
<1> QED BY <1>0, <1>2, <1>3

LEMMA PosterLocksOthers ==
  ASSUME TypeOK, RunsUndisturbed, PosterLocks, undisturbed',
         \/ handlePendingWrites \/ handleWakelocks \/ initializeCommon
         \/ \E s \in SubHals, enabled \in BOOLEAN : Activate(s, enabled)
         \/ Expire \/ FrameworkRead \/ FrameworkAck \/ UNCHANGED vars
  PROVE  PosterLocks' /\ \A s \in SubHals : stale'[s] = stale[s]
<1> USE DEF postVars
<1>1. UNCHANGED <<pc, batch, numWakeup, locked>>
  BY OthersLeavePosters
<1>2. ASSUME \A s \in SubHals : stale'[s] = stale[s]
      PROVE  PosterLocks'
  BY <1>1, <1>2 DEF PosterLocks
<1>3. \A s \in SubHals : stale'[s] = stale[s]
  <2>1. CASE InitReset
    <3>1. stale' = locked /\ initPc = "reset"
      BY <2>1 DEF InitReset, InitGoto, SetResetTime
    <3>2. \A s \in SubHals : pc[s] = "idle"
      BY <3>1 DEF RunsUndisturbed, BeforeFirstStart, Untouched
    <3>3. \A s \in SubHals : locked[s] \in BOOLEAN /\ stale[s] \in BOOLEAN /\ ~locked[s] /\ ~stale[s]
      BY <3>2 DEF PosterLocks, TypeOK, PostersOK
    <3>4. \A s \in SubHals : locked[s] = stale[s]
      BY <3>3
    <3> QED BY <3>1, <3>4
  <2>2. CASE WlTest
    <3>1. wlPc = "test" /\ (stale' = stale \/ ~mThreadsRun)
      BY <2>2 DEF WlTest
    <3>2. mThreadsRun
      BY <3>1 DEF RunsUndisturbed, Untouched
    <3> QED BY <3>1, <3>2
  <2>3. CASE ~InitReset /\ ~WlTest
    <3>1. CASE handlePendingWrites
      BY <3>1 DEF handlePendingWrites, PwLock, PwTest, PwPark, PwSpuriousWakeup, PwWrite,
                  PwWriteTimeout, PwUnref, PwRelock
    <3>2. CASE handleWakelocks
      BY <2>3, <3>2 DEF handleWakelocks, WlLock, WlPark, WlSpuriousWakeup, WlRead,
                  WlReadTimeout, WlRelock
    <3>3. CASE initializeCommon
      BY <2>3, <3>3 DEF initializeCommon, InitStop, InitDrain, InitKick, InitNotifyWl,
                  InitNotifyPw, InitJoin, InitDisable, InitClear, InitStart, InitSubHals
    <3>4. CASE \/ \E s \in SubHals, enabled \in BOOLEAN : Activate(s, enabled)
               \/ Expire \/ FrameworkRead \/ FrameworkAck \/ UNCHANGED vars
      BY <3>4 DEF Activate, Expire, FrameworkRead, FrameworkAck, vars
    <3> QED BY <3>1, <3>2, <3>3, <3>4
  <2> QED BY <2>1, <2>2, <2>3
<1> QED BY <1>2, <1>3

LEMMA UndisturbedNext ==
  ASSUME FrontInv, WakeupsCounted, UndisturbedInv, [Next]_vars
  PROVE  UndisturbedInv'
<1> SUFFICES ASSUME undisturbed' PROVE RunsUndisturbed' /\ PosterLocks'
  BY DEF UndisturbedInv
<1>1. TypeOK /\ RunsUndisturbed /\ PosterLocks
  BY UndisturbedOnce DEF FrontInv, UndisturbedInv
<1>2. ASSUME NEW s \in SubHals, Poster(s)
      PROVE  RunsUndisturbed' /\ PosterLocks'
  BY <1>1, <1>2, PosterRuns, RunsPoster, PosterLocksPoster
<1> QED BY <1>1, <1>2, RunsOthers, PosterLocksOthers DEF Next
-----------------------------------------------------------------------------
(* The parts of References.                                                *)

LiveLocks == {s \in SubHals : locked[s] /\ ~stale[s]}
LockRefs  == Cardinality(LiveLocks)
PostRefs  == Cardinality(Counted)
EventRefs == countNumWakeupEvents(InFlight)
AckRefs   == Len(Acknowledged)

LEMMA ReferenceParts ==
  References = LockRefs + PostRefs + EventRefs + unacked + AckRefs + numProcessed
BY DEF References, LockRefs, LiveLocks, PostRefs, EventRefs, AckRefs

LEMMA ReferencePartsType ==
  ASSUME FrontInv
  PROVE  /\ LockRefs \in Nat /\ PostRefs \in Nat /\ EventRefs \in Nat
         /\ unacked \in Nat /\ AckRefs \in Nat /\ numProcessed \in Nat
         /\ AckRefs = Len(AcksOf(mWakeLockQueue)) /\ mWakeLockQueue \in Seq(Nat)
         /\ mWakelockRefCount \in Nat
<1>1. IsFiniteSet(SubHals) /\ LiveLocks \subseteq SubHals
  BY ConstantsAssumption DEF LiveLocks
<1>2. LockRefs \in Nat
  BY <1>1, FS_Subset, FS_CardinalityType DEF LockRefs
<1>3. PostRefs \in Nat
  BY CountedIsBy, CountedFinite DEF PostRefs
<1>4. EventRefs \in Nat
  BY DoneInPending, CountType DEF EventRefs
<1>5. mWakeLockQueue \in Seq(Nat) /\ numProcessed \in Nat /\ mWakelockRefCount \in Nat /\ unacked \in Nat
  BY DEF FrontInv, TypeOK, QueuesOK, WakelockOK, FrameworkOK
<1>6. AckRefs = Len(AcksOf(mWakeLockQueue))
  BY DEF AckRefs, Acknowledged, AcksOf, Acks
<1>7. AckRefs \in Nat
  BY <1>5, <1>6, AcksOfQueue
<1> QED BY <1>2, <1>3, <1>4, <1>5, <1>6, <1>7

LEMMA PostRefsBy ==
  /\ PostRefs = Cardinality(CountedBy(Counting, numWakeup))
  /\ PostRefs' = Cardinality(CountedBy(Counting', numWakeup'))
<1>1. PostRefs = Cardinality(CountedBy(Counting, numWakeup))
  BY CountedIsBy DEF PostRefs
<1>2. CountedBy(Counting, numWakeup)' = CountedBy(Counting', numWakeup')
  BY DEF CountedBy
<1>3. (Counted = CountedBy(Counting, numWakeup))'
  BY CountedIsBy, PTL
<1> QED BY <1>1, <1>2, <1>3 DEF PostRefs

LEMMA PostRefsSame ==
  ASSUME Counting' = Counting, \A s \in Counting : numWakeup'[s] = numWakeup[s]
  PROVE  PostRefs' = PostRefs
<1>1. CountedBy(Counting, numWakeup') = CountedBy(Counting, numWakeup)
  BY CountedSame
<1> QED BY <1>1, PostRefsBy

\* One ScopedWakelock more.
LEMMA LocksOneMore ==
  ASSUME NEW L \in SUBSET SubHals, NEW s \in SubHals, s \notin L
  PROVE  Cardinality(L) \in Nat /\ Cardinality(L \cup {s}) = Cardinality(L) + 1
<1>1. IsFiniteSet(L)
  BY ConstantsAssumption, FS_Subset
<1> QED BY <1>1, FS_AddElement, FS_CardinalityType

\* The steps of a poster that add and drop references: the ScopedWakelock ...
LEMMA RefAcquire ==
  ASSUME FrontInv, PosterLocks, NEW s \in SubHals, Acquire(s)
  PROVE  /\ LockRefs' = LockRefs + 1 /\ PostRefs' = PostRefs
         /\ mWakelockRefCount' = mWakelockRefCount + 1
<1> USE DEF FrontInv, TypeOK, PostersOK
<1>1. pc[s] = "acquire" /\ pc' = [pc EXCEPT ![s] = "post"]
      /\ locked' = [locked EXCEPT ![s] = TRUE] /\ stale' = [stale EXCEPT ![s] = FALSE]
      /\ numWakeup' = numWakeup
  BY DEF Acquire
<1>2. s \notin LiveLocks /\ LiveLocks' = LiveLocks \cup {s}
  BY <1>1 DEF PosterLocks, LiveLocks
<1>3. LockRefs' = LockRefs + 1
  <2>1. LiveLocks \in SUBSET SubHals
    BY DEF LiveLocks
  <2> QED BY <1>2, <2>1, LocksOneMore DEF LockRefs
<1>4. Counting' = Counting
  BY <1>1 DEF Counting
<1>5. PostRefs' = PostRefs
  BY <1>1, <1>4, PostRefsSame
<1>6. mWakelockRefCount' = mWakelockRefCount + 1
  BY DEF Acquire, IncrementRefCount
<1> QED BY <1>3, <1>5, <1>6

LEMMA RefUnref ==
  ASSUME FrontInv, PosterLocks, NEW s \in SubHals, Unref(s)
  PROVE  /\ LockRefs = LockRefs' + 1 /\ PostRefs' = PostRefs /\ LockRefs' \in Nat
         /\ mWakelockRefCount' = mWakelockRefCount - Lesser(mWakelockRefCount, 1)
<1> USE DEF FrontInv, TypeOK, PostersOK
<1>1. pc[s] = "unref" /\ pc' = [pc EXCEPT ![s] = "idle"]
      /\ locked' = [locked EXCEPT ![s] = FALSE] /\ stale' = [stale EXCEPT ![s] = FALSE]
      /\ numWakeup' = numWakeup
  BY DEF Unref
<1>2. locked[s] /\ ~stale[s]
  BY <1>1 DEF PosterLocks
<1>3. s \notin LiveLocks' /\ LiveLocks = LiveLocks' \cup {s} /\ LiveLocks' \in SUBSET SubHals
  BY <1>1, <1>2 DEF PosterLocks, LiveLocks
<1>4. LockRefs = LockRefs' + 1 /\ LockRefs' \in Nat
  <2> DEFINE L == LiveLocks'
  <2>1. s \notin L /\ LiveLocks = L \cup {s} /\ L \in SUBSET SubHals
    BY <1>3
  <2> HIDE DEF L
  <2>2. Cardinality(L) \in Nat /\ Cardinality(LiveLocks) = Cardinality(L) + 1
    BY <2>1, LocksOneMore
  <2> QED BY <2>2 DEF LockRefs, L
<1>5. Counting' = Counting
  BY <1>1 DEF Counting
<1>6. PostRefs' = PostRefs
  BY <1>1, <1>5, PostRefsSame
<1>7. mWakelockRefCount' = mWakelockRefCount - Lesser(mWakelockRefCount, 1)
  BY <1>2 DEF Unref, DecrementRefCount
<1> QED BY <1>4, <1>6, <1>7

(* ... the wake-up events when they are counted ...                        *)

LEMMA RefPostCount ==
  ASSUME FrontInv, BatchNumbered, WakeupsCounted, NEW s \in SubHals, PostCount(s)
  PROVE  /\ numWakeup[s] \in Nat /\ PostRefs' = PostRefs + numWakeup[s]
         /\ mWakelockRefCount' = mWakelockRefCount + numWakeup[s]
<1> USE DEF FrontInv, TypeOK, PostersOK
<1>1. pc[s] = "count" /\ pc' = [pc EXCEPT ![s] = "write"] /\ locked' = locked
      /\ numWakeup' = numWakeup
  BY DEF PostCount
<1>2. locked[s] /\ numWakeup[s] = countNumWakeupEvents(batch[s])
  BY <1>1 DEF WakeupsCounted
<1>3. numWakeup[s] \in Nat /\ numWakeup[s] <= MaxEvents
  <2>1. batch[s] \in Seq(Event) /\ generated[s] \in Nat /\ MaxEvents \in Nat
    BY ConstantsAssumption
  <2>2. Len(batch[s]) <= generated[s] /\ generated[s] <= MaxEvents /\ Len(batch[s]) \in Nat
    BY <1>1, <2>1 DEF BatchNumbered, Unposted
  <2>3. countNumWakeupEvents(batch[s]) \in Nat /\ countNumWakeupEvents(batch[s]) <= Len(batch[s])
    BY <2>1, CountBounds
  <2> QED BY <1>2, <2>1, <2>2, <2>3
<1>4. s \notin Counting /\ Counting' = Counting \cup {s}
  BY <1>1, <1>2 DEF Counting
<1>5. PostRefs' = PostRefs + numWakeup[s]
  BY <1>1, <1>3, <1>4, PostRefsBy, CountedByOneMore
<1>6. mWakelockRefCount' = mWakelockRefCount + numWakeup[s]
  BY DEF PostCount, IncrementRefCount
<1> QED BY <1>3, <1>5, <1>6

(* ... and when they are queued: what was counted is what is queued.       *)

LEMMA RefPostWrite ==
  ASSUME ZeroHandle \notin WakeUp, undisturbed',
         FrontInv, BatchNumbered, PosterLocks, NEW s \in SubHals, PostWrite(s)
  PROVE  PostRefs' + EventRefs' = PostRefs + EventRefs
<1>a. TypeOK /\ PostersOK
  BY DEF FrontInv, TypeOK
<1>1. pc[s] = "write" /\ pc' = [pc EXCEPT ![s] = "release"] /\ locked' = locked
      /\ numWakeup' = numWakeup
  BY DEF PostWrite
<1>2. /\ (locked[s] <=> HasWakeup(batch[s]))
      /\ numWakeup[s] = countNumWakeupEvents(batch[s])
  BY <1>1 DEF PosterLocks
<1> DEFINE n == countNumWakeupEvents(batch[s])
<1>3. n \in Nat /\ n <= MaxEvents /\ (HasWakeup(batch[s]) <=> n > 0)
  <2>1. batch[s] \in Seq(Event) /\ generated[s] \in Nat /\ MaxEvents \in Nat
    BY <1>a, ConstantsAssumption DEF PostersOK
  <2>2. Len(batch[s]) <= generated[s] /\ generated[s] <= MaxEvents /\ Len(batch[s]) \in Nat
    BY <1>1, <2>1 DEF BatchNumbered, Unposted
  <2>3. n \in Nat /\ n <= Len(batch[s])
    BY <2>1, CountBounds
  <2>4. HasWakeup(batch[s]) <=> n > 0
    BY <2>1, CountType DEF HasWakeup
  <2> HIDE DEF n
  <2> QED BY <2>1, <2>2, <2>3, <2>4
<1>4. EventRefs \in Nat /\ EventRefs' = EventRefs + n
  <2>1. PICK events \in Seq(Event), k \in 0..Len(batch[s]) :
          /\ Len(events) = Len(batch[s])
          /\ InFlight' = InFlight \o SubSeq(events, 1, k)
          /\ k = Len(batch[s]) /\ SameWakeups(events, batch[s])
    BY FlightPost
  <2>2. SubSeq(events, 1, k) = events
    BY <2>1, SubSeqFull
  <2>3. InFlight \in Seq(Event) /\ batch[s] \in Seq(Event)
    BY <1>a, DoneInPending DEF PostersOK
  <2>4. /\ countNumWakeupEvents(InFlight) \in Nat
        /\ countNumWakeupEvents(InFlight \o events)
             = countNumWakeupEvents(InFlight) + countNumWakeupEvents(events)
    BY <2>3, CountConcat
  <2>5. countNumWakeupEvents(events) = countNumWakeupEvents(batch[s])
    BY <2>1, <2>3, CountBounds
  <2>6. countNumWakeupEvents(InFlight)' = countNumWakeupEvents(InFlight')
    BY DEF countNumWakeupEvents
  <2> QED BY <2>1, <2>2, <2>4, <2>5, <2>6 DEF EventRefs
<1> HIDE DEF n
<1>5. CASE locked[s]
  <2>1. s \notin Counting' /\ Counting = Counting' \cup {s}
    BY <1>1, <1>5, <1>a DEF Counting, PostersOK
  <2> DEFINE C == Counting'
  <2>2. s \notin C /\ Counting = C \cup {s} /\ PostRefs' = Cardinality(CountedBy(C, numWakeup))
    BY <1>1, <2>1, PostRefsBy
  <2> HIDE DEF C
  <2>3. numWakeup[s] \in Nat /\ numWakeup[s] <= MaxEvents /\ numWakeup[s] = n
    BY <1>2, <1>3 DEF n
  <2>4. Cardinality(CountedBy(C \cup {s}, numWakeup)) = Cardinality(CountedBy(C, numWakeup)) + numWakeup[s]
    BY <2>2, <2>3, CountedByOneMore
  <2>5. Cardinality(CountedBy(C, numWakeup)) \in Nat
    BY CountedFinite
  <2>6. PostRefs = PostRefs' + n /\ PostRefs' \in Nat
    BY <2>2, <2>3, <2>4, <2>5, PostRefsBy
  <2> QED BY <1>3, <1>4, <2>6
<1>6. CASE ~locked[s]
  <2>1. Counting' = Counting
    BY <1>1, <1>6, <1>a DEF Counting, PostersOK
  <2>2. PostRefs' = PostRefs
    BY <1>1, <2>1, PostRefsSame
  <2>3. n = 0
    BY <1>2, <1>3, <1>6
  <2> QED BY <1>4, <2>2, <2>3
<1> QED BY <1>5, <1>6

\* The other steps of a poster.
LEMMA RefPosterIdle ==
  ASSUME FrontInv, PosterLocks, mThreadsRun, NEW s \in SubHals,
         \/ CreateScopedWakelock(s) \/ PostEvents(s) \/ PostLock(s)
         \/ ReleaseScopedWakelock(s)
  PROVE  LockRefs' = LockRefs /\ PostRefs' = PostRefs /\ mWakelockRefCount' = mWakelockRefCount
<1>0. PostersOK
  BY DEF FrontInv, TypeOK
<1>1. /\ stale' = stale /\ mWakelockRefCount' = mWakelockRefCount
      /\ \A t \in SubHals : locked'[t] <=> locked[t]
  BY <1>0 DEF PostersOK, CreateScopedWakelock, PostEvents, PostLock, ReleaseScopedWakelock,
              lockVars
<1>2. LiveLocks' = LiveLocks
  BY <1>1 DEF LiveLocks
<1>3. /\ \A t \in SubHals : t # s => pc'[t] = pc[t] /\ numWakeup'[t] = numWakeup[t]
      /\ pc[s] # "write" /\ (pc'[s] = "write" => ~locked[s])
  BY <1>0 DEF PostersOK, CreateScopedWakelock, PostEvents, PostLock, ReleaseScopedWakelock
<1>4. Counting' = Counting /\ s \notin Counting
  BY <1>1, <1>3 DEF Counting
<1>5. \A t \in Counting : numWakeup'[t] = numWakeup[t]
  BY <1>3, <1>4 DEF Counting
<1> QED BY <1>1, <1>2, <1>4, <1>5, PostRefsSame DEF LockRefs

\* A step that moves no event and does not finish with the front of the
\* pending queue.
LEMMA SameFlight ==
  ASSUME UNCHANGED <<mEventQueue, mPendingWriteEventsQueue>>, Done' = Done
  PROVE  EventRefs' = EventRefs
<1>1. InFlight' = InFlight
  BY FlightUnchanged
<1> QED BY <1>1 DEF EventRefs, countNumWakeupEvents

\* Sums of six parts, one of which gets smaller, or two of which trade.
LEMMA SumWithOneLess ==
  ASSUME NEW l \in Nat, NEW p \in Nat, NEW e \in Nat, NEW u \in Nat, NEW a \in Nat,
         NEW n \in Nat, NEW d \in Nat
  PROVE  /\ d <= (l + d) + p + e + u + a + n
         /\ ((l + d) + p + e + u + a + n) - d = l + p + e + u + a + n
OBVIOUS

LEMMA SumWithTrade ==
  ASSUME NEW l \in Nat, NEW p \in Nat, NEW e \in Nat, NEW u \in Nat, NEW a \in Nat,
         NEW n \in Nat, NEW q \in Nat, NEW f \in Nat, q + f = p + e
  PROVE  l + q + f + u + a + n = l + p + e + u + a + n
OBVIOUS

LEMMA RefPoster ==
  ASSUME ZeroHandle \notin WakeUp, undisturbed', FrontInv, BatchNumbered, WakeupsCounted,
         RunsUndisturbed, PosterLocks, mWakelockRefCount = References,
         NEW s \in SubHals, Poster(s)
  PROVE  mWakelockRefCount' = References'
<1> USE DEF queueVars, pwVars, wlVars, fwVars
<1>0. mThreadsRun
  BY PosterRuns
<1>1. /\ LockRefs \in Nat /\ PostRefs \in Nat /\ EventRefs \in Nat
      /\ unacked \in Nat /\ AckRefs \in Nat /\ numProcessed \in Nat
      /\ mWakelockRefCount \in Nat
  BY ReferencePartsType
<1>2. /\ mWakelockRefCount = LockRefs + PostRefs + EventRefs + unacked + AckRefs + numProcessed
      /\ References' = LockRefs' + PostRefs' + EventRefs' + unacked' + AckRefs' + numProcessed'
  <2>1. (References = LockRefs + PostRefs + EventRefs + unacked + AckRefs + numProcessed)'
    BY ReferenceParts, PTL
  <2> QED BY <2>1, ReferenceParts
<1>3. unacked' = unacked /\ AckRefs' = AckRefs /\ numProcessed' = numProcessed
  <2>1. UNCHANGED <<unacked, mWakeLockQueue, numProcessed>>
    BY DEF Poster, CreateScopedWakelock, Acquire, PostEvents, PostLock, PostCount,
           PostWrite, ReleaseScopedWakelock, Unref
  <2> QED BY <2>1 DEF AckRefs, Acknowledged
<1>4. ASSUME ~PostWrite(s)
      PROVE  EventRefs' = EventRefs
  <2>1. UNCHANGED <<mEventQueue, mPendingWriteEventsQueue, pwPc, numToWrite>>
    BY <1>4 DEF Poster, CreateScopedWakelock, Acquire, PostEvents, PostLock, PostCount,
           ReleaseScopedWakelock, Unref
  <2>2. Done' = Done
    BY <2>1 DEF Done
  <2> QED BY <2>1, <2>2, SameFlight
<1>5. CASE PostWrite(s)
  <2>1. PostRefs' + EventRefs' = PostRefs + EventRefs
    BY <1>5, RefPostWrite
  <2>2. LockRefs' = LockRefs /\ mWakelockRefCount' = mWakelockRefCount
    BY <1>5 DEF PostWrite, LockRefs, LiveLocks, lockVars
  <2>3. PostRefs' \in Nat
    BY PostRefsBy, CountedFinite
  <2>4. EventRefs' \in Nat
    <3>1. FrontInv'
      BY FrontInvNext DEF Next
    <3>2. InFlight' \in Seq(Event)
      <4>1. PICK events \in Seq(Event), k \in 0..Len(batch[s]) :
              Len(events) = Len(batch[s]) /\ InFlight' = InFlight \o SubSeq(events, 1, k)
        BY <1>5, FlightPost
      <4>2. InFlight \in Seq(Event) /\ SubSeq(events, 1, k) \in Seq(Event)
        BY <4>1, DoneInPending
      <4> QED BY <4>1, <4>2, Concatenation
    <3>3. countNumWakeupEvents(InFlight') \in Nat
      BY <3>2, CountType
    <3>4. countNumWakeupEvents(InFlight)' = countNumWakeupEvents(InFlight')
      BY DEF countNumWakeupEvents
    <3> QED BY <3>3, <3>4 DEF EventRefs
  <2>5. LockRefs + PostRefs' + EventRefs' + unacked + AckRefs + numProcessed
          = LockRefs + PostRefs + EventRefs + unacked + AckRefs + numProcessed
    <3> DEFINE q == PostRefs'
               f == EventRefs'
    <3>1. q \in Nat /\ f \in Nat /\ q + f = PostRefs + EventRefs
      BY <2>1, <2>3, <2>4
    <3> HIDE DEF q, f
    <3>2. LockRefs + q + f + unacked + AckRefs + numProcessed
            = LockRefs + PostRefs + EventRefs + unacked + AckRefs + numProcessed
      BY <1>1, <3>1, SumWithTrade
    <3> QED BY <3>2 DEF q, f
  <2> QED BY <1>2, <1>3, <2>2, <2>5
<1>6. CASE Acquire(s)
  <2>1. ~PostWrite(s)
    BY <1>6 DEF Acquire, PostWrite
  <2>2. /\ LockRefs' = LockRefs + 1 /\ PostRefs' = PostRefs
        /\ mWakelockRefCount' = mWakelockRefCount + 1
    BY <1>6, RefAcquire
  <2> QED BY <1>1, <1>2, <1>3, <1>4, <2>1, <2>2
<1>7. CASE PostCount(s)
  <2>1. ~PostWrite(s)
    BY <1>7 DEF PostCount, PostWrite
  <2>2. /\ numWakeup[s] \in Nat /\ PostRefs' = PostRefs + numWakeup[s]
        /\ mWakelockRefCount' = mWakelockRefCount + numWakeup[s]
    BY <1>7, RefPostCount
  <2>3. LockRefs' = LockRefs
    BY <1>7 DEF PostCount, LockRefs, LiveLocks
  <2> QED BY <1>1, <1>2, <1>3, <1>4, <2>1, <2>2, <2>3
<1>8. CASE Unref(s)
  <2>1. ~PostWrite(s)
    BY <1>8 DEF Unref, PostWrite
  <2>2. /\ LockRefs = LockRefs' + 1 /\ PostRefs' = PostRefs /\ LockRefs' \in Nat
        /\ mWakelockRefCount' = mWakelockRefCount - Lesser(mWakelockRefCount, 1)
    BY <1>8, RefUnref
  <2> DEFINE l   == LockRefs'
             sum == l + PostRefs + EventRefs + unacked + AckRefs + numProcessed
  <2>3. l \in Nat /\ mWakelockRefCount = (l + 1) + PostRefs + EventRefs + unacked + AckRefs + numProcessed
    BY <1>2, <2>2
  <2>4. References' = sum
    BY <1>2, <1>3, <1>4, <2>1, <2>2
  <2> HIDE DEF l
  <2>5. 1 <= mWakelockRefCount /\ mWakelockRefCount - 1 = sum
    BY <1>1, <2>3, SumWithOneLess
  <2> HIDE DEF sum
  <2>6. mWakelockRefCount' = mWakelockRefCount - 1
    BY <1>1, <2>2, <2>5 DEF Lesser
  <2> QED BY <2>4, <2>5, <2>6
<1>9. CASE \/ CreateScopedWakelock(s) \/ PostEvents(s) \/ PostLock(s)
           \/ ReleaseScopedWakelock(s)
  <2>1. ~PostWrite(s)
    BY <1>9 DEF CreateScopedWakelock, PostEvents, PostLock, ReleaseScopedWakelock, PostWrite
  <2>2. LockRefs' = LockRefs /\ PostRefs' = PostRefs /\ mWakelockRefCount' = mWakelockRefCount
    BY <1>0, <1>9, RefPosterIdle
  <2> QED BY <1>2, <1>3, <1>4, <2>1, <2>2
<1> QED BY <1>5, <1>6, <1>7, <1>8, <1>9 DEF Poster

\* The framework reads an event, and acknowledges.
LEMMA RefRead ==
  ASSUME FrontInv, FrameworkRead
  PROVE  unacked' + EventRefs' = unacked + EventRefs /\ EventRefs' \in Nat
<1> DEFINE e == Head(mEventQueue)
           t == Tail(mEventQueue)
<1>1. /\ mEventQueue # <<>> /\ mEventQueue' = t
      /\ unacked' = IF e.handle \in WakeUp THEN unacked + 1 ELSE unacked
      /\ UNCHANGED <<mPendingWriteEventsQueue, pwPc, numToWrite>>
  BY DEF FrameworkRead, queueVars, pwVars
<1>2. mEventQueue \in Seq(Event) /\ PendingEvents \in Seq(Event) /\ unacked \in Nat
  BY DoneInPending, ReferencePartsType
<1>3. PendingEvents' = PendingEvents
  BY <1>1 DEF PendingEvents, AllPending, Done
<1>4. t \in Seq(Event) /\ mEventQueue = <<e>> \o t /\ <<e>> \in Seq(Event)
  <2>1. t \in Seq(Event) /\ <<e>> \in Seq(Event)
    BY <1>1, <1>2
  <2>2. mEventQueue = <<e>> \o t
    BY <1>1, <1>2
  <2> QED BY <2>1, <2>2
<1> HIDE DEF e, t
<1> DEFINE r == t \o PendingEvents
<1>5. r \in Seq(Event) /\ InFlight = <<e>> \o r /\ InFlight' = r
  <2>1. r \in Seq(Event) /\ (<<e>> \o t) \o PendingEvents = <<e>> \o r
    BY <1>2, <1>4, Associative
  <2> QED BY <1>1, <1>3, <1>4, <2>1 DEF InFlight
<1> HIDE DEF r
<1> DEFINE o == countNumWakeupEvents(<<e>>)
           k == countNumWakeupEvents(r)
<1>6. EventRefs = o + k /\ k \in Nat /\ EventRefs' = k
  <2>1. countNumWakeupEvents(<<e>> \o r) = o + k /\ k \in Nat
    BY <1>4, <1>5, CountConcat
  <2>2. countNumWakeupEvents(InFlight)' = countNumWakeupEvents(InFlight')
    BY DEF countNumWakeupEvents
  <2> QED BY <1>5, <2>1, <2>2 DEF EventRefs
<1>7. o = IF e.handle \in WakeUp THEN 1 ELSE 0
  <2> DEFINE W == {i \in DOMAIN <<e>> : <<e>>[i].handle \in WakeUp}
  <2>1. W = IF e.handle \in WakeUp THEN {1} ELSE {}
    OBVIOUS
  <2>2. Cardinality({1}) = 1 /\ Cardinality({}) = 0
    BY FS_Singleton, FS_EmptySet
  <2>3. o = Cardinality(W)
    BY DEF countNumWakeupEvents
  <2> HIDE DEF W, o
  <2> QED BY <2>1, <2>2, <2>3
<1> HIDE DEF o, k
<1> QED BY <1>1, <1>2, <1>6, <1>7

LEMMA RefAck ==
  ASSUME FrontInv, FrameworkAck
  PROVE  unacked' = 0 /\ AckRefs' = AckRefs + unacked
<1>1. mWakeLockQueue' = Append(mWakeLockQueue, unacked) /\ unacked' = 0
  BY DEF FrameworkAck
<1>2. /\ AckRefs = Len(AcksOf(mWakeLockQueue)) /\ mWakeLockQueue \in Seq(Nat) /\ unacked \in Nat
  BY ReferencePartsType
<1>3. AckRefs' = Len(AcksOf(mWakeLockQueue'))
  BY DEF AckRefs, Acknowledged, AcksOf, Acks
<1> QED BY <1>1, <1>2, <1>3, AcksOfQueue

LEMMA RefWlRead ==
  ASSUME FrontInv, numProcessed = 0, WlRead
  PROVE  AckRefs' + numProcessed' = AckRefs + numProcessed
<1>1. /\ mWakeLockQueue # <<>> /\ mWakeLockQueue' = Tail(mWakeLockQueue)
      /\ numProcessed' = Head(mWakeLockQueue)
  BY DEF WlRead
<1>2. AckRefs = Len(AcksOf(mWakeLockQueue)) /\ mWakeLockQueue \in Seq(Nat)
  BY ReferencePartsType
<1>3. AckRefs' = Len(AcksOf(mWakeLockQueue'))
  BY DEF AckRefs, Acknowledged, AcksOf, Acks
<1>4. /\ Head(mWakeLockQueue) \in Nat
      /\ Len(AcksOf(mWakeLockQueue)) = Head(mWakeLockQueue) + Len(AcksOf(Tail(mWakeLockQueue)))
  BY <1>1, <1>2, AcksOfQueue
<1>5. Len(AcksOf(Tail(mWakeLockQueue))) \in Nat
  <2>1. Tail(mWakeLockQueue) \in Seq(Nat)
    BY <1>1, <1>2
  <2> QED BY <2>1, AcksOfQueue
<1> QED BY <1>1, <1>2, <1>3, <1>4, <1>5

\* The events in flight are the same after a step of another thread than a
\* poster or the framework.
LEMMA SameFlightOthers ==
  ASSUME FrontInv, RunsUndisturbed, undisturbed',
         handlePendingWrites \/ handleWakelocks \/ initializeCommon
  PROVE  EventRefs' = EventRefs
<1> USE DEF queueVars, pwVars
<1>0. pwPc \notin {"unref", "dropped"}
  BY DEF RunsUndisturbed
<1>1. CASE PwWrite \/ PwRelock
  <2>1. InFlight' = InFlight
    BY <1>1, FlightWrite, FlightRelock
  <2> QED BY <2>1 DEF EventRefs, countNumWakeupEvents
<1>2. CASE PwLock \/ PwTest \/ PwPark \/ PwSpuriousWakeup
  <2>1. UNCHANGED <<mEventQueue, mPendingWriteEventsQueue>>
    BY <1>2 DEF PwLock, PwTest, PwPark, PwSpuriousWakeup
  <2>2. Done = 0 /\ Done' = 0
    BY <1>2 DEF PwLock, PwTest, PwPark, PwSpuriousWakeup, Done
  <2> QED BY <2>1, <2>2, SameFlight
<1>3. CASE PwWriteTimeout \/ PwUnref
  BY <1>0, <1>3 DEF PwWriteTimeout, PwUnref
<1>4. CASE handleWakelocks
  <2>1. UNCHANGED <<mEventQueue, mPendingWriteEventsQueue, pwPc, numToWrite>>
    BY <1>4 DEF handleWakelocks, WlLock, WlTest, WlPark, WlSpuriousWakeup, WlRead,
                WlReadTimeout, WlRelock
  <2>2. Done' = Done
    BY <2>1 DEF Done
  <2> QED BY <2>1, <2>2, SameFlight
<1>5. CASE initializeCommon
  <2>1. UNCHANGED <<mEventQueue, mPendingWriteEventsQueue>>
    <3>1. CASE InitDrain \/ InitClear
      <4>1. mEventQueue' = <<>> /\ (mPendingWriteEventsQueue' \in {<<>>, mPendingWriteEventsQueue})
        BY <3>1 DEF InitDrain, InitClear
      <4>2. mEventQueue = <<>> /\ mPendingWriteEventsQueue = <<>>
        BY <3>1 DEF InitDrain, InitClear, InitGoto, RunsUndisturbed, BeforeFirstStart, Untouched
      <4> QED BY <4>1, <4>2
    <3>2. CASE ~(InitDrain \/ InitClear)
      BY <1>5, <3>2 DEF initializeCommon, InitStop, InitKick, InitNotifyWl, InitNotifyPw,
                  InitJoin, InitReset, InitDisable, InitStart, InitSubHals
    <3> QED BY <3>1, <3>2
  <2>2. /\ numToWrite' = numToWrite
        /\ pwPc' = pwPc \/ pwPc' = Notified(pwPc) \/ (pwPc' = "lock" /\ pwPc = "done")
    BY <1>5 DEF initializeCommon, InitStop, InitDrain, InitKick, InitNotifyWl, InitNotifyPw,
                InitJoin, InitReset, InitDisable, InitClear, InitStart, InitSubHals,
                InitGoto, FrontInv, ThreadsJoined
  <2>3. Done' = Done
    BY <2>2 DEF Done, Notified
  <2> QED BY <2>1, <2>3, SameFlight
<1> QED BY <1>1, <1>2, <1>3, <1>4, <1>5 DEF handlePendingWrites

LEMMA RefOthers ==
  ASSUME undisturbed', FrontInv, RunsUndisturbed, PosterLocks,
         mWakelockRefCount = References,
         \/ handlePendingWrites \/ handleWakelocks \/ initializeCommon
         \/ \E s \in SubHals, enabled \in BOOLEAN : Activate(s, enabled)
         \/ Expire \/ FrameworkRead \/ FrameworkAck \/ UNCHANGED vars
  PROVE  mWakelockRefCount' = References'
<1> USE DEF queueVars, lockVars, pwVars, wlVars, fwVars
<1>1. /\ LockRefs \in Nat /\ PostRefs \in Nat /\ EventRefs \in Nat
      /\ unacked \in Nat /\ AckRefs \in Nat /\ numProcessed \in Nat
      /\ mWakelockRefCount \in Nat
  BY ReferencePartsType
<1>2. /\ mWakelockRefCount = LockRefs + PostRefs + EventRefs + unacked + AckRefs + numProcessed
      /\ References' = LockRefs' + PostRefs' + EventRefs' + unacked' + AckRefs' + numProcessed'
  <2>1. (References = LockRefs + PostRefs + EventRefs + unacked + AckRefs + numProcessed)'
    BY ReferenceParts, PTL
  <2> QED BY <2>1, ReferenceParts
<1>3. LockRefs' = LockRefs /\ PostRefs' = PostRefs
  <2>1. UNCHANGED <<pc, batch, numWakeup, locked, generated>>
    BY OthersLeavePosters
  <2>2. \A s \in SubHals : stale'[s] = stale[s]
    BY PosterLocksOthers DEF FrontInv
  <2>3. LiveLocks' = LiveLocks
    BY <2>1, <2>2 DEF LiveLocks
  <2>4. Counting' = Counting
    BY <2>1 DEF Counting
  <2> QED BY <2>1, <2>3, <2>4, PostRefsSame DEF LockRefs
<1>4. CASE FrameworkRead
  <2>1. unacked' + EventRefs' = unacked + EventRefs /\ EventRefs' \in Nat
    BY <1>4, RefRead
  <2>2. UNCHANGED <<mWakelockRefCount, mWakeLockQueue, numProcessed>>
    BY <1>4 DEF FrameworkRead
  <2>3. AckRefs' = AckRefs
    BY <2>2 DEF AckRefs, Acknowledged
  <2>4. unacked' \in Nat
    BY <1>1, <1>4 DEF FrameworkRead
  <2> DEFINE f == EventRefs'
             v == unacked'
  <2>5. f \in Nat /\ v \in Nat /\ v + f = unacked + EventRefs
    BY <2>1, <2>4
  <2>6. References' = LockRefs + PostRefs + f + v + AckRefs + numProcessed
    BY <1>2, <1>3, <2>2, <2>3
  <2> HIDE DEF f, v
  <2>7. References' = mWakelockRefCount
    BY <1>1, <1>2, <2>5, <2>6
  <2> QED BY <2>2, <2>7
<1>5. CASE FrameworkAck
  <2>1. unacked' = 0 /\ AckRefs' = AckRefs + unacked
    BY <1>5, RefAck
  <2>2. UNCHANGED <<mWakelockRefCount, numProcessed, mEventQueue, mPendingWriteEventsQueue, pwPc, numToWrite>>
    BY <1>5 DEF FrameworkAck
  <2>3. EventRefs' = EventRefs
    <3>1. Done' = Done
      BY <2>2 DEF Done
    <3> QED BY <2>2, <3>1, SameFlight
  <2> QED BY <1>1, <1>2, <1>3, <2>1, <2>2, <2>3
<1>6. CASE \/ \E s \in SubHals, enabled \in BOOLEAN : Activate(s, enabled)
           \/ Expire \/ UNCHANGED vars
  <2>1. UNCHANGED <<mWakelockRefCount, numProcessed, mEventQueue, mPendingWriteEventsQueue,
                    pwPc, numToWrite, unacked, mWakeLockQueue>>
    BY <1>6 DEF Activate, Expire, vars
  <2>2. EventRefs' = EventRefs
    <3>1. Done' = Done
      BY <2>1 DEF Done
    <3> QED BY <2>1, <3>1, SameFlight
  <2>3. AckRefs' = AckRefs
    BY <2>1 DEF AckRefs, Acknowledged
  <2> QED BY <1>2, <1>3, <2>1, <2>2, <2>3
<1>7. CASE handlePendingWrites
  <2>1. EventRefs' = EventRefs
    BY <1>7, SameFlightOthers
  <2>2. UNCHANGED <<mWakelockRefCount, numProcessed, unacked, mWakeLockQueue>>
    BY <1>7 DEF handlePendingWrites, PwLock, PwTest, PwPark, PwSpuriousWakeup, PwWrite,
                PwWriteTimeout, PwUnref, PwRelock, RunsUndisturbed
  <2>3. AckRefs' = AckRefs
    BY <2>2 DEF AckRefs, Acknowledged
  <2> QED BY <1>2, <1>3, <2>1, <2>2, <2>3
<1>8. CASE initializeCommon
  <2>1. EventRefs' = EventRefs
    BY <1>8, SameFlightOthers
  <2>2. UNCHANGED <<mWakelockRefCount, numProcessed>>
    BY <1>8 DEF initializeCommon, InitStop, InitDrain, InitKick, InitNotifyWl, InitNotifyPw,
                InitJoin, InitReset, InitDisable, InitClear, InitStart, InitSubHals
  <2>3. UNCHANGED <<unacked, mWakeLockQueue>>
    <3>1. CASE InitKick \/ InitClear
      <4>1. inits = 0 /\ unacked = 0 /\ mWakeLockQueue = <<>>
        BY <3>1 DEF InitKick, InitClear, InitGoto, RunsUndisturbed, BeforeFirstStart, Untouched
      <4>2. CASE InitKick
        BY <4>1, <4>2 DEF InitKick
      <4>3. CASE InitClear
        BY <4>1, <4>3 DEF InitClear
      <4> QED BY <3>1, <4>2, <4>3
    <3>2. CASE ~(InitKick \/ InitClear)
      BY <1>8, <3>2 DEF initializeCommon, InitStop, InitDrain, InitNotifyWl, InitNotifyPw,
                  InitJoin, InitReset, InitDisable, InitStart, InitSubHals
    <3> QED BY <3>1, <3>2
  <2>4. AckRefs' = AckRefs
    BY <2>3 DEF AckRefs, Acknowledged
  <2> QED BY <1>2, <1>3, <2>1, <2>2, <2>3, <2>4
<1>9. CASE handleWakelocks
  <2>1. EventRefs' = EventRefs
    BY <1>9, SameFlightOthers
  <2>2. unacked' = unacked /\ mThreadsRun
    BY <1>9 DEF handleWakelocks, WlLock, WlTest, WlPark, WlSpuriousWakeup, WlRead,
                WlReadTimeout, WlRelock, RunsUndisturbed, Untouched
  <2>3. CASE WlLock \/ WlTest \/ WlPark \/ WlSpuriousWakeup \/ WlReadTimeout
    <3>1. UNCHANGED <<mWakelockRefCount, mWakeLockQueue>>
      BY <2>2, <2>3 DEF WlLock, WlTest, WlPark, WlSpuriousWakeup, WlReadTimeout
    <3>2. numProcessed' = numProcessed
      BY <2>3 DEF WlLock, WlTest, WlPark, WlSpuriousWakeup, WlReadTimeout, RunsUndisturbed
    <3>3. AckRefs' = AckRefs
      BY <3>1 DEF AckRefs, Acknowledged
    <3> QED BY <1>2, <1>3, <2>1, <2>2, <3>1, <3>2, <3>3
  <2>4. CASE WlRead
    <3>1. numProcessed = 0
      BY <2>4 DEF WlRead, RunsUndisturbed
    <3>2. AckRefs' + numProcessed' = AckRefs + numProcessed
      BY <2>4, <3>1, RefWlRead
    <3>3. mWakelockRefCount' = mWakelockRefCount
      BY <2>4 DEF WlRead
    <3> DEFINE a == AckRefs'
               n == numProcessed'
    <3>4. a \in Nat /\ n \in Nat
      <4>1. handleWakelocks => [Next]_vars
        BY DEF Next
      <4>2. FrontInv'
        BY <1>9, <4>1, FrontInvNext
      <4>3. n \in Nat /\ mWakeLockQueue' \in Seq(Nat)
        BY <4>2 DEF FrontInv, TypeOK, WakelockOK, QueuesOK
      <4>4. a = Len(AcksOf(mWakeLockQueue'))
        BY DEF AckRefs, Acknowledged, AcksOf, Acks
      <4> QED BY <4>3, <4>4, AcksOfQueue
    <3>5. a + n = AckRefs + numProcessed /\ References' = LockRefs + PostRefs + EventRefs + unacked + a + n
      BY <1>2, <1>3, <2>1, <2>2, <3>2
    <3> HIDE DEF a, n
    <3>6. References' = mWakelockRefCount
      BY <1>1, <1>2, <3>4, <3>5
    <3> QED BY <3>3, <3>6
  <2>5. CASE WlRelock
    <3>1. /\ mWakelockRefCount' = mWakelockRefCount - Lesser(mWakelockRefCount, numProcessed)
          /\ numProcessed' = 0 /\ mWakeLockQueue' = mWakeLockQueue
      BY <2>2, <2>5 DEF WlRelock, DecrementRefCount
    <3>2. AckRefs' = AckRefs
      BY <3>1 DEF AckRefs, Acknowledged
    <3>3. References' = LockRefs + PostRefs + EventRefs + unacked + AckRefs + 0
      BY <1>2, <1>3, <2>1, <2>2, <3>1, <3>2
    <3>4. /\ numProcessed <= mWakelockRefCount
          /\ mWakelockRefCount - numProcessed = LockRefs + PostRefs + EventRefs + unacked + AckRefs + 0
      BY <1>1, <1>2
    <3>5. mWakelockRefCount' = mWakelockRefCount - numProcessed
      BY <1>1, <3>1, <3>4 DEF Lesser
    <3> QED BY <3>3, <3>4, <3>5
  <2> QED BY <1>9, <2>3, <2>4, <2>5 DEF handleWakelocks
<1> QED BY <1>4, <1>5, <1>6, <1>7, <1>8, <1>9

LEMMA RefCountInit == Init => RefCountExact
<1> SUFFICES ASSUME Init PROVE mWakelockRefCount = References
  BY DEF RefCountExact
<1> USE DEF Init
<1>1. LiveLocks = {} /\ Counting = {}
  BY DEF LiveLocks, Counting
<1>2. Cardinality({}) = 0
  BY FS_EmptySet
<1>3. LockRefs = 0
  BY <1>1, <1>2 DEF LockRefs
<1>4. PostRefs = 0
  <2>1. CountedBy({}, numWakeup) = {}
    BY DEF CountedBy
  <2> QED BY <1>1, <1>2, <2>1, CountedIsBy DEF PostRefs
<1>5. AllPending = <<>> /\ Acknowledged = <<>>
  BY DEF AllPending, Acknowledged, FlattenSeq
<1>6. InFlight = <<>>
  BY <1>5 DEF InFlight, PendingEvents, Done
<1>7. EventRefs = 0
  <2>1. {i \in DOMAIN <<>> : <<>>[i].handle \in WakeUp} = {}
    OBVIOUS
  <2> QED BY <1>2, <1>6, <2>1 DEF EventRefs, countNumWakeupEvents
<1>8. AckRefs = 0
  BY <1>5 DEF AckRefs
<1>9. mWakelockRefCount = 0 /\ unacked = 0 /\ numProcessed = 0
  OBVIOUS
<1> HIDE DEF Init
<1> QED BY <1>3, <1>4, <1>7, <1>8, <1>9, ReferenceParts

\* If handle 0, which AlsCorrection gives to the events it drops, is not the
\* handle of a wake-up sensor, then mWakelockRefCount is the number of
\* references to the shared wake lock in every state that no timeout, overflow,
\* dropped wake-up event or restart comes before: in whatever order posters,
\* the pending writes thread, the wake lock thread and the framework run, no
\* reference is leaked and none is dropped twice.
THEOREM RefCountAlwaysExact ==
  ASSUME ZeroHandle \notin WakeUp
  PROVE  Spec => []RefCountExact
<1> DEFINE Inv == FrontInv /\ BatchNumbered /\ WakeupsCounted /\ UndisturbedInv /\ RefCountExact
<1>1. Init => Inv
  <2>1. Init => BatchNumbered
    BY ConstantsAssumption DEF Init, BatchNumbered, Unposted
  <2> QED BY <2>1, FrontInvInit, WakeupsCountedInit, UndisturbedInit, RefCountInit
<1>2. Inv /\ [Next]_vars => Inv'
  <2> SUFFICES ASSUME Inv, [Next]_vars PROVE Inv'
    OBVIOUS
  <2>1. FrontInv' /\ BatchNumbered' /\ WakeupsCounted' /\ UndisturbedInv'
    BY FrontInvNext, BatchNumberedNext, WakeupsCountedNext, UndisturbedNext DEF FrontInv
  <2>2. RefCountExact'
    <3> SUFFICES ASSUME undisturbed' PROVE mWakelockRefCount' = References'
      BY DEF RefCountExact
    <3>1. RunsUndisturbed /\ PosterLocks /\ mWakelockRefCount = References
      BY UndisturbedOnce DEF FrontInv, UndisturbedInv, RefCountExact
    <3>2. ASSUME NEW s \in SubHals, Poster(s)
          PROVE  mWakelockRefCount' = References'
      BY <3>1, <3>2, RefPoster
    <3> QED BY <3>1, <3>2, RefOthers DEF Next
  <2> QED BY <2>1, <2>2
<1>3. Inv => RefCountExact
  OBVIOUS
<1> HIDE DEF Inv
<1> QED BY <1>1, <1>2, <1>3, PTL DEF Spec
=============================================================================
