------------------------- MODULE CameraMotorProofs --------------------------
(***************************************************************************)
(* Proofs about CameraMotor for every delay and any number of camera       *)
(* changes, falls, obstructions, crashes and failing accesses to sysfs.    *)
(***************************************************************************)
EXTENDS CameraMotor, FiniteSetTheorems, SequenceTheorems, TLAPS

What  == {"open", "closed", MSG_CAMERA_OPEN, MSG_CAMERA_CLOSED}
Entry == [what : What, left : 0..Delay]

LEMMA DelayIsNat == Delay \in Nat /\ Delay > 0
BY MotorAssumption DEF Delay
-----------------------------------------------------------------------------
(* The operators on the looper.                                            *)

\* An entry put into a sequence; what was there keeps its order.
LEMMA Inserted ==
  ASSUME NEW S, NEW q \in Seq(S), NEW k \in 1..(Len(q) + 1), NEW e \in S
  PROVE  /\ InsertAt(q, k, e) \in Seq(S)
         /\ Len(InsertAt(q, k, e)) = Len(q) + 1
         /\ \A i \in 1..(Len(q) + 1) :
              InsertAt(q, k, e)[i] = IF i < k THEN q[i] ELSE IF i = k THEN e ELSE q[i - 1]
<1> DEFINE a == SubSeq(q, 1, k - 1)
           b == SubSeq(q, k, Len(q))
<1>1. Len(q) \in Nat /\ k \in Nat /\ \A i \in 1..Len(q) : q[i] \in S
  OBVIOUS
<1>2. a \in Seq(S) /\ Len(a) = k - 1 /\ \A i \in 1..(k - 1) : a[i] = q[i]
  BY <1>1, SubSeqProperties
<1>3. b \in Seq(S) /\ Len(b) = Len(q) - k + 1
      /\ \A i \in 1..(Len(q) - k + 1) : b[i] = q[k + i - 1]
  BY <1>1, SubSeqProperties
<1>4. InsertAt(q, k, e) = (a \o <<e>>) \o b
  BY DEF InsertAt
<1> HIDE DEF a, b
<1> DEFINE c == a \o <<e>>
<1>5. c \in Seq(S) /\ Len(c) = k /\ \A i \in 1..k : c[i] = IF i < k THEN q[i] ELSE e
  BY <1>1, <1>2
<1> HIDE DEF c
<1>6. InsertAt(q, k, e) = c \o b
  BY <1>4 DEF c
<1>7. /\ c \o b \in Seq(S) /\ Len(c \o b) = Len(q) + 1
      /\ \A i \in 1..(Len(q) + 1) : (c \o b)[i] = IF i <= k THEN c[i] ELSE b[i - k]
  <2>1. /\ c \o b \in Seq(S) /\ Len(c \o b) = Len(c) + Len(b)
        /\ \A i \in 1..(Len(c) + Len(b)) :
             (c \o b)[i] = IF i <= Len(c) THEN c[i] ELSE b[i - Len(c)]
    BY <1>3, <1>5, ConcatProperties
  <2>2. Len(c) = k /\ Len(c) + Len(b) = Len(q) + 1
    BY <1>1, <1>3, <1>5
  <2> QED
    BY <2>1, <2>2
<1>8. \A i \in 1..(Len(q) + 1) : i > k => b[i - k] = q[i - 1]
  BY <1>1, <1>3
<1> QED
  BY <1>1, <1>5, <1>6, <1>7, <1>8

\* A set of positions is finite.
LEMMA FinitePositions ==
  ASSUME NEW m \in Nat, NEW K \in SUBSET (1..m)
  PROVE  IsFiniteSet(K) /\ Cardinality(K) \in Nat /\ Cardinality(K) <= m
<1>1. IsFiniteSet(1..m) /\ Cardinality(1..m) = m
  <2>1. 1 \in Int /\ m \in Int
    OBVIOUS
  <2>2. IsFiniteSet(1..m) /\ Cardinality(1..m) = IF 1 > m THEN 0 ELSE m - 1 + 1
    BY <2>1, FS_Interval
  <2> QED
    BY <2>2
<1>2. IsFiniteSet(K) /\ Cardinality(K) <= m
  BY <1>1, FS_Subset
<1> QED
  BY <1>2, FS_CardinalityType

\* The ranks of the elements of a finite set of numbers are 1, 2 ... up to its
\* size.
LEMMA RankOnto ==
  ASSUME NEW m \in Nat, NEW K \in SUBSET (1..m), NEW n \in 1..Cardinality(K)
  PROVE  \E i \in K : Rank(K, i) = n
<1> DEFINE T == 1..Cardinality(K)
           f == [i \in K |-> Rank(K, i)]
           Upto(i) == {j \in K : j <= i}
<1>1. IsFiniteSet(K) /\ Cardinality(K) \in Nat
  BY FinitePositions
<1>2. \A i \in K : IsFiniteSet(Upto(i)) /\ Cardinality(Upto(i)) \in T
  <2> SUFFICES ASSUME NEW i \in K
               PROVE  IsFiniteSet(Upto(i)) /\ Cardinality(Upto(i)) \in T
    OBVIOUS
  <2>1. Upto(i) \in SUBSET K /\ i \in Upto(i)
    OBVIOUS
  <2>2. IsFiniteSet(Upto(i)) /\ Cardinality(Upto(i)) <= Cardinality(K)
    BY <1>1, <2>1, FS_Subset
  <2>3. Cardinality(Upto(i)) \in Nat /\ Cardinality(Upto(i)) # 0
    BY <2>1, <2>2, FS_CardinalityType, FS_EmptySet
  <2> QED
    BY <1>1, <2>2, <2>3
<1>3. \A i, j \in K : i < j => Cardinality(Upto(i)) # Cardinality(Upto(j))
  <2> SUFFICES ASSUME NEW i \in K, NEW j \in K, i < j
               PROVE  Cardinality(Upto(i)) # Cardinality(Upto(j))
    OBVIOUS
  <2>1. i \in Int /\ j \in Int /\ j <= j /\ ~(j <= i)
    OBVIOUS
  <2>2. \A k \in K : k <= i => k <= j
    BY <2>1
  <2>3. Upto(i) \in SUBSET Upto(j) /\ j \in Upto(j) /\ j \notin Upto(i)
    BY <2>1, <2>2, Zenon
  <2> QED
    BY <1>2, <2>3, FS_Subset
<1>4. f \in Injection(K, T)
  <2>1. f \in [K -> T]
    BY <1>2 DEF Rank
  <2>2. \A i, j \in K : f[i] = f[j] => i = j
    <3> SUFFICES ASSUME NEW i \in K, NEW j \in K, i # j PROVE f[i] # f[j]
      OBVIOUS
    <3>1. i < j \/ j < i
      OBVIOUS
    <3> QED
      BY <3>1, <1>3 DEF Rank
  <2> QED
    BY <2>1, <2>2 DEF Injection, IsInjective
<1>5. IsFiniteSet(T) /\ Cardinality(T) = Cardinality(K)
  BY <1>1, FS_Interval
<1>6. f \in Surjection(K, T)
  BY <1>4, <1>5, FS_Injection
<1> QED
  BY <1>6 DEF Surjection

\* A subsequence consists of the entries at the chosen positions.
LEMMA SubsequenceOf ==
  ASSUME NEW S, NEW q \in Seq(S), NEW K \in SUBSET DOMAIN q
  PROVE  /\ Subsequence(q, K) \in Seq(S)
         /\ \A n \in DOMAIN Subsequence(q, K) : \E i \in K : Subsequence(q, K)[n] = q[i]
<1> DEFINE at(n) == CHOOSE i \in K : Rank(K, i) = n
<1>1. Len(q) \in Nat /\ DOMAIN q = 1..Len(q) /\ K \in SUBSET (1..Len(q))
  OBVIOUS
<1>2. Cardinality(K) \in Nat
  BY <1>1, FinitePositions
<1>3. \A n \in 1..Cardinality(K) : at(n) \in K
  BY <1>1, RankOnto
<1>4. Subsequence(q, K) = [n \in 1..Cardinality(K) |-> q[at(n)]]
  BY DEF Subsequence
<1> HIDE DEF at
<1>5. \A n \in 1..Cardinality(K) : q[at(n)] \in S
  BY <1>1, <1>3
<1> QED
  BY <1>2, <1>3, <1>4, <1>5

\* What removeMessages leaves: entries of the queue, none of them of that kind.
LEMMA RemovedOf ==
  ASSUME NEW q \in Seq(Entry), NEW w
  PROVE  /\ Removed(q, w) \in Seq(Entry)
         /\ \A n \in DOMAIN Removed(q, w) :
              /\ Removed(q, w)[n].what # w
              /\ \E i \in DOMAIN q : Removed(q, w)[n] = q[i]
<1> DEFINE K == {i \in DOMAIN q : q[i].what # w}
<1>1. Removed(q, w) = Subsequence(q, K) /\ K \in SUBSET DOMAIN q
  BY DEF Removed
<1>2. \A i \in K : i \in DOMAIN q /\ q[i].what # w
  OBVIOUS
<1> HIDE DEF K
<1> QED
  BY <1>1, <1>2, SubsequenceOf

\* What post leaves: what was there, in its order, and the new entry.
LEMMA PostedOf ==
  ASSUME NEW q \in Seq(Entry), NEW w \in What
  PROVE  /\ Posted(q, w) \in Seq(Entry)
         /\ Len(Posted(q, w)) = Len(q) + 1
         /\ \E k \in 1..(Len(q) + 1) :
              \A i \in 1..(Len(q) + 1) :
                Posted(q, w)[i] = IF i < k THEN q[i]
                                  ELSE IF i = k THEN [what |-> w, left |-> 0] ELSE q[i - 1]
<1> DEFINE K == {i \in DOMAIN q : q[i].left = 0}
           e == [what |-> w, left |-> 0]
           k == Cardinality(K) + 1
<1>1. Len(q) \in Nat /\ K \in SUBSET (1..Len(q))
  OBVIOUS
<1>2. k \in 1..(Len(q) + 1)
  BY <1>1, FinitePositions
<1>3. e \in Entry
  BY DelayIsNat DEF Entry
<1>4. Posted(q, w) = InsertAt(q, k, e)
  BY DEF Posted
<1> HIDE DEF K, e, k
<1>5. InsertAt(q, k, e) \in Seq(Entry)
  BY <1>2, <1>3, Inserted
<1>6. Len(InsertAt(q, k, e)) = Len(q) + 1
  BY <1>2, <1>3, Inserted
<1>7. \A i \in 1..(Len(q) + 1) :
        InsertAt(q, k, e)[i] = IF i < k THEN q[i] ELSE IF i = k THEN e ELSE q[i - 1]
  <2>1. \A n \in 1..(Len(q) + 1), x \in Entry : \A i \in 1..(Len(q) + 1) :
          InsertAt(q, n, x)[i] = IF i < n THEN q[i] ELSE IF i = n THEN x ELSE q[i - 1]
    BY Inserted
  <2> QED
    BY <1>2, <1>3, <2>1
<1> QED
  BY <1>2, <1>4, <1>5, <1>6, <1>7 DEF e

\* What sendEmptyMessageDelayed leaves.
LEMMA SentDelayedOf ==
  ASSUME NEW q \in Seq(Entry), NEW w \in What
  PROVE  /\ SentDelayed(q, w) \in Seq(Entry)
         /\ Len(SentDelayed(q, w)) = Len(q) + 1
         /\ \A i \in 1..Len(q) : SentDelayed(q, w)[i] = q[i]
         /\ SentDelayed(q, w)[Len(q) + 1] = [what |-> w, left |-> Delay]
<1>1. [what |-> w, left |-> Delay] \in Entry
  BY DelayIsNat DEF Entry
<1> QED
  BY <1>1 DEF SentDelayed
-----------------------------------------------------------------------------
(* Types.                                                                  *)

\* The part of TypeOK about the looper.
LEMMA LooperType == TypeOK <=> TypeOK /\ looper \in Seq(Entry)
BY DEF TypeOK, Entry, What

\* What stays of the looper when its head is taken.
LEMMA TailOf ==
  ASSUME NEW q \in Seq(Entry), q # <<>>
  PROVE  /\ Tail(q) \in Seq(Entry) /\ Len(Tail(q)) = Len(q) - 1 /\ Len(q) > 0
         /\ \A i \in 1..(Len(q) - 1) : Tail(q)[i] = q[i + 1]
         /\ Head(q) = q[1]
OBVIOUS

\* A tick only changes the time left of an entry.
LEMMA TickedOf ==
  ASSUME NEW q \in Seq(Entry), NEW r,
         r = [i \in DOMAIN q |-> [q[i] EXCEPT !.left = IF @ > 0 THEN @ - 1 ELSE 0]]
  PROVE  r \in Seq(Entry) /\ DOMAIN r = DOMAIN q /\ \A i \in DOMAIN q : r[i].what = q[i].what
<1>1. DOMAIN q = 1..Len(q) /\ Len(q) \in Nat /\ DOMAIN r = DOMAIN q
  OBVIOUS
<1>2. \A i \in DOMAIN q : r[i] \in Entry /\ r[i].what = q[i].what
  <2> SUFFICES ASSUME NEW i \in DOMAIN q PROVE r[i] \in Entry /\ r[i].what = q[i].what
    OBVIOUS
  <2>1. q[i] \in Entry
    OBVIOUS
  <2>2. q[i].what \in What /\ q[i].left \in 0..Delay
    BY <2>1 DEF Entry
  <2>3. r[i] = [q[i] EXCEPT !.left = IF q[i].left > 0 THEN q[i].left - 1 ELSE 0]
    OBVIOUS
  <2>4. (IF q[i].left > 0 THEN q[i].left - 1 ELSE 0) \in 0..Delay
    BY <2>2, DelayIsNat
  <2> QED
    BY <2>1, <2>2, <2>3, <2>4 DEF Entry
<1>3. r = [i \in 1..Len(q) |-> r[i]]
  BY <1>1
<1> QED
  BY <1>1, <1>2, <1>3

\* What the callbacks leave in the looper.
LEMMA CallbackOf ==
  ASSUME TypeOK, looper # <<>>, NEW w \in What, NEW v \in What, NEW age,
         NEW r, r = SentDelayed(IF age < Delay THEN Removed(Tail(looper), w) ELSE Tail(looper), v)
  PROVE  /\ r \in Seq(Entry) /\ Len(r) > 0 /\ r[Len(r)].what = v
         /\ age < Delay => \A i \in 1..(Len(r) - 1) : r[i].what # w
<1>1. Tail(looper) \in Seq(Entry)
  BY LooperType, TailOf
<1>2. /\ Removed(Tail(looper), w) \in Seq(Entry)
      /\ \A n \in DOMAIN Removed(Tail(looper), w) : Removed(Tail(looper), w)[n].what # w
  BY <1>1, RemovedOf
<1> DEFINE q == IF age < Delay THEN Removed(Tail(looper), w) ELSE Tail(looper)
<1>3. q \in Seq(Entry) /\ (age < Delay => \A i \in 1..Len(q) : q[i].what # w)
  BY <1>1, <1>2
<1> HIDE DEF q
<1>4. r = SentDelayed(q, v)
  BY DEF q
<1>5. /\ r \in Seq(Entry) /\ Len(r) = Len(q) + 1 /\ Len(q) \in Nat
      /\ \A i \in 1..Len(q) : r[i] = q[i]
      /\ r[Len(q) + 1] = [what |-> v, left |-> Delay]
  BY <1>3, <1>4, SentDelayedOf
<1> QED
  BY <1>3, <1>5

\* CameraMotor.TypeOK holds in every reachable state: the looper, the executor
\* and the dialogs of camera_helper are only ever given what they expect.
THEOREM TypeCorrect == Spec => []TypeOK
<1>1. Init => TypeOK
  <2> SUFFICES ASSUME Init PROVE TypeOK
    OBVIOUS
  <2>1. looper \in Seq(Entry) /\ tasks \in Seq({"enable", "disable"})
    BY DEF Init
  <2>2. Delay \in 0..Delay
    BY DelayIsNat
  <2> QED
    BY <2>1, <2>2 DEF Init, TypeOK, Entry, What
<1>2. TypeOK /\ [Next]_vars => TypeOK'
  <2> SUFFICES ASSUME TypeOK, [Next]_vars PROVE TypeOK'
    OBVIOUS
  <2>d. Delay \in Nat /\ Delay > 0
    BY DelayIsNat
  <2>l. looper \in Seq(Entry)
    BY LooperType
  <2>q. looper' \in Seq(Entry)
        => (looper \in Seq([what : {"open", "closed", MSG_CAMERA_OPEN, MSG_CAMERA_CLOSED},
                            left : 0..Delay]))'
    BY DEF Entry, What
  <2>1. CASE MotorServiceStart
    <3>1. looper' \in Seq(Entry)
      BY <2>1, <2>l, PostedOf DEF MotorServiceStart, TypeOK, What
    <3> QED
      BY <2>1, <2>d, <2>q, <3>1 DEF MotorServiceStart, TypeOK, cameraVars, fallVars,
         keyVars, motorVars, bounds
  <2>2. CASE onCameraAvailable
    <3>1. looper' \in Seq(Entry)
      BY <2>2, CallbackOf DEF onCameraAvailable, Due, What
    <3> QED
      BY <2>2, <2>d, <2>q, <3>1 DEF onCameraAvailable, TypeOK, cameraVars, fallVars,
         keyVars, motorVars, bounds
  <2>3. CASE onCameraUnavailable
    <3>1. looper' \in Seq(Entry)
      BY <2>3, CallbackOf DEF onCameraUnavailable, Due, What
    <3> QED
      BY <2>3, <2>d, <2>q, <3>1 DEF onCameraUnavailable, TypeOK, cameraVars, fallVars,
         keyVars, motorVars, bounds
  <2>4. ASSUME NEW what, NEW d \in {"up", "down"}, handleMessage(what, d) PROVE TypeOK'
    <3>1. looper' \in Seq(Entry)
      BY <2>4, <2>l, TailOf DEF handleMessage, Due
    <3> QED
      BY <2>4, <2>q, <3>1 DEF handleMessage, setMotorDirection, TypeOK, cameraVars,
         fallVars, keyVars, bounds
  <2>5. CASE MainEnable
    BY <2>5 DEF MainEnable, setMotorEnabled, TypeOK, cameraVars, serviceVars, fallVars,
       keyVars, bounds
  <2>6. CASE FallServiceStart
    BY <2>6 DEF FallServiceStart, Submit, TypeOK, cameraVars, serviceVars, keyVars,
       motorVars, bounds
  <2>7. ASSUME NEW request \in {"enable", "disable"}, onReceive(request) PROVE TypeOK'
    BY <2>7 DEF onReceive, Submit, TypeOK, cameraVars, serviceVars, keyVars, motorVars
  <2>8. CASE RunTask
    BY <2>8 DEF RunTask, TypeOK, cameraVars, serviceVars, keyVars, motorVars, bounds
  <2>9. CASE onSensorChanged
    <3>1. CASE position = "down" /\ UNCHANGED <<serviceVars, mainPc, fallVars, direction>>
      BY <2>9, <3>1 DEF onSensorChanged, TypeOK, cameraVars, serviceVars, fallVars, keyVars
    <3>2. CASE /\ setMotorDirection("down") /\ mainPc' = "down" /\ dialogs' = dialogs + 1
               /\ UNCHANGED <<serviceVars, sensing, tasks, registered, lastRequest>>
      BY <2>9, <3>2 DEF onSensorChanged, setMotorDirection, TypeOK, cameraVars, serviceVars,
         keyVars
    <3>3. CASE ProcessDies /\ UNCHANGED direction
      <4>1. looper' \in Seq(Entry) /\ tasks' \in Seq({"enable", "disable"})
        BY <3>3 DEF ProcessDies
      <4>2. /\ running' \in BOOLEAN /\ sensing' \in BOOLEAN /\ registered' \in BOOLEAN
            /\ mainPc' = "idle" /\ dialogs' = 0 /\ falls' = falls + 1 /\ fell' \in BOOLEAN
            /\ UNCHANGED <<sinceOpen, sinceClosed, lastSeen, lastCommand, lastGap, lastRequest,
                           direction, camera, changes, sysPc, keyDialogs, motion, position,
                           blocks, crashes, switches>>
        BY <2>9, <3>3 DEF onSensorChanged, ProcessDies, cameraVars, keyVars
      <4> QED
        BY <2>q, <4>1, <4>2 DEF TypeOK
    <3> QED
      BY <2>9, <3>1, <3>2, <3>3 DEF onSensorChanged
  <2>10. CASE RaiseButton
    <3>1. dialogs' \in Nat /\ direction' \in {"up", "down"}
      BY <2>10 DEF RaiseButton, setMotorDirection, TypeOK
    <3>2. fell' \in BOOLEAN /\ mainPc' = "up"
      BY <2>10 DEF RaiseButton
    <3>3. UNCHANGED <<cameraVars, serviceVars, sensing, tasks, registered, lastRequest,
                      keyVars, motion, position, bounds>>
      BY <2>10 DEF RaiseButton
    <3> QED
      BY <3>1, <3>2, <3>3 DEF TypeOK, cameraVars, serviceVars, keyVars, bounds
  <2>11. CASE CloseButton
    BY <2>11 DEF CloseButton, TypeOK, cameraVars, serviceVars, keyVars, motorVars, bounds
  <2>12. ASSUME NEW d \in {"up", "down"}, MotorAbnormal(d) PROVE TypeOK'
    BY <2>12 DEF MotorAbnormal, TypeOK, cameraVars, serviceVars, fallVars
  <2>13. CASE ManualToDown
    BY <2>13 DEF ManualToDown, TypeOK, cameraVars, serviceVars, fallVars, keyVars
  <2>14. ASSUME NEW d \in {"up", "down"}, NEW m \in {"up", "down"}, KeyButton(d, m)
         PROVE  TypeOK'
    BY <2>14 DEF KeyButton, setMotorDirection, TypeOK, cameraVars, serviceVars, fallVars,
       bounds
  <2>15. CASE SysEnable
    BY <2>15 DEF SysEnable, setMotorEnabled, TypeOK, cameraVars, serviceVars, fallVars,
       bounds
  <2>16. CASE CameraChange
    <3>1. camera' \in {"open", "closed"} /\ camera' \in What
      BY <2>16 DEF CameraChange, What
    <3>2. looper' \in Seq(Entry)
      BY <2>16, <2>l, <3>1, PostedOf DEF CameraChange
    <3> QED
      BY <2>16, <2>q, <3>1, <3>2 DEF CameraChange, TypeOK, fallVars, keyVars, motorVars,
         bounds
  <2>17. CASE MotorMoves
    BY <2>17 DEF MotorMoves, TypeOK, cameraVars, serviceVars, fallVars, keyVars, bounds
  <2>18. CASE Tick
    <3>1. looper' \in Seq(Entry)
      BY <2>18, <2>l, TickedOf DEF Tick
    <3>2. sinceOpen' \in 0..Delay /\ sinceClosed' \in 0..Delay
      BY <2>18, <2>d DEF Tick, Older, TypeOK
    <3> QED
      BY <2>18, <2>q, <3>1, <3>2 DEF Tick, TypeOK, cameraVars, fallVars, keyVars,
         motorVars, bounds
  <2>19. CASE Crash
    <3>1. looper' \in Seq(Entry) /\ tasks' \in Seq({"enable", "disable"})
      BY <2>19 DEF Crash, ProcessDies
    <3>2. /\ running' \in BOOLEAN /\ sensing' \in BOOLEAN /\ registered' \in BOOLEAN
          /\ mainPc' = "idle" /\ dialogs' = 0 /\ crashes' = crashes + 1
          /\ UNCHANGED <<sinceOpen, sinceClosed, lastSeen, lastCommand, lastGap, lastRequest,
                         camera, changes, sysPc, keyDialogs, direction, motion, position,
                         falls, blocks, switches, fell>>
      BY <2>19 DEF Crash, ProcessDies, cameraVars, keyVars, motorVars
    <3> QED
      BY <2>q, <3>1, <3>2 DEF TypeOK
  <2>20. CASE UNCHANGED vars
    BY <2>20 DEF vars, TypeOK, cameraVars, serviceVars, fallVars, keyVars, motorVars, bounds
  <2> QED
    BY <2>1, <2>2, <2>3, <2>4, <2>5, <2>6, <2>7, <2>8, <2>9, <2>10, <2>11, <2>12, <2>13,
       <2>14, <2>15, <2>16, <2>17, <2>18, <2>19, <2>20 DEF Next, CameraMotorService
<1> QED
  BY <1>1, <1>2, PTL DEF Spec
-----------------------------------------------------------------------------
(* CameraMotorService: which message is pending.                           *)

\* What a step of the system may do to CameraMotorService.
ServiceSame == UNCHANGED <<running, looper, lastSeen, lastCommand, lastGap>>
ServiceDies ==
  running' = FALSE /\ looper' = <<>> /\ UNCHANGED <<lastSeen, lastCommand, lastGap>>
CallbackPosted ==
  /\ camera' \in {"open", "closed"} /\ running /\ looper' = Posted(looper, camera')
  /\ UNCHANGED <<running, lastSeen, lastCommand, lastGap>>

LEMMA ServiceSteps ==
  ASSUME [Next]_vars
  PROVE  \/ ServiceSame \/ ServiceDies \/ CallbackPosted \/ Tick
         \/ MotorServiceStart \/ CameraMotorService
<1>1. UNCHANGED serviceVars => ServiceSame
  BY DEF serviceVars, ServiceSame
<1>2. ProcessDies => ServiceDies
  BY DEF ProcessDies, ServiceDies
<1>3. CameraChange => ServiceSame \/ CallbackPosted
  BY DEF CameraChange, ServiceSame, CallbackPosted
<1>4. onSensorChanged => UNCHANGED serviceVars \/ ProcessDies
  BY DEF onSensorChanged
<1>5. Crash => ProcessDies
  BY DEF Crash
<1>6. \/ MainEnable \/ FallServiceStart \/ RunTask \/ RaiseButton \/ CloseButton
      \/ ManualToDown \/ SysEnable \/ MotorMoves \/ UNCHANGED vars
      => UNCHANGED serviceVars
  BY DEF MainEnable, FallServiceStart, RunTask, RaiseButton, CloseButton, ManualToDown,
     SysEnable, MotorMoves, vars
<1>7. \A d, m : onReceive(d) \/ MotorAbnormal(d) \/ KeyButton(d, m) => UNCHANGED serviceVars
  BY DEF onReceive, MotorAbnormal, KeyButton
<1> QED
  BY <1>1, <1>2, <1>3, <1>4, <1>5, <1>6, <1>7 DEF Next

\* The inductive invariant: the queue of a dead process is gone, nothing is
\* pending before the first callback, and the two properties themselves.
PendingInv ==
  /\ ~running => looper = <<>>
  /\ lastSeen = "none" => \A i \in DOMAIN looper : ~ IsMessage(looper[i])
  /\ LastEventWins
  /\ Debounced

\* A step that puts nothing into the looper but what was there and callbacks, in
\* their order, and leaves the histories alone keeps the invariant.
LEMMA PendingInvPosted ==
  ASSUME TypeOK, PendingInv, NEW c \in {"open", "closed"}, running',
         looper' = Posted(looper, c),
         (running /\ UNCHANGED <<lastSeen, lastCommand, lastGap>>) \/ (~running /\ lastSeen' = "none")
  PROVE  PendingInv'
<1>1. looper \in Seq(Entry) /\ Len(looper) \in Nat
  BY LooperType
<1>2. /\ looper' \in Seq(Entry) /\ Len(looper') = Len(looper) + 1
      /\ \E k \in 1..(Len(looper) + 1) : \A i \in 1..(Len(looper) + 1) :
           looper'[i] = IF i < k THEN looper[i]
                        ELSE IF i = k THEN [what |-> c, left |-> 0] ELSE looper[i - 1]
  <2>1. c \in What
    BY DEF What
  <2> QED
    BY <1>1, <2>1, PostedOf, Zenon
<1>3. PICK k \in 1..(Len(looper) + 1) : \A i \in 1..(Len(looper) + 1) :
           looper'[i] = IF i < k THEN looper[i]
                        ELSE IF i = k THEN [what |-> c, left |-> 0] ELSE looper[i - 1]
  BY <1>2
<1> DEFINE old(i) == IF i < k THEN i ELSE i - 1
           new(i) == IF i < k THEN i ELSE i + 1
<1>4. \A i \in DOMAIN looper' : i # k => old(i) \in DOMAIN looper /\ looper'[i] = looper[old(i)]
  BY <1>1, <1>2, <1>3
<1>5. k \in DOMAIN looper' /\ looper'[k].what = c /\ ~ IsMessage(looper'[k])
  BY <1>1, <1>2, <1>3 DEF IsMessage, MSG_CAMERA_OPEN, MSG_CAMERA_CLOSED
<1>6. \A i \in DOMAIN looper : new(i) \in DOMAIN looper' /\ looper'[new(i)] = looper[i]
  BY <1>1, <1>2, <1>3
<1>7. (\A i \in DOMAIN looper : ~ IsMessage(looper[i]))
      => (\A i \in DOMAIN looper' : ~ IsMessage(looper'[i]))
  BY <1>4, <1>5
<1>8. Debounced'
  BY <1>4, <1>5 DEF PendingInv, Debounced, MSG_CAMERA_OPEN, MSG_CAMERA_CLOSED
<1>9. LastEventWins'
  <2> SUFFICES ASSUME lastSeen' # "none" PROVE LastEventWins'
    BY DEF LastEventWins
  <2>1. running /\ lastSeen' = lastSeen /\ lastCommand' = lastCommand
    OBVIOUS
  <2>2. CASE (\A i \in DOMAIN looper : ~ IsMessage(looper[i])) /\ lastCommand = Wanted(lastSeen)
    BY <1>7, <2>1, <2>2 DEF LastEventWins
  <2>3. CASE \E i \in DOMAIN looper :
               /\ looper[i].what = Message(lastSeen)
               /\ \A j \in DOMAIN looper : j > i => ~ IsMessage(looper[j])
    <3>1. PICK i \in DOMAIN looper :
               /\ looper[i].what = Message(lastSeen)
               /\ \A j \in DOMAIN looper : j > i => ~ IsMessage(looper[j])
      BY <2>3
    <3>2. new(i) \in DOMAIN looper' /\ looper'[new(i)].what = Message(lastSeen)
      BY <1>6, <3>1
    <3>3. \A j \in DOMAIN looper' : j > new(i) => ~ IsMessage(looper'[j])
      <4> SUFFICES ASSUME NEW j \in DOMAIN looper', j > new(i), j # k
                   PROVE  ~ IsMessage(looper'[j])
        BY <1>5
      <4>1. old(j) \in DOMAIN looper /\ looper'[j] = looper[old(j)]
        BY <1>4
      <4>2. old(j) > i
        BY <1>1, <1>2
      <4> QED
        BY <3>1, <4>1, <4>2
    <3> QED
      BY <2>1, <3>2, <3>3 DEF LastEventWins
  <2> QED
    BY <2>1, <2>2, <2>3 DEF PendingInv, LastEventWins
<1>10. lastSeen' = "none" => \A i \in DOMAIN looper' : ~ IsMessage(looper'[i])
  <2>1. CASE running
    BY <1>7, <2>1 DEF PendingInv
  <2>2. CASE ~running
    BY <1>7, <2>2 DEF PendingInv
  <2> QED
    BY <2>1, <2>2
<1> QED
  BY <1>8, <1>9, <1>10 DEF PendingInv

\* A step that sends the message for the callback it answers keeps it.
LEMMA PendingInvSent ==
  ASSUME TypeOK, PendingInv, looper # <<>>, NEW c \in {"open", "closed"}, NEW o \in {"open", "closed"},
         c # o, NEW age, age \in 0..Delay,
         looper' = SentDelayed(IF age < Delay THEN Removed(Tail(looper), Message(o))
                               ELSE Tail(looper), Message(c)),
         running' = running, lastSeen' = c, lastGap' = age
  PROVE  PendingInv'
<1>1. Message(o) \in What /\ Message(c) \in What /\ Message(o) # Message(c)
  BY DEF Message, What, MSG_CAMERA_OPEN, MSG_CAMERA_CLOSED
<1>3. /\ looper' \in Seq(Entry) /\ Len(looper') > 0
      /\ looper'[Len(looper')].what = Message(c)
      /\ age < Delay => \A i \in 1..(Len(looper') - 1) : looper'[i].what # Message(o)
  <2> DEFINE w == Message(o)
             v == Message(c)
  <2>1. /\ w \in What /\ v \in What
        /\ looper' = SentDelayed(IF age < Delay THEN Removed(Tail(looper), w)
                                 ELSE Tail(looper), v)
    BY <1>1
  <2> SUFFICES /\ looper' \in Seq(Entry) /\ Len(looper') > 0
               /\ looper'[Len(looper')].what = v
               /\ age < Delay => \A i \in 1..(Len(looper') - 1) : looper'[i].what # w
    OBVIOUS
  <2> HIDE DEF w, v
  <2> QED
    BY <2>1, CallbackOf
<1>4. DOMAIN looper' = 1..Len(looper') /\ Len(looper') \in Nat
  BY <1>3
<1>5. LastEventWins'
  BY <1>3, <1>4 DEF LastEventWins
<1>6. Debounced'
  <2>1. CASE age = Delay
    BY <2>1 DEF Debounced
  <2>2. CASE age < Delay
    <3>1. \A i \in DOMAIN looper' : looper'[i].what # Message(o)
      BY <1>1, <1>3, <1>4, <2>2
    <3> QED
      BY <3>1 DEF Debounced, Message
  <2> QED
    BY <2>1, <2>2, DelayIsNat
<1>7. ~running' => FALSE
  BY DEF PendingInv
<1> QED
  BY <1>5, <1>6, <1>7 DEF PendingInv

\* A step that carries out the message at the head keeps it.
LEMMA PendingInvHandled ==
  ASSUME TypeOK, PendingInv, looper # <<>>, NEW c \in {"open", "closed"},
         Head(looper).what = Message(c), looper' = Tail(looper),
         lastCommand' = Wanted(c), UNCHANGED <<running, lastSeen, lastGap>>
  PROVE  PendingInv'
<1>1. looper \in Seq(Entry) /\ Len(looper) \in Nat /\ DOMAIN looper = 1..Len(looper)
  BY LooperType
<1>2. /\ looper' \in Seq(Entry) /\ DOMAIN looper' = 1..(Len(looper) - 1) /\ Len(looper) > 0
      /\ \A i \in 1..(Len(looper) - 1) : looper'[i] = looper[i + 1]
      /\ looper[1].what = Message(c)
  BY <1>1, TailOf
<1>3. IsMessage(looper[1]) /\ 1 \in DOMAIN looper
  BY <1>1, <1>2 DEF IsMessage, Message
<1>4. running /\ lastSeen # "none"
  BY <1>3 DEF PendingInv
<1>5. PICK i \in DOMAIN looper :
        /\ looper[i].what = Message(lastSeen)
        /\ \A j \in DOMAIN looper : j > i => ~ IsMessage(looper[j])
  BY <1>3, <1>4 DEF PendingInv, LastEventWins
<1>6. LastEventWins'
  <2>1. CASE i = 1
    <3>1. \A j \in DOMAIN looper' : ~ IsMessage(looper'[j])
      BY <1>1, <1>2, <1>5, <2>1
    <3>2. Wanted(c) = Wanted(lastSeen)
      BY <1>2, <1>4, <1>5, <2>1 DEF TypeOK, Message, Wanted, MSG_CAMERA_OPEN, MSG_CAMERA_CLOSED
    <3> QED
      BY <3>1, <3>2 DEF LastEventWins
  <2>2. CASE i > 1
    <3>1. i - 1 \in DOMAIN looper' /\ looper'[i - 1].what = Message(lastSeen)
      BY <1>1, <1>2, <1>5, <2>2
    <3>2. \A j \in DOMAIN looper' : j > i - 1 => ~ IsMessage(looper'[j])
      BY <1>1, <1>2, <1>5, <2>2
    <3> QED
      BY <3>1, <3>2 DEF LastEventWins
  <2> QED
    BY <1>1, <2>1, <2>2
<1>7. Debounced'
  BY <1>1, <1>2 DEF PendingInv, Debounced
<1> QED
  BY <1>4, <1>6, <1>7 DEF PendingInv

LEMMA PendingInvInductive ==
  ASSUME TypeOK, TypeOK', PendingInv, [Next]_vars
  PROVE  PendingInv'
<1>1. CASE ServiceSame
  BY <1>1 DEF ServiceSame, PendingInv, LastEventWins, Debounced, IsMessage
<1>2. CASE ServiceDies
  BY <1>2 DEF ServiceDies, PendingInv, LastEventWins, Debounced
<1>3. CASE CallbackPosted
  BY <1>3, PendingInvPosted DEF CallbackPosted
<1>4. CASE Tick
  <2>1. DOMAIN looper' = DOMAIN looper /\ \A i \in DOMAIN looper : looper'[i].what = looper[i].what
    BY <1>4, LooperType, TickedOf DEF Tick
  <2>2. looper = <<>> => looper' = <<>>
    BY <1>4 DEF Tick
  <2> QED
    BY <1>4, <2>1, <2>2 DEF Tick, PendingInv, LastEventWins, Debounced, IsMessage
<1>5. CASE MotorServiceStart
  BY <1>5, PendingInvPosted DEF MotorServiceStart, TypeOK
<1>6. CASE onCameraAvailable
  BY <1>6, PendingInvSent DEF onCameraAvailable, Due, Message, TypeOK
<1>7. CASE onCameraUnavailable
  BY <1>7, PendingInvSent DEF onCameraUnavailable, Due, Message, TypeOK
<1>8. CASE handleMessage(MSG_CAMERA_OPEN, "up")
  BY <1>8, PendingInvHandled DEF handleMessage, Due, Message, Wanted
<1>9. CASE handleMessage(MSG_CAMERA_CLOSED, "down")
  BY <1>9, PendingInvHandled DEF handleMessage, Due, Message, Wanted
<1> QED
  BY <1>1, <1>2, <1>3, <1>4, <1>5, <1>6, <1>7, <1>8, <1>9, ServiceSteps DEF CameraMotorService

\* However quickly the camera is opened and closed, whatever onCameraAvailable
\* and onCameraUnavailable cancel, however late the looper is and wherever the
\* process dies: CameraMotorService has the message of the last callback pending
\* last, or has carried it out; and it never has both messages pending unless the
\* callbacks were CAMERA_EVENT_DELAY_TIME apart.
THEOREM PendingMessageCorrect == Spec => [](LastEventWins /\ Debounced)
<1>1. Init => PendingInv
  BY DEF Init, PendingInv, LastEventWins, Debounced
<1>2. Spec => []TypeOK
  BY TypeCorrect
<1>3. TypeOK /\ TypeOK' /\ PendingInv /\ [Next]_vars => PendingInv'
  BY PendingInvInductive
<1>4. PendingInv => LastEventWins /\ Debounced
  BY DEF PendingInv
<1> QED
  BY <1>1, <1>2, <1>3, <1>4, PTL DEF Spec

\* In particular the last camera event decides what CameraMotorService does ...
THEOREM LastEventWinsAlways == Spec => []LastEventWins
BY PendingMessageCorrect, PTL

\* ... and an open and a close within CAMERA_EVENT_DELAY_TIME of each other are
\* never both pending.
THEOREM DebouncedAlways == Spec => []Debounced
BY PendingMessageCorrect, PTL
-----------------------------------------------------------------------------
(* FallSensor: the listener.                                               *)

\* The inductive invariant: the last task in the executor's queue is the last
\* request, and the property itself.
ListenerInv ==
  /\ sensing /\ tasks # <<>> => tasks[Len(tasks)] = lastRequest
  /\ ListenerFollowsRequests

LEMMA ListenerInvInductive ==
  ASSUME TypeOK, ListenerInv, [Next]_vars
  PROVE  ListenerInv'
<1>t. tasks \in Seq({"enable", "disable"})
  BY DEF TypeOK
<1>1. CASE UNCHANGED <<sensing, tasks, registered, lastRequest>>
  BY <1>1 DEF ListenerInv, ListenerFollowsRequests
<1>2. CASE ProcessDies
  BY <1>2 DEF ProcessDies, ListenerInv, ListenerFollowsRequests
<1>3. CASE \E request : Submit(request)
  <2>1. PICK request : tasks' = Append(tasks, request) /\ lastRequest' = request
    BY <1>3 DEF Submit
  <2>2. /\ Len(tasks') = Len(tasks) + 1 /\ Len(tasks) \in Nat
        /\ tasks'[Len(tasks) + 1] = request
    BY <1>t, <2>1
  <2>3. tasks' # <<>>
    BY <2>2
  <2> QED
    BY <2>1, <2>2, <2>3 DEF ListenerInv, ListenerFollowsRequests
<1>4. CASE RunTask
  <2>1. /\ tasks # <<>> /\ tasks' = Tail(tasks) /\ registered' = (Head(tasks) = "enable")
        /\ UNCHANGED <<sensing, lastRequest>>
    BY <1>4 DEF RunTask
  <2> SUFFICES ASSUME sensing PROVE ListenerInv'
    BY <2>1 DEF ListenerInv, ListenerFollowsRequests
  <2>2. tasks[Len(tasks)] = lastRequest /\ Len(tasks) \in Nat \ {0}
    BY <1>t, <2>1 DEF ListenerInv
  <2>3. CASE Len(tasks) = 1
    <3>1. tasks' = <<>> /\ Head(tasks) = lastRequest
      BY <1>t, <2>1, <2>2, <2>3
    <3> QED
      BY <2>1, <3>1 DEF ListenerInv, ListenerFollowsRequests
  <2>4. CASE Len(tasks) > 1
    <3>0. /\ Len(tasks') = Len(tasks) - 1
          /\ \A i \in 1..(Len(tasks) - 1) : tasks'[i] = tasks[i + 1]
      BY <1>t, <2>1
    <3>1. tasks' # <<>> /\ tasks'[Len(tasks')] = tasks[Len(tasks)]
      <4>1. Len(tasks') \in 1..(Len(tasks) - 1) /\ Len(tasks') + 1 = Len(tasks)
        BY <2>2, <2>4, <3>0
      <4>2. Len(<<>>) = 0
        OBVIOUS
      <4> QED
        BY <3>0, <4>1, <4>2
    <3> QED
      BY <2>1, <2>2, <3>1 DEF ListenerInv, ListenerFollowsRequests
  <2> QED
    BY <2>2, <2>3, <2>4
<1>5. onSensorChanged => UNCHANGED <<sensing, tasks, registered, lastRequest>> \/ ProcessDies
  BY DEF onSensorChanged, fallVars
<1>6. Crash => ProcessDies
  BY DEF Crash
<1>7. FallServiceStart => \E request : Submit(request)
  BY DEF FallServiceStart
<1>8. \A d : onReceive(d) => Submit(d)
  BY DEF onReceive
<1>9. \/ MotorServiceStart \/ CameraMotorService \/ MainEnable \/ RaiseButton \/ CloseButton
      \/ ManualToDown \/ SysEnable \/ CameraChange \/ MotorMoves \/ Tick \/ UNCHANGED vars
      => UNCHANGED <<sensing, tasks, registered, lastRequest>>
  BY DEF MotorServiceStart, CameraMotorService, onCameraAvailable, onCameraUnavailable,
     handleMessage, MainEnable, RaiseButton, CloseButton, ManualToDown, SysEnable,
     CameraChange, MotorMoves, Tick, vars, fallVars
<1>10. \A d, m : MotorAbnormal(d) \/ KeyButton(d, m)
                => UNCHANGED <<sensing, tasks, registered, lastRequest>>
  BY DEF MotorAbnormal, KeyButton, fallVars
<1> QED
  BY <1>1, <1>2, <1>3, <1>4, <1>5, <1>6, <1>7, <1>8, <1>9, <1>10 DEF Next

\* Whenever the executor of FallSensor is idle the listener is registered exactly
\* if the last of onStartCommand, screen on and screen off asked for it, in
\* whatever order they and the executor ran and wherever the process died.
THEOREM ListenerCorrect == Spec => []ListenerFollowsRequests
<1>1. Init => ListenerInv
  BY DEF Init, ListenerInv, ListenerFollowsRequests
<1>2. Spec => []TypeOK
  BY TypeCorrect
<1>3. TypeOK /\ ListenerInv /\ [Next]_vars => ListenerInv'
  BY ListenerInvInductive
<1>4. ListenerInv => ListenerFollowsRequests
  BY DEF ListenerInv
<1> QED
  BY <1>1, <1>2, <1>3, <1>4, PTL DEF Spec
=============================================================================
