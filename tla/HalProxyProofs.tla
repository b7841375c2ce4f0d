--------------------------- MODULE HalProxyProofs ---------------------------
(***************************************************************************)
(* Proofs about HalProxy for every number of sub-HALs, every queue size    *)
(* and every batch.                                                        *)
(***************************************************************************)
EXTENDS HalProxy, FiniteSetTheorems, TLAPS

(***************************************************************************)
(* Lemmas about the operators of the model.                                *)
(***************************************************************************)

\* The first element of a queue, and the queue with it replaced or removed.
LEMMA FrontOfQueue ==
  ASSUME NEW S, NEW q \in Seq(S), q # <<>>
  PROVE  /\ Len(q) \in Nat \ {0} /\ 1 \in DOMAIN q
         /\ q[1] \in S /\ Head(q) = q[1]
         /\ Tail(q) \in Seq(S) /\ Len(Tail(q)) = Len(q) - 1
OBVIOUS

LEMMA ReplaceFront ==
  ASSUME NEW S, NEW q \in Seq(S), q # <<>>, NEW e \in S
  PROVE  [q EXCEPT ![1] = e] \in Seq(S)
<1>1. Len(q) \in Nat /\ DOMAIN q = 1..Len(q) /\ 1 \in DOMAIN q
  OBVIOUS
<1>2. [q EXCEPT ![1] = e] \in [1..Len(q) -> S]
  BY <1>1
<1> QED
  BY <1>1, <1>2

LEMMA AppendKeepsFront ==
  ASSUME NEW S, NEW q \in Seq(S), NEW e
  PROVE  Append(q, e) # <<>> /\ (q # <<>> => Append(q, e)[1] = q[1])
<1>1. q \in Seq(S \cup {e})
  OBVIOUS
<1> QED
  BY <1>1

LEMMA Concatenation ==
  ASSUME NEW S, NEW q \in Seq(S), NEW r \in Seq(S)
  PROVE  q \o r \in Seq(S) /\ Len(q \o r) = Len(q) + Len(r)
OBVIOUS

\* AlsCorrection changes the handles of a batch, neither its length nor its
\* being a sequence of events.
LEMMA AlsProcessedType ==
  ASSUME NEW s \in Seq(Event), NEW dropped
  PROVE  /\ AlsProcessed(s, dropped) \in Seq(Event)
         /\ Len(AlsProcessed(s, dropped)) = Len(s)
<1> DEFINE f == [i \in 1..Len(s) |->
                   IF i \in dropped THEN [s[i] EXCEPT !.handle = ZeroHandle] ELSE s[i]]
<1>1. Len(s) \in Nat /\ DOMAIN s = 1..Len(s)
  OBVIOUS
<1>2. ASSUME NEW i \in 1..Len(s)
      PROVE  /\ s[i] \in Event
             /\ [s[i] EXCEPT !.handle = ZeroHandle] \in Event
  <2>1. s[i] \in Event
    BY <1>1
  <2>2. ZeroHandle \in Handle
    BY ConstantsAssumption
  <2> QED
    BY <2>1, <2>2 DEF Event
<1>3. f \in [1..Len(s) -> Event]
  BY <1>2
<1>4. f \in Seq(Event) /\ Len(f) = Len(s)
  BY <1>1, <1>3
<1>5. AlsProcessed(s, dropped) = f
  BY <1>1 DEF AlsProcessed
<1> QED
  BY <1>4, <1>5

\* The events of a batch, numbered by CreateScopedWakelock.
LEMMA BatchType ==
  ASSUME NEW s \in SubHals, NEW k \in Nat, NEW b \in Batches
  PROVE  [i \in 1..Len(b) |-> [src |-> s, id |-> k + i, handle |-> b[i]]] \in Seq(Event)
<1>1. b \in Seq(Handle) /\ Len(b) \in Nat
  BY ConstantsAssumption
<1>2. \A i \in 1..Len(b) : [src |-> s, id |-> k + i, handle |-> b[i]] \in Event
  BY <1>1 DEF Event
<1> QED
  BY <1>1, <1>2

\* What FitsNow returns: never more than the batch has or the FMQ can take.
LEMMA FitsNowType ==
  ASSUME QueuesOK, NEW events \in Seq(Event)
  PROVE  /\ FitsNow(events) \in 0..Len(events)
         /\ FitsNow(events) <= QueueSize - Len(mEventQueue)
BY ConstantsAssumption DEF QueuesOK, FitsNow, Lesser

\* countNumWakeupEvents is positive exactly when there is a wake-up event.
LEMMA CountType ==
  ASSUME NEW s \in Seq(Event)
  PROVE  /\ countNumWakeupEvents(s) \in Nat
         /\ (\E i \in DOMAIN s : s[i].handle \in WakeUp) <=> countNumWakeupEvents(s) > 0
<1> DEFINE W == {i \in DOMAIN s : s[i].handle \in WakeUp}
<1>1. DOMAIN s = 1..Len(s) /\ Len(s) \in Nat
  OBVIOUS
<1>2. IsFiniteSet(1..Len(s))
  BY <1>1, FS_Interval
<1>3. IsFiniteSet(W)
  BY <1>1, <1>2, FS_Subset
<1>4. Cardinality(W) \in Nat /\ (Cardinality(W) = 0 <=> W = {})
  BY <1>3, FS_CardinalityType, FS_EmptySet
<1> QED
  BY <1>4 DEF countNumWakeupEvents
-----------------------------------------------------------------------------
(***************************************************************************)
(* Type correctness.                                                       *)
(***************************************************************************)

\* The shared wake lock keeps its type when references are added or dropped.
LEMMA IncrementType ==
  ASSUME WakelockOK, NEW delta \in Nat, IncrementRefCount(delta), UNCHANGED numProcessed
  PROVE  WakelockOK'
<1>1. mWakelockRefCount' \in Nat /\ numProcessed' \in Nat
  BY DEF WakelockOK, IncrementRefCount
<1>2. held' \in BOOLEAN
  <2>1. CASE mWakelockRefCount = 0
    BY <2>1, Zenon DEF IncrementRefCount
  <2>2. CASE mWakelockRefCount # 0
    BY <2>2, Zenon DEF IncrementRefCount, WakelockOK
  <2> QED
    BY <2>1, <2>2
<1>3. expired' \in BOOLEAN
  BY Zenon DEF IncrementRefCount
<1> QED
  BY <1>1, <1>2, <1>3 DEF WakelockOK

LEMMA DecrementType ==
  ASSUME WakelockOK, NEW delta \in Nat, DecrementRefCount(delta)
  PROVE  mWakelockRefCount' \in Nat /\ held' \in BOOLEAN
<1>1. mWakelockRefCount' \in Nat
  BY DEF WakelockOK, DecrementRefCount, Lesser
<1>2. held' \in BOOLEAN
  <2>1. CASE 0 < mWakelockRefCount /\ mWakelockRefCount <= delta
    BY <2>1, Zenon DEF DecrementRefCount
  <2>2. CASE ~(0 < mWakelockRefCount /\ mWakelockRefCount <= delta)
    BY <2>2, Zenon DEF DecrementRefCount, WakelockOK
  <2> QED
    BY <2>1, <2>2
<1> QED
  BY <1>1, <1>2

LEMMA TypePoster ==
  ASSUME TypeOK, NEW s \in SubHals, Poster(s)
  PROVE  TypeOK'
<1> USE DEF queueVars, lockVars, pwVars, wlVars, initVars, postVars, fwVars
<1>1. CASE CreateScopedWakelock(s)
  <2>1. PICK b \in Batches :
          /\ batch' = [batch EXCEPT ![s] =
               [i \in 1..Len(b) |-> [src |-> s, id |-> generated[s] + i, handle |-> b[i]]]]
          /\ generated' = [generated EXCEPT ![s] = @ + Len(b)]
          /\ pc' = [pc EXCEPT ![s] =
               IF mThreadsRun /\ \E i \in DOMAIN b : b[i] \in WakeUp
               THEN "acquire" ELSE "post"]
    BY <1>1 DEF CreateScopedWakelock
  <2>2. Len(b) \in Nat
    BY ConstantsAssumption
  <2>3. generated[s] \in Nat
    BY DEF TypeOK, PostersOK
  <2>4. [i \in 1..Len(b) |-> [src |-> s, id |-> generated[s] + i, handle |-> b[i]]]
          \in Seq(Event)
    BY <2>3, BatchType
  <2>5. PostersOK'
    <3>1. batch' \in [SubHals -> Seq(Event)]
      BY <2>1, <2>4 DEF TypeOK, PostersOK
    <3>2. generated' \in [SubHals -> Nat]
      BY <2>1, <2>2 DEF TypeOK, PostersOK
    <3>3. pc' \in [SubHals -> {"idle", "acquire", "post", "enter", "count", "write",
                               "release", "unref"}]
      BY <2>1 DEF TypeOK, PostersOK
    <3> QED
      BY <1>1, <3>1, <3>2, <3>3 DEF TypeOK, PostersOK, CreateScopedWakelock
  <2> QED
    BY <1>1, <2>5 DEF TypeOK, QueuesOK, WakelockOK, ThreadsOK, FrameworkOK,
                      CreateScopedWakelock
<1>2. CASE Acquire(s)
  <2>1. WakelockOK'
    BY <1>2, IncrementType DEF TypeOK, Acquire
  <2>3. ThreadsOK'
    BY <1>2 DEF TypeOK, ThreadsOK, Acquire, IncrementRefCount, Notified
  <2>2. PostersOK'
    BY <1>2 DEF TypeOK, PostersOK, Acquire
  <2> QED
    BY <1>2, <2>1, <2>2, <2>3 DEF TypeOK, QueuesOK, FrameworkOK, Acquire
<1>3. CASE PostEvents(s)
  <2>1. countNumWakeupEvents(batch[s]) \in Nat
    BY CountType DEF TypeOK, PostersOK
  <2>2. PostersOK'
    BY <1>3, <2>1 DEF TypeOK, PostersOK, PostEvents
  <2> QED
    BY <1>3, <2>2 DEF TypeOK, QueuesOK, WakelockOK, ThreadsOK, FrameworkOK, PostEvents
<1>4. CASE PostLock(s)
  <2>1. PostersOK' /\ ThreadsOK'
    BY <1>4 DEF TypeOK, PostersOK, ThreadsOK, PostLock
  <2> QED
    BY <1>4, <2>1 DEF TypeOK, QueuesOK, WakelockOK, FrameworkOK, PostLock
<1>5. CASE PostCount(s)
  <2>1. numWakeup[s] \in Nat
    BY DEF TypeOK, PostersOK
  <2>2. WakelockOK'
    BY <1>5, <2>1, IncrementType DEF TypeOK, PostCount
  <2>4. ThreadsOK'
    BY <1>5 DEF TypeOK, ThreadsOK, PostCount, IncrementRefCount, Notified
  <2>3. PostersOK'
    BY <1>5 DEF TypeOK, PostersOK, PostCount
  <2> QED
    BY <1>5, <2>2, <2>3, <2>4 DEF TypeOK, QueuesOK, FrameworkOK, PostCount
<1>6. CASE PostWrite(s)
  <2>1. PICK dropped \in SUBSET {i \in DOMAIN batch[s] : batch[s][i].handle \in WiseLight} :
          LET events == AlsProcessed(batch[s], dropped)
              num    == FitsNow(events)
              left   == SubSeq(events, num + 1, Len(events))
          IN  /\ mEventQueue' = mEventQueue \o SubSeq(events, 1, num)
              /\ \/ /\ mPendingWriteEventsQueue' = Append(mPendingWriteEventsQueue,
                         [events |-> left, numWakeupEvents |-> numWakeup[s]])
                    /\ mSizePendingWriteEventsQueue' =
                         mSizePendingWriteEventsQueue + Len(left)
                    /\ pwPc' = Notified(pwPc)
                 \/ UNCHANGED <<queueVars, pwPc>>
              /\ undisturbed' \in BOOLEAN
    BY <1>6 DEF PostWrite
  <2> DEFINE events == AlsProcessed(batch[s], dropped)
             num    == FitsNow(events)
             left   == SubSeq(events, num + 1, Len(events))
  <2>2. events \in Seq(Event)
    BY AlsProcessedType DEF TypeOK, PostersOK
  <2>3. num \in 0..Len(events) /\ num <= QueueSize - Len(mEventQueue)
    BY <2>2, FitsNowType DEF TypeOK
  <2>4. /\ left \in Seq(Event) /\ Len(left) \in Nat
        /\ SubSeq(events, 1, num) \in Seq(Event) /\ Len(SubSeq(events, 1, num)) = num
    BY <2>2, <2>3
  <2>5. QueuesOK'
    <3> HIDE DEF events, left, num
    <3>1. mEventQueue' \in Seq(Event) /\ Len(mEventQueue') <= QueueSize
      BY <2>1, <2>3, <2>4, ConstantsAssumption DEF TypeOK, QueuesOK, events, num
    <3>2. [events |-> left, numWakeupEvents |-> numWakeup[s]]
            \in [events : Seq(Event), numWakeupEvents : Nat]
      BY <2>4 DEF TypeOK, PostersOK
    <3>3. mPendingWriteEventsQueue' \in Seq([events : Seq(Event), numWakeupEvents : Nat])
      <4>1. CASE UNCHANGED queueVars
        BY <4>1 DEF TypeOK, QueuesOK
      <4>2. CASE mPendingWriteEventsQueue' = Append(mPendingWriteEventsQueue,
                   [events |-> left, numWakeupEvents |-> numWakeup[s]])
        BY <3>2, <4>2 DEF TypeOK, QueuesOK
      <4> QED
        BY <2>1, <4>1, <4>2 DEF events, num, left
    <3>4. mSizePendingWriteEventsQueue' \in Int
      BY <2>1, <2>4 DEF TypeOK, QueuesOK, events, num, left
    <3> QED
      BY <1>6, <3>1, <3>3, <3>4 DEF TypeOK, QueuesOK, PostWrite
  <2>6. ThreadsOK' /\ FrameworkOK'
    BY <1>6, <2>1 DEF TypeOK, ThreadsOK, FrameworkOK, PostWrite, Notified
  <2>7. PostersOK'
    BY <1>6 DEF TypeOK, PostersOK, PostWrite
  <2> QED
    BY <1>6, <2>5, <2>6, <2>7 DEF TypeOK, WakelockOK, PostWrite
<1>7. CASE ReleaseScopedWakelock(s)
  <2>1. PostersOK'
    BY <1>7 DEF TypeOK, PostersOK, ThreadsOK, ReleaseScopedWakelock
  <2> QED
    BY <1>7, <2>1 DEF TypeOK, QueuesOK, WakelockOK, ThreadsOK, FrameworkOK,
                      ReleaseScopedWakelock
<1>8. CASE Unref(s)
  <2>1. WakelockOK'
    <3>1. CASE stale[s]
      BY <1>8, <3>1 DEF TypeOK, WakelockOK, Unref
    <3>2. CASE ~stale[s]
      BY <1>8, <3>2, DecrementType DEF TypeOK, WakelockOK, Unref
    <3> QED
      BY <3>1, <3>2
  <2>2. PostersOK'
    BY <1>8 DEF TypeOK, PostersOK, Unref
  <2> QED
    BY <1>8, <2>1, <2>2 DEF TypeOK, QueuesOK, ThreadsOK, FrameworkOK, Unref
<1> QED
  BY <1>1, <1>2, <1>3, <1>4, <1>5, <1>6, <1>7, <1>8 DEF Poster

LEMMA TypePendingWrites ==
  ASSUME TypeOK, FrontStable, handlePendingWrites
  PROVE  TypeOK'
<1> USE DEF queueVars, lockVars, pwVars, wlVars, initVars, postVars, fwVars
<1> DEFINE Entry == [events : Seq(Event), numWakeupEvents : Nat]
<1>0. ASSUME mPendingWriteEventsQueue # <<>>
      PROVE  /\ mPendingWriteEventsQueue[1].events \in Seq(Event)
             /\ mPendingWriteEventsQueue[1].numWakeupEvents \in Nat
             /\ 1 \in DOMAIN mPendingWriteEventsQueue
  <2>1. mPendingWriteEventsQueue[1] \in Entry /\ 1 \in DOMAIN mPendingWriteEventsQueue
    <3> HIDE DEF Entry
    <3>1. mPendingWriteEventsQueue \in Seq(Entry)
      BY DEF TypeOK, QueuesOK, Entry
    <3> QED
      BY <1>0, <3>1, FrontOfQueue
  <2> QED
    BY <2>1
<1>1. CASE PwLock
  BY <1>1 DEF TypeOK, QueuesOK, WakelockOK, ThreadsOK, PostersOK, FrameworkOK, PwLock
<1>2. CASE PwTest
  <2>1. mPendingWriteEventsQueue # <<>> =>
          Lesser(Len(mPendingWriteEventsQueue[1].events), QueueSize) \in Nat
    BY <1>0, ConstantsAssumption DEF Lesser
  <2>2. ThreadsOK'
    <3>1. CASE mPendingWriteEventsQueue = <<>> \/ ~mThreadsRun
      BY <1>2, <3>1 DEF TypeOK, ThreadsOK, PwTest
    <3>2. CASE mPendingWriteEventsQueue # <<>> /\ mThreadsRun
      BY <1>0, <1>2, <2>1, <3>2 DEF TypeOK, ThreadsOK, PwTest
    <3> QED
      BY <3>1, <3>2
  <2> QED
    BY <1>2, <2>2 DEF TypeOK, QueuesOK, WakelockOK, PostersOK, FrameworkOK, PwTest
<1>3. CASE PwPark
  BY <1>3 DEF TypeOK, QueuesOK, WakelockOK, ThreadsOK, PostersOK, FrameworkOK, PwPark
<1>4. CASE PwSpuriousWakeup
  BY <1>4 DEF TypeOK, QueuesOK, WakelockOK, ThreadsOK, PostersOK, FrameworkOK,
              PwSpuriousWakeup
<1>5. CASE PwWrite
  <2> DEFINE front == mPendingWriteEventsQueue[1].events
  <2>1. front \in Seq(Event) /\ numToWrite \in 0..Len(front)
    BY <1>0, <1>5, ConstantsAssumption DEF PwWrite, FrontStable, Lesser
  <2>2. /\ SubSeq(front, 1, numToWrite) \in Seq(Event)
        /\ Len(SubSeq(front, 1, numToWrite)) = numToWrite
    BY <2>1
  <2>3. QueuesOK'
    <3> HIDE DEF front
    <3>1. mEventQueue' = mEventQueue \o SubSeq(front, 1, numToWrite)
      BY <1>5 DEF PwWrite, front
    <3>2. mEventQueue' \in Seq(Event) /\ Len(mEventQueue') <= QueueSize
      <4> DEFINE new == SubSeq(front, 1, numToWrite)
      <4>1. new \in Seq(Event) /\ Len(new) = numToWrite /\ mEventQueue \in Seq(Event)
        BY <2>2 DEF TypeOK, QueuesOK
      <4> HIDE DEF new
      <4>2. mEventQueue \o new \in Seq(Event)
            /\ Len(mEventQueue \o new) = Len(mEventQueue) + numToWrite
        BY <4>1, Concatenation
      <4>3. mEventQueue' = mEventQueue \o new
        BY <3>1 DEF new
      <4> QED
        BY <1>5, <4>2, <4>3 DEF PwWrite
    <3> QED
      BY <1>5, <3>2 DEF TypeOK, QueuesOK, PwWrite
  <2> QED
    BY <1>5, <2>3 DEF TypeOK, WakelockOK, ThreadsOK, PostersOK, FrameworkOK, PwWrite
<1>6. CASE PwWriteTimeout
  <2>1. ThreadsOK' /\ FrameworkOK'
    BY <1>6 DEF TypeOK, ThreadsOK, FrameworkOK, PwWriteTimeout
  <2> QED
    BY <1>6, <2>1 DEF TypeOK, QueuesOK, WakelockOK, PostersOK, PwWriteTimeout
<1>7. CASE PwUnref
  <2> DEFINE front == mPendingWriteEventsQueue[1].events
             delta == IF Len(front) > QueueSize
                      THEN countNumWakeupEvents(SubSeq(front, 1, QueueSize))
                      ELSE pwWakeups
  <2>1. front \in Seq(Event)
    BY <1>0, <1>7 DEF PwUnref, FrontStable
  <2>2. Len(front) > QueueSize => SubSeq(front, 1, QueueSize) \in Seq(Event)
    BY <2>1, ConstantsAssumption
  <2>3. delta \in Nat
    BY <2>2, CountType DEF TypeOK, ThreadsOK
  <2>4. DecrementRefCount(delta)
    BY <1>7 DEF PwUnref
  <2>5. WakelockOK'
    <3> HIDE DEF delta
    <3> QED
      BY <1>7, <2>3, <2>4, DecrementType DEF TypeOK, WakelockOK, PwUnref
  <2> QED
    BY <1>7, <2>5 DEF TypeOK, QueuesOK, ThreadsOK, PostersOK, FrameworkOK, PwUnref
<1>8. CASE PwRelock
  <2> DEFINE front == mPendingWriteEventsQueue[1].events
             rest  == SubSeq(front, QueueSize + 1, Len(front))
  <2>1. front \in Seq(Event) /\ mPendingWriteEventsQueue # <<>>
    BY <1>0, <1>8 DEF PwRelock, FrontStable
  <2>2. CASE Len(front) > QueueSize
    <3>1. rest \in Seq(Event)
      BY <2>1, <2>2, ConstantsAssumption
    <3>2. [mPendingWriteEventsQueue[1] EXCEPT !.events = rest] \in Entry
      <4>1. mPendingWriteEventsQueue[1] \in Entry
        <5> HIDE DEF Entry
        <5>1. mPendingWriteEventsQueue \in Seq(Entry)
          BY DEF TypeOK, QueuesOK, Entry
        <5> QED
          BY <2>1, <5>1, FrontOfQueue
      <4> HIDE DEF rest
      <4> QED
        BY <3>1, <4>1
    <3>3. mPendingWriteEventsQueue' =
            [mPendingWriteEventsQueue EXCEPT ![1] =
               [mPendingWriteEventsQueue[1] EXCEPT !.events = rest]]
      BY <1>8, <2>2 DEF PwRelock
    <3>4. QueuesOK'
      <4> HIDE DEF rest, front
      <4>1. mPendingWriteEventsQueue' \in Seq(Entry)
        <5> HIDE DEF Entry
        <5>1. mPendingWriteEventsQueue \in Seq(Entry)
          BY DEF TypeOK, QueuesOK, Entry
        <5> QED
          BY <2>1, <3>2, <3>3, <5>1, ReplaceFront
      <4> QED
        BY <1>8, <4>1 DEF TypeOK, QueuesOK, ThreadsOK, PwRelock
    <3> QED
      BY <1>8, <3>4 DEF TypeOK, WakelockOK, ThreadsOK, PostersOK, FrameworkOK, PwRelock
  <2>3. CASE ~(Len(front) > QueueSize)
    <3>1. mPendingWriteEventsQueue' = Tail(mPendingWriteEventsQueue)
      BY <1>8, <2>3 DEF PwRelock
    <3>2. QueuesOK'
      BY <1>8, <2>1, <3>1 DEF TypeOK, QueuesOK, ThreadsOK, PwRelock
    <3> QED
      BY <1>8, <3>2 DEF TypeOK, WakelockOK, ThreadsOK, PostersOK, FrameworkOK, PwRelock
  <2> QED
    BY <2>2, <2>3
<1> QED
  BY <1>1, <1>2, <1>3, <1>4, <1>5, <1>6, <1>7, <1>8 DEF handlePendingWrites

LEMMA TypeWakelocks ==
  ASSUME TypeOK, handleWakelocks
  PROVE  TypeOK'
<1> USE DEF queueVars, lockVars, pwVars, wlVars, initVars, postVars, fwVars
<1>1. CASE WlLock
  BY <1>1 DEF TypeOK, QueuesOK, WakelockOK, ThreadsOK, PostersOK, FrameworkOK, WlLock
<1>2. CASE WlTest
  <2>1. WakelockOK'
    BY <1>2, DecrementType DEF TypeOK, WakelockOK, WlTest
  <2>2. ThreadsOK' /\ FrameworkOK'
    BY <1>2 DEF TypeOK, ThreadsOK, FrameworkOK, WlTest
  <2>3. PostersOK'
    BY <1>2 DEF TypeOK, PostersOK, WlTest, SetResetTime
  <2> QED
    BY <1>2, <2>1, <2>2, <2>3 DEF TypeOK, QueuesOK, WlTest
<1>3. CASE WlPark
  BY <1>3 DEF TypeOK, QueuesOK, WakelockOK, ThreadsOK, PostersOK, FrameworkOK, WlPark
<1>4. CASE WlSpuriousWakeup
  BY <1>4 DEF TypeOK, QueuesOK, WakelockOK, ThreadsOK, PostersOK, FrameworkOK,
              WlSpuriousWakeup
<1>5. CASE WlRead
  <2>1. Head(mWakeLockQueue) \in Nat /\ Tail(mWakeLockQueue) \in Seq(Nat)
    BY <1>5 DEF TypeOK, QueuesOK, WlRead
  <2> QED
    BY <1>5, <2>1 DEF TypeOK, QueuesOK, WakelockOK, ThreadsOK, PostersOK, FrameworkOK,
                      WlRead
<1>6. CASE WlReadTimeout
  BY <1>6 DEF TypeOK, QueuesOK, WakelockOK, ThreadsOK, PostersOK, FrameworkOK,
              WlReadTimeout
<1>7. CASE WlRelock
  <2>1. WakelockOK'
    <3>1. CASE mThreadsRun
      BY <1>7, <3>1, DecrementType DEF TypeOK, WakelockOK, WlRelock
    <3>2. CASE ~mThreadsRun
      BY <1>7, <3>2 DEF TypeOK, WakelockOK, WlRelock
    <3> QED
      BY <3>1, <3>2
  <2> QED
    BY <1>7, <2>1 DEF TypeOK, QueuesOK, ThreadsOK, PostersOK, FrameworkOK, WlRelock
<1> QED
  BY <1>1, <1>2, <1>3, <1>4, <1>5, <1>6, <1>7 DEF handleWakelocks

LEMMA TypeInitialize ==
  ASSUME TypeOK, initializeCommon
  PROVE  TypeOK'
<1> USE DEF queueVars, lockVars, pwVars, wlVars, initVars, postVars, fwVars, InitGoto
<1>1. CASE InitStop
  <2>1. FrameworkOK'
    BY <1>1, Zenon DEF TypeOK, FrameworkOK, InitStop
  <2> QED
    BY <1>1, <2>1 DEF TypeOK, QueuesOK, WakelockOK, ThreadsOK, PostersOK, InitStop
<1>2. CASE InitDrain
  <2>1. QueuesOK'
    BY <1>2, ConstantsAssumption DEF TypeOK, QueuesOK, InitDrain
  <2> QED
    BY <1>2, <2>1 DEF TypeOK, WakelockOK, ThreadsOK, PostersOK, FrameworkOK, InitDrain
<1>3. CASE InitKick
  <2>1. QueuesOK'
    BY <1>3 DEF TypeOK, QueuesOK, InitKick
  <2> QED
    BY <1>3, <2>1 DEF TypeOK, WakelockOK, ThreadsOK, PostersOK, FrameworkOK, InitKick
<1>4. CASE InitNotifyWl
  BY <1>4 DEF TypeOK, QueuesOK, WakelockOK, ThreadsOK, PostersOK, FrameworkOK,
              InitNotifyWl, Notified
<1>5. CASE InitNotifyPw
  BY <1>5 DEF TypeOK, QueuesOK, WakelockOK, ThreadsOK, PostersOK, FrameworkOK,
              InitNotifyPw, Notified
<1>6. CASE InitJoin
  BY <1>6 DEF TypeOK, QueuesOK, WakelockOK, ThreadsOK, PostersOK, FrameworkOK, InitJoin
<1>7. CASE InitReset
  BY <1>7 DEF TypeOK, QueuesOK, WakelockOK, ThreadsOK, PostersOK, FrameworkOK,
              InitReset, SetResetTime
<1>8. CASE InitDisable
  <2>1. PostersOK'
    BY <1>8, Zenon DEF TypeOK, PostersOK, InitDisable
  <2> QED
    BY <1>8, <2>1 DEF TypeOK, QueuesOK, WakelockOK, ThreadsOK, FrameworkOK, InitDisable
<1>9. CASE InitClear
  <2>1. QueuesOK'
    BY <1>9, ConstantsAssumption DEF TypeOK, QueuesOK, InitClear
  <2> QED
    BY <1>9, <2>1 DEF TypeOK, WakelockOK, ThreadsOK, PostersOK, FrameworkOK, InitClear
<1>10. CASE InitStart
  BY <1>10 DEF TypeOK, QueuesOK, WakelockOK, ThreadsOK, PostersOK, FrameworkOK, InitStart
<1>11. CASE InitSubHals
  BY <1>11 DEF TypeOK, QueuesOK, WakelockOK, ThreadsOK, PostersOK, FrameworkOK,
               InitSubHals
<1> QED
  BY <1>1, <1>2, <1>3, <1>4, <1>5, <1>6, <1>7, <1>8, <1>9, <1>10, <1>11
     DEF initializeCommon

LEMMA TypeOthers ==
  ASSUME TypeOK,
         \/ \E s \in SubHals, enabled \in BOOLEAN : Activate(s, enabled)
         \/ Expire \/ FrameworkRead \/ FrameworkAck
  PROVE  TypeOK'
<1> USE DEF queueVars, lockVars, pwVars, wlVars, initVars, postVars, fwVars
<1>1. ASSUME NEW s \in SubHals, NEW enabled \in BOOLEAN, Activate(s, enabled)
      PROVE  TypeOK'
  <2>1. PostersOK'
    BY <1>1 DEF TypeOK, PostersOK, Activate
  <2> QED
    BY <1>1, <2>1 DEF TypeOK, QueuesOK, WakelockOK, ThreadsOK, FrameworkOK, Activate
<1>2. CASE Expire
  BY <1>2 DEF TypeOK, QueuesOK, WakelockOK, ThreadsOK, PostersOK, FrameworkOK, Expire
<1>3. CASE FrameworkRead
  <2>1. /\ Head(mEventQueue) \in Event
        /\ Tail(mEventQueue) \in Seq(Event) /\ Len(Tail(mEventQueue)) <= QueueSize
    BY <1>3, FrontOfQueue, ConstantsAssumption DEF TypeOK, QueuesOK, FrameworkRead
  <2>2. Head(mEventQueue).src \in SubHals /\ Head(mEventQueue).id \in Nat
    BY <2>1 DEF Event
  <2>3. FrameworkOK'
    BY <1>3, <2>2 DEF TypeOK, FrameworkOK, FrameworkRead
  <2>4. QueuesOK'
    BY <1>3, <2>1 DEF TypeOK, QueuesOK, FrameworkRead
  <2> QED
    BY <1>3, <2>3, <2>4 DEF TypeOK, WakelockOK, ThreadsOK, PostersOK, FrameworkRead
<1>4. CASE FrameworkAck
  <2>1. QueuesOK' /\ FrameworkOK'
    BY <1>4 DEF TypeOK, QueuesOK, FrameworkOK, FrameworkAck
  <2> QED
    BY <1>4, <2>1 DEF TypeOK, WakelockOK, ThreadsOK, PostersOK, FrameworkAck
<1> QED
  BY <1>1, <1>2, <1>3, <1>4
-----------------------------------------------------------------------------
(***************************************************************************)
(* The pending writes thread owns the front of the queue.  FrontStable is  *)
(* inductive together with the fact that the queue is cleared only between *)
(* the join and the restart of the threads.                                *)
(***************************************************************************)

ThreadsJoined ==
  initPc \in {"reset", "disable", "clear", "start"} => pwPc = "done" /\ wlPc = "done"

FrontInv == TypeOK /\ FrontStable /\ ThreadsJoined

LEMMA FrontInvInit == Init => FrontInv
<1> SUFFICES ASSUME Init PROVE FrontInv
  OBVIOUS
<1> USE DEF Init
<1>1. QueuesOK
  BY ConstantsAssumption DEF QueuesOK
<1>2. WakelockOK /\ ThreadsOK /\ FrameworkOK
  BY DEF WakelockOK, ThreadsOK, FrameworkOK
<1>3. PostersOK
  BY DEF PostersOK
<1>4. FrontStable /\ ThreadsJoined
  BY DEF FrontStable, ThreadsJoined
<1> QED
  BY <1>1, <1>2, <1>3, <1>4 DEF FrontInv, TypeOK

LEMMA FrontInvNext == FrontInv /\ [Next]_vars => FrontInv'
<1> SUFFICES ASSUME FrontInv, [Next]_vars
             PROVE  FrontInv'
  OBVIOUS
<1> USE DEF queueVars, lockVars, pwVars, wlVars, initVars, postVars, fwVars
<1>1. ASSUME NEW s \in SubHals, Poster(s)
      PROVE  FrontInv'
  <2>1. TypeOK'
    BY <1>1, TypePoster DEF FrontInv
  <2>2. CASE PostWrite(s)
    <3>1. \/ UNCHANGED <<mPendingWriteEventsQueue, pwPc>>
          \/ \E e : mPendingWriteEventsQueue' = Append(mPendingWriteEventsQueue, e)
                    /\ pwPc' = Notified(pwPc)
      BY <2>2 DEF PostWrite
    <3>2. mPendingWriteEventsQueue # <<>> =>
            /\ mPendingWriteEventsQueue' # <<>>
            /\ mPendingWriteEventsQueue'[1] = mPendingWriteEventsQueue[1]
      <4> DEFINE Entry == [events : Seq(Event), numWakeupEvents : Nat]
      <4>1. mPendingWriteEventsQueue \in Seq(Entry)
        BY DEF FrontInv, TypeOK, QueuesOK
      <4> HIDE DEF Entry
      <4> QED
        BY <3>1, <4>1, AppendKeepsFront
    <3>3. pwPc' = pwPc \/ (pwPc = "parked" /\ pwPc' = "lock")
      BY <3>1 DEF Notified
    <3>4. UNCHANGED <<numToWrite, initPc, wlPc>>
      BY <2>2 DEF PostWrite
    <3>5. FrontStable' /\ ThreadsJoined'
      BY <3>2, <3>3, <3>4 DEF FrontInv, FrontStable, ThreadsJoined
    <3> QED
      BY <2>1, <3>5 DEF FrontInv
  <2>3. CASE Acquire(s) \/ PostCount(s)
    BY <2>1, <2>3 DEF FrontInv, FrontStable, ThreadsJoined, Acquire, PostCount,
                      IncrementRefCount, Notified
  <2>4. CASE \/ CreateScopedWakelock(s) \/ PostEvents(s) \/ PostLock(s)
             \/ ReleaseScopedWakelock(s) \/ Unref(s)
    BY <2>1, <2>4 DEF FrontInv, FrontStable, ThreadsJoined, CreateScopedWakelock,
                      PostEvents, PostLock, ReleaseScopedWakelock, Unref
  <2> QED
    BY <1>1, <2>2, <2>3, <2>4 DEF Poster
<1>2. CASE handlePendingWrites
  <2>1. TypeOK'
    BY <1>2, TypePendingWrites DEF FrontInv
  <2>2. FrontStable' /\ ThreadsJoined'
    BY <1>2 DEF FrontInv, FrontStable, ThreadsJoined, handlePendingWrites, PwLock, PwTest,
                PwPark, PwSpuriousWakeup, PwWrite, PwWriteTimeout, PwUnref, PwRelock
  <2> QED
    BY <2>1, <2>2 DEF FrontInv
<1>3. CASE handleWakelocks
  <2>1. TypeOK'
    BY <1>3, TypeWakelocks DEF FrontInv
  <2>2. FrontStable' /\ ThreadsJoined'
    BY <1>3 DEF FrontInv, FrontStable, ThreadsJoined, handleWakelocks, WlLock, WlTest,
                WlPark, WlSpuriousWakeup, WlRead, WlReadTimeout, WlRelock
  <2> QED
    BY <2>1, <2>2 DEF FrontInv
<1>4. CASE initializeCommon
  <2>1. TypeOK'
    BY <1>4, TypeInitialize DEF FrontInv
  <2>2. FrontStable' /\ ThreadsJoined'
    BY <1>4 DEF FrontInv, FrontStable, ThreadsJoined, initializeCommon, InitGoto, Notified,
                InitStop, InitDrain, InitKick, InitNotifyWl, InitNotifyPw, InitJoin,
                InitReset, InitDisable, InitClear, InitStart, InitSubHals
  <2> QED
    BY <2>1, <2>2 DEF FrontInv
<1>5. CASE \/ \E s \in SubHals, enabled \in BOOLEAN : Activate(s, enabled)
           \/ Expire \/ FrameworkRead \/ FrameworkAck
  <2>1. TypeOK'
    BY <1>5, TypeOthers DEF FrontInv
  <2>2. FrontStable' /\ ThreadsJoined'
    BY <1>5 DEF FrontInv, FrontStable, ThreadsJoined, Activate, Expire, FrameworkRead,
                FrameworkAck
  <2> QED
    BY <2>1, <2>2 DEF FrontInv
<1>6. CASE UNCHANGED vars
  BY <1>6 DEF vars, FrontInv, FrontStable, ThreadsJoined, TypeOK, QueuesOK, WakelockOK,
              ThreadsOK, PostersOK, FrameworkOK
<1> QED
  BY <1>1, <1>2, <1>3, <1>4, <1>5, <1>6 DEF Next

\* In every behaviour all variables keep their types; in particular the event
\* FMQ is never overrun and the reference count never negative.
THEOREM TypeCorrect == Spec => []TypeOK
<1>1. FrontInv => TypeOK
  BY DEF FrontInv
<1> QED
  BY <1>1, FrontInvInit, FrontInvNext, PTL DEF Spec

\* The reference handlePendingWrites keeps into the pending queue while it
\* blocks is valid in every behaviour, restarts included.
THEOREM FrontStays == Spec => []FrontStable
<1>1. FrontInv => FrontStable
  BY DEF FrontInv
<1> QED
  BY <1>1, FrontInvInit, FrontInvNext, PTL DEF Spec
-----------------------------------------------------------------------------
(***************************************************************************)
(* The kernel wake lock follows the reference count.  An increment by 0    *)
(* would take the lock and leave the count at 0, so the invariant has to   *)
(* know that a locked ScopedWakelock comes with a wake-up event.           *)
(***************************************************************************)

HasWakeup(b) == \E i \in DOMAIN b : b[i].handle \in WakeUp

WakeupsCounted ==
  \A s \in SubHals :
    /\ pc[s] = "idle" => ~locked[s]
    /\ pc[s] = "acquire" => HasWakeup(batch[s])
    /\ pc[s] \in {"post", "enter", "count"} /\ locked[s] => HasWakeup(batch[s])
    /\ pc[s] \in {"enter", "count"} => numWakeup[s] = countNumWakeupEvents(batch[s])
    /\ pc[s] = "count" => locked[s]

LEMMA WakeupsCountedInit == Init => WakeupsCounted
BY DEF Init, WakeupsCounted

LEMMA WakeupsCountedPoster ==
  ASSUME TypeOK, WakeupsCounted, NEW s \in SubHals, Poster(s)
  PROVE  WakeupsCounted'
<1> USE DEF postVars
<1> SUFFICES ASSUME NEW t \in SubHals
             PROVE  /\ pc'[t] = "idle" => ~locked'[t]
                    /\ pc'[t] = "acquire" => HasWakeup(batch'[t])
                    /\ pc'[t] \in {"post", "enter", "count"} /\ locked'[t]
                         => HasWakeup(batch'[t])
                    /\ pc'[t] \in {"enter", "count"}
                         => numWakeup'[t] = countNumWakeupEvents(batch'[t])
                    /\ pc'[t] = "count" => locked'[t]
  BY DEF WakeupsCounted, HasWakeup, countNumWakeupEvents
<1>0. CASE t # s
  <2>1. /\ pc'[t] = pc[t] /\ locked'[t] = locked[t] /\ batch'[t] = batch[t]
        /\ numWakeup'[t] = numWakeup[t]
    BY <1>0 DEF TypeOK, PostersOK, Poster, CreateScopedWakelock, Acquire, PostEvents,
                PostLock, PostCount, PostWrite, ReleaseScopedWakelock, Unref
  <2> QED
    BY <2>1 DEF WakeupsCounted
<1>1. CASE t = s /\ CreateScopedWakelock(s)
  <2>1. PICK b \in Batches :
          /\ batch' = [batch EXCEPT ![s] =
               [i \in 1..Len(b) |-> [src |-> s, id |-> generated[s] + i, handle |-> b[i]]]]
          /\ pc' = [pc EXCEPT ![s] =
               IF mThreadsRun /\ \E i \in DOMAIN b : b[i] \in WakeUp
               THEN "acquire" ELSE "post"]
    BY <1>1 DEF CreateScopedWakelock
  <2>2. ~locked'[s]
    BY <1>1 DEF CreateScopedWakelock, WakeupsCounted
  <2>3. DOMAIN b = 1..Len(b)
    BY ConstantsAssumption
  <2>4. batch'[s] = [i \in 1..Len(b) |->
                       [src |-> s, id |-> generated[s] + i, handle |-> b[i]]]
    BY <2>1 DEF TypeOK, PostersOK
  <2>5. (\E i \in DOMAIN b : b[i] \in WakeUp) => HasWakeup(batch'[s])
    BY <2>3, <2>4 DEF HasWakeup
  <2>6. \/ pc'[s] = "acquire" /\ \E i \in DOMAIN b : b[i] \in WakeUp
        \/ pc'[s] = "post"
    BY <2>1 DEF TypeOK, PostersOK
  <2> QED
    BY <1>1, <2>2, <2>5, <2>6
<1>2. CASE t = s /\ Acquire(s)
  BY <1>2 DEF TypeOK, PostersOK, WakeupsCounted, Acquire
<1>3. CASE t = s /\ PostEvents(s)
  BY <1>3 DEF TypeOK, PostersOK, WakeupsCounted, PostEvents
<1>4. CASE t = s /\ PostLock(s)
  BY <1>4 DEF TypeOK, PostersOK, WakeupsCounted, PostLock
<1>5. CASE t = s /\ (PostCount(s) \/ PostWrite(s))
  BY <1>5 DEF TypeOK, PostersOK, WakeupsCounted, PostCount, PostWrite
<1>6. CASE t = s /\ ReleaseScopedWakelock(s)
  BY <1>6 DEF TypeOK, PostersOK, WakeupsCounted, ReleaseScopedWakelock
<1>7. CASE t = s /\ Unref(s)
  BY <1>7 DEF TypeOK, PostersOK, WakeupsCounted, Unref
<1> QED
  BY <1>0, <1>1, <1>2, <1>3, <1>4, <1>5, <1>6, <1>7 DEF Poster

\* No other thread touches what belongs to the posting thread of a sub-HAL,
\* apart from making its ScopedWakelock stale.
LEMMA OthersLeavePosters ==
  ASSUME \/ handlePendingWrites \/ handleWakelocks \/ initializeCommon
         \/ \E s \in SubHals, enabled \in BOOLEAN : Activate(s, enabled)
         \/ Expire \/ FrameworkRead \/ FrameworkAck \/ UNCHANGED vars
  PROVE  UNCHANGED <<pc, batch, numWakeup, locked, generated>>
<1> USE DEF postVars
<1>1. CASE handlePendingWrites
  BY <1>1 DEF handlePendingWrites, PwLock, PwTest, PwPark, PwSpuriousWakeup, PwWrite,
              PwWriteTimeout, PwUnref, PwRelock
<1>2. CASE handleWakelocks
  BY <1>2 DEF handleWakelocks, WlLock, WlTest, WlPark, WlSpuriousWakeup, WlRead,
              WlReadTimeout, WlRelock
<1>3. CASE initializeCommon
  BY <1>3 DEF initializeCommon, InitStop, InitDrain, InitKick, InitNotifyWl, InitNotifyPw,
              InitJoin, InitReset, InitDisable, InitClear, InitStart, InitSubHals
<1>4. CASE \/ \E s \in SubHals, enabled \in BOOLEAN : Activate(s, enabled)
           \/ Expire \/ FrameworkRead \/ FrameworkAck \/ UNCHANGED vars
  BY <1>4 DEF Activate, Expire, FrameworkRead, FrameworkAck, vars
<1> QED
  BY <1>1, <1>2, <1>3, <1>4

LEMMA WakeupsCountedNext ==
  ASSUME TypeOK, WakeupsCounted, [Next]_vars
  PROVE  WakeupsCounted'
<1>1. ASSUME NEW s \in SubHals, Poster(s)
      PROVE  WakeupsCounted'
  BY <1>1, WakeupsCountedPoster
<1>2. CASE UNCHANGED <<pc, batch, numWakeup, locked, generated>>
  BY <1>2 DEF WakeupsCounted, HasWakeup, countNumWakeupEvents
<1> QED
  BY <1>1, <1>2, OthersLeavePosters DEF Next

LEMMA IncrementKeepsHeld ==
  ASSUME WakelockOK, HeldIffCounted, NEW delta \in Nat, delta > 0, IncrementRefCount(delta)
  PROVE  HeldIffCounted'
<1>1. mWakelockRefCount' > 0
  BY DEF WakelockOK, IncrementRefCount
<1>2. held'
  <2>1. CASE mWakelockRefCount = 0
    BY <2>1 DEF IncrementRefCount
  <2>2. CASE mWakelockRefCount # 0
    <3>1. held
      BY <2>2 DEF WakelockOK, HeldIffCounted
    <3> QED
      BY <2>2, <3>1, Zenon DEF IncrementRefCount
  <2> QED
    BY <2>1, <2>2
<1> QED
  BY <1>1, <1>2 DEF HeldIffCounted

LEMMA DecrementKeepsHeld ==
  ASSUME WakelockOK, HeldIffCounted, NEW delta \in Nat, DecrementRefCount(delta)
  PROVE  HeldIffCounted'
<1>1. CASE 0 < mWakelockRefCount /\ mWakelockRefCount <= delta
  <2>1. mWakelockRefCount' = 0
    BY <1>1 DEF WakelockOK, DecrementRefCount, Lesser
  <2>2. ~held'
    BY <1>1, Zenon DEF DecrementRefCount
  <2> QED
    BY <2>1, <2>2 DEF HeldIffCounted
<1>2. CASE ~(0 < mWakelockRefCount /\ mWakelockRefCount <= delta)
  <2>1. mWakelockRefCount' > 0 <=> mWakelockRefCount > 0
    BY <1>2 DEF WakelockOK, DecrementRefCount, Lesser
  <2>2. held' = held
    BY <1>2, Zenon DEF DecrementRefCount
  <2> QED
    BY <2>1, <2>2 DEF HeldIffCounted
<1> QED
  BY <1>1, <1>2

LEMMA HeldNext ==
  ASSUME FrontInv, WakeupsCounted, HeldIffCounted, [Next]_vars
  PROVE  HeldIffCounted'
<1> USE DEF lockVars
<1>0. TypeOK /\ FrontStable /\ WakelockOK
  BY DEF FrontInv, TypeOK
<1>a. UNCHANGED lockVars => HeldIffCounted'
  BY DEF HeldIffCounted
<1>1. ASSUME NEW s \in SubHals, Poster(s)
      PROVE  HeldIffCounted'
  <2>1. CASE Acquire(s)
    BY <1>0, <2>1, IncrementKeepsHeld DEF Acquire
  <2>2. CASE PostCount(s)
    <3>1. batch[s] \in Seq(Event)
      BY <1>0 DEF TypeOK, PostersOK
    <3>2. numWakeup[s] = countNumWakeupEvents(batch[s]) /\ HasWakeup(batch[s])
      BY <2>2 DEF WakeupsCounted, PostCount
    <3>3. numWakeup[s] \in Nat /\ numWakeup[s] > 0
      BY <3>1, <3>2, CountType DEF HasWakeup
    <3> QED
      BY <1>0, <2>2, <3>3, IncrementKeepsHeld DEF PostCount
  <2>3. CASE Unref(s)
    BY <1>0, <1>a, <2>3, DecrementKeepsHeld DEF Unref
  <2>4. CASE \/ CreateScopedWakelock(s) \/ PostEvents(s) \/ PostLock(s) \/ PostWrite(s)
             \/ ReleaseScopedWakelock(s)
    BY <1>a, <2>4 DEF CreateScopedWakelock, PostEvents, PostLock, PostWrite,
                      ReleaseScopedWakelock
  <2> QED
    BY <1>1, <2>1, <2>2, <2>3, <2>4 DEF Poster
<1>2. CASE handlePendingWrites
  <2>1. CASE PwUnref
    <3> DEFINE Entry == [events : Seq(Event), numWakeupEvents : Nat]
               front == mPendingWriteEventsQueue[1].events
               delta == IF Len(front) > QueueSize
                        THEN countNumWakeupEvents(SubSeq(front, 1, QueueSize))
                        ELSE pwWakeups
    <3>1. mPendingWriteEventsQueue \in Seq(Entry) /\ mPendingWriteEventsQueue # <<>>
      BY <1>0, <2>1 DEF TypeOK, QueuesOK, FrontStable, PwUnref
    <3>2. mPendingWriteEventsQueue[1] \in Entry
      <4> HIDE DEF Entry
      <4> QED
        BY <3>1, FrontOfQueue
    <3>3. Len(front) > QueueSize => SubSeq(front, 1, QueueSize) \in Seq(Event)
      BY <3>2, ConstantsAssumption
    <3>4. delta \in Nat
      BY <1>0, <3>3, CountType DEF TypeOK, ThreadsOK
    <3>5. DecrementRefCount(delta)
      BY <2>1 DEF PwUnref
    <3> HIDE DEF delta
    <3> QED
      BY <1>0, <3>4, <3>5, DecrementKeepsHeld
  <2>2. CASE ~PwUnref
    BY <1>2, <1>a, <2>2 DEF handlePendingWrites, PwLock, PwTest, PwPark,
                            PwSpuriousWakeup, PwWrite, PwWriteTimeout, PwRelock
  <2> QED
    BY <2>1, <2>2
<1>3. CASE handleWakelocks
  <2>1. CASE WlTest
    <3>1. mWakelockRefCount \in Nat
      BY <1>0 DEF WakelockOK
    <3>2. UNCHANGED lockVars \/ DecrementRefCount(mWakelockRefCount)
      BY <2>1 DEF WlTest
    <3> QED
      BY <1>0, <1>a, <3>1, <3>2, DecrementKeepsHeld
  <2>2. CASE WlRelock
    <3>1. numProcessed \in Nat
      BY <1>0 DEF WakelockOK
    <3>2. UNCHANGED lockVars \/ DecrementRefCount(numProcessed)
      BY <2>2 DEF WlRelock
    <3> QED
      BY <1>0, <1>a, <3>1, <3>2, DecrementKeepsHeld
  <2>3. CASE WlLock \/ WlPark \/ WlSpuriousWakeup \/ WlRead \/ WlReadTimeout
    BY <1>a, <2>3 DEF WlLock, WlPark, WlSpuriousWakeup, WlRead, WlReadTimeout
  <2> QED
    BY <1>3, <2>1, <2>2, <2>3 DEF handleWakelocks
<1>4. CASE initializeCommon
  BY <1>4, <1>a DEF initializeCommon, InitStop, InitDrain, InitKick, InitNotifyWl,
                    InitNotifyPw, InitJoin, InitReset, InitDisable, InitClear, InitStart,
                    InitSubHals
<1>5. CASE \/ \E s \in SubHals, enabled \in BOOLEAN : Activate(s, enabled)
           \/ Expire \/ FrameworkRead \/ FrameworkAck \/ UNCHANGED vars
  BY <1>5, <1>a DEF Activate, Expire, FrameworkRead, FrameworkAck, vars
<1> QED
  BY <1>1, <1>2, <1>3, <1>4, <1>5 DEF Next

\* In every behaviour the sensors wake lock is held exactly while the shared
\* reference count is positive.
THEOREM WakelockFollowsCount == Spec => []HeldIffCounted
<1> DEFINE Inv == FrontInv /\ WakeupsCounted /\ HeldIffCounted
<1>1. Init => Inv
  <2>1. Init => HeldIffCounted
    BY DEF Init, HeldIffCounted
  <2> QED
    BY <2>1, FrontInvInit, WakeupsCountedInit
<1>2. Inv /\ [Next]_vars => Inv'
  BY FrontInvNext, WakeupsCountedNext, HeldNext DEF FrontInv
<1>3. Inv => HeldIffCounted
  OBVIOUS
<1> QED
  BY <1>1, <1>2, <1>3, PTL DEF Spec
-----------------------------------------------------------------------------
(***************************************************************************)
(* When every sub-HAL honours activate(h, false) the reset is quiet and    *)
(* the assertion of postEvents holds.  The invariant ties the holder of    *)
(* mEventQueueWriteMutex to the program counters, says that nobody posts   *)
(* between disableAllSensors and the end of initialize, and that a         *)
(* ScopedWakelock that should be locked and is not implies stopped threads *)
(***************************************************************************)

EventMutexHeld ==
  /\ eventMutex \in SubHals => pc[eventMutex] \in {"count", "write"}
  /\ eventMutex = Pw => pwPc \in {"test", "parking"}

NobodyPosts ==
  initPc \in {"clear", "start", "subhals"} =>
    \A s \in SubHals : pc[s] = "idle" /\ ~active[s]

QueuesEmpty ==
  initPc \in {"start", "subhals"} => mPendingWriteEventsQueue = <<>> /\ mEventQueue = <<>>

UnlockedOnlyWhenStopped ==
  \A s \in SubHals :
    /\ pc[s] = "post" /\ HasWakeup(batch[s]) /\ ~locked[s] => ~mThreadsRun
    /\ pc[s] = "enter" /\ HasWakeup(batch[s]) => locked[s]

QuietInv == EventMutexHeld /\ NobodyPosts /\ QueuesEmpty /\ UnlockedOnlyWhenStopped

LEMMA QuietInit == Init => QuietInv
BY ThreadNames DEF Init, QuietInv, EventMutexHeld, NobodyPosts, QueuesEmpty,
                   UnlockedOnlyWhenStopped, NoOne, Pw

LEMMA EventMutexNext ==
  ASSUME FrontInv, EventMutexHeld, [Next]_vars
  PROVE  EventMutexHeld'
<1> USE ThreadNames DEF pwVars, postVars, NoOne, Pw
<1>0. TypeOK /\ ThreadsJoined
  BY DEF FrontInv
<1>1. ASSUME NEW s \in SubHals, Poster(s)
      PROVE  EventMutexHeld'
  <2>1. CASE PostLock(s)
    BY <1>0, <2>1 DEF TypeOK, PostersOK, EventMutexHeld, PostLock
  <2>2. CASE PostCount(s)
    BY <1>0, <2>2 DEF TypeOK, PostersOK, EventMutexHeld, PostCount
  <2>3. CASE PostWrite(s)
    <3>1. eventMutex' = NoOne
      BY <2>3 DEF PostWrite
    <3> QED
      BY <3>1 DEF EventMutexHeld
  <2>4. CASE \/ CreateScopedWakelock(s) \/ Acquire(s) \/ PostEvents(s)
             \/ ReleaseScopedWakelock(s) \/ Unref(s)
    <3>1. /\ UNCHANGED <<eventMutex, pwPc>>
          /\ pc[s] \notin {"count", "write"}
          /\ \A t \in SubHals : t # s => pc'[t] = pc[t]
      BY <1>0, <2>4 DEF TypeOK, PostersOK, CreateScopedWakelock, Acquire, PostEvents,
                        ReleaseScopedWakelock, Unref
    <3> QED
      BY <3>1 DEF EventMutexHeld
  <2> QED
    BY <1>1, <2>1, <2>2, <2>3, <2>4 DEF Poster
<1>2. CASE handlePendingWrites
  <2>1. UNCHANGED pc
    BY <1>2, OthersLeavePosters
  <2> QED
    BY <1>2, <2>1 DEF EventMutexHeld, handlePendingWrites, PwLock, PwTest, PwPark,
                      PwSpuriousWakeup, PwWrite, PwWriteTimeout, PwUnref, PwRelock
<1>3. CASE handleWakelocks
  BY <1>3 DEF EventMutexHeld, handleWakelocks, WlLock, WlTest, WlPark, WlSpuriousWakeup,
              WlRead, WlReadTimeout, WlRelock
<1>4. CASE initializeCommon
  <2>1. UNCHANGED pc
    BY <1>4, OthersLeavePosters
  <2> QED
    BY <1>0, <1>4, <2>1 DEF EventMutexHeld, ThreadsJoined, initializeCommon, InitGoto,
              Notified, InitStop, InitDrain, InitKick, InitNotifyWl, InitNotifyPw,
              InitJoin, InitReset, InitDisable, InitClear, InitStart, InitSubHals
<1>5. CASE \/ \E s \in SubHals, enabled \in BOOLEAN : Activate(s, enabled)
           \/ Expire \/ FrameworkRead \/ FrameworkAck \/ UNCHANGED vars
  BY <1>5 DEF EventMutexHeld, Activate, Expire, FrameworkRead, FrameworkAck, vars
<1> QED
  BY <1>1, <1>2, <1>3, <1>4, <1>5 DEF Next

LEMMA NobodyPostsNext ==
  ASSUME MayFail = {}, TypeOK, NobodyPosts, [Next]_vars
  PROVE  NobodyPosts'
<1> USE DEF initVars
<1>1. ASSUME NEW s \in SubHals, Poster(s)
      PROVE  NobodyPosts'
  <2>1. initPc \notin {"clear", "start", "subhals"}
    BY <1>1 DEF NobodyPosts, Poster, CreateScopedWakelock, Acquire, PostEvents,
                PostLock, PostCount, PostWrite, ReleaseScopedWakelock, Unref
  <2>2. UNCHANGED initPc
    BY <1>1 DEF Poster, CreateScopedWakelock, Acquire, PostEvents, PostLock, PostCount,
                PostWrite, ReleaseScopedWakelock, Unref
  <2> QED
    BY <2>1, <2>2 DEF NobodyPosts
<1>2. CASE handlePendingWrites \/ handleWakelocks
  <2>1. UNCHANGED pc
    BY <1>2, OthersLeavePosters
  <2>2. CASE handlePendingWrites
    BY <2>1, <2>2 DEF NobodyPosts, handlePendingWrites, PwLock, PwTest, PwPark,
                      PwSpuriousWakeup, PwWrite, PwWriteTimeout, PwUnref, PwRelock
  <2>3. CASE handleWakelocks
    BY <2>1, <2>3 DEF NobodyPosts, handleWakelocks, WlLock, WlTest, WlPark,
                      WlSpuriousWakeup, WlRead, WlReadTimeout, WlRelock
  <2> QED
    BY <1>2, <2>2, <2>3
<1>3. CASE initializeCommon
  <2>1. UNCHANGED pc
    BY <1>3, OthersLeavePosters
  <2>2. CASE InitDisable
    <3>1. PICK failing \in SUBSET MayFail :
            /\ \A s \in SubHals \ failing : pc[s] = "idle"
            /\ active' = [s \in SubHals |-> active[s] /\ s \in failing]
      BY <2>2 DEF InitDisable
    <3>2. \A s \in SubHals : pc[s] = "idle" /\ ~active'[s]
      BY <3>1
    <3> QED
      BY <2>1, <3>2 DEF NobodyPosts
  <2>3. CASE ~InitDisable
    BY <1>3, <2>1, <2>3 DEF NobodyPosts, initializeCommon, InitGoto, InitStop, InitDrain,
              InitKick, InitNotifyWl, InitNotifyPw, InitJoin, InitReset, InitClear,
              InitStart, InitSubHals
  <2> QED
    BY <2>2, <2>3
<1>4. CASE \/ \E s \in SubHals, enabled \in BOOLEAN : Activate(s, enabled)
           \/ Expire \/ FrameworkRead \/ FrameworkAck \/ UNCHANGED vars
  BY <1>4 DEF NobodyPosts, postVars, Activate, Expire, FrameworkRead, FrameworkAck, vars
<1> QED
  BY <1>1, <1>2, <1>3, <1>4 DEF Next

LEMMA QueuesEmptyNext ==
  ASSUME FrontStable, NobodyPosts, QueuesEmpty, [Next]_vars
  PROVE  QueuesEmpty'
<1> USE DEF queueVars, initVars
<1>1. ASSUME NEW s \in SubHals, Poster(s)
      PROVE  QueuesEmpty'
  <2>1. initPc \notin {"clear", "start", "subhals"}
    BY <1>1 DEF NobodyPosts, Poster, CreateScopedWakelock, Acquire, PostEvents,
                PostLock, PostCount, PostWrite, ReleaseScopedWakelock, Unref
  <2>2. UNCHANGED initPc
    BY <1>1 DEF Poster, CreateScopedWakelock, Acquire, PostEvents, PostLock, PostCount,
                PostWrite, ReleaseScopedWakelock, Unref
  <2> QED
    BY <2>1, <2>2 DEF QueuesEmpty
<1>2. CASE handlePendingWrites
  <2>1. CASE PwWrite \/ PwRelock
    BY <2>1 DEF QueuesEmpty, FrontStable, PwWrite, PwRelock
  <2>2. CASE ~(PwWrite \/ PwRelock)
    BY <1>2, <2>2 DEF QueuesEmpty, handlePendingWrites, PwLock, PwTest, PwPark,
                      PwSpuriousWakeup, PwWriteTimeout, PwUnref
  <2> QED
    BY <2>1, <2>2
<1>3. CASE handleWakelocks
  BY <1>3 DEF QueuesEmpty, handleWakelocks, WlLock, WlTest, WlPark, WlSpuriousWakeup,
              WlRead, WlReadTimeout, WlRelock
<1>4. CASE initializeCommon
  BY <1>4 DEF QueuesEmpty, initializeCommon, InitGoto, InitStop, InitDrain, InitKick,
              InitNotifyWl, InitNotifyPw, InitJoin, InitReset, InitDisable, InitClear,
              InitStart, InitSubHals
<1>5. CASE \/ \E s \in SubHals, enabled \in BOOLEAN : Activate(s, enabled)
           \/ Expire \/ FrameworkRead \/ FrameworkAck \/ UNCHANGED vars
  BY <1>5 DEF QueuesEmpty, Activate, Expire, FrameworkRead, FrameworkAck, vars
<1> QED
  BY <1>1, <1>2, <1>3, <1>4, <1>5 DEF Next

LEMMA UnlockedNext ==
  ASSUME TypeOK, WakeupsCounted, NobodyPosts, UnlockedOnlyWhenStopped, [Next]_vars
  PROVE  UnlockedOnlyWhenStopped'
<1> USE DEF postVars
<1> SUFFICES ASSUME NEW t \in SubHals
             PROVE  /\ pc'[t] = "post" /\ HasWakeup(batch'[t]) /\ ~locked'[t]
                         => ~mThreadsRun'
                    /\ pc'[t] = "enter" /\ HasWakeup(batch'[t]) => locked'[t]
  BY DEF UnlockedOnlyWhenStopped, HasWakeup
<1>1. ASSUME NEW s \in SubHals, Poster(s)
      PROVE  /\ pc'[t] = "post" /\ HasWakeup(batch'[t]) /\ ~locked'[t] => ~mThreadsRun'
             /\ pc'[t] = "enter" /\ HasWakeup(batch'[t]) => locked'[t]
  <2>0. mThreadsRun' = mThreadsRun
    BY <1>1 DEF Poster, CreateScopedWakelock, Acquire, PostEvents, PostLock, PostCount,
                PostWrite, ReleaseScopedWakelock, Unref
  <2>1. CASE t # s
    <3>1. pc'[t] = pc[t] /\ locked'[t] = locked[t] /\ batch'[t] = batch[t]
      BY <1>1, <2>1 DEF TypeOK, PostersOK, Poster, CreateScopedWakelock, Acquire,
                PostEvents, PostLock, PostCount, PostWrite, ReleaseScopedWakelock, Unref
    <3> QED
      BY <2>0, <3>1 DEF UnlockedOnlyWhenStopped
  <2>2. CASE t = s /\ CreateScopedWakelock(s)
    <3>1. PICK b \in Batches :
            /\ batch' = [batch EXCEPT ![s] =
                 [i \in 1..Len(b) |-> [src |-> s, id |-> generated[s] + i, handle |-> b[i]]]]
            /\ pc' = [pc EXCEPT ![s] =
                 IF mThreadsRun /\ \E i \in DOMAIN b : b[i] \in WakeUp
                 THEN "acquire" ELSE "post"]
      BY <2>2 DEF CreateScopedWakelock
    <3>2. DOMAIN b = 1..Len(b)
      BY ConstantsAssumption
    <3>3. batch'[s] = [i \in 1..Len(b) |->
                         [src |-> s, id |-> generated[s] + i, handle |-> b[i]]]
      BY <3>1 DEF TypeOK, PostersOK
    <3>4. HasWakeup(batch'[s]) => \E i \in DOMAIN b : b[i] \in WakeUp
      BY <3>2, <3>3 DEF HasWakeup
    <3>5. pc'[s] = IF mThreadsRun /\ \E i \in DOMAIN b : b[i] \in WakeUp
                   THEN "acquire" ELSE "post"
      BY <3>1 DEF TypeOK, PostersOK
    <3> QED
      BY <2>0, <2>2, <3>4, <3>5
  <2>3. CASE t = s /\ Acquire(s)
    BY <2>3 DEF TypeOK, PostersOK, Acquire
  <2>4. CASE t = s /\ PostEvents(s)
    BY <2>4 DEF TypeOK, PostersOK, UnlockedOnlyWhenStopped, PostEvents
  <2>5. CASE /\ t = s
             /\ \/ PostLock(s) \/ PostCount(s) \/ PostWrite(s)
                \/ ReleaseScopedWakelock(s) \/ Unref(s)
    <3>1. pc'[s] \notin {"post", "enter"}
      BY <2>5 DEF TypeOK, PostersOK, PostLock, PostCount, PostWrite,
                  ReleaseScopedWakelock, Unref
    <3> QED
      BY <2>5, <3>1
  <2> QED
    BY <1>1, <2>1, <2>2, <2>3, <2>4, <2>5 DEF Poster
<1>2. CASE UNCHANGED <<pc, batch, numWakeup, locked, generated>>
  <2>1. CASE mThreadsRun' = mThreadsRun \/ ~mThreadsRun'
    BY <1>2, <2>1 DEF UnlockedOnlyWhenStopped
  <2>2. CASE InitStart
    BY <1>2, <2>2 DEF NobodyPosts, InitStart, InitGoto
  <2>3. mThreadsRun' = mThreadsRun \/ ~mThreadsRun' \/ InitStart
    <3>1. ASSUME NEW s \in SubHals, Poster(s)
          PROVE  mThreadsRun' = mThreadsRun
      BY <3>1 DEF Poster, CreateScopedWakelock, Acquire, PostEvents, PostLock,
                PostCount, PostWrite, ReleaseScopedWakelock, Unref
    <3>2. CASE handlePendingWrites
      BY <3>2 DEF handlePendingWrites, PwLock, PwTest, PwPark, PwSpuriousWakeup,
                  PwWrite, PwWriteTimeout, PwUnref, PwRelock
    <3>3. CASE handleWakelocks
      BY <3>3 DEF handleWakelocks, WlLock, WlTest, WlPark, WlSpuriousWakeup, WlRead,
                  WlReadTimeout, WlRelock
    <3>4. CASE initializeCommon
      BY <3>4 DEF initializeCommon, InitStop, InitDrain, InitKick, InitNotifyWl,
                  InitNotifyPw, InitJoin, InitReset, InitDisable, InitClear, InitSubHals
    <3>5. CASE \/ \E s \in SubHals, enabled \in BOOLEAN : Activate(s, enabled)
               \/ Expire \/ FrameworkRead \/ FrameworkAck \/ UNCHANGED vars
      BY <3>5 DEF Activate, Expire, FrameworkRead, FrameworkAck, vars
    <3> QED
      BY <3>1, <3>2, <3>3, <3>4, <3>5 DEF Next
  <2> QED
    BY <2>1, <2>2, <2>3
<1> QED
  BY <1>1, <1>2, OthersLeavePosters DEF Next

\* If sub-HALs honour activate(h, false), then in every behaviour the pending
\* queue is cleared while nobody can be using it and the queues stay empty
\* until initialize returns, as the comment in initializeCommon says, and the
\* assertion of postEvents about the wake lock never fails.
THEOREM QuietReset ==
  ASSUME MayFail = {}
  PROVE  Spec => [](ResetIsQuiet /\ LockedIffWakeup)
<1> DEFINE Inv == FrontInv /\ WakeupsCounted /\ QuietInv
<1>1. Init => Inv
  BY FrontInvInit, WakeupsCountedInit, QuietInit
<1>2. Inv /\ [Next]_vars => Inv'
  BY FrontInvNext, WakeupsCountedNext, EventMutexNext, NobodyPostsNext, QueuesEmptyNext,
     UnlockedNext DEF FrontInv, QuietInv
<1>3. Inv => ResetIsQuiet
  <2> SUFFICES ASSUME Inv PROVE ResetIsQuiet
    OBVIOUS
  <2>1. initPc = "clear" => eventMutex = NoOne
    <3>1. eventMutex \in SubHals \cup {NoOne, Pw}
      BY DEF FrontInv, TypeOK, ThreadsOK
    <3> QED
      BY <3>1 DEF FrontInv, ThreadsJoined, QuietInv, EventMutexHeld, NobodyPosts
  <2>2. initPc = "clear" => \A s \in SubHals : pc[s] # "enter"
    BY DEF QuietInv, NobodyPosts
  <2> QED
    BY <2>1, <2>2 DEF ResetIsQuiet, QuietInv, QueuesEmpty
<1>4. Inv => LockedIffWakeup
  <2> SUFFICES ASSUME Inv, NEW s \in SubHals, pc[s] = "enter"
               PROVE  numWakeup[s] > 0 <=> locked[s]
    BY DEF LockedIffWakeup
  <2>1. batch[s] \in Seq(Event)
    BY DEF FrontInv, TypeOK, PostersOK
  <2>2. numWakeup[s] > 0 <=> HasWakeup(batch[s])
    BY <2>1, CountType DEF WakeupsCounted, HasWakeup
  <2>3. locked[s] <=> HasWakeup(batch[s])
    BY DEF WakeupsCounted, QuietInv, UnlockedOnlyWhenStopped
  <2> QED
    BY <2>2, <2>3
<1>5. Inv => ResetIsQuiet /\ LockedIffWakeup
  BY <1>3, <1>4
<1> HIDE DEF Inv
<1> QED
  BY <1>1, <1>2, <1>5, PTL DEF Spec

\* In particular the assertion of postEvents holds across restarts.
THEOREM PostAssertionHolds ==
  ASSUME MayFail = {}
  PROVE  Spec => []LockedIffWakeup
BY QuietReset, PTL
=============================================================================
