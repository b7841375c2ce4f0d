------------------------------ MODULE HalProxy ------------------------------
(***************************************************************************)
(* The event path and the shared wake lock of the sensors multi-HAL proxy  *)
(* (sensors/HalProxy.cpp, sensors/HalProxyCallback.cpp).                   *)
(*                                                                         *)
(* Threads:                                                                *)
(*   - one thread per sub-HAL, which creates a ScopedWakelock, calls       *)
(*     postEvents and drops the wake lock;                                 *)
(*   - the pending writes thread (handlePendingWrites), prefix Pw;         *)
(*   - the wake lock thread (handleWakelocks), prefix Wl;                  *)
(*   - the binder thread (service.cpp configures a pool of one), which     *)
(*     runs initializeCommon and activate, prefix Init;                    *)
(*   - the framework, which reads the event FMQ and acknowledges wake-up   *)
(*     events on the wake lock FMQ (external).                             *)
(*                                                                         *)
(* A step is what a thread does between two points where another thread    *)
(* can interfere: taking or releasing a mutex, a load or store of          *)
(* mThreadsRun, blocking on a condition variable or on an FMQ.  In         *)
(* particular the test of a wait predicate and the blocking that follows   *)
(* it are two steps, because stopThreads stores mThreadsRun and notifies   *)
(* without holding either mutex.                                           *)
(*                                                                         *)
(* Time enters only through two deadlines.  "expired" stands for           *)
(* getTimeNow() - mWakelockTimeoutStartTime > kWakelockTimeoutNs, and      *)
(* stale[s] for mCreatedAtTimeNs < mWakelockTimeoutResetTime of the        *)
(* ScopedWakelock of s; clock readings in different critical sections are  *)
(* taken to differ.  A blocking FMQ operation that cannot complete may     *)
(* time out at any moment.                                                 *)
(***************************************************************************)
EXTENDS Integers, Sequences, FiniteSets

CONSTANTS
  SubHals,      \* the sub-HALs, each with one posting thread
  Handle,       \* sensor handles
  WakeUp,       \* handles whose SensorInfo has the WAKE_UP flag
  WiseLight,    \* handles of SENSOR_TYPE_QTI_WISE_LIGHT sensors
  ZeroHandle,   \* handle 0, which AlsCorrection gives to an event it drops
  Batches,      \* the sequences of handles a sub-HAL may post at once
  QueueSize,    \* mEventQueue->getQuantumCount()
  kMaxSizePendingWriteEventsQueue,
  MayFail,      \* sub-HALs whose activate(h, false) may fail or not stop their poster
  MaxEvents,    \* bound: events generated by each sub-HAL
  MaxInits      \* bound: calls of initialize

ASSUME ConstantsAssumption ==
  /\ IsFiniteSet(SubHals)
  /\ WakeUp \subseteq Handle /\ WiseLight \subseteq Handle
  /\ ZeroHandle \in Handle
  /\ Batches \subseteq Seq(Handle)
  /\ QueueSize \in Nat \ {0}
  /\ kMaxSizePendingWriteEventsQueue \in Nat
  /\ MayFail \subseteq SubHals
  /\ MaxEvents \in Nat /\ MaxInits \in Nat

VARIABLES
  \* HalProxy members
  mThreadsRun,                    \* std::atomic_bool
  mPendingWriteEventsQueue,       \* FIFO of [events, numWakeupEvents]
  mSizePendingWriteEventsQueue,
  mEventQueue,                    \* content of the event FMQ
  mWakeLockQueue,                 \* content of the wake lock FMQ
  mWakelockRefCount,
  eventMutex, wakeMutex,          \* holders of mEventQueueWriteMutex, mWakelockMutex
  held,                           \* the kernel holds kWakelockName
  expired,                        \* the shared wake lock timed out
  \* threads
  pwPc, numToWrite, pwWakeups,    \* handlePendingWrites and its locals
  wlPc, numProcessed,             \* handleWakelocks and numWakeLocksProcessed
  initPc, inits,                  \* initializeCommon; calls completed
  pc, batch, numWakeup,           \* per sub-HAL: postEvents and its locals
  locked, stale,                  \* per sub-HAL: its ScopedWakelock
  active,                         \* per sub-HAL: a sensor is enabled
  \* framework
  unacked,                        \* wake-up events read, not acknowledged
  \* history
  generated,                      \* per sub-HAL: events generated so far
  lastRead,                       \* per sub-HAL: id of the last event read
  undisturbed                     \* no timeout, loss or restart so far

queueVars == <<mPendingWriteEventsQueue, mSizePendingWriteEventsQueue>>
lockVars  == <<mWakelockRefCount, held>>
pwVars    == <<pwPc, numToWrite, pwWakeups>>
wlVars    == <<wlPc, numProcessed>>
initVars  == <<initPc, inits, active>>
postVars  == <<pc, batch, numWakeup, locked, stale, generated>>
fwVars    == <<unacked, lastRead>>
vars == <<mThreadsRun, queueVars, mEventQueue, mWakeLockQueue, lockVars,
          eventMutex, wakeMutex, expired, pwVars, wlVars, initVars, postVars,
          fwVars, undisturbed>>

\* Holders of the mutexes that are not sub-HAL threads.
NoOne == "NoOne"
Pw    == "Pw"
Wl    == "Wl"

ASSUME ThreadNames == {NoOne, Pw, Wl} \cap SubHals = {}
-----------------------------------------------------------------------------
Event == [src : SubHals, id : Nat, handle : Handle]

Lesser(a, b) == IF a <= b THEN a ELSE b

\* The number of events of s whose sensor has the WAKE_UP flag.
countNumWakeupEvents(s) == Cardinality({i \in DOMAIN s : s[i].handle \in WakeUp})

\* notify_one on a condition variable with a single possible waiter.  The
\* mutant forgets to notify.
NotifyForgotten(p) == p

Notified(p) == IF p = "parked" THEN "lock" ELSE p

\* Mutants of IncrementRefCount: the test for 0 comes after the addition; the
\* wake lock thread is not notified.
IncrementThenTest(delta) ==
  /\ mWakelockRefCount' = mWakelockRefCount + delta
  /\ held' = IF mWakelockRefCount + delta = 0 THEN TRUE ELSE held
  /\ wlPc' = IF mWakelockRefCount = 0 THEN Notified(wlPc) ELSE wlPc
  /\ expired' = FALSE

IncrementWithoutNotify(delta) ==
  /\ mWakelockRefCount' = mWakelockRefCount + delta
  /\ held' = IF mWakelockRefCount = 0 THEN TRUE ELSE held
  /\ expired' = FALSE
  /\ UNCHANGED wlPc

\* Run by the holder of mWakelockMutex once mThreadsRun was seen TRUE.
IncrementRefCount(delta) ==
  /\ mWakelockRefCount' = mWakelockRefCount + delta
  /\ held' = IF mWakelockRefCount = 0 THEN TRUE ELSE held
  /\ wlPc' = IF mWakelockRefCount = 0 THEN Notified(wlPc) ELSE wlPc
  /\ expired' = FALSE

\* A mutant of DecrementRefCount without the std::min.
DecrementUnclamped(delta) ==
  /\ mWakelockRefCount' = IF mWakelockRefCount = 0 THEN 0 ELSE mWakelockRefCount - delta
  /\ held' = IF 0 < mWakelockRefCount /\ mWakelockRefCount <= delta THEN FALSE ELSE held

DecrementRefCount(delta) ==
  /\ mWakelockRefCount' = mWakelockRefCount - Lesser(mWakelockRefCount, delta)
  /\ held' = IF 0 < mWakelockRefCount /\ mWakelockRefCount <= delta THEN FALSE ELSE held

\* mWakelockTimeoutResetTime = getTimeNow(): every live ScopedWakelock is older.
SetResetTime == stale' = locked
-----------------------------------------------------------------------------
Init ==
  /\ mThreadsRun = FALSE
  /\ mPendingWriteEventsQueue = <<>> /\ mSizePendingWriteEventsQueue = 0
  /\ mEventQueue = <<>> /\ mWakeLockQueue = <<>>
  /\ mWakelockRefCount = 0 /\ held = FALSE /\ expired = FALSE
  /\ eventMutex = NoOne /\ wakeMutex = NoOne
  /\ pwPc = "done" /\ numToWrite = 0 /\ pwWakeups = 0
  /\ wlPc = "done" /\ numProcessed = 0
  /\ initPc = "idle" /\ inits = 0
  /\ pc = [s \in SubHals |-> "idle"]
  /\ batch = [s \in SubHals |-> <<>>]
  /\ numWakeup = [s \in SubHals |-> 0]
  /\ locked = [s \in SubHals |-> FALSE]
  /\ stale = [s \in SubHals |-> FALSE]
  /\ active = [s \in SubHals |-> FALSE]
  /\ unacked = 0
  /\ generated = [s \in SubHals |-> 0]
  /\ lastRead = [s \in SubHals |-> 0]
  /\ undisturbed = TRUE
-----------------------------------------------------------------------------
(* A sub-HAL thread.                                                       *)

\* An enabled sensor produces a batch and the sub-HAL asks for a
\* ScopedWakelock, locked iff the batch holds a wake-up event.  The
\* constructor's increment gives up when the threads do not run.
CreateScopedWakelock(s) ==
  /\ pc[s] = "idle" /\ active[s]
  /\ \E b \in Batches :
       /\ generated[s] + Len(b) <= MaxEvents
       /\ batch' = [batch EXCEPT ![s] =
            [i \in 1..Len(b) |-> [src |-> s, id |-> generated[s] + i, handle |-> b[i]]]]
       /\ generated' = [generated EXCEPT ![s] = @ + Len(b)]
       /\ pc' = [pc EXCEPT ![s] =
            IF mThreadsRun /\ \E i \in DOMAIN b : b[i] \in WakeUp
            THEN "acquire" ELSE "post"]
  /\ UNCHANGED <<mThreadsRun, queueVars, mEventQueue, mWakeLockQueue, lockVars,
                 eventMutex, wakeMutex, expired, pwVars, wlVars, initVars,
                 numWakeup, locked, stale, fwVars, undisturbed>>

Acquire(s) ==
  /\ pc[s] = "acquire" /\ wakeMutex = NoOne
  /\ IncrementRefCount(1)
  /\ locked' = [locked EXCEPT ![s] = TRUE]
  /\ stale' = [stale EXCEPT ![s] = FALSE]
  /\ pc' = [pc EXCEPT ![s] = "post"]
  /\ UNCHANGED <<mThreadsRun, queueVars, mEventQueue, mWakeLockQueue, eventMutex,
                 wakeMutex, pwVars, numProcessed, initVars, batch, numWakeup,
                 generated, fwVars, undisturbed>>

\* postEvents: the early return, then processEvents.
PostEvents(s) ==
  /\ pc[s] = "post"
  /\ IF batch[s] = <<>> \/ ~mThreadsRun
     THEN /\ pc' = [pc EXCEPT ![s] = "release"]
          /\ UNCHANGED numWakeup
     ELSE /\ pc' = [pc EXCEPT ![s] = "enter"]
          /\ numWakeup' = [numWakeup EXCEPT ![s] = countNumWakeupEvents(batch[s])]
  /\ UNCHANGED <<mThreadsRun, queueVars, mEventQueue, mWakeLockQueue, lockVars,
                 eventMutex, wakeMutex, expired, pwVars, wlVars, initVars, batch,
                 locked, stale, generated, fwVars, undisturbed>>

\* postEventsToMessageQueue takes mEventQueueWriteMutex and finds out whether
\* it has wake-up events to count.  The mutant never counts them.
PostLockUncounted(s) ==
  /\ pc[s] = "enter" /\ eventMutex = NoOne
  /\ eventMutex' = s
  /\ pc' = [pc EXCEPT ![s] = "write"]
  /\ UNCHANGED <<mThreadsRun, queueVars, mEventQueue, mWakeLockQueue, lockVars,
                 wakeMutex, expired, pwVars, wlVars, initVars, batch, numWakeup,
                 locked, stale, generated, fwVars, undisturbed>>

PostLock(s) ==
  /\ pc[s] = "enter" /\ eventMutex = NoOne
  /\ eventMutex' = s
  /\ pc' = [pc EXCEPT ![s] = IF locked[s] /\ mThreadsRun THEN "count" ELSE "write"]
  /\ UNCHANGED <<mThreadsRun, queueVars, mEventQueue, mWakeLockQueue, lockVars,
                 wakeMutex, expired, pwVars, wlVars, initVars, batch, numWakeup,
                 locked, stale, generated, fwVars, undisturbed>>

PostCount(s) ==
  /\ pc[s] = "count" /\ wakeMutex = NoOne
  /\ IncrementRefCount(numWakeup[s])
  /\ pc' = [pc EXCEPT ![s] = "write"]
  /\ UNCHANGED <<mThreadsRun, queueVars, mEventQueue, mWakeLockQueue, eventMutex,
                 wakeMutex, pwVars, numProcessed, initVars, batch, numWakeup,
                 locked, stale, generated, fwVars, undisturbed>>

\* AlsCorrection::process drops an event of a wise light sensor by giving it
\* handle 0; which ones is decided by that component.
AlsProcessed(events, dropped) ==
  [i \in DOMAIN events |-> IF i \in dropped THEN [events[i] EXCEPT !.handle = ZeroHandle]
                                            ELSE events[i]]

\* How many of the events are written at once: what fits, unless older events
\* are pending.  The mutant lets new events overtake the pending ones.
FitsNowOvertaking(events) == Lesser(Len(events), QueueSize - Len(mEventQueue))

FitsNow(events) ==
  IF mPendingWriteEventsQueue = <<>>
  THEN Lesser(Len(events), QueueSize - Len(mEventQueue)) ELSE 0

\* Whether the pending queue can take the events left over.  The mutant only
\* looks at what is in it.
HasRoomIgnoringNew(left) ==
  mSizePendingWriteEventsQueue <= kMaxSizePendingWriteEventsQueue

HasRoom(left) ==
  mSizePendingWriteEventsQueue + Len(left) <= kMaxSizePendingWriteEventsQueue

\* The rest of postEventsToMessageQueue: correct, write what fits unless older
\* events are pending, keep the rest pending if there is room, unlock.
PostWrite(s) ==
  /\ pc[s] = "write"
  /\ \E dropped \in SUBSET {i \in DOMAIN batch[s] : batch[s][i].handle \in WiseLight} :
       LET events == AlsProcessed(batch[s], dropped)
           num    == FitsNow(events)
           left   == SubSeq(events, num + 1, Len(events))
           keep   == left # <<>> /\ HasRoom(left)
       IN  /\ mEventQueue' = mEventQueue \o SubSeq(events, 1, num)
           /\ IF keep
              THEN /\ mPendingWriteEventsQueue' = Append(mPendingWriteEventsQueue,
                        [events |-> left, numWakeupEvents |-> numWakeup[s]])
                   /\ mSizePendingWriteEventsQueue' =
                        mSizePendingWriteEventsQueue + Len(left)
                   /\ pwPc' = Notified(pwPc)
              ELSE UNCHANGED <<queueVars, pwPc>>
           /\ undisturbed' = (/\ undisturbed
                              /\ left # <<>> => keep
                              /\ \A i \in dropped : batch[s][i].handle \notin WakeUp)
  /\ eventMutex' = NoOne
  /\ pc' = [pc EXCEPT ![s] = "release"]
  /\ UNCHANGED <<mThreadsRun, mWakeLockQueue, lockVars, wakeMutex, expired,
                 numToWrite, pwWakeups, wlVars, initVars, batch, numWakeup,
                 locked, stale, generated, fwVars>>

\* ~ScopedWakelock: the load of mThreadsRun in its decrement.
ReleaseScopedWakelock(s) ==
  /\ pc[s] = "release"
  /\ pc' = [pc EXCEPT ![s] = IF locked[s] /\ mThreadsRun THEN "unref" ELSE "idle"]
  /\ locked' = [locked EXCEPT ![s] = @ /\ mThreadsRun]
  /\ batch' = [batch EXCEPT ![s] = <<>>]
  /\ numWakeup' = [numWakeup EXCEPT ![s] = 0]
  /\ UNCHANGED <<mThreadsRun, queueVars, mEventQueue, mWakeLockQueue, lockVars,
                 eventMutex, wakeMutex, expired, pwVars, wlVars, initVars,
                 stale, generated, fwVars, undisturbed>>

\* The locked part of that decrement; one that a timeout has already reset
\* (timeoutStart < mWakelockTimeoutResetTime) has no effect.
Unref(s) ==
  /\ pc[s] = "unref" /\ wakeMutex = NoOne
  /\ IF stale[s] THEN UNCHANGED lockVars ELSE DecrementRefCount(1)
  /\ locked' = [locked EXCEPT ![s] = FALSE]
  /\ stale' = [stale EXCEPT ![s] = FALSE]
  /\ pc' = [pc EXCEPT ![s] = "idle"]
  /\ UNCHANGED <<mThreadsRun, queueVars, mEventQueue, mWakeLockQueue, eventMutex,
                 wakeMutex, expired, pwVars, wlVars, initVars, batch, numWakeup,
                 generated, fwVars, undisturbed>>
-----------------------------------------------------------------------------
(* The pending writes thread.                                              *)

PwLock ==
  /\ pwPc = "lock" /\ eventMutex = NoOne
  /\ pwPc' = "test" /\ eventMutex' = Pw
  /\ UNCHANGED <<mThreadsRun, queueVars, mEventQueue, mWakeLockQueue, lockVars,
                 wakeMutex, expired, numToWrite, pwWakeups, wlVars, initVars,
                 postVars, fwVars, undisturbed>>

\* The loop condition, the wait predicate and, when there is something to
\* write, the locals computed before the unlock.
PwTest ==
  /\ pwPc = "test"
  /\ \/ /\ ~mThreadsRun
        /\ pwPc' = "done" /\ eventMutex' = NoOne
        /\ UNCHANGED <<numToWrite, pwWakeups>>
     \/ /\ mThreadsRun /\ mPendingWriteEventsQueue = <<>>
        /\ pwPc' = "parking"
        /\ UNCHANGED <<eventMutex, numToWrite, pwWakeups>>
     \/ /\ mThreadsRun /\ mPendingWriteEventsQueue # <<>>
        /\ numToWrite' = Lesser(Len(mPendingWriteEventsQueue[1].events), QueueSize)
        /\ pwWakeups' = mPendingWriteEventsQueue[1].numWakeupEvents
        /\ pwPc' = "writing" /\ eventMutex' = NoOne
  /\ UNCHANGED <<mThreadsRun, queueVars, mEventQueue, mWakeLockQueue, lockVars,
                 wakeMutex, expired, wlVars, initVars, postVars, fwVars, undisturbed>>

\* mEventQueueWriteCV.wait releases the mutex and blocks.
PwPark ==
  /\ pwPc = "parking"
  /\ pwPc' = "parked" /\ eventMutex' = NoOne
  /\ UNCHANGED <<mThreadsRun, queueVars, mEventQueue, mWakeLockQueue, lockVars,
                 wakeMutex, expired, numToWrite, pwWakeups, wlVars, initVars,
                 postVars, fwVars, undisturbed>>

\* A wait may return without a notification.
PwSpuriousWakeup ==
  /\ pwPc = "parked" /\ pwPc' = "lock"
  /\ UNCHANGED <<mThreadsRun, queueVars, mEventQueue, mWakeLockQueue, lockVars,
                 eventMutex, wakeMutex, expired, numToWrite, pwWakeups, wlVars,
                 initVars, postVars, fwVars, undisturbed>>

\* writeBlocking succeeds once the FMQ has room for all numToWrite events ...
PwWrite ==
  /\ pwPc = "writing" /\ Len(mEventQueue) + numToWrite <= QueueSize
  /\ mEventQueue' = mEventQueue \o
       SubSeq(mPendingWriteEventsQueue[1].events, 1, numToWrite)
  /\ pwPc' = "relock"
  /\ UNCHANGED <<mThreadsRun, queueVars, mWakeLockQueue, lockVars, eventMutex,
                 wakeMutex, expired, numToWrite, pwWakeups, wlVars, initVars,
                 postVars, fwVars, undisturbed>>

\* ... and fails when it has had none for kPendingWriteTimeoutNs.
PwWriteTimeout ==
  /\ pwPc = "writing" /\ Len(mEventQueue) + numToWrite > QueueSize
  /\ pwPc' = IF pwWakeups > 0 /\ mThreadsRun THEN "unref" ELSE "dropped"
  /\ undisturbed' = FALSE
  /\ UNCHANGED <<mThreadsRun, queueVars, mEventQueue, mWakeLockQueue, lockVars,
                 eventMutex, wakeMutex, expired, numToWrite, pwWakeups, wlVars,
                 initVars, postVars, fwVars>>

\* The wake-up events dropped are no longer counted.
PwUnref ==
  /\ pwPc = "unref" /\ wakeMutex = NoOne
  /\ LET front == mPendingWriteEventsQueue[1].events
     IN  DecrementRefCount(IF Len(front) > QueueSize
                           THEN countNumWakeupEvents(SubSeq(front, 1, QueueSize))
                           ELSE pwWakeups)
  /\ pwPc' = "dropped"
  /\ UNCHANGED <<mThreadsRun, queueVars, mEventQueue, mWakeLockQueue, eventMutex,
                 wakeMutex, expired, numToWrite, pwWakeups, wlVars, initVars,
                 postVars, fwVars, undisturbed>>

\* Back under the mutex: forget the events written or dropped.  The mutant
\* leaves the front entry as it was when it is longer than the FMQ.
PwRelockWithoutErase ==
  /\ pwPc \in {"relock", "dropped"} /\ eventMutex = NoOne
  /\ eventMutex' = Pw /\ pwPc' = "test"
  /\ mSizePendingWriteEventsQueue' = mSizePendingWriteEventsQueue - numToWrite
  /\ mPendingWriteEventsQueue' =
       IF Len(mPendingWriteEventsQueue[1].events) > QueueSize
       THEN mPendingWriteEventsQueue ELSE Tail(mPendingWriteEventsQueue)
  /\ UNCHANGED <<mThreadsRun, mEventQueue, mWakeLockQueue, lockVars, wakeMutex,
                 expired, numToWrite, pwWakeups, wlVars, initVars, postVars,
                 fwVars, undisturbed>>

PwRelock ==
  /\ pwPc \in {"relock", "dropped"} /\ eventMutex = NoOne
  /\ eventMutex' = Pw /\ pwPc' = "test"
  /\ mSizePendingWriteEventsQueue' = mSizePendingWriteEventsQueue - numToWrite
  /\ LET front == mPendingWriteEventsQueue[1].events
     IN  mPendingWriteEventsQueue' =
           IF Len(front) > QueueSize
           THEN [mPendingWriteEventsQueue EXCEPT ![1].events =
                   SubSeq(front, QueueSize + 1, Len(front))]
           ELSE Tail(mPendingWriteEventsQueue)
  /\ UNCHANGED <<mThreadsRun, mEventQueue, mWakeLockQueue, lockVars, wakeMutex,
                 expired, numToWrite, pwWakeups, wlVars, initVars, postVars,
                 fwVars, undisturbed>>
-----------------------------------------------------------------------------
(* The wake lock thread.                                                   *)

WlLock ==
  /\ wlPc = "lock" /\ wakeMutex = NoOne
  /\ wlPc' = "test" /\ wakeMutex' = Wl
  /\ UNCHANGED <<mThreadsRun, queueVars, mEventQueue, mWakeLockQueue, lockVars,
                 eventMutex, expired, pwVars, numProcessed, initVars, postVars,
                 fwVars, undisturbed>>

\* The loop condition, the wait predicate and sharedWakelockDidTimeout.  Both
\* the exit and the timeout call resetSharedWakelock, whose decrement has no
\* effect once mThreadsRun is FALSE.
WlTest ==
  /\ wlPc = "test"
  /\ \/ /\ ~mThreadsRun
        /\ wlPc' = "done" /\ wakeMutex' = NoOne
        /\ SetResetTime
        /\ UNCHANGED <<lockVars, undisturbed>>
     \/ /\ mThreadsRun /\ mWakelockRefCount = 0
        /\ wlPc' = "parking"
        /\ UNCHANGED <<wakeMutex, lockVars, stale, undisturbed>>
     \/ /\ mThreadsRun /\ mWakelockRefCount > 0 /\ expired
        /\ DecrementRefCount(mWakelockRefCount)
        /\ SetResetTime
        /\ undisturbed' = FALSE
        /\ UNCHANGED <<wlPc, wakeMutex>>
     \/ /\ mThreadsRun /\ mWakelockRefCount > 0 /\ ~expired
        /\ wlPc' = "reading" /\ wakeMutex' = NoOne
        /\ UNCHANGED <<lockVars, stale, undisturbed>>
  /\ UNCHANGED <<mThreadsRun, queueVars, mEventQueue, mWakeLockQueue, eventMutex,
                 expired, pwVars, numProcessed, initVars, pc, batch, numWakeup,
                 locked, generated, fwVars>>

WlPark ==
  /\ wlPc = "parking"
  /\ wlPc' = "parked" /\ wakeMutex' = NoOne
  /\ UNCHANGED <<mThreadsRun, queueVars, mEventQueue, mWakeLockQueue, lockVars,
                 eventMutex, expired, pwVars, numProcessed, initVars, postVars,
                 fwVars, undisturbed>>

WlSpuriousWakeup ==
  /\ wlPc = "parked" /\ wlPc' = "lock"
  /\ UNCHANGED <<mThreadsRun, queueVars, mEventQueue, mWakeLockQueue, lockVars,
                 eventMutex, wakeMutex, expired, pwVars, numProcessed, initVars,
                 postVars, fwVars, undisturbed>>

WlRead ==
  /\ wlPc = "reading" /\ mWakeLockQueue # <<>>
  /\ numProcessed' = Head(mWakeLockQueue)
  /\ mWakeLockQueue' = Tail(mWakeLockQueue)
  /\ wlPc' = "relock"
  /\ UNCHANGED <<mThreadsRun, queueVars, mEventQueue, lockVars, eventMutex,
                 wakeMutex, expired, pwVars, initVars, postVars, fwVars, undisturbed>>

\* readBlocking gives up; success = false is a decrement by 0, which is none.
WlReadTimeout ==
  /\ wlPc = "reading" /\ mWakeLockQueue = <<>>
  /\ numProcessed' = 0 /\ wlPc' = "relock"
  /\ UNCHANGED <<mThreadsRun, queueVars, mEventQueue, mWakeLockQueue, lockVars,
                 eventMutex, wakeMutex, expired, pwVars, initVars, postVars,
                 fwVars, undisturbed>>

WlRelock ==
  /\ wlPc = "relock" /\ wakeMutex = NoOne
  /\ wlPc' = "test" /\ wakeMutex' = Wl /\ numProcessed' = 0
  /\ IF mThreadsRun THEN DecrementRefCount(numProcessed) ELSE UNCHANGED lockVars
  /\ UNCHANGED <<mThreadsRun, queueVars, mEventQueue, mWakeLockQueue, eventMutex,
                 expired, pwVars, initVars, postVars, fwVars, undisturbed>>

\* kWakelockTimeoutNs passes since the last increment.
Expire ==
  /\ mWakelockRefCount > 0 /\ ~expired
  /\ expired' = TRUE
  /\ UNCHANGED <<mThreadsRun, queueVars, mEventQueue, mWakeLockQueue, lockVars,
                 eventMutex, wakeMutex, pwVars, wlVars, initVars, postVars,
                 fwVars, undisturbed>>
-----------------------------------------------------------------------------
(* The binder thread: initialize, initialize_2_1 and activate.             *)

InitGoto(from, to) == initPc = from /\ initPc' = to

\* stopThreads clears mThreadsRun ...
InitStop ==
  /\ inits < MaxInits
  /\ InitGoto("idle", "drain")
  /\ mThreadsRun' = FALSE
  /\ undisturbed' = (undisturbed /\ inits = 0)
  /\ UNCHANGED <<queueVars, mEventQueue, mWakeLockQueue, lockVars, eventMutex,
                 wakeMutex, expired, pwVars, wlVars, inits, active, postVars, fwVars>>

\* ... empties the event FMQ so that a blocked write can finish ...
InitDrain ==
  /\ InitGoto("drain", "kick")
  /\ mEventQueue' = <<>>
  /\ UNCHANGED <<mThreadsRun, queueVars, mWakeLockQueue, lockVars, eventMutex,
                 wakeMutex, expired, pwVars, wlVars, inits, active, postVars,
                 fwVars, undisturbed>>

\* ... writes a zero on the wake lock FMQ, if there is one, so that a blocked
\* read can finish ...
InitKick ==
  /\ InitGoto("kick", "notifyWl")
  /\ mWakeLockQueue' = IF inits > 0 THEN Append(mWakeLockQueue, 0) ELSE mWakeLockQueue
  /\ UNCHANGED <<mThreadsRun, queueVars, mEventQueue, lockVars, eventMutex,
                 wakeMutex, expired, pwVars, wlVars, inits, active, postVars,
                 fwVars, undisturbed>>

\* ... notifies both condition variables without holding the mutexes ...
InitNotifyWl ==
  /\ InitGoto("notifyWl", "notifyPw")
  /\ wlPc' = Notified(wlPc)
  /\ UNCHANGED <<mThreadsRun, queueVars, mEventQueue, mWakeLockQueue, lockVars,
                 eventMutex, wakeMutex, expired, pwVars, numProcessed, inits,
                 active, postVars, fwVars, undisturbed>>

InitNotifyPw ==
  /\ InitGoto("notifyPw", "join")
  /\ pwPc' = Notified(pwPc)
  /\ UNCHANGED <<mThreadsRun, queueVars, mEventQueue, mWakeLockQueue, lockVars,
                 eventMutex, wakeMutex, expired, numToWrite, pwWakeups, wlVars,
                 inits, active, postVars, fwVars, undisturbed>>

\* ... and joins both threads.  The mutant joins the wake lock thread only.
JoinWakelockThread ==
  /\ wlPc = "done"
  /\ InitGoto("join", "reset")
  /\ UNCHANGED <<mThreadsRun, queueVars, mEventQueue, mWakeLockQueue, lockVars,
                 eventMutex, wakeMutex, expired, pwVars, wlVars, inits, active,
                 postVars, fwVars, undisturbed>>

InitJoin ==
  /\ pwPc = "done" /\ wlPc = "done"
  /\ InitGoto("join", "reset")
  /\ UNCHANGED <<mThreadsRun, queueVars, mEventQueue, mWakeLockQueue, lockVars,
                 eventMutex, wakeMutex, expired, pwVars, wlVars, inits, active,
                 postVars, fwVars, undisturbed>>

\* resetSharedWakelock: its decrement returns early, mThreadsRun being FALSE.
InitReset ==
  /\ InitGoto("reset", "disable") /\ wakeMutex = NoOne
  /\ SetResetTime
  /\ UNCHANGED <<mThreadsRun, queueVars, mEventQueue, mWakeLockQueue, lockVars,
                 eventMutex, wakeMutex, expired, pwVars, wlVars, inits, active,
                 pc, batch, numWakeup, locked, generated, fwVars, undisturbed>>

\* disableAllSensors.  A sub-HAL that honours activate(h, false) has no post
\* in progress when it returns; the result is ignored, so one that fails goes
\* on.  The mutant does not disable the sensors.
DisableNothing ==
  /\ InitGoto("disable", "clear")
  /\ UNCHANGED <<mThreadsRun, queueVars, mEventQueue, mWakeLockQueue, lockVars,
                 eventMutex, wakeMutex, expired, pwVars, wlVars, inits, active,
                 postVars, fwVars, undisturbed>>

InitDisable ==
  /\ InitGoto("disable", "clear")
  /\ \E failing \in SUBSET MayFail :
       /\ \A s \in SubHals \ failing : pc[s] = "idle"
       /\ active' = [s \in SubHals |-> active[s] /\ s \in failing]
  /\ UNCHANGED <<mThreadsRun, queueVars, mEventQueue, mWakeLockQueue, lockVars,
                 eventMutex, wakeMutex, expired, pwVars, wlVars, inits, postVars,
                 fwVars, undisturbed>>

\* The pending queue is cleared, without its mutex, and the FMQs of the new
\* framework instance replace the old ones.  The mutant keeps the pending queue.
ClearKeepingPending ==
  /\ InitGoto("clear", "start")
  /\ mEventQueue' = <<>> /\ mWakeLockQueue' = <<>> /\ unacked' = 0
  /\ UNCHANGED <<mThreadsRun, queueVars, lockVars, eventMutex, wakeMutex, expired,
                 pwVars, wlVars, inits, active, postVars, lastRead, undisturbed>>

InitClear ==
  /\ InitGoto("clear", "start")
  /\ mPendingWriteEventsQueue' = <<>> /\ mSizePendingWriteEventsQueue' = 0
  /\ mEventQueue' = <<>> /\ mWakeLockQueue' = <<>> /\ unacked' = 0
  /\ UNCHANGED <<mThreadsRun, lockVars, eventMutex, wakeMutex, expired, pwVars,
                 wlVars, inits, active, postVars, lastRead, undisturbed>>

InitStart ==
  /\ InitGoto("start", "subhals")
  /\ mThreadsRun' = TRUE /\ pwPc' = "lock" /\ wlPc' = "lock"
  /\ UNCHANGED <<queueVars, mEventQueue, mWakeLockQueue, lockVars, eventMutex,
                 wakeMutex, expired, numToWrite, pwWakeups, numProcessed, inits,
                 active, postVars, fwVars, undisturbed>>

\* Every sub-HAL's initialize, after which the framework goes to work.
InitSubHals ==
  /\ InitGoto("subhals", "idle")
  /\ inits' = inits + 1
  /\ UNCHANGED <<mThreadsRun, queueVars, mEventQueue, mWakeLockQueue, lockVars,
                 eventMutex, wakeMutex, expired, pwVars, wlVars, active, postVars,
                 fwVars, undisturbed>>

\* activate(handle, enabled) on a sensor of s.
Activate(s, enabled) ==
  /\ initPc = "idle" /\ inits > 0
  /\ active' = [active EXCEPT ![s] = enabled]
  /\ UNCHANGED <<mThreadsRun, queueVars, mEventQueue, mWakeLockQueue, lockVars,
                 eventMutex, wakeMutex, expired, pwVars, wlVars, initPc, inits,
                 postVars, fwVars, undisturbed>>
-----------------------------------------------------------------------------
(* The framework (external).                                               *)

FrameworkRead ==
  /\ initPc = "idle" /\ mEventQueue # <<>>
  /\ LET e == Head(mEventQueue)
     IN  /\ lastRead' = [lastRead EXCEPT ![e.src] = e.id]
         /\ unacked' = IF e.handle \in WakeUp THEN unacked + 1 ELSE unacked
  /\ mEventQueue' = Tail(mEventQueue)
  /\ UNCHANGED <<mThreadsRun, queueVars, mWakeLockQueue, lockVars, eventMutex,
                 wakeMutex, expired, pwVars, wlVars, initVars, postVars, undisturbed>>

FrameworkAck ==
  /\ initPc = "idle" /\ unacked > 0
  /\ mWakeLockQueue' = Append(mWakeLockQueue, unacked)
  /\ unacked' = 0
  /\ UNCHANGED <<mThreadsRun, queueVars, mEventQueue, lockVars, eventMutex,
                 wakeMutex, expired, pwVars, wlVars, initVars, postVars,
                 lastRead, undisturbed>>
-----------------------------------------------------------------------------
Poster(s) ==
  \/ CreateScopedWakelock(s) \/ Acquire(s) \/ PostEvents(s) \/ PostLock(s)
  \/ PostCount(s) \/ PostWrite(s) \/ ReleaseScopedWakelock(s) \/ Unref(s)

handlePendingWrites ==
  \/ PwLock \/ PwTest \/ PwPark \/ PwSpuriousWakeup \/ PwWrite
  \/ PwWriteTimeout \/ PwUnref \/ PwRelock

handleWakelocks ==
  \/ WlLock \/ WlTest \/ WlPark \/ WlSpuriousWakeup \/ WlRead
  \/ WlReadTimeout \/ WlRelock

initializeCommon ==
  \/ InitStop \/ InitDrain \/ InitKick \/ InitNotifyWl \/ InitNotifyPw
  \/ InitJoin \/ InitReset \/ InitDisable \/ InitClear \/ InitStart \/ InitSubHals

Next ==
  \/ \E s \in SubHals : Poster(s)
  \/ \E s \in SubHals, enabled \in BOOLEAN : Activate(s, enabled)
  \/ handlePendingWrites
  \/ handleWakelocks
  \/ initializeCommon
  \/ Expire
  \/ FrameworkRead
  \/ FrameworkAck

Spec == Init /\ [][Next]_vars

\* Threads that are able to run do run, and a thread that waits for a mutex
\* that is free again and again gets it.  Nothing obliges a sub-HAL to post,
\* the framework to read, acknowledge or initialize, or a condition variable
\* to wake up without being notified.
Fairness ==
  /\ \A s \in SubHals : SF_vars(Poster(s) /\ pc[s] # "idle")
  /\ SF_vars(handlePendingWrites /\ pwPc # "parked")
  /\ SF_vars(handleWakelocks /\ wlPc # "parked")
  /\ SF_vars(initializeCommon /\ initPc # "idle")
  /\ WF_vars(Expire)

FairSpec == Spec /\ Fairness
-----------------------------------------------------------------------------
QueuesOK ==
  /\ mPendingWriteEventsQueue \in Seq([events : Seq(Event), numWakeupEvents : Nat])
  /\ mSizePendingWriteEventsQueue \in Int
  /\ mEventQueue \in Seq(Event) /\ Len(mEventQueue) <= QueueSize
  /\ mWakeLockQueue \in Seq(Nat)

WakelockOK ==
  /\ mWakelockRefCount \in Nat
  /\ held \in BOOLEAN /\ expired \in BOOLEAN
  /\ numProcessed \in Nat

ThreadsOK ==
  /\ mThreadsRun \in BOOLEAN
  /\ eventMutex \in SubHals \cup {NoOne, Pw} /\ wakeMutex \in {NoOne, Wl}
  /\ pwPc \in {"lock", "test", "parking", "parked", "writing", "unref", "dropped",
               "relock", "done"}
  /\ numToWrite \in Nat /\ pwWakeups \in Nat
  /\ wlPc \in {"lock", "test", "parking", "parked", "reading", "relock", "done"}
  /\ initPc \in {"idle", "drain", "kick", "notifyWl", "notifyPw", "join", "reset",
                 "disable", "clear", "start", "subhals"}
  /\ inits \in Nat

PostersOK ==
  /\ pc \in [SubHals -> {"idle", "acquire", "post", "enter", "count", "write",
                         "release", "unref"}]
  /\ batch \in [SubHals -> Seq(Event)]
  /\ numWakeup \in [SubHals -> Nat]
  /\ locked \in [SubHals -> BOOLEAN] /\ stale \in [SubHals -> BOOLEAN]
  /\ active \in [SubHals -> BOOLEAN]
  /\ generated \in [SubHals -> Nat]

FrameworkOK ==
  /\ unacked \in Nat
  /\ lastRead \in [SubHals -> Nat]
  /\ undisturbed \in BOOLEAN

\* The types of all variables, in five parts: the queues (the event FMQ, which
\* two threads write, never holds more than its size), the shared wake lock
\* (whose count, a size_t, never goes below zero), the threads and their
\* mutexes, the sub-HALs, the framework.
TypeOK == QueuesOK /\ WakelockOK /\ ThreadsOK /\ PostersOK /\ FrameworkOK

\* The kernel wake lock is held exactly while the shared reference count is
\* positive (incrementRefCountAndMaybeAcquireWakelock acquires on 0,
\* decrementRefCountAndMaybeReleaseWakelock releases on 0), whatever acks,
\* timeouts, stale ScopedWakelocks and restarts do to the count.
HeldIffCounted == held <=> mWakelockRefCount > 0

\* handlePendingWrites keeps a reference into the front of the pending queue
\* while it blocks without the mutex: until it has the mutex back that entry
\* exists and has the size that numToWrite was computed from.
FrontStable ==
  pwPc \in {"writing", "unref", "dropped", "relock"} =>
    /\ mPendingWriteEventsQueue # <<>>
    /\ numToWrite = Lesser(Len(mPendingWriteEventsQueue[1].events), QueueSize)

\* The assertion of postEvents: wake-up events are posted with the wake lock
\* locked, and only they are.
LockedIffWakeup ==
  \A s \in SubHals : pc[s] = "enter" => (numWakeup[s] > 0 <=> locked[s])

\* The comment in initializeCommon: sensors are disabled so that the pending
\* queue "can be cleared safely" (nobody is inside postEventsToMessageQueue)
\* and no event arrives before the sub-HALs are initialized.
ResetIsQuiet ==
  /\ initPc = "clear" => eventMutex = NoOne /\ \A s \in SubHals : pc[s] # "enter"
  /\ initPc \in {"start", "subhals"} =>
       mPendingWriteEventsQueue = <<>> /\ mEventQueue = <<>>

\* A wake lock taken for the sensors is released again once the sub-HALs stop
\* posting, even if the framework never acknowledges an event.
WakelockReleased == held ~> ~held

\* Pending events are written or dropped: the queue drains even when the
\* framework does not read.
PendingDrains == mPendingWriteEventsQueue # <<>> ~> mPendingWriteEventsQueue = <<>>

\* initialize gets past the join of stopThreads and starts the threads again.
InitializeReturns == initPc = "drain" ~> initPc = "idle"
=============================================================================
