-------------------------- MODULE HalProxyChannel ---------------------------
(***************************************************************************)
(* HalProxy seen as the abstract channel of SensorEventChannel, and the    *)
(* two quantities that its counters stand for: the number of pending       *)
(* events and the number of references to the shared wake lock.            *)
(***************************************************************************)
EXTENDS HalProxy, SequencesExt

\* The events of the pending queue, entry after entry.
AllPending ==
  FlattenSeq([i \in DOMAIN mPendingWriteEventsQueue |-> mPendingWriteEventsQueue[i].events])

\* How many of them handlePendingWrites has written or dropped already.
Done == IF pwPc \in {"relock", "unref", "dropped"} THEN numToWrite ELSE 0

\* The others.
PendingEvents == SubSeq(AllPending, Done + 1, Len(AllPending))

\* The events on their way to the framework.
InFlight == mEventQueue \o PendingEvents

\* What the channel knows of them.
Content == [i \in DOMAIN InFlight |-> [src |-> InFlight[i].src, id |-> InFlight[i].id]]

\* What a sub-HAL has handed over: all it has generated but a batch of its own
\* that postEventsToMessageQueue has not yet dealt with.
Posted ==
  [s \in SubHals |-> IF pc[s] \in {"acquire", "post", "enter", "count", "write"}
                     THEN generated[s] - Len(batch[s]) ELSE generated[s]]

Channel == INSTANCE SensorEventChannel WITH
  MaxPost <- MaxEvents, channel <- Content, posted <- Posted

\* The two queues, the posting threads and the pending writes thread together
\* behave as one channel that may lose events but never reorders or repeats
\* them, across overflows, write timeouts and restarts.
ImplementsChannel == Channel!ChanSpec

\* Per sub-HAL, the events in flight are in order and newer than the last one
\* the framework has read.
EventsInOrder == Channel!InOrder

\* mSizePendingWriteEventsQueue, a size_t maintained by increments and
\* decrements in two threads, is the number of events in the pending queue
\* and within its limit.
PendingSizeExact ==
  /\ mSizePendingWriteEventsQueue = Len(AllPending)
  /\ mSizePendingWriteEventsQueue <= kMaxSizePendingWriteEventsQueue

\* One element for every acknowledgement that lies in the wake lock FMQ, whose
\* entries are numbers of acknowledged events.
Acknowledged ==
  FlattenSeq([i \in DOMAIN mWakeLockQueue |-> [k \in 1..mWakeLockQueue[i] |-> "ack"]])

\* One element for every wake-up event that a poster has counted and not yet
\* put into a queue.
Counted ==
  {t \in SubHals \X (1..MaxEvents) :
     pc[t[1]] = "write" /\ locked[t[1]] /\ t[2] <= numWakeup[t[1]]}

\* The references to the shared wake lock that somebody still has to drop:
\* live ScopedWakelocks, wake-up events counted but not yet queued, queued,
\* read but not acknowledged, and acknowledged but not yet subtracted.
References ==
  Cardinality({s \in SubHals : locked[s] /\ ~stale[s]})
    + Cardinality(Counted)
    + countNumWakeupEvents(InFlight)
    + unacked
    + Len(Acknowledged)
    + numProcessed

\* As long as no timeout, overflow or restart interferes, mWakelockRefCount is
\* exactly the number of references: none is leaked and none dropped twice,
\* in whatever order the threads run.
RefCountExact == undisturbed => mWakelockRefCount = References
=============================================================================
