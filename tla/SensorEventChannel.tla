------------------------- MODULE SensorEventChannel -------------------------
(***************************************************************************)
(* What the sensors HAL promises about the events it carries from the      *)
(* sub-HALs to the framework: every sub-HAL's events are delivered in the  *)
(* order in which it generated them, none of them twice.  Events may be    *)
(* lost, but what is lost is a block of consecutive events of the channel. *)
(***************************************************************************)
EXTENDS Integers, Sequences

CONSTANTS
  SubHals,
  MaxPost    \* bound: events posted at once

VARIABLES
  channel,   \* events on their way to the framework
  posted,    \* per sub-HAL: id of the last event it posted
  lastRead   \* per sub-HAL: id of the last event the framework read

chanVars == <<channel, posted, lastRead>>

Message == [src : SubHals, id : Nat]

ChanInit ==
  /\ channel = <<>>
  /\ posted = [s \in SubHals |-> 0]
  /\ lastRead = [s \in SubHals |-> 0]

\* s posts n events of which the channel accepts the first k.
ChanPost(s, n, k) ==
  /\ posted' = [posted EXCEPT ![s] = @ + n]
  /\ channel' = channel \o [i \in 1..k |-> [src |-> s, id |-> posted[s] + i]]
  /\ UNCHANGED lastRead

ChanDeliver ==
  /\ channel # <<>>
  /\ lastRead' = [lastRead EXCEPT ![Head(channel).src] = Head(channel).id]
  /\ channel' = Tail(channel)
  /\ UNCHANGED posted

\* Events i+1 .. j are lost.
ChanLose(i, j) ==
  /\ channel' = SubSeq(channel, 1, i) \o SubSeq(channel, j + 1, Len(channel))
  /\ UNCHANGED <<posted, lastRead>>

ChanNext ==
  \/ \E s \in SubHals, n \in 0..MaxPost : \E k \in 0..n : ChanPost(s, n, k)
  \/ ChanDeliver
  \/ \E j \in 1..Len(channel) : \E i \in 0..(j - 1) : ChanLose(i, j)

ChanSpec == ChanInit /\ [][ChanNext]_chanVars
-----------------------------------------------------------------------------
ChanTypeOK ==
  /\ channel \in Seq(Message)
  /\ posted \in [SubHals -> Nat]
  /\ lastRead \in [SubHals -> Nat]

\* Two events of the same sub-HAL in the channel are in the order in which
\* they were generated, and both are newer than the last one delivered and
\* not newer than the last one posted.
InOrder ==
  /\ \A i, j \in 1..Len(channel) :
       i < j /\ channel[i].src = channel[j].src => channel[i].id < channel[j].id
  /\ \A i \in 1..Len(channel) :
       /\ lastRead[channel[i].src] < channel[i].id
       /\ channel[i].id <= posted[channel[i].src]
  /\ \A s \in SubHals : lastRead[s] <= posted[s]

\* Delivery never goes back or repeats: reading an event of s moves lastRead[s]
\* strictly forward.
DeliveredForward == [][ChanDeliver => lastRead'[Head(channel).src]
                                        > lastRead[Head(channel).src]]_chanVars
=============================================================================
