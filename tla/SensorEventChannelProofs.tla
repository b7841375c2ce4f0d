---------------------- MODULE SensorEventChannelProofs ----------------------
(***************************************************************************)
(* The abstract channel delivers every sub-HAL's events in order and at    *)
(* most once, for any number of sub-HALs and any length of the channel.    *)
(***************************************************************************)
EXTENDS SensorEventChannel, TLAPS

\* The elements of a concatenation, and of a sequence without its head.
LEMMA Concatenated ==
  ASSUME NEW S, NEW q \in Seq(S), NEW r \in Seq(S)
  PROVE  /\ q \o r \in Seq(S) /\ Len(q \o r) = Len(q) + Len(r)
         /\ \A i \in 1..Len(q) : (q \o r)[i] = q[i]
         /\ \A i \in 1..Len(r) : (q \o r)[Len(q) + i] = r[i]
OBVIOUS

LEMMA WithoutHead ==
  ASSUME NEW S, NEW q \in Seq(S), q # <<>>
  PROVE  /\ Head(q) = q[1] /\ Len(q) >= 1
         /\ Tail(q) \in Seq(S) /\ Len(Tail(q)) = Len(q) - 1
         /\ \A i \in 1..Len(Tail(q)) : Tail(q)[i] = q[i + 1]
OBVIOUS

\* The fields of the events in the channel.
LEMMA MessageFields ==
  ASSUME channel \in Seq(Message)
  PROVE  \A i \in 1..Len(channel) : channel[i].src \in SubHals /\ channel[i].id \in Nat
<1> SUFFICES ASSUME NEW i \in 1..Len(channel)
             PROVE  channel[i].src \in SubHals /\ channel[i].id \in Nat
  OBVIOUS
<1>1. channel[i] \in Message
  OBVIOUS
<1> QED
  BY <1>1 DEF Message

ChanInv == ChanTypeOK /\ InOrder

LEMMA ChanInvInit == ChanInit => ChanInv
BY DEF ChanInit, ChanInv, ChanTypeOK, InOrder

LEMMA ChanInvPost ==
  ASSUME ChanInv, NEW s \in SubHals, NEW n \in Nat, NEW k \in 0..n, ChanPost(s, n, k)
  PROVE  ChanInv'
<1> DEFINE new == [i \in 1..k |-> [src |-> s, id |-> posted[s] + i]]
<1>0. /\ channel \in Seq(Message) /\ posted \in [SubHals -> Nat]
      /\ lastRead \in [SubHals -> Nat] /\ posted[s] \in Nat /\ Len(channel) \in Nat
  BY DEF ChanInv, ChanTypeOK
<1>1. new \in Seq(Message) /\ Len(new) = k
  <2>1. \A i \in 1..k : [src |-> s, id |-> posted[s] + i] \in Message
    BY <1>0 DEF Message
  <2> QED
    BY <2>1
<1>2. \A i \in 1..k : new[i].src = s /\ new[i].id = posted[s] + i
  OBVIOUS
<1>3. channel' = channel \o new
  BY DEF ChanPost
<1>4. /\ posted' \in [SubHals -> Nat] /\ posted'[s] = posted[s] + n
      /\ \A t \in SubHals : t # s => posted'[t] = posted[t]
      /\ lastRead' = lastRead
  BY <1>0 DEF ChanPost
<1>4a. \A t \in SubHals : posted[t] <= posted'[t]
  <2> SUFFICES ASSUME NEW t \in SubHals PROVE posted[t] <= posted'[t]
    OBVIOUS
  <2>1. posted[t] \in Nat
    BY <1>0
  <2>2. CASE t = s
    BY <1>4, <2>1, <2>2
  <2>3. CASE t # s
    BY <1>4, <2>1, <2>3
  <2> QED
    BY <2>2, <2>3
<1> HIDE DEF new
<1>5. /\ channel' \in Seq(Message) /\ Len(channel') = Len(channel) + k
      /\ \A i \in 1..Len(channel) : channel'[i] = channel[i]
      /\ \A i \in 1..k : channel'[Len(channel) + i] = new[i]
  <2>1. channel \in Seq(Message) /\ new \in Seq(Message)
    BY <1>0, <1>1
  <2>2. /\ channel \o new \in Seq(Message) /\ Len(channel \o new) = Len(channel) + Len(new)
        /\ \A i \in 1..Len(channel) : (channel \o new)[i] = channel[i]
        /\ \A i \in 1..Len(new) : (channel \o new)[Len(channel) + i] = new[i]
    BY <2>1, Concatenated
  <2> QED
    BY <1>1, <1>3, <2>2, Zenon
<1>6. \A j \in 1..Len(channel') : j > Len(channel) =>
        /\ channel'[j].src = s
        /\ channel'[j].id = posted[s] + (j - Len(channel))
  <2> SUFFICES ASSUME NEW j \in 1..Len(channel'), j > Len(channel)
               PROVE  /\ channel'[j].src = s
                      /\ channel'[j].id = posted[s] + (j - Len(channel))
    OBVIOUS
  <2>1. j - Len(channel) \in 1..k /\ Len(channel) + (j - Len(channel)) = j
    BY <1>0, <1>5
  <2>2. channel'[j] = new[j - Len(channel)]
    BY <1>5, <2>1
  <2> QED
    BY <1>2, <2>1, <2>2
<1>7. \A i \in 1..Len(channel) : channel[i].src \in SubHals /\ channel[i].id \in Nat
  BY <1>0, MessageFields
<1>8. ASSUME NEW i \in 1..Len(channel'), NEW j \in 1..Len(channel'),
             i < j, channel'[i].src = channel'[j].src
      PROVE  channel'[i].id < channel'[j].id
  <2>1. CASE j <= Len(channel)
    <3>1. /\ i \in 1..Len(channel) /\ j \in 1..Len(channel)
          /\ channel'[i] = channel[i] /\ channel'[j] = channel[j]
      BY <1>0, <1>5, <1>8, <2>1
    <3> QED
      BY <1>8, <3>1 DEF ChanInv, InOrder
  <2>2. CASE i <= Len(channel) /\ j > Len(channel)
    <3>1. i \in 1..Len(channel) /\ channel'[i] = channel[i] /\ channel[i].src = s
      BY <1>0, <1>5, <1>6, <1>8, <2>2
    <3>2. channel[i].id <= posted[s] /\ channel[i].id \in Nat
      BY <1>7, <3>1 DEF ChanInv, InOrder
    <3>3. channel'[j].id > posted[s]
      BY <1>0, <1>6, <2>2
    <3> QED
      BY <1>0, <1>6, <2>2, <3>1, <3>2, <3>3
  <2>3. CASE i > Len(channel)
    BY <1>0, <1>6, <1>8, <2>3
  <2> QED
    BY <1>0, <1>5, <2>1, <2>2, <2>3
<1>9. ASSUME NEW i \in 1..Len(channel')
      PROVE  /\ lastRead'[channel'[i].src] < channel'[i].id
             /\ channel'[i].id <= posted'[channel'[i].src]
  <2>1. CASE i <= Len(channel)
    <3>1. i \in 1..Len(channel) /\ channel'[i] = channel[i]
      BY <1>0, <1>5, <2>1
    <3>2. /\ lastRead[channel[i].src] < channel[i].id
          /\ channel[i].id <= posted[channel[i].src]
      BY <3>1 DEF ChanInv, InOrder
    <3>3. posted[channel[i].src] <= posted'[channel[i].src]
      BY <1>7, <1>4a, <3>1
    <3> QED
      BY <1>0, <1>4, <1>7, <3>1, <3>2, <3>3
  <2>2. CASE i > Len(channel)
    <3>1. lastRead[s] <= posted[s] /\ lastRead[s] \in Nat
      BY <1>0 DEF ChanInv, InOrder
    <3>2. i - Len(channel) \in 1..k
      BY <1>0, <1>5, <2>2
    <3> QED
      BY <1>0, <1>4, <1>6, <2>2, <3>1, <3>2
  <2> QED
    BY <1>0, <1>5, <2>1, <2>2
<1>10. \A t \in SubHals : lastRead'[t] <= posted'[t]
  <2> SUFFICES ASSUME NEW t \in SubHals PROVE lastRead[t] <= posted'[t]
    BY <1>4
  <2>1. lastRead[t] \in Nat /\ posted[t] \in Nat /\ posted'[t] \in Nat
    BY <1>0, <1>4
  <2>2. lastRead[t] <= posted[t]
    BY DEF ChanInv, InOrder
  <2> QED
    BY <1>4a, <2>1, <2>2
<1> QED
  BY <1>0, <1>4, <1>5, <1>8, <1>9, <1>10 DEF ChanInv, ChanTypeOK, InOrder

LEMMA ChanInvDeliver ==
  ASSUME ChanInv, ChanDeliver
  PROVE  /\ ChanInv'
         /\ lastRead'[Head(channel).src] > lastRead[Head(channel).src]
<1>0. /\ channel \in Seq(Message) /\ posted \in [SubHals -> Nat]
      /\ lastRead \in [SubHals -> Nat] /\ channel # <<>> /\ Len(channel) \in Nat
  BY DEF ChanInv, ChanTypeOK, ChanDeliver
<1>1. /\ Head(channel) = channel[1] /\ Len(channel) >= 1
      /\ channel' \in Seq(Message) /\ Len(channel') = Len(channel) - 1
      /\ \A i \in 1..Len(channel') : channel'[i] = channel[i + 1]
  BY <1>0, WithoutHead DEF ChanDeliver
<1>2. \A i \in 1..Len(channel) : channel[i].src \in SubHals /\ channel[i].id \in Nat
  BY <1>0, MessageFields
<1>3. /\ lastRead' = [lastRead EXCEPT ![channel[1].src] = channel[1].id]
      /\ posted' = posted
  BY <1>1 DEF ChanDeliver
<1>4. lastRead' \in [SubHals -> Nat]
  BY <1>0, <1>1, <1>2, <1>3
<1>5. ASSUME NEW i \in 1..Len(channel'), NEW j \in 1..Len(channel'),
             i < j, channel'[i].src = channel'[j].src
      PROVE  channel'[i].id < channel'[j].id
  <2>1. /\ i + 1 \in 1..Len(channel) /\ j + 1 \in 1..Len(channel) /\ i + 1 < j + 1
        /\ channel'[i] = channel[i + 1] /\ channel'[j] = channel[j + 1]
    BY <1>0, <1>1, <1>5
  <2> QED
    BY <1>5, <2>1 DEF ChanInv, InOrder
<1>6. ASSUME NEW i \in 1..Len(channel')
      PROVE  /\ lastRead'[channel'[i].src] < channel'[i].id
             /\ channel'[i].id <= posted'[channel'[i].src]
  <2>1. i + 1 \in 1..Len(channel) /\ 1 \in 1..Len(channel) /\ 1 < i + 1
        /\ channel'[i] = channel[i + 1]
    BY <1>0, <1>1
  <2>2. CASE channel[i + 1].src = channel[1].src
    <3>1. channel[1].id < channel[i + 1].id
      BY <2>1, <2>2 DEF ChanInv, InOrder
    <3>2. lastRead'[channel[i + 1].src] = channel[1].id
      BY <1>0, <1>2, <1>3, <2>1, <2>2
    <3> QED
      BY <1>3, <2>1, <3>1, <3>2 DEF ChanInv, InOrder
  <2>3. CASE channel[i + 1].src # channel[1].src
    <3>1. lastRead'[channel[i + 1].src] = lastRead[channel[i + 1].src]
      BY <1>0, <1>2, <1>3, <2>1, <2>3
    <3> QED
      BY <1>3, <2>1, <3>1 DEF ChanInv, InOrder
  <2> QED
    BY <2>2, <2>3
<1>7. 1 \in 1..Len(channel) /\ channel[1].src \in SubHals
      /\ channel[1].id <= posted[channel[1].src]
      /\ lastRead[channel[1].src] < channel[1].id
  BY <1>0, <1>1, <1>2 DEF ChanInv, InOrder
<1>8. \A t \in SubHals : lastRead'[t] <= posted'[t]
  BY <1>0, <1>3, <1>7 DEF ChanInv, InOrder
<1>9. lastRead'[channel[1].src] > lastRead[channel[1].src]
  BY <1>0, <1>2, <1>3, <1>7
<1> QED
  BY <1>0, <1>1, <1>3, <1>4, <1>5, <1>6, <1>8, <1>9 DEF ChanInv, ChanTypeOK, InOrder

LEMMA ChanInvLose ==
  ASSUME ChanInv, NEW j \in 1..Len(channel), NEW i \in 0..(j - 1), ChanLose(i, j)
  PROVE  ChanInv'
<1>0. /\ channel \in Seq(Message) /\ Len(channel) \in Nat
      /\ posted' = posted /\ lastRead' = lastRead
  BY DEF ChanInv, ChanTypeOK, ChanLose
<1> DEFINE a == SubSeq(channel, 1, i)
           b == SubSeq(channel, j + 1, Len(channel))
           old(m) == IF m <= i THEN m ELSE m + (j - i)
<1>1. /\ a \in Seq(Message) /\ Len(a) = i
      /\ \A m \in 1..i : a[m] = channel[m]
  BY <1>0
<1>2. /\ b \in Seq(Message) /\ Len(b) = Len(channel) - j
      /\ \A m \in 1..(Len(channel) - j) : b[m] = channel[j + m]
  BY <1>0
<1>3. channel' = a \o b
  BY DEF ChanLose
<1>4. channel' \in Seq(Message) /\ Len(channel') = i + (Len(channel) - j)
  <2> HIDE DEF a, b
  <2>1. a \o b \in Seq(Message) /\ Len(a \o b) = Len(a) + Len(b)
    BY <1>1, <1>2, Concatenated
  <2> QED
    BY <1>1, <1>2, <1>3, <2>1, Zenon
<1>5. \A m \in 1..Len(channel') :
        old(m) \in 1..Len(channel) /\ channel'[m] = channel[old(m)]
  <2> SUFFICES ASSUME NEW m \in 1..Len(channel')
               PROVE  old(m) \in 1..Len(channel) /\ channel'[m] = channel[old(m)]
    OBVIOUS
  <2>1. CASE m <= i
    <3> HIDE DEF a, b
    <3> QED
      BY <1>0, <1>1, <1>2, <1>3, <2>1
  <2>2. CASE m > i
    <3>1. m - i \in 1..(Len(channel) - j) /\ j + (m - i) = old(m)
      BY <1>0, <1>4, <2>2
    <3>2. channel'[m] = b[m - i]
      <4> HIDE DEF a, b
      <4> QED
        BY <1>0, <1>1, <1>2, <1>3, <1>4, <2>2
    <3>3. b[m - i] = channel[j + (m - i)]
      BY <1>2, <3>1
    <3> QED
      BY <1>0, <3>1, <3>2, <3>3
  <2> QED
    BY <1>4, <2>1, <2>2
<1>6. \A m, n \in 1..Len(channel') : m < n => old(m) < old(n)
  BY <1>0, <1>4
<1> HIDE DEF old
<1> QED
  BY <1>0, <1>4, <1>5, <1>6 DEF ChanInv, ChanTypeOK, InOrder

LEMMA ChanInvNext ==
  ASSUME MaxPost \in Nat
  PROVE  ChanInv /\ [ChanNext]_chanVars => ChanInv'
<1> SUFFICES ASSUME ChanInv, [ChanNext]_chanVars
             PROVE  ChanInv'
  OBVIOUS
<1>1. ASSUME NEW s \in SubHals, NEW n \in 0..MaxPost, NEW k \in 0..n, ChanPost(s, n, k)
      PROVE  ChanInv'
  BY <1>1, ChanInvPost
<1>2. CASE ChanDeliver
  BY <1>2, ChanInvDeliver
<1>3. ASSUME NEW j \in 1..Len(channel), NEW i \in 0..(j - 1), ChanLose(i, j)
      PROVE  ChanInv'
  BY <1>3, ChanInvLose
<1>4. CASE UNCHANGED chanVars
  BY <1>4 DEF chanVars, ChanInv, ChanTypeOK, InOrder
<1> QED
  BY <1>1, <1>2, <1>3, <1>4 DEF ChanNext

\* Whatever implements the channel keeps every sub-HAL's events in order.
THEOREM ChannelInOrder ==
  ASSUME MaxPost \in Nat
  PROVE  ChanSpec => []InOrder
<1>1. ChanInv => InOrder
  BY DEF ChanInv
<1> QED
  BY <1>1, ChanInvInit, ChanInvNext, PTL DEF ChanSpec

\* Whatever implements the channel delivers no event twice and none after a
\* later one of the same sub-HAL.
THEOREM ChannelMovesForward ==
  ASSUME MaxPost \in Nat
  PROVE  ChanSpec => DeliveredForward
<1>1. ChanInv => (ChanDeliver => lastRead'[Head(channel).src] > lastRead[Head(channel).src])
  BY ChanInvDeliver
<1>2. ChanInv /\ [ChanNext]_chanVars =>
        [ChanDeliver => lastRead'[Head(channel).src] > lastRead[Head(channel).src]]_chanVars
  BY <1>1
<1> QED
  BY <1>2, ChanInvInit, ChanInvNext, PTL DEF ChanSpec, DeliveredForward
=============================================================================
