------------------------ MODULE HalProxyControlProofs -----------------------
(***************************************************************************)
(* Theorems about HalProxyControl, for all libraries, sensors and handles. *)
(***************************************************************************)
EXTENDS HalProxyControl, TLAPS

\* Setting the index of a clear handle can be undone.
LEMMA HandleArithmetic ==
  ASSUME NEW h \in Nat, subHalIndexIsClear(h), NEW i \in Nat
  PROVE  /\ setSubHalIndex(h, i) \in Nat
         /\ extractSubHalIndex(setSubHalIndex(h, i)) = i
         /\ clearSubHalIndex(setSubHalIndex(h, i)) = h
  BY SMT DEF subHalIndexIsClear, setSubHalIndex, IndexUnit, extractSubHalIndex,
             clearSubHalIndex

\* A handle is made of its index and the rest.
LEMMA HandleParts ==
  ASSUME NEW h \in Int
  PROVE  /\ extractSubHalIndex(h) \in Int
         /\ clearSubHalIndex(h) \in Nat /\ subHalIndexIsClear(clearSubHalIndex(h))
         /\ setSubHalIndex(clearSubHalIndex(h), extractSubHalIndex(h)) = h
<1>1. extractSubHalIndex(h) \in Int
  BY SMT DEF IndexUnit, extractSubHalIndex
<1>2. clearSubHalIndex(h) \in Nat /\ clearSubHalIndex(h) < 16777216
  BY SMT DEF IndexUnit, clearSubHalIndex
<1>3. h = (h % 16777216) + 16777216 * (h \div 16777216)
  BY SMT
<1>4. setSubHalIndex(clearSubHalIndex(h), extractSubHalIndex(h)) = h
  BY <1>3, SMT DEF setSubHalIndex, clearSubHalIndex, extractSubHalIndex, IndexUnit
<1> QED BY <1>1, <1>2, <1>4, SMT DEF subHalIndexIsClear, IndexUnit

\* A map with sensors put in holds them, and what it held under other handles.
LEMMA PutCases ==
  ASSUME NEW map, NEW S, NEW h \in DOMAIN Put(map, S)
  PROVE  \/ Put(map, S)[h] \in S /\ Put(map, S)[h].handle = h
         \/ h \in DOMAIN map /\ Put(map, S)[h] = map[h] /\ \A s \in S : s.handle # h
<1>1. CASE \E s \in S : s.handle = h
  <2>1. Put(map, S)[h] = CHOOSE s \in S : s.handle = h
    BY <1>1 DEF Put
  <2> QED BY <1>1, <2>1
<1>2. CASE ~ \E s \in S : s.handle = h
  <2>1. h \in DOMAIN map /\ Put(map, S)[h] = map[h]
    BY <1>2 DEF Put
  <2> QED BY <1>2, <2>1
<1> QED BY <1>1, <1>2

\* It is a map.
LEMMA PutMap ==
  ASSUME NEW map, IsMap(map), NEW S \in SUBSET SensorInfo
  PROVE  IsMap(Put(map, S)) /\ DOMAIN Put(map, S) = DOMAIN map \cup {s.handle : s \in S}
<1> DEFINE P == Put(map, S)
<1>1. DOMAIN P = DOMAIN map \cup {s.handle : s \in S}
  BY DEF Put
<1>2. DOMAIN P \subseteq Nat
  BY <1>1 DEF IsMap, SensorInfo
<1>3. P = [h \in DOMAIN P |-> P[h]]
  BY <1>1 DEF Put
<1>4. \A h \in DOMAIN P : P[h] \in S \/ (h \in DOMAIN map /\ P[h] = map[h])
  BY PutCases
<1>5. \A h \in DOMAIN P : P[h] \in SensorInfo
  BY <1>4 DEF IsMap
<1> QED BY <1>1, <1>2, <1>3, <1>5 DEF IsMap
-----------------------------------------------------------------------------
LEMMA SubHalFile ==
  ASSUME mSubHalList \in Seq(File), NEW i \in 0..(Len(mSubHalList) - 1)
  PROVE  SubHal(i) \in File /\ SubHal(i) \in Loaded
  BY DEF SubHal, Loaded

LEMMA AskedInt ==
  ASSUME TypeOK
  PROVE  Asked \subseteq Int
<1>1. \A s \in getSensorsList_2_1 \cup known : s \in SensorInfo
  BY DEF TypeOK, getSensorsList_2_1, IsMap
<1>2. \A s \in SensorInfo : s.handle \in Int
  BY DEF SensorInfo
<1> QED BY <1>1, <1>2, ControlAssumption DEF Asked

CallOps == {"control", "inject", "direct"}

LEMMA CallTypes ==
  ASSUME NEW op \in CallOps, NEW h \in Int
  PROVE  /\ Rejected(op, h) \in Call
         /\ \A lib \in File, g \in Int : Delivered(op, h, lib, g) \in Call
  BY DEF Delivered, Rejected, Call, CallOps

LEMMA NoCallType == NoCall \in Call
  BY DEF NoCall, Rejected, Call

LEMMA NoReportType ==
  NoReport \in [kind : {"none", "connected", "disconnected"}, sensors : SUBSET SensorInfo]
  BY DEF NoReport

LEMMA EmptyMap == IsMap([h \in {} |-> {}])
  BY DEF IsMap

\* A sensor whose handle got an index, and other fields changed, is a sensor.
LEMMA IndexedSensor ==
  ASSUME NEW s \in SensorInfo, NEW i \in Nat, subHalIndexIsClear(s.handle)
  PROVE  /\ [s EXCEPT !.handle = setSubHalIndex(@, i)] \in SensorInfo
         /\ \A owner : Listed(s, owner, i) \in SensorInfo
<1>1. s.handle \in Nat
  BY DEF SensorInfo
<1>2. setSubHalIndex(s.handle, i) \in Nat
  BY <1>1, HandleArithmetic
<1>3. ASSUME NEW owner
      PROVE  DirectFlag(s, owner, i) \in BOOLEAN
  BY DEF DirectFlag, SensorInfo
<1> QED BY <1>2, <1>3 DEF SensorInfo, Listed, Type

LEMMA TypeInit == Init => TypeOK
  BY ControlAssumption, EmptyMap, NoCallType, NoReportType, SMT
     DEF Init, TypeOK, Mode, NORMAL, NoSubHal

LEMMA TypeCalls ==
  ASSUME TypeOK, NEW h \in Asked, CallSensor(h)
  PROVE  TypeOK'
<1>1. h \in Int
  BY AskedInt
<1>2. clearSubHalIndex(h) \in Int /\ clearSubHalIndex(h) \in Nat
  BY <1>1, HandleParts
<1>3. isSubHalIndexValid(h) => getSubHalForSensorHandle(h) \in File
  BY SubHalFile DEF isSubHalIndexValid, getSubHalForSensorHandle, TypeOK
<1>4. mDirectChannelSubHal # NoSubHal => SubHal(mDirectChannelSubHal) \in File
  BY SubHalFile DEF TypeOK
<1>5. UNCHANGED <<initVars, listVars, modeVars, dynVars, faulty>>
  BY DEF CallSensor, batchOrFlush, activate, injectSensorData, configDirectReport
<1>6. call' \in Call
  <2>1. \A op \in CallOps : Rejected(op, h) \in Call
    BY <1>1, CallTypes
  <2>2. isSubHalIndexValid(h) => \A op \in CallOps :
          Delivered(op, h, getSubHalForSensorHandle(h), clearSubHalIndex(h)) \in Call
    BY <1>1, <1>2, <1>3, CallTypes
  <2>3. mDirectChannelSubHal # NoSubHal => \A g \in Int :
          Delivered("direct", h, SubHal(mDirectChannelSubHal), g) \in Call
    BY <1>1, <1>4, CallTypes DEF CallOps
  <2>4. CASE batchOrFlush(h)
    BY <2>1, <2>2, <2>4 DEF batchOrFlush, CallOps
  <2>5. CASE \E b \in BOOLEAN : activate(h, b)
    BY <2>1, <2>2, <2>5 DEF activate, CallOps
  <2>6. CASE \E b \in BOOLEAN : injectSensorData(h, b)
    BY <2>1, <2>2, <2>6 DEF injectSensorData, CallOps
  <2>7. CASE \E b \in BOOLEAN : configDirectReport(h, b)
    BY <1>1, <1>2, <2>1, <2>3, <2>7 DEF configDirectReport, CallOps
  <2> QED BY <2>4, <2>5, <2>6, <2>7, Zenon DEF CallSensor
<1>7. enabled' \in [File -> SUBSET Nat]
  <2>1. CASE batchOrFlush(h) \/ \E b \in BOOLEAN : injectSensorData(h, b) \/ configDirectReport(h, b)
    BY <2>1 DEF batchOrFlush, injectSensorData, configDirectReport, TypeOK
  <2>2. ASSUME NEW b \in BOOLEAN, activate(h, b)
        PROVE  enabled' \in [File -> SUBSET Nat]
    BY <2>2, <1>2, <1>3 DEF activate, Enable, TypeOK
  <2> QED BY <2>1, <2>2 DEF CallSensor
<1> QED BY <1>5, <1>6, <1>7 DEF TypeOK, initVars, listVars, modeVars, dynVars

LEMMA TypeConstructor ==
  ASSUME TypeOK, Constructor, call' = NoCall
  PROVE  TypeOK'
<1>1. CASE LoadSubHal
  BY <1>1, NoCallType DEF LoadSubHal, TypeOK, initVars, modeVars, dynVars, IsMap
<1>2. CASE LoadDone
  BY <1>2, NoCallType DEF LoadDone, TypeOK, listVars, modeVars, dynVars, IsMap
<1>3. CASE ListSensors
  <2> DEFINE accepted == {s \in Static[SubHal(next)] : subHalIndexIsClear(s.handle)}
             owner == IF mDirectChannelSubHal = NoSubHal /\ \E s \in accepted : s.direct
                      THEN next ELSE mDirectChannelSubHal
             new == {Listed(s, owner, next) : s \in accepted}
  <2>1. next \in 0..(Len(mSubHalList) - 1) /\ next \in Nat
    BY <1>3 DEF ListSensors, TypeOK
  <2>2. accepted \subseteq SensorInfo
    BY <2>1, SubHalFile, ControlAssumption DEF TypeOK
  <2>3. new \subseteq SensorInfo
    <3>1. \A s \in accepted : s \in SensorInfo /\ subHalIndexIsClear(s.handle)
      BY <2>2
    <3> HIDE DEF accepted, owner
    <3> QED BY <3>1, <2>1, IndexedSensor
  <2>4. IsMap(mSensors') /\ mDirectChannelSubHal' = owner
    <3>1. mSensors' = Put(mSensors, new) /\ mDirectChannelSubHal' = owner
      BY <1>3 DEF ListSensors
    <3> QED BY <3>1, <2>3, PutMap DEF TypeOK
  <2>5. mDirectChannelSubHal' \in {NoSubHal} \cup 0..(Len(mSubHalList) - 1)
    BY <2>1, <2>4 DEF TypeOK
  <2>6. next' \in 0..Len(mSubHalList)
    BY <2>1, <1>3 DEF ListSensors, TypeOK
  <2> QED BY <1>3, <2>4, <2>5, <2>6, NoCallType
          DEF ListSensors, TypeOK, modeVars, dynVars
<1>4. CASE registerAsService
  BY <1>4, NoCallType DEF registerAsService, TypeOK, listVars, modeVars, dynVars, IsMap
<1> QED BY <1>1, <1>2, <1>3, <1>4 DEF Constructor

LEMMA TypeMode ==
  ASSUME TypeOK, NEW m \in Mode, setOperationMode(m), call' = NoCall
  PROVE  TypeOK'
<1>1. mode' \in [File -> Mode] /\ mCurrentOperationMode' \in Mode /\ faulty' \subseteq File
  <2>1. CASE /\ mode' = [f \in File |-> IF f \in Loaded THEN m ELSE mode[f]]
             /\ mCurrentOperationMode' = m
             /\ UNCHANGED faulty
    BY <2>1 DEF TypeOK
  <2>2. CASE \E k \in 0..(Len(mSubHalList) - 1) :
               LET flipped == {SubHal(i) : i \in 0..(k - 1)}
               IN  /\ \E stuck \in SUBSET (flipped \cap MayFail) :
                        /\ mode' = [f \in File |->
                             IF f \in SwitchBack(flipped, k) \ stuck THEN mCurrentOperationMode
                             ELSE IF f \in flipped THEN m ELSE mode[f]]
                        /\ faulty' = faulty \cup stuck
                   /\ UNCHANGED mCurrentOperationMode
    <3>1. PICK k \in 0..(Len(mSubHalList) - 1) :
            LET flipped == {SubHal(i) : i \in 0..(k - 1)}
            IN  /\ \E stuck \in SUBSET (flipped \cap MayFail) :
                     /\ mode' = [f \in File |->
                          IF f \in SwitchBack(flipped, k) \ stuck THEN mCurrentOperationMode
                          ELSE IF f \in flipped THEN m ELSE mode[f]]
                     /\ faulty' = faulty \cup stuck
                /\ UNCHANGED mCurrentOperationMode
      BY <2>2
    <3> DEFINE flipped == {SubHal(i) : i \in 0..(k - 1)}
               back == SwitchBack(flipped, k)
    <3>2. PICK stuck \in SUBSET (flipped \cap MayFail) :
            /\ mode' = [f \in File |->
                 IF f \in back \ stuck THEN mCurrentOperationMode
                 ELSE IF f \in flipped THEN m ELSE mode[f]]
            /\ faulty' = faulty \cup stuck
      BY <3>1
    <3> HIDE DEF flipped, back
    <3> QED BY <3>1, <3>2, ControlAssumption DEF TypeOK
  <2> QED BY <2>1, <2>2 DEF setOperationMode
<1> QED BY <1>1, NoCallType DEF setOperationMode, TypeOK, initVars, listVars, dynVars, IsMap

LEMMA TypeInitialize ==
  ASSUME TypeOK, initializeCommon, call' = NoCall
  PROVE  TypeOK'
<1>1. CASE disableAllSensors
  <2>1. enabled' \in [File -> SUBSET Nat] /\ faulty' \subseteq File
    BY <1>1, ControlAssumption DEF disableAllSensors, TypeOK
  <2> QED BY <1>1, <2>1, NoCallType DEF disableAllSensors, TypeOK, listVars, modeVars,
          dynVars, IsMap
<1>2. CASE InitClearDynamic
  BY <1>2, NoCallType, EmptyMap DEF InitClearDynamic, TypeOK, listVars, modeVars, IsMap
<1>3. CASE InitCallback
  BY <1>3, NoCallType DEF InitCallback, TypeOK, listVars, modeVars, IsMap
<1>4. CASE InitSubHal
  <2>1. SubHal(next) \in File
    BY <1>4, SubHalFile DEF InitSubHal, TypeOK
  <2>2. /\ mode' \in [File -> Mode] /\ enabled' \in [File -> SUBSET Nat]
        /\ faulty' \subseteq File
    BY <1>4, <2>1 DEF InitSubHal, TypeOK, Mode, NORMAL
  <2>3. next' \in 0..Len(mSubHalList)
    BY <1>4 DEF InitSubHal, TypeOK
  <2> QED BY <1>4, <2>2, <2>3, NoCallType DEF InitSubHal, TypeOK, listVars, dynVars, IsMap
<1>5. CASE InitDone
  BY <1>5, NoCallType DEF InitDone, TypeOK, listVars, dynVars, IsMap, Mode, NORMAL
<1> QED BY <1>1, <1>2, <1>3, <1>4, <1>5 DEF initializeCommon

ReportType == [kind : {"none", "connected", "disconnected"}, sensors : SUBSET SensorInfo]

LEMMA TypeConnect ==
  ASSUME TypeOK, NEW i \in 0..(Len(mSubHalList) - 1), NEW S \in SUBSET Dynamic[SubHal(i)],
         Connect(i, S), call' = NoCall
  PROVE  TypeOK'
<1> DEFINE added == {[s EXCEPT !.handle = setSubHalIndex(@, i)] :
                       s \in {t \in S : subHalIndexIsClear(t.handle)}}
<1>1. SubHal(i) \in File /\ i \in Nat
  BY SubHalFile DEF TypeOK
<1>2. S \subseteq SensorInfo
  BY <1>1, ControlAssumption
<1>3. added \subseteq SensorInfo
  BY <1>1, <1>2, IndexedSensor
<1>4. IsMap(mDynamicSensors')
  <2>1. mDynamicSensors' = Put(mDynamicSensors, added)
    BY DEF Connect
  <2> QED BY <2>1, <1>3, PutMap DEF TypeOK
<1>5. connected' \in [File -> SUBSET SensorInfo]
  BY <1>1, <1>2 DEF Connect, TypeOK
<1>6. report' \in [File -> ReportType]
  <2>1. [kind |-> "connected", sensors |-> added] \in ReportType
    BY <1>3 DEF ReportType
  <2>2. report' = [report EXCEPT ![SubHal(i)] = [kind |-> "connected", sensors |-> added]]
    BY DEF Connect
  <2> QED BY <2>1, <2>2, <1>1 DEF TypeOK, ReportType
<1> QED BY <1>4, <1>5, <1>6, NoCallType
        DEF Connect, TypeOK, initVars, listVars, modeVars, IsMap, ReportType

LEMMA EraseMap ==
  ASSUME NEW map, IsMap(map), NEW H
  PROVE  /\ IsMap(Erase(map, H)) /\ DOMAIN Erase(map, H) = DOMAIN map \ H
         /\ \A h \in DOMAIN map \ H : Erase(map, H)[h] = map[h]
  BY DEF IsMap, Erase

LEMMA TypeDisconnect ==
  ASSUME TypeOK, NEW i \in 0..(Len(mSubHalList) - 1), NEW S \in SUBSET Dynamic[SubHal(i)],
         Disconnect(i, S), call' = NoCall
  PROVE  TypeOK'
<1> DEFINE handles == {setSubHalIndex(s.handle, i) :
                         s \in {t \in S : subHalIndexIsClear(t.handle)}}
           removed == handles \cap DOMAIN mDynamicSensors
           gone == {mDynamicSensors[h] : h \in removed}
<1>1. SubHal(i) \in File /\ i \in Nat
  BY SubHalFile DEF TypeOK
<1>2. IsMap(mDynamicSensors')
  <2>1. mDynamicSensors' = Erase(mDynamicSensors, removed)
    BY DEF Disconnect
  <2> QED BY <2>1, EraseMap DEF TypeOK
<1>3. connected' \in [File -> SUBSET SensorInfo] /\ enabled' \in [File -> SUBSET Nat]
  BY <1>1 DEF Disconnect, TypeOK
<1>4. report' \in [File -> ReportType]
  <2>1. gone \subseteq SensorInfo
    BY DEF TypeOK, IsMap
  <2>2. [kind |-> "disconnected", sensors |-> gone] \in ReportType
    BY <2>1 DEF ReportType
  <2>3. report' = [report EXCEPT ![SubHal(i)] = [kind |-> "disconnected", sensors |-> gone]]
    BY DEF Disconnect
  <2> QED BY <2>2, <2>3, <1>1 DEF TypeOK, ReportType
<1> QED BY <1>2, <1>3, <1>4, NoCallType
        DEF Disconnect, TypeOK, initVars, listVars, modeVars, IsMap, ReportType

LEMMA TypeCount ==
  ASSUME TypeOK, NEW i \in 0..(Len(mSubHalList) - 1), NEW handle \in Nat,
         countNumWakeupEvents(i, handle), call' = NoCall
  PROVE  TypeOK'
<1>1. setSubHalIndex(handle, i) \in Nat
  BY SMT DEF setSubHalIndex, IndexUnit, TypeOK
<1>2. [name |-> NoName, handle |-> 0, type |-> "OTHER", direct |-> FALSE] \in SensorInfo
  BY DEF SensorInfo, NoName, Type
<1>3. IsMap(mSensors')
  BY <1>1, <1>2 DEF countNumWakeupEvents, TypeOK, IsMap
<1> QED BY <1>3, NoCallType DEF countNumWakeupEvents, TypeOK, initVars, modeVars, dynVars, IsMap

LEMMA TypeReport ==
  ASSUME TypeOK, NEW f \in File, Report(f), call' = NoCall
  PROVE  TypeOK'
<1>1. known' \subseteq SensorInfo
  BY DEF Report, TypeOK
<1>2. report' \in [File -> ReportType]
  BY NoReportType DEF Report, TypeOK, ReportType
<1> QED BY <1>1, <1>2, NoCallType DEF Report, TypeOK, initVars, listVars, modeVars, IsMap,
        ReportType

LEMMA TypeStep == TypeOK /\ [Next]_vars => TypeOK'
<1> SUFFICES ASSUME TypeOK, [Next]_vars PROVE TypeOK'
  OBVIOUS
<1>1. CASE \E h \in Asked : CallSensor(h)
  BY <1>1, TypeCalls
<1>2. CASE Constructor /\ call' = NoCall
  BY <1>2, TypeConstructor
<1>3. CASE initializeCommon /\ call' = NoCall
  BY <1>3, TypeInitialize
<1>4. CASE (\E m \in Mode : setOperationMode(m)) /\ call' = NoCall
  BY <1>4, TypeMode
<1>5. CASE (\E i \in 0..(Len(mSubHalList) - 1) : SubHalThread(i)) /\ call' = NoCall
  <2> PICK i \in 0..(Len(mSubHalList) - 1) : SubHalThread(i)
    BY <1>5
  <2>1. \A s \in Sensors(SubHal(i)) : s.handle \in Nat
    BY SubHalFile, ControlAssumption DEF TypeOK, Sensors, SensorInfo
  <2> QED BY <1>5, <2>1, TypeConnect, TypeDisconnect, TypeCount DEF SubHalThread
<1>6. CASE (\E f \in File : Report(f)) /\ call' = NoCall
  BY <1>6, TypeReport
<1>7. CASE UNCHANGED vars
  BY <1>7 DEF vars, TypeOK, initVars, listVars, modeVars, dynVars, IsMap
<1> QED BY <1>1, <1>2, <1>3, <1>4, <1>5, <1>6, <1>7 DEF Next

\* The types of the control state hold in every reachable state; in particular
\* the index of the direct channel sub-HAL is that of a loaded sub-HAL.
THEOREM ControlTypeCorrect == Spec => []TypeOK
  BY TypeInit, TypeStep, PTL DEF Spec
-----------------------------------------------------------------------------
(* The operation mode.                                                     *)

\* ModesAgree says nothing while initialize runs.  There, the sub-HALs that have
\* been initialized and did not fail are in NORMAL mode; and while libraries are
\* still being loaded, every library is in the current mode.
ModeInv ==
  /\ pc = "load" => \A f \in File : mode[f] = mCurrentOperationMode
  /\ pc \in {"list", "idle"} => \A f \in Loaded \ faulty : mode[f] = mCurrentOperationMode
  /\ pc = "subhals" =>
       \A i \in 0..(next - 1) : SubHal(i) \notin faulty => mode[SubHal(i)] = NORMAL

LEMMA ModeSwitch ==
  ASSUME TypeOK, ModeInv, NEW m \in Mode, setOperationMode(m)
  PROVE  ModeInv'
<1>1. pc = "idle" /\ pc' = "idle" /\ mSubHalList' = mSubHalList
  BY DEF setOperationMode, initVars, listVars
<1>2. Loaded' = Loaded
  BY <1>1 DEF Loaded
<1>3. Loaded \subseteq File
  BY DEF Loaded, TypeOK
<1>4. \A f \in Loaded \ faulty' : mode'[f] = mCurrentOperationMode'
  <2>1. CASE /\ mode' = [f \in File |-> IF f \in Loaded THEN m ELSE mode[f]]
             /\ mCurrentOperationMode' = m
    BY <1>3, <2>1
  <2>2. CASE \E k \in 0..(Len(mSubHalList) - 1) :
               LET flipped == {SubHal(i) : i \in 0..(k - 1)}
               IN  /\ \E stuck \in SUBSET (flipped \cap MayFail) :
                        /\ mode' = [f \in File |->
                             IF f \in SwitchBack(flipped, k) \ stuck THEN mCurrentOperationMode
                             ELSE IF f \in flipped THEN m ELSE mode[f]]
                        /\ faulty' = faulty \cup stuck
                   /\ UNCHANGED mCurrentOperationMode
    <3>1. PICK flipped, stuck :
            /\ mode' = [f \in File |->
                 IF f \in flipped \ stuck THEN mCurrentOperationMode
                 ELSE IF f \in flipped THEN m ELSE mode[f]]
            /\ faulty' = faulty \cup stuck
            /\ UNCHANGED mCurrentOperationMode
      BY <2>2 DEF SwitchBack
    <3> QED BY <1>1, <1>3, <3>1 DEF ModeInv
  <2> QED BY <2>1, <2>2 DEF setOperationMode
<1> QED BY <1>1, <1>2, <1>4 DEF ModeInv

LEMMA ModeInitialize ==
  ASSUME TypeOK, ModeInv, initializeCommon
  PROVE  ModeInv'
<1>1. mSubHalList' = mSubHalList
  BY DEF initializeCommon, disableAllSensors, InitClearDynamic, InitCallback, InitSubHal,
         InitDone, listVars
<1>2. CASE disableAllSensors \/ InitClearDynamic
  BY <1>2 DEF disableAllSensors, InitClearDynamic, ModeInv
<1>3. CASE InitCallback
  BY <1>3 DEF InitCallback, ModeInv
<1>4. CASE InitSubHal
  <2>1. next \in 0..(Len(mSubHalList) - 1) /\ SubHal(next) \in File
    BY <1>4, SubHalFile DEF InitSubHal, TypeOK
  <2>2. /\ pc = "subhals" /\ pc' = "subhals" /\ next' = next + 1
        /\ \A i \in Nat : SubHal(i)' = SubHal(i)
    BY <1>1, <1>4 DEF InitSubHal, SubHal
  <2>3. \A i \in 0..next : SubHal(i) \notin faulty' => mode'[SubHal(i)] = NORMAL
    <3>1. \A i \in 0..next : i = next \/ i \in 0..(next - 1)
      BY <2>1
    <3>2. \A i \in 0..(next - 1) : SubHal(i) \in File
      BY <2>1, SubHalFile DEF TypeOK
    <3>3. \A i \in 0..(next - 1) : SubHal(i) \notin faulty => mode[SubHal(i)] = NORMAL
      BY <2>2 DEF ModeInv
    <3>4. mode \in [File -> Mode]
      BY DEF TypeOK
    <3>5. CASE mode' = [mode EXCEPT ![SubHal(next)] = NORMAL] /\ faulty' = faulty \ {SubHal(next)}
      BY <2>1, <3>1, <3>2, <3>3, <3>4, <3>5
    <3>6. CASE faulty' = faulty \cup {SubHal(next)} /\ mode' = mode
      BY <3>1, <3>3, <3>6
    <3> QED BY <1>4, <3>5, <3>6 DEF InitSubHal
  <2>4. ((next + 1) - 1) = next
    BY <2>1
  <2>5. \A i \in 0..(next' - 1) : SubHal(i)' \notin faulty' => mode'[SubHal(i)'] = NORMAL
    BY <2>2, <2>3, <2>4
  <2> QED BY <2>2, <2>5 DEF ModeInv
<1>5. CASE InitDone
  <2>1. /\ pc' = "idle" /\ mCurrentOperationMode' = NORMAL /\ mode' = mode /\ faulty' = faulty
        /\ \A i \in 0..(Len(mSubHalList) - 1) : SubHal(i) \notin faulty => mode[SubHal(i)] = NORMAL
    BY <1>5 DEF InitDone, ModeInv
  <2>2. \A f \in Loaded : \E i \in 0..(Len(mSubHalList) - 1) : f = SubHal(i)
    <3> SUFFICES ASSUME NEW j \in DOMAIN mSubHalList
                 PROVE  \E i \in 0..(Len(mSubHalList) - 1) : mSubHalList[j] = SubHal(i)
      BY DEF Loaded
    <3>1. j \in 1..Len(mSubHalList)
      BY DEF TypeOK
    <3>2. j - 1 \in 0..(Len(mSubHalList) - 1) /\ (j - 1) + 1 = j
      BY <3>1 DEF TypeOK
    <3> QED BY <3>2 DEF SubHal
  <2>3. Loaded' = Loaded
    BY <1>1 DEF Loaded
  <2> QED BY <2>1, <2>2, <2>3 DEF ModeInv
<1> QED BY <1>2, <1>3, <1>4, <1>5 DEF initializeCommon

LEMMA ModeConstructor ==
  ASSUME TypeOK, ModeInv, Constructor
  PROVE  ModeInv'
<1>1. CASE LoadSubHal
  BY <1>1 DEF LoadSubHal, ModeInv, initVars, modeVars
<1>2. CASE LoadDone
  <2>1. Loaded' = Loaded /\ Loaded \subseteq File
    BY <1>2 DEF LoadDone, Loaded, listVars, TypeOK
  <2> QED BY <1>2, <2>1 DEF LoadDone, ModeInv, modeVars
<1>3. CASE ListSensors \/ registerAsService
  <2>1. Loaded' = Loaded
    BY <1>3 DEF ListSensors, registerAsService, Loaded, listVars
  <2> QED BY <1>3, <2>1 DEF ListSensors, registerAsService, ModeInv, modeVars
<1> QED BY <1>1, <1>2, <1>3 DEF Constructor

LEMMA ModeOther ==
  ASSUME ModeInv, UNCHANGED <<pc, next, mSubHalList, mode, mCurrentOperationMode, faulty>>
  PROVE  ModeInv'
<1>1. Loaded' = Loaded /\ \A i : SubHal(i)' = SubHal(i)
  BY DEF Loaded, SubHal
<1> QED BY <1>1 DEF ModeInv

LEMMA OtherSteps ==
  ASSUME NEW i, SubHalThread(i) \/ (\E f \in File : Report(f)) \/ (\E h \in Asked : CallSensor(h))
  PROVE  UNCHANGED <<pc, next, mSubHalList, mode, mCurrentOperationMode, faulty>>
<1>1. CASE SubHalThread(i)
  <2>1. ASSUME NEW S, Connect(i, S)
        PROVE  UNCHANGED <<initVars, listVars, modeVars, faulty>>
    BY <2>1, Zenon DEF Connect
  <2>2. ASSUME NEW S, Disconnect(i, S)
        PROVE  UNCHANGED <<initVars, listVars, modeVars, faulty>>
    BY <2>2, Zenon DEF Disconnect
  <2>3. ASSUME NEW h, countNumWakeupEvents(i, h)
        PROVE  UNCHANGED <<initVars, mSubHalList, modeVars, faulty>>
    BY <2>3, Zenon DEF countNumWakeupEvents
  <2> QED BY <1>1, <2>1, <2>2, <2>3 DEF SubHalThread, initVars, listVars, modeVars
<1>2. CASE \E f \in File : Report(f)
  BY <1>2 DEF Report, initVars, listVars, modeVars
<1>3. CASE \E h \in Asked : CallSensor(h)
  BY <1>3 DEF CallSensor, batchOrFlush, activate, injectSensorData, configDirectReport,
              initVars, listVars, modeVars
<1> QED BY <1>1, <1>2, <1>3

\* Between calls all sub-HALs that did as they were told are in the mode the
\* proxy believes them to be in, for any number of sub-HALs, wherever in the list
\* one of them refuses a mode or fails to be initialized.
THEOREM ModesAgreeAlways == Spec => []ModesAgree
<1>1. Init => ModeInv
  BY DEF Init, ModeInv, Loaded
<1>2. TypeOK /\ ModeInv /\ [Next]_vars => ModeInv'
  <2> SUFFICES ASSUME TypeOK, ModeInv, [Next]_vars PROVE ModeInv'
    OBVIOUS
  <2>1. CASE Constructor
    BY <2>1, ModeConstructor
  <2>2. CASE initializeCommon
    BY <2>2, ModeInitialize
  <2>3. CASE \E m \in Mode : setOperationMode(m)
    BY <2>3, ModeSwitch
  <2>4. CASE \/ \E i \in 0..(Len(mSubHalList) - 1) : SubHalThread(i)
             \/ (\E f \in File : Report(f)) \/ (\E h \in Asked : CallSensor(h))
    BY <2>4, OtherSteps, ModeOther
  <2>5. CASE UNCHANGED vars
    BY <2>5, ModeOther DEF vars, initVars, listVars, modeVars
  <2> QED BY <2>1, <2>2, <2>3, <2>4, <2>5 DEF Next
<1>3. ModeInv => ModesAgree
  BY DEF ModeInv, ModesAgree
<1> QED BY <1>1, <1>2, <1>3, ControlTypeCorrect, PTL DEF Spec
-----------------------------------------------------------------------------
(* Routing.                                                                *)

\* The handle of s leads to the sub-HAL that has a sensor of that name.
Routed(s) ==
  LET lib == getSubHalForSensorHandle(s.handle)
  IN  /\ isSubHalIndexValid(s.handle)
      /\ \E t \in Static[lib] \cup Dynamic[lib] :
           t.name = s.name /\ t.handle = clearSubHalIndex(s.handle)

\* All sensors anybody holds are routed (but for the entries that
\* countNumWakeupEvents adds), and only those of one sub-HAL are direct.
RouteInv ==
  /\ \A h \in DOMAIN mSensors : mSensors[h].name # NoName => Routed(mSensors[h])
  /\ \A h \in DOMAIN mDynamicSensors : Routed(mDynamicSensors[h])
  /\ \A f \in File : \A s \in report[f].sensors : Routed(s)
  /\ \A s \in known : Routed(s)

DirectInv ==
  \A h \in DOMAIN mSensors :
    mSensors[h].direct => extractSubHalIndex(mSensors[h].handle) = mDirectChannelSubHal

\* A sensor of sub-HAL i whose handle got the index i is routed.
LEMMA NewRouted ==
  ASSUME mSubHalList \in Seq(File), NEW i \in 0..(Len(mSubHalList) - 1),
         NEW s \in SensorInfo, s \in Static[SubHal(i)] \cup Dynamic[SubHal(i)],
         subHalIndexIsClear(s.handle),
         NEW r, r.handle = setSubHalIndex(s.handle, i), r.name = s.name
  PROVE  Routed(r) /\ extractSubHalIndex(r.handle) = i
<1>1. s.handle \in Nat /\ i \in Nat
  BY DEF SensorInfo
<1>2. extractSubHalIndex(r.handle) = i /\ clearSubHalIndex(r.handle) = s.handle
  BY <1>1, HandleArithmetic
<1> QED BY <1>2 DEF Routed, isSubHalIndexValid, getSubHalForSensorHandle

\* Only loading a library changes the list, at its end.
LEMMA RoutedKept ==
  ASSUME mSubHalList \in Seq(File), NEW s, Routed(s),
         \/ mSubHalList' = mSubHalList
         \/ \E f \in File : mSubHalList' = Append(mSubHalList, f)
  PROVE  Routed(s)'
<1> DEFINE e == extractSubHalIndex(s.handle)
<1>1. e \in 0..(Len(mSubHalList) - 1)
  BY DEF Routed, isSubHalIndexValid
<1>2. e \in 0..(Len(mSubHalList') - 1) /\ mSubHalList'[e + 1] = mSubHalList[e + 1]
  <2> HIDE DEF e
  <2> QED BY <1>1
<1> QED BY <1>2 DEF Routed, isSubHalIndexValid, getSubHalForSensorHandle, SubHal

LEMMA RouteList ==
  ASSUME TypeOK, RouteInv, DirectInv, ListSensors
  PROVE  RouteInv' /\ DirectInv'
<1> DEFINE accepted == {s \in Static[SubHal(next)] : subHalIndexIsClear(s.handle)}
           owner == IF mDirectChannelSubHal = NoSubHal /\ \E s \in accepted : s.direct
                    THEN next ELSE mDirectChannelSubHal
           new == {Listed(s, owner, next) : s \in accepted}
<1>1. /\ next \in 0..(Len(mSubHalList) - 1) /\ SubHal(next) \in File
      /\ mSubHalList' = mSubHalList
  BY SubHalFile DEF ListSensors, TypeOK
<1>2. accepted \subseteq SensorInfo
  BY <1>1, ControlAssumption
<1>3. ASSUME NEW n \in new
      PROVE  /\ n \in SensorInfo /\ Routed(n) /\ extractSubHalIndex(n.handle) = next
             /\ n.direct => owner = next
  <2>1. PICK s \in accepted : n = Listed(s, owner, next)
    BY <1>3
  <2>2. s \in SensorInfo /\ subHalIndexIsClear(s.handle) /\ s \in Static[SubHal(next)]
    BY <1>2, <2>1
  <2> HIDE DEF accepted, owner, new
  <2>3. n \in SensorInfo
    <3>1. Listed(s, owner, next) \in SensorInfo
      <4>1. next \in Nat
        BY <1>1
      <4> QED BY <4>1, <2>2, IndexedSensor, Zenon
    <3> QED BY <2>1, <3>1
  <2>4. /\ n.handle = setSubHalIndex(s.handle, next) /\ n.name = s.name
        /\ n.direct = DirectFlag(s, owner, next)
    BY <2>1, <2>2 DEF Listed, SensorInfo
  <2> QED BY <1>1, <2>2, <2>3, <2>4, NewRouted DEF DirectFlag, TypeOK
<1>4. mSensors' = Put(mSensors, new) /\ mDirectChannelSubHal' = owner
  BY DEF ListSensors
<1>5. new \subseteq SensorInfo
  BY <1>3
<1>6. \A h \in DOMAIN mSensors' :
        \/ mSensors'[h] \in new
        \/ h \in DOMAIN mSensors /\ mSensors'[h] = mSensors[h]
  <2> HIDE DEF new
  <2>1. \A h \in DOMAIN Put(mSensors, new) :
          \/ Put(mSensors, new)[h] \in new
          \/ h \in DOMAIN mSensors /\ Put(mSensors, new)[h] = mSensors[h]
    BY PutCases
  <2> QED BY <1>4, <2>1
<1>7. \A s : Routed(s) => Routed(s)'
  BY <1>1, RoutedKept DEF TypeOK
<1>8. RouteInv'
  <2> HIDE DEF new
  <2>1. UNCHANGED <<mDynamicSensors, report, known>>
    BY Zenon DEF ListSensors, dynVars
  <2> QED BY <1>3, <1>6, <1>7, <2>1 DEF RouteInv
<1>9. DirectInv'
  <2>1. \A h \in DOMAIN mSensors : extractSubHalIndex(mSensors[h].handle) # NoSubHal
    <3> SUFFICES ASSUME NEW h \in DOMAIN mSensors
                 PROVE  extractSubHalIndex(mSensors[h].handle) # NoSubHal
      OBVIOUS
    <3>1. mSensors[h].handle \in Nat
      BY DEF TypeOK, IsMap, SensorInfo
    <3> QED BY <3>1, SMT DEF extractSubHalIndex, NoSubHal, IndexUnit
  <2>2. owner # mDirectChannelSubHal => mDirectChannelSubHal = NoSubHal
    OBVIOUS
  <2> HIDE DEF new, owner
  <2> QED BY <1>3, <1>4, <1>6, <2>1, <2>2 DEF DirectInv
<1> QED BY <1>8, <1>9

LEMMA RouteConnect ==
  ASSUME TypeOK, RouteInv, NEW i \in 0..(Len(mSubHalList) - 1),
         NEW S \in SUBSET Dynamic[SubHal(i)], Connect(i, S)
  PROVE  RouteInv'
<1> DEFINE added == {[s EXCEPT !.handle = setSubHalIndex(@, i)] :
                       s \in {t \in S : subHalIndexIsClear(t.handle)}}
<1>1. SubHal(i) \in File /\ S \subseteq SensorInfo
  BY SubHalFile, ControlAssumption DEF TypeOK
<1>2. ASSUME NEW a \in added PROVE Routed(a)
  <2>1. PICK s \in S : /\ a = [s EXCEPT !.handle = setSubHalIndex(@, i)]
                       /\ subHalIndexIsClear(s.handle)
    BY <1>2, Zenon
  <2>2. s \in SensorInfo /\ s \in Dynamic[SubHal(i)]
    BY <1>1
  <2>3. a.handle = setSubHalIndex(s.handle, i) /\ a.name = s.name
    BY <2>1, <2>2 DEF SensorInfo
  <2> QED BY <2>1, <2>2, <2>3, NewRouted DEF TypeOK
<1>3. /\ mDynamicSensors' = Put(mDynamicSensors, added)
      /\ report' = [report EXCEPT ![SubHal(i)] = [kind |-> "connected", sensors |-> added]]
  BY Zenon DEF Connect
<1>4. UNCHANGED <<mSubHalList, mSensors, known>>
  BY Zenon DEF Connect, listVars
<1> HIDE DEF added
<1>5. \A s : Routed(s) => Routed(s)'
  BY <1>4, RoutedKept DEF TypeOK
<1>6. \A h \in DOMAIN Put(mDynamicSensors, added) :
        \/ Put(mDynamicSensors, added)[h] \in added
        \/ h \in DOMAIN mDynamicSensors /\ Put(mDynamicSensors, added)[h] = mDynamicSensors[h]
  BY PutCases
<1>7. \A h \in DOMAIN mDynamicSensors' : Routed(mDynamicSensors'[h])
  BY <1>2, <1>3, <1>6 DEF RouteInv
<1>8. \A f \in File : \A s \in report'[f].sensors : s \in added \/ s \in report[f].sensors
  BY <1>1, <1>3 DEF TypeOK
<1> QED BY <1>2, <1>4, <1>5, <1>7, <1>8 DEF RouteInv

LEMMA RouteDisconnect ==
  ASSUME TypeOK, RouteInv, NEW i \in 0..(Len(mSubHalList) - 1), NEW S, Disconnect(i, S)
  PROVE  RouteInv'
<1>1. PICK H \in SUBSET DOMAIN mDynamicSensors :
        /\ mDynamicSensors' = Erase(mDynamicSensors, H)
        /\ report' = [report EXCEPT ![SubHal(i)] =
             [kind |-> "disconnected", sensors |-> {mDynamicSensors[h] : h \in H}]]
  BY DEF Disconnect
<1>2. UNCHANGED <<mSubHalList, mSensors, known>> /\ SubHal(i) \in File
  BY SubHalFile DEF Disconnect, listVars, TypeOK
<1>3. \A s : Routed(s) => Routed(s)'
  BY <1>2, RoutedKept DEF TypeOK
<1>4. \A h \in DOMAIN mDynamicSensors' : Routed(mDynamicSensors'[h])
  BY <1>1 DEF RouteInv, Erase
<1>5. \A f \in File : \A s \in report'[f].sensors : Routed(s)
  BY <1>1, <1>2 DEF TypeOK, RouteInv
<1> QED BY <1>2, <1>3, <1>4, <1>5 DEF RouteInv

LEMMA RouteReport ==
  ASSUME TypeOK, RouteInv, NEW f \in File, Report(f)
  PROVE  RouteInv'
<1>1. UNCHANGED <<mSubHalList, mSensors, mDynamicSensors>>
  BY DEF Report, listVars
<1>2. known' \subseteq known \cup report[f].sensors
  BY DEF Report
<1>3. \A g \in File : report'[g].sensors \subseteq report[g].sensors
  BY DEF Report, TypeOK, NoReport
<1>4. \A s : Routed(s) => Routed(s)'
  BY <1>1, RoutedKept DEF TypeOK
<1> QED BY <1>1, <1>2, <1>3, <1>4 DEF RouteInv

\* The other steps report nothing new.
LEMMA RouteOther ==
  ASSUME TypeOK, RouteInv,
         \/ mSubHalList' = mSubHalList
         \/ \E f \in File : mSubHalList' = Append(mSubHalList, f),
         UNCHANGED <<mSensors, report>>,
         mDynamicSensors' = mDynamicSensors \/ DOMAIN mDynamicSensors' = {},
         known' \subseteq known
  PROVE  RouteInv'
<1>1. \A s : Routed(s) => Routed(s)'
  BY RoutedKept DEF TypeOK
<1> QED BY <1>1 DEF RouteInv

LEMMA RouteInitialize ==
  ASSUME TypeOK, RouteInv, initializeCommon
  PROVE  RouteInv' /\ UNCHANGED <<mSensors, mDirectChannelSubHal>>
<1>1. /\ UNCHANGED <<mSubHalList, mSensors, mDirectChannelSubHal, report>>
      /\ mDynamicSensors' = mDynamicSensors \/ DOMAIN mDynamicSensors' = {}
      /\ known' \subseteq known
  <2>1. CASE disableAllSensors \/ InitSubHal \/ InitDone
    BY <2>1 DEF disableAllSensors, InitSubHal, InitDone, listVars, dynVars
  <2>2. CASE InitClearDynamic
    BY <2>2 DEF InitClearDynamic, listVars
  <2>3. CASE InitCallback
    BY <2>3 DEF InitCallback, listVars
  <2> QED BY <2>1, <2>2, <2>3 DEF initializeCommon
<1> QED BY <1>1, RouteOther

LEMMA RouteCount ==
  ASSUME TypeOK, RouteInv, DirectInv, NEW i, NEW handle, countNumWakeupEvents(i, handle)
  PROVE  RouteInv' /\ DirectInv'
<1>1. UNCHANGED <<mSubHalList, mDirectChannelSubHal, mDynamicSensors, report, known>>
  BY DEF countNumWakeupEvents, dynVars
<1>2. \A h \in DOMAIN mSensors' :
        \/ mSensors'[h].name = NoName /\ ~ mSensors'[h].direct
        \/ h \in DOMAIN mSensors /\ mSensors'[h] = mSensors[h]
  BY DEF countNumWakeupEvents
<1>3. \A s : Routed(s) => Routed(s)'
  BY <1>1, RoutedKept DEF TypeOK
<1> QED BY <1>1, <1>2, <1>3 DEF RouteInv, DirectInv

LEMMA RouteStep ==
  ASSUME TypeOK, RouteInv, DirectInv, [Next]_vars
  PROVE  RouteInv' /\ DirectInv'
<1> USE DEF DirectInv
<1>1. CASE ListSensors
  BY <1>1, RouteList
<1>2. CASE LoadSubHal \/ LoadDone \/ registerAsService
  <2>1. /\ \/ mSubHalList' = mSubHalList
           \/ \E f \in File : mSubHalList' = Append(mSubHalList, f)
        /\ UNCHANGED <<mSensors, mDirectChannelSubHal, mDynamicSensors, report, known>>
    <3>1. CASE LoadSubHal
      BY <3>1 DEF LoadSubHal, dynVars, TypeOK
    <3>2. CASE LoadDone \/ registerAsService
      BY <3>2 DEF LoadDone, registerAsService, dynVars, listVars
    <3> QED BY <1>2, <3>1, <3>2
  <2> QED BY <2>1, RouteOther
<1>3. CASE initializeCommon
  BY <1>3, RouteInitialize
<1>4. CASE (\E m \in Mode : setOperationMode(m)) \/ (\E h \in Asked : CallSensor(h))
  <2>1. UNCHANGED <<mSubHalList, mSensors, mDirectChannelSubHal, mDynamicSensors, report, known>>
    <3>1. CASE \E m \in Mode : setOperationMode(m)
      BY <3>1 DEF setOperationMode, listVars, dynVars
    <3>2. CASE \E h \in Asked : CallSensor(h)
      BY <3>2 DEF CallSensor, batchOrFlush, activate, injectSensorData, configDirectReport,
                  listVars, dynVars
    <3> QED BY <1>4, <3>1, <3>2
  <2> QED BY <2>1, RouteOther
<1>5. CASE \E i \in 0..(Len(mSubHalList) - 1) : SubHalThread(i)
  <2> PICK i \in 0..(Len(mSubHalList) - 1) : SubHalThread(i)
    BY <1>5
  <2>1. ASSUME NEW S \in SUBSET Dynamic[SubHal(i)], Connect(i, S)
        PROVE  RouteInv' /\ DirectInv'
    <3>1. UNCHANGED <<mSensors, mDirectChannelSubHal>>
      BY <2>1, Zenon DEF Connect, listVars
    <3> QED BY <2>1, <3>1, RouteConnect
  <2>2. ASSUME NEW S \in SUBSET Dynamic[SubHal(i)], Disconnect(i, S)
        PROVE  RouteInv' /\ DirectInv'
    <3>1. UNCHANGED <<mSensors, mDirectChannelSubHal>>
      BY <2>2, Zenon DEF Disconnect, listVars
    <3> QED BY <2>2, <3>1, RouteDisconnect
  <2> QED BY <2>1, <2>2, RouteCount DEF SubHalThread
<1>6. CASE \E f \in File : Report(f)
  <2>1. UNCHANGED <<mSensors, mDirectChannelSubHal>>
    BY <1>6 DEF Report, listVars
  <2> QED BY <1>6, <2>1, RouteReport
<1>7. CASE UNCHANGED vars
  BY <1>7, RouteOther DEF vars, listVars, dynVars
<1> QED BY <1>1, <1>2, <1>3, <1>4, <1>5, <1>6, <1>7 DEF Next, Constructor

\* A call the framework makes goes where RouteInv says.
LEMMA CallRouted ==
  ASSUME TypeOK, RouteInv, DirectInv, NEW h \in Asked, CallSensor(h)
  PROVE  CallReachesSensor'
<1>1. UNCHANGED <<mSubHalList, mSensors, mDirectChannelSubHal, known>>
  BY DEF CallSensor, batchOrFlush, activate, injectSensorData, configDirectReport,
         listVars, dynVars
<1>2. SUFFICES ASSUME NEW s \in getSensorsList_2_1 \cup known,
                      call' # NoCall, call'.asked = s.handle, s.name # NoName,
                      call'.op = "direct" => s \in getSensorsList_2_1 /\ s.direct,
                      call'.op = "inject" => call'.delivered
               PROVE  /\ call'.delivered
                      /\ \E t \in Static[call'.lib] \cup Dynamic[call'.lib] :
                           t.name = s.name /\ t.handle = call'.handle
  BY <1>1 DEF CallReachesSensor, getSensorsList_2_1
<1>3. Routed(s) /\ s \in SensorInfo /\ s.handle \in Nat
  <2>1. Routed(s) /\ s \in SensorInfo
    BY <1>2 DEF RouteInv, getSensorsList_2_1, TypeOK, IsMap
  <2> QED BY <2>1 DEF SensorInfo
<1>4. ASSUME NEW op \in CallOps,
             call' = IF isSubHalIndexValid(h)
                     THEN Delivered(op, h, getSubHalForSensorHandle(h), clearSubHalIndex(h))
                     ELSE Rejected(op, h)
      PROVE  /\ call'.delivered
             /\ \E t \in Static[call'.lib] \cup Dynamic[call'.lib] :
                  t.name = s.name /\ t.handle = call'.handle
  <2>1. s.handle = h
    BY <1>2, <1>4 DEF Delivered, Rejected
  <2> QED BY <1>3, <1>4, <2>1 DEF Routed, Delivered
<1>5. CASE batchOrFlush(h)
  BY <1>4, <1>5 DEF batchOrFlush, CallOps
<1>6. CASE \E b \in BOOLEAN : activate(h, b)
  <2>1. call' = IF isSubHalIndexValid(h)
                THEN Delivered("control", h, getSubHalForSensorHandle(h), clearSubHalIndex(h))
                ELSE Rejected("control", h)
    BY <1>6 DEF activate
  <2> QED BY <1>4, <2>1 DEF CallOps
<1>7. CASE \E b \in BOOLEAN : injectSensorData(h, b)
  <2>1. \/ call' = Rejected("inject", h)
        \/ /\ isSubHalIndexValid(h)
           /\ call' = Delivered("inject", h, getSubHalForSensorHandle(h), clearSubHalIndex(h))
    BY <1>7 DEF injectSensorData
  <2>2. call' # Rejected("inject", h)
    BY <1>2 DEF Rejected
  <2> QED BY <1>4, <2>1, <2>2 DEF CallOps
<1>8. CASE \E b \in BOOLEAN : configDirectReport(h, b)
  <2>1. call'.op = "direct" /\ call'.asked = h
    BY <1>8 DEF configDirectReport, Delivered, Rejected
  <2>2. /\ s.handle = h /\ h \in Nat
        /\ extractSubHalIndex(h) = mDirectChannelSubHal
    BY <1>2, <1>3, <2>1 DEF getSensorsList_2_1, DirectInv
  <2>3. mDirectChannelSubHal # NoSubHal
    BY <2>2, SMT DEF extractSubHalIndex, NoSubHal, IndexUnit
  <2>4. h # -1
    BY <2>2
  <2>5. call' = Delivered("direct", h, getSubHalForSensorHandle(h), clearSubHalIndex(h))
    BY <1>8, <2>2, <2>3, <2>4, Zenon DEF configDirectReport, getSubHalForSensorHandle
  <2> QED BY <1>3, <2>2, <2>5 DEF Routed, Delivered
<1> QED BY <1>5, <1>6, <1>7, <1>8 DEF CallSensor

LEMMA RouteInit == Init => RouteInv /\ DirectInv /\ CallReachesSensor
  BY DEF Init, RouteInv, DirectInv, CallReachesSensor, NoReport

\* Every call for a sensor the framework was told of arrives at the sub-HAL that
\* has it, under its own handle, whatever libraries the config files name and
\* whichever of them can be used.
THEOREM CallsReachSensors == Spec => []CallReachesSensor
<1>1. TypeOK /\ RouteInv /\ DirectInv /\ [Next]_vars => RouteInv' /\ DirectInv'
  BY RouteStep
<1>2. TypeOK /\ RouteInv /\ DirectInv /\ CallReachesSensor /\ [Next]_vars => CallReachesSensor'
  <2> SUFFICES ASSUME TypeOK, RouteInv, DirectInv, CallReachesSensor, [Next]_vars
               PROVE  CallReachesSensor'
    OBVIOUS
  <2>1. CASE \E h \in Asked : CallSensor(h)
    BY <2>1, CallRouted
  <2>2. CASE call' = NoCall
    BY <2>2 DEF CallReachesSensor, NoCall
  <2>3. CASE UNCHANGED vars
    BY <2>3 DEF vars, listVars, dynVars, CallReachesSensor, getSensorsList_2_1
  <2> QED BY <2>1, <2>2, <2>3 DEF Next
<1> QED BY <1>1, <1>2, RouteInit, ControlTypeCorrect, PTL DEF Spec
-----------------------------------------------------------------------------
(* Dynamic sensors.                                                        *)

Indexed(t, i) == [t EXCEPT !.handle = setSubHalIndex(@, i)]

\* x is a dynamic sensor of sub-HAL number i as the proxy reports it.
From(x, i) ==
  \E t \in Dynamic[SubHal(i)] : subHalIndexIsClear(t.handle) /\ x = Indexed(t, i)

Origin(x) == \E i \in 0..(Len(mSubHalList) - 1) : From(x, i)

OriginInv ==
  /\ \A h \in DOMAIN mDynamicSensors :
       Origin(mDynamicSensors[h]) /\ mDynamicSensors[h].handle = h
  /\ \A f \in File : \A x \in report[f].sensors :
       Origin(x) /\ getSubHalForSensorHandle(x.handle) = f
  /\ \A x \in known : Origin(x)

LEMMA FromFacts ==
  ASSUME TypeOK, NEW i \in 0..(Len(mSubHalList) - 1), NEW x, From(x, i)
  PROVE  /\ extractSubHalIndex(x.handle) = i /\ getSubHalForSensorHandle(x.handle) = SubHal(i)
         /\ \E t \in Dynamic[SubHal(i)] : /\ x = Indexed(t, i) /\ x.direct = t.direct
                                          /\ t.handle = clearSubHalIndex(x.handle)
<1>1. SubHal(i) \in File /\ i \in Nat
  BY SubHalFile DEF TypeOK
<1>2. PICK t \in Dynamic[SubHal(i)] : subHalIndexIsClear(t.handle) /\ x = Indexed(t, i)
  BY DEF From
<1>3. t \in SensorInfo /\ t.handle \in Nat
  BY <1>1, ControlAssumption DEF SensorInfo
<1>4. x.handle = setSubHalIndex(t.handle, i) /\ x.direct = t.direct
  BY <1>2, <1>3 DEF Indexed, SensorInfo
<1>5. extractSubHalIndex(x.handle) = i /\ clearSubHalIndex(x.handle) = t.handle
  BY <1>1, <1>2, <1>3, <1>4, HandleArithmetic
<1> QED BY <1>2, <1>4, <1>5 DEF getSubHalForSensorHandle

\* A handle stands for one dynamic sensor.
LEMMA OriginUnique ==
  ASSUME TypeOK, NEW x, NEW y, Origin(x), Origin(y), x.handle = y.handle
  PROVE  x = y
<1>1. PICK i \in 0..(Len(mSubHalList) - 1) : From(x, i)
  BY DEF Origin
<1>2. PICK j \in 0..(Len(mSubHalList) - 1) : From(y, j)
  BY DEF Origin
<1>3. i = j /\ SubHal(i) \in File
  BY <1>1, <1>2, FromFacts, SubHalFile DEF TypeOK
<1>4. PICK t \in Dynamic[SubHal(i)] : x = Indexed(t, i) /\ t.handle = clearSubHalIndex(x.handle)
  BY <1>1, FromFacts
<1>5. PICK u \in Dynamic[SubHal(i)] : y = Indexed(u, i) /\ u.handle = clearSubHalIndex(y.handle)
  BY <1>2, <1>3, FromFacts
<1>6. t = u
  BY <1>3, <1>4, <1>5, ControlAssumption
<1> QED BY <1>4, <1>5, <1>6

\* Nobody holds a dynamic sensor before the list of sub-HALs is complete.
StartInv ==
  pc \in {"load", "list"} =>
    /\ inits = 0 /\ known = {} /\ DOMAIN mDynamicSensors = {}
    /\ \A f \in File : report[f] = NoReport

LEMMA OriginKept ==
  ASSUME mSubHalList' = mSubHalList
  PROVE  /\ \A x : Origin(x)' <=> Origin(x)
         /\ \A h : getSubHalForSensorHandle(h)' = getSubHalForSensorHandle(h)
<1>1. \A i : SubHal(i)' = SubHal(i)
  BY DEF SubHal
<1>2. \A x, i : From(x, i)' <=> From(x, i)
  BY <1>1 DEF From
<1> QED BY <1>1, <1>2 DEF Origin, getSubHalForSensorHandle

LEMMA OriginOther ==
  ASSUME TypeOK, OriginInv, UNCHANGED <<mSubHalList, report>>,
         mDynamicSensors' = mDynamicSensors \/ DOMAIN mDynamicSensors' = {},
         known' \subseteq known
  PROVE  OriginInv'
  BY OriginKept DEF OriginInv

\* What Connect does, in terms of Origin.
LEMMA ConnectFacts ==
  ASSUME TypeOK, OriginInv, NEW i \in 0..(Len(mSubHalList) - 1),
         NEW S \in SUBSET Dynamic[SubHal(i)], Connect(i, S)
  PROVE  \E added :
           /\ \A a \in added : From(a, i)
           /\ mDynamicSensors' = Put(mDynamicSensors, added)
           /\ report' = [report EXCEPT ![SubHal(i)] = [kind |-> "connected", sensors |-> added]]
           /\ DynamicSensors' = DynamicSensors \cup added
<1> DEFINE added == {[s EXCEPT !.handle = setSubHalIndex(@, i)] :
                       s \in {t \in S : subHalIndexIsClear(t.handle)}}
<1>1. \A a \in added : From(a, i)
  BY Zenon DEF From, Indexed
<1>2. /\ mDynamicSensors' = Put(mDynamicSensors, added)
      /\ report' = [report EXCEPT ![SubHal(i)] = [kind |-> "connected", sensors |-> added]]
  BY Zenon DEF Connect
<1> HIDE DEF added
<1> DEFINE P == Put(mDynamicSensors, added)
<1>3. DOMAIN P = DOMAIN mDynamicSensors \cup {s.handle : s \in added}
  BY DEF Put
<1>4. \A h \in DOMAIN P : \/ P[h] \in added /\ P[h].handle = h
                         \/ /\ h \in DOMAIN mDynamicSensors /\ P[h] = mDynamicSensors[h]
                            /\ \A s \in added : s.handle # h
  BY PutCases
<1>5. \A a \in added : Origin(a)
  BY <1>1 DEF Origin
<1> HIDE DEF P
<1>6. \A h \in DOMAIN P : P[h] \in DynamicSensors \cup added
  BY <1>4 DEF DynamicSensors
<1>7. \A a \in added : \E h \in DOMAIN P : a = P[h]
  <2> SUFFICES ASSUME NEW a \in added PROVE a.handle \in DOMAIN P /\ a = P[a.handle]
    OBVIOUS
  <2>1. a.handle \in DOMAIN P
    BY <1>3
  <2>2. P[a.handle] \in added /\ P[a.handle].handle = a.handle
    BY <1>4, <2>1
  <2> QED BY <1>5, <2>1, <2>2, OriginUnique
<1>8. \A d \in DynamicSensors : \E h \in DOMAIN P : d = P[h]
  <2> SUFFICES ASSUME NEW h \in DOMAIN mDynamicSensors
               PROVE  h \in DOMAIN P /\ mDynamicSensors[h] = P[h]
    BY DEF DynamicSensors
  <2>1. h \in DOMAIN P
    BY <1>3
  <2>2. Origin(mDynamicSensors[h]) /\ mDynamicSensors[h].handle = h
    BY DEF OriginInv
  <2>3. CASE P[h] \in added /\ P[h].handle = h
    BY <1>5, <2>1, <2>2, <2>3, OriginUnique
  <2> QED BY <1>4, <2>1, <2>3
<1>9. DynamicSensors' = {P[h] : h \in DOMAIN P}
  BY <1>2 DEF DynamicSensors, P
<1>10. DynamicSensors' = DynamicSensors \cup added
  BY <1>6, <1>7, <1>8, <1>9
<1> QED BY <1>1, <1>2, <1>10

LEMMA OriginConnect ==
  ASSUME TypeOK, OriginInv, NEW i \in 0..(Len(mSubHalList) - 1),
         NEW S \in SUBSET Dynamic[SubHal(i)], Connect(i, S)
  PROVE  OriginInv'
<1>1. PICK added :
        /\ \A a \in added : From(a, i)
        /\ mDynamicSensors' = Put(mDynamicSensors, added)
        /\ report' = [report EXCEPT ![SubHal(i)] = [kind |-> "connected", sensors |-> added]]
  BY ConnectFacts
<1>2. UNCHANGED <<mSubHalList, known>> /\ SubHal(i) \in File
  <2>1. UNCHANGED <<mSubHalList, known>>
    BY Zenon DEF Connect, listVars
  <2> QED BY <2>1, SubHalFile DEF TypeOK
<1>3. \A a \in added : Origin(a) /\ getSubHalForSensorHandle(a.handle) = SubHal(i)
  BY <1>1, FromFacts DEF Origin
<1>4. \A h \in DOMAIN mDynamicSensors' :
        Origin(mDynamicSensors'[h]) /\ mDynamicSensors'[h].handle = h
  <2>1. \A h \in DOMAIN Put(mDynamicSensors, added) :
          \/ /\ Put(mDynamicSensors, added)[h] \in added
             /\ Put(mDynamicSensors, added)[h].handle = h
          \/ h \in DOMAIN mDynamicSensors /\ Put(mDynamicSensors, added)[h] = mDynamicSensors[h]
    BY PutCases
  <2> QED BY <1>1, <1>3, <2>1 DEF OriginInv
<1>5. \A f \in File : \A x \in report'[f].sensors :
        Origin(x) /\ getSubHalForSensorHandle(x.handle) = f
  BY <1>1, <1>2, <1>3 DEF OriginInv, TypeOK
<1> QED BY <1>2, <1>4, <1>5, OriginKept DEF OriginInv

\* What Disconnect does.
LEMMA DisconnectFacts ==
  ASSUME TypeOK, OriginInv, NEW i \in 0..(Len(mSubHalList) - 1),
         NEW S \in SUBSET Dynamic[SubHal(i)], Disconnect(i, S)
  PROVE  \E gone \in SUBSET DynamicSensors :
           /\ \A x \in gone : getSubHalForSensorHandle(x.handle) = SubHal(i)
           /\ report' = [report EXCEPT ![SubHal(i)] =
                [kind |-> "disconnected", sensors |-> gone]]
           /\ DynamicSensors' = DynamicSensors \ gone
           /\ \A h \in DOMAIN mDynamicSensors' :
                h \in DOMAIN mDynamicSensors /\ mDynamicSensors'[h] = mDynamicSensors[h]
<1> DEFINE handles == {setSubHalIndex(s.handle, i) :
                         s \in {t \in S : subHalIndexIsClear(t.handle)}}
           H == handles \cap DOMAIN mDynamicSensors
           gone == {mDynamicSensors[h] : h \in H}
<1>1. /\ mDynamicSensors' = Erase(mDynamicSensors, H)
      /\ report' = [report EXCEPT ![SubHal(i)] = [kind |-> "disconnected", sensors |-> gone]]
  BY Zenon DEF Disconnect
<1>2. \A h \in H : getSubHalForSensorHandle(h) = SubHal(i)
  <2> SUFFICES ASSUME NEW h \in H PROVE extractSubHalIndex(h) = i
    BY DEF getSubHalForSensorHandle
  <2>1. PICK t \in S : subHalIndexIsClear(t.handle) /\ h = setSubHalIndex(t.handle, i)
    OBVIOUS
  <2>2. t \in SensorInfo
    BY SubHalFile, ControlAssumption DEF TypeOK
  <2>3. t.handle \in Nat /\ i \in Nat
    BY <2>2 DEF SensorInfo
  <2> QED BY <2>1, <2>3, HandleArithmetic
<1>3. \A h \in DOMAIN mDynamicSensors : mDynamicSensors[h].handle = h
  BY DEF OriginInv
<1>4. H \subseteq DOMAIN mDynamicSensors
  OBVIOUS
<1>5. gone \in SUBSET DynamicSensors
  BY DEF DynamicSensors
<1> HIDE DEF handles, H
<1>6. \A x \in gone : getSubHalForSensorHandle(x.handle) = SubHal(i)
  BY <1>2, <1>3, <1>4
<1>7. DynamicSensors' = DynamicSensors \ gone
  <2>1. DynamicSensors' = {mDynamicSensors[h] : h \in DOMAIN mDynamicSensors \ H}
    BY <1>1 DEF DynamicSensors, Erase
  <2>2. \A h \in DOMAIN mDynamicSensors : mDynamicSensors[h] \in gone <=> h \in H
    BY <1>3, <1>4
  <2> HIDE DEF gone
  <2> QED BY <2>1, <2>2 DEF DynamicSensors
<1>8. \A h \in DOMAIN mDynamicSensors' :
        h \in DOMAIN mDynamicSensors /\ mDynamicSensors'[h] = mDynamicSensors[h]
  BY <1>1 DEF Erase
<1> QED BY <1>1, <1>5, <1>6, <1>7, <1>8

LEMMA OriginDisconnect ==
  ASSUME TypeOK, OriginInv, NEW i \in 0..(Len(mSubHalList) - 1),
         NEW S \in SUBSET Dynamic[SubHal(i)], Disconnect(i, S)
  PROVE  OriginInv'
<1>1. PICK gone \in SUBSET DynamicSensors :
        /\ \A x \in gone : getSubHalForSensorHandle(x.handle) = SubHal(i)
        /\ report' = [report EXCEPT ![SubHal(i)] =
             [kind |-> "disconnected", sensors |-> gone]]
        /\ \A h \in DOMAIN mDynamicSensors' :
             h \in DOMAIN mDynamicSensors /\ mDynamicSensors'[h] = mDynamicSensors[h]
  BY DisconnectFacts
<1>2. UNCHANGED <<mSubHalList, known>> /\ SubHal(i) \in File
  <2>1. UNCHANGED <<mSubHalList, known>>
    BY Zenon DEF Disconnect, listVars
  <2> QED BY <2>1, SubHalFile DEF TypeOK
<1>3. \A x \in gone : Origin(x)
  BY <1>1 DEF OriginInv, DynamicSensors
<1>4. \A f \in File : \A x \in report'[f].sensors :
        Origin(x) /\ getSubHalForSensorHandle(x.handle) = f
  BY <1>1, <1>2, <1>3 DEF OriginInv, TypeOK
<1> QED BY <1>1, <1>2, <1>4, OriginKept DEF OriginInv

LEMMA OriginReport ==
  ASSUME TypeOK, OriginInv, NEW f \in File, Report(f)
  PROVE  OriginInv'
<1>1. UNCHANGED <<mSubHalList, mDynamicSensors>> /\ known' \subseteq known \cup report[f].sensors
  BY DEF Report, listVars
<1>2. \A g \in File : report'[g].sensors \subseteq report[g].sensors
  BY DEF Report, TypeOK, NoReport
<1> QED BY <1>1, <1>2, OriginKept DEF OriginInv

\* The steps that leave the list of sub-HALs and the dynamic sensors alone, or
\* clear the latter.
LEMMA QuietSteps ==
  ASSUME TypeOK, Constructor \/ initializeCommon \/ (\E m \in Mode : setOperationMode(m))
                 \/ (\E h \in Asked : CallSensor(h)) \/ UNCHANGED vars
  PROVE  /\ UNCHANGED report
         /\ mSubHalList' = mSubHalList \/ LoadSubHal
         /\ mDynamicSensors' = mDynamicSensors \/ DOMAIN mDynamicSensors' = {}
         /\ known' \subseteq known
<1>1. CASE Constructor
  <2>1. CASE LoadSubHal \/ LoadDone \/ registerAsService
    BY <2>1 DEF LoadSubHal, LoadDone, registerAsService, dynVars, listVars
  <2>2. CASE ListSensors
    BY <2>2, Zenon DEF ListSensors, dynVars
  <2> QED BY <1>1, <2>1, <2>2 DEF Constructor
<1>2. CASE initializeCommon
  BY <1>2 DEF initializeCommon, disableAllSensors, InitClearDynamic, InitCallback, InitSubHal,
              InitDone, listVars, dynVars
<1>3. CASE \E m \in Mode : setOperationMode(m)
  BY <1>3 DEF setOperationMode, listVars, dynVars
<1>4. CASE \E h \in Asked : CallSensor(h)
  BY <1>4 DEF CallSensor, batchOrFlush, activate, injectSensorData, configDirectReport,
              listVars, dynVars
<1>5. CASE UNCHANGED vars
  BY <1>5 DEF vars, listVars, dynVars
<1> QED BY <1>1, <1>2, <1>3, <1>4, <1>5

LEMMA OriginStep ==
  ASSUME TypeOK, StartInv, OriginInv, [Next]_vars
  PROVE  OriginInv'
<1>1. CASE LoadSubHal
  <2>1. /\ known' = {} /\ DOMAIN mDynamicSensors' = {}
        /\ \A f \in File : report'[f].sensors = {}
    BY <1>1 DEF LoadSubHal, StartInv, NoReport, dynVars
  <2> QED BY <2>1 DEF OriginInv
<1>2. CASE \/ Constructor \/ initializeCommon \/ (\E m \in Mode : setOperationMode(m))
           \/ (\E h \in Asked : CallSensor(h)) \/ UNCHANGED vars
  <2>1. CASE ~ LoadSubHal
    BY <1>2, <2>1, QuietSteps, OriginOther
  <2> QED BY <1>1, <2>1
<1>3. CASE \E i \in 0..(Len(mSubHalList) - 1) : SubHalThread(i)
  <2> PICK i \in 0..(Len(mSubHalList) - 1) : SubHalThread(i)
    BY <1>3
  <2>1. ASSUME NEW h, countNumWakeupEvents(i, h)
        PROVE  OriginInv'
    BY <2>1, OriginOther DEF countNumWakeupEvents, dynVars
  <2> QED BY <2>1, OriginConnect, OriginDisconnect DEF SubHalThread
<1>4. CASE \E f \in File : Report(f)
  BY <1>4, OriginReport
<1> QED BY <1>1, <1>2, <1>3, <1>4 DEF Next

LEMMA StartStep ==
  ASSUME TypeOK, StartInv, [Next]_vars
  PROVE  StartInv'
<1>1. CASE \/ Constructor \/ initializeCommon \/ (\E m \in Mode : setOperationMode(m))
           \/ (\E h \in Asked : CallSensor(h)) \/ UNCHANGED vars
  <2>1. pc' \in {"load", "list"} => pc \in {"load", "list"} /\ inits' = inits
    BY <1>1 DEF Constructor, LoadSubHal, LoadDone, ListSensors, registerAsService,
       initializeCommon, disableAllSensors, InitClearDynamic, InitCallback, InitSubHal,
       InitDone, setOperationMode, CallSensor, batchOrFlush, activate, injectSensorData,
       configDirectReport, vars, initVars
  <2> QED BY <1>1, <2>1, QuietSteps DEF StartInv
<1>2. CASE \E i \in 0..(Len(mSubHalList) - 1) : SubHalThread(i)
  <2> PICK i \in 0..(Len(mSubHalList) - 1) : SubHalThread(i)
    BY <1>2
  <2>1. ASSUME NEW S, Connect(i, S)
        PROVE  pc' = pc /\ inits' = inits /\ inits > 0
    BY <2>1, Zenon DEF Connect, MayReport, initVars
  <2>2. ASSUME NEW S, Disconnect(i, S)
        PROVE  pc' = pc /\ inits' = inits /\ inits > 0
    BY <2>2, Zenon DEF Disconnect, MayReport, initVars
  <2>3. ASSUME NEW h, countNumWakeupEvents(i, h)
        PROVE  StartInv'
    BY <2>3 DEF countNumWakeupEvents, initVars, dynVars, StartInv
  <2> QED BY <2>1, <2>2, <2>3 DEF SubHalThread, StartInv, TypeOK
<1>3. CASE \E f \in File : Report(f)
  BY <1>3 DEF Report, initVars, StartInv
<1> QED BY <1>1, <1>2, <1>3 DEF Next

\* If no dynamic sensor claims direct channels, only sensors of the one sub-HAL
\* that gets the direct channel calls are shown to the framework with them.
\* (Run control_direct shows that the assumption is needed.)
THEOREM OnlyOneDirectAlways ==
  ASSUME \A f \in File : \A s \in Dynamic[f] : ~ s.direct
  PROVE  Spec => []OnlyOneDirect
<1>1. Init => StartInv /\ OriginInv
  BY DEF Init, StartInv, OriginInv, NoReport
<1>2. TypeOK /\ StartInv /\ OriginInv /\ [Next]_vars => StartInv' /\ OriginInv'
  BY StartStep, OriginStep
<1>3. TypeOK /\ RouteInv /\ DirectInv /\ [Next]_vars => RouteInv' /\ DirectInv'
  BY RouteStep
<1>4. TypeOK /\ OriginInv /\ DirectInv => OnlyOneDirect
  <2> SUFFICES ASSUME TypeOK, OriginInv, DirectInv PROVE OnlyOneDirect
    OBVIOUS
  <2>1. ASSUME NEW x, Origin(x) PROVE ~ x.direct
    <3>1. PICK i \in 0..(Len(mSubHalList) - 1) : From(x, i)
      BY <2>1 DEF Origin
    <3>2. PICK t \in Dynamic[SubHal(i)] : x.direct = t.direct
      BY <3>1, FromFacts
    <3> QED BY <3>2, SubHalFile DEF TypeOK
  <2> QED BY <2>1 DEF OriginInv, DirectInv, OnlyOneDirect, getSensorsList_2_1
<1> QED BY <1>1, <1>2, <1>3, <1>4, RouteInit, ControlTypeCorrect, PTL DEF Spec

\* What the framework will know when the reports under way have arrived is what
\* mDynamicSensors holds; while initialize clears both, nothing is under way.
Pending(x) == \E f \in File : x \in report[f].sensors

InStep ==
  /\ \A x : Origin(x) /\ ~ Pending(x) => (x \in known <=> x \in DynamicSensors)
  /\ \A f \in File : \A x \in report[f].sensors :
       (report[f].kind = "connected" => x \in DynamicSensors)
       /\ (report[f].kind = "disconnected" => x \notin DynamicSensors)

KnownInv ==
  /\ \A f \in File : report[f].kind = "none" => report[f] = NoReport
  /\ pc \in {"idle", "clear"} => InStep
  /\ pc \in {"callback", "subhals"} =>
       DynamicSensors = {} /\ \A f \in File : report[f] = NoReport
  /\ pc = "subhals" => known = {}

LEMMA KnownConnect ==
  ASSUME TypeOK, OriginInv, KnownInv, QuietAtInit, NEW i \in 0..(Len(mSubHalList) - 1),
         NEW S \in SUBSET Dynamic[SubHal(i)], Connect(i, S)
  PROVE  KnownInv'
<1>1. PICK added :
        /\ \A a \in added : From(a, i)
        /\ report' = [report EXCEPT ![SubHal(i)] = [kind |-> "connected", sensors |-> added]]
        /\ DynamicSensors' = DynamicSensors \cup added
  BY ConnectFacts
<1>2. SubHal(i) \in File
  BY SubHalFile DEF TypeOK
<1>3. /\ UNCHANGED <<mSubHalList, known>> /\ pc = "idle" /\ pc' = "idle"
      /\ report[SubHal(i)] = NoReport
  BY Zenon DEF Connect, MayReport, initVars, listVars
<1>4. \A a \in added : getSubHalForSensorHandle(a.handle) = SubHal(i)
  BY <1>1, FromFacts
<1>5. /\ report'[SubHal(i)].kind = "connected" /\ report'[SubHal(i)].sensors = added
      /\ \A f \in File \ {SubHal(i)} : report'[f] = report[f]
  BY <1>1, <1>2 DEF TypeOK
<1>6. InStep
  BY <1>3 DEF KnownInv
<1>7. \A x : Origin(x)' => Origin(x)
  BY <1>3, OriginKept
<1>8. \A x : x \notin added /\ Pending(x) => Pending(x)'
  BY <1>2, <1>3, <1>5 DEF Pending, NoReport
<1>9. \A x : ~ Pending(x)' => x \notin added
  BY <1>2, <1>5 DEF Pending
<1>10. \A x : Origin(x)' /\ ~ Pending(x)' => (x \in known' <=> x \in DynamicSensors')
  BY <1>1, <1>3, <1>6, <1>7, <1>8, <1>9 DEF InStep
<1>11. ASSUME NEW f \in File, NEW x \in report'[f].sensors
       PROVE  /\ report'[f].kind = "connected" => x \in DynamicSensors'
              /\ report'[f].kind = "disconnected" => x \notin DynamicSensors'
  <2>1. CASE f = SubHal(i)
    BY <1>1, <1>5, <2>1
  <2>2. CASE f # SubHal(i)
    <3>1. report'[f] = report[f] /\ x \in report[f].sensors
      BY <1>5, <2>2, <1>11
    <3>2. x \notin added
      BY <1>4, <2>2, <3>1 DEF OriginInv
    <3> QED BY <1>1, <1>6, <3>1, <3>2 DEF InStep
  <2> QED BY <2>1, <2>2
<1>12. \A f \in File : report'[f].kind = "none" => report'[f] = NoReport
  BY <1>2, <1>5 DEF KnownInv
<1> QED BY <1>3, <1>10, <1>11, <1>12 DEF KnownInv, InStep, NoReport

LEMMA KnownDisconnect ==
  ASSUME TypeOK, OriginInv, KnownInv, QuietAtInit, NEW i \in 0..(Len(mSubHalList) - 1),
         NEW S \in SUBSET Dynamic[SubHal(i)], Disconnect(i, S)
  PROVE  KnownInv'
<1>1. PICK gone \in SUBSET DynamicSensors :
        /\ \A x \in gone : getSubHalForSensorHandle(x.handle) = SubHal(i)
        /\ report' = [report EXCEPT ![SubHal(i)] =
             [kind |-> "disconnected", sensors |-> gone]]
        /\ DynamicSensors' = DynamicSensors \ gone
  BY DisconnectFacts
<1>2. SubHal(i) \in File
  BY SubHalFile DEF TypeOK
<1>3. /\ UNCHANGED <<mSubHalList, known>> /\ pc = "idle" /\ pc' = "idle"
      /\ report[SubHal(i)] = NoReport
  BY Zenon DEF Disconnect, MayReport, initVars, listVars
<1>4. /\ report'[SubHal(i)].kind = "disconnected" /\ report'[SubHal(i)].sensors = gone
      /\ \A f \in File \ {SubHal(i)} : report'[f] = report[f]
  BY <1>1, <1>2 DEF TypeOK
<1>5. InStep
  BY <1>3 DEF KnownInv
<1>6. \A x : Origin(x)' => Origin(x)
  BY <1>3, OriginKept
<1>7. \A x : x \notin gone /\ Pending(x) => Pending(x)'
  BY <1>2, <1>3, <1>4 DEF Pending, NoReport
<1>8. \A x : ~ Pending(x)' => x \notin gone
  BY <1>2, <1>4 DEF Pending
<1>9. \A x : Origin(x)' /\ ~ Pending(x)' => (x \in known' <=> x \in DynamicSensors')
  BY <1>1, <1>3, <1>5, <1>6, <1>7, <1>8 DEF InStep
<1>10. ASSUME NEW f \in File, NEW x \in report'[f].sensors
       PROVE  /\ report'[f].kind = "connected" => x \in DynamicSensors'
              /\ report'[f].kind = "disconnected" => x \notin DynamicSensors'
  <2>1. CASE f = SubHal(i)
    BY <1>1, <1>4, <2>1
  <2>2. CASE f # SubHal(i)
    <3>1. report'[f] = report[f] /\ x \in report[f].sensors
      BY <1>4, <2>2, <1>10
    <3>2. x \notin gone
      BY <1>1, <2>2, <3>1 DEF OriginInv
    <3> QED BY <1>1, <1>5, <3>1, <3>2 DEF InStep
  <2> QED BY <2>1, <2>2
<1>11. \A f \in File : report'[f].kind = "none" => report'[f] = NoReport
  BY <1>2, <1>4 DEF KnownInv
<1> QED BY <1>3, <1>9, <1>10, <1>11 DEF KnownInv, InStep, NoReport

LEMMA KnownReport ==
  ASSUME TypeOK, OriginInv, KnownInv, StartInv, NEW f \in File, Report(f)
  PROVE  KnownInv'
<1>1. /\ UNCHANGED <<pc, mSubHalList, mDynamicSensors>> /\ report[f] # NoReport
      /\ report' = [report EXCEPT ![f] = NoReport]
  BY DEF Report, initVars, listVars
<1>2. DynamicSensors' = DynamicSensors
  BY <1>1 DEF DynamicSensors
<1>3. report'[f] = NoReport /\ \A g \in File \ {f} : report'[g] = report[g]
  BY <1>1 DEF TypeOK
<1>4. pc \in {"idle", "clear"} /\ InStep
  BY <1>1 DEF KnownInv, StartInv, TypeOK
<1>5. report[f].kind \in {"connected", "disconnected"}
  BY <1>1 DEF KnownInv, TypeOK
<1>6. \A x : Origin(x)' => Origin(x)
  BY <1>1, OriginKept
<1>7. ASSUME NEW x, Origin(x), ~ Pending(x)'
      PROVE  x \in known' <=> x \in DynamicSensors
  <2>1. CASE report[f].kind = "connected"
    <3>1. known' = known \cup report[f].sensors
      BY <2>1 DEF Report
    <3>2. CASE x \in report[f].sensors
      BY <1>4, <2>1, <3>1, <3>2 DEF InStep
    <3>3. CASE x \notin report[f].sensors
      <4>1. ~ Pending(x)
        BY <1>3, <1>7, <3>3 DEF Pending
      <4> QED BY <1>4, <1>7, <3>1, <3>3, <4>1 DEF InStep
    <3> QED BY <3>2, <3>3
  <2>2. CASE report[f].kind = "disconnected"
    <3>1. known' = {s \in known : \A t \in report[f].sensors : t.handle # s.handle}
      BY <2>2 DEF Report
    <3>2. CASE x \in report[f].sensors
      BY <1>4, <2>2, <3>1, <3>2 DEF InStep
    <3>3. CASE x \notin report[f].sensors
      <4>1. ~ Pending(x)
        BY <1>3, <1>7, <3>3 DEF Pending
      <4>2. \A t \in report[f].sensors : t.handle # x.handle
        BY <1>7, <3>3, OriginUnique DEF OriginInv
      <4> QED BY <1>4, <1>7, <3>1, <4>1, <4>2 DEF InStep
    <3> QED BY <3>2, <3>3
  <2> QED BY <1>5, <2>1, <2>2
<1>8. InStep'
  <2>1. \A g \in File : \A x \in report'[g].sensors :
          (report'[g].kind = "connected" => x \in DynamicSensors')
          /\ (report'[g].kind = "disconnected" => x \notin DynamicSensors')
    BY <1>2, <1>3, <1>4 DEF InStep, NoReport
  <2> QED BY <1>2, <1>6, <1>7, <2>1 DEF InStep
<1> QED BY <1>1, <1>3, <1>4, <1>8 DEF KnownInv, NoReport

\* Steps that change none of the dynamic sensors.
LEMMA InStepKept ==
  ASSUME InStep, UNCHANGED <<mSubHalList, mDynamicSensors, report, known>>
  PROVE  InStep'
<1>1. \A x : (Origin(x)' <=> Origin(x)) /\ (Pending(x)' <=> Pending(x))
  BY OriginKept DEF Pending
<1>2. DynamicSensors' = DynamicSensors
  BY DEF DynamicSensors
<1> QED BY <1>1, <1>2 DEF InStep

\* No dynamic sensor at all.
LEMMA InStepEmpty ==
  ASSUME known = {}, DOMAIN mDynamicSensors = {} \/ DynamicSensors = {},
         \A f \in File : report[f] = NoReport
  PROVE  InStep
  BY DEF InStep, DynamicSensors, NoReport

LEMMA KnownInitialize ==
  ASSUME TypeOK, KnownInv, QuietAtInit, initializeCommon
  PROVE  KnownInv'
<1>1. UNCHANGED <<mSubHalList, report>>
  BY DEF initializeCommon, disableAllSensors, InitClearDynamic, InitCallback, InitSubHal,
         InitDone, listVars, dynVars
<1>2. \A f \in File : report'[f].kind = "none" => report'[f] = NoReport
  BY <1>1 DEF KnownInv
<1>3. CASE disableAllSensors
  <2>1. pc = "idle" /\ pc' = "clear" /\ UNCHANGED <<mDynamicSensors, report, known>>
    BY <1>3 DEF disableAllSensors, dynVars
  <2> QED BY <1>1, <1>2, <2>1, InStepKept DEF KnownInv
<1>4. CASE InitClearDynamic
  <2>1. pc' = "callback" /\ mDynamicSensors' = [h \in {} |-> {}]
    BY <1>4 DEF InitClearDynamic
  <2>2. \A f \in File : report'[f] = NoReport
    BY <1>1, <1>4 DEF InitClearDynamic
  <2>3. DynamicSensors' = {}
    BY <2>1 DEF DynamicSensors
  <2> QED BY <1>2, <2>1, <2>2, <2>3 DEF KnownInv
<1>5. CASE InitCallback \/ InitSubHal
  <2>1. /\ pc \in {"callback", "subhals"} /\ pc' = "subhals" /\ mDynamicSensors' = mDynamicSensors
        /\ known' = {} \/ (pc = "subhals" /\ known' = known)
    BY <1>5 DEF InitCallback, InitSubHal, dynVars
  <2>2. DynamicSensors' = DynamicSensors
    BY <2>1 DEF DynamicSensors
  <2> QED BY <1>1, <1>2, <2>1, <2>2 DEF KnownInv
<1>6. CASE InitDone
  <2>1. pc = "subhals" /\ pc' = "idle" /\ UNCHANGED <<mDynamicSensors, report, known>>
    BY <1>6 DEF InitDone, dynVars
  <2>2. InStep
    BY <2>1, InStepEmpty DEF KnownInv
  <2> QED BY <1>1, <1>2, <2>1, <2>2, InStepKept DEF KnownInv
<1> QED BY <1>3, <1>4, <1>5, <1>6 DEF initializeCommon

LEMMA KnownOther ==
  ASSUME KnownInv, UNCHANGED <<pc, mSubHalList, mDynamicSensors, report, known>>
  PROVE  KnownInv'
<1>1. DynamicSensors' = DynamicSensors
  BY DEF DynamicSensors
<1> QED BY <1>1, InStepKept DEF KnownInv

LEMMA KnownConstructor ==
  ASSUME TypeOK, StartInv, KnownInv, Constructor
  PROVE  KnownInv'
<1>1. UNCHANGED <<mDynamicSensors, report, known>>
  <2>1. CASE ListSensors
    BY <2>1, Zenon DEF ListSensors, dynVars
  <2> QED BY <2>1 DEF Constructor, LoadSubHal, LoadDone, registerAsService, dynVars
<1>2. pc' \in {"load", "list"} \/ (pc = "list" /\ pc' = "idle" /\ mSubHalList' = mSubHalList)
  <2>1. CASE ListSensors
    BY <2>1, Zenon DEF ListSensors
  <2> QED BY <2>1 DEF Constructor, LoadSubHal, LoadDone, registerAsService, initVars, listVars
<1>3. CASE pc' \in {"load", "list"}
  BY <1>1, <1>3 DEF KnownInv
<1>4. CASE pc = "list" /\ pc' = "idle" /\ mSubHalList' = mSubHalList
  <2>1. InStep
    BY <1>4, InStepEmpty DEF StartInv
  <2> QED BY <1>1, <1>4, <2>1, InStepKept DEF KnownInv
<1> QED BY <1>2, <1>3, <1>4

LEMMA KnownStep ==
  ASSUME QuietAtInit, TypeOK, StartInv, OriginInv, KnownInv, [Next]_vars
  PROVE  KnownInv'
<1>1. CASE Constructor
  BY <1>1, KnownConstructor
<1>2. CASE initializeCommon
  BY <1>2, KnownInitialize
<1>3. CASE \/ (\E m \in Mode : setOperationMode(m))
           \/ (\E h \in Asked : CallSensor(h)) \/ UNCHANGED vars
  <2>1. CASE \E m \in Mode : setOperationMode(m)
    BY <2>1, KnownOther DEF setOperationMode, initVars, listVars, dynVars
  <2>2. CASE \E h \in Asked : CallSensor(h)
    BY <2>2, KnownOther DEF CallSensor, batchOrFlush, activate, injectSensorData,
       configDirectReport, initVars, listVars, dynVars
  <2>3. CASE UNCHANGED vars
    BY <2>3, KnownOther DEF vars, initVars, listVars, dynVars
  <2> QED BY <1>3, <2>1, <2>2, <2>3
<1>4. CASE \E i \in 0..(Len(mSubHalList) - 1) : SubHalThread(i)
  <2> PICK i \in 0..(Len(mSubHalList) - 1) : SubHalThread(i)
    BY <1>4
  <2>1. ASSUME NEW h, countNumWakeupEvents(i, h)
        PROVE  KnownInv'
    BY <2>1, KnownOther DEF countNumWakeupEvents, initVars, dynVars
  <2> QED BY <2>1, KnownConnect, KnownDisconnect DEF SubHalThread
<1>5. CASE \E f \in File : Report(f)
  BY <1>5, KnownReport
<1> QED BY <1>1, <1>2, <1>3, <1>4, <1>5 DEF Next

\* If no dynamic sensor is reported while initialize forgets the old ones, the
\* framework knows exactly the dynamic sensors of the proxy whenever no report is
\* under way, for any number of sub-HALs reporting at once.  (Run control_ghost
\* shows that the assumption is needed.)
THEOREM FrameworkKnowsDynamicAlways ==
  ASSUME QuietAtInit
  PROVE  Spec => []FrameworkKnowsDynamic
<1>1. Init => StartInv /\ OriginInv /\ KnownInv
  BY DEF Init, StartInv, OriginInv, KnownInv, NoReport
<1>2. TypeOK /\ StartInv /\ OriginInv /\ KnownInv /\ [Next]_vars
      => StartInv' /\ OriginInv' /\ KnownInv'
  BY StartStep, OriginStep, KnownStep
<1>3. OriginInv /\ KnownInv => FrameworkKnowsDynamic
  BY DEF OriginInv, KnownInv, InStep, Pending, FrameworkKnowsDynamic, Settled, DynamicSensors,
         NoReport
<1> QED BY <1>1, <1>2, <1>3, ControlTypeCorrect, PTL DEF Spec
-----------------------------------------------------------------------------
(* What disableAllSensors reaches.                                         *)

\* Once the list is built it has a key for every static sensor with a clear
\* handle, and what is found under a key has it as its handle, unless it is an
\* entry that countNumWakeupEvents added.
ListInv ==
  /\ pc = "load" => next = 0
  /\ \A i \in 0..(Len(mSubHalList) - 1) :
       pc \notin {"load", "list"} \/ (pc = "list" /\ i < next) =>
         \A s \in Static[SubHal(i)] :
           subHalIndexIsClear(s.handle) => setSubHalIndex(s.handle, i) \in DOMAIN mSensors
  /\ \A h \in DOMAIN mSensors : mSensors[h].handle \in {0, h}

\* A sub-HAL that reports sensors as disconnected does not have them any more.
GoneInv ==
  \A f \in File :
    /\ connected[f] \subseteq Dynamic[f]
    /\ report[f].kind = "disconnected" =>
         \A x \in report[f].sensors, t \in connected[f] : t.handle # clearSubHalIndex(x.handle)

\* Sensor h of sub-HAL f is one disableAllSensors goes through.
Reached(f, h) ==
  \E g \in AllHandles : getSubHalForSensorHandle(g) = f /\ clearSubHalIndex(g) = h

EnabledInv ==
  /\ pc \in {"load", "list"} => \A f \in File : enabled[f] = {}
  /\ pc = "idle" => \A f \in Loaded \ faulty : \A h \in enabled[f] : Reached(f, h)
  /\ pc \in {"clear", "callback", "subhals"} => \A f \in Loaded \ faulty : enabled[f] = {}

\* A step that leaves the list of sub-HALs alone and loses no key keeps ListInv.
LEMMA ListKept ==
  ASSUME TypeOK, ListInv, mSubHalList' = mSubHalList, DOMAIN mSensors \subseteq DOMAIN mSensors',
         \A h \in DOMAIN mSensors' : mSensors'[h].handle \in {0, h},
         pc' = "load" => pc = "load" /\ next' = next,
         pc' = "list" => (pc = "list" /\ next' = next) \/ (pc = "load" /\ next' = next),
         pc' \notin {"load", "list"} =>
           pc \notin {"load", "list"} \/ (pc = "list" /\ next = Len(mSubHalList))
  PROVE  ListInv'
<1>1. \A i : SubHal(i)' = SubHal(i)
  BY DEF SubHal
<1>2. pc' = "load" => next' = 0
  BY DEF ListInv
<1>3. ASSUME NEW i \in 0..(Len(mSubHalList) - 1),
             pc' \notin {"load", "list"} \/ (pc' = "list" /\ i < next')
      PROVE  pc \notin {"load", "list"} \/ (pc = "list" /\ i < next)
  <2>1. Len(mSubHalList) \in Nat
    BY DEF TypeOK
  <2> QED BY <1>3, <2>1 DEF ListInv
<1>4. ASSUME NEW i \in 0..(Len(mSubHalList) - 1),
             pc' \notin {"load", "list"} \/ (pc' = "list" /\ i < next'),
             NEW s \in Static[SubHal(i)], subHalIndexIsClear(s.handle)
      PROVE  setSubHalIndex(s.handle, i) \in DOMAIN mSensors'
  BY <1>3, <1>4 DEF ListInv
<1> QED BY <1>1, <1>2, <1>4 DEF ListInv

LEMMA ListByListing ==
  ASSUME TypeOK, ListInv, ListSensors
  PROVE  ListInv'
<1> DEFINE accepted == {s \in Static[SubHal(next)] : subHalIndexIsClear(s.handle)}
           owner == IF mDirectChannelSubHal = NoSubHal /\ \E s \in accepted : s.direct
                    THEN next ELSE mDirectChannelSubHal
           new == {Listed(s, owner, next) : s \in accepted}
<1>1. /\ next \in 0..(Len(mSubHalList) - 1) /\ next' = next + 1 /\ mSubHalList' = mSubHalList
      /\ pc = "list" /\ pc' = "list" /\ SubHal(next) \in File
  BY SubHalFile DEF ListSensors, TypeOK
<1>2. mSensors' = Put(mSensors, new)
  BY DEF ListSensors
<1>3. \A s \in accepted : s \in SensorInfo
  BY <1>1, ControlAssumption
<1>4. \A s \in accepted : Listed(s, owner, next).handle = setSubHalIndex(s.handle, next)
  <2> HIDE DEF accepted, owner
  <2> QED BY <1>3 DEF Listed, SensorInfo
<1>5. \A h \in DOMAIN mSensors' :
        \/ mSensors'[h].handle = h
        \/ h \in DOMAIN mSensors /\ mSensors'[h] = mSensors[h]
  <2> HIDE DEF new
  <2>1. \A h \in DOMAIN Put(mSensors, new) :
          \/ Put(mSensors, new)[h].handle = h
          \/ h \in DOMAIN mSensors /\ Put(mSensors, new)[h] = mSensors[h]
    BY PutCases
  <2> QED BY <1>2, <2>1
<1>6. DOMAIN mSensors' = DOMAIN mSensors \cup {n.handle : n \in new}
  BY <1>2 DEF Put
<1>7. \A s \in accepted : setSubHalIndex(s.handle, next) \in DOMAIN mSensors'
  <2>1. \A s \in accepted : Listed(s, owner, next) \in new
    OBVIOUS
  <2> HIDE DEF new, accepted, owner
  <2> QED BY <1>4, <1>6, <2>1
<1>8. \A i : SubHal(i)' = SubHal(i)
  BY <1>1 DEF SubHal
<1>9. ASSUME NEW i \in 0..(Len(mSubHalList) - 1), i < next + 1,
             NEW s \in Static[SubHal(i)], subHalIndexIsClear(s.handle)
      PROVE  setSubHalIndex(s.handle, i) \in DOMAIN mSensors'
  <2>1. CASE i = next
    BY <1>7, <1>9, <2>1
  <2>2. CASE i < next
    <3>1. setSubHalIndex(s.handle, i) \in DOMAIN mSensors
      BY <1>1, <1>9, <2>2 DEF ListInv
    <3> QED BY <1>6, <3>1
  <2> QED BY <1>1, <1>9, <2>1, <2>2
<1>10. \A h \in DOMAIN mSensors' : mSensors'[h].handle \in {0, h}
  BY <1>5 DEF ListInv
<1> HIDE DEF new, accepted, owner
<1> QED BY <1>1, <1>8, <1>9, <1>10 DEF ListInv

LEMMA ListStep ==
  ASSUME TypeOK, StartInv, ListInv, [Next]_vars
  PROVE  ListInv'
<1>1. CASE LoadSubHal
  BY <1>1 DEF LoadSubHal, initVars, ListInv
<1>2. CASE ListSensors
  BY <1>2, ListByListing
<1>3. CASE LoadDone \/ registerAsService \/ initializeCommon \/ UNCHANGED vars
           \/ (\E m \in Mode : setOperationMode(m)) \/ (\E h \in Asked : CallSensor(h))
  <2>1. UNCHANGED <<mSubHalList, mSensors>>
    BY <1>3 DEF LoadDone, registerAsService, initializeCommon, disableAllSensors,
       InitClearDynamic, InitCallback, InitSubHal, InitDone, setOperationMode, CallSensor,
       batchOrFlush, activate, injectSensorData, configDirectReport, vars, listVars
  <2>2. \A h \in DOMAIN mSensors' : mSensors'[h].handle \in {0, h}
    BY <2>1 DEF ListInv
  <2>3. CASE LoadDone \/ registerAsService
    BY <2>1, <2>2, <2>3, ListKept DEF LoadDone, registerAsService
  <2>4. CASE initializeCommon
    BY <2>1, <2>2, <2>4, ListKept DEF initializeCommon, disableAllSensors, InitClearDynamic,
       InitCallback, InitSubHal, InitDone
  <2>5. CASE UNCHANGED <<pc, next>>
    BY <2>1, <2>2, <2>5, ListKept
  <2> QED BY <1>3, <2>3, <2>4, <2>5 DEF setOperationMode, CallSensor, batchOrFlush, activate,
          injectSensorData, configDirectReport, vars, initVars
<1>4. CASE (\E i \in 0..(Len(mSubHalList) - 1) : SubHalThread(i)) \/ \E f \in File : Report(f)
  <2>1. UNCHANGED <<pc, next, mSubHalList>>
    BY <1>4, OtherSteps
  <2>2. \/ mSensors' = mSensors
        \/ \E h : /\ DOMAIN mSensors' = DOMAIN mSensors \cup {h}
                  /\ \A g \in DOMAIN mSensors' :
                       mSensors'[g].handle = 0 \/ (g \in DOMAIN mSensors /\ mSensors'[g] = mSensors[g])
    <3>1. ASSUME NEW i, NEW S, Connect(i, S) \/ Disconnect(i, S)
          PROVE  mSensors' = mSensors
      BY <3>1, Zenon DEF Connect, Disconnect, listVars
    <3>2. ASSUME NEW f, Report(f)
          PROVE  mSensors' = mSensors
      BY <3>2 DEF Report, listVars
    <3>3. ASSUME NEW i, NEW handle, countNumWakeupEvents(i, handle)
          PROVE  \/ mSensors' = mSensors
                 \/ \E h : /\ DOMAIN mSensors' = DOMAIN mSensors \cup {h}
                           /\ \A g \in DOMAIN mSensors' :
                                \/ mSensors'[g].handle = 0
                                \/ g \in DOMAIN mSensors /\ mSensors'[g] = mSensors[g]
      <4> DEFINE k == setSubHalIndex(handle, i)
      <4>1. CASE k \in DOMAIN mSensors
        BY <3>3, <4>1 DEF countNumWakeupEvents
      <4>2. CASE k \notin DOMAIN mSensors
        <5>1. mSensors' = [g \in DOMAIN mSensors \cup {k} |->
                             IF g = k THEN [name |-> NoName, handle |-> 0, type |-> "OTHER",
                                            direct |-> FALSE]
                             ELSE mSensors[g]]
          BY <3>3, <4>2 DEF countNumWakeupEvents
        <5> HIDE DEF k
        <5> QED BY <5>1
      <4> QED BY <4>1, <4>2
    <3> QED BY <1>4, <3>1, <3>2, <3>3 DEF SubHalThread
  <2>3. /\ DOMAIN mSensors \subseteq DOMAIN mSensors'
        /\ \A h \in DOMAIN mSensors' : mSensors'[h].handle \in {0, h}
    BY <2>2 DEF ListInv
  <2> QED BY <2>1, <2>3, ListKept
<1> QED BY <1>1, <1>2, <1>3, <1>4 DEF Next, Constructor

\* The sensors Disconnect(i, S) reports are those of S.
LEMMA DisconnectGone ==
  ASSUME TypeOK, OriginInv, NEW i \in 0..(Len(mSubHalList) - 1),
         NEW S \in SUBSET Dynamic[SubHal(i)], Disconnect(i, S)
  PROVE  /\ SubHal(i) \in File
         /\ connected' = [connected EXCEPT ![SubHal(i)] = @ \ S]
         /\ enabled' = [enabled EXCEPT ![SubHal(i)] = @ \ {s.handle : s \in S}]
         /\ \A g \in DOMAIN mDynamicSensors :
              \/ g \in DOMAIN mDynamicSensors'
              \/ /\ getSubHalForSensorHandle(g) = SubHal(i)
                 /\ \E s \in S : clearSubHalIndex(g) = s.handle
         /\ \A f \in File : f # SubHal(i) => report'[f] = report[f]
         /\ \A x \in report'[SubHal(i)].sensors : \E s \in S : clearSubHalIndex(x.handle) = s.handle
<1> DEFINE handles == {setSubHalIndex(s.handle, i) :
                         s \in {t \in S : subHalIndexIsClear(t.handle)}}
           H == handles \cap DOMAIN mDynamicSensors
           gone == {mDynamicSensors[h] : h \in H}
<1>1. /\ mDynamicSensors' = Erase(mDynamicSensors, H)
      /\ report' = [report EXCEPT ![SubHal(i)] = [kind |-> "disconnected", sensors |-> gone]]
      /\ connected' = [connected EXCEPT ![SubHal(i)] = @ \ S]
      /\ enabled' = [enabled EXCEPT ![SubHal(i)] = @ \ {s.handle : s \in S}]
  BY Zenon DEF Disconnect
<1>2. SubHal(i) \in File
  BY SubHalFile DEF TypeOK
<1>3. \A h \in H : /\ getSubHalForSensorHandle(h) = SubHal(i)
                   /\ \E s \in S : clearSubHalIndex(h) = s.handle
  <2> SUFFICES ASSUME NEW h \in H
               PROVE  extractSubHalIndex(h) = i /\ \E s \in S : clearSubHalIndex(h) = s.handle
    BY DEF getSubHalForSensorHandle
  <2>1. PICK t \in S : subHalIndexIsClear(t.handle) /\ h = setSubHalIndex(t.handle, i)
    OBVIOUS
  <2>2. t \in SensorInfo
    BY <1>2, ControlAssumption
  <2>3. t.handle \in Nat /\ i \in Nat
    BY <2>2 DEF SensorInfo
  <2> QED BY <2>1, <2>3, HandleArithmetic
<1>4. \A h \in H : h \in DOMAIN mDynamicSensors /\ mDynamicSensors[h].handle = h
  BY DEF OriginInv
<1> HIDE DEF H
<1>5. \A x \in gone : \E s \in S : clearSubHalIndex(x.handle) = s.handle
  BY <1>3, <1>4
<1>6. DOMAIN mDynamicSensors' = DOMAIN mDynamicSensors \ H
  BY <1>1 DEF Erase
<1> HIDE DEF gone
<1>7. /\ report'[SubHal(i)].sensors = gone
      /\ \A f \in File : f # SubHal(i) => report'[f] = report[f]
  BY <1>1, <1>2 DEF TypeOK
<1> QED BY <1>1, <1>2, <1>3, <1>5, <1>6, <1>7

LEMMA GoneStep ==
  ASSUME TypeOK, OriginInv, GoneInv, [Next]_vars
  PROVE  GoneInv'
<1>1. CASE UNCHANGED <<connected, report>>
  BY <1>1 DEF GoneInv
<1>2. ASSUME NEW f \in File, Report(f)
      PROVE  GoneInv'
  <2>1. connected' = connected /\ report' = [report EXCEPT ![f] = NoReport]
    BY <1>2 DEF Report
  <2>2. \A g \in File : report'[g] = NoReport \/ report'[g] = report[g]
    BY <2>1 DEF TypeOK
  <2> QED BY <2>1, <2>2 DEF GoneInv, NoReport
<1>3. ASSUME NEW i \in 0..(Len(mSubHalList) - 1), NEW S \in SUBSET Dynamic[SubHal(i)],
             Connect(i, S)
      PROVE  GoneInv'
  <2>1. PICK r : /\ report' = [report EXCEPT ![SubHal(i)] = r] /\ r.kind = "connected"
                 /\ connected' = [connected EXCEPT ![SubHal(i)] = @ \cup S]
    <3> DEFINE added == {[s EXCEPT !.handle = setSubHalIndex(@, i)] :
                           s \in {t \in S : subHalIndexIsClear(t.handle)}}
    <3>1. /\ report' = [report EXCEPT ![SubHal(i)] = [kind |-> "connected", sensors |-> added]]
          /\ connected' = [connected EXCEPT ![SubHal(i)] = @ \cup S]
      BY <1>3, Zenon DEF Connect
    <3> HIDE DEF added
    <3>2. [kind |-> "connected", sensors |-> added].kind = "connected"
      OBVIOUS
    <3> QED BY <3>1, <3>2
  <2>2. SubHal(i) \in File
    BY SubHalFile DEF TypeOK
  <2>3. ASSUME NEW f \in File
        PROVE  \/ f = SubHal(i) /\ report'[f] = r /\ connected'[f] = connected[f] \cup S
               \/ f # SubHal(i) /\ report'[f] = report[f] /\ connected'[f] = connected[f]
    BY <2>1, <2>2 DEF TypeOK
  <2> QED BY <2>1, <2>3 DEF GoneInv
<1>4. ASSUME NEW i \in 0..(Len(mSubHalList) - 1), NEW S \in SUBSET Dynamic[SubHal(i)],
             Disconnect(i, S)
      PROVE  GoneInv'
  <2>1. /\ SubHal(i) \in File
        /\ connected' = [connected EXCEPT ![SubHal(i)] = @ \ S]
        /\ \A f \in File : f # SubHal(i) => report'[f] = report[f]
        /\ \A x \in report'[SubHal(i)].sensors : \E s \in S : clearSubHalIndex(x.handle) = s.handle
    BY <1>4, DisconnectGone
  <2>2. connected \in [File -> SUBSET SensorInfo]
    BY DEF TypeOK
  <2>3. connected'[SubHal(i)] = connected[SubHal(i)] \ S
    BY <2>1, <2>2
  <2>4. \A f \in File : f # SubHal(i) => connected'[f] = connected[f]
    BY <2>1, <2>2
  <2>5. ASSUME NEW x \in report'[SubHal(i)].sensors, NEW t \in connected'[SubHal(i)]
        PROVE  t.handle # clearSubHalIndex(x.handle)
    <3>1. PICK s \in S : clearSubHalIndex(x.handle) = s.handle
      BY <2>1
    <3>2. t \in Dynamic[SubHal(i)] /\ t # s
      BY <2>1, <2>3 DEF GoneInv
    <3> QED BY <2>1, <3>1, <3>2, ControlAssumption
  <2>6. \A f \in File : connected'[f] \subseteq Dynamic[f]
    BY <2>1, <2>3, <2>4 DEF GoneInv
  <2>7. ASSUME NEW f \in File, f # SubHal(i), report'[f].kind = "disconnected",
               NEW x \in report'[f].sensors, NEW t \in connected'[f]
        PROVE  t.handle # clearSubHalIndex(x.handle)
    BY <2>1, <2>4, <2>7 DEF GoneInv
  <2> QED BY <2>5, <2>6, <2>7 DEF GoneInv
<1>5. ASSUME NEW i, NEW h, countNumWakeupEvents(i, h)
      PROVE  UNCHANGED <<connected, report>>
  BY <1>5 DEF countNumWakeupEvents, dynVars
<1>6. CASE Constructor \/ initializeCommon \/ UNCHANGED vars
           \/ (\E m \in Mode : setOperationMode(m)) \/ (\E h \in Asked : CallSensor(h))
  <2>1. UNCHANGED <<connected, report>>
    BY <1>6 DEF Constructor, LoadSubHal, LoadDone, ListSensors, registerAsService,
       initializeCommon, disableAllSensors, InitClearDynamic, InitCallback, InitSubHal,
       InitDone, setOperationMode, CallSensor, batchOrFlush, activate, injectSensorData,
       configDirectReport, vars, dynVars
  <2> QED BY <1>1, <2>1
<1> QED BY <1>1, <1>2, <1>3, <1>4, <1>5, <1>6 DEF Next, SubHalThread

\* What the framework may enable is what disableAllSensors goes through.
NoStrayHandles ==
  \A f \in File : \A s \in Dynamic[f] :
    s.handle # 0 /\ \A i \in Nat : setSubHalIndex(s.handle, i) \notin BadHandles

LEMMA ActivatedReached ==
  ASSUME NoStrayHandles, TypeOK, OriginInv, KnownInv, ListInv, GoneInv, pc = "idle",
         NEW g \in Asked, isSubHalIndexValid(g),
         \E s \in Sensors(getSubHalForSensorHandle(g)) : s.handle = clearSubHalIndex(g)
  PROVE  Reached(getSubHalForSensorHandle(g), clearSubHalIndex(g))
<1> DEFINE i == extractSubHalIndex(g)
           c == clearSubHalIndex(g)
           lib == SubHal(i)
<1>1. /\ i \in 0..(Len(mSubHalList) - 1) /\ i \in Nat /\ lib \in File
      /\ getSubHalForSensorHandle(g) = lib
  BY SubHalFile DEF isSubHalIndexValid, getSubHalForSensorHandle, TypeOK
<1>2. c \in Nat /\ subHalIndexIsClear(c) /\ setSubHalIndex(c, i) = g
  BY AskedInt, HandleParts
<1>3. ASSUME g \in AllHandles PROVE Reached(lib, c)
  BY <1>1, <1>3 DEF Reached
<1>4. CASE \E s \in Static[lib] : s.handle = c
  <2>1. g \in DOMAIN mSensors
    BY <1>1, <1>2, <1>4 DEF ListInv
  <2> QED BY <1>1, <1>3, <2>1 DEF AllHandles
<1>5. CASE \E t \in connected[lib] : t.handle = c
  <2>1. PICK t \in connected[lib] : t.handle = c
    BY <1>5
  <2>2. t \in Dynamic[lib]
    BY <1>1, <2>1 DEF GoneInv
  <2>3. g \notin BadHandles /\ c # 0
    BY <1>1, <1>2, <2>1, <2>2 DEF NoStrayHandles
  <2>4. CASE \E s \in getSensorsList_2_1 : s.handle = g
    <3>1. PICK h \in DOMAIN mSensors : mSensors[h].handle = g
      BY <2>4 DEF getSensorsList_2_1
    <3>2. g # 0
      BY <2>3, SMT DEF clearSubHalIndex, IndexUnit
    <3>3. g \in DOMAIN mSensors
      BY <3>1, <3>2 DEF ListInv
    <3> QED BY <1>1, <1>3, <3>3 DEF AllHandles
  <2>5. CASE \E x \in known : x.handle = g
    <3>1. PICK x \in known : x.handle = g
      BY <2>5
    <3>2. Origin(x)
      BY DEF OriginInv
    <3>3. \A f \in File : x \in report[f].sensors => f = lib
      BY <1>1, <3>1 DEF OriginInv
    <3>4. x \in report[lib].sensors => report[lib].kind # "disconnected"
      BY <1>1, <2>1, <3>1 DEF GoneInv
    <3>5. x \in report[lib].sensors => report[lib].kind # "none"
      BY <1>1 DEF KnownInv, NoReport
    <3>6. report[lib].kind \in {"none", "connected", "disconnected"}
      BY <1>1 DEF TypeOK
    <3>7. x \in DynamicSensors
      BY <1>1, <3>1, <3>2, <3>3, <3>4, <3>5, <3>6 DEF KnownInv, InStep, Pending
    <3>8. g \in DOMAIN mDynamicSensors
      BY <3>1, <3>7 DEF DynamicSensors, OriginInv
    <3> QED BY <1>1, <1>3, <3>8 DEF AllHandles
  <2> QED BY <2>3, <2>4, <2>5 DEF Asked
<1> QED BY <1>1, <1>4, <1>5 DEF Sensors

\* A step that enables nothing and loses no handle keeps EnabledInv.
LEMMA EnabledKept ==
  ASSUME EnabledInv, UNCHANGED <<pc, mSubHalList>>, AllHandles \subseteq AllHandles',
         \A f \in File : enabled'[f] \subseteq enabled[f],
         faulty \subseteq faulty', Loaded \subseteq File
  PROVE  EnabledInv'
<1>1. Loaded' = Loaded /\ \A f, h : Reached(f, h) => Reached(f, h)'
  BY DEF Loaded, Reached, getSubHalForSensorHandle, SubHal
<1>2. pc' \in {"load", "list"} => \A f \in File : enabled'[f] = {}
  BY DEF EnabledInv
<1>3. pc' = "idle" => \A f \in Loaded' \ faulty' : \A h \in enabled'[f] : Reached(f, h)'
  BY <1>1 DEF EnabledInv
<1>4. pc' \in {"clear", "callback", "subhals"} => \A f \in Loaded' \ faulty' : enabled'[f] = {}
  BY <1>1 DEF EnabledInv
<1> QED BY <1>2, <1>3, <1>4 DEF EnabledInv

LEMMA LoadedFiles ==
  ASSUME TypeOK
  PROVE  Loaded \subseteq File
  BY DEF Loaded, TypeOK

LEMMA EnabledCall ==
  ASSUME NoStrayHandles, TypeOK, OriginInv, KnownInv, ListInv, GoneInv, EnabledInv,
         NEW g \in Asked, CallSensor(g)
  PROVE  EnabledInv'
<1>1. UNCHANGED <<pc, mSubHalList, mSensors, mDynamicSensors, faulty>> /\ pc = "idle"
  BY DEF CallSensor, batchOrFlush, activate, injectSensorData, configDirectReport, initVars,
     listVars, dynVars
<1>2. AllHandles' = AllHandles
  BY <1>1 DEF AllHandles
<1>3. CASE enabled' = enabled
  BY <1>1, <1>2, <1>3, EnabledKept, LoadedFiles
<1>4. ASSUME NEW on \in BOOLEAN, activate(g, on), isSubHalIndexValid(g)
      PROVE  EnabledInv'
  <2> DEFINE lib == getSubHalForSensorHandle(g)
             c == clearSubHalIndex(g)
  <2>1. enabled' = [enabled EXCEPT ![lib] = Enable(lib, c, on)]
    BY <1>4 DEF activate
  <2>2. lib \in File
    BY <1>4, SubHalFile DEF isSubHalIndexValid, getSubHalForSensorHandle, TypeOK
  <2>3. Enable(lib, c, on) \subseteq enabled[lib] \/ Reached(lib, c)
    BY <1>1, <1>4, ActivatedReached DEF Enable
  <2>4. Enable(lib, c, on) \subseteq enabled[lib] \cup {c}
    BY DEF Enable
  <2>5. \A f \in File : enabled'[f] = IF f = lib THEN Enable(lib, c, on) ELSE enabled[f]
    BY <2>1, <2>2 DEF TypeOK
  <2> HIDE DEF lib, c
  <2>6. \A f \in Loaded \ faulty : \A h \in enabled'[f] : Reached(f, h)
    BY <1>1, <2>3, <2>4, <2>5, LoadedFiles DEF EnabledInv
  <2>7. Loaded' = Loaded /\ \A f, h : Reached(f, h) => Reached(f, h)'
    BY <1>1, <1>2 DEF Loaded, Reached, getSubHalForSensorHandle, SubHal
  <2> QED BY <1>1, <2>6, <2>7 DEF EnabledInv
<1>5. \/ enabled' = enabled
      \/ \E on \in BOOLEAN : activate(g, on) /\ isSubHalIndexValid(g)
  BY DEF CallSensor, batchOrFlush, activate, injectSensorData, configDirectReport
<1> QED BY <1>3, <1>4, <1>5

LEMMA EnabledDisconnect ==
  ASSUME TypeOK, OriginInv, EnabledInv, NEW i \in 0..(Len(mSubHalList) - 1),
         NEW S \in SUBSET Dynamic[SubHal(i)], Disconnect(i, S)
  PROVE  EnabledInv'
<1>1. /\ SubHal(i) \in File
      /\ enabled' = [enabled EXCEPT ![SubHal(i)] = @ \ {s.handle : s \in S}]
      /\ \A g \in DOMAIN mDynamicSensors :
           \/ g \in DOMAIN mDynamicSensors'
           \/ /\ getSubHalForSensorHandle(g) = SubHal(i)
              /\ \E s \in S : clearSubHalIndex(g) = s.handle
  BY DisconnectGone
<1>2. UNCHANGED <<pc, mSubHalList, mSensors, faulty>>
  BY Zenon DEF Disconnect, initVars, listVars
<1>3. /\ \A f \in File : enabled'[f] \subseteq enabled[f]
      /\ \A s \in S : s.handle \notin enabled'[SubHal(i)]
  BY <1>1 DEF TypeOK
<1>4. Loaded' = Loaded /\ \A g : getSubHalForSensorHandle(g)' = getSubHalForSensorHandle(g)
  BY <1>2 DEF Loaded, getSubHalForSensorHandle, SubHal
<1>5. ASSUME pc = "idle", NEW f \in Loaded \ faulty, NEW h \in enabled'[f]
      PROVE  Reached(f, h)'
  <2>1. Reached(f, h)
    BY <1>3, <1>5, LoadedFiles DEF EnabledInv
  <2>2. PICK g \in AllHandles : getSubHalForSensorHandle(g) = f /\ clearSubHalIndex(g) = h
    BY <2>1 DEF Reached
  <2>3. g \in AllHandles'
    BY <1>1, <1>2, <1>3, <1>5, <2>2 DEF AllHandles
  <2> QED BY <1>4, <2>2, <2>3 DEF Reached
<1> QED BY <1>2, <1>3, <1>4, <1>5, LoadedFiles DEF EnabledInv

LEMMA EnabledInitialize ==
  ASSUME TypeOK, EnabledInv, initializeCommon
  PROVE  EnabledInv'
<1>1. mSubHalList' = mSubHalList
  BY DEF initializeCommon, disableAllSensors, InitClearDynamic, InitCallback, InitSubHal,
     InitDone, listVars
<1>2. Loaded' = Loaded /\ Loaded \subseteq File
  BY <1>1, LoadedFiles DEF Loaded
<1>3. CASE disableAllSensors
  <2>1. PICK failing \in SUBSET (MayFail \cap Loaded) :
          /\ enabled' = [f \in File |->
               IF f \in failing THEN enabled[f]
               ELSE enabled[f] \ {clearSubHalIndex(h) : h \in
                                    {g \in AllHandles : getSubHalForSensorHandle(g) = f}}]
          /\ faulty' = faulty \cup failing
    BY <1>3 DEF disableAllSensors
  <2>2. pc = "idle" /\ pc' = "clear"
    BY <1>3 DEF disableAllSensors
  <2>3. ASSUME NEW f \in Loaded \ faulty' PROVE enabled'[f] = {}
    <3>1. f \in File /\ f \notin failing /\ f \in Loaded \ faulty
      BY <1>2, <2>1
    <3>2. enabled'[f] = enabled[f] \ {clearSubHalIndex(h) : h \in
                                    {g \in AllHandles : getSubHalForSensorHandle(g) = f}}
      BY <2>1, <3>1
    <3>3. \A h \in enabled[f] : Reached(f, h)
      BY <2>2, <3>1 DEF EnabledInv
    <3> QED BY <3>2, <3>3 DEF Reached
  <2> QED BY <1>2, <2>2, <2>3 DEF EnabledInv
<1>4. CASE InitClearDynamic \/ InitCallback \/ InitDone
  <2>1. /\ pc \in {"clear", "callback", "subhals"} /\ UNCHANGED <<enabled, faulty>>
        /\ pc' \in {"callback", "subhals", "idle"}
    BY <1>4 DEF InitClearDynamic, InitCallback, InitDone
  <2> QED BY <1>2, <2>1 DEF EnabledInv
<1>5. CASE InitSubHal
  <2>1. SubHal(next) \in File /\ pc = "subhals" /\ pc' = "subhals"
    BY <1>5, SubHalFile DEF InitSubHal, TypeOK
  <2>2. \/ /\ enabled' = [enabled EXCEPT ![SubHal(next)] = {}]
           /\ faulty' = faulty \ {SubHal(next)}
        \/ enabled' = enabled /\ faulty' = faulty \cup {SubHal(next)}
    BY <1>5 DEF InitSubHal
  <2>3. \A f \in Loaded \ faulty' : enabled'[f] = {}
    BY <1>2, <2>1, <2>2 DEF EnabledInv, TypeOK
  <2> QED BY <1>2, <2>1, <2>3 DEF EnabledInv
<1> QED BY <1>3, <1>4, <1>5 DEF initializeCommon

LEMMA EnabledStep ==
  ASSUME NoStrayHandles, TypeOK, OriginInv, KnownInv, ListInv, GoneInv, EnabledInv, [Next]_vars
  PROVE  EnabledInv'
<1>1. CASE \E h \in Asked : CallSensor(h)
  BY <1>1, EnabledCall
<1>2. CASE initializeCommon
  BY <1>2, EnabledInitialize
<1>3. CASE Constructor
  <2>1. pc \in {"load", "list"} /\ pc' \in {"load", "list", "idle"} /\ enabled' = enabled
    BY <1>3 DEF Constructor, LoadSubHal, LoadDone, ListSensors, registerAsService, initVars
  <2>2. mSubHalList' = mSubHalList \/ pc' = "load"
    BY <1>3 DEF Constructor, LoadSubHal, LoadDone, ListSensors, registerAsService, initVars,
       listVars
  <2>3. pc' = "idle" => Loaded' \subseteq File
    BY <2>2, LoadedFiles DEF Loaded
  <2> QED BY <2>1, <2>3 DEF EnabledInv
<1>4. ASSUME NEW i \in 0..(Len(mSubHalList) - 1), NEW S \in SUBSET Dynamic[SubHal(i)],
             Connect(i, S)
      PROVE  EnabledInv'
  <2>1. UNCHANGED <<pc, mSubHalList, mSensors, enabled, faulty>>
    BY <1>4, Zenon DEF Connect, initVars, listVars
  <2>2. DOMAIN mDynamicSensors \subseteq DOMAIN mDynamicSensors'
    BY <1>4, ConnectFacts DEF Put
  <2> QED BY <2>1, <2>2, EnabledKept, LoadedFiles DEF AllHandles
<1>5. ASSUME NEW i \in 0..(Len(mSubHalList) - 1), NEW S \in SUBSET Dynamic[SubHal(i)],
             Disconnect(i, S)
      PROVE  EnabledInv'
  BY <1>5, EnabledDisconnect
<1>6. ASSUME NEW i, NEW h, countNumWakeupEvents(i, h)
      PROVE  EnabledInv'
  <2>1. UNCHANGED <<pc, mSubHalList, mDynamicSensors, enabled, faulty>>
    BY <1>6 DEF countNumWakeupEvents, initVars, dynVars
  <2>2. DOMAIN mSensors \subseteq DOMAIN mSensors'
    BY <1>6 DEF countNumWakeupEvents
  <2> QED BY <2>1, <2>2, EnabledKept, LoadedFiles DEF AllHandles
<1>7. ASSUME NEW m \in Mode, setOperationMode(m)
      PROVE  EnabledInv'
  <2>1. UNCHANGED <<pc, mSubHalList, mSensors, mDynamicSensors, enabled>>
    BY <1>7 DEF setOperationMode, initVars, listVars, dynVars
  <2>2. faulty \subseteq faulty'
    BY <1>7 DEF setOperationMode
  <2> QED BY <2>1, <2>2, EnabledKept, LoadedFiles DEF AllHandles
<1>8. CASE (\E f \in File : Report(f)) \/ UNCHANGED vars
  <2>1. UNCHANGED <<pc, mSubHalList, mSensors, mDynamicSensors, enabled, faulty>>
    BY <1>8 DEF Report, vars, initVars, listVars, dynVars
  <2> QED BY <2>1, EnabledKept, LoadedFiles DEF AllHandles
<1> QED BY <1>1, <1>2, <1>3, <1>4, <1>5, <1>6, <1>7, <1>8 DEF Next, SubHalThread

\* If no dynamic sensor is reported while initialize forgets the old ones, none
\* has the handle 0, and BadHandles are handles no dynamic sensor has:
\* disableAllSensors leaves no sensor enabled in a sub-HAL that does as it is
\* told, whatever came, went and was enabled before, and however often the
\* framework was restarted.
THEOREM NothingLeftEnabledAlways ==
  ASSUME QuietAtInit, NoStrayHandles
  PROVE  Spec => []NothingLeftEnabled
<1> DEFINE Inv == StartInv /\ OriginInv /\ KnownInv /\ ListInv /\ GoneInv /\ EnabledInv
<1>1. Init => Inv
  BY DEF Init, StartInv, OriginInv, KnownInv, ListInv, GoneInv, EnabledInv, NoReport
<1>2. TypeOK /\ Inv /\ [Next]_vars => Inv'
  BY StartStep, OriginStep, KnownStep, ListStep, GoneStep, EnabledStep
<1>3. Inv => NothingLeftEnabled
  BY DEF EnabledInv, NothingLeftEnabled
<1> QED BY <1>1, <1>2, <1>3, ControlTypeCorrect, PTL DEF Spec
=============================================================================
