-------------------------- MODULE HalProxyControl ---------------------------
(***************************************************************************)
(* The control side of the sensors multi-HAL proxy (sensors/HalProxy.cpp): *)
(* loading the sub-HALs, building the sensor list, routing the calls of    *)
(* the framework by the first byte of the sensor handle, the operation     *)
(* mode, direct channels, and dynamic sensors that come and go while       *)
(* initialize runs.                                                        *)
(*                                                                         *)
(* service.cpp configures one binder thread, so calls of the framework     *)
(* exclude each other and one that no other thread can observe halfway is  *)
(* one step.  initialize is cut where sub-HAL threads can come in between. *)
(* Each sub-HAL reports dynamic sensors from one thread, whose update of   *)
(* mDynamicSensors (under mDynamicSensorsMutex) and call of the framework  *)
(* (outside it) are two steps.  The threads and the event queues of        *)
(* initialize are the subject of module HalProxy.                          *)
(***************************************************************************)
EXTENDS Integers, Sequences, FiniteSets

CONSTANTS
  File,           \* names of sub-HAL libraries
  hals_conf,      \* the names in the two config files, in order
  Library,        \* what dlopen and dlsym find for a name
  Name,           \* names of sensors
  Static,         \* per library: what getSensorsList returns
  Dynamic,        \* per library: the dynamic sensors that may be connected
  MayFail,        \* libraries whose calls may fail
  QuietAtInit,    \* no dynamic sensor is reported while initialize clears them
  BadHandles,     \* handles no sensor has, which the framework may use
  MaxInits        \* bound: calls of initialize

NORMAL          == "NORMAL"
DATA_INJECTION  == "DATA_INJECTION"
Mode            == {NORMAL, DATA_INJECTION}
Type            == {"LIGHT", "QTI_WISE_LIGHT", "OTHER"}
NoName          == "NoName"

\* The fields of SensorInfo that matter: direct stands for the direct report
\* and direct channel bits of flags.
SensorInfo == [name : Name \cup {NoName}, handle : Nat, type : Type, direct : BOOLEAN]

ASSUME ControlAssumption ==
  /\ hals_conf \in Seq(File)
  /\ Library \in [File -> [found : BOOLEAN, symbols : SUBSET {"2_0", "2_1"},
                           version : {"2_0", "2_1", "other"}]]
  /\ Static \in [File -> SUBSET SensorInfo] /\ Dynamic \in [File -> SUBSET SensorInfo]
  /\ \A f \in File : \A s, t \in Static[f] \cup Dynamic[f] : s.handle = t.handle => s = t
  /\ MayFail \subseteq File
  /\ QuietAtInit \in BOOLEAN
  /\ BadHandles \subseteq Int
  /\ MaxInits \in Nat

VARIABLES
  pc, toLoad, next, inits,        \* constructor, then the binder thread
  mSubHalList, mSensors, mDirectChannelSubHal,
  mCurrentOperationMode,
  mDynamicSensors,
  mode, enabled,                  \* per library: its mode and enabled sensors
  connected,                      \* per library: its dynamic sensors
  report,                         \* per library: a call of the framework to be made
  known,                          \* dynamic sensors the framework was told of
  call,                           \* the call just made and where it went
  faulty                          \* history: libraries that failed an undo or a reset

listVars == <<toLoad, mSubHalList, mSensors, mDirectChannelSubHal>>
initVars == <<pc, next, inits>>
modeVars == <<mCurrentOperationMode, mode>>
dynVars  == <<mDynamicSensors, connected, report, known>>
vars == <<initVars, listVars, modeVars, dynVars, enabled, call, faulty>>
-----------------------------------------------------------------------------
(* Sensor handles: the first of four bytes is the index of the sub-HAL.    *)

IndexUnit == 16777216   \* 1 << kBitsAfterSubHalIndex

\* sensorHandle | (subHalIndex << 24), for a handle whose first byte is 0.  The
\* mutant counts the sub-HALs from one.
SetIndexFromOne(sensorHandle, subHalIndex) == sensorHandle + IndexUnit * (subHalIndex - 1)

setSubHalIndex(sensorHandle, subHalIndex) == sensorHandle + IndexUnit * subHalIndex

extractSubHalIndex(sensorHandle) == sensorHandle \div IndexUnit

clearSubHalIndex(sensorHandle) == sensorHandle % IndexUnit

\* The mutant accepts every handle.
AnyIndex(sensorHandle) == TRUE

subHalIndexIsClear(sensorHandle) == 0 <= sensorHandle /\ sensorHandle < IndexUnit

\* A negative index is a huge size_t.
isSubHalIndexValid(sensorHandle) ==
  extractSubHalIndex(sensorHandle) \in 0..(Len(mSubHalList) - 1)

SubHal(index) == mSubHalList[index + 1]

getSubHalForSensorHandle(sensorHandle) == SubHal(extractSubHalIndex(sensorHandle))

Loaded == {mSubHalList[i] : i \in DOMAIN mSubHalList}

getSensorsList_2_1 == {mSensors[h] : h \in DOMAIN mSensors}

\* What the framework may put into a call.
Asked == {s.handle : s \in getSensorsList_2_1 \cup known} \cup BadHandles

\* A std::map of SensorInfo with the sensors of S put in.
Put(map, S) ==
  [h \in DOMAIN map \cup {s.handle : s \in S} |->
     IF \E s \in S : s.handle = h THEN CHOOSE s \in S : s.handle = h ELSE map[h]]
-----------------------------------------------------------------------------
NoSubHal == -1
NoReport == [kind |-> "none", sensors |-> {}]

\* A call of the framework for a handle: the library it went to, if any, and
\* the handle that library saw.
Call == [op : {"none", "control", "inject", "direct"}, asked : Int, delivered : BOOLEAN,
         lib : File \cup {NoName}, handle : Int]
Rejected(op, asked) ==
  [op |-> op, asked |-> asked, delivered |-> FALSE, lib |-> NoName, handle |-> 0]
NoCall == Rejected("none", 0)
Delivered(op, asked, lib, handle) ==
  [op |-> op, asked |-> asked, delivered |-> TRUE, lib |-> lib, handle |-> handle]

Init ==
  /\ pc = "load" /\ toLoad = hals_conf /\ next = 0 /\ inits = 0
  /\ mSubHalList = <<>>
  /\ mSensors = [h \in {} |-> {}] /\ mDynamicSensors = [h \in {} |-> {}]
  /\ mDirectChannelSubHal = NoSubHal
  /\ mCurrentOperationMode = NORMAL
  /\ mode = [f \in File |-> NORMAL]
  /\ enabled = [f \in File |-> {}]
  /\ connected = [f \in File |-> {}]
  /\ report = [f \in File |-> NoReport]
  /\ known = {}
  /\ call = NoCall
  /\ faulty = {}
-----------------------------------------------------------------------------
(* The constructor.                                                        *)

\* A library is used when it is found in one of the three places, and returns
\* the version that belongs to the symbol it exports; the 2.1 symbol is only
\* looked up when there is no 2.0 symbol.
Usable(lib) ==
  /\ lib.found
  /\ IF "2_0" \in lib.symbols THEN lib.version = "2_0"
     ELSE "2_1" \in lib.symbols /\ lib.version = "2_1"

LoadSubHal ==
  /\ pc = "load" /\ toLoad # <<>>
  /\ mSubHalList' = IF Usable(Library[Head(toLoad)])
                    THEN Append(mSubHalList, Head(toLoad)) ELSE mSubHalList
  /\ toLoad' = Tail(toLoad)
  /\ UNCHANGED <<initVars, mSensors, mDirectChannelSubHal, modeVars, dynVars,
                 enabled, faulty>>

LoadDone ==
  /\ pc = "load" /\ toLoad = <<>>
  /\ pc' = "list"
  /\ UNCHANGED <<next, inits, listVars, modeVars, dynVars, enabled, faulty>>

\* setDirectChannelFlags: the first sub-HAL with a sensor that supports direct
\* channels becomes the only one that has them.  The mutant leaves the flags.
KeepDirectFlag(s, owner, index) == s.direct

DirectFlag(s, owner, index) == s.direct /\ owner = index

\* A sensor as the proxy lists it.
Listed(s, owner, index) ==
  [s EXCEPT !.handle = setSubHalIndex(@, index),
            !.direct = DirectFlag(s, owner, index),
            !.type = IF @ = "QTI_WISE_LIGHT" THEN "LIGHT" ELSE @]

\* One turn of the loop of initializeSensorList.
ListSensors ==
  /\ pc = "list" /\ next < Len(mSubHalList)
  /\ LET accepted == {s \in Static[SubHal(next)] : subHalIndexIsClear(s.handle)}
         owner    == IF mDirectChannelSubHal = NoSubHal /\ \E s \in accepted : s.direct
                     THEN next ELSE mDirectChannelSubHal
     IN  /\ mDirectChannelSubHal' = owner
         /\ mSensors' = Put(mSensors, {Listed(s, owner, next) : s \in accepted})
  /\ next' = next + 1
  /\ UNCHANGED <<pc, inits, toLoad, mSubHalList, modeVars, dynVars, enabled, faulty>>

\* main registers the service; until then nobody calls it.
registerAsService ==
  /\ pc = "list" /\ next = Len(mSubHalList)
  /\ pc' = "idle"
  /\ UNCHANGED <<next, inits, listVars, modeVars, dynVars, enabled, faulty>>
-----------------------------------------------------------------------------
(* Calls of the framework on the binder thread.                            *)

\* setOperationMode: sub-HALs 0 .. k-1 have switched when number k fails; they
\* are switched back, and the results of that are ignored.  The mutant forgets
\* the last one that has switched.
SwitchBackAllButLast(flipped, k) == {SubHal(i) : i \in 0..(k - 2)}

SwitchBack(flipped, k) == flipped

setOperationMode(m) ==
  /\ pc = "idle" /\ inits > 0
  /\ \/ /\ mode' = [f \in File |-> IF f \in Loaded THEN m ELSE mode[f]]
        /\ mCurrentOperationMode' = m
        /\ UNCHANGED faulty
     \/ \E k \in 0..(Len(mSubHalList) - 1) :
          LET flipped == {SubHal(i) : i \in 0..(k - 1)}
          IN  /\ SubHal(k) \in MayFail
              /\ \E stuck \in SUBSET (flipped \cap MayFail) :
                   /\ mode' = [f \in File |->
                        IF f \in SwitchBack(flipped, k) \ stuck THEN mCurrentOperationMode
                        ELSE IF f \in flipped THEN m ELSE mode[f]]
                   /\ faulty' = faulty \cup stuck
              /\ UNCHANGED mCurrentOperationMode
  /\ UNCHANGED <<initVars, listVars, dynVars, enabled>>

\* The sensors a sub-HAL can enable.
Sensors(lib) == Static[lib] \cup connected[lib]

Enable(lib, handle, on) ==
  IF on /\ \E s \in Sensors(lib) : s.handle = handle
  THEN enabled[lib] \cup {handle} ELSE enabled[lib] \ {handle}

activate(h, on) ==
  /\ pc = "idle" /\ inits > 0
  /\ IF isSubHalIndexValid(h)
     THEN LET lib == getSubHalForSensorHandle(h)
          IN  /\ call' = Delivered("control", h, lib, clearSubHalIndex(h))
              /\ enabled' = [enabled EXCEPT ![lib] = Enable(lib, clearSubHalIndex(h), on)]
     ELSE call' = Rejected("control", h) /\ UNCHANGED enabled
  /\ UNCHANGED <<initVars, listVars, modeVars, dynVars, faulty>>

batchOrFlush(h) ==
  /\ pc = "idle" /\ inits > 0
  /\ call' = IF isSubHalIndexValid(h)
             THEN Delivered("control", h, getSubHalForSensorHandle(h), clearSubHalIndex(h))
             ELSE Rejected("control", h)
  /\ UNCHANGED <<initVars, listVars, modeVars, dynVars, enabled, faulty>>

\* In NORMAL mode only ADDITIONAL_INFO may be injected.
injectSensorData(h, additionalInfo) ==
  /\ pc = "idle" /\ inits > 0
  /\ call' = IF /\ mCurrentOperationMode = NORMAL => additionalInfo
                /\ isSubHalIndexValid(h)
             THEN Delivered("inject", h, getSubHalForSensorHandle(h), clearSubHalIndex(h))
             ELSE Rejected("inject", h)
  /\ UNCHANGED <<initVars, listVars, modeVars, dynVars, enabled, faulty>>

\* configDirectReport; handle -1 stands for all sensors and may only be stopped.
\* (register- and unregisterDirectChannel go to the same sub-HAL or fail.)
configDirectReport(h, stop) ==
  /\ pc = "idle" /\ inits > 0
  /\ call' = IF mDirectChannelSubHal = NoSubHal \/ (h = -1 /\ ~stop)
             THEN Rejected("direct", h)
             ELSE Delivered("direct", h, SubHal(mDirectChannelSubHal),
                            IF h = -1 THEN h ELSE clearSubHalIndex(h))
  /\ UNCHANGED <<initVars, listVars, modeVars, dynVars, enabled, faulty>>
-----------------------------------------------------------------------------
(* initialize.                                                             *)

\* The handles disableAllSensors goes through.  The mutant forgets the dynamic
\* sensors.
StaticHandles == DOMAIN mSensors

AllHandles == DOMAIN mSensors \cup DOMAIN mDynamicSensors

disableAllSensors ==
  /\ pc = "idle" /\ inits < MaxInits
  /\ \E failing \in SUBSET (MayFail \cap Loaded) :
       LET disabled(f) == {clearSubHalIndex(h) : h \in
                             {g \in AllHandles : getSubHalForSensorHandle(g) = f}}
       IN  /\ enabled' = [f \in File |->
                IF f \in failing THEN enabled[f] ELSE enabled[f] \ disabled(f)]
           /\ faulty' = faulty \cup failing
  /\ pc' = "clear"
  /\ UNCHANGED <<next, inits, listVars, modeVars, dynVars>>

InitClearDynamic ==
  /\ pc = "clear"
  /\ QuietAtInit => \A f \in File : report[f] = NoReport
  /\ mDynamicSensors' = [h \in {} |-> {}]
  /\ pc' = "callback"
  /\ UNCHANGED <<next, inits, listVars, modeVars, connected, report, known, enabled, faulty>>

\* The callback of the new framework instance, which knows no dynamic sensor.
InitCallback ==
  /\ pc = "callback"
  /\ known' = {}
  /\ pc' = "subhals" /\ next' = 0
  /\ UNCHANGED <<inits, listVars, modeVars, mDynamicSensors, connected, report, enabled, faulty>>

\* One turn of the loop over the sub-HALs.  A sub-HAL's initialize resets it
\* (external), unless it fails.
InitSubHal ==
  /\ pc = "subhals" /\ next < Len(mSubHalList)
  /\ LET lib == SubHal(next)
     IN  \/ /\ mode' = [mode EXCEPT ![lib] = NORMAL]
            /\ enabled' = [enabled EXCEPT ![lib] = {}]
            /\ faulty' = faulty \ {lib}
         \/ /\ lib \in MayFail
            /\ faulty' = faulty \cup {lib}
            /\ UNCHANGED <<mode, enabled>>
  /\ next' = next + 1
  /\ UNCHANGED <<pc, inits, listVars, mCurrentOperationMode, dynVars>>

InitDone ==
  /\ pc = "subhals" /\ next = Len(mSubHalList)
  /\ mCurrentOperationMode' = NORMAL
  /\ pc' = "idle" /\ inits' = inits + 1
  /\ UNCHANGED <<next, listVars, mode, dynVars, enabled, faulty>>
-----------------------------------------------------------------------------
(* Sub-HAL i's thread for dynamic sensors.                                 *)

\* A sub-HAL has its callback from initialize on.
MayReport(i) ==
  /\ report[SubHal(i)] = NoReport
  /\ inits > 0
  /\ QuietAtInit => pc = "idle"

\* onDynamicSensorsConnected, the part under the mutex.
Connect(i, S) ==
  LET lib   == SubHal(i)
      added == {[s EXCEPT !.handle = setSubHalIndex(@, i)] :
                  s \in {t \in S : subHalIndexIsClear(t.handle)}}
  IN  /\ MayReport(i)
      /\ mDynamicSensors' = Put(mDynamicSensors, added)
      /\ connected' = [connected EXCEPT ![lib] = @ \cup S]
      /\ report' = [report EXCEPT ![lib] = [kind |-> "connected", sensors |-> added]]
      /\ UNCHANGED <<initVars, listVars, modeVars, known, enabled, faulty>>

\* onDynamicSensorsDisconnected, the part under the mutex.  The mutant does not
\* erase the sensors.
EraseNothing(map, handles) == map

Erase(map, handles) == [h \in DOMAIN map \ handles |-> map[h]]

Disconnect(i, S) ==
  LET lib     == SubHal(i)
      handles == {setSubHalIndex(s.handle, i) :
                    s \in {t \in S : subHalIndexIsClear(t.handle)}}
      removed == handles \cap DOMAIN mDynamicSensors
  IN  /\ MayReport(i) /\ S \subseteq connected[lib]
      /\ mDynamicSensors' = Erase(mDynamicSensors, removed)
      /\ connected' = [connected EXCEPT ![lib] = @ \ S]
      /\ enabled' = [enabled EXCEPT ![lib] = @ \ {s.handle : s \in S}]
      /\ report' = [report EXCEPT ![lib] =
           [kind |-> "disconnected", sensors |-> {mDynamicSensors[h] : h \in removed}]]
      /\ UNCHANGED <<initVars, listVars, modeVars, known, faulty>>

\* The call of mDynamicSensorsCallback, outside the mutex.
Report(f) ==
  /\ report[f] # NoReport
  /\ known' = IF report[f].kind = "connected" THEN known \cup report[f].sensors
              ELSE {s \in known : \A t \in report[f].sensors : t.handle # s.handle}
  /\ report' = [report EXCEPT ![f] = NoReport]
  /\ UNCHANGED <<initVars, listVars, modeVars, mDynamicSensors, connected, enabled, faulty>>

\* countNumWakeupEvents on an event of an enabled sensor of sub-HAL i that is
\* dropped: mSensors[handle] inserts a default entry for an unknown handle.
countNumWakeupEvents(i, handle) ==
  LET h == setSubHalIndex(handle, i)
  IN  /\ pc = "idle" /\ handle \in enabled[SubHal(i)]
      /\ mSensors' = IF h \in DOMAIN mSensors THEN mSensors
                     ELSE [g \in DOMAIN mSensors \cup {h} |->
                             IF g = h THEN [name |-> NoName, handle |-> 0, type |-> "OTHER",
                                            direct |-> FALSE]
                             ELSE mSensors[g]]
      /\ UNCHANGED <<initVars, toLoad, mSubHalList, mDirectChannelSubHal, modeVars, dynVars,
                     enabled, faulty>>
-----------------------------------------------------------------------------
Constructor == LoadSubHal \/ LoadDone \/ ListSensors \/ registerAsService

initializeCommon ==
  disableAllSensors \/ InitClearDynamic \/ InitCallback \/ InitSubHal \/ InitDone

CallSensor(h) ==
  \/ batchOrFlush(h)
  \/ \E b \in BOOLEAN : activate(h, b) \/ injectSensorData(h, b) \/ configDirectReport(h, b)

SubHalThread(i) ==
  \/ \E S \in SUBSET Dynamic[SubHal(i)] : S # {} /\ (Connect(i, S) \/ Disconnect(i, S))
  \/ \E s \in Sensors(SubHal(i)) : countNumWakeupEvents(i, s.handle)

Next ==
  \/ \E h \in Asked : CallSensor(h)
  \/ /\ \/ Constructor
        \/ initializeCommon
        \/ \E m \in Mode : setOperationMode(m)
        \/ \E i \in 0..(Len(mSubHalList) - 1) : SubHalThread(i)
        \/ \E f \in File : Report(f)
     /\ call' = NoCall

Spec == Init /\ [][Next]_vars
-----------------------------------------------------------------------------
IsMap(map) == map \in [DOMAIN map -> SensorInfo] /\ DOMAIN map \subseteq Nat

\* The types of all variables.
TypeOK ==
  /\ pc \in {"load", "list", "idle", "clear", "callback", "subhals"}
  /\ toLoad \in Seq(File) /\ mSubHalList \in Seq(File)
  /\ next \in 0..Len(mSubHalList) /\ inits \in Nat
  /\ IsMap(mSensors) /\ IsMap(mDynamicSensors)
  /\ mDirectChannelSubHal \in {NoSubHal} \cup 0..(Len(mSubHalList) - 1)
  /\ mCurrentOperationMode \in Mode /\ mode \in [File -> Mode]
  /\ enabled \in [File -> SUBSET Nat] /\ connected \in [File -> SUBSET SensorInfo]
  /\ report \in [File -> [kind : {"none", "connected", "disconnected"},
                          sensors : SUBSET SensorInfo]]
  /\ known \subseteq SensorInfo
  /\ call \in Call /\ faulty \subseteq File

\* A call for a sensor the framework was told of reaches the sub-HAL that has the
\* sensor, under the handle that sub-HAL gave it: in spite of libraries that
\* could not be loaded, sensors left out of the list and sensors that came and
\* went.  A direct report is only asked of a listed sensor with the flags for it.
CallReachesSensor ==
  \A s \in getSensorsList_2_1 \cup known :
    /\ call # NoCall /\ call.asked = s.handle /\ s.name # NoName
    /\ call.op = "direct" => s \in getSensorsList_2_1 /\ s.direct
    /\ call.op = "inject" => call.delivered
    => /\ call.delivered
       /\ \E t \in Static[call.lib] \cup Dynamic[call.lib] :
            t.name = s.name /\ t.handle = call.handle

\* "disable direct channel capability for sensors in subHals that are not the
\* only one we will enable": whatever sensor the framework knows with direct
\* channel flags belongs to the one sub-HAL that gets direct channel calls.
OnlyOneDirect ==
  \A s \in getSensorsList_2_1 \cup known :
    s.direct => extractSubHalIndex(s.handle) = mDirectChannelSubHal

\* Between calls every sub-HAL is in mCurrentOperationMode, however many of them
\* refused a mode, unless it failed to be switched back or to be initialized.
ModesAgree ==
  pc = "idle" => \A f \in Loaded \ faulty : mode[f] = mCurrentOperationMode

\* disableAllSensors leaves no sensor enabled, static or dynamic, in a sub-HAL
\* that does as it is told.
NothingLeftEnabled ==
  pc = "clear" => \A f \in Loaded \ faulty : enabled[f] = {}

Settled == pc = "idle" /\ \A f \in File : report[f] = NoReport

DynamicSensors == {mDynamicSensors[h] : h \in DOMAIN mDynamicSensors}

\* When no report is under way the framework knows the dynamic sensors that
\* mDynamicSensors holds and no others, with initialize and the sub-HALs'
\* threads in between.
FrameworkKnowsDynamic == Settled => known = DynamicSensors
=============================================================================
