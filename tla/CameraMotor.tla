---------------------------- MODULE CameraMotor -----------------------------
(***************************************************************************)
(* The pop-up front camera (camera_helper): CameraMotorService raises and  *)
(* lowers the motor when the front camera is opened and closed, FallSensor *)
(* lowers it in a free fall, KeyHandler offers to retry when it is         *)
(* blocked.                                                                *)
(*                                                                         *)
(* Threads:                                                                *)
(*   - the main thread of the app runs the looper with the availability    *)
(*     callbacks and the delayed messages of CameraMotorService, the       *)
(*     sensor events and the buttons of FallSensor's dialog;               *)
(*   - the executor of FallSensor registers and unregisters the listener;  *)
(*   - the main thread of system_server runs the buttons of KeyHandler.    *)
(*                                                                         *)
(* Moving the motor takes two writes, to "direction" and to "enable", and  *)
(* the two processes share these files: they are two steps.  A write that  *)
(* fails is logged and ignored.  The driver, the camera framework, the     *)
(* user and the looper are external.                                       *)
(*                                                                         *)
(* Looper entries are in the order of their due time and carry the time    *)
(* left until then, on the uptime clock, which stops in deep sleep; the    *)
(* service compares ages on the elapsed-time clock, which does not.  Both  *)
(* are counted in ticks up to CAMERA_EVENT_DELAY_TIME.  Camera ids other   *)
(* than FRONT_CAMERA_ID and sensor values <= 0 have no effect.             *)
(***************************************************************************)
EXTENDS Integers, Sequences, FiniteSets, SequencesExt

CONSTANTS
  CAMERA_EVENT_DELAY_TIME,
  Unreliable,    \* sysfs files whose access may fail
  MaxChanges,    \* bound: times the front camera is opened or closed
  MaxFalls,      \* bound: free falls
  MaxBlocks,     \* bound: times the motor is obstructed or pressed down
  MaxCrashes,    \* bound: deaths of the app process
  MaxScreen      \* bound: times the screen is switched

ASSUME MotorAssumption ==
  /\ CAMERA_EVENT_DELAY_TIME \in Nat \ {0}
  /\ Unreliable \subseteq {"direction", "enable", "position"}

VARIABLES
  camera,                  \* "open" or "closed": the front camera
  running,                 \* CameraMotorService is created
  looper,                  \* main looper of the app: FIFO of [what, left]
  sinceOpen, sinceClosed,  \* ages of mOpenEvent and mClosedEvent
  mainPc,                  \* direction main has written but not yet enabled
  sensing,                 \* FallSensorService is created
  tasks, registered,       \* FallSensor: executor queue, listener
  dialogs,                 \* FallSensor: "Free fall detected" dialogs
  sysPc, keyDialogs,       \* KeyHandler: as mainPc; dialogs per direction
  direction, motion, position,                     \* motor driver
  changes, falls, blocks, crashes, switches,       \* counted against the bounds
  lastSeen, lastCommand,   \* history: last callback; last move it caused
  lastGap,                 \* history: time between the last two callbacks
  lastRequest,             \* history: last enable() or disable()
  fell                     \* history: a fall, and nobody asked to raise since

cameraVars  == <<camera, changes>>
serviceVars == <<running, looper, sinceOpen, sinceClosed, lastSeen, lastCommand, lastGap>>
fallVars    == <<sensing, tasks, registered, dialogs, lastRequest>>
keyVars     == <<sysPc, keyDialogs>>
motorVars   == <<direction, motion, position>>
bounds      == <<falls, blocks, crashes, switches>>
vars == <<cameraVars, serviceVars, mainPc, fallVars, keyVars, motorVars, bounds, fell>>

MSG_CAMERA_OPEN   == "MSG_CAMERA_OPEN"
MSG_CAMERA_CLOSED == "MSG_CAMERA_CLOSED"
Delay == CAMERA_EVENT_DELAY_TIME
-----------------------------------------------------------------------------
(* The looper.                                                             *)

\* The main thread is free and what is next to run.
Due(what) ==
  /\ mainPc = "idle" /\ looper # <<>>
  /\ Head(looper).what = what /\ Head(looper).left = 0

\* post: due at once, behind what is due already.
Posted(queue, what) ==
  InsertAt(queue, Cardinality({i \in DOMAIN queue : queue[i].left = 0}) + 1,
           [what |-> what, left |-> 0])

\* How many of the positions in K are not behind position i.
Rank(K, i) == Cardinality({j \in K : j <= i})

\* The entries of queue at the positions in K, in their order.
Subsequence(queue, K) ==
  [n \in 1..Cardinality(K) |-> queue[CHOOSE i \in K : Rank(K, i) = n]]

\* removeMessages, which does nothing when hasMessages is false.
Removed(queue, what) == Subsequence(queue, {i \in DOMAIN queue : queue[i].what # what})

\* sendEmptyMessageDelayed with CAMERA_EVENT_DELAY_TIME.  The mutant adds the
\* delay twice.
SentTwiceDelayed(queue, what) == Append(queue, [what |-> what, left |-> 2 * Delay])

SentDelayed(queue, what) == Append(queue, [what |-> what, left |-> Delay])
-----------------------------------------------------------------------------
(* CameraMotorController.                                                  *)

setMotorDirection(d) ==
  direction' \in {d} \cup (IF "direction" \in Unreliable THEN {direction} ELSE {})

\* A mutant that never writes "enable".
EnableForgotten == motion' = motion

setMotorEnabled ==
  motion' \in {direction} \cup (IF "enable" \in Unreliable THEN {motion} ELSE {})
-----------------------------------------------------------------------------
Init ==
  /\ camera = "closed" /\ changes = 0
  /\ running = FALSE /\ looper = <<>> /\ sinceOpen = Delay /\ sinceClosed = Delay
  /\ mainPc = "idle"
  /\ sensing = FALSE /\ tasks = <<>> /\ registered = FALSE /\ dialogs = 0
  /\ sysPc = "idle" /\ keyDialogs = [d \in {"up", "down"} |-> 0]
  /\ direction = "down" /\ motion = "none" /\ position = "down"
  /\ falls = 0 /\ blocks = 0 /\ crashes = 0 /\ switches = 0
  /\ lastSeen = "none" /\ lastCommand = "none" /\ lastGap = Delay
  /\ lastRequest = "none"
  /\ fell = FALSE
-----------------------------------------------------------------------------
(* CameraMotorService.                                                     *)

\* onCreate, at boot and again after the process has died (START_STICKY):
\* registering the callback has it called with the state of the camera.
MotorServiceStart ==
  /\ ~running /\ mainPc = "idle"
  /\ running' = TRUE
  /\ looper' = Posted(looper, camera)
  /\ sinceOpen' = Delay /\ sinceClosed' = Delay
  /\ lastSeen' = "none" /\ lastCommand' = "none" /\ lastGap' = Delay
  /\ UNCHANGED <<cameraVars, mainPc, fallVars, keyVars, motorVars, bounds, fell>>

\* Mutants: the pending message for the opposite event is left in; it is
\* removed, but nothing is sent in its place.
AvailableKeepingOpen ==
  /\ Due("closed")
  /\ sinceClosed' = 0
  /\ looper' = SentDelayed(Tail(looper), MSG_CAMERA_CLOSED)
  /\ lastSeen' = "closed" /\ lastGap' = sinceOpen
  /\ UNCHANGED <<cameraVars, running, sinceOpen, lastCommand, mainPc, fallVars,
                 keyVars, motorVars, bounds, fell>>

AvailableOnlyCancelling ==
  /\ Due("closed")
  /\ sinceClosed' = 0
  /\ looper' = IF sinceOpen < Delay /\ \E i \in DOMAIN looper : looper[i].what = MSG_CAMERA_OPEN
               THEN Removed(Tail(looper), MSG_CAMERA_OPEN)
               ELSE SentDelayed(Tail(looper), MSG_CAMERA_CLOSED)
  /\ lastSeen' = "closed" /\ lastGap' = sinceOpen
  /\ UNCHANGED <<cameraVars, running, sinceOpen, lastCommand, mainPc, fallVars,
                 keyVars, motorVars, bounds, fell>>

onCameraAvailable ==
  /\ Due("closed")
  /\ sinceClosed' = 0
  /\ looper' = SentDelayed(IF sinceOpen < Delay
                           THEN Removed(Tail(looper), MSG_CAMERA_OPEN) ELSE Tail(looper),
                           MSG_CAMERA_CLOSED)
  /\ lastSeen' = "closed" /\ lastGap' = sinceOpen
  /\ UNCHANGED <<cameraVars, running, sinceOpen, lastCommand, mainPc, fallVars,
                 keyVars, motorVars, bounds, fell>>

onCameraUnavailable ==
  /\ Due("open")
  /\ sinceOpen' = 0
  /\ looper' = SentDelayed(IF sinceClosed < Delay
                           THEN Removed(Tail(looper), MSG_CAMERA_CLOSED) ELSE Tail(looper),
                           MSG_CAMERA_OPEN)
  /\ lastSeen' = "open" /\ lastGap' = sinceClosed
  /\ UNCHANGED <<cameraVars, running, sinceClosed, lastCommand, mainPc, fallVars,
                 keyVars, motorVars, bounds, fell>>

\* handleMessage up to setMotorEnabled.
handleMessage(what, d) ==
  /\ Due(what)
  /\ looper' = Tail(looper)
  /\ setMotorDirection(d)
  /\ mainPc' = d /\ lastCommand' = d
  /\ UNCHANGED <<cameraVars, running, sinceOpen, sinceClosed, lastSeen, lastGap,
                 fallVars, keyVars, motion, position, bounds, fell>>

\* setMotorEnabled on the main thread of the app, for whichever handler wrote
\* the direction.
MainEnable ==
  /\ mainPc # "idle"
  /\ setMotorEnabled
  /\ mainPc' = "idle"
  /\ UNCHANGED <<cameraVars, serviceVars, fallVars, keyVars, direction, position,
                 bounds, fell>>
-----------------------------------------------------------------------------
(* FallSensorService and FallSensor.                                       *)

Submit(request) == tasks' = Append(tasks, request) /\ lastRequest' = request

\* onCreate and onStartCommand, which enables whatever the screen does.
FallServiceStart ==
  /\ ~sensing /\ mainPc = "idle"
  /\ sensing' = TRUE
  /\ Submit("enable")
  /\ UNCHANGED <<cameraVars, serviceVars, mainPc, registered, dialogs, keyVars,
                 motorVars, bounds, fell>>

\* ACTION_SCREEN_ON and ACTION_SCREEN_OFF.
onReceive(request) ==
  /\ sensing /\ switches < MaxScreen
  /\ Submit(request)
  /\ switches' = switches + 1
  /\ UNCHANGED <<cameraVars, serviceVars, mainPc, sensing, registered, dialogs,
                 keyVars, motorVars, falls, blocks, crashes, fell>>

\* The single thread executor.  The mutant is a pool of threads.
RunAnyTask ==
  /\ \E i \in DOMAIN tasks :
       /\ registered' = (tasks[i] = "enable")
       /\ tasks' = RemoveAt(tasks, i)
  /\ UNCHANGED <<cameraVars, serviceVars, mainPc, sensing, dialogs, lastRequest,
                 keyVars, motorVars, bounds, fell>>

RunTask ==
  /\ tasks # <<>>
  /\ registered' = (Head(tasks) = "enable")
  /\ tasks' = Tail(tasks)
  /\ UNCHANGED <<cameraVars, serviceVars, mainPc, sensing, dialogs, lastRequest,
                 keyVars, motorVars, bounds, fell>>

\* The process is gone, with all it had queued.
ProcessDies ==
  /\ running' = FALSE /\ looper' = <<>> /\ mainPc' = "idle"
  /\ sensing' = FALSE /\ tasks' = <<>> /\ registered' = FALSE /\ dialogs' = 0
  /\ UNCHANGED <<sinceOpen, sinceClosed, lastSeen, lastCommand, lastGap, lastRequest>>

\* onSensorChanged up to setMotorEnabled, with the dialog posted after it.
\* getMotorPosition returns null when the position cannot be read, and the
\* null pointer exception kills the app.
onSensorChanged ==
  /\ registered /\ mainPc = "idle" /\ falls < MaxFalls
  /\ falls' = falls + 1 /\ fell' = TRUE
  /\ \/ /\ position = "down"
        /\ UNCHANGED <<serviceVars, mainPc, fallVars, direction>>
     \/ /\ position # "down"
        /\ setMotorDirection("down")
        /\ mainPc' = "down" /\ dialogs' = dialogs + 1
        /\ UNCHANGED <<serviceVars, sensing, tasks, registered, lastRequest>>
     \/ /\ "position" \in Unreliable
        /\ ProcessDies
        /\ UNCHANGED direction
  /\ UNCHANGED <<cameraVars, keyVars, motion, position, blocks, crashes, switches>>

\* The buttons of its dialog: "Raise the camera", and "Close", which goes home.
RaiseButton ==
  /\ dialogs > 0 /\ mainPc = "idle"
  /\ dialogs' = dialogs - 1
  /\ setMotorDirection("up")
  /\ mainPc' = "up" /\ fell' = FALSE
  /\ UNCHANGED <<cameraVars, serviceVars, sensing, tasks, registered, lastRequest,
                 keyVars, motion, position, bounds>>

CloseButton ==
  /\ dialogs > 0 /\ mainPc = "idle"
  /\ dialogs' = dialogs - 1
  /\ UNCHANGED <<cameraVars, serviceVars, mainPc, sensing, tasks, registered,
                 lastRequest, keyVars, motorVars, bounds, fell>>
-----------------------------------------------------------------------------
(* KeyHandler, in system_server.                                           *)

\* MOTOR_EVENT_UP_ABNORMAL and MOTOR_EVENT_DOWN_ABNORMAL: the motor met an
\* obstruction.  Without a package context no dialog is shown.
MotorAbnormal(d) ==
  /\ motion = d /\ blocks < MaxBlocks
  /\ motion' = "none" /\ position' = "between"
  /\ blocks' = blocks + 1
  /\ \E shown \in {0, 1} : keyDialogs' = [keyDialogs EXCEPT ![d] = @ + shown]
  /\ UNCHANGED <<cameraVars, serviceVars, mainPc, fallVars, sysPc, direction, falls,
                 crashes, switches, fell>>

\* MOTOR_EVENT_MANUAL_TO_DOWN: the warning has no button that moves the motor.
ManualToDown ==
  /\ position # "down" /\ motion = "none" /\ blocks < MaxBlocks
  /\ position' = "down"
  /\ blocks' = blocks + 1
  /\ UNCHANGED <<cameraVars, serviceVars, mainPc, fallVars, keyVars, direction,
                 motion, falls, crashes, switches, fell>>

\* A button of the dialog for d that moves the motor to m: Retry, or Close in
\* the dialog about not going up.
KeyButton(d, m) ==
  /\ keyDialogs[d] > 0 /\ sysPc = "idle" /\ (m = d \/ m = "down")
  /\ keyDialogs' = [keyDialogs EXCEPT ![d] = @ - 1]
  /\ setMotorDirection(m)
  /\ sysPc' = m /\ fell' = (fell /\ m # "up")
  /\ UNCHANGED <<cameraVars, serviceVars, mainPc, fallVars, motion, position, bounds>>

SysEnable ==
  /\ sysPc # "idle"
  /\ setMotorEnabled
  /\ sysPc' = "idle"
  /\ UNCHANGED <<cameraVars, serviceVars, mainPc, fallVars, keyDialogs, direction,
                 position, bounds, fell>>
-----------------------------------------------------------------------------
(* The environment.                                                        *)

\* The front camera is opened or closed; the framework posts the callback.
CameraChange ==
  /\ changes < MaxChanges /\ changes' = changes + 1
  /\ camera' = IF camera = "open" THEN "closed" ELSE "open"
  /\ looper' = IF running THEN Posted(looper, camera') ELSE looper
  /\ fell' = (fell /\ camera = "open")
  /\ UNCHANGED <<running, sinceOpen, sinceClosed, lastSeen, lastCommand, lastGap,
                 mainPc, fallVars, keyVars, motorVars, bounds>>

\* The motor leaves its end position, and arrives.
MotorMoves ==
  /\ motion # "none"
  /\ position' = IF position \in {"between", motion} THEN motion ELSE "between"
  /\ motion' = IF position' = motion THEN "none" ELSE motion
  /\ UNCHANGED <<cameraVars, serviceVars, mainPc, fallVars, keyVars, direction,
                 bounds, fell>>

Older(age) == IF age < Delay THEN age + 1 ELSE age

\* A tick of the elapsed-time clock, in deep sleep or not.
Tick ==
  /\ sinceOpen' = Older(sinceOpen) /\ sinceClosed' = Older(sinceClosed)
  /\ \/ looper' = [i \in DOMAIN looper |->
                    [looper[i] EXCEPT !.left = IF @ > 0 THEN @ - 1 ELSE 0]]
     \/ UNCHANGED looper
  /\ UNCHANGED <<cameraVars, running, lastSeen, lastCommand, lastGap, mainPc,
                 fallVars, keyVars, motorVars, bounds, fell>>

Crash ==
  /\ crashes < MaxCrashes /\ crashes' = crashes + 1
  /\ running \/ sensing
  /\ ProcessDies
  /\ UNCHANGED <<cameraVars, keyVars, motorVars, falls, blocks, switches, fell>>
-----------------------------------------------------------------------------
CameraMotorService ==
  \/ onCameraAvailable \/ onCameraUnavailable
  \/ handleMessage(MSG_CAMERA_OPEN, "up") \/ handleMessage(MSG_CAMERA_CLOSED, "down")

Next ==
  \/ MotorServiceStart \/ CameraMotorService \/ MainEnable
  \/ FallServiceStart \/ (\E request \in {"enable", "disable"} : onReceive(request))
  \/ RunTask \/ onSensorChanged \/ RaiseButton \/ CloseButton
  \/ (\E d \in {"up", "down"} : MotorAbnormal(d)) \/ ManualToDown
  \/ (\E d, m \in {"up", "down"} : KeyButton(d, m)) \/ SysEnable
  \/ CameraChange \/ MotorMoves \/ Tick \/ Crash

Spec == Init /\ [][Next]_vars

\* The looper, the executor and system_server run what is due, Android starts
\* the persistent app's sticky services again, the motor moves, and the device
\* does not sleep for ever.
Fairness ==
  /\ WF_vars(MotorServiceStart) /\ WF_vars(FallServiceStart)
  /\ WF_vars(CameraMotorService) /\ WF_vars(MainEnable)
  /\ WF_vars(RunTask) /\ WF_vars(SysEnable) /\ WF_vars(MotorMoves)
  /\ WF_vars(Tick /\ looper' # looper)

FairSpec == Spec /\ Fairness
-----------------------------------------------------------------------------
\* The types of all variables; in particular a message is never due later than
\* CAMERA_EVENT_DELAY_TIME, and no dialog is answered twice.
TypeOK ==
  /\ camera \in {"open", "closed"} /\ running \in BOOLEAN
  /\ looper \in Seq([what : {"open", "closed", MSG_CAMERA_OPEN, MSG_CAMERA_CLOSED},
                     left : 0..Delay])
  /\ sinceOpen \in 0..Delay /\ sinceClosed \in 0..Delay /\ lastGap \in 0..Delay
  /\ mainPc \in {"idle", "up", "down"} /\ sysPc \in {"idle", "up", "down"}
  /\ sensing \in BOOLEAN /\ registered \in BOOLEAN
  /\ tasks \in Seq({"enable", "disable"})
  /\ dialogs \in Nat /\ keyDialogs \in [{"up", "down"} -> Nat]
  /\ direction \in {"up", "down"} /\ motion \in {"none", "up", "down"}
  /\ position \in {"up", "down", "between"}
  /\ changes \in Nat /\ falls \in Nat /\ blocks \in Nat /\ crashes \in Nat
  /\ switches \in Nat
  /\ lastSeen \in {"none", "open", "closed"} /\ lastCommand \in {"none", "up", "down"}
  /\ lastRequest \in {"none", "enable", "disable"} /\ fell \in BOOLEAN

IsMessage(m) == m.what \in {MSG_CAMERA_OPEN, MSG_CAMERA_CLOSED}

\* Where the motor has to be for a state of the camera, and the message that
\* takes it there.
Wanted(c)  == IF c = "open" THEN "up" ELSE "down"
Message(c) == IF c = "open" THEN MSG_CAMERA_OPEN ELSE MSG_CAMERA_CLOSED

\* However quickly the camera is opened and closed, whatever is cancelled, and
\* however late the looper is: the last message that CameraMotorService has
\* pending, or the last move it asked for if none is pending, is the one for
\* the last callback it saw.
LastEventWins ==
  running /\ lastSeen # "none" =>
    \/ /\ \A i \in DOMAIN looper : ~ IsMessage(looper[i])
       /\ lastCommand = Wanted(lastSeen)
    \/ \E i \in DOMAIN looper :
         /\ looper[i].what = Message(lastSeen)
         /\ \A j \in DOMAIN looper : j > i => ~ IsMessage(looper[j])

\* Both messages are pending only if the callbacks ran at least
\* CAMERA_EVENT_DELAY_TIME apart: a camera opened and closed at once (an app
\* that only probes it) does not make the motor go up and down.
Debounced ==
  (\E i, j \in DOMAIN looper :
     looper[i].what = MSG_CAMERA_OPEN /\ looper[j].what = MSG_CAMERA_CLOSED)
  => lastGap = Delay

\* When the executor is idle the fall sensor's listener is registered exactly
\* if the last of onStartCommand, screen on and screen off asked for it.
ListenerFollowsRequests ==
  sensing /\ tasks = <<>> => (registered <=> lastRequest = "enable")

\* Once the front camera stays open or closed the motor ends up where it has
\* to be, although the app may die in any state and the delay of a message may
\* be stretched by deep sleep.
MotorFollowsCamera ==
  \A c \in {"open", "closed"} : <>[](camera = c) => <>[](position = Wanted(c))

\* "Fall detected, ensuring front camera is closed": after a fall the motor
\* does not start to rise unless the user or a newly opened camera asks for it.
NoRiseAfterFall == [][fell /\ motion # "up" => motion' # "up"]_vars
=============================================================================
