---------------------------- MODULE AreaCapture -----------------------------
(***************************************************************************)
(* The screenshot service behind AlsCorrection (als/default): its process, *)
(* which init starts again when it dies, the registration of the service,  *)
(* the binder that the sensors HAL fetches once, and a call of             *)
(* getAreaBrightness, which averages the colour of the pixels of an area.  *)
(*                                                                         *)
(* SurfaceFlinger, the service manager and init are external.  The colour  *)
(* bytes are 0 .. Byte and the sums are modulo Word (255 and 2^32 in the   *)
(* code); an average is kept as a sum and a count.                         *)
(***************************************************************************)
EXTENDS Integers, Sequences, FiniteSets

CONSTANTS
  Configs,     \* what can be read of the grabrect property: up to four integers
  Uninit,      \* values an uninitialized integer may have
  Declared,    \* the manifest declares IAreaCapture/default
  Frame,       \* buffers SurfaceFlinger may return
  Byte, Word,
  MaxDeaths    \* bound: deaths of the service process

Channel == 0..2   \* r, g, b of an RGBA_8888 pixel

\* Rows are stride pixels long, of which w belong to the area.
ASSUME CaptureAssumption ==
  /\ Configs \subseteq Seq(Int) /\ \A c \in Configs : Len(c) <= 4
  /\ Uninit \subseteq Int
  /\ Declared \in BOOLEAN
  /\ Byte \in Nat /\ Word \in Nat \ {0} /\ MaxDeaths \in Nat
  /\ \A f \in Frame :
       /\ f.w \in Nat \ {0} /\ f.h \in Nat \ {0} /\ f.stride \in Nat /\ f.w <= f.stride
       /\ Byte * (f.w * f.h) < Word
       /\ f.out \in [0..(4 * f.stride * f.h - 1) -> 0..Byte]

VARIABLES
  grabrect,              \* the property
  server, instance,      \* the service process and how many have come up
  m_screenshot_rect,
  deaths,
  hal, service,          \* the sensors HAL: constructor done?  its binder
  step,                  \* where a call of getAreaBrightness is
  frame, x, y, sum,
  exact,                 \* history: the sums without their modulus
  answer                 \* the last answer AlsCorrection got

procVars == <<grabrect, server, instance, m_screenshot_rect, deaths>>
callVars == <<frame, x, y, sum, exact>>
vars == <<procVars, hal, service, step, callVars, answer>>

NoRect   == <<0, 0, 0, 0>>
NoBinder == 0
Zero     == [c \in Channel |-> 0]
NoFrame  == [w |-> 0, h |-> 0]
Failed   == [ok |-> FALSE, sum |-> Zero, max |-> 0, of |-> NoFrame]

Init ==
  /\ grabrect \in Configs
  /\ server = "down" /\ instance = 0 /\ m_screenshot_rect = NoRect
  /\ deaths = 0
  /\ hal = "init" /\ service = NoBinder
  /\ step = "idle" /\ frame = NoFrame /\ x = 0 /\ y = 0 /\ sum = Zero /\ exact = Zero
  /\ answer = Failed
-----------------------------------------------------------------------------
(* The service process.                                                    *)

\* Is the area that was read taken for none?  The mutant never does.
NeverMissing(left) == FALSE

Missing(left) == left = 0

\* init starts the process and main calls the constructor.  What the property
\* does not give stays uninitialized; LOG_ALWAYS_FATAL aborts.
Start ==
  /\ server = "down"
  /\ \E u \in [1..4 -> Uninit] :
       LET read == [i \in 1..4 |-> IF i <= Len(grabrect) THEN grabrect[i] ELSE u[i]]
       IN  IF Missing(read[1])
           THEN UNCHANGED <<server, instance, m_screenshot_rect>>
           ELSE /\ server' = "constructed" /\ instance' = instance + 1
                /\ m_screenshot_rect' = read
  /\ UNCHANGED <<grabrect, deaths, hal, service, step, callVars, answer>>

\* The mutant joins the thread pool without registering the service.
addServiceForgotten == server = "constructed" /\ UNCHANGED vars

addService ==
  /\ server = "constructed"
  /\ server' = "registered"
  /\ UNCHANGED <<grabrect, instance, m_screenshot_rect, deaths, hal, service, step, callVars,
                 answer>>

\* The process dies, at any point: a call under way fails at the client.
Die ==
  /\ server # "down" /\ deaths < MaxDeaths
  /\ server' = "down" /\ m_screenshot_rect' = NoRect /\ deaths' = deaths + 1
  /\ step' = "idle"
  /\ answer' = IF step = "idle" THEN answer ELSE Failed
  /\ UNCHANGED <<grabrect, instance, hal, service, callVars>>
-----------------------------------------------------------------------------
(* The sensors HAL.                                                        *)

\* The end of AlsCorrection::init, which waits for a declared service.  The
\* mutant takes what there is.
initWithoutWaiting ==
  /\ hal = "init"
  /\ service' = IF Declared /\ server = "registered" THEN instance ELSE service
  /\ hal' = "running"
  /\ UNCHANGED <<procVars, step, callVars, answer>>

init ==
  /\ hal = "init"
  /\ IF Declared THEN server = "registered" /\ service' = instance
     ELSE UNCHANGED service
  /\ hal' = "running"
  /\ UNCHANGED <<procVars, step, callVars, answer>>

\* process needs a screenshot: without a binder, or with one of a process that
\* has died, the call fails at once.
Call ==
  /\ hal = "running" /\ step = "idle"
  /\ IF service # NoBinder /\ service = instance /\ server = "registered"
     THEN step' = "capture" /\ UNCHANGED answer
     ELSE answer' = Failed /\ UNCHANGED step
  /\ UNCHANGED <<procVars, hal, service, callVars>>
-----------------------------------------------------------------------------
(* getAreaBrightness.                                                      *)

\* captureDisplay, then waitForResults and the fence: either may fail.  The mutant
\* tries again.
CaptureRetried ==
  /\ step \in {"capture", "fence"}
  /\ \/ step' = "capture" /\ UNCHANGED <<answer, callVars>>
     \/ step = "capture" /\ step' = "fence" /\ UNCHANGED <<answer, callVars>>
     \/ /\ step = "fence" /\ step' = "sum"
        /\ frame' \in Frame /\ x' = 0 /\ y' = 0 /\ sum' = Zero /\ exact' = Zero
        /\ UNCHANGED answer
  /\ UNCHANGED <<procVars, hal, service>>

Capture ==
  /\ step \in {"capture", "fence"}
  /\ \/ step' = "idle" /\ answer' = Failed /\ UNCHANGED callVars
     \/ step = "capture" /\ step' = "fence" /\ UNCHANGED <<answer, callVars>>
     \/ /\ step = "fence" /\ step' = "sum"
        /\ frame' \in Frame /\ x' = 0 /\ y' = 0 /\ sum' = Zero /\ exact' = Zero
        /\ UNCHANGED answer
  /\ UNCHANGED <<procVars, hal, service>>

\* The byte of channel c of the pixel at (x, y).  The mutant takes rows to be as
\* long as the area is wide.
OutWithoutStride(c) == frame.out[y * (frame.w * 4) + x * 4 + c]

Out(c) == frame.out[y * (frame.stride * 4) + x * 4 + c]

\* The mutant adds the bytes in 16 bits where the code has 32 (here: in a quarter
\* of the word).
AddNarrow(a, b) == (a + b) % (Word \div 4)

Add(a, b) == (a + b) % Word

SumPixel ==
  /\ step = "sum" /\ y < frame.h /\ x < frame.w
  /\ sum' = [c \in Channel |-> Add(sum[c], Out(c))]
  /\ exact' = [c \in Channel |-> exact[c] + Out(c)]
  /\ x' = x + 1
  /\ UNCHANGED <<procVars, hal, service, step, frame, y, answer>>

NextRow ==
  /\ step = "sum" /\ y < frame.h /\ x = frame.w
  /\ x' = 0 /\ y' = y + 1
  /\ UNCHANGED <<procVars, hal, service, step, frame, sum, exact, answer>>

Return ==
  /\ step = "sum" /\ ~ (y < frame.h)
  /\ answer' = [ok |-> TRUE, sum |-> sum, max |-> frame.w * frame.h, of |-> frame]
  /\ step' = "idle" /\ frame' = NoFrame /\ x' = 0 /\ y' = 0 /\ sum' = Zero /\ exact' = Zero
  /\ UNCHANGED <<procVars, hal, service>>

getAreaBrightness == Capture \/ SumPixel \/ NextRow \/ Return
-----------------------------------------------------------------------------
Next == Start \/ addService \/ Die \/ init \/ Call \/ getAreaBrightness

Spec == Init /\ [][Next]_vars

\* init restarts the service, its process and the HAL's constructor are
\* scheduled, and SurfaceFlinger answers.  The process need not die, and nobody
\* needs to ask for a screenshot.
FairSpec ==
  /\ Spec
  /\ WF_vars(Start) /\ WF_vars(addService) /\ WF_vars(init) /\ WF_vars(getAreaBrightness)
-----------------------------------------------------------------------------
\* The types of all variables; the loop stays within the area, and the HAL has
\* the binder of a declared service when its constructor is done.
TypeOK ==
  /\ grabrect \in Configs
  /\ server \in {"down", "constructed", "registered"} /\ instance \in Nat /\ deaths \in Nat
  /\ server # "down" => instance > 0
  /\ hal \in {"init", "running"} /\ service \in 0..instance
  /\ Declared /\ hal = "running" <=> service # NoBinder
  /\ step \in {"idle", "capture", "fence", "sum"}
  /\ x \in Nat /\ y \in Nat /\ sum \in [Channel -> Nat] /\ exact \in [Channel -> Nat]
  /\ step = "sum" => frame \in Frame /\ x <= frame.w /\ y <= frame.h

\* No sum wraps around, at any pixel of an area of any size, as long as a white
\* area of that size fits into the word; so every average is a byte.
SumsExact ==
  /\ sum = exact
  /\ answer.ok => \A c \in Channel : answer.sum[c] <= Byte * answer.max

\* The pixels of a frame that belong to the area.
Area(f) == (0..(f.w - 1)) \X (0..(f.h - 1))

\* The light of the pixels in P in channel c: one element for each pixel and each
\* number up to its byte, so that there are as many as the bytes add up to.
Light(f, P, c) ==
  {t \in P \X (1..Byte) : t[2] <= f.out[4 * (f.stride * t[1][2] + t[1][1]) + c]}

\* Every answer is the average over the pixels of the area, each counted once, and
\* over nothing else: neither padding nor alpha bytes, nor what an earlier call or
\* an earlier process of the service had added up.
AverageOfArea ==
  answer.ok =>
    /\ answer.max = Cardinality(Area(answer.of))
    /\ \A c \in Channel :
         answer.sum[c] = Cardinality(Light(answer.of, Area(answer.of), c))

\* No answer is about an area nobody configured, however often the service was
\* started.
AnswerNeedsConfig == answer.ok => grabrect # <<>>

\* An area that starts at the left edge is taken for none.
Configured == Len(grabrect) > 0 /\ grabrect[1] # 0

\* The constructor of the sensors HAL, which waits for the service, comes to its
\* end, although the service may die before, while and after it is waited for.
HalComesUp == (Configured \/ ~Declared) ~> (hal = "running")

\* A call that got through to the service is answered, with success or failure.
CallsReturn == (step # "idle") ~> (step = "idle")
=============================================================================
