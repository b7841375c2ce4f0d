------------------------ MODULE AlsCorrectionProofs -------------------------
(***************************************************************************)
(* Proofs about AlsCorrection: how old a reported value can be, that none  *)
(* is made up, and how far apart reports are, for all intervals, gains,    *)
(* readings and brightnesses.                                              *)
(***************************************************************************)
EXTENDS AlsCorrection, TLAPS

\* The part of the types that the proofs need.  The window is not in it: no
\* proof below depends on when a reading is outside.
AgesOK ==
  /\ started \in BOOLEAN /\ force_update \in BOOLEAN
  /\ sinceUpdate \in 0..MaxAge /\ sinceForced \in 0..MaxAge
  /\ sinceValue \in 0..MaxAge /\ sinceReport \in 0..MaxAge

\* As long as no screenshot is due the value is not older than the last forced
\* update, and there is a value.
ValueIsCurrent ==
  ~force_update => started /\ sinceValue <= sinceForced /\ last_agc_gain # 0

\* Every report is an update.
ReportsAreUpdates ==
  IF started THEN sinceUpdate <= sinceReport ELSE sinceReport = MaxAge

FreshInv ==
  /\ AgesOK /\ ValueIsCurrent /\ ReportsAreUpdates
  /\ FreshWhenLit /\ NothingBeforeCapture /\ Throttled
-----------------------------------------------------------------------------
\* The gain that the automatic gain control picks is never zero.
LEMMA GainPositive ==
  ASSUME NEW c, NEW gain \in AgcGains(c)
  PROVE  gain # 0
BY AlsAssumption DEF AgcGains

\* Growing older keeps ages in range and in order.
LEMMA OlderFacts ==
  ASSUME NEW a \in 0..MaxAge, NEW b \in 0..MaxAge
  PROVE  /\ Older(a) \in 0..MaxAge
         /\ a <= b => Older(a) <= Older(b)
         /\ a = MaxAge => Older(a) = MaxAge
BY AlsAssumption DEF Older

LEMMA FreshInit == Init => FreshInv
<1>1. SUFFICES ASSUME Init PROVE FreshInv
  OBVIOUS
<1>2. AgesOK /\ ValueIsCurrent /\ ReportsAreUpdates
  <2>1. started = FALSE /\ force_update = TRUE
    BY <1>1 DEF Init
  <2>2. /\ sinceUpdate \in 0..MaxAge /\ sinceForced \in 0..MaxAge
        /\ sinceValue \in 0..MaxAge /\ sinceReport \in 0..MaxAge
        /\ sinceReport = MaxAge
    BY <1>1, AlsAssumption DEF Init
  <2>. QED  BY <2>1, <2>2, Zenon DEF AgesOK, ValueIsCurrent, ReportsAreUpdates
<1>3. event.kind = "none"
  BY <1>1 DEF Init
<1>4. FreshWhenLit /\ NothingBeforeCapture /\ Throttled
  BY <1>3 DEF FreshWhenLit, NothingBeforeCapture, Throttled, IsReported
<1>. QED  BY <1>2, <1>4 DEF FreshInv

\* init touches none of the ages.
LEMMA FreshByInit ==
  ASSUME FreshInv, init
  PROVE  FreshInv'
BY DEF init, valueVars, FreshInv, AgesOK, ValueIsCurrent, ReportsAreUpdates,
   FreshWhenLit, NothingBeforeCapture, Throttled, IsReported

\* Time passing makes all ages grow alike.
LEMMA FreshByTick ==
  ASSUME FreshInv, Tick
  PROVE  FreshInv'
<1>1. AgesOK /\ ValueIsCurrent /\ ReportsAreUpdates
  BY DEF FreshInv
<1>2. AgesOK'
  BY <1>1, OlderFacts, Tick DEF Tick, AgesOK
<1>3. ValueIsCurrent'
  <2>1. SUFFICES ASSUME ~force_update
                 PROVE  started' /\ sinceValue' <= sinceForced' /\ last_agc_gain' # 0
    BY Tick DEF Tick, ValueIsCurrent
  <2>2. started /\ sinceValue <= sinceForced /\ last_agc_gain # 0
    BY <1>1, <2>1 DEF ValueIsCurrent
  <2>3. Older(sinceValue) <= Older(sinceForced)
    BY <1>1, <2>2, OlderFacts DEF AgesOK
  <2>. QED  BY <2>2, <2>3, Tick DEF Tick
<1>4. ReportsAreUpdates'
  <2>1. /\ sinceUpdate <= sinceReport => Older(sinceUpdate) <= Older(sinceReport)
        /\ sinceReport = MaxAge => Older(sinceReport) = MaxAge
    BY <1>1, OlderFacts DEF AgesOK
  <2>. QED  BY <1>1, <2>1, Tick DEF Tick, ReportsAreUpdates
<1>5. (FreshWhenLit /\ NothingBeforeCapture /\ Throttled)'
  BY Tick DEF FreshInv, Tick, FreshWhenLit, NothingBeforeCapture, Throttled, IsReported
<1>. QED  BY <1>2, <1>3, <1>4, <1>5 DEF FreshInv

\* A dropped event leaves the value alone; if it made a screenshot due, that is
\* remembered.
LEMMA FreshByDrop ==
  ASSUME NEW raw \in Readings, NEW brightness \in 0..MaxBrightness, FreshInv,
         ProcessTooFast(raw, brightness) \/ ProcessCaptureFails(raw, brightness)
  PROVE  FreshInv'
<1>1. AgesOK /\ ValueIsCurrent /\ ReportsAreUpdates
  BY DEF FreshInv
<1>2. /\ Prologue(brightness) /\ Dropped(raw, brightness)
      /\ force_update' = (force_update \/ Overdue(brightness))
      /\ sinceUpdate' = 0 \/ (sinceUpdate' = sinceUpdate /\ started)
  BY DEF ProcessTooFast, ProcessCaptureFails, TooFast
<1>3. /\ started' = TRUE /\ sinceValue' = sinceValue /\ sinceReport' = sinceReport
      /\ last_agc_gain' = last_agc_gain
  BY <1>2 DEF Prologue, Dropped, valueVars
<1>4. AgesOK' /\ ValueIsCurrent'
  <2>1. CASE Overdue(brightness)
    <3>1. force_update' = TRUE /\ sinceForced' = 0
      BY <1>2, <2>1 DEF Prologue
    <3>2. AgesOK'
      BY <1>1, <1>2, <1>3, <3>1, AlsAssumption DEF AgesOK
    <3>. QED  BY <3>1, <3>2 DEF ValueIsCurrent
  <2>2. CASE ~Overdue(brightness)
    <3>1. force_update' = force_update
      BY <1>1, <1>2, <2>2 DEF AgesOK
    <3>2. sinceForced' = 0 \/ sinceForced' = sinceForced
      BY <1>2 DEF Prologue
    <3>3. AgesOK'
      BY <1>1, <1>2, <1>3, <3>1, <3>2, AlsAssumption DEF AgesOK
    <3>4. started => sinceForced' = sinceForced
      BY <1>2, <2>2 DEF Prologue
    <3>5. ValueIsCurrent'
      BY <1>1, <1>3, <3>1, <3>4 DEF ValueIsCurrent
    <3>. QED  BY <3>3, <3>5
  <2>. QED  BY <2>1, <2>2
<1>6. ReportsAreUpdates'
  BY <1>1, <1>2, <1>3, AlsAssumption DEF AgesOK, ReportsAreUpdates
<1>7. (FreshWhenLit /\ NothingBeforeCapture /\ Throttled)'
  <2>1. event'.kind = "dropped"
    BY <1>2 DEF Dropped
  <2>. QED  BY <2>1 DEF FreshWhenLit, NothingBeforeCapture, Throttled, IsReported
<1>. QED  BY <1>4, <1>6, <1>7 DEF FreshInv

\* A report comes at least UpdateInterval after the one before, whether or not
\* its value is new.
LEMMA FreshByReport ==
  ASSUME NEW raw \in Readings, NEW brightness \in 0..MaxBrightness, FreshInv,
         NEW kind \in {"computed", "cached"},
         Prologue(brightness), ~TooFast, Reported(kind, raw, brightness),
         sinceUpdate' = 0, force_update' = FALSE,
         \/ sinceValue' = 0 /\ last_agc_gain' # 0
         \/ /\ sinceValue' = sinceValue /\ last_agc_gain' = last_agc_gain
            /\ ~force_update /\ ~Overdue(brightness)
  PROVE  FreshInv'
<1>1. AgesOK /\ ValueIsCurrent /\ ReportsAreUpdates
  BY DEF FreshInv
<1>2. started' = TRUE /\ sinceReport' = 0
  BY DEF Prologue, Reported
<1>3. sinceForced' = 0 \/ sinceForced' = sinceForced
  BY DEF Prologue
<1>4. AgesOK'
  <2>1. /\ sinceUpdate' \in 0..MaxAge /\ sinceForced' \in 0..MaxAge
        /\ sinceValue' \in 0..MaxAge /\ sinceReport' \in 0..MaxAge
    BY <1>1, <1>2, <1>3, AlsAssumption DEF AgesOK
  <2>. QED  BY <1>2, <2>1, Zenon DEF AgesOK
<1>5. sinceValue' <= sinceForced' /\ last_agc_gain' # 0
      /\ (brightness > 0 => sinceValue' <= ForceInterval)
  <2>1. CASE sinceValue' = 0 /\ last_agc_gain' # 0
    BY <1>1, <1>3, <2>1, AlsAssumption DEF AgesOK
  <2>2. CASE /\ sinceValue' = sinceValue /\ last_agc_gain' = last_agc_gain
             /\ ~force_update /\ ~Overdue(brightness)
    <3>1. started /\ sinceValue <= sinceForced /\ last_agc_gain # 0
      BY <1>1, <2>2 DEF ValueIsCurrent
    <3>2. sinceForced' = sinceForced
      BY <2>2, <3>1 DEF Prologue
    <3>3. brightness > 0 => sinceForced <= ForceInterval
      BY <1>1, <2>2, <3>1, AlsAssumption DEF Overdue, AgesOK
    <3>. QED  BY <1>1, <2>2, <3>1, <3>2, <3>3, AlsAssumption DEF AgesOK
  <2>. QED  BY <2>1, <2>2
<1>6. ValueIsCurrent' /\ ReportsAreUpdates'
  BY <1>2, <1>5 DEF ValueIsCurrent, ReportsAreUpdates
<1>7. sinceReport >= UpdateInterval
  BY <1>1, AlsAssumption DEF TooFast, AgesOK, ReportsAreUpdates
<1>8. /\ event'.lit = (brightness > 0) /\ event'.gap = sinceReport
      /\ event'.age = sinceValue'
  BY DEF Reported
<1>9. (FreshWhenLit /\ NothingBeforeCapture /\ Throttled)'
  BY <1>5, <1>7, <1>8 DEF FreshWhenLit, NothingBeforeCapture, Throttled, IsReported
<1>. QED  BY <1>4, <1>6, <1>9 DEF FreshInv

LEMMA FreshByCorrected ==
  ASSUME NEW raw \in Readings, NEW brightness \in 0..MaxBrightness, FreshInv,
         ProcessCorrected(raw, brightness)
  PROVE  FreshInv'
<1>1. Prologue(brightness) /\ ~TooFast /\ sinceUpdate' = 0 /\ force_update' = FALSE
  BY DEF ProcessCorrected
<1>2. PICK estimate, gain :
        /\ gain \in AgcGains(Positive(Unbiased(raw) - estimate))
        /\ \/ /\ Compute(Unbiased(raw), estimate, gain, brightness)
              /\ Reported("computed", raw, brightness)
           \/ /\ ~(force_update \/ Overdue(brightness))
              /\ UNCHANGED valueVars
              /\ Reported("cached", raw, brightness)
  BY DEF ProcessCorrected
<1>3. CASE /\ Compute(Unbiased(raw), estimate, gain, brightness)
           /\ Reported("computed", raw, brightness)
  <2>1. sinceValue' = 0 /\ last_agc_gain' = gain
    BY <1>3 DEF Compute
  <2>2. gain # 0
    BY <1>2, GainPositive
  <2>. QED  BY <1>1, <1>3, <2>1, <2>2, FreshByReport
<1>4. CASE /\ ~(force_update \/ Overdue(brightness))
           /\ UNCHANGED valueVars
           /\ Reported("cached", raw, brightness)
  <2>1. sinceValue' = sinceValue /\ last_agc_gain' = last_agc_gain
    BY <1>4 DEF valueVars
  <2>. QED  BY <1>1, <1>4, <2>1, FreshByReport
<1>. QED  BY <1>2, <1>3, <1>4

LEMMA FreshByCached ==
  ASSUME NEW raw \in Readings, NEW brightness \in 0..MaxBrightness, FreshInv,
         ProcessCached(raw, brightness)
  PROVE  FreshInv'
<1>1. /\ Prologue(brightness) /\ ~TooFast /\ sinceUpdate' = 0
      /\ ~force_update /\ ~Overdue(brightness) /\ Reported("cached", raw, brightness)
  BY DEF ProcessCached
<1>2. sinceValue' = sinceValue /\ last_agc_gain' = last_agc_gain /\ force_update' = force_update
  BY DEF ProcessCached, valueVars
<1>3. force_update' = FALSE
  BY <1>1, <1>2 DEF FreshInv, AgesOK
<1>. QED  BY <1>1, <1>2, <1>3, FreshByReport

LEMMA FreshNext == FreshInv /\ [Next]_vars => FreshInv'
<1>1. SUFFICES ASSUME FreshInv, [Next]_vars PROVE FreshInv'
  OBVIOUS
<1>2. CASE init
  BY <1>1, <1>2, FreshByInit
<1>3. CASE Tick
  BY <1>1, <1>3, FreshByTick
<1>4. ASSUME NEW raw \in Readings, NEW brightness \in 0..MaxBrightness,
             process(raw, brightness)
      PROVE  FreshInv'
  BY <1>1, <1>4, FreshByDrop, FreshByCorrected, FreshByCached DEF process
<1>5. CASE UNCHANGED vars
  BY <1>1, <1>5 DEF vars, confVars, valueVars, FreshInv, AgesOK, ValueIsCurrent,
     ReportsAreUpdates, FreshWhenLit, NothingBeforeCapture, Throttled, IsReported
<1>. QED  BY <1>1, <1>2, <1>3, <1>4, <1>5 DEF Next

\* A reading that AlsCorrection::process reports under a lit screen is corrected
\* by a value computed at most three seconds before, none is reported before a
\* first screenshot, and reports are at least 100 ms apart: for every setting of
\* the intervals and of the calibration, and whatever captures fail.
THEOREM ReportedValuesFresh == Spec => [](FreshWhenLit /\ NothingBeforeCapture /\ Throttled)
<1>1. FreshInv => FreshWhenLit /\ NothingBeforeCapture /\ Throttled
  BY DEF FreshInv
<1>. QED  BY <1>1, FreshInit, FreshNext, PTL DEF Spec

\* The same, one property at a time: no value is made up before a first screenshot.
THEOREM NothingBeforeCaptureAlways == Spec => []NothingBeforeCapture
BY ReportedValuesFresh, PTL

\* Reports keep the distance of UpdateInterval.
THEOREM ThrottledAlways == Spec => []Throttled
BY ReportedValuesFresh, PTL
-----------------------------------------------------------------------------
(* The window.                                                             *)

\* The row of hysteresis_ranges that is chosen for a value holds the value.
LEMMA RangeHolds ==
  ASSUME NEW v \in Nat, v <= Huge
  PROVE  /\ RangeFor(v).min \in Int /\ RangeFor(v).max \in Int
         /\ RangeFor(v).min <= v /\ v <= RangeFor(v).max
<1> DEFINE Row(i) == /\ v <= hysteresis_ranges[i].middle
                     /\ \A j \in 1..(i - 1) : v > hysteresis_ranges[j].middle
           Holds(i) == /\ hysteresis_ranges[i].min \in Int /\ hysteresis_ranges[i].max \in Int
                       /\ hysteresis_ranges[i].min <= v /\ v <= hysteresis_ranges[i].max
<1>1. \E i \in 1..10 : Row(i)
  BY DEF hysteresis_ranges, Huge
<1>2. ASSUME NEW i \in 1..10, Row(i) PROVE Holds(i)
  BY <1>2 DEF hysteresis_ranges, Huge
<1> DEFINE c == CHOOSE i \in 1..10 : Row(i)
<1>3. c \in 1..10 /\ Row(c)
  BY <1>1
<1>4. Holds(c)
  BY <1>2, <1>3
<1>5. RangeFor(v) = hysteresis_ranges[c]
  BY DEF RangeFor
<1>. QED  BY <1>4, <1>5

\* Multiplication by a scale is monotonic.
LEMMA Scaled ==
  ASSUME NEW a \in Int, NEW b \in Int, NEW k \in Nat, a <= b
  PROVE  a * k <= b * k
OBVIOUS

\* The window around a value that was computed with the base gain.
LEMMA WindowByCompute ==
  ASSUME NEW scalar \in Nat, NEW k \in Nat, NEW white \in Int, NEW estimate \in 0..white,
         scalar * k <= Huge
  PROVE  LET corrected == Positive(scalar - estimate) * k
         IN  /\ RangeFor(corrected).min <= scalar * k
             /\ scalar * k <= RangeFor(corrected).max + white * k
<1> DEFINE part == Positive(scalar - estimate)
           corrected == part * k
<1>1. part \in Nat /\ part <= scalar /\ scalar - estimate <= part
  BY DEF Positive
<1>2. corrected \in Nat /\ corrected <= scalar * k /\ scalar * k \in Nat
  BY <1>1, Scaled
<1>3. (scalar - estimate) * k <= corrected
  BY <1>1, Scaled
<1>4. estimate * k <= white * k
  BY Scaled
<1>5. scalar * k <= corrected + white * k
  <2>1. (scalar - estimate) * k = scalar * k - estimate * k
    OBVIOUS
  <2>. QED  BY <1>2, <1>3, <1>4, <2>1
<1>6. corrected <= Huge
  BY <1>2 DEF Huge
<1>7. /\ RangeFor(corrected).min \in Int /\ RangeFor(corrected).max \in Int
      /\ RangeFor(corrected).min <= corrected /\ corrected <= RangeFor(corrected).max
  BY <1>2, <1>6, RangeHolds
<1>. QED  BY <1>2, <1>5, <1>7

\* init has divided the table once before any value is computed.
WindowInv ==
  /\ inits \in {0, 1}
  /\ scale = IF inits = 0 THEN 1 ELSE CalibGain * BaseGain
  /\ event.kind = "computed" => inits = 1
  /\ WindowHoldsReading

\* With one wise light sensor, for every calibration and all readings below the
\* value that stands for HUGE_VALF: the hysteresis window of a computed value holds
\* the reading it was computed from, whatever part of it the screen contributed.
THEOREM WindowHoldsReadingAlways ==
  ASSUME NumWiseLight = 1, \A r \in Readings : r * (CalibGain * BaseGain) <= Huge
  PROVE  Spec => []WindowHoldsReading
<1>1. Init => WindowInv
  BY DEF Init, WindowInv, WindowHoldsReading
<1>2. WindowInv /\ [Next]_vars => WindowInv'
  <2> SUFFICES ASSUME WindowInv, [Next]_vars PROVE WindowInv'
    OBVIOUS
  <2>1. CASE init
    BY <2>1, AlsAssumption DEF init, valueVars, WindowInv, WindowHoldsReading
  <2>2. CASE Tick \/ UNCHANGED vars
    BY <2>2 DEF Tick, vars, confVars, valueVars, WindowInv, WindowHoldsReading
  <2>3. ASSUME NEW raw \in Readings, NEW brightness \in 0..MaxBrightness,
               \/ Dropped(raw, brightness)
               \/ Reported("cached", raw, brightness)
        PROVE  WindowInv'
    BY <2>3 DEF Dropped, Reported, confVars, WindowInv, WindowHoldsReading
  <2>4. ASSUME NEW raw \in Readings, NEW brightness \in 0..MaxBrightness,
               NEW estimate \in 0..FullWhite(brightness), NEW gain,
               inits = 1, Compute(Unbiased(raw), estimate, gain, brightness),
               Reported("computed", raw, brightness)
        PROVE  WindowInv'
    <3> DEFINE scalar == Unbiased(raw)
               k == CalibGain * BaseGain
    <3>1. UNCHANGED <<inits, scale>> /\ event'.kind = "computed" /\ event'.scalar = scalar
      BY <2>4 DEF Reported, confVars
    <3>2. scale = k
      BY <2>4 DEF WindowInv
    <3>3. scalar \in Nat /\ scalar <= raw /\ raw \in Nat /\ k \in Nat
      BY AlsAssumption DEF Unbiased
    <3>4. scalar * k <= Huge
      <4>1. scalar * k <= raw * k /\ scalar * k \in Nat /\ raw * k \in Nat
        BY <3>3, Scaled
      <4>. QED  BY <4>1 DEF Huge
    <3>5. FullWhite(brightness) \in Int
      BY AlsAssumption DEF FullWhite
    <3>6. CASE gain = BaseGain
      <4> DEFINE corrected == Positive(scalar - estimate) * k
      <4>1. Positive(scalar - estimate) * CalibGain * BaseGain = corrected
        BY <3>3, AlsAssumption DEF Positive
      <4>2. /\ hyst_min' = RangeFor(corrected).min
            /\ hyst_max' = RangeFor(corrected).max + FullWhite(brightness) * scale
        BY <2>4, <3>6, <4>1 DEF Compute
      <4>3. hyst_min' <= scalar * k /\ scalar * k <= hyst_max'
        BY <3>2, <3>3, <3>4, <3>5, <4>2, WindowByCompute
      <4>. QED  BY <2>4, <3>1, <3>2, <4>3 DEF WindowInv, WindowHoldsReading
    <3>7. CASE gain # BaseGain
      <4>1. last_agc_gain' # BaseGain
        BY <2>4, <3>7 DEF Compute
      <4>. QED  BY <2>4, <3>1, <4>1 DEF WindowInv, WindowHoldsReading
    <3>. QED  BY <3>6, <3>7
  <2>5. ASSUME NEW raw \in Readings, NEW brightness \in 0..MaxBrightness,
               ProcessCorrected(raw, brightness)
        PROVE  WindowInv'
    <3>1. inits = 1
      BY <2>5 DEF ProcessCorrected, Prologue
    <3>2. \/ Reported("cached", raw, brightness)
          \/ \E estimate \in 0..FullWhite(brightness) : \E gain :
               /\ Compute(Unbiased(raw), estimate, gain, brightness)
               /\ Reported("computed", raw, brightness)
      BY <2>5 DEF ProcessCorrected
    <3>. QED  BY <2>3, <2>4, <3>1, <3>2
  <2>6. ASSUME NEW raw \in Readings, NEW brightness \in 0..MaxBrightness,
               process(raw, brightness)
        PROVE  WindowInv'
    BY <2>3, <2>5, <2>6 DEF process, ProcessTooFast, ProcessCaptureFails, ProcessCached
  <2>. QED  BY <2>1, <2>2, <2>6 DEF Next
<1>3. WindowInv => WindowHoldsReading
  BY DEF WindowInv
<1>. QED  BY <1>1, <1>2, <1>3, PTL DEF Spec
-----------------------------------------------------------------------------
(* Types.                                                                  *)

\* The parts of TypeOK that AgesOK leaves.
ConfOK  == inits \in Nat /\ scale \in Nat \ {0} /\ service \in BOOLEAN
ValueOK ==
  /\ hyst_min \in Int /\ hyst_max \in Int
  /\ last_corrected_value \in Nat /\ last_agc_gain \in Nat
EventOK == event \in [kind : {"none", "dropped", "computed", "cached"}, scalar : Nat,
                      lit : BOOLEAN, gap : 0..MaxAge, age : 0..MaxAge]

LEMMA TypeParts == TypeOK <=> AgesOK /\ ConfOK /\ ValueOK /\ EventOK
BY DEF TypeOK, AgesOK, ConfOK, ValueOK, EventOK

LEMMA EventType ==
  ASSUME NEW k \in {"none", "dropped", "computed", "cached"}, NEW s \in Nat, NEW l \in BOOLEAN,
         NEW g \in 0..MaxAge, NEW a \in 0..MaxAge
  PROVE  [kind |-> k, scalar |-> s, lit |-> l, gap |-> g, age |-> a]
           \in [kind : {"none", "dropped", "computed", "cached"}, scalar : Nat,
                lit : BOOLEAN, gap : 0..MaxAge, age : 0..MaxAge]
OBVIOUS

\* No reading becomes negative when the bias is taken off.
LEMMA UnbiasedIsNat ==
  ASSUME NEW raw \in Readings
  PROVE  Unbiased(raw) \in Nat /\ Unbiased(raw) <= raw /\ raw \in Nat
BY AlsAssumption DEF Unbiased

\* The first init and every other one keep the divisor of the table positive.
LEMMA ConfByInit ==
  ASSUME ConfOK, init
  PROVE  ConfOK'
<1>1. CalibGain \in Nat \ {0} /\ BaseGain \in Nat \ {0}
  BY AlsAssumption
<1>2. \A a, b \in Nat \ {0} : a * b \in Nat \ {0}
  OBVIOUS
<1>3. scale * CalibGain * BaseGain \in Nat \ {0}
  BY <1>1, <1>2 DEF ConfOK
<1>. QED  BY <1>3 DEF init, ConfOK

\* A computed value and its window are numbers: the value is found in the table.
LEMMA ValueByCompute ==
  ASSUME \A r \in Readings, g \in Gains : r * CalibGain * g <= Huge, ConfOK,
         NEW raw \in Readings, NEW brightness \in 0..MaxBrightness,
         NEW estimate \in 0..FullWhite(brightness), NEW gain \in Gains,
         Compute(Unbiased(raw), estimate, gain, brightness)
  PROVE  ValueOK'
<1> DEFINE scalar == Unbiased(raw)
           part == Positive(scalar - estimate)
           k == CalibGain * gain
           corrected == part * CalibGain * gain
<1>1. scalar \in Nat /\ scalar <= raw /\ raw \in Nat
  BY UnbiasedIsNat
<1>2. gain \in Nat /\ CalibGain \in Nat /\ k \in Nat
  BY AlsAssumption
<1>3. FullWhite(brightness) \in Int /\ scale \in Nat
  BY AlsAssumption DEF FullWhite, ConfOK
<1>4. part \in Nat /\ part <= raw
  BY <1>1, <1>3 DEF Positive
<1>5. corrected = part * k /\ raw * CalibGain * gain = raw * k
  BY <1>1, <1>2, <1>4
<1>6. part * k <= raw * k /\ part * k \in Nat /\ raw * k \in Nat
  BY <1>1, <1>2, <1>4, Scaled
<1>7. corrected \in Nat /\ corrected <= Huge
  BY <1>5, <1>6 DEF Huge
<1> HIDE DEF corrected
<1>8. RangeFor(corrected).min \in Int /\ RangeFor(corrected).max \in Int
  BY <1>7, RangeHolds
<1>9. FullWhite(brightness) * scale \in Int
  BY <1>3
<1>10. Positive(corrected - 14) \in Nat
  BY <1>7 DEF Positive
<1>11. /\ hyst_min' = RangeFor(corrected).min
       /\ hyst_max' = RangeFor(corrected).max + FullWhite(brightness) * scale
       /\ last_corrected_value' = Positive(corrected - 14)
       /\ last_agc_gain' = gain
  BY DEF Compute, corrected
<1>. QED  BY <1>2, <1>8, <1>9, <1>10, <1>11 DEF ValueOK

\* The record of an event is well formed.
LEMMA EventBy ==
  ASSUME AgesOK, AgesOK', NEW raw \in Readings, NEW brightness \in 0..MaxBrightness,
         \/ Dropped(raw, brightness)
         \/ \E kind \in {"computed", "cached"} : Reported(kind, raw, brightness)
  PROVE  EventOK' /\ UNCHANGED confVars
<1>1. Unbiased(raw) \in Nat
  BY UnbiasedIsNat
<1>2. (brightness > 0) \in BOOLEAN
  OBVIOUS
<1>3. sinceReport \in 0..MaxAge /\ sinceValue \in 0..MaxAge /\ sinceValue' \in 0..MaxAge
  BY DEF AgesOK
<1>4. PICK k \in {"dropped", "computed", "cached"}, a \in {sinceValue, sinceValue'} :
        event' = [kind |-> k, scalar |-> Unbiased(raw), lit |-> (brightness > 0),
                  gap |-> sinceReport, age |-> a]
  BY DEF Dropped, Reported
<1>5. EventOK'
  BY <1>1, <1>2, <1>3, <1>4, EventType, Zenon DEF EventOK
<1>. QED  BY <1>5 DEF Dropped, Reported

\* AlsCorrection.TypeOK holds in every reachable state, as long as the calibrated
\* readings stay below the value that stands for HUGE_VALF: ages stay in range, the
\* divisor of the table stays positive, every corrected value is found in
\* hysteresis_ranges, and neither a reading nor a reported value is negative.
THEOREM AlsTypeCorrect ==
  ASSUME \A r \in Readings, g \in Gains : r * CalibGain * g <= Huge
  PROVE  Spec => []TypeOK
<1> DEFINE Typed == FreshInv /\ ConfOK /\ ValueOK /\ EventOK
<1>1. Init => Typed
  <2> SUFFICES ASSUME Init PROVE ConfOK /\ ValueOK /\ EventOK
    BY FreshInit
  <2>1. MaxAge \in 0..MaxAge
    BY AlsAssumption
  <2>2. EventOK
    BY <2>1, EventType, 0 \in Nat, FALSE \in BOOLEAN, Zenon DEF Init, EventOK
  <2>3. service = FALSE
    BY DEF Init
  <2>4. inits \in Nat /\ scale \in Nat \ {0} /\ ValueOK
    BY DEF Init, ValueOK
  <2>. QED  BY <2>2, <2>3, <2>4 DEF ConfOK
<1>2. Typed /\ [Next]_vars => Typed'
  <2> SUFFICES ASSUME Typed, [Next]_vars PROVE ConfOK' /\ ValueOK' /\ EventOK'
    BY FreshNext
  <2>1. AgesOK /\ AgesOK'
    BY FreshNext DEF FreshInv
  <2>2. CASE init
    BY <2>2, ConfByInit DEF init, valueVars, ValueOK, EventOK
  <2>3. CASE Tick \/ UNCHANGED vars
    BY <2>3 DEF Tick, vars, confVars, valueVars, ConfOK, ValueOK, EventOK
  <2>4. ASSUME NEW raw \in Readings, NEW brightness \in 0..MaxBrightness,
               process(raw, brightness)
        PROVE  ConfOK' /\ ValueOK' /\ EventOK'
    <3>1. \/ Dropped(raw, brightness)
          \/ \E kind \in {"computed", "cached"} : Reported(kind, raw, brightness)
      BY <2>4 DEF process, ProcessTooFast, ProcessCaptureFails, ProcessCorrected, ProcessCached
    <3>2. EventOK' /\ ConfOK'
      BY <2>1, <3>1, EventBy DEF confVars, ConfOK
    <3>3. \/ UNCHANGED valueVars
          \/ \E estimate \in 0..FullWhite(brightness) :
               \E gain \in AgcGains(Positive(Unbiased(raw) - estimate)) :
                 Compute(Unbiased(raw), estimate, gain, brightness)
      BY <2>4 DEF process, ProcessTooFast, ProcessCaptureFails, ProcessCorrected,
         ProcessCached, Dropped
    <3>4. \A c : AgcGains(c) \subseteq Gains
      BY AlsAssumption DEF AgcGains
    <3>5. ValueOK'
      BY <3>3, <3>4, ValueByCompute DEF valueVars, ValueOK
    <3>. QED  BY <3>2, <3>5
  <2>. QED  BY <2>2, <2>3, <2>4 DEF Next
<1>3. Typed => TypeOK
  BY TypeParts DEF FreshInv
<1>. QED  BY <1>1, <1>2, <1>3, PTL DEF Spec
=============================================================================
