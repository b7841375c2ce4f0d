--------------------------- MODULE AlsCorrection ----------------------------
(***************************************************************************)
(* The correction of the under-display light sensor (AlsCorrection.cpp):   *)
(* the light of the screen above the sensor, estimated from a screenshot   *)
(* of the area (IAreaCapture), is subtracted from the reading.  Because a  *)
(* screenshot is expensive, readings are throttled, and a corrected value  *)
(* is reused while the readings stay within a hysteresis window.           *)
(*                                                                         *)
(* process runs under HalProxy's mEventQueueWriteMutex, so one call is one *)
(* step.  Readings and lux are integers and gains whole numbers; times are *)
(* ages in ticks, which stop growing at MaxAge.  hysteresis_ranges is      *)
(* divided by the gains in init; here the table stays and the reading is   *)
(* multiplied by "scale" where the two are compared.  What the screenshot  *)
(* and event.u.data[2] contribute is a choice: an estimate of the screen's *)
(* light between 0 and that of a white screen, and a gain.                 *)
(***************************************************************************)
EXTENDS Integers, Sequences

CONSTANTS
  UpdateInterval,   \* ms2ns(100)
  ForceInterval,    \* s2ns(3)
  MaxAge,           \* bound: ages grow up to this
  Bias,             \* conf.bias
  CalibGain,        \* conf.calib_gain
  BaseGain,         \* conf.sensor_inverse_gain[0]
  Gains,            \* conf.sensor_inverse_gain
  MaxBrightness,    \* conf.max_brightness
  MaxWhite,         \* conf.rgbw_max_lux[3]
  Readings,         \* raw readings of the sensor
  NumWiseLight      \* sensors of type SENSOR_TYPE_QTI_WISE_LIGHT

ASSUME AlsAssumption ==
  /\ UpdateInterval \in Nat \ {0} /\ ForceInterval \in Nat \ {0}
  /\ MaxAge \in Nat /\ MaxAge > ForceInterval /\ MaxAge >= UpdateInterval
  /\ Bias \in Nat /\ CalibGain \in Nat \ {0}
  /\ Gains \subseteq Nat \ {0} /\ BaseGain \in Gains
  /\ MaxBrightness \in Nat \ {0} /\ MaxWhite \in Nat
  /\ Readings \subseteq Nat /\ NumWiseLight \in Nat

VARIABLES
  inits, scale, service,                \* init: calls, divisor, IAreaCapture
  started,                              \* state.last_update # 0
  sinceUpdate, sinceForced,             \* ages of last_update, last_forced_update
  force_update,
  hyst_min, hyst_max,                   \* both times scale
  last_corrected_value, last_agc_gain,
  event,                                \* history: the event processed last
  sinceValue, sinceReport               \* history: ages of last_corrected_value and
                                        \* of the last event that was not dropped
confVars  == <<inits, scale, service>>
valueVars == <<hyst_min, hyst_max, last_corrected_value, last_agc_gain, sinceValue>>
vars == <<confVars, started, sinceUpdate, sinceForced, force_update, valueVars,
          event, sinceReport>>
-----------------------------------------------------------------------------
Huge == 100000000   \* HUGE_VALF

\* The table, with hysteresis_ranges[0].min as init leaves it.
hysteresis_ranges == <<
  [middle |-> 0,     min |-> -1,   max |-> 4],
  [middle |-> 7,     min |-> 1,    max |-> 12],
  [middle |-> 15,    min |-> 5,    max |-> 30],
  [middle |-> 30,    min |-> 10,   max |-> 50],
  [middle |-> 360,   min |-> 25,   max |-> 700],
  [middle |-> 1200,  min |-> 300,  max |-> 1600],
  [middle |-> 2250,  min |-> 1000, max |-> 2940],
  [middle |-> 4600,  min |-> 2000, max |-> 5900],
  [middle |-> 10000, min |-> 4000, max |-> 80000],
  [middle |-> Huge,  min |-> 8000, max |-> Huge] >>

\* The first range that reaches the corrected value x.
RangeFor(x) ==
  hysteresis_ranges[CHOOSE i \in 1..10 : /\ x <= hysteresis_ranges[i].middle
                                         /\ \A j \in 1..(i - 1) : x > hysteresis_ranges[j].middle]

Positive(x) == IF x > 0 THEN x ELSE 0   \* std::max(x, 0)

\* The bias is only subtracted from readings above it.  The mutant always
\* subtracts it.
UnbiasedAlways(raw) == raw - Bias

Unbiased(raw) == IF raw > Bias THEN raw - Bias ELSE raw

\* brightness_fullwhite.
FullWhite(brightness) == (MaxWhite * brightness) \div MaxBrightness

\* The gains that the automatic gain control may have used.
AgcGains(corrected) == IF corrected * BaseGain > 800 THEN Gains ELSE {BaseGain}
-----------------------------------------------------------------------------
Init ==
  /\ inits = 0 /\ scale = 1 /\ service = FALSE
  /\ started = FALSE /\ sinceUpdate = MaxAge /\ sinceForced = MaxAge
  /\ force_update = TRUE
  /\ hyst_min = -1 /\ hyst_max = -1
  /\ last_corrected_value = 0 /\ last_agc_gain = 0
  /\ event = [kind |-> "none", scalar |-> 0, lit |-> FALSE, gap |-> MaxAge, age |-> MaxAge]
  /\ sinceValue = MaxAge /\ sinceReport = MaxAge

\* AlsCorrection::init, once per wise light sensor, while the sensor list is
\* built and before any event.  The service may not be declared.
init ==
  /\ inits < NumWiseLight /\ ~started
  /\ inits' = inits + 1
  /\ scale' = scale * CalibGain * BaseGain
  /\ service' \in BOOLEAN
  /\ UNCHANGED <<started, sinceUpdate, sinceForced, force_update, valueVars, event,
                 sinceReport>>
-----------------------------------------------------------------------------
(* AlsCorrection::process, in four outcomes.                               *)

\* Lines 183-191: is a screenshot overdue?
Overdue(brightness) == started /\ brightness > 0 /\ sinceForced > ForceInterval

\* The reading is outside the window, and dark or bright enough to matter.
Outside(scalar) ==
  /\ scalar * scale < hyst_min \/ scalar * scale > hyst_max
  /\ LET calibrated == scalar * CalibGain * last_agc_gain
     IN  calibrated < 10 \/ 7 * calibrated > 500

\* Lines 192-197.  The mutant does not throttle while a screenshot is due.
TooFastUnlessForced == started /\ sinceUpdate < UpdateInterval /\ ~force_update

TooFast == started /\ sinceUpdate < UpdateInterval

Prologue(brightness) ==
  /\ inits = NumWiseLight /\ inits > 0
  /\ started' = TRUE
  /\ sinceForced' = IF ~started \/ Overdue(brightness) THEN 0 ELSE sinceForced

Dropped(raw, brightness) ==
  /\ event' = [kind |-> "dropped", scalar |-> Unbiased(raw), lit |-> brightness > 0,
               gap |-> sinceReport, age |-> sinceValue]
  /\ UNCHANGED <<confVars, valueVars, sinceReport>>

Reported(kind, raw, brightness) ==
  /\ event' = [kind |-> kind, scalar |-> Unbiased(raw), lit |-> brightness > 0,
               gap |-> sinceReport, age |-> sinceValue']
  /\ sinceReport' = 0
  /\ UNCHANGED confVars

\* Events come too fast: dropped.  The mutant forgets that a screenshot became
\* due with the event it drops.
ProcessTooFastForgetting(raw, brightness) ==
  /\ Prologue(brightness) /\ TooFast
  /\ Dropped(raw, brightness)
  /\ UNCHANGED <<sinceUpdate, force_update>>

ProcessTooFast(raw, brightness) ==
  /\ Prologue(brightness) /\ TooFast
  /\ force_update' = (force_update \/ Overdue(brightness))
  /\ Dropped(raw, brightness)
  /\ UNCHANGED sinceUpdate

\* A screenshot is needed and cannot be taken: dropped, still needed.  The
\* mutant forgets that it is needed.
ProcessCaptureGivenUp(raw, brightness) ==
  /\ Prologue(brightness) /\ ~TooFast
  /\ force_update \/ Overdue(brightness) \/ Outside(Unbiased(raw))
  /\ sinceUpdate' = 0
  /\ force_update' = FALSE
  /\ Dropped(raw, brightness)

ProcessCaptureFails(raw, brightness) ==
  /\ Prologue(brightness) /\ ~TooFast
  /\ force_update \/ Overdue(brightness) \/ Outside(Unbiased(raw))
  /\ sinceUpdate' = 0
  /\ force_update' = (force_update \/ Overdue(brightness))
  /\ Dropped(raw, brightness)

\* Lines 262-273: a new value and a new window for it.  The mutant forgets that
\* the screen adds to the readings.
ComputeWithoutScreen(scalar, estimate, gain, brightness) ==
  LET corrected == Positive(scalar - estimate) * CalibGain * gain
  IN  /\ hyst_min' = RangeFor(corrected).min
      /\ hyst_max' = RangeFor(corrected).max
      /\ last_corrected_value' = Positive(corrected - 14)
      /\ last_agc_gain' = gain
      /\ sinceValue' = 0

Compute(scalar, estimate, gain, brightness) ==
  LET corrected == Positive(scalar - estimate) * CalibGain * gain
  IN  /\ hyst_min' = RangeFor(corrected).min
      /\ hyst_max' = RangeFor(corrected).max + FullWhite(brightness) * scale
      /\ last_corrected_value' = Positive(corrected - 14)
      /\ last_agc_gain' = gain
      /\ sinceValue' = 0

\* A screenshot is taken and gives an estimate of the screen's light; the value
\* is computed anew unless the estimate is implausible.
ProcessCorrected(raw, brightness) ==
  LET scalar == Unbiased(raw)
      force  == force_update \/ Overdue(brightness)
  IN  /\ Prologue(brightness) /\ ~TooFast /\ service
      /\ force \/ Outside(scalar)
      /\ \E estimate \in 0..FullWhite(brightness) :
           \E gain \in AgcGains(Positive(scalar - estimate)) :
             LET plausible == \/ 100 * estimate <= 135 * scalar
                              \/ scalar * CalibGain * gain < 10000
                              \/ force
             IN  \/ /\ plausible
                    /\ Compute(scalar, estimate, gain, brightness)
                    /\ Reported("computed", raw, brightness)
                 \/ /\ ~plausible
                    /\ UNCHANGED valueVars
                    /\ Reported("cached", raw, brightness)
      /\ sinceUpdate' = 0
      /\ force_update' = FALSE

\* The last value is reported again.
ProcessCached(raw, brightness) ==
  /\ Prologue(brightness) /\ ~TooFast
  /\ ~(force_update \/ Overdue(brightness) \/ Outside(Unbiased(raw)))
  /\ sinceUpdate' = 0
  /\ UNCHANGED <<valueVars, force_update>>
  /\ Reported("cached", raw, brightness)

process(raw, brightness) ==
  \/ ProcessTooFast(raw, brightness) \/ ProcessCaptureFails(raw, brightness)
  \/ ProcessCorrected(raw, brightness) \/ ProcessCached(raw, brightness)
-----------------------------------------------------------------------------
Older(age) == IF age < MaxAge THEN age + 1 ELSE age

\* Time passes.
Tick ==
  /\ sinceUpdate' = Older(sinceUpdate) /\ sinceForced' = Older(sinceForced)
  /\ sinceValue' = Older(sinceValue) /\ sinceReport' = Older(sinceReport)
  /\ UNCHANGED <<confVars, started, force_update, hyst_min, hyst_max,
                 last_corrected_value, last_agc_gain, event>>

Next ==
  \/ init
  \/ \E raw \in Readings, brightness \in 0..MaxBrightness : process(raw, brightness)
  \/ Tick

Spec == Init /\ [][Next]_vars
-----------------------------------------------------------------------------
\* The types of all variables; in particular no reading becomes negative.
TypeOK ==
  /\ inits \in Nat /\ scale \in Nat \ {0} /\ service \in BOOLEAN
  /\ started \in BOOLEAN /\ force_update \in BOOLEAN
  /\ sinceUpdate \in 0..MaxAge /\ sinceForced \in 0..MaxAge
  /\ hyst_min \in Int /\ hyst_max \in Int
  /\ last_corrected_value \in Nat /\ last_agc_gain \in Nat
  /\ event \in [kind : {"none", "dropped", "computed", "cached"}, scalar : Nat,
                lit : BOOLEAN, gap : 0..MaxAge, age : 0..MaxAge]
  /\ sinceValue \in 0..MaxAge /\ sinceReport \in 0..MaxAge

IsReported == event.kind \in {"computed", "cached"}

\* A reading reported under a lit screen is corrected by a screenshot that is at
\* most ForceInterval old, whatever was throttled, failed or found implausible
\* since, and however long the screen was dark.
FreshWhenLit == IsReported /\ event.lit => event.age <= ForceInterval

\* The initial last_corrected_value is never reported: until a first screenshot
\* succeeds every reading is dropped.
NothingBeforeCapture == IsReported => last_agc_gain # 0

\* Readings that are reported are at least UpdateInterval apart.
Throttled == IsReported => event.gap >= UpdateInterval

\* A value computed with the base gain has a window that holds the reading it
\* was computed from, whatever the screen added to that reading: an unchanged
\* reading does not call for another screenshot.
WindowHoldsReading ==
  event.kind = "computed" /\ last_agc_gain = BaseGain =>
    hyst_min <= event.scalar * scale /\ event.scalar * scale <= hyst_max
=============================================================================
