------------------------- MODULE AreaCaptureProofs --------------------------
(***************************************************************************)
(* Theorems about AreaCapture, for areas and buffers of every size.        *)
(***************************************************************************)
EXTENDS AreaCapture, FiniteSetTheorems, TLAPS

LEMMA RowsBelow ==
  ASSUME NEW a \in Nat, NEW b \in Nat, NEW s \in Nat, a < b
  PROVE  a * s \in Nat /\ b * s \in Nat /\ a * s + s <= b * s
<1> DEFINE d == b - (a + 1)
<1>1. d \in Nat /\ b = (a + 1) + d
  OBVIOUS
<1>2. d * s \in Nat /\ a * s \in Nat /\ b * s \in Nat
  BY <1>1
<1>3. b * s = a * s + s + d * s
  BY <1>1
<1> QED BY <1>2, <1>3

LEMMA ModSmall ==
  ASSUME NEW a \in Nat, NEW b \in Nat \ {0}
  PROVE  a % b \in Nat /\ (a < b => a % b = a)
  BY SMT

\* The byte the loop reads lies in the buffer.
LEMMA OutIsByte ==
  ASSUME TypeOK, step = "sum", y < frame.h, x < frame.w, NEW c \in Channel
  PROVE  Out(c) \in 0..Byte
<1>1. /\ frame \in Frame /\ frame.w \in Nat /\ frame.h \in Nat /\ frame.stride \in Nat
      /\ frame.w <= frame.stride /\ x \in Nat /\ y \in Nat
      /\ frame.out \in [0..(4 * frame.stride * frame.h - 1) -> 0..Byte]
  BY CaptureAssumption DEF TypeOK
<1>2. /\ y * frame.stride \in Nat /\ frame.h * frame.stride \in Nat
      /\ y * frame.stride + frame.stride <= frame.h * frame.stride
  BY <1>1, RowsBelow
<1>3. /\ y * (frame.stride * 4) = 4 * (y * frame.stride)
      /\ 4 * frame.stride * frame.h = 4 * (frame.h * frame.stride)
  BY <1>1
<1>4. y * (frame.stride * 4) + x * 4 + c \in 0..(4 * frame.stride * frame.h - 1)
  <2> DEFINE p == y * frame.stride
             q == frame.h * frame.stride
             s == frame.stride
  <2>1. p \in Nat /\ q \in Nat /\ s \in Nat /\ p + s <= q /\ x < s /\ x \in Nat /\ c \in 0..2
    BY <1>1, <1>2 DEF Channel
  <2> HIDE DEF p, q, s
  <2>2. 4 * p + x * 4 + c \in 0..(4 * q - 1)
    BY <2>1
  <2> QED BY <1>3, <2>2 DEF p, q
<1> QED BY <1>1, <1>4 DEF Out

LEMMA TypeInit == Init => TypeOK
  BY DEF Init, TypeOK, Zero, Channel, NoBinder

LEMMA TypeStep == TypeOK /\ [Next]_vars => TypeOK'
<1> SUFFICES ASSUME TypeOK, [Next]_vars PROVE TypeOK'
  OBVIOUS
<1> USE DEF TypeOK, procVars, callVars
<1>1. CASE Start
  <2>1. \/ UNCHANGED <<server, instance>>
        \/ server' = "constructed" /\ instance' = instance + 1
    BY <1>1 DEF Start
  <2> QED BY <1>1, <2>1 DEF Start
<1>2. CASE addService
  BY <1>2 DEF addService
<1>3. CASE Die
  BY <1>3 DEF Die
<1>4. CASE init
  <2>1. hal' = "running" /\ service' \in 0..instance /\ (Declared <=> service' # NoBinder)
    <3>1. Declared \/ ~ Declared
      OBVIOUS
    <3>2. CASE Declared
      BY <1>4, <3>2 DEF init, NoBinder
    <3> QED BY <1>4, <3>1, <3>2 DEF init
  <2> QED BY <1>4, <2>1 DEF init
<1>5. CASE Call
  BY <1>5 DEF Call
<1>6. CASE Capture
  BY <1>6, CaptureAssumption DEF Capture, Zero, Channel
<1>7. CASE SumPixel
  <2>1. \A c \in Channel : Out(c) \in Nat
    BY <1>7, OutIsByte DEF SumPixel
  <2>2. \A c \in Channel : Add(sum[c], Out(c)) \in Nat
    BY <2>1, CaptureAssumption, ModSmall DEF Add
  <2>3. sum' \in [Channel -> Nat] /\ exact' \in [Channel -> Nat]
    BY <1>7, <2>1, <2>2 DEF SumPixel
  <2> QED BY <1>7, <2>3, CaptureAssumption DEF SumPixel
<1>8. CASE NextRow
  BY <1>8, CaptureAssumption DEF NextRow
<1>9. CASE Return
  BY <1>9 DEF Return, Zero, Channel
<1>10. CASE UNCHANGED vars
  BY <1>10 DEF vars
<1> QED BY <1>1, <1>2, <1>3, <1>4, <1>5, <1>6, <1>7, <1>8, <1>9, <1>10
        DEF Next, getAreaBrightness

\* In every reachable state the loop is within the area, and a constructed HAL
\* has the binder of a declared service.
THEOREM CaptureTypeCorrect == Spec => []TypeOK
  BY TypeInit, TypeStep, PTL DEF Spec
-----------------------------------------------------------------------------
\* The sums are bounded by the pixels seen so far; that is what keeps them below
\* the word.
Seen == y * frame.w + x

LoopInv ==
  /\ sum = exact
  /\ step = "sum" => \A c \in Channel : exact[c] <= Byte * Seen
  /\ step = "sum" /\ y = frame.h => x = 0
  /\ answer.ok => \A c \in Channel : answer.sum[c] <= Byte * answer.max

LEMMA LoopPixel ==
  ASSUME TypeOK, LoopInv, SumPixel
  PROVE  LoopInv'
<1>1. /\ frame \in Frame /\ frame.w \in Nat /\ frame.h \in Nat /\ x \in Nat /\ y \in Nat
      /\ Byte \in Nat /\ Word \in Nat /\ Byte * (frame.w * frame.h) < Word
      /\ step = "sum" /\ y < frame.h /\ x < frame.w
      /\ frame' = frame /\ y' = y /\ x' = x + 1 /\ step' = "sum" /\ answer' = answer
  BY CaptureAssumption DEF TypeOK, SumPixel
<1>2. Seen \in Nat /\ Seen + 1 <= frame.w * frame.h /\ Seen' = Seen + 1
  <2>1. y * frame.w \in Nat /\ y * frame.w + frame.w <= frame.h * frame.w
    BY <1>1, RowsBelow
  <2> QED BY <1>1, <2>1 DEF Seen
<1>3. Byte * (Seen + 1) = Byte * Seen + Byte /\ Byte * Seen \in Nat
  BY <1>1, <1>2
<1>4. Byte * (Seen + 1) <= Byte * (frame.w * frame.h)
  <2> DEFINE n == Seen
             m == frame.w * frame.h
  <2>1. n + 1 \in Nat /\ m \in Nat /\ n + 1 <= m
    BY <1>1, <1>2
  <2> HIDE DEF n, m
  <2>2. m - (n + 1) \in Nat
    BY <2>1
  <2>3. Byte * (m - (n + 1)) \in Nat /\ Byte * m = Byte * (n + 1) + Byte * (m - (n + 1))
    BY <1>1, <2>1, <2>2
  <2>4. Byte * (n + 1) \in Nat /\ Byte * m \in Nat
    BY <1>1, <2>1
  <2>5. Byte * (n + 1) <= Byte * m
    BY <2>3, <2>4
  <2> QED BY <2>5 DEF n, m
<1>5. ASSUME NEW c \in Channel
      PROVE  /\ Out(c) \in Nat /\ exact[c] + Out(c) <= Byte * (Seen + 1)
             /\ Add(sum[c], Out(c)) = exact[c] + Out(c)
  <2>1. Out(c) \in 0..Byte
    BY <1>1, OutIsByte
  <2>2. exact[c] \in Nat /\ sum[c] = exact[c] /\ exact[c] <= Byte * Seen
    BY <1>1 DEF TypeOK, LoopInv
  <2>3. Out(c) \in Nat /\ exact[c] + Out(c) <= Byte * (Seen + 1)
    BY <1>1, <1>3, <2>1, <2>2
  <2>4. exact[c] + Out(c) < Word
    BY <1>1, <1>2, <1>3, <1>4, <2>2, <2>3
  <2>5. (exact[c] + Out(c)) % Word = exact[c] + Out(c)
    BY <2>2, <2>3, <2>4, CaptureAssumption, ModSmall
  <2> QED BY <2>2, <2>3, <2>5 DEF Add
<1>6. sum' = exact'
  BY <1>5 DEF SumPixel
<1>7. \A c \in Channel : exact'[c] <= Byte * Seen'
  BY <1>2, <1>5 DEF SumPixel
<1>8. y' = frame'.h => x' = 0
  BY <1>1
<1> QED BY <1>1, <1>6, <1>7, <1>8 DEF LoopInv

LEMMA LoopStep ==
  ASSUME TypeOK, LoopInv, [Next]_vars
  PROVE  LoopInv'
<1>1. CASE Start \/ addService \/ init \/ UNCHANGED vars
  <2>1. UNCHANGED <<step, frame, x, y, sum, exact, answer>>
    BY <1>1 DEF Start, addService, init, vars, callVars
  <2> QED BY <2>1 DEF LoopInv, Seen
<1>2. CASE Die \/ Call
  <2>1. /\ UNCHANGED <<sum, exact>> /\ step' # "sum"
        /\ answer' = answer \/ answer' = Failed
    BY <1>2 DEF Die, Call, callVars
  <2> QED BY <2>1 DEF LoopInv, Failed
<1>3. CASE Capture
  <2>1. CASE /\ UNCHANGED callVars /\ step' # "sum"
             /\ answer' = answer \/ answer' = Failed
    BY <2>1 DEF LoopInv, Failed, callVars
  <2>2. CASE /\ step' = "sum" /\ frame' \in Frame
             /\ x' = 0 /\ y' = 0 /\ sum' = Zero /\ exact' = Zero /\ answer' = answer
    <3>1. frame'.w \in Nat /\ frame'.h # 0 /\ Byte \in Nat
      BY <2>2, CaptureAssumption
    <3>2. Seen' = 0
      BY <2>2, <3>1 DEF Seen
    <3>3. \A c \in Channel : exact'[c] <= Byte * 0
      BY <2>2, <3>1 DEF Zero
    <3> QED BY <2>2, <3>1, <3>2, <3>3 DEF LoopInv
  <2> QED BY <1>3, <2>1, <2>2 DEF Capture, callVars
<1>4. CASE SumPixel
  BY <1>4, LoopPixel
<1>5. CASE NextRow
  <2>1. /\ frame.w \in Nat /\ y \in Nat /\ x = frame.w /\ x' = 0 /\ y' = y + 1
        /\ UNCHANGED <<frame, step, sum, exact, answer>>
    BY <1>5, CaptureAssumption DEF NextRow, TypeOK
  <2>2. (y + 1) * frame.w + 0 = y * frame.w + frame.w
    BY <2>1
  <2>3. Seen' = Seen
    BY <2>1, <2>2 DEF Seen
  <2> QED BY <2>1, <2>3 DEF LoopInv
<1>6. CASE Return
  <2>1. /\ frame.w \in Nat /\ frame.h \in Nat /\ y = frame.h /\ x = 0
        /\ step = "sum" /\ step' = "idle" /\ sum' = exact'
        /\ answer'.sum = sum /\ answer'.max = frame.w * frame.h
    BY <1>6, CaptureAssumption DEF Return, TypeOK, LoopInv
  <2>2. Seen = frame.w * frame.h
    BY <2>1 DEF Seen
  <2>3. \A c \in Channel : sum[c] <= Byte * Seen
    BY <2>1 DEF LoopInv
  <2> QED BY <2>1, <2>2, <2>3 DEF LoopInv
<1> QED BY <1>1, <1>2, <1>3, <1>4, <1>5, <1>6 DEF Next, getAreaBrightness

\* The 32-bit sums of getAreaBrightness never wrap around, so that every colour
\* it returns is the average of bytes, for every size of the area for which 255
\* times the number of pixels fits into 32 bits.
THEOREM SumsExactAlways == Spec => []SumsExact
<1>1. Init => LoopInv
  BY DEF Init, LoopInv, Failed
<1>2. TypeOK /\ LoopInv /\ [Next]_vars => LoopInv'
  BY LoopStep
<1>3. LoopInv => SumsExact
  BY DEF LoopInv, SumsExact
<1> QED BY <1>1, <1>2, <1>3, CaptureTypeCorrect, PTL DEF Spec
-----------------------------------------------------------------------------
ConfigInv ==
  /\ server # "down" => grabrect # <<>>
  /\ step # "idle" => server = "registered"
  /\ answer.ok => grabrect # <<>>

\* On a build that initializes automatic variables with zero, an answer is never
\* about an area that nobody configured.
THEOREM AnswerNeedsConfigAlways ==
  ASSUME Uninit = {0}
  PROVE  Spec => []AnswerNeedsConfig
<1>1. Init => ConfigInv
  BY DEF Init, ConfigInv, Failed
<1>2. TypeOK /\ ConfigInv /\ [Next]_vars => ConfigInv'
  <2> SUFFICES ASSUME TypeOK, ConfigInv, [Next]_vars PROVE ConfigInv'
    OBVIOUS
  <2> USE DEF ConfigInv, procVars
  <2>1. CASE Start
    <3>1. UNCHANGED <<step, answer, grabrect>> /\ server = "down"
      BY <2>1 DEF Start
    <3>2. grabrect = <<>> => server' = server
      <4> SUFFICES ASSUME grabrect = <<>> PROVE server' = server
        OBVIOUS
      <4>1. PICK u \in [1..4 -> Uninit] :
              LET read == [i \in 1..4 |-> IF i <= Len(grabrect) THEN grabrect[i] ELSE u[i]]
              IN  Missing(read[1]) => server' = server
        BY <2>1 DEF Start
      <4>2. Len(grabrect) = 0 /\ u[1] = 0
        OBVIOUS
      <4> QED BY <4>1, <4>2 DEF Missing
    <3> QED BY <3>1, <3>2
  <2>2. CASE addService
    BY <2>2 DEF addService
  <2>3. CASE Die
    BY <2>3 DEF Die, Failed
  <2>4. CASE init
    BY <2>4 DEF init
  <2>5. CASE Call
    BY <2>5 DEF Call, Failed
  <2>6. CASE getAreaBrightness
    <3>1. UNCHANGED procVars /\ step # "idle"
      BY <2>6 DEF getAreaBrightness, Capture, SumPixel, NextRow, Return
    <3> QED BY <3>1
  <2>7. CASE UNCHANGED vars
    BY <2>7 DEF vars
  <2> QED BY <2>1, <2>2, <2>3, <2>4, <2>5, <2>6, <2>7 DEF Next
<1>3. ConfigInv => AnswerNeedsConfig
  BY DEF ConfigInv, AnswerNeedsConfig
<1> QED BY <1>1, <1>2, <1>3, CaptureTypeCorrect, PTL DEF Spec
-----------------------------------------------------------------------------
(* What the sums are about.                                                *)

\* The pixels the loop has been at.
Visited == {p \in Area(frame) : p[2] < y \/ (p[2] = y /\ p[1] < x)}

AverageInv ==
  /\ step = "sum" => \A c \in Channel : exact[c] = Cardinality(Light(frame, Visited, c))
  /\ AverageOfArea

\* An area is a finite set of as many pixels as its sides say.
LEMMA AreaFinite ==
  ASSUME NEW f \in Frame
  PROVE  IsFiniteSet(Area(f)) /\ Cardinality(Area(f)) = f.w * f.h
<1>1. f.w \in Nat /\ f.h \in Nat
  BY CaptureAssumption
<1>2. /\ IsFiniteSet(0..(f.w - 1)) /\ Cardinality(0..(f.w - 1)) = f.w
      /\ IsFiniteSet(0..(f.h - 1)) /\ Cardinality(0..(f.h - 1)) = f.h
  <2>1. ASSUME NEW n \in Nat
        PROVE  IsFiniteSet(0..(n - 1)) /\ Cardinality(0..(n - 1)) = n
    <3>1. 0 \in Int /\ n - 1 \in Int
      OBVIOUS
    <3>2. IsFiniteSet(0..(n - 1)) /\ Cardinality(0..(n - 1)) = IF 0 > n - 1 THEN 0 ELSE (n - 1) - 0 + 1
      BY <3>1, FS_Interval
    <3> QED BY <3>2
  <2> QED BY <1>1, <2>1
<1> QED BY <1>2, FS_Product DEF Area

\* So is its light.
LEMMA LightFinite ==
  ASSUME NEW f, NEW P, IsFiniteSet(P), NEW c
  PROVE  IsFiniteSet(Light(f, P, c))
<1>1. IsFiniteSet(1..Byte)
  <2>1. 1 \in Int /\ Byte \in Int
    BY CaptureAssumption
  <2> QED BY <2>1, FS_Interval
<1>2. IsFiniteSet(P \X (1..Byte))
  BY <1>1, FS_Product
<1>3. Light(f, P, c) \in SUBSET (P \X (1..Byte))
  BY DEF Light
<1> QED BY <1>2, <1>3, FS_Subset

\* One more pixel adds its byte to the light.
LEMMA LightOfOneMore ==
  ASSUME NEW f, NEW P, IsFiniteSet(P), NEW p, p \notin P, NEW c, NEW b \in 0..Byte,
         b = f.out[4 * (f.stride * p[2] + p[1]) + c]
  PROVE  Cardinality(Light(f, P \cup {p}, c)) = Cardinality(Light(f, P, c)) + b
<1> DEFINE one == {p} \X (1..b)
           old == Light(f, P, c)
           byte(q) == f.out[4 * (f.stride * q[2] + q[1]) + c]
<1>1. b \in Nat /\ Byte \in Nat
  BY CaptureAssumption
<1>2. \A k \in 1..Byte : k <= b <=> k \in 1..b
  BY <1>1
<1>3. 1..b \subseteq 1..Byte
  BY <1>1
<1>4. Light(f, P \cup {p}, c) = old \cup one
  <2>1. \A Q : Light(f, Q, c) = {t \in Q \X (1..Byte) : t[2] <= byte(t[1])}
    BY DEF Light
  <2>2. byte(p) = b
    OBVIOUS
  <2> HIDE DEF byte
  <2>3. ASSUME NEW q, NEW k
        PROVE  <<q, k>> \in Light(f, P \cup {p}, c) <=> <<q, k>> \in old \cup one
    BY <1>2, <1>3, <2>1, <2>2
  <2>4. /\ \A t \in Light(f, P \cup {p}, c) : t = <<t[1], t[2]>>
        /\ \A t \in old \cup one : t = <<t[1], t[2]>>
    BY <2>1
  <2> HIDE DEF old, one
  <2>5. ASSUME NEW t
        PROVE  t \in Light(f, P \cup {p}, c) <=> t \in old \cup one
    <3>1. <<t[1], t[2]>> \in Light(f, P \cup {p}, c) <=> <<t[1], t[2]>> \in old \cup one
      BY <2>3
    <3> QED BY <2>4, <3>1
  <2> DEFINE new == Light(f, P \cup {p}, c)
  <2>6. \A t : t \in new <=> t \in old \cup one
    BY <2>5
  <2> HIDE DEF new
  <2>7. new = old \cup one
    BY <2>6
  <2> QED BY <2>7 DEF new
<1>5. IsFiniteSet(one) /\ Cardinality(one) = b
  <2>1. IsFiniteSet(1..b) /\ Cardinality(1..b) = b
    <3>1. 1 \in Int /\ b \in Int
      BY <1>1
    <3>2. IsFiniteSet(1..b) /\ Cardinality(1..b) = IF 1 > b THEN 0 ELSE b - 1 + 1
      BY <3>1, FS_Interval
    <3> QED BY <1>1, <3>2
  <2>2. IsFiniteSet({p}) /\ Cardinality({p}) = 1
    BY FS_Singleton
  <2> DEFINE A == {p}
             B == 1..b
  <2>3. IsFiniteSet(A) /\ Cardinality(A) = 1 /\ IsFiniteSet(B) /\ Cardinality(B) = b
    BY <2>1, <2>2
  <2> HIDE DEF A, B
  <2>4. IsFiniteSet(A \X B) /\ Cardinality(A \X B) = Cardinality(A) * Cardinality(B)
    BY <2>3, FS_Product
  <2>5. IsFiniteSet(A \X B) /\ Cardinality(A \X B) = b
    BY <1>1, <2>3, <2>4
  <2> QED BY <2>5 DEF A, B
<1>6. IsFiniteSet(old)
  BY LightFinite
<1>7. old \cap one = {}
  BY DEF Light
<1>8. Cardinality(old \cup one) = Cardinality(old) + Cardinality(one) - Cardinality(old \cap one)
  BY <1>5, <1>6, FS_Union
<1>9. Cardinality({}) = 0 /\ Cardinality(old) \in Nat
  BY <1>6, FS_EmptySet, FS_CardinalityType
<1>10. Cardinality(old \cup one) = Cardinality(old) + b
  <2> HIDE DEF old, one
  <2>1. Cardinality(old \cap one) = 0
    BY <1>7, <1>9
  <2> QED BY <1>1, <1>5, <1>8, <1>9, <2>1
<1> QED BY <1>4, <1>10

LEMMA VisitedFinite ==
  ASSUME frame \in Frame
  PROVE  IsFiniteSet(Visited)
<1>1. Visited \in SUBSET Area(frame)
  BY DEF Visited
<1> QED BY <1>1, AreaFinite, FS_Subset

LEMMA AverageByPixel ==
  ASSUME TypeOK, AverageInv, SumPixel
  PROVE  AverageInv'
<1>1. /\ frame \in Frame /\ frame.w \in Nat /\ frame.h \in Nat /\ frame.stride \in Nat
      /\ x \in Nat /\ y \in Nat /\ step = "sum" /\ y < frame.h /\ x < frame.w
      /\ frame' = frame /\ y' = y /\ x' = x + 1 /\ step' = "sum" /\ answer' = answer
  BY CaptureAssumption DEF TypeOK, SumPixel
<1>2. Visited' = Visited \cup {<<x, y>>} /\ <<x, y>> \notin Visited
  <2>1. <<x, y>> \in Area(frame)
    BY <1>1 DEF Area
  <2>2. \A p \in Area(frame) : p = <<p[1], p[2]>> /\ p[1] \in Nat /\ p[2] \in Nat
    BY <1>1 DEF Area
  <2>3. Visited' = {p \in Area(frame) : p[2] < y \/ (p[2] = y /\ p[1] < x + 1)}
    BY <1>1 DEF Visited
  <2>4. \A p \in Area(frame) : p[1] < x + 1 <=> (p[1] < x \/ p[1] = x)
    BY <1>1, <2>2
  <2>5. ~(x < x) /\ ~(y < y)
    BY <1>1
  <2>6. <<x, y>> \notin Visited
    BY <2>5 DEF Visited
  <2>7. \A p : p \in Visited' <=> p \in Visited \cup {<<x, y>>}
    BY <2>1, <2>2, <2>3, <2>4 DEF Visited
  <2> QED BY <2>6, <2>7
<1>3. IsFiniteSet(Visited)
  BY <1>1, VisitedFinite
<1>4. ASSUME NEW c \in Channel
      PROVE  exact'[c] = Cardinality(Light(frame, Visited, c)')
  <2>1. Out(c) \in 0..Byte
    BY <1>1, OutIsByte
  <2>2. Out(c) = frame.out[4 * (frame.stride * y + x) + c]
    <3>1. c \in Int /\ y * (frame.stride * 4) + x * 4 = 4 * (frame.stride * y + x)
      BY <1>1 DEF Channel
    <3> QED BY <1>1, <3>1 DEF Out
  <2>3. exact[c] = Cardinality(Light(frame, Visited, c)) /\ exact'[c] = exact[c] + Out(c)
    BY <1>1 DEF AverageInv, SumPixel
  <2>4. Cardinality(Light(frame, Visited \cup {<<x, y>>}, c))
          = Cardinality(Light(frame, Visited, c)) + Out(c)
    <3> DEFINE p == <<x, y>>
               b == Out(c)
    <3>1. b = frame.out[4 * (frame.stride * p[2] + p[1]) + c] /\ b \in 0..Byte /\ p \notin Visited
      BY <1>2, <2>1, <2>2
    <3> HIDE DEF p, b
    <3>2. Cardinality(Light(frame, Visited \cup {p}, c)) = Cardinality(Light(frame, Visited, c)) + b
      BY <1>3, <3>1, LightOfOneMore
    <3> QED BY <3>2 DEF p, b
  <2>5. Light(frame, Visited, c)' = Light(frame, Visited \cup {<<x, y>>}, c)
    BY <1>1, <1>2 DEF Light
  <2> QED BY <2>3, <2>4, <2>5
<1> QED BY <1>1, <1>4 DEF AverageInv, AverageOfArea, Light, Area

LEMMA AverageStep ==
  ASSUME TypeOK, LoopInv, AverageInv, [Next]_vars
  PROVE  AverageInv'
<1>1. CASE step' # "sum" /\ (answer' = answer \/ answer' = Failed)
  <2>1. CASE answer' = answer
    BY <1>1, <2>1 DEF AverageInv, AverageOfArea, Light, Area
  <2>2. CASE answer' = Failed
    BY <1>1, <2>2 DEF AverageInv, AverageOfArea, Failed
  <2> QED BY <1>1, <2>1, <2>2
<1>2. CASE UNCHANGED <<step, frame, x, y, exact, answer>>
  BY <1>2 DEF AverageInv, AverageOfArea, Light, Area, Visited
<1>3. CASE Start \/ addService \/ init \/ Die \/ Call \/ UNCHANGED vars
  BY <1>1, <1>2, <1>3 DEF Start, addService, init, Die, Call, vars, callVars
<1>4. CASE Capture
  <2>1. CASE /\ step' = "sum" /\ frame' \in Frame
             /\ x' = 0 /\ y' = 0 /\ exact' = Zero /\ answer' = answer
    <3>1. Visited' = {}
      <4>1. frame'.w \in Nat /\ frame'.h \in Nat
        BY <2>1, CaptureAssumption
      <4>2. \A p \in Area(frame)' : ~(p[2] < 0) /\ ~(p[1] < 0)
        BY <4>1 DEF Area
      <4> QED BY <2>1, <4>2 DEF Visited
    <3>2. \A c \in Channel : Light(frame, Visited, c)' = {}
      BY <3>1 DEF Light
    <3>3. \A c \in Channel : exact'[c] = Cardinality(Light(frame, Visited, c)')
      BY <2>1, <3>2, FS_EmptySet DEF Zero
    <3> QED BY <2>1, <3>3 DEF AverageInv, AverageOfArea, Light, Area
  <2> QED BY <1>1, <1>4, <2>1 DEF Capture, callVars
<1>5. CASE SumPixel
  BY <1>5, AverageByPixel
<1>6. CASE NextRow
  <2>1. /\ frame.w \in Nat /\ frame.h \in Nat /\ y \in Nat /\ x = frame.w /\ x' = 0 /\ y' = y + 1
        /\ UNCHANGED <<frame, step, exact, answer>>
    BY <1>6, CaptureAssumption DEF NextRow, TypeOK
  <2>2. \A p \in Area(frame) : /\ p[1] \in Nat /\ p[2] \in Nat /\ p[1] < frame.w /\ ~(p[1] < 0)
    BY <2>1 DEF Area
  <2>3. \A p \in Area(frame) : p[2] < y + 1 <=> (p[2] < y \/ p[2] = y)
    BY <2>1, <2>2
  <2>4. Visited' = {p \in Area(frame) : p[2] < y + 1 \/ (p[2] = y + 1 /\ p[1] < 0)}
    BY <2>1 DEF Visited
  <2>5. Visited' = Visited
    BY <2>1, <2>2, <2>3, <2>4 DEF Visited
  <2> QED BY <2>1, <2>5 DEF AverageInv, AverageOfArea, Light, Area
<1>7. CASE Return
  <2>1. /\ frame \in Frame /\ frame.w \in Nat /\ frame.h \in Nat /\ y = frame.h
        /\ step = "sum" /\ step' # "sum" /\ sum = exact
        /\ answer'.sum = sum /\ answer'.max = frame.w * frame.h /\ answer'.of = frame
    BY <1>7, CaptureAssumption DEF Return, TypeOK, LoopInv
  <2>2. Visited = Area(frame)
    <3>1. \A p \in Area(frame) : p[2] < y
      BY <2>1 DEF Area
    <3> QED BY <3>1 DEF Visited
  <2>3. \A c \in Channel : sum[c] = Cardinality(Light(frame, Area(frame), c))
    BY <2>1, <2>2 DEF AverageInv
  <2>4. Cardinality(Area(frame)) = frame.w * frame.h
    BY <2>1, AreaFinite
  <2>5. /\ answer'.max = Cardinality(Area(answer'.of))
        /\ \A c \in Channel : answer'.sum[c] = Cardinality(Light(answer'.of, Area(answer'.of), c))
    BY <2>1, <2>3, <2>4
  <2> QED BY <2>1, <2>5 DEF AverageInv, AverageOfArea, Light, Area
<1> QED BY <1>3, <1>4, <1>5, <1>6, <1>7 DEF Next, getAreaBrightness

\* For areas and strides of every size: an answer of getAreaBrightness is the
\* average over the pixels of the area of the frame it captured, each counted once
\* and nothing else counted, whatever calls failed and processes died before.
THEOREM AverageOfAreaAlways == Spec => []AverageOfArea
<1>1. Init => LoopInv /\ AverageInv
  BY DEF Init, LoopInv, AverageInv, AverageOfArea, Failed
<1>2. TypeOK /\ LoopInv /\ AverageInv /\ [Next]_vars => LoopInv' /\ AverageInv'
  BY LoopStep, AverageStep
<1>3. AverageInv => AverageOfArea
  BY DEF AverageInv
<1> QED BY <1>1, <1>2, <1>3, CaptureTypeCorrect, PTL DEF Spec
=============================================================================
