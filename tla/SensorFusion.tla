----------------------------- MODULE SensorFusion -----------------------------
(***************************************************************************)
(* SensorStateNormalizer and SpatialSensorFusionKernel.  A map of sensors  *)
(* is a function from names to states.  Of a state the model keeps what a  *)
(* decision reads: whether the sensor is enabled, its confidence, and its  *)
(* metadata as numbers that parse and flags that parse as true; a missing  *)
(* or unreadable number counts as 0.                                       *)
(*                                                                         *)
(* Numbers are in units of 1/100, headings in whole degrees.  Where the    *)
(* code rounds to two digits the model does; before that it is exact, for  *)
(* the headings that are multiples of 9.                                   *)
(***************************************************************************)
EXTENDS VisionKernels, SequencesExt

CONSTANTS Names,     \* the spellings of sensor names
          Folded,    \* spelling -> what Trim and ToLowerInvariant make of it
          Padded,    \* spellings with outer whitespace
          Position   \* spelling -> its place in StringComparer.Ordinal order

DefaultSensors == {"visual", "audio", "motor", "movement", "compass", "spatial", "health"}

ASSUME SensorAssumption ==
  /\ Padded \subseteq Names
  /\ DefaultSensors \subseteq Names /\ DOMAIN Folded = Names /\ DOMAIN Position = Names
  /\ \A m, n \in Names : Position[m] = Position[n] => m = n
  /\ \A n \in Names : Folded[n] \in Names /\ Position[n] \in Int

IsSensor(state) ==
  /\ DOMAIN state = {"enabled", "observed", "confidence", "numbers", "flags"}
  /\ state.enabled \in BOOLEAN /\ state.confidence \in Int
  /\ \A key \in DOMAIN state.numbers : state.numbers[key] \in Int

IsSensorMap(inputs) ==
  /\ DOMAIN inputs \subseteq Names /\ IsFiniteSet(DOMAIN inputs)
  /\ \A name \in DOMAIN inputs : IsSensor(inputs[name])

-----------------------------------------------------------------------------
(* Normalisation.                                                          *)

CreateDefault(name) ==
  [enabled |-> TRUE, observed |-> FALSE, confidence |-> 0, numbers |-> <<>>, flags |-> {}]

\* The aliases are looked up before the name is trimmed.
NormalizeName(name) ==
  CASE name \notin Padded /\ Folded[name] = "vision" -> "visual"
    [] name \notin Padded /\ Folded[name] = "auditory" -> "audio"
    [] name \notin Padded /\ Folded[name] \in {"heading", "bearing"} -> "compass"
    [] OTHER -> Folded[name]

\* The sensors are taken in the order in which the dictionary lists them.
OrderByName_AsListed(enumeration) == enumeration

OrderByName(enumeration) ==
  LET names == ToSet(enumeration)
      Rank(name) == Cardinality({m \in names : Position[m] < Position[name]})
  IN  [i \in 1..Cardinality(names) |-> CHOOSE name \in names : Rank(name) = i - 1]

\* NormalizeAsync of a dictionary that lists its keys in this order.
Normalize(inputs, enumeration) ==
  FoldLeft(LAMBDA normalized, raw :
             [name \in DOMAIN normalized \cup {NormalizeName(raw)} |->
                IF name = NormalizeName(raw) THEN inputs[raw] ELSE normalized[name]],
           [name \in DefaultSensors |-> CreateDefault(name)],
           OrderByName(enumeration))

-----------------------------------------------------------------------------
(* Fusion.                                                                 *)

Number(inputs, sensor, key) ==
  IF sensor \in DOMAIN inputs /\ key \in DOMAIN inputs[sensor].numbers
  THEN inputs[sensor].numbers[key] ELSE 0

Boolean(inputs, sensor, key) == sensor \in DOMAIN inputs /\ key \in inputs[sensor].flags

\* A sensor that nobody reported is not switched off.
Off(inputs, sensor) == sensor \in DOMAIN inputs /\ ~inputs[sensor].enabled

\* The number, or 0 if its sensor is switched off.
NumberIfOn_Ungated(inputs, sensor, key) == Number(inputs, sensor, key)

NumberIfOn(inputs, sensor, key) ==
  IF Off(inputs, sensor) THEN 0 ELSE Number(inputs, sensor, key)

ClampSigned(n) == Clamp(n, -100, 100)
Clamp01Of(n)   == Clamp(n, 0, 100)

\* The heading as an angle from -180 to 180 degrees.
Relative(heading) == Clamp(Rem(heading + 540, 360) - 180, -180, 180)

\* In units of 1/10000.
CompassBias(inputs) ==
  RoundDiv(5 * Relative(NumberIfOn(inputs, "compass", "heading"))
             * Clamp01Of(NumberIfOn(inputs, "compass", "confidence")), 9)

DefaultAuditoryCorrectionGain == 3500

\* In units of 1/1000000 of a degree.
VisualDirection(inputs) ==
  45 * Clamp(55 * 100 * ClampSigned(NumberIfOn(inputs, "visual", "bias"))
             + 20 * 100 * ClampSigned(NumberIfOn(inputs, "movement", "vectorX"))
             + 15 * Clamp(45 * NumberIfOn(inputs, "motor", "vectorX"), -10000, 10000)
             + 10 * CompassBias(inputs),
             -1000000, 1000000)

AuditoryCorrection(inputs) ==
  LET gain == Number(inputs, "audio", "correctionGain")
  IN  100 * ClampSigned(NumberIfOn(inputs, "audio", "balance"))
          * (IF gain = 0 THEN DefaultAuditoryCorrectionGain ELSE gain)

\* In units of 1/10000.
Confidence(inputs) ==
  Max({100 * Clamp01Of(NumberIfOn(inputs, "visual", "confidence")),
       85 * Clamp01Of(NumberIfOn(inputs, "audio", "leftEnergy")),
       85 * Clamp01Of(NumberIfOn(inputs, "audio", "rightEnergy")),
       55 * Clamp01Of(NumberIfOn(inputs, "compass", "confidence"))})

EventDetected(inputs) ==
  \/ Boolean(inputs, "audio", "eventDetected")
  \/ Clamp01Of(NumberIfOn(inputs, "visual", "confidence")) >= 62
  \/ /\ AbsOf(VisualDirection(inputs) + AuditoryCorrection(inputs)) >= 18000000
     /\ Confidence(inputs) >= 3500

Fuse(inputs) ==
  IF Off(inputs, "spatial")
  THEN [visualDirection |-> 0, auditoryCorrection |-> 0, fusedDirection |-> 0,
        hudX |-> 50, hudY |-> 45, confidence |-> 0, eventDetected |-> FALSE]
  ELSE LET fused == VisualDirection(inputs) + AuditoryCorrection(inputs)
       IN  [visualDirection |-> RoundDiv(VisualDirection(inputs), 10000),
            auditoryCorrection |-> RoundDiv(AuditoryCorrection(inputs), 10000),
            fusedDirection |-> RoundDiv(fused, 10000),
            hudX |-> RoundDiv(450000000 + 4 * Clamp(fused, -90000000, 90000000), 9000000),
            hudY |-> RoundDiv(460000 - 16 * Confidence(inputs), 10000),
            confidence |-> RoundDiv(Confidence(inputs), 100),
            eventDetected |-> EventDetected(inputs)]

-----------------------------------------------------------------------------
(* The retry intent.                                                       *)

NoRetry == [requested |-> FALSE]

ResolveRetryIntent(inputs) ==
  LET zeroScore == Clamp01Of(Number(inputs, "health", "zeroScore"))
  IN  IF /\ "health" \in DOMAIN inputs /\ ~Off(inputs, "health")
         /\ Boolean(inputs, "health", "likelyDead") \/ zeroScore >= 78
      THEN [requested |-> TRUE,
            confidence |-> AtLeast(zeroScore, Clamp01Of(inputs["health"].confidence))]
      ELSE NoRetry
=============================================================================
