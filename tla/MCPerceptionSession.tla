------------------------- MODULE MCPerceptionSession -------------------------
(* PerceptionSession for TLC: small inputs of every kind. *)
EXTENDS PerceptionSession

Pixels(w, h, levels) == {Frame(w, h, at) : at \in [0..(w * h - 1) -> levels]}

\* Every binary frame of 4 x 2, whose windows do not see all of it; frames with
\* negative values and single rows; and the 4 x 3 frames with one or two marks,
\* which have an interior.
MCFrames ==
  Pixels(4, 2, {0, 1}) \cup Pixels(3, 1, {-2, -1, 1})
  \cup {Frame(4, 3, [i \in 0..11 |-> IF i \in {a, b} THEN b + 1 ELSE 0]) : a, b \in 0..11}

Bytes == {0, 1, 3}
MCImages == {<<[r |-> r, g |-> g, b |-> b]>> : r, g, b \in Bytes}
MCHsvRequests ==
  {[minHue |-> a, maxHue |-> b, minSaturation |-> s, minValue |-> 1, ignoreValue |-> i] :
     a \in {-30, 0, 60, 200}, b \in {20, 300, 390}, s \in {0, 70}, i \in BOOLEAN}

MCLevels == {0, 3, 10000}
MCSamples == {-5, 0, 20000}
MCRates == {-10, 1, 50, 150}
MCTrackers ==
  {[estimate |-> e, errorCovariance |-> p, process |-> q, measurement |-> r] :
     e \in {0, 5000}, p \in {-7, 0, 3, 10000}, q \in {0, 100}, r \in {0, 7, 10000}}

\* A sound of up to three samples, anywhere in eight, and silence.
Channel(sound, at) ==
  [i \in 1..8 |-> IF i - at \in DOMAIN sound THEN sound[i - at] ELSE 0]
Sounds == {<<1>>, <<2, 1>>, <<1, -1, 2>>}
MCStereo ==
  {[left |-> Channel(s, a), right |-> Channel(s, b)] : s \in Sounds, a, b \in 0..5}

MCRecordings == [1..2 -> 0..2] \cup [1..4 -> 0..2] \cup [1..5 -> 0..1] \cup [1..8 -> {0, 1}]

Colour(r, g, b, tolerance) == [r |-> r, g |-> g, b |-> b, tolerance |-> tolerance]
MCPalettes ==
  {<<Colour(0, 0, 0, t), Colour(3, 0, 1, u), Colour(3, 3, 0, 1), Colour(0, 0, 0, 3)>> :
     t \in {-1, 0, 2}, u \in {1, 3}}

\* A frame of different values, moved by up to two pixels; and small frames
\* with repeated values.
Pattern == Frame(3, 3, [i \in 0..8 |-> (4 * i) % 9])
MovedBy(f, dx, dy) ==
  [f EXCEPT !.at = [i \in Indexes(f) |->
     LET x == (i % f.w) + dx  y == (i \div f.w) + dy
     IN  IF x \in 0..(f.w - 1) /\ y \in 0..(f.h - 1) THEN At(f, x, y) ELSE 50]]
MCVideos ==
  {[previous |-> Pattern, current |-> MovedBy(Pattern, dx, dy)] : dx, dy \in -2..2}
  \cup [previous : Pixels(3, 2, {0, 2}), current : Pixels(3, 2, {0, 2})]

MCThresholds == {-1, 0, 1, 2}
MCCellSizes == {-1, 1, 2, 3}
MCTracks == {<<[x |-> a, y |-> b], [x |-> c, y |-> -1]>> : a, c \in -3..3, b \in {-1, 0}}

-----------------------------------------------------------------------------
State(on, confidence, numbers, flags) ==
  [enabled |-> on, observed |-> TRUE, confidence |-> confidence,
   numbers |-> numbers, flags |-> flags]
OnOrOff(confidence, numbers, flags) ==
  {State(on, confidence, numbers, flags) : on \in BOOLEAN}
Absent == [enabled |-> FALSE]

Present(map) == [n \in {m \in DOMAIN map : map[m] # Absent} |-> map[n]]

\* Every combination of sensors that are absent, switched off or on.
Combinations ==
  {Present([visual |-> v, audio |-> a, compass |-> c, motor |-> m, movement |-> w, spatial |-> s]) :
     v \in {Absent} \cup OnOrOff(50, [bias |-> 40, confidence |-> 60], {}),
     a \in {Absent} \cup OnOrOff(0, [balance |-> 50, leftEnergy |-> 90, correctionGain |-> 2000],
                                 {"eventDetected"}),
     c \in {Absent} \cup UNION {OnOrOff(0, [heading |-> h, confidence |-> 80], {}) : h \in {0, -90, 180}},
     m \in {Absent} \cup OnOrOff(0, [vectorX |-> 300], {}),
     w \in {Absent, State(TRUE, 0, [vectorX |-> -25], {})},
     s \in {Absent} \cup OnOrOff(0, <<>>, {})}

HealthStates ==
  {State(on, 90, [zeroScore |-> z], f) : on \in BOOLEAN, z \in {10, 78}, f \in {{}, {"likelyDead"}}}

MCNames == {" vision ", "Vision", "bearing", "compass", "heading", "thermal", "visual"}
KnownNames == MCNames \cup DefaultSensors \cup {"vision"}
MCFolded ==
  [n \in KnownNames |-> IF n \in {" vision ", "Vision"} THEN "vision" ELSE n]
MCPadded == {" vision "}
InOrder == <<" vision ", "Vision", "audio", "bearing", "compass", "heading", "health",
             "motor", "movement", "spatial", "thermal", "vision", "visual">>
MCPosition == [n \in KnownNames |-> CHOOSE i \in DOMAIN InOrder : InOrder[i] = n]

\* Spellings of one sensor next to each other, and an unknown sensor.
Spelled ==
  {[n \in names |-> State(TRUE, MCPosition[n], [bias |-> MCPosition[n]], {})] :
     names \in {n \in SUBSET MCNames : Cardinality(n) \in 1..3}}

MCSensorMaps == Combinations \cup Spelled \cup {[health |-> state] : state \in HealthStates}
=============================================================================
