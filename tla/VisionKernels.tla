---------------------------- MODULE VisionKernels ----------------------------
(***************************************************************************)
(* The image algorithms of ResidentPerceptionAlgorithmKernel and           *)
(* PerceptionAlgorithmKernel, as operators.  A scalar frame is its width,  *)
(* its height and its values in row-major order from index 0, as in the    *)
(* arrays of the code; the values are integers, so that the rounding to    *)
(* four digits only shows where a kernel divides.                          *)
(***************************************************************************)
EXTENDS Integers, FiniteSetsExt, Functions

\* A quotient rounded to the nearest integer, halves away from zero.
RoundDiv(a, b) == IF a >= 0 THEN (2 * a + b) \div (2 * b) ELSE -((b - 2 * a) \div (2 * b))

AtLeast(bound, n) == IF n < bound THEN bound ELSE n
AtMost(bound, n)  == IF n > bound THEN bound ELSE n
Clamp(n, low, high) == AtLeast(low, AtMost(high, n))
AbsOf(n) == AtLeast(-n, n)

Frame(w, h, at) == [w |-> w, h |-> h, at |-> at]
Indexes(f) == 0..(f.w * f.h - 1)
IsFrame(f) ==
  /\ f = Frame(f.w, f.h, f.at)
  /\ f.w \in Nat \ {0} /\ f.h \in Nat \ {0} /\ DOMAIN f.at = Indexes(f)
  /\ \A i \in Indexes(f) : f.at[i] \in Int
PixelValues(f) == {f.at[i] : i \in Indexes(f)}

\* The value at column x and row y; the border is repeated outwards.
At(f, x, y) == f.at[Clamp(y, 0, f.h - 1) * f.w + Clamp(x, 0, f.w - 1)]

-----------------------------------------------------------------------------
(* Max pooling.                                                            *)

\* The rows (or columns) an output row (or column) looks at.
Block(o, size, out) ==
  LET first == (o * size) \div out
  IN  first..(AtLeast(first + 1, ((o + 1) * size) \div out) - 1)

MaxPool(f, ow, oh) ==
  Frame(ow, oh,
    [i \in 0..(ow * oh - 1) |->
       Max({f.at[y * f.w + x] : x \in Block(i % ow, f.w, ow), y \in Block(i \div ow, f.h, oh)})])

-----------------------------------------------------------------------------
(* Morphology.                                                             *)

\* The spellings that Trim and ToLowerInvariant turn into "erosion"; every
\* other operation is a dilation, a blank one and an unknown one too.
UsesErosion(operation) == operation \in {"erosion", " Erosion "}

\* The values around an index.
Window(f, i, radius) ==
  {At(f, (i % f.w) + dx, (i \div f.w) + dy) :
     dx, dy \in (-AtLeast(1, radius))..AtLeast(1, radius)}

ApplyMorphology(f, operation, radius) ==
  [f EXCEPT !.at = [i \in Indexes(f) |->
     IF UsesErosion(operation) THEN Min(Window(f, i, radius)) ELSE Max(Window(f, i, radius))]]

-----------------------------------------------------------------------------
(* Laplacian edges, in units of 1/10000 of the strongest one.              *)

\* The rows are taken to be as long as the frame is high.
EdgeStrength_WrongStride(f, i) ==
  LET y == i \div f.w  x == i % f.w
  IN  IF x \in 1..(f.w - 2) /\ y \in 1..(f.h - 2)
      THEN AbsOf(4 * f.at[i] - f.at[i - 1] - f.at[i + 1] - f.at[i - f.h] - f.at[i + f.h])
      ELSE 0

EdgeStrength(f, i) ==
  LET y == i \div f.w  x == i % f.w
  IN  IF x \in 1..(f.w - 2) /\ y \in 1..(f.h - 2)
      THEN AbsOf(4 * f.at[i] - f.at[i - 1] - f.at[i + 1] - f.at[i - f.w] - f.at[i + f.w])
      ELSE 0

DetectLaplacianEdges(f) ==
  LET max == Max({EdgeStrength(f, i) : i \in Indexes(f)})
  IN  [f EXCEPT !.at = [i \in Indexes(f) |->
         IF max > 0 THEN RoundDiv(10000 * EdgeStrength(f, i), max) ELSE 0]]

-----------------------------------------------------------------------------
(* Two frames of one size: temporal differences and optical flow.  Means   *)
(* and confidences are in units of 1/10000.                                *)

\* Only the values are cut by the threshold.
CalculateTemporalDifference(previous, current, threshold) ==
  LET delta == [i \in Indexes(current) |-> AbsOf(current.at[i] - previous.at[i])]
  IN  [values |-> [i \in DOMAIN delta |-> 
                 IF delta[i] >= AtLeast(0, threshold) THEN delta[i] ELSE 0],
       mean   |-> RoundDiv(10000 * SumFunction(delta), Cardinality(DOMAIN delta)),
       max    |-> Max({delta[i] : i \in DOMAIN delta})]

\* The offset whose value is closest, and of several the first in the order of
\* the loops, rows before columns.
BestOffset(previous, current, i, radius) ==
  LET Error(d) == AbsOf(current.at[i] - At(previous, (i % current.w) + d.x, (i \div current.w) + d.y))
      Comes(d, e) == d.y < e.y \/ (d.y = e.y /\ d.x <= e.x)
      Offsets == [x : (-radius)..radius, y : (-radius)..radius]
      best == CHOOSE d \in Offsets : \A e \in Offsets :
                Error(d) < Error(e) \/ (Error(d) = Error(e) /\ Comes(d, e))
  IN  [x |-> best.x, y |-> best.y, confidence |-> RoundDiv(10000, 1 + Error(best))]

EstimateDenseOpticalFlow(previous, current, searchRadius) ==
  LET vectors == [i \in Indexes(current) |->
                    BestOffset(previous, current, i, Clamp(searchRadius, 1, 4))]
      Mean(parts) == RoundDiv(10000 * SumFunction(parts), Cardinality(DOMAIN parts))
  IN  [vectors  |-> vectors,
       averageX |-> Mean([i \in DOMAIN vectors |-> vectors[i].x]),
       averageY |-> Mean([i \in DOMAIN vectors |-> vectors[i].y])]

-----------------------------------------------------------------------------
(* The spatial hash.  Coordinates and cell sizes are whole numbers.        *)

CellOf(point, cellSize) ==
  LET size == IF cellSize > 0 THEN cellSize ELSE 1
  IN  [x |-> point.x \div size, y |-> point.y \div size]

\* The cells, and how often each of them is visited.
QuantizeSpatialHash(points, cellSize) ==
  LET cells == [i \in DOMAIN points |-> CellOf(points[i], cellSize)]
  IN  [cells  |-> cells,
       visits |-> [c \in {cells[i] : i \in DOMAIN cells} |->
                     Cardinality({i \in DOMAIN cells : cells[i] = c})]]

-----------------------------------------------------------------------------
(* Colours: the semantic palette and hue masks.  A colour is its three     *)
(* bytes; hues are in degrees.                                             *)

IsColour(c) == c.r \in 0..255 /\ c.g \in 0..255 /\ c.b \in 0..255

\* The square of RgbDistance.
RgbDistance(c, d) ==
  (c.r - d.r) * (c.r - d.r) + (c.g - d.g) * (c.g - d.g) + (c.b - d.b) * (c.b - d.b)

\* The index of the closest entry, the first of several, or 0 (-1 in the code)
\* if that entry does not tolerate the distance.
QuantizeSemanticPalette(colours, palette) ==
  [i \in DOMAIN colours |->
     LET Distance(j) == RgbDistance(colours[i], palette[j])
         best == CHOOSE j \in DOMAIN palette : \A k \in DOMAIN palette :
                   Distance(j) < Distance(k) \/ (Distance(j) = Distance(k) /\ j <= k)
         tolerance == AtLeast(0, palette[best].tolerance)
     IN  IF Distance(best) <= tolerance * tolerance THEN best ELSE 0]

\* The remainder of C#, which has the sign of the dividend.
Rem(a, b) == IF a >= 0 THEN a % b ELSE -((-a) % b)

\* The hue of RgbToHsv, exact where the spread of the colour divides 60.
Hue(c) ==
  LET max   == Max({c.r, c.g, c.b})
      delta == max - Min({c.r, c.g, c.b})
      hue   == CASE delta = 0 -> 0
                 [] delta > 0 /\ max = c.r -> Rem((60 * (c.g - c.b)) \div delta, 360)
                 [] delta > 0 /\ max # c.r /\ max = c.g -> ((60 * (c.b - c.r)) \div delta) + 120
                 [] OTHER -> ((60 * (c.r - c.g)) \div delta) + 240
  IN  IF hue < 0 THEN hue + 360 ELSE hue

NormalizeHue(hue) == Rem(Rem(hue, 360) + 360, 360)

HueInRange(hue, minHue, maxHue) ==
  LET min == NormalizeHue(minHue)
      max == NormalizeHue(maxHue)
  IN  IF min <= max THEN hue >= min /\ hue <= max ELSE hue >= min \/ hue <= max

\* The request as the code compares it: the thresholds in percent, the
\* saturation of a colour as its spread, the value as its largest byte.
CreateHsvThresholdMask(colours, request) ==
  LET Largest(c)   == Max({c.r, c.g, c.b})
      Spread(c)    == Largest(c) - Min({c.r, c.g, c.b})
      Saturated(c) == IF Largest(c) = 0 THEN request.minSaturation <= 0
                      ELSE 100 * Spread(c) >= request.minSaturation * Largest(c)
      Bright(c)    == request.ignoreValue \/ 100 * Largest(c) >= 255 * request.minValue
  IN  [i \in DOMAIN colours |->
         IF /\ HueInRange(Hue(colours[i]), request.minHue, request.maxHue)
            /\ Saturated(colours[i]) /\ Bright(colours[i])
         THEN 1 ELSE 0]
=============================================================================
