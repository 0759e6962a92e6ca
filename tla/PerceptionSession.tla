-------------------------- MODULE PerceptionSession --------------------------
(***************************************************************************)
(* A caller of the default perception kernels, of the sensor normaliser,   *)
(* of the fusion kernel and of the retry resolver.  None of them keeps a   *)
(* state: what one call returns, the caller hands to the next one, frame   *)
(* after frame.  A session starts from one input and feeds the results     *)
(* back.  Calls whose arguments the kernels refuse return a failure and    *)
(* nothing else, and are not modelled.                                     *)
(***************************************************************************)
EXTENDS SignalFilters, SensorFusion

CONSTANTS
  Frames,        \* scalar frames a session may start from
  Images,        \* sequences of colours
  Levels,        \* values of an exponential average or a leaky integrator
  Trackers,      \* Kalman sessions: [estimate, errorCovariance, process, measurement]
  Stereo,        \* pairs [left, right] of channels of one length
  Recordings,    \* PCM samples
  Videos,        \* pairs [previous, current] of frames of one size
  Tracks,        \* sequences of points
  SensorMaps,    \* maps of sensors
  HsvRequests, Palettes, Operations, Radii, OutputSizes, Thresholds, CellSizes,
  DirectionBins, SampleRates, Samples, Rates,  \* arguments of calls
  MaxCalls,      \* bound on the calls of a session
  MaxListed      \* bound on the sensors of a map that is normalised

ASSUME SessionAssumption ==
  /\ MaxCalls \in Nat /\ MaxListed \in Nat
  /\ \A f \in Frames : IsFrame(f)
  /\ \A s \in Stereo : /\ s.left \in Seq(Int) /\ s.right \in Seq(Int)
                       /\ Len(s.left) = Len(s.right) /\ Len(s.left) >= 2
  /\ \A x \in Recordings : x \in Seq(Int) /\ Len(x) >= 2
  /\ Levels \cup Samples \cup Rates \cup Radii \cup CellSizes \subseteq Int
  /\ \A t \in Trackers : t \in [estimate : Int, errorCovariance : Int, process : Int, measurement : Int]
  /\ \A m \in SensorMaps : IsSensorMap(m)
  /\ \A v \in Videos : /\ IsFrame(v.previous) /\ IsFrame(v.current)
                       /\ v.current.w = v.previous.w /\ v.current.h = v.previous.h
  /\ \A image \in Images : \A i \in DOMAIN image : IsColour(image[i])
  /\ \A palette \in Palettes : /\ DOMAIN palette = 1..Len(palette) /\ Len(palette) \in Nat \ {0}
                              /\ \A i \in DOMAIN palette : /\ IsColour(palette[i])
                                                        /\ palette[i].tolerance \in Int
  /\ HsvRequests \subseteq
       [minHue : Int, maxHue : Int, minSaturation : Int, minValue : Int, ignoreValue : BOOLEAN]
  /\ \A track \in Tracks : track # <<>> /\ \A i \in DOMAIN track : track[i] \in [x : Int, y : Int]
  /\ OutputSizes \cup SampleRates \subseteq Nat \ {0} /\ DirectionBins \subseteq Nat \ {0, 1}

VARIABLES
  kind,   \* what the session works on; "done" when the result is not fed back
  input,  \* what it started from
  value,  \* what the latest call returned
  trail   \* the calls so far, as [op, arg]

vars == <<kind, input, value, trail>>

Init ==
  /\ \/ kind = "frame"   /\ input \in Frames
     \/ kind = "image"   /\ input \in Images
     \/ kind \in {"average", "charge"} /\ input \in Levels
     \/ kind = "tracker" /\ input \in Trackers
     \/ kind = "stereo"  /\ input \in Stereo
     \/ kind = "pcm"     /\ input \in Recordings
     \/ kind = "video"   /\ input \in Videos
     \/ kind = "track"   /\ input \in Tracks
     \/ kind = "sensors" /\ input \in SensorMaps
  /\ trail = <<>> /\ value = input

Call(from, to, op, arg, result) ==
  /\ kind = from /\ Len(trail) < MaxCalls
  /\ kind' = to
  /\ value' = result
  /\ trail' = Append(trail, [op |-> op, arg |-> arg])
  /\ UNCHANGED input

-----------------------------------------------------------------------------
(* The calls.                                                              *)

MaxPoolAsync(ow, oh) ==
  kind = "frame" /\ Call("frame", "frame", "pool", <<ow, oh>>, MaxPool(value, ow, oh))

ApplyMorphologyAsync(operation, radius) ==
  kind = "frame" /\ Call("frame", "frame", IF UsesErosion(operation) THEN "erosion" ELSE "dilation",
                         radius, ApplyMorphology(value, operation, radius))

\* Frames narrower or lower than 2 are refused.
DetectEdgesAsync ==
  /\ kind = "frame" /\ value.w > 1 /\ value.h > 1
  /\ Call("frame", "done", "edges", 0, DetectLaplacianEdges(value))

CreateHsvThresholdMaskAsync(request) ==
  kind = "image" /\ Call("image", "done", "mask", request, CreateHsvThresholdMask(value, request))

QuantizePaletteAsync(palette) ==
  kind = "image" /\ Call("image", "done", "palette", palette, QuantizeSemanticPalette(value, palette))

CalculateTemporalDifferenceAsync(threshold) ==
  kind = "video" /\ Call("video", "done", "difference", threshold,
                         CalculateTemporalDifference(value.previous, value.current, threshold))

\* Frames narrower or lower than 2 are refused here too.
EstimateDenseOpticalFlowAsync(radius) ==
  /\ kind = "video" /\ value.current.w > 1 /\ value.current.h > 1
  /\ Call("video", "done", "flow", radius,
          EstimateDenseOpticalFlow(value.previous, value.current, radius))

QuantizeSpatialHashAsync(cellSize) ==
  kind = "track" /\ Call("track", "done", "hash", cellSize, QuantizeSpatialHash(value, cellSize))

ApplyEmaAsync(current, alpha) ==
  kind = "average" /\ Call("average", "average", "ema", current, ApplyEma(value, current, alpha))

ApplyLeakyIntegratorAsync(impulse, leakRate, maxValue) ==
  kind = "charge" /\ Call("charge", "charge", "leak", impulse,
                          ApplyLeakyIntegrator(value, impulse, leakRate, maxValue))

ApplyKalmanAsync(measurement, control) ==
  kind = "tracker" /\ Call("tracker", "tracker", "kalman", [m |-> measurement, u |-> control],
                           ApplyKalman(value, measurement, control, input.process, input.measurement))

QuantizeBinauralDirectionAsync(bins) ==
  kind = "stereo" /\ Call("stereo", "done", "direction", bins,
                          QuantizeBinauralDirection(value.left, value.right, bins))

\* Recordings of less than eight samples are refused, longer ones not modelled.
SplitFrequencyBandsAsync(sampleRate) ==
  kind = "pcm" /\ Len(value) = FrameCount
  /\ Call("pcm", "done", "bands", sampleRate, SplitFrequencyBands(value, sampleRate))

ComputeAudioSpectrumAsync ==
  kind = "pcm" /\ Call("pcm", "done", "spectrum", 0, ComputeAudioSpectrum(value))

NormalizeAsync(enumeration) ==
  kind = "sensors" /\ Call("sensors", "sensors", "normalize", 0, Normalize(value, enumeration))

FuseAsync == kind = "sensors" /\ Call("sensors", "done", "fuse", 0, Fuse(value))

ResolveAsync == kind = "sensors" /\ Call("sensors", "done", "retry", 0, ResolveRetryIntent(value))

Listable == kind = "sensors" /\ Cardinality(DOMAIN value) <= MaxListed

Next ==
  \/ \E ow, oh \in OutputSizes : MaxPoolAsync(ow, oh)
  \/ \E operation \in Operations, radius \in Radii : ApplyMorphologyAsync(operation, radius)
  \/ DetectEdgesAsync
  \/ \E request \in HsvRequests : CreateHsvThresholdMaskAsync(request)
  \/ \E sample \in Samples, rate \in Rates :
       \/ ApplyEmaAsync(sample, rate)
       \/ \E maxValue \in Samples : ApplyLeakyIntegratorAsync(sample, rate, maxValue)
  \/ \E measurement, control \in Samples : ApplyKalmanAsync(measurement, control)
  \/ \E palette \in Palettes : QuantizePaletteAsync(palette)
  \/ \E threshold \in Thresholds : CalculateTemporalDifferenceAsync(threshold)
  \/ \E radius \in Radii : EstimateDenseOpticalFlowAsync(radius)
  \/ \E cellSize \in CellSizes : QuantizeSpatialHashAsync(cellSize)
  \/ \E bins \in DirectionBins : QuantizeBinauralDirectionAsync(bins)
  \/ \E sampleRate \in SampleRates : SplitFrequencyBandsAsync(sampleRate)
  \/ ComputeAudioSpectrumAsync
  \/ Listable /\ \E enumeration \in SetToSeqs(DOMAIN value) : NormalizeAsync(enumeration)
  \/ FuseAsync
  \/ ResolveAsync

Spec == Init /\ [][Next]_vars

-----------------------------------------------------------------------------
(* Properties.                                                             *)

Ops == [i \in DOMAIN trail |-> trail[i].op]
Args(i) == trail[i].arg
CallsOnly(op) == \A i \in DOMAIN trail : trail[i].op = op

TypeOK ==
  /\ kind \in {"frame", "image", "average", "charge", "tracker", "stereo", "pcm",
               "video", "track", "sensors", "done"}
  /\ Len(trail) <= MaxCalls
  /\ kind = "frame" => DOMAIN value.at = Indexes(value)
  /\ kind = "charge" /\ trail # <<>> => value >= 0
  /\ kind = "tracker" /\ trail # <<>> => value.errorCovariance >= 0

Below(f, g) == \A i \in Indexes(f) : f.at[i] <= g.at[i]

\* Parts of ImageKernelsKeepTheirLaws.

\* Erosion and dilation are a pair: with one radius, an erosion followed by a
\* dilation gives a frame below the original, the other order one above it, and
\* doing either pair again changes nothing.  Clamping the window at the border
\* and the bounds of its loops must respect that (ApplyMorphology).
OpeningAndClosing ==
  LET opening == <<"erosion", "dilation">>
      closing == <<"dilation", "erosion">>
      OneRadius == \A i \in DOMAIN trail : Args(i) = Args(1)
      Twice(f, first, second, r) ==
        ApplyMorphology(ApplyMorphology(f, first, r), second, r)
  IN  kind = "frame" /\ Ops \in {opening, closing} /\ OneRadius =>
        /\ Ops = opening => /\ Below(value, input)
                            /\ Twice(value, "erosion", "dilation", Args(1)) = value
        /\ Ops = closing => /\ Below(input, value)
                            /\ Twice(value, "dilation", "erosion", Args(1)) = value

Transposed(f) ==
  Frame(f.h, f.w, [i \in Indexes(f) |-> f.at[(i % f.h) * f.w + (i \div f.h)]])

\* Rows and columns are treated alike: each kernel on a transposed frame
\* gives the transposed result.  A stride, a bound or an index that mixes up
\* width and height shows on a frame that is not square.
RowsAndColumnsAlike ==
  kind = "frame" /\ trail = <<>> =>
    LET f == Transposed(value) IN
    /\ DetectLaplacianEdges(f) = Transposed(DetectLaplacianEdges(value))
    /\ \A operation \in {"erosion", "dilation"} :
         ApplyMorphology(f, operation, 1) = Transposed(ApplyMorphology(value, operation, 1))
    /\ \A ow, oh \in OutputSizes : MaxPool(f, oh, ow) = Transposed(MaxPool(value, ow, oh))

\* The ranges from a to b and from b to a, one of which passes through 0
\* degrees, share the hues a and b and together leave out none, and a mask
\* follows its range when the colour channels are rotated, which turns every
\* hue by 120 degrees (HueInRange, RgbToHsv).
HueRangesAreArcs ==
  kind = "done" /\ Ops = <<"mask">> =>
    LET a     == Args(1).minHue
        b     == Args(1).maxHue
        whole == [Args(1) EXCEPT !.minHue = b, !.maxHue = a]
        turned == [Args(1) EXCEPT !.minHue = a + 120, !.maxHue = b + 120]
        rotated == [i \in DOMAIN input |-> [r |-> input[i].b, g |-> input[i].r, b |-> input[i].g]]
        Grey(c) == c.r = c.g /\ c.g = c.b
        Passes(i) == CreateHsvThresholdMask(<<input[i]>>,
                       [Args(1) EXCEPT !.minHue = Hue(input[i]), !.maxHue = Hue(input[i])])[1]
    IN  /\ NormalizeHue(a) # NormalizeHue(b) =>
             \A i \in DOMAIN input :
               LET other == CreateHsvThresholdMask(input, whole)[i] IN
               /\ AtLeast(value[i], other) = Passes(i)
               /\ value[i] = 1 /\ other = 1 =>
                    Hue(input[i]) \in {NormalizeHue(a), NormalizeHue(b)}
        /\ \A i \in DOMAIN input :
             Grey(input[i]) \/ CreateHsvThresholdMask(rotated, turned)[i] = value[i]

\* An image has no order of its own: morphology is the same however often it is
\* repeated, rows and columns are alike, and hues go round (ApplyMorphology,
\* DetectLaplacianEdges, MaxPool, CreateHsvThresholdMask).
ImageKernelsKeepTheirLaws == OpeningAndClosing /\ RowsAndColumnsAlike /\ HueRangesAreArcs

\* The kernels invent nothing.  However often a frame is pooled, to smaller or
\* to larger sizes, its peak survives and no value appears that was not in it
\* ("preserving block maxima").  A running average never leaves the interval its
\* start and its inputs span, whatever the rates, and a leaky integrator never
\* holds more than what was put into it: rounding and clamping at each call add
\* up to no drift.  Quantising an image that is painted with the colours it was
\* quantised to changes nothing.  The frequency bands share out the energy of
\* the samples, which by Parseval's theorem is known without a transform
\* (MaxPool, ApplyEma, ApplyLeakyIntegrator, QuantizeSemanticPalette,
\* SplitFrequencyBands).
KernelsInventNothing ==
  LET given == {Args(i) : i \in DOMAIN trail}
      put   == AtLeast(0, input) + SumFunction([i \in DOMAIN trail |-> AtLeast(0, Args(i))])
  IN  /\ kind = "frame" /\ CallsOnly("pool") =>
           /\ Max(PixelValues(value)) = Max(PixelValues(input))
           /\ PixelValues(value) \subseteq PixelValues(input)
      /\ kind = "average" => value \in Min(given \cup {input})..Max(given \cup {input})
      /\ kind = "charge"  => value <= put
      /\ Ops = <<"palette">> =>
           LET painted == [i \in DOMAIN input |->
                             IF value[i] = 0 THEN input[i] ELSE Args(1)[value[i]]]
           IN  QuantizeSemanticPalette(painted, Args(1)) = value
      /\ Ops = <<"bands">> =>
           LET squares  == SumFunction([i \in DOMAIN input |-> input[i] * input[i]])
               mean     == SumFunction(input)
               nyquist  == SumFunction([i \in DOMAIN input |-> IF i % 2 = 0 THEN input[i] ELSE -input[i]])
               energies == SumFunction([band \in DOMAIN value.power |-> value.power[band][1]])
               surds    == SumFunction([band \in DOMAIN value.power |-> value.power[band][2]])
           IN  /\ energies = FrameCount * squares
                             - mean * mean + nyquist * nyquist
               /\ surds = 0

\* Without process noise and control, the recursive filter computes what one
\* batch estimate from all measurements would: after n of them the covariance
\* is r p / (r + n p), the estimate the average weighted with it.  Rounding the
\* covariance n times moves the gain by at most n / r, and the estimate by that
\* times the spread of what was measured (ApplyKalman).
KalmanIsTheBatchEstimate ==
  LET n      == Len(trail)
      r      == input.measurement
      p      == input.errorCovariance
      total  == r + n * p
      sum    == SumFunction([i \in DOMAIN trail |-> Args(i).m])
      seen   == {Args(i).m : i \in DOMAIN trail} \cup {input.estimate}
      spread == Max(seen) - Min(seen)
  IN  /\ kind = "tracker"
      /\ input.process = 0 /\ p >= 0 /\ r > 0
      /\ \A i \in DOMAIN trail : Args(i).u = 0
      => /\ AbsOf(value.errorCovariance * total - r * p) <= n * total
         /\ AbsOf(value.estimate * total - (r * input.estimate + p * sum))
              <= n * total * (1 + ((n * spread) \div r))

\* What has moved is found where it went.  A sound that reaches the right
\* channel some samples after the left one, or before it, is found at exactly
\* that lag.  In a frame of different values that moved by no more than the search
\* radius, every pixel is found where it was, unless that is in the first row
\* or column, which repeats itself outwards; and no pixel is explained worse by
\* its vector than by the difference of the frames.  Points that move by one cell
\* are in the next cells, and visit them as often, across zero too
\* (EstimateStereoDelay, EstimateDenseOpticalFlow, CalculateTemporalDifference,
\* QuantizeSpatialHash).
ShiftsAreFound ==
  kind = "done" =>
    /\ Ops = <<"direction">> =>
         LET heard(channel) == {i \in DOMAIN channel : channel[i] # 0}
             Shifted(d) == /\ heard(input.left) # {}
                           /\ heard(input.right) = {i + d : i \in heard(input.left)}
                           /\ \A i \in heard(input.left) : input.right[i + d] = input.left[i]
         IN  \A d \in -MaxLag..MaxLag : Shifted(d) => value.delaySamples = d
    /\ Ops = <<"flow">> =>
         LET old     == input.previous
             radius  == Clamp(Args(1), 1, 4)
             Inner(x, y)  == x \in 1..(old.w - 1) /\ y \in 1..(old.h - 1)
             Came(d, i)   == <<(i % old.w) + d.x, (i \div old.w) + d.y>>
             Moved(d) == \A i \in Indexes(old) : LET c == Came(d, i) IN
                           c[1] \in 0..(old.w - 1) /\ c[2] \in 0..(old.h - 1)
                           => input.current.at[i] = At(old, c[1], c[2])
             still == CalculateTemporalDifference(old, input.current, 0).values
         IN  /\ IsInjective(old.at) =>
                  \A d \in [x : (-radius)..radius, y : (-radius)..radius] : Moved(d) =>
                    \A i \in Indexes(old) : LET c == Came(d, i) IN
                      Inner(c[1], c[2]) =>
                        value.vectors[i].x = d.x /\ value.vectors[i].y = d.y
             /\ \A i \in Indexes(old) :
                  value.vectors[i].confidence >= RoundDiv(10000, 1 + still[i])
    /\ Ops = <<"hash">> =>
         \A side \in {-AtLeast(1, Args(1)), AtLeast(1, Args(1))} :
           LET Beyond(n) == IF side > 0 THEN n + 1 ELSE n - 1
               moved == QuantizeSpatialHash(
                          [i \in DOMAIN input |-> [input[i] EXCEPT !.x = @ + side]], Args(1))
           IN  \A i \in DOMAIN input : LET cell == value.cells[i] IN
                 /\ moved.cells[i] = [cell EXCEPT !.x = Beyond(@)]
                 /\ moved.visits[moved.cells[i]] = value.visits[cell]

\* A normalised map has the state of every sensor from the ordinally last of
\* the spellings that mean it, whatever order the dictionary listed them in,
\* and the default of a known sensor that nobody reported (NormalizeAsync:
\* "deterministic key ordering").
LastSpellingWins ==
  kind = "sensors" /\ Ops = <<"normalize">> =>
    LET Spellings(name) == {raw \in DOMAIN input : NormalizeName(raw) = name}
        Latest(raws) == CHOOSE raw \in raws : \A other \in raws : Position[other] <= Position[raw]
    IN  /\ DOMAIN value = DefaultSensors \cup {NormalizeName(raw) : raw \in DOMAIN input}
        /\ \A name \in DOMAIN value :
             value[name] = IF Spellings(name) = {} THEN CreateDefault(name)
                           ELSE input[Latest(Spellings(name))]

\* Normalising a map whose names are in order changes neither the fusion nor
\* the retry decided from it: the default of a sensor means what its absence
\* means, in each of the places that ask (NormalizeAsync, Fuse,
\* ResolveRetryIntent).
DefaultsMeanAbsence ==
  /\ kind = "sensors" /\ Ops = <<"normalize">>
  /\ \A raw \in DOMAIN input : NormalizeName(raw) = raw
  => Fuse(value) = Fuse(input) /\ ResolveRetryIntent(value) = ResolveRetryIntent(input)

\* What a sensor map means survives its normalisation: of the spellings of a
\* name the last counts, and a sensor nobody mentioned stays without a say
\* (NormalizeAsync, Fuse, ResolveRetryIntent).
NormalizationKeepsTheMeaning == LastSpellingWins /\ DefaultsMeanAbsence

\* The map with nothing left of what its disabled sensors say.
Silenced(inputs) ==
  [name \in DOMAIN inputs |->
     IF inputs[name].enabled THEN inputs[name]
     ELSE [inputs[name] EXCEPT !.numbers = <<>>, !.flags = {}]]

\* What a disabled sensor reports turns no direction, raises no confidence and
\* requests no retry (Fuse, ResolveRetryIntent).
DisabledSensorsDoNotSteer ==
  kind = "sensors" =>
    LET heard == Fuse(value)
        rest  == Fuse(Silenced(value))
    IN  /\ [heard EXCEPT !.eventDetected = rest.eventDetected] = rest
        /\ ResolveRetryIntent(value) = ResolveRetryIntent(Silenced(value))

Mirrored(inputs) ==
  LET lateral == {"bias", "vectorX", "balance", "heading"} IN
  [name \in DOMAIN inputs |->
     [inputs[name] EXCEPT !.numbers =
        [key \in DOMAIN @ |-> IF key \in lateral THEN -@[key] ELSE @[key]]]]

\* Left and right are treated alike.  With every lateral input negated the
\* directions are negated, and the confidence and the event are the same; a
\* heading of half a turn is its own mirror image and left out.  With the
\* channels exchanged the balance is negated and the direction mirrored, up to
\* the rounding of a half, and the delay too unless two are equally good
\* (Fuse, QuantizeBinauralDirection).
LeftAndRightAlike ==
  /\ kind = "sensors" /\ AbsOf(Number(value, "compass", "heading")) < 180 =>
       LET seen == Fuse(value)
           mirror == Fuse(Mirrored(value))
       IN  /\ mirror.visualDirection = -seen.visualDirection
           /\ mirror.auditoryCorrection = -seen.auditoryCorrection
           /\ mirror.fusedDirection = -seen.fusedDirection
           /\ mirror.confidence = seen.confidence
           /\ mirror.eventDetected = seen.eventDetected
  /\ kind = "done" /\ Ops = <<"direction">> =>
       LET mirror == QuantizeBinauralDirection(input.right, input.left, Args(1))
       IN  /\ mirror.balance = -value.balance
           /\ value.directionIndex + mirror.directionIndex \in {Args(1) - 1, Args(1)}
           /\ \/ mirror.delaySamples = -value.delaySamples
              \/ Score(input.left, input.right, value.delaySamples)
                   = Score(input.left, input.right, -mirror.delaySamples)

\* Only sensors that are switched on steer, and neither to a side of their
\* own (Fuse, ResolveRetryIntent, QuantizeBinauralDirection).
SteeringIsFair == DisabledSensorsDoNotSteer /\ LeftAndRightAlike

\* The discrete Fourier transform.
Dft(x) ==
  LET n == Cardinality(DOMAIN x) IN
  [k \in DOMAIN x |->
     FoldLeft(LAMBDA sum, i : Plus(sum, Times(x[i - 1], Power(Root(n), k * (i - 1)))),
              <<0, 0>>, [i \in 1..n |-> i])]

\* "Computes an audio spectrum using a radix-2 FFT fallback"
\* (ComputeAudioSpectrum): relative to the highest bin, the bins are those of
\* the Fourier transform.
SpectrumIsTheDft ==
  kind = "done" /\ Ops = <<"spectrum">> =>
    LET dft     == Energies(Dft(FftInput(input)))
        Peak(s) == Max({s[k] : k \in DOMAIN s})
    IN  \A k \in DOMAIN dft : value[k] * Peak(dft) = dft[k] * Peak(value)
=============================================================================
