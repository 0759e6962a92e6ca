---------------------------- MODULE SignalFilters ----------------------------
(***************************************************************************)
(* The filters over time and the audio kernels of PerceptionAlgorithmKernel*)
(* and ResidentPerceptionAlgorithmKernel, as operators on one component of *)
(* their arrays.  Round4 keeps four digits: a filtered value is an integer *)
(* in units of 1/10000, and the model rounds where the code does.  Rates   *)
(* are in percent.  The arithmetic before the rounding is exact, that of   *)
(* the code is in doubles.                                                 *)
(***************************************************************************)
EXTENDS VisionKernels, SequencesExt

Clamp01(rate) == Clamp(rate, 0, 100)

\* The smoothing factor is used as it comes.
ApplyEma_AnyRate(previous, current, alpha) ==
  RoundDiv(previous * (100 - alpha) + current * alpha, 100)

ApplyEma(previous, current, alpha) ==
  RoundDiv(previous * (100 - Clamp01(alpha)) + current * Clamp01(alpha), 100)

\* Only the upper limit is enforced.
ApplyLeakyIntegrator_NoFloor(previous, input, leakRate, maxValue) ==
  RoundDiv(AtMost(100 * AtLeast(0, maxValue),
                  previous * (100 - Clamp01(leakRate)) + 100 * input), 100)

ApplyLeakyIntegrator(previous, input, leakRate, maxValue) ==
  RoundDiv(Clamp(previous * (100 - Clamp01(leakRate)) + 100 * input,
                 0, 100 * AtLeast(0, maxValue)), 100)

-----------------------------------------------------------------------------
(* The Kalman filter.  A gain is the fraction p / (p + r), 0 when p and r  *)
(* are 0: the code divides 0 by 1e-9 then.                                 *)

Predicted(state, control, processNoise) ==
  [estimate |-> state.estimate + control,
   errorCovariance |-> AtLeast(0, state.errorCovariance) + AtLeast(0, processNoise)]

\* The covariance is multiplied with the gain instead of its complement.
ApplyKalman_GainForComplement(state, measurement, control, processNoise, measurementNoise) ==
  LET predicted == Predicted(state, control, processNoise)
      p         == predicted.errorCovariance
      total     == AtLeast(1, p + AtLeast(0, measurementNoise))
  IN  [estimate |-> RoundDiv(predicted.estimate * total
                             + p * (measurement - predicted.estimate), total),
       errorCovariance |-> RoundDiv(p * p, total)]

ApplyKalman(state, measurement, control, processNoise, measurementNoise) ==
  LET predicted == Predicted(state, control, processNoise)
      p         == predicted.errorCovariance
      total     == AtLeast(1, p + AtLeast(0, measurementNoise))
  IN  [estimate |-> RoundDiv(predicted.estimate * total
                             + p * (measurement - predicted.estimate), total),
       errorCovariance |-> RoundDiv((total - p) * p, total)]

-----------------------------------------------------------------------------
(* Stereo delay.  A channel is a sequence of samples.                      *)

MaxLag == 8

\* The product of the left channel with the right one, lag samples later.
Score(left, right, lag) ==
  LET overlap == {i \in DOMAIN left : i + lag \in DOMAIN right}
  IN  SumFunction([i \in overlap |-> left[i] * right[i + lag]])

\* The lag is counted from the right channel.
EstimateStereoDelay_OtherWay(left, right) ==
  CHOOSE lag \in -MaxLag..MaxLag : \A k \in -MaxLag..MaxLag :
    \/ Score(right, left, k) < Score(right, left, lag)
    \/ Score(right, left, k) = Score(right, left, lag) /\ lag <= k

\* The first of the lags with the best score.
EstimateStereoDelay(left, right) ==
  CHOOSE lag \in -MaxLag..MaxLag : \A k \in -MaxLag..MaxLag :
    \/ Score(left, right, k) < Score(left, right, lag)
    \/ Score(left, right, k) = Score(left, right, lag) /\ lag <= k

\* What is heard is somewhere between 0, fully left, and directionBins - 1, fully
\* right; silence is in the middle.  Confidences are in units of 1/10000.
QuantizeBinauralDirection(left, right, directionBins) ==
  LET Level(channel) == SumFunction([i \in DOMAIN channel |-> AbsOf(channel[i])])
      total == Level(left) + Level(right)
      delay == EstimateStereoDelay(left, right)
      balance == IF total = 0 THEN 0 ELSE RoundDiv(10000 * (Level(right) - Level(left)), total)
  IN  [balance        |-> balance,
       delaySamples   |-> delay,
       directionIndex |-> IF total = 0 THEN RoundDiv(directionBins - 1, 2)
                          ELSE RoundDiv(Level(right) * (directionBins - 1), total),
       confidence     |-> AtMost(10000, AbsOf(balance) + AtMost(2500, 250 * AbsOf(delay)))]

-----------------------------------------------------------------------------
(* Frequency bands of eight samples.  The eighth roots of unity are made   *)
(* of 0, 1 and 1/sqrt(2): a sum of samples times cosines is <<a, b>>, for  *)
(* a + b/sqrt(2), and twice a power is <<a, b>>, for a + b sqrt(2).        *)

FrameCount == 8

\* The cosine of k eighths of a turn, and a sine as a cosine a quarter later.
Cosine(k) == <<<<1, 0>>, <<0, 1>>, <<0, 0>>, <<0, -1>>, <<-1, 0>>, <<0, -1>>, <<0, 0>>, <<0, 1>>>>
               [(k % FrameCount) + 1]

DftPower(samples, bin) ==
  LET Sum(shift, part) ==
        SumFunction([i \in 1..FrameCount |-> samples[i] * Cosine(bin * (i - 1) + shift)[part]])
      Square(a, b) == <<2 * a * a + b * b, 2 * a * b>>
      real == Square(Sum(0, 1), Sum(0, 2))
      imag == Square(Sum(2, 1), Sum(2, 2))
  IN  <<real[1] + imag[1], real[2] + imag[2]>>

BandOf(frequency) ==
  IF frequency <= 250 * FrameCount THEN "low"
  ELSE IF frequency <= 2000 * FrameCount THEN "mid" ELSE "high"

\* a + b sqrt(2) >= 0.
IsPositive(n) ==
  LET a == n[1]  b == n[2]
  IN  \/ a >= 0 /\ (b >= 0 \/ a * a >= 2 * b * b)
      \/ a < 0 /\ b >= 0 /\ 2 * b * b >= a * a

\* Twice the powers of the bands, of which the code reports the shares.
SplitFrequencyBands(samples, sampleRate) ==
  LET bins == 1..AtLeast(3, FrameCount \div 2)
      Of(band) == {bin \in bins : BandOf(bin * sampleRate) = band}
      Power8(band, part) == SumFunction([bin \in Of(band) |-> DftPower(samples, bin)[part]])
      power == [band \in {"low", "mid", "high"} |-> <<Power8(band, 1), Power8(band, 2)>>]
      Reaches(b, c) == IsPositive(<<power[b][1] - power[c][1], power[b][2] - power[c][2]>>)
  IN  [power    |-> power,
       dominant |-> IF Reaches("low", "mid") /\ Reaches("low", "high") THEN "low"
                    ELSE IF Reaches("mid", "high") THEN "mid" ELSE "high"]

-----------------------------------------------------------------------------
(* The spectrum.  A complex number is a pair of integers: the roots of     *)
(* unity up to the fourth are Gaussian integers, and an FFT of at most     *)
(* four samples is computed without any rounding.                          *)

Plus(a, b)  == <<a[1] + b[1], a[2] + b[2]>>
Minus(a, b) == <<a[1] - b[1], a[2] - b[2]>>
Times(a, b) == <<a[1] * b[1] - a[2] * b[2], a[1] * b[2] + a[2] * b[1]>>
Energy(a)   == a[1] * a[1] + a[2] * a[2]

MaxFftSize == 4

\* wlen of the code: exp(-2 pi i / length).
Root(length) == IF length = 2 THEN <<-1, 0>> ELSE <<0, -1>>

Power(w, n) == FoldLeft(Times, <<1, 0>>, [k \in 1..n |-> w])

PreviousPowerOfTwo(n) == Max({p \in {1, 2, 4} : p <= n})

\* The index that i is swapped with: its highest bit, or'ed with twice the rest.
SwapIndex(i) ==
  LET bit  == PreviousPowerOfTwo(i)
      rest == 2 * (i - bit)
  IN  IF rest >= bit THEN rest ELSE rest + bit

\* The swaps of the first loop of ApplyRadix2Fft, for i from 1 to n - 1.
Reorder(x) ==
  FoldLeft(LAMBDA y, i : IF i < SwapIndex(i)
                         THEN [y EXCEPT ![i] = y[SwapIndex(i)], ![SwapIndex(i)] = y[i]]
                         ELSE y,
           x, [i \in 1..(Cardinality(DOMAIN x) - 1) |-> i])

\* One round of butterflies.
Butterflies(x, length) ==
  [k \in DOMAIN x |->
     LET half == length \div 2
         j    == k % half
         even == IF k % length < half THEN k ELSE k - half
         v    == Times(x[even + half], Power(Root(length), j))
     IN  IF k = even THEN Plus(x[even], v) ELSE Minus(x[even], v)]

ApplyRadix2Fft(x) ==
  FoldLeft(Butterflies, Reorder(x),
           SelectSeq(<<2, 4>>, LAMBDA length : length <= Cardinality(DOMAIN x)))

\* The samples that are transformed: the longest start of a power of two.
FftInput(samples) ==
  [k \in 0..(PreviousPowerOfTwo(AtMost(MaxFftSize, Len(samples))) - 1) |-> <<samples[k + 1], 0>>]

\* The energies of the lower half of the bins: the squares of the magnitudes of
\* the code, which then takes the root and divides by the largest.
Energies(out) == [k \in 0..((Cardinality(DOMAIN out) \div 2) - 1) |-> Energy(out[k])]

ComputeAudioSpectrum(samples) == Energies(ApplyRadix2Fft(FftInput(samples)))
=============================================================================
