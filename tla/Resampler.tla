----------------------------- MODULE Resampler -----------------------------
(***************************************************************************)
(* The resamplers of wldictate/audio.py, which turn chunks at the device   *)
(* rate into samples at 16 kHz: _FirDecimator for integer factors,         *)
(* _LinearResampler for every other ratio, _Passthrough for 16 kHz itself. *)
(*                                                                         *)
(* Only positions are modelled, not amplitudes: which point of the input   *)
(* an output sample stands for.  A rate is num/den input samples per       *)
(* output sample in lowest terms; positions are in units of 1/den sample.  *)
(* (The code counts them in floating point.)                               *)
(***************************************************************************)
EXTENDS Integers

Rate == [num: Nat \ {0}, den: Nat \ {0}]

\* held is the input kept for the next chunk (_buf), at the position of the
\* next output relative to its first sample (_pos, or the decimator's _phase);
\* taken and made are history: the samples consumed and produced so far.
Resampler == [rate: Rate, held: Nat, at: Nat, taken: Nat, made: Nat]

\* _make_resampler
Fresh(rate) == [rate |-> rate, held |-> 0, at |-> 0, taken |-> 0, made |-> 0]

\* _LinearResampler.process on a chunk of n samples: outputs lie between two
\* samples that are both there.
Span(r, n) == r.held + n - 1
Interpolated(r, n) ==
    IF Span(r, n) < 1 \/ r.at > Span(r, n) * r.rate.den THEN 0
    ELSE (Span(r, n) * r.rate.den - r.at) \div r.rate.num + 1

KeepFrom(next, last) == IF next < last THEN next ELSE last

\* The index the kept input starts at, and the position relative to it.
PosUnshifted(next, from, den) == next
PosShifted(next, from, den) == next - from * den

Interpolate(r, n) ==
    LET out == Interpolated(r, n)
        next == r.at + r.rate.num * out
        from == IF out = 0 THEN 0 ELSE KeepFrom(next \div r.rate.den, Span(r, n))
    IN  [r EXCEPT !.held = r.held + n - from,
                  !.at = PosShifted(next, from, r.rate.den),
                  !.taken = @ + n,
                  !.made = @ + out]

\* _FirDecimator.process: every factor-th sample, the phase carried over.
\* _Passthrough is the factor one.
Decimated(r, n) == IF r.at < n THEN (n - r.at - 1) \div r.rate.num + 1 ELSE 0

Decimate(r, n) ==
    [r EXCEPT !.at = @ + r.rate.num * Decimated(r, n) - n,
              !.taken = @ + n,
              !.made = @ + Decimated(r, n)]

Resampled(r, n) ==
    IF n = 0 THEN r
    ELSE IF r.rate.den = 1 THEN Decimate(r, n) ELSE Interpolate(r, n)

-----------------------------------------------------------------------------
(* What a resampler promises.                                              *)

\* "Chunk-boundary safe": however the input is cut into chunks, the next output
\* is on the grid, made * num/den samples into the stream.
OnGrid(r) == (r.taken - r.held) * r.rate.den + r.at = r.rate.num * r.made

\* Nothing is held back: the next output needs a sample that is not there yet.
\* (The interpolator wants two samples to begin with.)
NoBacklog(r) == r.taken <= 1 \/ r.at > (r.held - 1) * r.rate.den
=============================================================================
