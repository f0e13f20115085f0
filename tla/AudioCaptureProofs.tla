------------------------- MODULE AudioCaptureProofs -------------------------
(***************************************************************************)
(* Proofs about the microphone: for every queue length, chunk and frame    *)
(* length and device rate, and every interleaving of PortAudio's callback  *)
(* with the session thread.                                                *)
(***************************************************************************)
EXTENDS AudioCapture, TLAPS, SequenceTheorems

-----------------------------------------------------------------------------
(* The resamplers, for every rate and every way to cut the input into      *)
(* chunks.                                                                 *)

\* Euclid's division, as the provers need it.
LEMMA DivMod ==
  ASSUME NEW n \in Nat, NEW d \in Nat \ {0}
  PROVE  /\ n \div d \in Nat
         /\ n % d \in 0..(d - 1)
         /\ n = d * (n \div d) + (n % d)
  BY SMT

\* Products of unknowns distribute over sums.
LEMMA Distributes ==
  ASSUME NEW a \in Int, NEW b \in Int, NEW c \in Int
  PROVE  (a + b) * c = a * c + b * c /\ c * (a + b) = c * a + c * b
  BY SMT

\* What the stream of chunks keeps true of a resampler.
Sound(r) ==
  /\ r \in Resampler
  /\ OnGrid(r)
  /\ NoBacklog(r)
  /\ r.rate.den = 1 => r.held = 0
  /\ r.rate.den # 1 => r.held > 0 \/ r.taken = 0

\* _make_resampler returns a sound resampler.
LEMMA FreshSound ==
  ASSUME NEW rate \in Rate
  PROVE  Sound(Fresh(rate)) /\ Fresh(rate).made = 0
  BY DEF Sound, Fresh, Rate, Resampler, OnGrid, NoBacklog

\* _FirDecimator.process keeps the resampler sound: after a chunk the phase
\* points at the next multiple of the factor.
LEMMA DecimateSound ==
  ASSUME NEW r, Sound(r), r.rate.den = 1, NEW n \in Nat \ {0}
  PROVE  /\ Sound(Decimate(r, n))
         /\ Decimate(r, n).made - r.made \in Nat
<1> DEFINE out == Decimated(r, n)
           f == r.rate.num
<1>1. /\ r \in Resampler /\ f \in Nat \ {0} /\ r.at \in Nat /\ r.held = 0
      /\ r.taken \in Nat /\ r.made \in Nat /\ r.rate \in Rate
  BY DEF Sound, Resampler, Rate
<1>2. out \in Nat /\ r.at + f * out - n \in Nat
  <2>1. CASE r.at >= n
    BY <2>1, <1>1 DEF Decimated
  <2>2. CASE r.at < n
    <3> DEFINE m == n - r.at - 1
    <3>1. m \in Nat
      BY <2>2, <1>1
    <3> HIDE DEF m
    <3>2. m \div f \in Nat /\ m % f \in 0..(f - 1) /\ m = f * (m \div f) + (m % f)
      BY <3>1, <1>1, DivMod
    <3>3. out = m \div f + 1
      BY <2>2 DEF Decimated, m
    <3>4. f * out = f * (m \div f) + f
      BY <3>2, <3>3, <1>1, Distributes
    <3>5. QED
      BY <3>2, <3>3, <3>4, <1>1 DEF m
  <2>3. QED
    BY <2>1, <2>2, <1>1
<1> DEFINE at == r.at + f * out - n
<1>3. Decimate(r, n) = [r EXCEPT !.at = at, !.taken = @ + n, !.made = @ + out]
  BY DEF Decimate
<1> HIDE DEF out, at
<1>4. Decimate(r, n) \in Resampler
  <2>1. at \in Nat /\ r.taken + n \in Nat /\ r.made + out \in Nat
    BY <1>1, <1>2 DEF at
  <2>2. QED
    BY <2>1, <1>1, <1>3 DEF Resampler
<1>5. /\ Decimate(r, n).rate = r.rate /\ Decimate(r, n).held = 0
      /\ Decimate(r, n).at = at
      /\ Decimate(r, n).taken = r.taken + n /\ Decimate(r, n).made = r.made + out
  BY <1>1, <1>3 DEF Resampler
<1>6. OnGrid(Decimate(r, n))
  <2>1. f * (r.made + out) = f * r.made + f * out
    BY <1>1, <1>2, Distributes
  <2>2. r.taken + r.at = f * r.made
    BY <1>1 DEF Sound, OnGrid
  <2> DEFINE p == f * r.made
             q == f * out
  <2>3. p \in Int /\ q \in Int /\ at = r.at + q - n
    BY <1>1, <1>2 DEF at
  <2> HIDE DEF p, q
  <2>4. r.taken + n + at = p + q
    BY <2>2, <2>3, <1>1 DEF p
  <2>5. f * (r.made + out) = p + q
    BY <2>1 DEF p, q
  <2>6. QED
    BY <2>3, <2>4, <2>5, <1>1, <1>2, <1>5 DEF OnGrid
<1>7. NoBacklog(Decimate(r, n))
  <2>1. Decimate(r, n).at \in Nat
    BY <1>2, <1>5 DEF at
  <2>2. QED
    BY <2>1, <1>1, <1>5 DEF NoBacklog
<1>8. QED
  BY <1>1, <1>2, <1>4, <1>5, <1>6, <1>7 DEF Sound

\* _LinearResampler.process keeps the resampler sound: it produces every output
\* that lies within the samples it has, and keeps the last of them.
LEMMA InterpolateSound ==
  ASSUME NEW r, Sound(r), r.rate.den # 1, NEW n \in Nat \ {0}
  PROVE  /\ Sound(Interpolate(r, n))
         /\ Interpolate(r, n).made - r.made \in Nat
<1> DEFINE out == Interpolated(r, n)
           last == Span(r, n)
           num == r.rate.num
           den == r.rate.den
           next == r.at + num * out
           from == IF out = 0 THEN 0 ELSE KeepFrom(next \div den, last)
           s == Interpolate(r, n)
<1>1. /\ r \in Resampler /\ num \in Nat \ {0} /\ den \in Nat \ {0} /\ r.at \in Nat
      /\ r.held \in Nat /\ r.taken \in Nat /\ r.made \in Nat /\ last \in Nat
      /\ last = r.held + n - 1 /\ r.rate \in Rate
  BY DEF Sound, Resampler, Rate, Span
<1>2. last * den \in Nat
  BY <1>1
<1>3. /\ out \in Nat
      /\ out # 0 => last >= 1 /\ next > last * den
      /\ out = 0 => last < 1 \/ r.at > last * den
  <2>1. CASE last < 1 \/ r.at > last * den
    BY <2>1, <1>1 DEF Interpolated
  <2>2. CASE ~(last < 1 \/ r.at > last * den)
    <3> DEFINE m == last * den - r.at
    <3>1. m \in Nat /\ last >= 1
      BY <2>2, <1>1, <1>2
    <3>2. out = m \div num + 1
      BY <2>2 DEF Interpolated
    <3> HIDE DEF m
    <3>3. m \div num \in Nat /\ m % num \in 0..(num - 1) /\ m = num * (m \div num) + (m % num)
      BY <3>1, <1>1, DivMod
    <3>4. num * out = num * (m \div num) + num
      BY <3>2, <3>3, <1>1, Distributes
    <3>5. num * out > m
      BY <3>3, <3>4, <1>1
    <3>6. m = last * den - r.at /\ num * out \in Int /\ out \in Nat /\ out # 0
      BY <3>2, <3>3, <1>1 DEF m
    <3>7. next > last * den
      <4> HIDE DEF out, num, den, last
      <4> QED BY <3>5, <3>6, <1>1, <1>2
    <3>8. QED
      BY <3>1, <3>6, <3>7
  <2>3. QED
    BY <2>1, <2>2
<1> HIDE DEF out
<1>4. next \in Nat
  BY <1>1, <1>3
<1> HIDE DEF next, last
<1>5. from \in 0..last
  <2>1. next \div den \in Nat
    BY <1>1, <1>4, DivMod
  <2>2. KeepFrom(next \div den, last) \in 0..last
    BY <2>1, <1>1 DEF KeepFrom
  <2>3. QED
    BY <2>2, <1>1
<1>6. out # 0 => from = last
  <2> SUFFICES ASSUME out # 0 PROVE ~(next \div den < last)
    BY DEF KeepFrom
  <2>1. /\ next \div den \in Nat /\ next % den \in 0..(den - 1)
        /\ next = den * (next \div den) + (next % den)
    BY <1>1, <1>4, DivMod
  <2> DEFINE q == next \div den
  <2> HIDE DEF q
  <2>2. ASSUME q < last PROVE FALSE
    <3>1. q \in Nat /\ next < den * q + den /\ next > last * den
      BY <2>1, <1>1, <1>3 DEF q
    <3>2. den * (q + 1) = den * q + den
      BY <3>1, <1>1, Distributes
    <3>3. den * (q + 1) <= last * den
      BY <2>2, <3>1, <1>1
    <3>4. den * q \in Int
      BY <3>1, <1>1
    <3>5. QED
      BY <3>1, <3>2, <3>3, <3>4, <1>1, <1>2, <1>4
  <2>3. QED
    BY <2>1, <2>2, <1>1 DEF q
<1> DEFINE at == next - from * den
<1>7. at \in Nat /\ from * den \in Nat
  <2>1. CASE out = 0
    BY <2>1, <1>1, <1>4
  <2>2. CASE out # 0
    BY <2>2, <1>2, <1>3, <1>4, <1>6
  <2>3. QED BY <2>1, <2>2
<1>8. s = [r EXCEPT !.held = r.held + n - from, !.at = at, !.taken = @ + n, !.made = @ + out]
  BY DEF Interpolate, PosShifted, out, next, last
<1> HIDE DEF s, at, from
<1>9. /\ r.held + n - from \in Nat /\ r.taken + n \in Nat /\ r.made + out \in Nat
  BY <1>1, <1>3, <1>5
<1>10. s \in Resampler
  BY <1>1, <1>7, <1>8, <1>9 DEF Resampler
<1>11. /\ s.rate = r.rate /\ s.held = r.held + n - from /\ s.at = at
       /\ s.taken = r.taken + n /\ s.made = r.made + out
  BY <1>1, <1>8 DEF Resampler
<1>12. OnGrid(s)
  <2> DEFINE a == r.taken - r.held
             p == num * r.made
             q == num * out
             g == from * den
  <2>1. a \in Int /\ p \in Int /\ q \in Int /\ g \in Int /\ a * den \in Int
    BY <1>1, <1>3, <1>7
  <2>2. a * den + r.at = p
    BY DEF Sound, OnGrid
  <2>3. (a + from) * den = a * den + g
    BY <1>1, <1>5, <2>1, Distributes
  <2>4. num * (r.made + out) = p + q
    BY <1>1, <1>3, Distributes
  <2>5. at = r.at + q - g
    <3>1. at = (r.at + q) - g
      BY DEF at, next
    <3> HIDE DEF q, g
    <3>2. QED
      BY <3>1, <2>1, <1>1
  <2>6. s.taken - s.held = a + from
    BY <1>1, <1>5, <1>11
  <2>7. (s.taken - s.held) * den + s.at = (a * den + g) + at
    BY <2>3, <2>6, <1>11
  <2>8. num * s.made = p + q
    BY <2>4, <1>11
  <2> DEFINE b == a * den
  <2>9. (b + g) + at = p + q
    <3>1. b \in Int /\ b + r.at = p /\ r.at \in Int
      BY <2>1, <2>2, <1>1 DEF b
    <3> HIDE DEF a, b, p, q, g, at
    <3>2. QED
      BY <3>1, <2>1, <2>5
  <2> HIDE DEF a, b, p, q, g
  <2>10. QED
    BY <2>7, <2>8, <2>9, <1>11 DEF OnGrid, b
<1>13. NoBacklog(s)
  <2>1. CASE out # 0
    <3>1. s.held = 1
      BY <2>1, <1>1, <1>6, <1>11
    <3>2. at > 0
      BY <2>1, <1>2, <1>3, <1>4, <1>6 DEF at
    <3>3. QED
      BY <3>1, <3>2, <1>1, <1>11 DEF NoBacklog
  <2>2. CASE out = 0 /\ last < 1
    <3>1. r.held = 0 /\ n = 1 /\ from = 0
      BY <2>2, <1>1 DEF from
    <3>2. s.taken = 1
      BY <3>1, <1>1, <1>11 DEF Sound
    <3>3. QED
      BY <3>2 DEF NoBacklog
  <2>3. CASE out = 0 /\ ~(last < 1)
    <3>1. r.at > last * den /\ from = 0
      BY <2>3, <1>3 DEF from
    <3>2. at = r.at /\ s.held - 1 = last
      BY <2>3, <3>1, <1>1, <1>11 DEF at, next
    <3>3. QED
      BY <3>1, <3>2, <1>11 DEF NoBacklog
  <2>4. QED
    BY <2>1, <2>2, <2>3
<1>14. QED
  <2>1. s.made - r.made \in Nat
    BY <1>1, <1>3, <1>11
  <2>2. s.rate.den # 1 /\ s.held > 0
    BY <1>1, <1>5, <1>11
  <2>3. Sound(s)
    BY <2>2, <1>10, <1>12, <1>13 DEF Sound
  <2>4. QED
    BY <2>1, <2>3 DEF s

-----------------------------------------------------------------------------

\* "Chunk-boundary safe": however the input is cut into chunks, every output
\* sample is at its place on the output grid, and none is held back.
THEOREM ResampledSound ==
  ASSUME NEW r, Sound(r), NEW n \in Nat \ {0}
  PROVE  /\ Sound(Resampled(r, n))
         /\ Resampled(r, n).made - r.made \in Nat
<1>1. CASE r.rate.den = 1
  <2>1. Resampled(r, n) = Decimate(r, n)
    BY <1>1 DEF Resampled
  <2>2. QED
    BY <1>1, <2>1, DecimateSound
<1>2. CASE r.rate.den # 1
  <2>1. Resampled(r, n) = Interpolate(r, n)
    BY <1>2 DEF Resampled
  <2>2. QED
    BY <1>2, <2>1, InterpolateSound
<1>3. QED
  BY <1>1, <1>2

-----------------------------------------------------------------------------
(* Callback and session thread.                                            *)

Increasing(q) == \A i, j \in DOMAIN q : i < j => q[i] < q[j]
Busy == callback # "idle"

\* The chunks on their way are in the order of their capture, from the last one
\* delivered over the batch and the queue to the one the callback holds.
Ordered ==
  /\ inOrder
  /\ Increasing(queue) /\ Increasing(batch)
  /\ \A i \in DOMAIN batch, j \in DOMAIN queue : batch[i] < queue[j]
  /\ \A i \in DOMAIN batch : batch[i] > delivered /\ batch[i] >= staleUpTo
  /\ \A j \in DOMAIN queue : queue[j] > delivered /\ queue[j] >= staleUpTo
  /\ Busy => /\ hand = captured /\ hand > delivered
             /\ \A i \in DOMAIN batch : batch[i] < hand
             /\ \A j \in DOMAIN queue : queue[j] < hand

\* Where the two threads are.
Places ==
  /\ batch # <<>> <=> session \in {"draining", "delivering"}
  /\ callback = "room" => Len(queue) < QueueChunks
  /\ fetched = 0 => resampler.made = 0 /\ batch = <<>> /\ delivered = 0

SamplesCounted ==
  (flushed = 0 /\ staleUpTo = 0) => resampler.made = frames * FrameLen + pending

CaptureInv ==
  /\ AudioTypeOK
  /\ LossesCounted
  /\ Ordered
  /\ Places
  /\ Sound(resampler)
  /\ SamplesCounted


-----------------------------------------------------------------------------
(* Sequences of chunks.                                                    *)

\* What is in a queue after put_nowait.
LEMMA AppendFacts ==
  ASSUME NEW S, NEW q \in Seq(S), NEW e \in S
  PROVE  /\ Append(q, e) \in Seq(S)
         /\ Len(Append(q, e)) = Len(q) + 1
         /\ \A i \in DOMAIN Append(q, e) :
               \/ i \in DOMAIN q /\ Append(q, e)[i] = q[i]
               \/ i = Len(q) + 1 /\ Append(q, e)[i] = e
<1>1. /\ Append(q, e) \in Seq(S) /\ Len(Append(q, e)) = Len(q) + 1 /\ Len(q) \in Nat
      /\ \A i \in 1..Len(q) : Append(q, e)[i] = q[i]
      /\ Append(q, e)[Len(q) + 1] = e
  BY AppendProperties
<1>2. DOMAIN q = 1..Len(q) /\ DOMAIN Append(q, e) = 1..(Len(q) + 1)
  BY <1>1
<1>3. QED
  BY <1>1, <1>2

\* What is in a queue after get_nowait.
LEMMA TailFacts ==
  ASSUME NEW S, NEW q \in Seq(S), q # <<>>
  PROVE  /\ Tail(q) \in Seq(S)
         /\ Len(Tail(q)) = Len(q) - 1
         /\ Head(q) \in S /\ Head(q) = q[1] /\ 1 \in DOMAIN q
         /\ \A i \in DOMAIN Tail(q) : Tail(q)[i] = q[i + 1] /\ i + 1 \in DOMAIN q
  BY HeadTailProperties

LEMMA WiderSeq ==
  ASSUME NEW m \in Nat, NEW q \in Seq(1..m)
  PROVE  q \in Seq(1..(m + 1))
<1>1. \A i \in 1..Len(q) : q[i] \in 1..m
  BY ElementOfSeq
<1>2. QED
  BY <1>1

LEMMA EmptyQueue ==
  ASSUME NEW S, NEW q \in Seq(S)
  PROVE  q = <<>> <=> Len(q) = 0
  OBVIOUS

\* A later chunk at the end keeps the order, ...
LEMMA AppendIncreasing ==
  ASSUME NEW m \in Nat, NEW q \in Seq(1..m), NEW e \in 1..m, Increasing(q),
         \A i \in DOMAIN q : q[i] < e
  PROVE  Increasing(Append(q, e))
<1>1. /\ Len(Append(q, e)) = Len(q) + 1
      /\ \A i \in DOMAIN Append(q, e) :
            \/ i \in DOMAIN q /\ Append(q, e)[i] = q[i]
            \/ i = Len(q) + 1 /\ Append(q, e)[i] = e
  BY AppendFacts
<1>2. SUFFICES ASSUME NEW i \in DOMAIN Append(q, e), NEW j \in DOMAIN Append(q, e), i < j
               PROVE  Append(q, e)[i] < Append(q, e)[j]
  BY DEF Increasing
<1>3. i \in DOMAIN q /\ Append(q, e)[i] = q[i]
  BY <1>1, <1>2
<1>4. QED
  BY <1>1, <1>2, <1>3 DEF Increasing

\* ... and taking the first one leaves the later ones.
LEMMA TailIncreasing ==
  ASSUME NEW m \in Nat, NEW q \in Seq(1..m), q # <<>>, Increasing(q)
  PROVE  /\ Increasing(Tail(q))
         /\ \A i \in DOMAIN Tail(q) : Head(q) < Tail(q)[i]
<1>1. /\ Head(q) = q[1] /\ 1 \in DOMAIN q /\ Tail(q) \in Seq(1..m)
      /\ \A i \in DOMAIN Tail(q) : Tail(q)[i] = q[i + 1] /\ i + 1 \in DOMAIN q
  BY TailFacts
<1>2. QED
  BY <1>1 DEF Increasing

-----------------------------------------------------------------------------
(* The callback.                                                           *)

LEMMA CaptureStep == CaptureInv /\ Capture /\ UNCHANGED persistent => CaptureInv'
<1> SUFFICES ASSUME CaptureInv, Capture, UNCHANGED persistent PROVE CaptureInv'
  OBVIOUS
<1> USE AudioAssumption
<1>1. /\ captured \in Nat /\ captured + 1 \in 1..(captured + 1) /\ captured' = captured + 1
      /\ queue \in Seq(1..captured) /\ batch \in Seq(1..captured)
      /\ queue \in Seq(1..(captured + 1)) /\ batch \in Seq(1..(captured + 1))
      /\ UNCHANGED <<dropped, lost, sessionVars, persistent>>
  BY WiderSeq DEF CaptureInv, AudioTypeOK, Capture
<1>2. /\ \A i \in DOMAIN queue : queue[i] \in 1..captured
      /\ \A i \in DOMAIN batch : batch[i] \in 1..captured
  BY <1>1, ElementOfSeq
<1>3. CASE HasRoom
  <2>1. queue' = Append(queue, captured + 1) /\ callback' = "idle" /\ callback = "idle" /\ hand' = hand
    BY <1>3 DEF Capture, Enqueued
  <2>2. /\ queue' \in Seq(1..captured') /\ Len(queue') = Len(queue) + 1
        /\ \A i \in DOMAIN queue' : \/ i \in DOMAIN queue /\ queue'[i] = queue[i]
                                    \/ i = Len(queue) + 1 /\ queue'[i] = captured + 1
    BY <1>1, <2>1, AppendFacts
  <2>3. Increasing(queue')
    BY <1>1, <1>2, <2>1, AppendIncreasing DEF CaptureInv, Ordered
  <2>4. AudioTypeOK'
    BY <1>1, <1>3, <2>1, <2>2 DEF CaptureInv, AudioTypeOK, HasRoom, sessionVars, Capture
  <2>5. LossesCounted'
    BY <1>1, <2>1, <2>2 DEF CaptureInv, AudioTypeOK, LossesCounted, sessionVars
  <2>6. Ordered'
    BY <1>1, <1>2, <2>1, <2>2, <2>3 DEF CaptureInv, AudioTypeOK, Ordered, Increasing, Busy, sessionVars
  <2>7. Places' /\ Sound(resampler)' /\ SamplesCounted'
    BY <1>1, <2>1 DEF CaptureInv, Places, SamplesCounted, sessionVars
  <2>8. QED
    BY <2>4, <2>5, <2>6, <2>7 DEF CaptureInv
<1>4. CASE ~HasRoom
  <2>1. queue' = queue /\ callback' = "full" /\ callback = "idle" /\ hand' = captured + 1
    BY <1>4 DEF Capture
  <2>2. AudioTypeOK'
    BY <1>1, <2>1 DEF CaptureInv, AudioTypeOK, sessionVars, Capture
  <2>3. LossesCounted'
    BY <1>1, <2>1 DEF CaptureInv, AudioTypeOK, LossesCounted, sessionVars
  <2>4. Ordered'
    BY <1>1, <1>2, <2>1 DEF CaptureInv, AudioTypeOK, Ordered, Increasing, Busy, sessionVars
  <2>5. Places' /\ Sound(resampler)' /\ SamplesCounted'
    BY <1>1, <2>1 DEF CaptureInv, Places, SamplesCounted, sessionVars
  <2>6. QED
    BY <2>2, <2>3, <2>4, <2>5 DEF CaptureInv
<1>5. QED
  BY <1>3, <1>4

LEMMA CountDropStep == CaptureInv /\ CountDrop /\ UNCHANGED persistent => CaptureInv'
<1> SUFFICES ASSUME CaptureInv, CountDrop, UNCHANGED persistent PROVE CaptureInv'
  OBVIOUS
<1> USE AudioAssumption
<1>1. AudioTypeOK'
  BY DEF CaptureInv, AudioTypeOK, CountDrop, sessionVars
<1>2. LossesCounted'
  BY DEF CaptureInv, AudioTypeOK, LossesCounted, CountDrop, sessionVars
<1>3. Ordered'
  BY DEF CaptureInv, Ordered, Increasing, Busy, CountDrop, sessionVars
<1>4. Places' /\ Sound(resampler)' /\ SamplesCounted'
  BY DEF CaptureInv, Places, SamplesCounted, CountDrop, sessionVars
<1>5. QED
  BY <1>1, <1>2, <1>3, <1>4 DEF CaptureInv

LEMMA MakeRoomStep == CaptureInv /\ MakeRoom /\ UNCHANGED persistent => CaptureInv'
<1> SUFFICES ASSUME CaptureInv, MakeRoom, UNCHANGED persistent PROVE CaptureInv'
  OBVIOUS
<1> USE AudioAssumption
<1>1. /\ captured \in Nat /\ queue \in Seq(1..captured) /\ batch \in Seq(1..captured)
      /\ callback = "counted" /\ lost' = lost + 1
      /\ UNCHANGED <<dropped, captured, sessionVars, persistent>>
  BY DEF CaptureInv, AudioTypeOK, MakeRoom
<1>2. CASE queue = <<>>
  <2>1. callback' = "idle" /\ hand' = 0 /\ queue' = queue /\ Len(queue) = 0
    BY <1>2 DEF MakeRoom
  <2>2. AudioTypeOK'
    BY <1>1, <2>1 DEF CaptureInv, AudioTypeOK, sessionVars
  <2>3. LossesCounted'
    BY <1>1, <2>1 DEF CaptureInv, AudioTypeOK, LossesCounted, sessionVars
  <2>4. Ordered' /\ Places' /\ Sound(resampler)' /\ SamplesCounted'
    BY <1>1, <2>1 DEF CaptureInv, Ordered, Increasing, Busy, Places, SamplesCounted, sessionVars
  <2>5. QED
    BY <2>2, <2>3, <2>4 DEF CaptureInv
<1>3. CASE queue # <<>>
  <2>1. callback' = "room" /\ hand' = hand /\ queue' = Tail(queue)
    BY <1>3 DEF MakeRoom
  <2>2. /\ queue' \in Seq(1..captured) /\ Len(queue') = Len(queue) - 1
        /\ \A i \in DOMAIN queue' : queue'[i] = queue[i + 1] /\ i + 1 \in DOMAIN queue
        /\ Increasing(queue')
    BY <1>1, <1>3, <2>1, TailFacts, TailIncreasing DEF CaptureInv, Ordered
  <2>3. AudioTypeOK'
    BY <1>1, <2>1, <2>2 DEF CaptureInv, AudioTypeOK, sessionVars
  <2>4. LossesCounted'
    BY <1>1, <2>1, <2>2 DEF CaptureInv, AudioTypeOK, LossesCounted, sessionVars
  <2>5. Ordered'
    BY <1>1, <2>1, <2>2 DEF CaptureInv, Ordered, Increasing, Busy, sessionVars
  <2>6. Places' /\ Sound(resampler)' /\ SamplesCounted'
    BY <1>1, <2>1, <2>2 DEF CaptureInv, AudioTypeOK, Places, SamplesCounted, sessionVars
  <2>7. QED
    BY <2>3, <2>4, <2>5, <2>6 DEF CaptureInv
<1>4. QED
  BY <1>2, <1>3

LEMMA PutAgainStep == CaptureInv /\ PutAgain /\ UNCHANGED persistent => CaptureInv'
<1> SUFFICES ASSUME CaptureInv, PutAgain, UNCHANGED persistent PROVE CaptureInv'
  OBVIOUS
<1> USE AudioAssumption
<1>1. /\ captured \in Nat /\ queue \in Seq(1..captured) /\ batch \in Seq(1..captured)
      /\ callback = "room" /\ callback' = "idle" /\ hand' = 0
      /\ hand = captured /\ hand > delivered /\ delivered \in Nat /\ hand \in 1..captured
      /\ UNCHANGED <<dropped, captured, lost, sessionVars, persistent>>
  BY DEF CaptureInv, AudioTypeOK, PutAgain, Ordered, Busy
<1>2. queue' = Append(queue, hand)
  BY DEF PutAgain, Enqueued
<1>3. /\ queue' \in Seq(1..captured) /\ Len(queue') = Len(queue) + 1
      /\ \A i \in DOMAIN queue' : \/ i \in DOMAIN queue /\ queue'[i] = queue[i]
                                  \/ i = Len(queue) + 1 /\ queue'[i] = hand
  BY <1>1, <1>2, AppendFacts
<1>4. Increasing(queue')
  BY <1>1, <1>2, AppendIncreasing DEF CaptureInv, Ordered, Busy
<1>5. AudioTypeOK'
  BY <1>1, <1>3 DEF CaptureInv, AudioTypeOK, Places, sessionVars
<1>6. LossesCounted'
  BY <1>1, <1>3 DEF CaptureInv, AudioTypeOK, LossesCounted, sessionVars
<1>7. Ordered'
  <2>1. /\ \A j \in DOMAIN queue : queue[j] > delivered /\ queue[j] >= staleUpTo
        /\ \A i \in DOMAIN batch, j \in DOMAIN queue : batch[i] < queue[j]
        /\ \A i \in DOMAIN batch : batch[i] < hand
        /\ hand >= staleUpTo
    BY <1>1 DEF CaptureInv, AudioTypeOK, Ordered, Busy
  <2>2. \A j \in DOMAIN queue' : queue'[j] > delivered /\ queue'[j] >= staleUpTo
    BY <1>1, <1>3, <2>1
  <2>3. \A i \in DOMAIN batch, j \in DOMAIN queue' : batch[i] < queue'[j]
    BY <1>3, <2>1
  <2>4. QED
    BY <1>1, <1>4, <2>2, <2>3 DEF CaptureInv, Ordered, Increasing, Busy, sessionVars
<1>8. Places' /\ Sound(resampler)' /\ SamplesCounted'
  BY <1>1 DEF CaptureInv, Places, SamplesCounted, sessionVars
<1>9. QED
  BY <1>5, <1>6, <1>7, <1>8 DEF CaptureInv

-----------------------------------------------------------------------------
(* The session thread.                                                     *)

LEMMA OpenStep ==
  ASSUME CaptureInv, NEW rate \in Rates, Open(rate), UNCHANGED persistent,
         session' \in {"on", "off"}
  PROVE  CaptureInv'
<1> USE AudioAssumption
<1>1. resampler' = Fresh(rate) /\ rate \in Rate
  BY DEF Open
<1>2. Sound(resampler') /\ resampler'.made = 0 /\ resampler' \in Resampler
  BY <1>1, FreshSound DEF Sound
<1>3. AudioTypeOK'
  BY <1>2 DEF CaptureInv, AudioTypeOK, Open
<1>4. LossesCounted' /\ Ordered'
  BY DEF LossesCounted, Ordered, Increasing, Busy, Open
<1>5. Places' /\ SamplesCounted'
  BY <1>2 DEF Places, SamplesCounted, Open
<1>6. QED
  BY <1>2, <1>3, <1>4, <1>5 DEF CaptureInv

\* The steps that move the session thread and touch neither queue nor batch.
LEMMA AcquireStep ==
  CaptureInv /\ (PreOpen \/ AcquireFresh \/ AcquireAgain) /\ UNCHANGED persistent => CaptureInv'
<1> SUFFICES ASSUME CaptureInv, PreOpen \/ AcquireFresh \/ AcquireAgain, UNCHANGED persistent
             PROVE  CaptureInv'
  OBVIOUS
<1> USE AudioAssumption
<1>1. CASE PreOpen
  BY <1>1, OpenStep DEF PreOpen
<1>2. CASE AcquireFresh /\ \E rate \in Rates : Open(rate)
  BY <1>2, OpenStep DEF AcquireFresh
<1>3. CASE AcquireAgain \/ (AcquireFresh /\ ~\E rate \in Rates : Open(rate))
  <2>1. /\ UNCHANGED <<persistent, deviceVars, resampler, pending, batch, fetched, flushed,
                        reported, staleUpTo, delivered, inOrder, frames, streams>>
        /\ open' \in BOOLEAN
        /\ session = "off" /\ session' \in {"off", "flushing"}
    BY <1>3 DEF AcquireAgain, AcquireFresh, CaptureInv, AudioTypeOK
  <2>2. AudioTypeOK'
    BY <2>1 DEF CaptureInv, AudioTypeOK, deviceVars
  <2>3. LossesCounted' /\ Ordered'
    BY <2>1 DEF CaptureInv, LossesCounted, Ordered, Increasing, Busy, deviceVars
  <2>4. Places' /\ Sound(resampler)' /\ SamplesCounted'
    BY <2>1 DEF CaptureInv, Places, SamplesCounted, deviceVars
  <2>5. QED
    BY <2>2, <2>3, <2>4 DEF CaptureInv
<1>4. QED
  BY <1>1, <1>2, <1>3

LEMMA FlushOneStep == CaptureInv /\ FlushOne /\ UNCHANGED persistent => CaptureInv'
<1> SUFFICES ASSUME CaptureInv, FlushOne, UNCHANGED persistent PROVE CaptureInv'
  OBVIOUS
<1> USE AudioAssumption
<1>1. /\ captured \in Nat /\ queue \in Seq(1..captured) /\ queue # <<>> /\ queue' = Tail(queue)
      /\ flushed' = flushed + 1 /\ flushed \in Nat
      /\ UNCHANGED <<dropped, hand, callback, captured, lost, open, resampler, pending, session,
                     batch, fetched, reported, staleUpTo, delivered, inOrder, frames, streams>>
  BY DEF CaptureInv, AudioTypeOK, FlushOne
<1>2. /\ queue' \in Seq(1..captured) /\ Len(queue') = Len(queue) - 1
      /\ \A i \in DOMAIN queue' : queue'[i] = queue[i + 1] /\ i + 1 \in DOMAIN queue
      /\ Increasing(queue')
  BY <1>1, TailFacts, TailIncreasing DEF CaptureInv, Ordered
<1>3. AudioTypeOK'
  BY <1>1, <1>2 DEF CaptureInv, AudioTypeOK
<1>4. LossesCounted'
  BY <1>1, <1>2 DEF CaptureInv, AudioTypeOK, LossesCounted
<1>5. Ordered'
  BY <1>1, <1>2 DEF CaptureInv, Ordered, Increasing, Busy
<1>6. Places' /\ Sound(resampler)' /\ SamplesCounted'
  BY <1>1, <1>2 DEF CaptureInv, AudioTypeOK, Places, SamplesCounted
<1>7. QED
  BY <1>3, <1>4, <1>5, <1>6 DEF CaptureInv

LEMMA FlushEmptyStep == CaptureInv /\ FlushEmpty /\ UNCHANGED persistent => CaptureInv'
<1> SUFFICES ASSUME CaptureInv, FlushEmpty, UNCHANGED persistent PROVE CaptureInv'
  OBVIOUS
<1> USE AudioAssumption
<1>1. /\ session = "flushing" /\ session' = "flushed" /\ pending' = 0
      /\ staleUpTo' = captured /\ queue = <<>> /\ batch = <<>>
      /\ UNCHANGED <<deviceVars, open, resampler, batch, fetched, flushed, reported,
                     delivered, inOrder, frames, streams>>
  BY DEF CaptureInv, Places, FlushEmpty, FlushesAll
<1>2. AudioTypeOK'
  BY <1>1 DEF CaptureInv, AudioTypeOK, deviceVars
<1>3. LossesCounted'
  BY <1>1 DEF CaptureInv, LossesCounted, deviceVars
<1>4. Ordered'
  BY <1>1 DEF CaptureInv, Ordered, Increasing, Busy, deviceVars
<1>5. Places' /\ Sound(resampler)'
  BY <1>1 DEF CaptureInv, Places, deviceVars
<1>6. SamplesCounted'
  <2> SUFFICES ASSUME flushed = 0, captured = 0
               PROVE  resampler.made = frames * FrameLen + 0
    BY <1>1 DEF SamplesCounted
  <2>1. fetched = 0 /\ staleUpTo = 0
    BY <1>1 DEF CaptureInv, AudioTypeOK, LossesCounted
  <2>2. 0 = frames * FrameLen + pending /\ resampler.made = 0
    BY <2>1 DEF CaptureInv, Places, SamplesCounted
  <2>3. frames * FrameLen \in Nat /\ pending \in Nat
    BY DEF CaptureInv, AudioTypeOK
  <2>4. QED
    BY <2>2, <2>3
<1>7. QED
  BY <1>2, <1>3, <1>4, <1>5, <1>6 DEF CaptureInv

LEMMA TakeDroppedStep == CaptureInv /\ TakeDropped /\ UNCHANGED persistent => CaptureInv'
<1> SUFFICES ASSUME CaptureInv, TakeDropped, UNCHANGED persistent PROVE CaptureInv'
  OBVIOUS
<1> USE AudioAssumption
<1>1. AudioTypeOK'
  BY DEF CaptureInv, AudioTypeOK, TakeDropped, ReadAndReset
<1>2. LossesCounted'
  BY DEF CaptureInv, AudioTypeOK, LossesCounted, TakeDropped, ReadAndReset
<1>3. Ordered'
  BY DEF CaptureInv, Ordered, Increasing, Busy, TakeDropped
<1>4. Places' /\ Sound(resampler)' /\ SamplesCounted'
  BY DEF CaptureInv, Places, SamplesCounted, TakeDropped
<1>5. QED
  BY <1>1, <1>2, <1>3, <1>4 DEF CaptureInv
LEMMA GetFramesStep == CaptureInv /\ GetFrames /\ UNCHANGED persistent => CaptureInv'
<1> SUFFICES ASSUME CaptureInv, GetFrames, UNCHANGED persistent PROVE CaptureInv'
  OBVIOUS
<1> USE AudioAssumption
<1>1. /\ captured \in Nat /\ queue \in Seq(1..captured) /\ session = "on" /\ batch = <<>>
      /\ fetched \in Nat /\ delivered \in Nat /\ staleUpTo \in Nat
      /\ UNCHANGED <<dropped, hand, callback, captured, lost, open, resampler, pending, flushed,
                     reported, staleUpTo, delivered, inOrder, frames, streams>>
  BY DEF CaptureInv, AudioTypeOK, GetFrames, Places
<1>2. CASE queue = <<>>
  <2>1. session' = "served" /\ queue' = queue /\ batch' = batch /\ fetched' = fetched
    BY <1>2 DEF GetFrames
  <2>2. QED
    BY <1>1, <2>1 DEF CaptureInv, AudioTypeOK, LossesCounted, Ordered, Increasing, Busy, Places,
                      SamplesCounted
<1>3. CASE queue # <<>>
  <2>1. session' = "draining" /\ queue' = Tail(queue) /\ batch' = <<Head(queue)>>
        /\ fetched' = fetched + 1
    BY <1>3 DEF GetFrames
  <2>2. /\ queue' \in Seq(1..captured) /\ Len(queue') = Len(queue) - 1
        /\ \A i \in DOMAIN queue' : queue'[i] = queue[i + 1] /\ i + 1 \in DOMAIN queue
        /\ Head(queue) \in 1..captured /\ Head(queue) = queue[1] /\ 1 \in DOMAIN queue
        /\ Increasing(queue') /\ \A i \in DOMAIN queue' : Head(queue) < queue'[i]
    BY <1>1, <1>3, <2>1, TailFacts, TailIncreasing DEF CaptureInv, Ordered
  <2>3. batch' \in Seq(1..captured) /\ batch' # <<>> /\ DOMAIN batch' = {1} /\ batch'[1] = Head(queue)
    BY <2>1, <2>2
  <2>4. AudioTypeOK'
    BY <1>1, <2>1, <2>2, <2>3 DEF CaptureInv, AudioTypeOK
  <2>5. LossesCounted'
    BY <1>1, <2>1, <2>2 DEF CaptureInv, AudioTypeOK, LossesCounted
  <2>6. Ordered'
    BY <1>1, <2>2, <2>3 DEF CaptureInv, Ordered, Increasing, Busy
  <2>7. Places' /\ Sound(resampler)' /\ SamplesCounted'
    BY <1>1, <2>1, <2>2, <2>3 DEF CaptureInv, AudioTypeOK, Places, SamplesCounted
  <2>8. QED
    BY <2>4, <2>5, <2>6, <2>7 DEF CaptureInv
<1>4. QED
  BY <1>2, <1>3

LEMMA GetMoreStep == CaptureInv /\ GetMore /\ UNCHANGED persistent => CaptureInv'
<1> SUFFICES ASSUME CaptureInv, GetMore, UNCHANGED persistent PROVE CaptureInv'
  OBVIOUS
<1> USE AudioAssumption
<1>1. /\ captured \in Nat /\ queue \in Seq(1..captured) /\ batch \in Seq(1..captured)
      /\ session = "draining" /\ batch # <<>> /\ fetched \in Nat
      /\ UNCHANGED <<dropped, hand, callback, captured, lost, open, resampler, pending, flushed,
                     reported, staleUpTo, delivered, inOrder, frames, streams>>
  BY DEF CaptureInv, AudioTypeOK, GetMore, Places
<1>2. CASE queue = <<>>
  <2>1. session' = "delivering" /\ queue' = queue /\ batch' = batch /\ fetched' = fetched
    BY <1>2 DEF GetMore
  <2>2. QED
    BY <1>1, <2>1 DEF CaptureInv, AudioTypeOK, LossesCounted, Ordered, Increasing, Busy, Places,
                      SamplesCounted
<1>3. CASE queue # <<>>
  <2>1. session' = session /\ queue' = Tail(queue) /\ batch' = Append(batch, Head(queue))
        /\ fetched' = fetched + 1
    BY <1>3 DEF GetMore
  <2>2. /\ queue' \in Seq(1..captured) /\ Len(queue') = Len(queue) - 1
        /\ \A i \in DOMAIN queue' : queue'[i] = queue[i + 1] /\ i + 1 \in DOMAIN queue
        /\ Head(queue) \in 1..captured /\ Head(queue) = queue[1] /\ 1 \in DOMAIN queue
        /\ Increasing(queue') /\ \A i \in DOMAIN queue' : Head(queue) < queue'[i]
    BY <1>1, <1>3, <2>1, TailFacts, TailIncreasing DEF CaptureInv, Ordered
  <2>3. /\ batch' \in Seq(1..captured) /\ Len(batch') = Len(batch) + 1
        /\ \A i \in DOMAIN batch' : \/ i \in DOMAIN batch /\ batch'[i] = batch[i]
                                    \/ i = Len(batch) + 1 /\ batch'[i] = Head(queue)
    BY <1>1, <2>1, <2>2, AppendFacts
  <2>4. \A i \in DOMAIN batch : batch[i] < Head(queue)
    BY <2>2 DEF CaptureInv, Ordered
  <2>5. Increasing(batch')
    BY <1>1, <2>1, <2>2, <2>4, AppendIncreasing DEF CaptureInv, Ordered
  <2>6. AudioTypeOK'
    BY <1>1, <2>1, <2>2, <2>3 DEF CaptureInv, AudioTypeOK
  <2>7. LossesCounted'
    BY <1>1, <2>1, <2>2 DEF CaptureInv, AudioTypeOK, LossesCounted
  <2>8. Ordered'
    <3>1. \A i \in DOMAIN batch', j \in DOMAIN queue' : batch'[i] < queue'[j]
      BY <2>2, <2>3 DEF CaptureInv, Ordered
    <3>2. \A i \in DOMAIN batch' : batch'[i] > delivered /\ batch'[i] >= staleUpTo
      BY <2>2, <2>3 DEF CaptureInv, Ordered
    <3>3. Busy => \A i \in DOMAIN batch' : batch'[i] < hand
      BY <2>2, <2>3 DEF CaptureInv, Ordered
    <3>4. QED
      BY <1>1, <2>2, <2>5, <3>1, <3>2, <3>3 DEF CaptureInv, Ordered, Increasing, Busy
  <2>9. Places' /\ Sound(resampler)' /\ SamplesCounted'
    <3>1. batch' # <<>> /\ fetched' # 0
      <4>1. batch' = <<>> <=> Len(batch') = 0
        BY <2>3, EmptyQueue
      <4>2. Len(batch) \in Nat
        BY <1>1
      <4>3. QED
        BY <4>1, <4>2, <2>1, <2>3, <1>1
    <3>2. QED
      BY <1>1, <2>1, <2>2, <3>1 DEF CaptureInv, AudioTypeOK, Places, SamplesCounted
  <2>10. QED
    BY <2>6, <2>7, <2>8, <2>9 DEF CaptureInv
<1>4. QED
  BY <1>2, <1>3

LEMMA DeliverStep == CaptureInv /\ Deliver /\ UNCHANGED persistent => CaptureInv'
<1> SUFFICES ASSUME CaptureInv, Deliver, UNCHANGED persistent PROVE CaptureInv'
  OBVIOUS
<1> USE AudioAssumption
<1> DEFINE r == Resampled(resampler, ChunkLen)
           samples == pending + r.made - resampler.made
           whole == samples \div FrameLen
<1>1. /\ captured \in Nat /\ queue \in Seq(1..captured) /\ batch \in Seq(1..captured)
      /\ session = "delivering" /\ batch # <<>> /\ fetched \in Nat /\ fetched # 0
      /\ UNCHANGED <<deviceVars, open, fetched, flushed, reported, staleUpTo, streams>>
      /\ delivered' = Head(batch) /\ batch' = Tail(batch)
      /\ inOrder' = (inOrder /\ Head(batch) > delivered)
      /\ session' = IF Len(batch) = 1 THEN "served" ELSE "delivering"
      /\ resampler' = r /\ frames' = frames + whole /\ pending' = samples % FrameLen
  BY DEF CaptureInv, AudioTypeOK, Deliver, Places, Remainder
<1>2. Sound(r) /\ r.made - resampler.made \in Nat /\ r \in Resampler
  BY ResampledSound DEF CaptureInv, Sound
<1>3. /\ r.made \in Nat /\ resampler.made \in Nat /\ pending \in Nat /\ frames \in Nat
      /\ samples \in Nat
  BY <1>2 DEF CaptureInv, AudioTypeOK, Resampler
<1>4. /\ whole \in Nat /\ samples % FrameLen \in 0..(FrameLen - 1)
      /\ samples = FrameLen * whole + (samples % FrameLen)
  BY <1>3, DivMod
<1>5. /\ batch' \in Seq(1..captured) /\ Len(batch') = Len(batch) - 1
      /\ \A i \in DOMAIN batch' : batch'[i] = batch[i + 1] /\ i + 1 \in DOMAIN batch
      /\ Head(batch) \in 1..captured /\ Head(batch) = batch[1] /\ 1 \in DOMAIN batch
      /\ Increasing(batch') /\ \A i \in DOMAIN batch' : Head(batch) < batch'[i]
  BY <1>1, TailFacts, TailIncreasing DEF CaptureInv, Ordered
<1>6. AudioTypeOK'
  <2>1. /\ resampler' \in Resampler /\ pending' \in 0..(FrameLen - 1) /\ frames' \in Nat
        /\ delivered' \in 0..captured' /\ inOrder' \in BOOLEAN
        /\ session' \in {"served", "delivering"} /\ batch' \in Seq(1..captured')
    <3> HIDE DEF whole, samples, r
    <3> QED
      BY <1>1, <1>2, <1>3, <1>4, <1>5 DEF deviceVars
  <2>2. QED
    BY <1>1, <2>1 DEF CaptureInv, AudioTypeOK, deviceVars
<1>7. LossesCounted'
  BY <1>1 DEF CaptureInv, LossesCounted, deviceVars
<1>8. Ordered'
  BY <1>1, <1>5 DEF CaptureInv, Ordered, Increasing, Busy, deviceVars
<1>9. Places'
  <2>1. batch' = <<>> <=> Len(batch) = 1
    <3>1. batch' = <<>> <=> Len(batch') = 0
      BY <1>5, EmptyQueue
    <3>2. Len(batch) \in Nat /\ Len(batch') = Len(batch) - 1
      BY <1>1, <1>5
    <3>3. QED
      BY <3>1, <3>2
  <2>2. QED
    BY <1>1, <2>1 DEF CaptureInv, Places, deviceVars
<1>10. SamplesCounted'
  <2> SUFFICES ASSUME flushed = 0, staleUpTo = 0
               PROVE  r.made = (frames + whole) * FrameLen + (samples % FrameLen)
    BY <1>1 DEF SamplesCounted
  <2> DEFINE a == frames * FrameLen
             b == FrameLen * whole
             c == samples % FrameLen
  <2>1. resampler.made = a + pending
    BY DEF CaptureInv, SamplesCounted
  <2>2. (frames + whole) * FrameLen = a + b
    BY <1>3, <1>4, Distributes
  <2>3. samples = b + c /\ a \in Int /\ b \in Int /\ c \in Int
    BY <1>3, <1>4
  <2>4. samples = pending + r.made - resampler.made
    OBVIOUS
  <2> HIDE DEF a, b, c, samples, r, whole
  <2>5. r.made = (a + b) + c
    BY <2>1, <2>3, <2>4, <1>3
  <2>6. QED
    BY <2>2, <2>5 DEF c
<1>11. QED
  BY <1>1, <1>2, <1>6, <1>7, <1>8, <1>9, <1>10 DEF CaptureInv

LEMMA CloseStep ==
  CaptureInv /\ (Release \/ Invalidate) /\ UNCHANGED persistent => CaptureInv'
<1> SUFFICES ASSUME CaptureInv, Release \/ Invalidate, UNCHANGED persistent PROVE CaptureInv'
  OBVIOUS
<1> USE AudioAssumption
<1>1. /\ session' = "off" /\ batch' = <<>> /\ open' \in BOOLEAN
      /\ UNCHANGED <<deviceVars, resampler, pending, fetched, flushed, reported, staleUpTo,
                     delivered, inOrder, frames, streams>>
  BY DEF CaptureInv, AudioTypeOK, Places, Release, Invalidate, Close
<1>2. AudioTypeOK'
  BY <1>1 DEF CaptureInv, AudioTypeOK, deviceVars
<1>3. LossesCounted' /\ Ordered'
  BY <1>1 DEF CaptureInv, LossesCounted, Ordered, Increasing, Busy, deviceVars
<1>4. Places' /\ Sound(resampler)' /\ SamplesCounted'
  BY <1>1 DEF CaptureInv, Places, SamplesCounted, deviceVars
<1>5. QED
  BY <1>2, <1>3, <1>4 DEF CaptureInv
-----------------------------------------------------------------------------
(* The invariant and the theorems.                                         *)

LEMMA CaptureInitial == AudioInit => CaptureInv
<1> SUFFICES ASSUME AudioInit PROVE CaptureInv
  OBVIOUS
<1> USE AudioAssumption
<1>1. PICK rate \in Rates : resampler = Fresh(rate)
  BY DEF AudioInit
<1>2. Sound(resampler) /\ resampler.made = 0 /\ resampler \in Resampler
  BY <1>1, FreshSound DEF Sound
<1>3. AudioTypeOK
  <2>1. queue \in Seq(1..captured) /\ Len(queue) = 0 /\ batch \in Seq(1..captured)
    BY DEF AudioInit
  <2>2. persistent \in BOOLEAN /\ open \in BOOLEAN /\ inOrder \in BOOLEAN
    BY Zenon DEF AudioInit
  <2>3. QED
    BY <1>2, <2>1, <2>2 DEF AudioInit, AudioTypeOK
<1>4. LossesCounted /\ Ordered
  BY DEF AudioInit, LossesCounted, Ordered, Increasing, Busy
<1>5. Places /\ SamplesCounted
  BY <1>2 DEF AudioInit, Places, SamplesCounted
<1>6. QED
  BY <1>2, <1>3, <1>4, <1>5 DEF CaptureInv

\* CaptureInv is inductive.
LEMMA CaptureInvariance == AudioSpec => []CaptureInv
<1>1. CaptureInv /\ [AudioNext]_audioVars => CaptureInv'
  <2> SUFFICES ASSUME CaptureInv, [AudioNext]_audioVars PROVE CaptureInv'
    OBVIOUS
  <2>1. CASE Callback /\ UNCHANGED persistent
    BY <2>1, CaptureStep, CountDropStep, MakeRoomStep, PutAgainStep DEF Callback
  <2>2. CASE SessionThread /\ UNCHANGED persistent
    BY <2>2, AcquireStep, FlushOneStep, FlushEmptyStep, TakeDroppedStep, GetFramesStep,
       GetMoreStep, DeliverStep, CloseStep DEF SessionThread
  <2>3. CASE UNCHANGED audioVars
    BY <2>3 DEF CaptureInv, AudioTypeOK, LossesCounted, Ordered, Increasing, Busy, Places,
                SamplesCounted, audioVars, deviceVars, sessionVars
  <2>4. QED
    BY <2>1, <2>2, <2>3 DEF AudioNext
<1>2. QED
  BY <1>1, CaptureInitial, PTL DEF AudioSpec

\* Types, and the bound of the queue: the second put_nowait of the callback
\* never meets a full queue.
THEOREM CaptureTypeCorrect == AudioSpec => []AudioTypeOK
<1>1. CaptureInv => AudioTypeOK
  BY DEF CaptureInv
<1>2. QED
  BY <1>1, CaptureInvariance, PTL

\* Every captured chunk is fetched, flushed, lost, queued or in the callback's
\* hand, and the drop counter has counted exactly the lost ones.
THEOREM LossesAreCounted == AudioSpec => []LossesCounted
<1>1. CaptureInv => LossesCounted
  BY DEF CaptureInv
<1>2. QED
  BY <1>1, CaptureInvariance, PTL

\* The session thread gets the chunks oldest first, and none from before the
\* flush but the one in the callback's hand.
THEOREM ChunksAreFreshAndInOrder == AudioSpec => []FreshAndInOrder
<1>1. CaptureInv => FreshAndInOrder
  <2> SUFFICES ASSUME CaptureInv, session = "delivering" PROVE Head(batch) >= staleUpTo
    BY DEF CaptureInv, Ordered, ChunksInOrder, NoStaleAudio, FreshAndInOrder
  <2>1. batch \in Seq(1..captured) /\ batch # <<>>
    BY DEF CaptureInv, AudioTypeOK, Places
  <2>2. Head(batch) = batch[1] /\ 1 \in DOMAIN batch
    BY <2>1, TailFacts
  <2>3. QED
    BY <2>2 DEF CaptureInv, Ordered
<1>2. QED
  BY <1>1, CaptureInvariance, PTL

\* Resampling and framing lose no sample and move none, at any device rate and
\* however the audio arrives.
THEOREM SamplesAreKept == AudioSpec => []SamplesKeptInPlace
<1>1. CaptureInv => SamplesKeptInPlace
  BY DEF CaptureInv, Sound, SamplesCounted, SamplesKeptInPlace
<1>2. QED
  BY <1>1, CaptureInvariance, PTL
=============================================================================
