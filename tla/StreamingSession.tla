-------------------------- MODULE StreamingSession --------------------------
(***************************************************************************)
(* The streaming engine of wldictate/streaming.py: StreamingSession turns  *)
(* the audio of an utterance into text while the user is still speaking.   *)
(*                                                                         *)
(* Audio is a sequence of numbered frames; a frame in `spoken' carries one *)
(* word, and a decode of a window returns the words of its frames with     *)
(* their end positions, like the timeline transcriber of                   *)
(* tests/test_streaming.py.  An interim decode may miss or mishear the     *)
(* word at the end of its window.  The decode thread runs the submitted    *)
(* decodes in order; any of them may fail, or be too slow for a caller     *)
(* that waits for it.  Every public method is an action, except            *)
(* finalize(), which waits and is therefore one action per wait.           *)
(***************************************************************************)
EXTENDS Integers, Sequences

CONSTANTS
    StreamingEnabled, \* streaming.enabled
    MinSpeech,        \* min_speech_s, in frames
    MaxBuffer,        \* max_buffer_s, in frames
    MinNew,           \* min_new_audio_s, in frames
    SentenceEnds,     \* the frames whose word ends a sentence
    Blanks,           \* the frames whose word normalizes to nothing (a dash)
    CutsShort,        \* can "int(end * SAMPLE_RATE) / SAMPLE_RATE < end" happen
    Unsettled         \* can an interim decode get the last word of its window wrong

ASSUME SessionAssumption ==
    /\ MinSpeech \in Nat /\ MaxBuffer \in Nat /\ MinNew \in Nat
    /\ SentenceEnds \subseteq Nat /\ Blanks \subseteq Nat
    /\ StreamingEnabled \in BOOLEAN /\ CutsShort \in BOOLEAN /\ Unsettled \in BOOLEAN

VARIABLES
    mode,          \* _correcting: "commit" or "correcting"
    utteranceId,   \* _utterance_id
    inUtterance,   \* _in_utterance
    u,             \* what _reset_utterance_state() resets, and the text typed
    inflight,      \* _inflight
    speculative,   \* _speculative
    fresh,         \* the future finalize() submits itself
    pool,          \* the decodes submitted to the pool, the running one first
    phase,         \* where finalize() waits; "idle" outside it
    \* history, read by the properties only
    spoken,        \* the frames that carry a word
    fed,           \* the frames of this utterance, in order
    timeouts,      \* full waits of this finalize()
    last           \* what the last finalize() did

sessionVars == <<mode, utteranceId, inUtterance, u, inflight, speculative, fresh, pool,
                 phase, spoken, fed, timeouts, last>>

\* text is what the emitter was given for this utterance: everything emitted in
\* commit mode, the last hypothesis in correcting mode.  faults is history: the
\* ways the utterance left the intended course.
FreshUtterance ==
    [buffer |-> <<>>,      \* _buffer and _chunks: the frames not trimmed away
     committed |-> <<>>,   \* _committed
     prevNorm |-> <<>>,    \* _prev_norm
     decodedLen |-> 0,     \* _decoded_len
     firstDecode |-> FALSE,\* _first_decode_done
     trimmed |-> <<>>,     \* _trimmed_raw
     text |-> <<>>,
     faults |-> {}]

Nothing == [outcome |-> "none", text |-> <<>>, fed |-> <<>>, faults |-> {}]

-----------------------------------------------------------------------------
(* Words, decodes and futures.                                             *)

\* A misheard word is the negative of the frame it was spoken in.
FrameOf(t) == IF t < 0 THEN -t ELSE t
Texts(ws) == [i \in DOMAIN ws |-> ws[i].text]

\* The elements of s at the places in I, in their order.
Picked(s, I) ==
    LET picked[n \in 0..Len(s)] ==
            IF n = 0 THEN <<>>
            ELSE IF n \in I THEN Append(picked[n - 1], s[n])
            ELSE picked[n - 1]
    IN  picked[Len(s)]

\* Where words are spoken, and what was said in a window: a word for each place.
SpokenAt(audio) == {i \in DOMAIN audio : audio[i] \in spoken}
Said(audio) == Picked([i \in DOMAIN audio |-> [text |-> audio[i], end |-> i]], SpokenAt(audio))
SpokenIn(audio) == Picked(audio, SpokenAt(audio))

\* The hypotheses an interim decode of a window may return.
Hypotheses(audio) ==
    LET ws == Said(audio)
        firm == SubSeq(ws, 1, Len(ws) - 1)
    IN  {ws} \cup IF Unsettled /\ ws # <<>>
                  THEN {firm, Append(firm, [ws[Len(ws)] EXCEPT !.text = -@])}
                  ELSE {}

NoFuture == [state |-> "none", utt |-> 0, words |-> <<>>]
Running == [state |-> "running", utt |-> utteranceId, words |-> <<>>]

\* What a decode may leave in its future: an exception or its words.
Resolutions(future, hypotheses) ==
    {[future EXCEPT !.state = "failed"]}
    \cup {[future EXCEPT !.state = "done", !.words = ws] : ws \in hypotheses}

\* A decode in the pool and the future it belongs to; "nobody" once the future
\* was dropped, but the thread still has to get through it.
Decode(of, audio) == [of |-> of, audio |-> audio]
Orphan(queue, of) ==
    [i \in DOMAIN queue |-> IF queue[i].of = of THEN Decode("nobody", <<>>) ELSE queue[i]]

\* The decode thread finishes its current decode (_submit_timed's run()).
FinishDecode ==
    /\ pool # <<>>
    /\ pool' = Tail(pool)
    /\ LET d == Head(pool)
       IN  \/ /\ d.of = "nobody"
              /\ UNCHANGED <<inflight, speculative, fresh>>
           \/ /\ d.of = "inflight"
              /\ inflight' \in Resolutions(inflight, Hypotheses(d.audio))
              /\ UNCHANGED <<speculative, fresh>>
           \/ /\ d.of = "speculative"
              /\ speculative' \in Resolutions(speculative, {Said(d.audio)})
              /\ UNCHANGED <<inflight, fresh>>
           \/ /\ d.of = "fresh"
              /\ fresh' \in Resolutions(fresh, {Said(d.audio)})
              /\ UNCHANGED <<inflight, speculative>>
    /\ UNCHANGED <<mode, utteranceId, inUtterance, u, phase, spoken, fed, timeouts, last>>

-----------------------------------------------------------------------------
(* _apply_hypothesis: agreement, commitment, rendering, trimming.          *)

\* LocalAgreement-2: how long a prefix of this hypothesis the one before it had.
Agreement(v, ws) ==
    LET both == IF Len(v.prevNorm) < Len(ws) THEN Len(v.prevNorm) ELSE Len(ws)
        Agree(i) == v.prevNorm[i] = ws[i].text /\ FrameOf(ws[i].text) \notin Blanks
    IN  CHOOSE n \in 0..both : (\A i \in 1..n : Agree(i)) /\ (n < both => ~Agree(n + 1))

\* Words the agreement newly covers are committed; commit mode types them.
Committed(v, ws) ==
    LET agree == Agreement(v, ws)
        new == SubSeq(ws, Len(v.committed) + 1, agree)
    IN  IF agree > Len(v.committed)
        THEN [v EXCEPT !.committed = SubSeq(ws, 1, agree),
                       !.prevNorm = Texts(ws),
                       !.text = IF mode = "commit" THEN @ \o Texts(new) ELSE @]
        ELSE [v EXCEPT !.prevNorm = Texts(ws)]

\* Correcting mode shows the hypothesis, less a tail of words too uncertain to
\* show (_gate_tail) that the agreement does not cover.
Rendered(v, ws, agree) ==
    LET stable == IF agree > Len(v.committed) THEN agree ELSE Len(v.committed)
        Shown(n) == [v EXCEPT !.text = v.trimmed \o Texts(SubSeq(ws, 1, n))]
    IN  IF mode = "correcting"
        THEN {Shown(n) : n \in {Len(ws)} \cup stable..Len(ws)}
        ELSE {v}

\* Where a long buffer is cut: the last committed sentence end, or word.
TrimEnd(v) ==
    LET ends == {i \in DOMAIN v.committed : v.committed[i].text \in SentenceEnds}
        at == IF ends = {} THEN Len(v.committed)
              ELSE CHOOSE i \in ends : \A j \in ends : j <= i
    IN  v.committed[at].end

\* keep(): is the word still in the buffer after the cut?  `short' says that
\* truncating the cut to whole samples put it just before the end of its word:
\* the word then counts as still in the buffer although its audio is not.
StillHeardUnshifted(w, cut, short) == w.end > 0
StillHeard(w, cut, short) == w.end > cut \/ (short /\ w.end = cut)

\* prev_norm loses the words that the committed words lost.
NormUncut(norm, gone) == norm
NormAfterCut(norm, gone) == SubSeq(norm, Len(gone) + 1, Len(norm))

\* _maybe_trim.
Trimmed(v, short) ==
    LET cut == IF TrimEnd(v) < Len(v.buffer) THEN TrimEnd(v) ELSE Len(v.buffer)
        keep == {i \in DOMAIN v.committed : StillHeard(v.committed[i], cut, short)}
        gone == Picked(v.committed, DOMAIN v.committed \ keep)
        kept == Picked(v.committed, keep)
    IN  [v EXCEPT
            !.buffer = SubSeq(@, cut + 1, Len(@)),
            !.decodedLen = IF @ > cut THEN @ - cut ELSE 0,
            !.trimmed = @ \o Texts(gone),
            !.committed = [i \in DOMAIN kept |-> [kept[i] EXCEPT !.end = @ - cut]],
            !.prevNorm = NormAfterCut(@, gone),
            !.faults = @ \cup (IF short THEN {"cut short"} ELSE {})
                         \cup (IF speculative # NoFuture THEN {"cut under speculation"}
                               ELSE {})]

MaybeTrimmed(v) ==
    IF Len(v.buffer) <= MaxBuffer \/ v.committed = <<>> THEN {v}
    ELSE IF TrimEnd(v) <= 0 THEN {v}
    ELSE {Trimmed(v, short) : short \in {FALSE, CutsShort}}

\* Every state _apply_hypothesis(ws) may leave.
Applied(v, ws) ==
    UNION {MaybeTrimmed(w) : w \in Rendered(Committed(v, ws), ws, Agreement(v, ws))}

\* _drain_inflight(block=False): the states it may leave.
Settled(future) == future.state \in {"done", "failed"}

Drained ==
    IF /\ inflight.state = "done"
       /\ inflight.utt = utteranceId
       /\ inUtterance
    THEN Applied(u, inflight.words)
    ELSE {u}

AfterDrain == IF Settled(inflight) THEN NoFuture ELSE inflight

-----------------------------------------------------------------------------
(* The public methods.                                                     *)

SessionInit ==
    /\ mode \in {"commit", "correcting"}
    /\ utteranceId = 0
    /\ inUtterance = FALSE
    /\ u = FreshUtterance
    /\ inflight = NoFuture /\ speculative = NoFuture /\ fresh = NoFuture
    /\ pool = <<>>
    /\ phase = "idle"
    /\ spoken = {} /\ fed = <<>> /\ timeouts = 0
    /\ last = Nothing

\* start_utterance
StartUtterance ==
    /\ phase = "idle"
    /\ utteranceId' = utteranceId + 1
    /\ inUtterance' = TRUE
    /\ u' = FreshUtterance
    /\ speculative' = NoFuture
    /\ pool' = Orphan(pool, "speculative")
    /\ fed' = <<>>
    /\ last' = Nothing
    /\ UNCHANGED <<mode, inflight, fresh, phase, spoken, timeouts>>

\* feed
Feed(frames) ==
    /\ phase = "idle"
    /\ IF inUtterance
       THEN /\ u' = [u EXCEPT !.buffer = @ \o frames]
            /\ fed' = fed \o frames
       ELSE UNCHANGED <<u, fed>>
    /\ UNCHANGED <<mode, utteranceId, inUtterance, inflight, speculative, fresh, pool,
                   phase, spoken, timeouts, last>>

\* The reasons of tick() not to decode, on the state its drain left.  The pacing
\* by the clock may hold back any decode but the first.
MayDecodeUnchecked(v) ==
    /\ inUtterance /\ StreamingEnabled
    /\ speculative = NoFuture
    /\ Len(v.buffer) >= MinSpeech
    /\ v.firstDecode => Len(v.buffer) - v.decodedLen >= MinNew

MayDecode(v) ==
    /\ inUtterance /\ StreamingEnabled
    /\ AfterDrain = NoFuture
    /\ speculative = NoFuture
    /\ Len(v.buffer) >= MinSpeech
    /\ v.firstDecode => Len(v.buffer) - v.decodedLen >= MinNew

\* tick
Tick ==
    /\ phase = "idle"
    /\ \E v \in Drained :
          \/ /\ MayDecode(v)
             /\ u' = [v EXCEPT !.decodedLen = Len(v.buffer), !.firstDecode = TRUE]
             /\ inflight' = Running
             /\ pool' = Append(pool, Decode("inflight", v.buffer))
          \/ /\ MayDecode(v) => v.firstDecode
             /\ u' = v
             /\ inflight' = AfterDrain
             /\ UNCHANGED pool
    /\ UNCHANGED <<mode, utteranceId, inUtterance, speculative, fresh, phase, spoken,
                   fed, timeouts, last>>

\* Too little audio to decode, and nothing committed that needs an ending.
TooShortByOne == Len(u.buffer) <= MinSpeech /\ u.committed = <<>>
TooShort == Len(u.buffer) < MinSpeech /\ u.committed = <<>>

\* speculate_final
SpeculateFinal ==
    /\ phase = "idle"
    /\ IF ~inUtterance \/ speculative # NoFuture \/ TooShort
       THEN UNCHANGED <<u, inflight, speculative, pool>>
       ELSE \E v \in Drained :
               /\ u' = [v EXCEPT !.firstDecode = TRUE]
               /\ inflight' = AfterDrain
               /\ speculative' = Running
               /\ pool' = Append(pool, Decode("speculative", v.buffer))
    /\ UNCHANGED <<mode, utteranceId, inUtterance, fresh, phase, spoken, fed, timeouts, last>>

\* cancel_speculation
CancelSpeculation ==
    /\ phase = "idle"
    /\ speculative' = NoFuture
    /\ pool' = Orphan(pool, "speculative")
    /\ UNCHANGED <<mode, utteranceId, inUtterance, u, inflight, fresh, phase, spoken,
                   fed, timeouts, last>>

-----------------------------------------------------------------------------
(* finalize: wait for the interim decode in flight, then for the           *)
(* speculative final decode, then for a final decode of its own.           *)

Finalize ==
    /\ phase = "idle"
    /\ IF inUtterance
       THEN /\ inUtterance' = FALSE
            /\ phase' = "drain"
            /\ timeouts' = 0
       ELSE UNCHANGED <<inUtterance, phase, timeouts>>
    /\ UNCHANGED <<mode, utteranceId, u, inflight, speculative, fresh, pool, spoken, fed, last>>

\* The end of finalize(): _reset_utterance_state().
Finish(outcome, words) ==
    /\ u' = FreshUtterance
    /\ phase' = "idle"
    /\ last' = [outcome |-> outcome, text |-> words, fed |-> fed, faults |-> u.faults]

\* After the drain: give up a buffer too short to decode, or go on to the
\* final decode.
AfterTheDrain(queue) ==
    \/ /\ TooShort
       /\ speculative' = NoFuture
       /\ pool' = Orphan(queue, "speculative")
       /\ Finish("skipped", u.text)
       /\ UNCHANGED fresh
    \/ /\ ~TooShort
       /\ \/ /\ speculative # NoFuture /\ speculative.utt = utteranceId
             /\ phase' = "speculative"
             /\ pool' = queue
             /\ UNCHANGED <<fresh, speculative>>
          \/ /\ ~(speculative # NoFuture /\ speculative.utt = utteranceId)
             /\ phase' = "fresh"
             /\ fresh' = Running
             /\ speculative' = NoFuture
             /\ pool' = Append(queue, Decode("fresh", u.buffer))
       /\ UNCHANGED <<u, last>>

\* A wait ends with the decode, or after FINAL_DECODE_TIMEOUT_S without it.
NeverTimesOut(future) == FALSE
TimesOut(future) == future.state = "running"

\* The blocking drain.  inUtterance is FALSE, so its result is not applied.
DrainWait ==
    /\ phase = "drain"
    /\ \/ /\ inflight = NoFuture \/ Settled(inflight)
          /\ AfterTheDrain(pool)
          /\ UNCHANGED timeouts
       \/ /\ TimesOut(inflight)
          /\ timeouts' = timeouts + 1
          /\ AfterTheDrain(Orphan(pool, "inflight"))
    /\ inflight' = NoFuture
    /\ UNCHANGED <<mode, utteranceId, inUtterance, spoken, fed>>

\* What the final words make of the text: commit mode types what was not yet
\* committed, correcting mode shows the whole.
FinalText(words) ==
    IF mode = "commit"
    THEN u.text \o Texts(SubSeq(words, Len(u.committed) + 1, Len(words)))
    ELSE u.trimmed \o Texts(words)

\* The wait for the speculative decode; unless it has words, a fresh one.
SpeculativeWait ==
    /\ phase = "speculative"
    /\ speculative' = NoFuture
    /\ \/ /\ speculative.state = "done"
          /\ Finish("final", FinalText(speculative.words))
          /\ UNCHANGED <<fresh, pool, timeouts>>
       \/ /\ speculative.state = "failed" \/ TimesOut(speculative)
          /\ phase' = "fresh"
          /\ fresh' = Running
          /\ pool' = Append(Orphan(pool, "speculative"), Decode("fresh", u.buffer))
          /\ timeouts' = IF speculative.state = "running" THEN timeouts + 1 ELSE timeouts
          /\ UNCHANGED <<u, last>>
    /\ UNCHANGED <<mode, utteranceId, inUtterance, inflight, spoken, fed>>

\* The wait for the decode finalize() submitted.  If it brings nothing, the
\* text typed so far stays as it is.
FreshWait ==
    /\ phase = "fresh"
    /\ fresh' = NoFuture
    /\ \/ /\ fresh.state = "done"
          /\ Finish("final", FinalText(fresh.words))
          /\ UNCHANGED <<pool, timeouts>>
       \/ /\ fresh.state = "failed" \/ TimesOut(fresh)
          /\ Finish("failed", u.text)
          /\ pool' = Orphan(pool, "fresh")
          /\ timeouts' = IF fresh.state = "running" THEN timeouts + 1 ELSE timeouts
    /\ UNCHANGED <<mode, utteranceId, inUtterance, inflight, speculative, spoken, fed>>

FinalizeWait == DrainWait \/ SpeculativeWait \/ FreshWait

-----------------------------------------------------------------------------
(* Properties.                                                             *)

Frames == Nat
TextsOfWords == Seq(Int)
Words == Seq([text: Int, end: Nat])
Futures == [state: {"none", "running", "done", "failed"}, utt: Nat, words: Words]
Faults == {"cut short", "cut under speculation"}

\* Results never cross utterances: a future belongs to the current utterance,
\* and when its decode is running the pool still holds exactly that decode.
FuturesAreCurrent ==
    /\ \A f \in {inflight, speculative, fresh} : f # NoFuture => f.utt = utteranceId
    /\ (~inUtterance /\ phase = "idle") =>
            inflight = NoFuture /\ speculative = NoFuture /\ fresh = NoFuture
    /\ \A of \in {"inflight", "speculative", "fresh"} :
          LET f == CASE of = "inflight" -> inflight
                     [] of = "speculative" -> speculative
                     [] of = "fresh" -> fresh
              mine == {i \in DOMAIN pool : pool[i].of = of}
          IN  IF f.state = "running" THEN \E i \in mine : mine = {i} ELSE mine = {}

\* Types of the engine's state, with what the executor and its futures always
\* are to each other.  finalize() waits for three decodes at most: the comment on
\* FINAL_DECODE_TIMEOUT_S has two.
SessionTypeOK ==
    /\ mode \in {"commit", "correcting"}
    /\ utteranceId \in Nat
    /\ inUtterance \in BOOLEAN
    /\ u \in [buffer: Seq(Frames), committed: Words, prevNorm: TextsOfWords,
              decodedLen: Nat, firstDecode: BOOLEAN, trimmed: TextsOfWords,
              text: TextsOfWords, faults: SUBSET Faults]
    /\ inflight \in Futures /\ speculative \in Futures /\ fresh \in Futures
    /\ pool \in Seq([of: {"nobody", "inflight", "speculative", "fresh"}, audio: Seq(Frames)])
    /\ phase \in {"idle", "drain", "speculative", "fresh"}
    /\ spoken \subseteq Frames
    /\ fed \in Seq(Frames)
    /\ timeouts \in 0..3
    /\ last \in [outcome: {"none", "final", "skipped", "failed"}, text: TextsOfWords,
                 fed: Seq(Frames), faults: SUBSET Faults]
    /\ FuturesAreCurrent

\* The frames of the words of a text.
FramesOf(words) == [i \in DOMAIN words |-> FrameOf(words[i])]

\* "prev_norm must stay index-aligned with what the next decode of the trimmed
\* buffer will produce": committed and prev_norm list the words of the buffer
\* from its first word on, and the trimmed words are those before the buffer.
HypothesisAligned ==
    LET words == Said(u.buffer)
        before == SpokenIn(SubSeq(fed, 1, Len(fed) - Len(u.buffer)))
    IN  (inUtterance /\ "cut short" \notin u.faults) =>
            /\ Len(u.committed) <= Len(words) /\ Len(u.prevNorm) <= Len(words)
            /\ \A i \in DOMAIN u.committed :
                  /\ FrameOf(u.committed[i].text) = words[i].text
                  /\ u.committed[i].end = words[i].end
            /\ \A i \in DOMAIN u.prevNorm : FrameOf(u.prevNorm[i]) = words[i].text
            /\ FramesOf(u.trimmed) = before
=============================================================================
