------------------------------ MODULE VadGate ------------------------------
(***************************************************************************)
(* The utterance gate of wldictate/vad.py: VadGate turns one speech        *)
(* probability per 32 ms frame into utterance boundaries.                  *)
(*                                                                         *)
(* Frames are numbered in the order process() receives them, and a frame's *)
(* probability is abstracted to the only three classes the code tells      *)
(* apart: "low" (p < offset), "mid" (offset <= p < onset) and "high"       *)
(* (p >= onset); Config._validate keeps offset <= onset.                   *)
(***************************************************************************)
EXTENDS Integers, Sequences, Functions

CONSTANTS
    OnsetFrames,        \* frames above onset that open an utterance
    SilenceFrames,      \* frames below offset that close one
    SpecFrames,         \* frames below offset that announce the end, 0: never
    PreRollFrames,      \* frames kept from before the onset
    MaxUtteranceFrames, \* length that forces an utterance to end
    FrameLimit          \* bound of the model: frames processed in a behaviour

\* __init__ clamps the first two to at least one frame, and sets the third
\* only for a period shorter than the closing silence (after rounding to
\* frames the two may be equal).
ASSUME GateAssumption ==
    /\ OnsetFrames \in Nat \ {0}
    /\ SilenceFrames \in Nat \ {0}
    /\ SpecFrames \in 0..SilenceFrames
    /\ PreRollFrames \in Nat
    /\ MaxUtteranceFrames \in Nat \ {0}
    /\ FrameLimit \in Nat

Levels == {"low", "mid", "high"}

VARIABLES
    inSpeech,         \* _in_speech
    onsetRun,         \* _onset_run
    silenceRun,       \* _silence_run
    utteranceFrames,  \* _utterance_frames
    specFired,        \* _spec_fired
    preRoll,          \* _pre_roll: frame numbers, oldest first
    result,           \* the GateResult of the last process() or flush()
    \* history, read by the properties only
    clock,            \* frames processed
    kept,             \* the last frame handed out as speech
    lastVoiced,       \* the last frame of the utterance at or above offset
    specAt            \* the frame of the utterance's standing announcement

gateState == <<inSpeech, onsetRun, silenceRun, utteranceFrames, specFired, preRoll>>
gateVars == <<gateState, result, clock, kept, lastVoiced, specAt>>

GateResult ==
    [speech: Seq(Nat), started: BOOLEAN, ended: BOOLEAN, forced: BOOLEAN,
     maybeEnded: BOOLEAN, cancelled: BOOLEAN, restarted: BOOLEAN]

NoResult ==
    [speech |-> <<>>, started |-> FALSE, ended |-> FALSE, forced |-> FALSE,
     maybeEnded |-> FALSE, cancelled |-> FALSE, restarted |-> FALSE]

GateInit ==
    /\ inSpeech = FALSE
    /\ onsetRun = 0
    /\ silenceRun = 0
    /\ utteranceFrames = 0
    /\ specFired = FALSE
    /\ preRoll = <<>>
    /\ result = NoResult
    /\ clock = 0
    /\ kept = 0
    /\ lastVoiced = 0
    /\ specAt = 0

-----------------------------------------------------------------------------
(* Outside an utterance.                                                   *)

OnsetRunAfter(p) == IF p = "high" THEN onsetRun + 1 ELSE 0

\* deque(maxlen=...).append: a full ring loses its oldest frame.
RememberAll(ring, f) == Append(ring, f)

RememberOldest(ring, f) == IF Len(ring) < PreRollFrames THEN Append(ring, f) ELSE ring

Remember(ring, f) ==
    IF PreRollFrames = 0 THEN ring
    ELSE IF Len(ring) < PreRollFrames THEN Append(ring, f)
    ELSE Append(Tail(ring), f)

\* process() while idle: the frame only enters the pre-roll ring.
Listen(p) ==
    /\ ~inSpeech
    /\ OnsetRunAfter(p) < OnsetFrames
    /\ onsetRun' = OnsetRunAfter(p)
    /\ preRoll' = Remember(preRoll, clock + 1)
    /\ result' = NoResult
    /\ UNCHANGED <<inSpeech, silenceRun, utteranceFrames, specFired,
                   kept, lastVoiced, specAt>>

\* _pre_roll.clear()
RingNotCleared == preRoll
RingCleared == <<>>

\* process() on the frame that completes the onset run: the utterance opens
\* with the pre-roll and this frame.
Onset(p) ==
    /\ ~inSpeech
    /\ OnsetRunAfter(p) >= OnsetFrames
    /\ inSpeech' = TRUE
    /\ onsetRun' = 0
    /\ silenceRun' = 0
    /\ result' = [NoResult EXCEPT !.started = TRUE,
                                  !.speech = Append(preRoll, clock + 1)]
    /\ utteranceFrames' = Len(preRoll) + 1
    /\ preRoll' = RingCleared
    /\ kept' = clock + 1
    /\ lastVoiced' = clock + 1
    /\ specAt' = 0
    /\ UNCHANGED specFired

-----------------------------------------------------------------------------
(* Inside an utterance: process() counts the silence, announces a probable *)
(* end, withdraws the announcement, and then may end the utterance.        *)

SilenceNeverReset(p) == IF p = "low" THEN silenceRun + 1 ELSE silenceRun
SilenceAfter(p) == IF p = "low" THEN silenceRun + 1 ELSE 0

\* An announcement that stands when this frame is looked at for a new one.
StillFiredAnyway(p) == specFired
StillFired(p) == specFired /\ p = "low"

Announces(p) ==
    /\ SpecFrames > 0
    /\ ~StillFired(p)
    /\ SilenceAfter(p) >= SpecFrames

Speaking(p) ==
    [NoResult EXCEPT !.speech = <<clock + 1>>,
                     !.cancelled = specFired /\ p # "low",
                     !.maybeEnded = Announces(p)]

\* The history of the frame, whatever becomes of the utterance.
Witness(p) ==
    /\ kept' = clock + 1
    /\ lastVoiced' = IF p = "low" THEN lastVoiced ELSE clock + 1
    /\ specAt' = IF Announces(p) THEN clock + 1
                 ELSE IF StillFired(p) THEN specAt ELSE 0

\* The length cap, reached with this frame.
PastCap == utteranceFrames + 1 > MaxUtteranceFrames
AtCap == utteranceFrames + 1 >= MaxUtteranceFrames

\* process() in an utterance that goes on.
Continue(p) ==
    /\ inSpeech
    /\ SilenceAfter(p) < SilenceFrames
    /\ ~AtCap
    /\ utteranceFrames' = utteranceFrames + 1
    /\ silenceRun' = SilenceAfter(p)
    /\ specFired' = (StillFired(p) \/ Announces(p))
    /\ result' = Speaking(p)
    /\ Witness(p)
    /\ UNCHANGED <<inSpeech, onsetRun, preRoll>>

\* _end_utterance.
Ended(r, forced) == [r EXCEPT !.ended = TRUE, !.forced = forced]

ClearButSpecFired ==
    /\ onsetRun' = 0
    /\ silenceRun' = 0
    /\ utteranceFrames' = 0
    /\ UNCHANGED specFired

ClearUtterance ==
    /\ onsetRun' = 0
    /\ silenceRun' = 0
    /\ utteranceFrames' = 0
    /\ specFired' = FALSE

\* process() on the frame that completes the closing silence.
EndOnSilence(p) ==
    /\ inSpeech
    /\ SilenceAfter(p) >= SilenceFrames
    /\ inSpeech' = FALSE
    /\ ClearUtterance
    /\ result' = Ended(Speaking(p), FALSE)
    /\ Witness(p)
    /\ UNCHANGED preRoll

\* process() at the length cap: this utterance ends and the next one is open.
Rollover(p) ==
    /\ inSpeech
    /\ SilenceAfter(p) < SilenceFrames
    /\ AtCap
    /\ ClearUtterance
    /\ result' = [Ended(Speaking(p), TRUE) EXCEPT !.restarted = TRUE]
    /\ Witness(p)
    /\ UNCHANGED <<inSpeech, preRoll>>

Process(p) ==
    /\ clock < FrameLimit
    /\ clock' = clock + 1
    /\ \/ Listen(p)
       \/ Onset(p)
       \/ Continue(p)
       \/ EndOnSilence(p)
       \/ Rollover(p)

\* flush(): the session stops, an open utterance ends now.
Flush ==
    /\ inSpeech' = FALSE
    /\ IF inSpeech
       THEN ClearUtterance /\ result' = Ended(NoResult, TRUE)
       ELSE UNCHANGED <<onsetRun, silenceRun, utteranceFrames, specFired>>
            /\ result' = NoResult
    /\ UNCHANGED <<preRoll, clock, kept, lastVoiced, specAt>>

GateNext == (\E p \in Levels : Process(p)) \/ Flush

GateSpec == GateInit /\ [][GateNext]_gateVars

-----------------------------------------------------------------------------
(* Properties.                                                             *)

\* Types; the ring never outgrows its maxlen and the counters stay below the
\* thresholds at which process() acts on them.
GateTypeOK ==
    /\ inSpeech \in BOOLEAN
    /\ onsetRun \in 0..(OnsetFrames - 1)
    /\ silenceRun \in 0..(SilenceFrames - 1)
    /\ utteranceFrames \in Nat
    /\ specFired \in BOOLEAN
    /\ preRoll \in Seq(Nat)
    /\ Len(preRoll) <= PreRollFrames
    /\ result \in GateResult
    /\ clock \in 0..FrameLimit
    /\ kept \in 0..clock
    /\ lastVoiced \in 0..clock
    /\ specAt \in 0..clock

\* A step hands out a gapless run of frames, all newer than any frame handed
\* out before; inside an utterance, rollovers included, it goes on with the
\* very next frame.  No audio is decoded twice and none is lost while the
\* user speaks ("no onset re-detection, no dropped audio").
DeliveredInOrder ==
    [][\A i \in DOMAIN result'.speech :
         /\ result'.speech[i] > kept
         /\ result'.speech[i] = result'.speech[1] + i - 1
         /\ inSpeech => result'.speech[1] = kept + 1]_gateVars

\* Word onsets are not clipped: with a pre-roll that can hold the onset run,
\* an utterance opens with every frame of the run that opened it.
OnsetNotClipped ==
    (result.started /\ PreRollFrames >= OnsetFrames - 1)
        => (clock - OnsetFrames + 1)..clock \subseteq Range(result.speech)

\* An announced end stands only while nothing is said: every voiced frame of
\* the utterance came before the frame of the announcement, so the audio
\* captured at the announcement covers all the speech.
SpeculationCoversSpeech ==
    (inSpeech /\ specFired) => specAt > lastVoiced

\* Only the length cap or the end of the session cuts a speaker off: an
\* utterance that ends by itself has had the whole closing silence since the
\* last voiced frame.
NoEndWhileTalking ==
    (result.ended /\ ~result.forced) => clock - lastVoiced >= SilenceFrames

\* "Maybe ended" always precedes "ended": an utterance that ends by silence
\* has an announcement standing, so its final decode was started early.
MaybeEndedBeforeEnded ==
    (result.ended /\ ~result.forced /\ SpecFrames > 0)
        => specAt > lastVoiced

\* The length cap holds whatever is said: an utterance is only at or above
\* it when the pre-roll alone brought it there.
LengthBounded ==
    inSpeech => \/ utteranceFrames < MaxUtteranceFrames
                \/ result.started

\* The three together: an utterance ends in an announced silence, or at the cap,
\* and never later than the cap.
EndsBySilenceOrCap == NoEndWhileTalking /\ MaybeEndedBeforeEnded /\ LengthBounded
=============================================================================
