----------------------------- MODULE Dictation -----------------------------
(***************************************************************************)
(* The session loop of wldictate/worker.py (_run_session): the gate and    *)
(* the engine composed.  Each frame goes through the gate, and the loop    *)
(* makes the engine calls its GateResult asks for, in the order of the     *)
(* code, while the decode thread runs on its own.                          *)
(***************************************************************************)
EXTENDS VadGate, StreamingSession

VARIABLES
    calls,    \* the engine calls the loop still has to make for this frame
    stopped   \* the loop has ended

loopVars == <<calls, stopped>>
vars == <<gateVars, sessionVars, loopVars>>

Init == GateInit /\ SessionInit /\ calls = <<>> /\ stopped = FALSE

\* The calls for one GateResult, in the order of the loop's body.
If(flag, call) == IF flag THEN <<call>> ELSE <<>>

CallsWithoutCancel(r) ==
    If(r.started, "start")
    \o If(r.speech # <<>>, "feed")
    \o If(r.maybeEnded, "speculate")
    \o If(r.ended, "finalize")
    \o If(r.restarted, "start")

CallsWithoutRestart(r) ==
    If(r.started, "start")
    \o If(r.speech # <<>>, "feed")
    \o If(r.cancelled, "cancel")
    \o If(r.maybeEnded, "speculate")
    \o If(r.ended, "finalize")

CallsFor(r) ==
    If(r.started, "start")
    \o If(r.speech # <<>>, "feed")
    \o If(r.cancelled, "cancel")
    \o If(r.maybeEnded, "speculate")
    \o If(r.ended, "finalize")
    \o If(r.restarted, "start")

Ready == calls = <<>> /\ phase = "idle"

\* The loop takes the next frame of get_frames() through the gate.  A frame the
\* gate hears as voice carries a word.
NextFrame ==
    /\ Ready /\ ~stopped
    /\ \E p \in Levels :
          /\ Process(p)
          /\ spoken' = IF p = "low" THEN spoken ELSE spoken \cup {clock + 1}
    /\ calls' = CallsFor(result')
    /\ UNCHANGED <<stopped, mode, utteranceId, inUtterance, u, inflight, speculative,
                   fresh, pool, phase, fed, timeouts, last>>

Call(name, Method) ==
    /\ calls # <<>> /\ Head(calls) = name
    /\ Method
    /\ calls' = Tail(calls)
    /\ UNCHANGED <<gateVars, stopped>>

CallStart == Call("start", StartUtterance)
CallFeed == Call("feed", Feed(result.speech))
CallCancel == Call("cancel", CancelSpeculation)
CallSpeculate == Call("speculate", SpeculateFinal)
CallFinalize == Call("finalize", Finalize)

\* Between batches of frames the loop calls tick().
CallTick ==
    /\ Ready /\ ~stopped
    /\ Tick
    /\ UNCHANGED <<gateVars, loopVars>>

\* finalize() waits; the loop waits with it.
Waiting == FinalizeWait /\ UNCHANGED <<gateVars, loopVars>>

\* The decode thread.
Decoding == FinishDecode /\ UNCHANGED <<gateVars, loopVars>>

\* stop_event is set: the loop flushes the gate and finalizes what it cut off.
StopLoop ==
    /\ Ready /\ ~stopped
    /\ Flush
    /\ stopped' = TRUE
    /\ calls' = CallsFor(result')
    /\ UNCHANGED sessionVars

\* The loop dies of an exception (the microphone is gone): the gate is not
\* flushed, but session.stop() finalizes.
LoopFails ==
    /\ Ready /\ ~stopped
    /\ stopped' = TRUE
    /\ calls' = <<"finalize">>
    /\ UNCHANGED <<gateVars, sessionVars>>

\* Nothing is left to do.
Done == stopped /\ Ready /\ pool = <<>> /\ UNCHANGED vars

Next ==
    \/ NextFrame
    \/ CallStart \/ CallFeed \/ CallCancel \/ CallSpeculate \/ CallFinalize
    \/ CallTick
    \/ Waiting
    \/ Decoding
    \/ StopLoop \/ LoopFails
    \/ Done

\* The loop's thread runs on, and finalize()'s waits have timeouts.
Fairness ==
    /\ WF_vars(CallStart \/ CallFeed \/ CallCancel \/ CallSpeculate \/ CallFinalize)
    /\ WF_vars(Waiting)

Spec == Init /\ [][Next]_vars /\ Fairness

-----------------------------------------------------------------------------
(* Properties.                                                             *)

\* An utterance decoded to the end becomes exactly the words that were said in
\* it, in order, whether its final decode was the speculative one or not and
\* however often its buffer was cut, unless a cut fell under a standing
\* speculation or short of its word.
AllDecoded ==
    (last.outcome = "final" /\ last.faults = {})
        => FramesOf(last.text) = SpokenIn(last.fed)

\* An utterance given up as too short to decode loses no more than that: every
\* word but those in fewer than min_speech_s at its end is in the text.  It
\* takes a min_new_audio_s of half of that: a hypothesis that misses a committed
\* word removes it from the screen in correcting mode, and the trim that follows
\* must leave enough for another decode to bring it back.
LossIsShort ==
    (last.outcome = "skipped" /\ "cut short" \notin last.faults
     /\ (mode = "commit" \/ MinSpeech <= 2 * MinNew)) =>
        \A i \in 1..Len(last.fed) :
            (last.fed[i] \in spoken /\ i + MinSpeech <= Len(last.fed) + 1)
                => \E j \in DOMAIN last.text : FrameOf(last.text[j]) = last.fed[i]

\* What was said is typed: no word is lost on the way from the microphone to the
\* committed text but at the end of an utterance that was given up.
NothingLost == AllDecoded /\ LossIsShort

\* The gate and the engine agree on where the utterances are: between frames
\* the engine is in an utterance exactly when the gate is, and has every frame
\* of it up to now, none missing between the first and the last.
GateAndEngineAgree ==
    (Ready /\ ~stopped) =>
        /\ inUtterance <=> inSpeech
        /\ inUtterance => /\ Len(fed) = utteranceFrames
                          /\ \A i \in DOMAIN fed : fed[i] = clock - Len(fed) + i

\* Every utterance the gate ends is finalized: the loop gets through its calls.
CallsReturn == (calls # <<>> \/ phase # "idle") ~> Ready

\* tests/test_streaming.py, the buffer-trim test: "Committed text is the full
\* word sequence, in order, no dupes, no gaps."
NoDupes ==
    last.outcome = "final" =>
        \A i, j \in DOMAIN last.text :
            FrameOf(last.text[i]) = FrameOf(last.text[j]) => i = j
=============================================================================
