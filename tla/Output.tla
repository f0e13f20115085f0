------------------------------- MODULE Output -------------------------------
(***************************************************************************)
(* From finalized utterances to the text on the screen: the typing side of *)
(* the session loop (wldictate/worker.py), the TransformCoordinator of     *)
(* wldictate/transform.py and the CorrectingEmitter behind its RenderProxy.*)
(*                                                                         *)
(* A barrier call of the proxy is one step here, since its caller waits    *)
(* (RenderProxy); a published text is rendered by a step of its own.       *)
(*                                                                         *)
(* Utterances are numbered, and a token says which utterances' words it    *)
(* stands for.  The final text of an utterance is two tokens; a reply of   *)
(* the model is two tokens that stand for all it was made of.  Spacing     *)
(* (TextFormatter) is left out.                                            *)
(***************************************************************************)
EXTENDS CorrectingEmitter

CONSTANTS
    TransformCap,   \* _TRANSFORM_MAX_BACKSPACES
    UtteranceLimit, \* bound of the model: utterances, chunks of one included
    BareMarker,     \* can the model answer with the marker of a revision only
    FailLimit       \* bound of the model: device failures

ASSUME OutputAssumption ==
    /\ LiveCap \in Nat /\ TransformCap \in Nat
    /\ UtteranceLimit \in Nat /\ BareMarker \in BOOLEAN /\ FailLimit \in Nat
    /\ [of: SUBSET (1..UtteranceLimit),
        form: {"word", "last", "misheard", "reply", "end", "newline", "marker"}] \subseteq Tokens

VARIABLES
    contextual, \* is there a coordinator?
    streaming,  \* contextual.stream
    emitter,    \* the CorrectingEmitter
    pending,    \* the text in RenderProxy._pending, or NoText
    loop,       \* the session loop: "on", "draining", "closing", "closed"
    speaking,   \* is an utterance open?
    now,        \* its number
    parts,      \* chunk_parts, joined
    transform,  \* the coordinator's _stream or _pending, or NoTransform
    replied,    \* _history is not empty
    generation, \* _generation, as the utterance that began it
    pool,       \* the tasks of the coordinator's thread, the running one first
    prefetched, \* _prefetched, or NoContext
    \* history
    fails,      \* device failures
    owed,       \* utterances finalized and not taken back by a command
    stranded,   \* utterances whose decodes all failed after some words were shown
    excused,    \* utterances the code may wipe out: those in the region of a chain
                \* that are none of its chunks, and those for which the marker of a
                \* revision alone was shown, or applied to a chain
    cut         \* the session ended with a text still to be shown, or died with a
                \* reply half typed

mode == <<contextual, streaming>>
typing == <<emitter, pending, fails>>
utterance == <<speaking, now, parts>>
llm == <<generation, pool, prefetched>>
outputVars == <<mode, typing, utterance, llm, loop, transform, replied, owed, stranded, excused, cut>>

NoText == [text |-> <<>>, cap |-> 0]
NoTransform == [state |-> "none"]

-----------------------------------------------------------------------------
(* Texts.                                                                  *)

Token(utterances, form) == [of |-> utterances, form |-> form]
Of(text) == UNION {text[i].of : i \in DOMAIN text}

Final(k) == <<Token({k}, "word"), Token({k}, "last")>>
Hypotheses(k) == {<<Token({k}, "word")>>, <<Token({k}, "misheard")>>}
Reply(utterances) == <<Token(utterances, "reply"), Token(utterances, "end")>>
NewLine == <<Token({}, "newline")>>

-----------------------------------------------------------------------------
(* Calls through the proxy.  A typist is what they change.                 *)

Typist == [emitter |-> emitter, pending |-> pending, fails |-> fails]

\* The session loop publishes a text; the newest wins.
Published(s, text, cap) == [s EXCEPT !.pending = [text |-> text, cap |-> cap]]

\* Typing a text; a device that fails freezes the emitter.
Typed(s, text, cap) ==
    {[emitter |-> e, pending |-> NoText,
      fails |-> IF e.frozen /\ ~s.emitter.frozen THEN s.fails + 1 ELSE s.fails] :
        e \in Synced(s.emitter, text, cap, s.fails < FailLimit)}

\* A barrier finds the published text rendered, a sync replaces it.
Rendered(s) == IF s.pending = NoText THEN {s} ELSE Typed(s, s.pending.text, s.pending.cap)
Calls(s, Method(_)) == {[t EXCEPT !.emitter = Method(@)] : t \in Rendered(s)}
Syncs(s, text) == Typed(s, text, LiveCap)
Shown(s) == ~s.emitter.frozen

Goes(s) ==
    /\ emitter' = s.emitter
    /\ pending' = s.pending
    /\ fails' = s.fails

-----------------------------------------------------------------------------
(* The coordinator.                                                        *)

\* original  the text submitted            restore  what to put back
\* mergeAll  the text is a chain's         answer   of the model, once shown
\* merged    the previous region was joined
\* typed     a part of the reply was published
Submitted(text, mergeAll) ==
    [state |-> IF streaming THEN "stream" ELSE "future",
     original |-> text, mergeAll |-> mergeAll, merged |-> FALSE,
     typed |-> FALSE, restore |-> <<>>, answer |-> "none"]

\* _restore_original, published.
Restore(c) == IF c.restore = <<>> THEN c.original ELSE c.restore
Restored(s, c) == Published(s, Restore(c), TransformCap)

\* cancel_pending
NotRestored(s, c) == s
Cancelled(s, c) == IF c.state = "stream" /\ c.typed THEN Restored(s, c) ELSE s

\* merge_previous as a barrier: what it leaves and whether it joined anything.
Merges(s, wanted) ==
    IF wanted
    THEN {[to |-> [t EXCEPT !.emitter = Merged(@)], joined |-> Mergeable(t.emitter)] : t \in Rendered(s)}
    ELSE {[to |-> s, joined |-> FALSE]}

\* What the model may answer: a text of its own, the same text, or a revision,
\* which also stands for the region it replaces.  The marker of a revision is
\* not seen in a partial reply if the model thinks aloud before it: then it is
\* shown.  Bare is the marker and nothing else to type, of which something was
\* shown all the same: the marker, or a thought that begins after it.
Marker == <<Token({}, "marker")>>
Answers == {"new", "same", "revise", "think then revise"}
Bare == IF BareMarker THEN {"bare", "think then bare"} ELSE {}
Revises(answer) == answer \in {"revise", "think then revise"}
SeenToRevise(answer) == answer \in {"revise", "bare"}
Body(answer, c, region) ==
    CASE answer = "new" -> Reply(Of(c.original))
      [] answer = "same" -> c.original
      [] Revises(answer) -> Reply(Of(c.original) \cup Of(region))
      [] answer \in Bare -> Marker

\* Does this part, or all, of the reply join the previous region?  A chain does
\* anyway; a revision does, if there was a reply to revise.
JoinsAnyway(c, revise) == ~c.merged
JoinsToRevise(c, revise) == ~c.merged /\ revise /\ replied
JoinsPrevious(c, revise) == ~c.merged /\ (c.mergeAll \/ (revise /\ replied))

-----------------------------------------------------------------------------
(* The coordinator's thread: one task at a time, in the order submitted.   *)
(* A context is known by the generation in which it was captured.          *)

NoContext == [for |-> 0, from |-> 0]
Prefetch(g) == [task |-> "prefetch", for |-> g]
Transform(g) == [task |-> "transform", for |-> g, from |-> 0]
Tasks == [task: {"prefetch"}, for: Nat] \cup [task: {"transform"}, for: Nat, from: Nat]

\* prefetch_context() and prewarm(); it may fail.
Prefetches ==
    /\ pool # <<>> /\ Head(pool).task = "prefetch"
    /\ \/ prefetched' = [for |-> Head(pool).for, from |-> generation]
       \/ UNCHANGED prefetched
    /\ pool' = Tail(pool)
    /\ UNCHANGED <<mode, typing, utterance, generation, loop, transform, replied, owed, stranded, excused, cut>>

\* A transform begins with the context that was captured for its utterance, or
\* captures one.
AnyContext(g) == prefetched # NoContext
ContextFor(g) == prefetched.for = g

Transforms ==
    /\ pool # <<>> /\ Head(pool).task = "transform" /\ Head(pool).from = 0
    /\ pool' = [pool EXCEPT ![1].from =
                   IF ContextFor(Head(pool).for) THEN prefetched.from ELSE generation]
    /\ UNCHANGED <<mode, typing, utterance, generation, prefetched, loop, transform, replied,
                   owed, stranded, excused, cut>>

\* The model has said all it will say, or the request failed.
Answered ==
    /\ pool # <<>> /\ Head(pool).task = "transform" /\ Head(pool).from # 0
    /\ pool' = Tail(pool)
    /\ UNCHANGED <<mode, typing, utterance, generation, prefetched, loop, transform, replied,
                   owed, stranded, excused, cut>>

\* What the session loop may find out of the transform in flight.
TaskOf(g) == {i \in DOMAIN pool : pool[i].task = "transform" /\ pool[i].for = g}
HasBegun == \A i \in TaskOf(generation) : pool[i].from # 0
HasEnded == TaskOf(generation) = {}

-----------------------------------------------------------------------------
(* The coordinator in the session loop.                                    *)

\* _stream_progress: a first part of the reply has come.
Progress ==
    LET c == transform
    IN  /\ loop \in {"on", "draining"} /\ c.state = "stream" /\ HasBegun
        /\ \E answer \in Answers \cup Bare :
              LET wanted == JoinsPrevious(c, SeenToRevise(answer))
              IN  /\ c.typed => answer = c.answer
                  /\ \E m \in Merges(Typist, wanted) :
                        LET merged == c.merged \/ m.joined
                            restore == IF c.typed /\ ~wanted THEN c.restore
                                       ELSE IF merged THEN m.to.emitter.scr ELSE c.original
                        IN  /\ Goes(Published(m.to, SubSeq(Body(answer, c, restore), 1, 1), TransformCap))
                            /\ transform' = [c EXCEPT !.merged = merged, !.typed = TRUE,
                                                      !.answer = answer, !.restore = restore]
        /\ UNCHANGED <<mode, utterance, llm, loop, replied, owed, stranded, excused, cut>>

\* _stream_finish: all of the reply has come, and is shown in one piece.
Finish ==
    LET c == transform
    IN  /\ loop \in {"on", "draining"} /\ c.state = "stream" /\ HasEnded
        /\ \E answer \in Answers :
              /\ c.typed => answer = c.answer
              /\ \E m \in Merges(Typist, JoinsPrevious(c, Revises(answer))) :
                    LET merged == c.merged \/ m.joined
                        region == IF merged THEN m.to.emitter.scr ELSE c.original
                        body == Body(answer, c, region)
                    IN  IF ~c.typed /\ body = c.original
                        THEN Goes(m.to) /\ replied' = TRUE
                        ELSE \E s \in Typed(m.to, body, TransformCap) :
                                Goes(s) /\ replied' = (replied \/ Shown(s))
        /\ transform' = NoTransform
        /\ UNCHANGED <<mode, utterance, llm, loop, owed, stranded, excused, cut>>

\* The stream fails, or ends in nothing that can be typed.
Fails ==
    /\ loop \in {"on", "draining"} /\ transform.state # "none" /\ HasEnded
    /\ Goes(Cancelled(Typist, transform))
    /\ transform' = NoTransform
    /\ UNCHANGED <<mode, utterance, llm, loop, replied, owed, stranded, excused, cut>>

\* A reply that is nothing but the marker of a revision is dropped, after a
\* chain has joined its chunks; but _apply types it over those of a chain, and
\* what _stream_progress has shown of it stays: no text is put back.
EndsBare(c) == c.typed => c.answer \in Bare

EmptyRevision ==
    LET c == transform
    IN  /\ BareMarker
        /\ loop \in {"on", "draining"} /\ c.state # "none" /\ EndsBare(c) /\ HasEnded
        /\ \E m \in Merges(Typist, c.mergeAll /\ ~c.merged) :
              IF c.state = "future" /\ m.joined
              THEN /\ \E s \in Typed(m.to, Marker, TransformCap) :
                        Goes(s) /\ replied' = (replied \/ Shown(s))
                   /\ excused' = excused \cup Of(m.to.emitter.scr)
              ELSE /\ Goes(m.to) /\ UNCHANGED replied
                   /\ excused' = IF c.typed THEN excused \cup Of(Restore(c)) ELSE excused
        /\ transform' = NoTransform
        /\ UNCHANGED <<mode, utterance, llm, loop, owed, stranded, cut>>

\* _finish and _apply: the reply of a transform that does not stream.
Apply ==
    LET c == transform
    IN  /\ loop \in {"on", "draining"} /\ c.state = "future" /\ HasEnded
        /\ \E answer \in Answers :
              \E m \in Merges(Typist, JoinsPrevious(c, Revises(answer))) :
                    LET body == Body(answer, c, IF m.joined THEN m.to.emitter.scr ELSE c.original)
                    IN  IF ~m.joined /\ body = c.original
                        THEN Goes(m.to) /\ replied' = TRUE
                        ELSE \E s \in Typed(m.to, body, TransformCap) :
                                Goes(s) /\ replied' = (replied \/ Shown(s))
        /\ transform' = NoTransform
        /\ UNCHANGED <<mode, utterance, llm, loop, owed, stranded, excused, cut>>

-----------------------------------------------------------------------------
(* The session loop.                                                       *)

\* A new utterance: what is in flight is cancelled, then the baseline advances.
Fresh(e) == Begun(e, FALSE)
Carried(e) == Begun(e, TRUE)

AdvancedThenCancelled(s, c) == {Cancelled(t, c) : t \in Calls(s, Fresh)}
CancelledThenAdvanced(s, c) == Calls(Cancelled(s, c), Fresh)

StillInFlight(c) == c
Dropped(c) == NoTransform

StartUtterance ==
    /\ loop = "on" /\ ~speaking /\ now < UtteranceLimit
    /\ \E s \in CancelledThenAdvanced(Typist, transform) : Goes(s)
    /\ transform' = Dropped(transform)
    /\ speaking' = TRUE /\ now' = now + 1
    /\ generation' = now + 1
    /\ pool' = IF contextual THEN Append(pool, Prefetch(now + 1)) ELSE pool
    /\ UNCHANGED <<mode, parts, prefetched, loop, replied, owed, stranded, excused, cut>>

\* An interim hypothesis (_render).
Hypothesis ==
    /\ loop = "on" /\ speaking
    /\ \E text \in Hypotheses(now) : Goes(Published(Typist, text, LiveCap))
    /\ UNCHANGED <<mode, utterance, llm, loop, transform, replied, owed, stranded, excused, cut>>

\* finalize(): the final text is shown and returned, if it could be shown; or
\* there were no words; or no decode succeeded and nothing is touched: what was
\* heard so far is left on the screen.
Finalized ==
    {[to |-> s, final |-> IF Shown(s) THEN Final(now) ELSE <<>>, left |-> {}] :
        s \in Syncs(Typist, Final(now))}
    \cup {[to |-> s, final |-> <<>>, left |-> {}] : s \in Syncs(Typist, <<>>)}
    \cup {[to |-> Typist, final |-> <<>>, left |-> Of(emitter.scr) \cup Of(pending.text)]}

\* Long speech: the utterance ends at the length cap and the next continues it.
Rollover ==
    /\ loop = "on" /\ speaking /\ now < UtteranceLimit
    /\ \E f \in Finalized :
          /\ \E s \in Calls(f.to, Carried) : Goes(s)
          /\ parts' = parts \o f.final
          /\ owed' = owed \cup Of(f.final)
          /\ stranded' = stranded \cup f.left
    /\ now' = now + 1
    /\ UNCHANGED <<mode, speaking, llm, loop, transform, replied, excused, cut>>

\* The voice commands, each by what is left of the command and its region.
Commanded(s, action) ==
    CASE action = "scratch" -> UNION {Syncs(t, <<>>) : t \in Calls(s, Merged)}
      [] action = "newline" -> Syncs(s, NewLine)
      [] action = "key" -> UNION {Calls(t, Disowned) : t \in Syncs(s, <<>>)}
      [] action = "copy" -> Syncs(s, <<>>)

\* The end of an utterance that is not a rollover, and _handle_final(): a voice
\* command, text to be typed as it is, or a transform.
EndUtterance(next) ==
    /\ speaking' = FALSE /\ loop' = next
    /\ parts' = <<>>
    /\ \E f \in Finalized :
          LET chained == parts # <<>>
              said == IF f.final = <<>> THEN <<>> ELSE parts \o f.final
          IN  \/ /\ said = <<>> \/ ~contextual
                 /\ Goes(f.to)
                 /\ transform' = NoTransform
                 /\ owed' = owed \cup Of(f.final)
                 /\ stranded' = stranded \cup f.left
                 /\ UNCHANGED <<pool, excused>>
              \/ /\ said # <<>> /\ contextual
                 /\ Goes(f.to)
                 /\ transform' = Submitted(said, chained)
                 /\ pool' = Append(pool, Transform(generation))
                 /\ owed' = owed \cup Of(f.final)
                 /\ UNCHANGED stranded
                 /\ excused' = IF chained THEN excused \cup (Of(f.to.emitter.prev) \ Of(said))
                               ELSE excused
              \/ /\ said # <<>> /\ ~chained
                 /\ \E action \in {"scratch", "newline", "key", "copy"} :
                       /\ \E s \in Commanded(f.to, action) : Goes(s)
                       /\ LET back == IF action = "scratch" THEN Of(f.to.emitter.prev) ELSE {}
                          IN  owed' = owed \ back /\ stranded' = stranded \ back
                 /\ transform' = NoTransform
                 /\ UNCHANGED <<pool, excused>>
              \/ /\ said # <<>> /\ ~chained
                 /\ \E s \in Syncs(f.to, Tail(said)) : Goes(s)   \* "literally ..."
                 /\ transform' = NoTransform
                 /\ owed' = owed \cup Of(said)
                 /\ UNCHANGED <<pool, stranded, excused>>
    /\ UNCHANGED <<mode, now, generation, prefetched, replied, cut>>

EndOfSpeech == loop = "on" /\ speaking /\ EndUtterance("on")

\* The render thread.
Render ==
    /\ pending # NoText
    /\ \E s \in Rendered(Typist) : Goes(s)
    /\ UNCHANGED <<mode, utterance, llm, loop, transform, replied, owed, stranded, excused, cut>>

-----------------------------------------------------------------------------
(* The end of the session.                                                 *)

\* The stop event: an open utterance is finalized and handled, then drain().
Stop ==
    /\ loop = "on"
    /\ \/ speaking /\ EndUtterance("draining")
       \/ /\ ~speaking /\ loop' = "draining"
          /\ UNCHANGED <<mode, typing, utterance, llm, transform, replied, owed, stranded, excused, cut>>

\* drain() is over: nothing in flight, or its budget spent, and then a rewrite
\* that was begun is taken back before it returns.
LeavesHalf(s, c) == {s}
TakesBack(s, c) ==
    IF c.state = "stream" /\ c.typed THEN Typed(s, Restore(c), TransformCap) ELSE {s}

Drained ==
    /\ loop = "draining" /\ loop' = "closing"
    /\ \E s \in TakesBack(Typist, transform) : Goes(s)
    /\ transform' = NoTransform
    /\ UNCHANGED <<mode, utterance, llm, replied, owed, stranded, excused, cut>>

\* The session dies of an exception: the utterance is finalized, no more.
Dies ==
    /\ loop = "on" /\ loop' = "closing"
    /\ IF speaking THEN \E f \in Finalized : Goes(f.to) ELSE Goes(Typist)
    /\ speaking' = FALSE
    /\ transform' = NoTransform
    /\ cut' = (transform # NoTransform /\ transform.typed)
    /\ UNCHANGED <<mode, now, parts, llm, replied, owed, stranded, excused>>

\* RenderProxy.close: a text still pending is discarded.  The coordinator's
\* shutdown() does not wait for its thread.
Close ==
    /\ loop = "closing" /\ loop' = "closed"
    /\ pending' = NoText
    /\ cut' = (cut \/ pending # NoText)
    /\ pool' = <<>>
    /\ UNCHANGED <<mode, emitter, fails, utterance, generation, prefetched, transform, replied,
                   owed, stranded, excused>>

-----------------------------------------------------------------------------
OutputInit ==
    /\ contextual \in BOOLEAN /\ streaming \in BOOLEAN
    /\ emitter = NewEmitter /\ pending = NoText
    /\ loop = "on" /\ speaking = FALSE /\ now = 0 /\ parts = <<>>
    /\ transform = NoTransform /\ replied = FALSE
    /\ generation = 0 /\ pool = <<>> /\ prefetched = NoContext
    /\ fails = 0 /\ owed = {} /\ stranded = {} /\ excused = {} /\ cut = FALSE

OutputNext ==
    \/ StartUtterance \/ Hypothesis \/ Rollover \/ EndOfSpeech
    \/ Progress \/ Finish \/ Fails \/ EmptyRevision \/ Apply
    \/ Prefetches \/ Transforms \/ Answered
    \/ Render
    \/ Stop \/ Drained \/ Dies \/ Close

OutputSpec == OutputInit /\ [][OutputNext]_outputVars

-----------------------------------------------------------------------------
(* Properties.                                                             *)

InFlight ==
    [state: {"stream", "future"}, original: Text, mergeAll: BOOLEAN, merged: BOOLEAN,
     typed: BOOLEAN, restore: Text, answer: Answers \cup Bare \cup {"none"}]

\* Types; no transform is in flight while the user speaks, and none without a
\* coordinator.
OutputTypeOK ==
    /\ contextual \in BOOLEAN /\ streaming \in BOOLEAN
    /\ emitter \in Emitter
    /\ pending \in [text: Text, cap: {0, LiveCap, TransformCap}]
    /\ loop \in {"on", "draining", "closing", "closed"}
    /\ speaking \in BOOLEAN /\ now \in 0..UtteranceLimit
    /\ parts \in Text
    /\ transform \in {NoTransform} \cup InFlight
    /\ transform # NoTransform => contextual /\ ~speaking
    /\ replied \in BOOLEAN
    /\ generation \in 0..now /\ pool \in Seq(Tasks) /\ prefetched \in [for: 0..now, from: 0..now]
    /\ fails \in 0..FailLimit /\ owed \subseteq 1..now
    /\ stranded \subseteq 1..now /\ excused \subseteq 1..now
    /\ cut \in BOOLEAN

\* Whatever mixture of hypotheses, finals, commands and transforms was typed, by
\* whichever thread and with whatever failures: the emitter knows the screen or
\* knows that it does not, and text that no region holds any more is never
\* touched again, not even by a device that fails half way.
SettledTextStays == KnowsScreen(emitter) /\ SettledStays(emitter)

\* "A late transform must never rewrite into the new utterance's region": while
\* the user speaks, what is typed and what is about to be typed is of the open
\* utterance only.
NoLateRewrite ==
    speaking => Of(pending.text) \cup Of(emitter.scr) \subseteq {now}

\* Nothing is going on, or the session is over and was not cut short, and nothing
\* went wrong with the device.
AtRest ==
    /\ loop = "on" \/ (loop = "closed" /\ ~cut)
    /\ ~speaking /\ transform = NoTransform /\ pending = NoText /\ fails = 0

Whole(text) ==
    \A i \in DOMAIN text : (text[i].form = "reply" /\ text[i].of \cap owed # {}) =>
        i < Len(text) /\ text[i + 1] = Token(text[i].of, "end")

\* A streamed reply that was cancelled, failed or ran out of the session's last
\* budget leaves no half-replaced message: when all is quiet or over, the replies
\* on the screen are whole.
NoHalfReply == AtRest => Whole(emitter.screen)

\* Nothing is on the screen twice: not a text and its transform, not a chunk of
\* a long message and the reply to all of it.
SaidOnce ==
    LET text == emitter.screen
        IsReply(token) == token.form \in {"reply", "end"}
    IN  AtRest => \A i, j \in DOMAIN text :
            (i # j /\ text[i].of \cap text[j].of # {}) =>
                /\ text[i] # text[j]
                /\ IsReply(text[i]) <=> IsReply(text[j])
                /\ IsReply(text[i]) => text[i].of = text[j].of

\* A transform replaces a message by a whole reply, once.  A marker that was
\* shown and left there (EmptyRevision) is no part of a reply.
ReplacesWhole == NoHalfReply /\ SaidOnce

\* The user's words stay: every utterance finalized, and what was heard of one
\* whose decodes all failed, is on the screen, as it was or in a reply made of it,
\* unless a command took it back, or the code may wipe it out (excused): it is in
\* the region of a chain of chunks without being one of them, or the marker of a
\* revision alone was shown in its place or applied to its chain.
WordsStay == AtRest => (owed \cup stranded) \ excused \subseteq Of(emitter.screen)

\* The model is never shown the window of an earlier utterance: a context
\* captured ahead is used for its own utterance only, however long the transform
\* before kept the one thread busy and whatever was cancelled meanwhile.
ContextIsOfThisUtterance ==
    \A i \in DOMAIN pool :
        (pool[i].task = "transform" /\ pool[i].from # 0) => pool[i].from >= pool[i].for

-----------------------------------------------------------------------------
(* What the repository says and the code does not do.                      *)

\* wldictate/emitter.py:436-438: with carry the region accumulates "so a later
\* combined transform can rewrite the whole chain as one message".  The chain,
\* and not the message before it, which was never sent to the model.
ChainRewritesOnlyItself == AtRest => owed \subseteq Of(emitter.screen)
=============================================================================
