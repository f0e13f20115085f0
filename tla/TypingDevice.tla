---------------------------- MODULE TypingDevice ----------------------------
(***************************************************************************)
(* WtypeEmitter of wldictate/emitter.py, the device below the correcting   *)
(* emitter.  A rewrite goes through the virtual keyboard, or through the   *)
(* wtype program when there is none or it failed before any key was sent.  *)
(* A long text for a window that pastes with Ctrl+V goes through the       *)
(* clipboard, whose contents a timer puts back.                            *)
(*                                                                         *)
(* All calls come from the render thread, one after the other; timers, the *)
(* focus tracker and the compositor run beside it.  The applications take  *)
(* keys as they arrive, and read the clipboard when Ctrl+V does.           *)
(***************************************************************************)
EXTENDS FocusTracker, VirtualKeyboard

CONSTANTS
    PasteMin,   \* _PASTE_MIN_CHARS
    Electron,   \* the windows that match electron_classes
    Texts,      \* bounds of the model: the texts to be typed,
    CallLimit,  \* calls to the device,
    FaultLimit  \* and faults of programs and connections

ASSUME DeviceAssumption ==
    /\ {"BackSpace", "Return", "Ctrl+V"} \subseteq Physical
    /\ Electron \subseteq Windows
    /\ Texts \subseteq Seq(Key \ {"Ctrl+V"}) \ {<<>>} /\ PasteMin \in Nat \ {0}
    /\ CallLimit \in Nat /\ FaultLimit \in Nat

VARIABLES
    paced,     \* a delay between keys: every key is flushed
    cached,    \* the connection cache: "absent", "there", or "unavailable" (None)
    kb,        \* the virtual keyboard
    pc,        \* where the call is, "idle" between calls
    call,      \* its arguments, and whether it goes through the clipboard
    left,      \* what is left of it for the virtual keyboard: a segment per method
    sent,      \* vk.keys_sent - sent_before
    previous,  \* the clipboard read before a paste, <<>> for None
    fallback,  \* _fallback_result
    recent,    \* it is younger than _FALLBACK_TTL_S
    answer,    \* what the last call returned: "typed" or "failed" (None)
    clip,      \* the clipboard
    timers,    \* clipboard contents still to be restored
    \* history
    landed,    \* keys and pasted text the window got in this call
    kept,      \* what the user last had, or put, on the clipboard
    excused,   \* "lost" keys unnoticed, a "clip" that failed, pastes that "overlap"
    used       \* calls and faults so far

keyboardVars == <<cached, kb, left, sent>>
clipVars == <<clip, previous, timers, kept>>
callVars == <<paced, pc, call, answer, landed, excused, used>>
fallbackVars == <<fallback, recent>>
vars == <<focusVars, keyboardVars, clipVars, callVars, fallbackVars>>

\* What the user had on the clipboard is text or not.  An image is read as text all
\* the same, and what cannot be decoded is replaced.
User == <<"user's">>
Garbled == <<"garbled">>
Contents == Texts \cup {User, Garbled}
Decoded(contents) == IF contents = User THEN {User, Garbled} ELSE {contents}

\* The keystrokes of a call, by the method that sends them.
Backspaces(n) == [i \in 1..n |-> "BackSpace"]
Segment(keys) == IF keys = <<>> THEN <<>> ELSE <<keys>>
Plan(c) ==
    Segment(Backspaces(c.back)) \o Segment(IF c.pasting THEN <<"Ctrl+V">> ELSE c.text)

NoCall == [back |-> 0, text |-> <<>>, pasting |-> FALSE]

Init ==
    /\ FocusInit
    /\ paced \in BOOLEAN
    /\ cached \in {"absent", "unavailable"}
    /\ kb = NewKeyboard
    /\ pc = "idle" /\ call = NoCall /\ left = <<>> /\ sent = 0
    /\ previous = <<>> /\ clip = User /\ timers = <<>> /\ kept = User
    /\ fallback = NoWindow /\ recent = FALSE
    /\ answer = "typed" /\ landed = <<>>
    /\ excused = {} /\ used = [calls |-> 0, faults |-> 0]

Fault == used.faults < FaultLimit /\ used' = [used EXCEPT !.faults = @ + 1]
MayFail == used.faults < FaultLimit

-----------------------------------------------------------------------------
(* Calls of the render thread.                                             *)

Begin(back, text, first) ==
    /\ pc = "idle" /\ used.calls < CallLimit
    /\ used' = [used EXCEPT !.calls = @ + 1]
    /\ call' = [back |-> back, text |-> text, pasting |-> FALSE]
    /\ pc' = first
    /\ landed' = <<>>
    /\ excused' = excused \ {"lost"}
    /\ UNCHANGED <<focusVars, keyboardVars, clipVars, fallbackVars, paced, answer>>

\* A rewrite may only delete.
Rewrite ==
    \E back \in 0..1, text \in Texts \cup {<<>>} :
        back + Len(text) > 0 /\ Begin(back, text, "keyboard")

RewriteBulk ==
    \E back \in 0..1, text \in Texts :
        Begin(back, text, IF Len(text) >= PasteMin THEN "focus" ELSE "keyboard")

PressKey == Begin(0, <<"Return">>, "keyboard")

Overlap == IF timers = <<>> THEN {} ELSE {"overlap"}

\* wl-copy may fail, before or, when it is killed after a second, after it took the
\* clipboard; nothing here depends on what is answered.
SetClipboard ==
    /\ pc = "idle" /\ used.calls < CallLimit
    /\ used' = [used EXCEPT !.calls = @ + 1]
    /\ \/ \E text \in Texts : clip' = text /\ kept' = text /\ excused' = excused \cup Overlap
       \/ UNCHANGED <<clip, kept, excused>>
    /\ UNCHANGED <<focusVars, keyboardVars, fallbackVars, paced, pc, call, answer, landed,
                   previous, timers>>

-----------------------------------------------------------------------------
(* rewrite_bulk                                                            *)

\* focused_window: the tracker's cache if it is trusted, else hyprctl's answer,
\* asked for again when it is too old.
AskFocus ==
    /\ pc = "focus"
    /\ \E class \in IF connected THEN {focused}
                    ELSE IF recent THEN {fallback} ELSE {window, NoWindow} :
          /\ pc' = IF class \in Electron THEN "read clipboard" ELSE "keyboard"
          /\ IF connected THEN UNCHANGED fallbackVars
             ELSE fallback' = class /\ recent' = TRUE
    /\ UNCHANGED <<focusVars, keyboardVars, clipVars, paced, call, answer, landed, excused, used>>

FallbackExpires ==
    /\ pc = "focus" /\ recent /\ recent' = FALSE
    /\ UNCHANGED <<focusVars, keyboardVars, clipVars, callVars, fallback>>

\* wl-paste fails on an empty clipboard, among others.
ReadClipboard ==
    /\ pc = "read clipboard"
    /\ pc' = "write clipboard"
    /\ \/ previous' \in Decoded(clip) /\ excused' = excused \cup Overlap /\ UNCHANGED used
       \/ previous' = <<>> /\ excused' = excused \cup Overlap \cup {"clip"} /\ Fault
    /\ UNCHANGED <<focusVars, keyboardVars, fallbackVars, paced, call, answer, landed,
                   clip, timers, kept>>

\* When wl-copy fails the text is typed after all, and what was read is dropped: a
\* wl-copy that took the clipboard and then failed leaves the text there.
WriteClipboard ==
    /\ pc = "write clipboard"
    /\ pc' = "keyboard"
    /\ \/ /\ clip' = call.text /\ call' = [call EXCEPT !.pasting = TRUE]
          /\ UNCHANGED <<excused, used>>
       \/ UNCHANGED <<clip, call, excused>> /\ Fault
       \/ clip' = call.text /\ excused' = excused \cup {"clip"} /\ Fault /\ UNCHANGED call
    /\ UNCHANGED <<focusVars, keyboardVars, fallbackVars, paced, answer, landed,
                   previous, timers, kept>>

\* The previous contents come back shortly after the paste, whether it worked or
\* not, unless they could not be read.
RestoredIfPasted(ans) ==
    IF call.pasting /\ previous # <<>> /\ ans = "typed" THEN Append(timers, previous) ELSE timers
Restored(ans) ==
    IF call.pasting /\ previous # <<>> THEN Append(timers, previous) ELSE timers

Return(ans) ==
    /\ pc' = "idle"
    /\ answer' = ans
    /\ timers' = Restored(ans)
    /\ previous' = <<>> /\ left' = <<>> /\ sent' = 0
    /\ UNCHANGED <<clip, kept>>

TimerFires ==
    /\ timers # <<>>
    /\ timers' = Tail(timers)
    /\ \/ clip' = Head(timers) /\ UNCHANGED <<excused, used>>
       \/ clip' \in {clip, Head(timers)} /\ excused' = excused \cup {"clip"} /\ Fault
    /\ UNCHANGED <<focusVars, keyboardVars, fallbackVars, paced, pc, call, answer, landed,
                   previous, kept>>

-----------------------------------------------------------------------------
(* Typing.                                                                 *)

\* What the window makes of keys.
Typed(keys) ==
    FlattenSeq([i \in DOMAIN keys |-> IF keys[i] = "Ctrl+V" THEN clip ELSE <<keys[i]>>])

\* get_virtual_keyboard: a failure to connect is remembered for good.
GetKeyboard ==
    /\ pc = "keyboard"
    /\ left' = Plan(call) /\ sent' = 0
    /\ \/ cached = "there" /\ pc' = "typing" /\ UNCHANGED <<cached, kb, used>>
       \/ cached = "unavailable" /\ pc' = "wtype" /\ UNCHANGED <<cached, kb, used>>
       \/ /\ cached = "absent" /\ cached' = "there"
          /\ kb' = NewKeyboard /\ pc' = "typing" /\ UNCHANGED used
       \/ cached = "absent" /\ cached' = "unavailable" /\ pc' = "wtype" /\ Fault /\ UNCHANGED kb
    /\ UNCHANGED <<focusVars, clipVars, fallbackVars, paced, call, answer, landed, excused>>

\* A flush, which raises or not.
Sends(f) ==
    /\ kb' = f.kb
    /\ landed' = landed \o Typed(f.keys)
    /\ excused' = IF f.lost /\ ~f.raised THEN excused \cup {"lost"} ELSE excused
    /\ pc' = IF f.raised THEN "raised" ELSE "typing"
    /\ IF kb.live /\ ~f.kb.live THEN Fault ELSE UNCHANGED used

\* A character gets a code: the keymap is made, which may fail, and sent.
AllocateKey ==
    /\ pc = "typing" /\ left # <<>> /\ Head(left) # <<>>
    /\ LET key == Head(Head(left))
           new == Allocated(kb, key)
       IN  /\ ~HasCode(kb, key)
           /\ \/ \E f \in Flushes(Uploaded(new), MayFail) : Sends(f)
              \/ kb' = new /\ pc' = "raised" /\ Fault /\ UNCHANGED <<landed, excused>>
    /\ UNCHANGED <<focusVars, clipVars, fallbackVars, paced, call, answer, cached, left, sent>>

\* _tap: the key counts as sent when it is queued.
Paced(key) == paced /\ key \notin {"Return", "Ctrl+V"}

TypeKey ==
    /\ pc = "typing" /\ left # <<>> /\ Head(left) # <<>>
    /\ LET key == Head(Head(left))
           tapped == Tapped(Refreshed(kb, key), CodeOf(kb, key))
       IN  /\ HasCode(kb, key)
           /\ IF Paced(key) THEN \E f \in Flushes(tapped, MayFail) : Sends(f)
              ELSE kb' = tapped /\ UNCHANGED <<pc, landed, excused, used>>
    /\ left' = [left EXCEPT ![1] = Tail(@)]
    /\ sent' = sent + 1
    /\ UNCHANGED <<focusVars, clipVars, fallbackVars, paced, call, answer, cached>>

\* A method flushes what is queued, and drain() may see that the connection ended.
Drained(f) == IF f.kb.live \/ f.raised THEN {f} ELSE {f, [f EXCEPT !.raised = TRUE]}

EndSegment ==
    /\ pc = "typing" /\ left # <<>> /\ Head(left) = <<>>
    /\ \E f \in Flushes(kb, MayFail) : \E g \in Drained(f) : Sends(g)
    /\ left' = Tail(left)
    /\ UNCHANGED <<focusVars, clipVars, fallbackVars, paced, call, answer, cached, sent>>

AllTyped ==
    /\ pc = "typing" /\ left = <<>>
    /\ Return("typed")
    /\ UNCHANGED <<focusVars, fallbackVars, paced, cached, kb, call, landed, excused, used>>

\* _vkbd_failed drops the connection, whose close() flushes what is still queued.
\* The call is retried with wtype only if no key was sent.
RetriesAlways == TRUE
NothingSent == sent = 0

VkbdFailed ==
    /\ pc = "raised"
    /\ \E n \in IF kb.live THEN 0..Len(kb.out) ELSE {0} :
          landed' = landed \o Typed(KeysRead(kb, n))
    /\ cached' = "absent" /\ kb' = NewKeyboard
    /\ IF NothingSent THEN pc' = "wtype" /\ UNCHANGED <<clipVars, answer, left, sent>>
       ELSE Return("failed")
    /\ UNCHANGED <<focusVars, fallbackVars, paced, call, excused, used>>

\* wtype types all of the call, or fails or is killed on the way.
Wtype ==
    /\ pc = "wtype"
    /\ LET keys == FlattenSeq(Plan(call))
       IN  \/ landed' = landed \o Typed(keys) /\ Return("typed") /\ UNCHANGED used
           \/ /\ \E n \in 0..Len(keys) : landed' = landed \o Typed(SubSeq(keys, 1, n))
              /\ Return("failed") /\ Fault
    /\ UNCHANGED <<focusVars, fallbackVars, paced, cached, kb, call, excused>>

-----------------------------------------------------------------------------

\* The tracker's state is only read by AskFocus: its steps before that, and the
\* expiry of the answer, commute with those of the device and are left until then.
Focus ==
    /\ pc = "focus"
    /\ FocusNext
    /\ UNCHANGED <<keyboardVars, clipVars, callVars, fallbackVars>>

DeviceNext ==
    \/ Rewrite \/ RewriteBulk \/ PressKey \/ SetClipboard
    \/ AskFocus \/ FallbackExpires \/ ReadClipboard \/ WriteClipboard \/ TimerFires
    \/ GetKeyboard \/ AllocateKey \/ TypeKey \/ EndSegment \/ AllTyped
    \/ VkbdFailed \/ Wtype
    \/ Focus

DeviceSpec == Init /\ [][DeviceNext]_vars

-----------------------------------------------------------------------------
(* Properties.                                                             *)

\* Types, and that client and compositor mean the same characters by the shared
\* codes: no two characters share one, and the keymap in force, once the queue is
\* read, is the one the client assigned.
DeviceTypeOK ==
    /\ paced \in BOOLEAN /\ cached \in {"absent", "there", "unavailable"}
    /\ kb \in [syms: Seq(Assigned), out: Seq(Request), map: SUBSET Assigned, live: BOOLEAN]
    /\ pc \in {"idle", "focus", "read clipboard", "write clipboard", "keyboard", "typing",
               "raised", "wtype"}
    /\ sent \in Nat /\ answer \in {"typed", "failed"}
    /\ clip \in Contents /\ kept \in Contents
    /\ previous \in Contents \cup {<<>>} /\ timers \in Seq(Contents)
    /\ fallback \in Windows \cup {NoWindow} /\ recent \in BOOLEAN
    /\ excused \subseteq {"lost", "clip", "overlap"}
    /\ \A i, j \in DOMAIN kb.syms :
          (kb.syms[i].sym = kb.syms[j].sym \/ kb.syms[i].code = kb.syms[j].code) => i = j
    /\ (kb.live /\ pc # "raised") => MapAfter(kb, Len(kb.out)) = ToSet(kb.syms)

\* A window never gets a key twice, out of order or for another character: what
\* has landed of a call is the beginning of what was asked, however often the
\* keyboard's codes change hands and whichever way the call is retried.  What is
\* answered as typed has landed in full, unless the compositor went away with it
\* unnoticed.
Asked == Backspaces(call.back) \o call.text

TypesWhatItIsAsked ==
    "overlap" \notin excused =>
        /\ IsPrefix(landed, Asked)
        /\ (pc = "idle" /\ answer = "typed" /\ "lost" \notin excused) => landed = Asked

\* "The previous clipboard is restored shortly after the paste lands": when no
\* timer is left the user has the clipboard back, whatever became of the paste.
\* It is the clipboard as text: what a paste found there that is no text comes
\* back garbled.  And it holds as long as the clipboard could be read, no wl-copy
\* failed after it took the clipboard for a paste or when the timer put it back,
\* and no second paste or copy came before the timer.
ClipboardComesBack ==
    (pc = "idle" /\ timers = <<>> /\ excused \cap {"clip", "overlap"} = {})
        => clip \in Decoded(kept)
=============================================================================
