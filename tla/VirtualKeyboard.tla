-------------------------- MODULE VirtualKeyboard --------------------------
(***************************************************************************)
(* WaylandVirtualKeyboard of wldictate/vkbd.py: keys are queued as         *)
(* requests and flushed to the compositor, which reads a key's code by the *)
(* keymap in force.  Keys of the physical layout have codes of their own;  *)
(* the others share a few codes, the least recently used giving way, and   *)
(* the keymap is sent again for every new one.                             *)
(*                                                                         *)
(* The keyboard is a record, its methods are operators on it.              *)
(***************************************************************************)
EXTENDS Integers, SequencesExt

CONSTANTS
    Physical, \* _EVDEV_CODES: keys with a code of their own, the key itself
    Exotic,   \* characters without one
    DynCodes  \* _DYN_CODES

ASSUME KeyAssumption ==
    /\ Physical \cap DynCodes = {} /\ Exotic \cap (Physical \cup DynCodes) = {}
    /\ DynCodes # {}

Key == Physical \cup Exotic
Assigned == [sym: Exotic, code: DynCodes]

Request ==
    [kind: {"key"}, code: Physical \cup DynCodes] \cup [kind: {"keymap"}, syms: SUBSET Assigned]

Keyboard ==
    [syms: Seq(Assigned),    \* _sym_code, least recently used first
     out: Seq(Request),      \* _out
     map: SUBSET Assigned,   \* the keymap in force at the compositor
     live: BOOLEAN]          \* the compositor still reads the connection

NewKeyboard == [syms |-> <<>>, out |-> <<>>, map |-> {}, live |-> TRUE]

Queued(kb, request) == [kb EXCEPT !.out = Append(@, request)]
Tapped(kb, code) == Queued(kb, [kind |-> "key", code |-> code])

-----------------------------------------------------------------------------
(* _exotic_code                                                            *)

Place(kb, sym) == CHOOSE i \in DOMAIN kb.syms : kb.syms[i].sym = sym
HasCode(kb, key) == key \in Physical \/ \E i \in DOMAIN kb.syms : kb.syms[i].sym = key
CodeOf(kb, key) == IF key \in Physical THEN key ELSE kb.syms[Place(kb, key)].code

\* A code that is used again becomes the most recent.
Refreshed(kb, key) ==
    IF key \in Physical THEN kb
    ELSE [kb EXCEPT !.syms = Append(RemoveAt(@, Place(kb, key)), @[Place(kb, key)])]

\* A new character takes a free code, or that of the least recently used one.
Used(kb) == {kb.syms[i].code : i \in DOMAIN kb.syms}
AnyCode(kb, sym) ==
    [kb EXCEPT !.syms = Append(@, [sym |-> sym, code |-> CHOOSE c \in DynCodes : TRUE])]
Allocated(kb, sym) ==
    [kb EXCEPT !.syms =
        IF DynCodes \subseteq Used(kb)
        THEN Append(Tail(@), [sym |-> sym, code |-> Head(@).code])
        ELSE Append(@, [sym |-> sym, code |-> CHOOSE c \in DynCodes \ Used(kb) : TRUE])]

\* _upload_keymap queues the keymap behind the keys.
AheadOfKeys(kb) ==
    [kb EXCEPT !.out = <<[kind |-> "keymap", syms |-> ToSet(kb.syms)]>> \o @]
Uploaded(kb) == Queued(kb, [kind |-> "keymap", syms |-> ToSet(kb.syms)])

-----------------------------------------------------------------------------
(* _flush: what the compositor makes of the first n requests.              *)

MapAfter(kb, n) ==
    LET maps == {i \in 1..n : kb.out[i].kind = "keymap"}
    IN  IF maps = {} THEN kb.map ELSE kb.out[Max(maps)].syms

\* A code that the keymap does not have types nothing.
Read(map, code) ==
    IF code \in Physical THEN <<code>>
    ELSE IF \E a \in map : a.code = code
    THEN <<(CHOOSE a \in map : a.code = code).sym>> ELSE <<>>

KeysRead(kb, n) ==
    FlattenSeq([i \in 1..n |-> IF kb.out[i].kind = "key"
                               THEN Read(MapAfter(kb, i), kb.out[i].code) ELSE <<>>])

\* The queue is cleared before it is sent.
Flushed(kb, n, live) ==
    [kb EXCEPT !.out = <<>>, !.map = MapAfter(kb, n), !.live = live]

\* What a flush may come to: everything is read, or the connection ends after any
\* of the requests, which the sender notices or not.
Outcome(kb, n, live, raised) ==
    [kb |-> Flushed(kb, n, live), keys |-> KeysRead(kb, n), raised |-> raised,
     lost |-> n < Len(kb.out)]

Flushes(kb, mayFail) ==
    LET all == Len(kb.out)
        reached == IF kb.live THEN 0..all ELSE {0}
        Breaks(raised) == {Outcome(kb, n, FALSE, raised) : n \in reached}
    IN  (IF kb.live \/ all = 0 THEN {Outcome(kb, all, kb.live, FALSE)} ELSE {})
        \cup (IF all > 0 /\ (mayFail \/ ~kb.live) THEN Breaks(TRUE) \cup Breaks(FALSE) ELSE {})
=============================================================================
