------------------------- MODULE CorrectingEmitter -------------------------
(***************************************************************************)
(* CorrectingEmitter of wldictate/emitter.py: it shows a text by typing    *)
(* over what it typed before, and remembers the region of the current      *)
(* utterance and that of the previous one.                                 *)
(*                                                                         *)
(* The emitter is a record, its methods are operators on it.  What is on   *)
(* the screen before the first utterance is left out.                      *)
(***************************************************************************)
EXTENDS Integers, Sequences

CONSTANTS
    Tokens,  \* what texts are made of
    LiveCap  \* _MAX_BACKSPACES

Text == Seq(Tokens)

\* screen is what the device has made of it; settled is history: the part of
\* the screen that is no longer the emitter's to change.
Emitter ==
    [scr: Text,       \* _screen
     prev: Text,      \* _prev_screen
     frozen: BOOLEAN, \* _frozen
     screen: Text,
     settled: Text]

NewEmitter ==
    [scr |-> <<>>, prev |-> <<>>, frozen |-> FALSE, screen |-> <<>>, settled |-> <<>>]

Without(text, n) == SubSeq(text, 1, Len(text) - n)

\* begin_utterance
Begun(e, carry) ==
    [e EXCEPT !.prev = IF e.frozen THEN <<>> ELSE IF carry THEN e.prev \o e.scr ELSE e.scr,
              !.scr = <<>>,
              !.frozen = FALSE,
              !.settled = IF e.frozen THEN e.screen
                          ELSE IF carry THEN @ ELSE @ \o e.prev]

\* merge_previous; it returns whether there was a region to reach.
Mergeable(e) == ~e.frozen /\ e.prev # <<>>
Merged(e) == IF Mergeable(e) THEN [e EXCEPT !.scr = e.prev \o e.scr, !.prev = <<>>] ELSE e

\* reset_regions
Disowned(e) == [e EXCEPT !.scr = <<>>, !.prev = <<>>, !.settled = e.screen]

-----------------------------------------------------------------------------
(* sync                                                                    *)

\* How much of the region stays: the common prefix, or what the cap on
\* backspaces leaves.
Same(a, b, n) == SubSeq(a, 1, n) = SubSeq(b, 1, n)
Common(a, b) ==
    CHOOSE n \in 0..Len(a) :
        /\ n <= Len(b) /\ Same(a, b, n)
        /\ n = Len(a) \/ n = Len(b) \/ a[n + 1] # b[n + 1]

Stays(e, desired, cap) ==
    IF Len(e.scr) - Common(e.scr, desired) > cap THEN Len(e.scr) - cap
    ELSE Common(e.scr, desired)

\* The device deletes the rest of the region and types the rest of the text.
RegionShown(e, desired, n) == SubSeq(e.scr, 1, n) \o SubSeq(desired, n + 1, Len(desired))
Rewritten(e, desired, n) ==
    [e EXCEPT !.scr = RegionShown(e, desired, n),
              !.screen = Without(@, Len(e.scr) - n) \o SubSeq(desired, n + 1, Len(desired))]

\* A device that fails may have got part of the way: the screen is unknown, and
\* nothing is typed until the next utterance.
StaysCool(e) == FALSE
Freezes(e) == TRUE
TypesAnyway(e) == FALSE
IsFrozen(e) == e.frozen

GetsStuck(e, desired, n) ==
    LET rest == SubSeq(desired, n + 1, Len(desired))
        Stuck(screen) == [e EXCEPT !.screen = screen, !.frozen = Freezes(e)]
    IN  {Stuck(Without(e.screen, i)) : i \in 0..(Len(e.scr) - n)}
        \cup {Stuck(Without(e.screen, Len(e.scr) - n) \o SubSeq(rest, 1, i)) : i \in 0..Len(rest)}

\* What sync() may leave: it has shown the text, or it is frozen.
Synced(e, desired, cap, mayFail) ==
    LET n == Stays(e, desired, cap)
    IN  IF IsFrozen(e) \/ (n = Len(e.scr) /\ n >= Len(desired)) THEN {e}
        ELSE {Rewritten(e, desired, n)}
             \cup (IF mayFail THEN GetsStuck(e, desired, n) ELSE {})

-----------------------------------------------------------------------------
(* What the emitter promises.                                              *)

\* Unless it is frozen, the emitter knows the screen: it ends with the previous
\* region and the current one, and a rewrite hits exactly what it means to.
KnowsScreen(e) == ~e.frozen => e.screen = e.settled \o e.prev \o e.scr

\* "Never backspaces past what the current utterance typed": settled text stays
\* on the screen, whatever the device does.
SettledStays(e) == Len(e.settled) <= Len(e.screen) /\ Same(e.screen, e.settled, Len(e.settled))
=============================================================================
