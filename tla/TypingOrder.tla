---------------------------- MODULE TypingOrder ----------------------------
(***************************************************************************)
(* What wldictate/render.py promises the session loop, whatever its render *)
(* thread does in between: operations are typed one at a time, in the      *)
(* order they were accepted; a caller that waits has everything before it  *)
(* typed; and only a tentative text is ever left out, in favour of a later *)
(* text or because the proxy closes.                                       *)
(***************************************************************************)
EXTENDS Integers, Sequences

VARIABLES
    accepted,\* operations accepted so far, which numbers them
    work,    \* operations accepted and not typed yet, oldest first
    typed,   \* the numbers of the operations typed, in order
    caller,  \* the session loop: "free", "waiting" or "closing"
    device   \* the device below: "open" or "closed"

orderVars == <<accepted, work, typed, caller, device>>

\* publish() offers a tentative text, sync() an authoritative one; read() stands
\* for the other barriers; post() queues an append.
Kinds == {"publish", "sync", "read", "post"}
IsText(kind) == kind \in {"publish", "sync"}
IsBarrier(kind) == kind \in {"sync", "read"}

Offered(w) == w # <<>> /\ w[Len(w)].kind = "publish"
Withdrawn(w) == SubSeq(w, 1, Len(w) - 1)

OrderInit ==
    accepted = 0 /\ work = <<>> /\ typed = <<>> /\ caller = "free" /\ device = "open"

Accept(kind) ==
    /\ caller = "free" /\ device = "open"
    /\ accepted' = accepted + 1
    /\ LET op == [id |-> accepted + 1, kind |-> kind]
       IN  \/ work' = Append(work, op)
           \/ IsText(kind) /\ Offered(work) /\ work' = Append(Withdrawn(work), op)
    /\ caller' = IF IsBarrier(kind) THEN "waiting" ELSE "free"
    /\ UNCHANGED <<typed, device>>

Type ==
    /\ work # <<>>
    /\ typed' = Append(typed, Head(work).id)
    /\ work' = Tail(work)
    /\ UNCHANGED <<accepted, caller, device>>

\* A barrier returns when all work up to it is done.
Return ==
    /\ caller = "waiting" /\ work = <<>>
    /\ caller' = "free"
    /\ UNCHANGED <<accepted, work, typed, device>>

CloseBegins ==
    /\ caller = "free" /\ device = "open"
    /\ caller' = "closing"
    /\ work' = work \/ (Offered(work) /\ work' = Withdrawn(work))
    /\ UNCHANGED <<accepted, typed, device>>

\* The device is closed when the work is done, or has taken too long.
CloseEnds ==
    /\ caller = "closing"
    /\ caller' = "free" /\ device' = "closed"
    /\ UNCHANGED <<accepted, work, typed>>

OrderNext ==
    \/ \E kind \in Kinds : Accept(kind)
    \/ Type \/ Return \/ CloseBegins \/ CloseEnds

OrderFairness == WF_orderVars(Type) /\ WF_orderVars(Return) /\ WF_orderVars(CloseEnds)

OrderSpec == OrderInit /\ [][OrderNext]_orderVars /\ OrderFairness
=============================================================================
