---------------------------- MODULE RenderProxy ----------------------------
(***************************************************************************)
(* RenderProxy of wldictate/render.py: the session loop hands its typing   *)
(* to a render thread.  Operations are numbered as they are submitted.     *)
(*                                                                         *)
(* In correcting mode the loop publishes tentative texts, of which the     *)
(* newest wins, and calls barriers; in commit mode it posts appends.       *)
(***************************************************************************)
EXTENDS Integers, Sequences

CONSTANT OpLimit \* bound of the model: operations submitted

ASSUME RenderAssumption == OpLimit \in Nat

VARIABLES
    mode,     \* "commit" or "correcting"
    pending,  \* the number of the publish in _pending, 0 for None
    jobs,     \* _jobs
    busy,     \* what the render thread has taken and not finished, at most one
    waiting,  \* the job whose result the session loop waits for, 0 for none
    closed,   \* _closed
    thread,   \* the render thread: "running" or "returned"
    device,   \* the wrapped emitter: "open" or "closed"
    \* history
    ops,      \* operations submitted
    typed,    \* the operations executed, in order
    replaced, \* the publishes overwritten or discarded in _pending
    gaveUp    \* close() did not wait for the thread any longer

renderVars == <<mode, pending, jobs, busy, waiting, closed, thread, device,
                ops, typed, replaced, gaveUp>>

RenderInit ==
    /\ mode \in {"commit", "correcting"}
    /\ pending = 0 /\ jobs = <<>> /\ busy = <<>> /\ waiting = 0
    /\ closed = FALSE /\ thread = "running" /\ device = "open"
    /\ ops = 0 /\ typed = <<>> /\ replaced = {} /\ gaveUp = FALSE

-----------------------------------------------------------------------------
(* The session loop.                                                       *)

Replaces == IF pending = 0 THEN replaced ELSE replaced \cup {pending}

Submits ==
    /\ waiting = 0 /\ ~closed
    /\ ops < OpLimit
    /\ ops' = ops + 1

\* publish
Publish ==
    /\ mode = "correcting"
    /\ Submits
    /\ pending' = ops + 1
    /\ replaced' = Replaces
    /\ UNCHANGED <<mode, jobs, busy, waiting, closed, thread, device, typed, gaveUp>>

\* _call, which supersedes the pending publish (sync) or does not (read).
DoesNotWait(job) == 0
WaitsFor(job) == job

Call(kind) ==
    /\ mode = "correcting"
    /\ Submits
    /\ jobs' = Append(jobs, [id |-> ops + 1, kind |-> kind])
    /\ waiting' = WaitsFor(ops + 1)
    /\ IF kind = "sync"
       THEN pending' = 0 /\ replaced' = Replaces
       ELSE UNCHANGED <<pending, replaced>>
    /\ UNCHANGED <<mode, busy, closed, thread, device, typed, gaveUp>>

\* job.wait returns.
CallReturns ==
    /\ waiting # 0
    /\ \E i \in DOMAIN typed : typed[i] = waiting
    /\ waiting' = 0
    /\ UNCHANGED <<mode, pending, jobs, busy, closed, thread, device, ops, typed, replaced, gaveUp>>

\* _post
Post ==
    /\ mode = "commit"
    /\ Submits
    /\ jobs' = Append(jobs, [id |-> ops + 1, kind |-> "post"])
    /\ UNCHANGED <<mode, pending, busy, waiting, closed, thread, device, typed, replaced, gaveUp>>

\* close: discard the pending publish, join the thread, close the device.
Close ==
    /\ waiting = 0 /\ ~closed
    /\ closed' = TRUE
    /\ pending' = 0
    /\ replaced' = Replaces
    /\ UNCHANGED <<mode, jobs, busy, waiting, thread, device, ops, typed, gaveUp>>

\* join(timeout): has the thread not returned in time?
NoJoin == FALSE
JoinGivesUp == thread = "running"

CloseEnds ==
    /\ closed /\ device = "open"
    /\ device' = "closed"
    /\ gaveUp' = JoinGivesUp
    /\ UNCHANGED <<mode, pending, jobs, busy, waiting, closed, thread, ops, typed, replaced>>

-----------------------------------------------------------------------------
(* The render thread: _loop.                                               *)

\* The pending publish goes first, then the jobs in order.
JobsFirst == jobs = <<>> /\ pending # 0
PendingFirst == pending # 0

Take ==
    /\ thread = "running" /\ busy = <<>>
    /\ \/ /\ PendingFirst
          /\ busy' = <<[id |-> pending, kind |-> "publish"]>>
          /\ pending' = 0
          /\ UNCHANGED jobs
       \/ /\ ~PendingFirst /\ jobs # <<>>
          /\ busy' = <<Head(jobs)>>
          /\ jobs' = Tail(jobs)
          /\ UNCHANGED pending
    /\ UNCHANGED <<mode, waiting, closed, thread, device, ops, typed, replaced, gaveUp>>

\* The operation is executed, outside the lock, and its result set.  Meanwhile
\* another publish may have come.
ClearedAfterRun == 0
KeptAfterRun == pending

Run ==
    /\ busy # <<>>
    /\ typed' = Append(typed, busy[1].id)
    /\ busy' = <<>>
    /\ pending' = KeptAfterRun
    /\ UNCHANGED <<mode, jobs, waiting, closed, thread, device, ops, replaced, gaveUp>>

\* Closed, and the queue drained.
ThreadReturns ==
    /\ thread = "running" /\ busy = <<>>
    /\ closed /\ pending = 0 /\ jobs = <<>>
    /\ thread' = "returned"
    /\ UNCHANGED <<mode, pending, jobs, busy, waiting, closed, device, ops, typed, replaced, gaveUp>>

RenderThread == Take \/ Run \/ ThreadReturns

RenderNext ==
    \/ Publish \/ Call("sync") \/ Call("read") \/ CallReturns \/ Post
    \/ Close \/ CloseEnds
    \/ RenderThread

\* Both threads run on; close() waits ten seconds at most.
RenderFairness ==
    /\ WF_renderVars(RenderThread)
    /\ WF_renderVars(CallReturns)
    /\ WF_renderVars(CloseEnds)

RenderSpec == RenderInit /\ [][RenderNext]_renderVars /\ RenderFairness

-----------------------------------------------------------------------------
(* Properties.                                                             *)

\* Types, and the shape of the queue the code relies on: a caller waits for the
\* last job, there is no second one in correcting mode, and the thread only
\* returns when nothing is left to do.
RenderTypeOK ==
    /\ mode \in {"commit", "correcting"}
    /\ pending \in 0..ops /\ ops \in 0..OpLimit
    /\ jobs \in Seq([id: 1..ops, kind: {"sync", "read", "post"}])
    /\ busy \in {<<>>} \cup {<<op>> : op \in [id: 1..ops, kind: {"publish", "sync", "read", "post"}]}
    /\ waiting \in 0..ops
    /\ closed \in BOOLEAN /\ gaveUp \in BOOLEAN
    /\ thread \in {"running", "returned"} /\ device \in {"open", "closed"}
    /\ typed \in Seq(1..ops) /\ replaced \subseteq 1..ops
    /\ mode = "correcting" => Len(jobs) <= 1 /\ (jobs # <<>> => waiting = jobs[1].id)
    /\ mode = "commit" => pending = 0 /\ waiting = 0
    /\ thread = "returned" => closed /\ pending = 0 /\ jobs = <<>> /\ busy = <<>>

\* Nothing is lost on the way to the device: every operation submitted has been
\* executed, is queued, or is a tentative text that a newer text replaced or
\* close() discarded.
NothingDropped ==
    LET Queued == {pending} \cup {jobs[i].id : i \in DOMAIN jobs}
                            \cup {busy[i].id : i \in DOMAIN busy}
        Typed == {typed[i] : i \in DOMAIN typed}
    IN  1..ops = (Typed \cup Queued \cup replaced) \ {0}

\* When close() has waited for its thread, everything is on the screen that will
\* ever be: nothing is typed with a device that was closed.
ClosedDeviceIsLeftAlone ==
    (device = "closed" /\ ~gaveUp) => jobs = <<>> /\ busy = <<>> /\ pending = 0

\* Everything that is typed is typed while the device is there, and everything
\* else is accounted for.
TypedOrReplaced == NothingDropped /\ ClosedDeviceIsLeftAlone

\* The proxy keeps the promise of TypingOrder.  The work there is what the thread
\* has in hand, then the pending publish, then the jobs: no publish is newer than
\* a job, since the caller of every barrier waits.
PendingWork == IF pending = 0 THEN <<>> ELSE <<[id |-> pending, kind |-> "publish"]>>
Work == busy \o PendingWork \o jobs

Caller ==
    IF waiting # 0 THEN "waiting"
    ELSE IF closed /\ device = "open" THEN "closing" ELSE "free"

Order == INSTANCE TypingOrder WITH accepted <- ops, work <- Work, caller <- Caller

KeepsTypingOrder == Order!OrderSpec
=============================================================================
