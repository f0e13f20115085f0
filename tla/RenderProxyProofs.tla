------------------------- MODULE RenderProxyProofs -------------------------
(***************************************************************************)
(* Proofs about the render thread, whatever the number of operations: its  *)
(* queue keeps the shape the callers of barriers rely on, no operation is  *)
(* dropped on its way to the device, and every step is a step of           *)
(* TypingOrder.                                                            *)
(***************************************************************************)
EXTENDS RenderProxy, SequenceTheorems, TLAPS

Jobs == [id: 1..ops, kind: {"sync", "read", "post"}]
Tasks == [id: 1..ops, kind: {"publish", "sync", "read", "post"}]

\* Once an operation is typed, it is not in the queue any more, and a barrier is
\* the newest operation for as long as its caller waits: in correcting mode the
\* queue is in the order of submission.
InOrder ==
    mode = "correcting" =>
        /\ jobs # <<>> => jobs[1].id = ops
        /\ jobs # <<>> => pending < ops
        /\ (jobs # <<>> /\ busy # <<>>) => busy[1].id < ops
        /\ jobs # <<>> => \A i \in DOMAIN typed : typed[i] < ops
        /\ (pending # 0 /\ busy # <<>>) => busy[1].id < pending
        /\ busy # <<>> => \A i \in DOMAIN typed : typed[i] < busy[1].id
        /\ pending # 0 => \A i \in DOMAIN typed : typed[i] < pending
        /\ waiting # 0 => waiting = ops
        /\ (waiting # 0 /\ jobs = <<>>) =>
              pending = 0 /\ (busy # <<>> => busy[1].id = ops)

\* Who has closed what.
Closing ==
    /\ closed => waiting = 0
    /\ device = "closed" => closed
    /\ (device = "closed" /\ ~gaveUp) => thread = "returned"

RenderInv == RenderTypeOK /\ InOrder /\ Closing

-----------------------------------------------------------------------------
(* Sequences: what the type invariant says of their elements, and that a   *)
(* new operation leaves them well typed.                                   *)

LEMMA Elements ==
    ASSUME RenderTypeOK
    PROVE  /\ ops \in Nat
           /\ jobs \in Seq(Jobs) /\ Len(jobs) \in Nat
           /\ jobs # <<>> => jobs[1] \in Jobs /\ Len(jobs) >= 1
           /\ busy # <<>> => busy[1] \in Tasks
           /\ busy = <<>> \/ busy = <<busy[1]>>
           /\ typed \in Seq(1..ops) /\ Len(typed) \in Nat /\ DOMAIN typed = 1..Len(typed)
           /\ \A i \in DOMAIN typed : typed[i] \in 1..ops
<1>1. jobs \in Seq(Jobs) /\ typed \in Seq(1..ops) /\ ops \in Nat
  BY RenderAssumption DEF RenderTypeOK, Jobs
<1>2. Len(jobs) \in Nat /\ (jobs # <<>> => Len(jobs) \in Nat \ {0})
  BY <1>1, EmptySeq, LenProperties
<1>3. jobs # <<>> => jobs[1] \in Jobs /\ Len(jobs) >= 1
  BY <1>1, <1>2, ElementOfSeq
<1>4. Len(typed) \in Nat /\ DOMAIN typed = 1..Len(typed)
  BY <1>1, LenProperties
<1>5. \A i \in DOMAIN typed : typed[i] \in 1..ops
  BY <1>1, <1>4, ElementOfSeq
<1>6. busy = <<>> \/ \E op \in Tasks : busy = <<op>>
  BY DEF RenderTypeOK, Tasks
<1>7. busy = <<>> \/ (busy[1] \in Tasks /\ busy = <<busy[1]>>)
  BY <1>6
<1>8. QED
  BY <1>1, <1>2, <1>3, <1>4, <1>5, <1>7

LEMMA MoreOps ==
    ASSUME RenderTypeOK, ops' = ops + 1
    PROVE  /\ jobs \in Seq(Jobs') /\ typed \in Seq((1..ops)')
           /\ busy \in {<<>>} \cup {<<op>> : op \in Tasks'}
           /\ replaced \subseteq (1..ops)' /\ pending \in (0..ops)'
<1>1. jobs \in Seq(Jobs) /\ typed \in Seq(1..ops) /\ ops \in Nat
  BY Elements
<1>2. 1..ops \subseteq (1..ops)' /\ Jobs \subseteq Jobs' /\ Tasks \subseteq Tasks'
  BY <1>1 DEF Jobs, Tasks
<1>3. jobs \in Seq(Jobs') /\ typed \in Seq((1..ops)')
  BY <1>1, <1>2, SeqMonotonic
<1>4. busy \in {<<>>} \cup {<<op>> : op \in Tasks}
  BY DEF RenderTypeOK, Tasks
<1>5. busy \in {<<>>} \cup {<<op>> : op \in Tasks'}
  BY <1>2, <1>4
<1>6. replaced \subseteq (1..ops)' /\ pending \in (0..ops)'
  BY <1>1, <1>2 DEF RenderTypeOK
<1>7. QED
  BY <1>3, <1>5, <1>6

\* In correcting mode nothing is queued while nobody waits.
LEMMA NobodyWaits ==
    ASSUME RenderTypeOK, waiting = 0, mode = "correcting"
    PROVE  jobs = <<>>
<1>1. jobs # <<>> => jobs[1].id \in 1..ops
  BY Elements, Zenon DEF Jobs
<1>2. QED
  BY <1>1 DEF RenderTypeOK

-----------------------------------------------------------------------------
(* The invariant, action by action.                                        *)

LEMMA PublishKeeps == RenderInv /\ Publish => RenderInv'
<1> SUFFICES ASSUME RenderInv, Publish PROVE RenderInv'
  OBVIOUS
<1> USE DEF RenderInv
<1>1. /\ ops \in Nat /\ ops' = ops + 1 /\ ops' \in 0..OpLimit /\ pending' = ops'
      /\ mode = "correcting" /\ waiting = 0 /\ ~closed
      /\ UNCHANGED <<mode, jobs, busy, waiting, closed, thread, device, typed, gaveUp>>
  BY RenderAssumption DEF Publish, Submits, RenderTypeOK
<1>2. jobs = <<>>
  BY <1>1, NobodyWaits
<1>3. RenderTypeOK'
  BY <1>1, <1>2, MoreOps DEF RenderTypeOK, Jobs, Tasks, Publish, Replaces
<1>4. InOrder'
  <2>1. busy # <<>> => busy[1].id \in 1..ops
    BY Elements, Zenon DEF Tasks
  <2>2. \A i \in DOMAIN typed : typed[i] \in 1..ops
    BY Elements
  <2>3. QED
    BY <1>1, <1>2, <2>1, <2>2 DEF InOrder
<1>5. Closing'
  BY <1>1 DEF Closing
<1>6. QED
  BY <1>3, <1>4, <1>5

LEMMA CallKeeps ==
    ASSUME RenderInv, NEW kind \in {"sync", "read"}, Call(kind)
    PROVE  RenderInv'
<1> USE DEF RenderInv
<1> DEFINE job == [id |-> ops + 1, kind |-> kind]
<1>1. /\ ops \in Nat /\ ops' = ops + 1 /\ ops' \in 0..OpLimit
      /\ pending \in 0..ops /\ pending' \in {0, pending}
      /\ jobs' = Append(jobs, job) /\ waiting' = ops + 1
      /\ mode = "correcting" /\ waiting = 0 /\ ~closed
      /\ UNCHANGED <<mode, busy, closed, thread, device, typed, gaveUp>>
  BY RenderAssumption DEF Call, Submits, WaitsFor, RenderTypeOK
<1>2. jobs = <<>> /\ jobs \in Seq(Jobs') /\ job \in Jobs' /\ job.id = ops'
  BY <1>1, NobodyWaits, MoreOps DEF Jobs
<1>3. jobs' \in Seq(Jobs') /\ jobs' # <<>> /\ Len(jobs') = 1 /\ jobs'[1] = job
  <2> HIDE DEF job
  <2>1. Len(jobs) = 0
    BY <1>2, EmptySeq
  <2>2. QED
    BY <1>1, <1>2, <2>1, AppendProperties
<1>4. RenderTypeOK'
  <2>1. replaced' \in {replaced, replaced \cup {pending}} /\ (pending = 0 => replaced' = replaced)
    BY DEF Call, Replaces
  <2>2. replaced' \subseteq (1..ops)'
    BY <1>1, <2>1, MoreOps
  <2>3. pending' \in (0..ops)' /\ waiting' \in (0..ops)'
    BY <1>1
  <2>4. typed' \in Seq((1..ops)') /\ busy' \in {<<>>} \cup {<<op>> : op \in Tasks'}
    BY <1>1, MoreOps
  <2> HIDE DEF job
  <2>5. jobs'[1].id = ops' /\ waiting' = ops'
    BY <1>1, <1>2, <1>3
  <2>6. thread' = "running"
    BY <1>1 DEF RenderTypeOK
  <2>7. QED
    BY <1>1, <1>3, <2>2, <2>3, <2>4, <2>5, <2>6 DEF RenderTypeOK, Jobs, Tasks
<1>5. InOrder'
  <2>1. busy # <<>> => busy[1].id \in 1..ops
    BY Elements, Zenon DEF Tasks
  <2>2. \A i \in DOMAIN typed : typed[i] \in 1..ops
    BY Elements
  <2>3. pending' # 0 => pending' = pending
    BY <1>1
  <2>4. jobs'[1].id = ops'
    BY <1>2, <1>3, Zenon
  <2> HIDE DEF job
  <2>5. QED
    BY <1>1, <1>3, <2>1, <2>2, <2>3, <2>4 DEF InOrder
<1>6. Closing'
  BY <1>1 DEF Closing
<1>7. QED
  BY <1>4, <1>5, <1>6

\* A barrier returns to an empty queue.
LEMMA ReturnsToEmpty ==
    ASSUME RenderInv, CallReturns
    PROVE  mode = "correcting" /\ jobs = <<>> /\ pending = 0 /\ busy = <<>>
<1>1. PICK i \in DOMAIN typed : typed[i] = waiting
  BY DEF CallReturns
<1>2. waiting # 0 /\ mode = "correcting" /\ waiting = ops /\ ops \in Nat
  BY DEF CallReturns, RenderInv, RenderTypeOK, InOrder
<1>3. ~(typed[i] < ops)
  BY <1>1, <1>2
<1>4. jobs = <<>>
  BY <1>2, <1>3 DEF RenderInv, InOrder
<1>5. pending = 0 /\ (busy # <<>> => busy[1].id = ops)
  BY <1>2, <1>4 DEF RenderInv, InOrder
<1>6. busy = <<>>
  BY <1>2, <1>3, <1>5 DEF RenderInv, InOrder
<1>7. QED
  BY <1>2, <1>4, <1>5, <1>6

LEMMA CallReturnsKeeps == RenderInv /\ CallReturns => RenderInv'
<1> SUFFICES ASSUME RenderInv, CallReturns PROVE RenderInv'
  OBVIOUS
<1> USE DEF RenderInv
<1>1. /\ waiting' = 0 /\ jobs = <<>> /\ pending = 0 /\ busy = <<>>
      /\ UNCHANGED <<mode, pending, jobs, busy, closed, thread, device, ops, typed, replaced, gaveUp>>
  BY ReturnsToEmpty DEF CallReturns
<1>2. RenderTypeOK'
  BY <1>1, RenderAssumption DEF RenderTypeOK
<1>3. InOrder' /\ Closing'
  BY <1>1 DEF InOrder, Closing
<1>4. QED
  BY <1>2, <1>3

LEMMA PostKeeps == RenderInv /\ Post => RenderInv'
<1> SUFFICES ASSUME RenderInv, Post PROVE RenderInv'
  OBVIOUS
<1> USE DEF RenderInv
<1> DEFINE job == [id |-> ops + 1, kind |-> "post"]
<1>1. /\ ops \in Nat /\ ops' = ops + 1 /\ ops' \in 0..OpLimit
      /\ jobs' = Append(jobs, job) /\ pending = 0
      /\ mode = "commit" /\ waiting = 0 /\ ~closed
      /\ UNCHANGED <<mode, pending, busy, waiting, closed, thread, device, typed, replaced, gaveUp>>
  BY RenderAssumption DEF Post, Submits, RenderTypeOK
<1>2. jobs \in Seq(Jobs') /\ job \in Jobs'
  BY <1>1, MoreOps DEF Jobs
<1>3. jobs' \in Seq(Jobs')
  <2> HIDE DEF job
  <2> QED BY <1>1, <1>2, AppendProperties
<1> HIDE DEF job
<1>4. RenderTypeOK'
  BY <1>1, <1>3, MoreOps DEF RenderTypeOK, Jobs, Tasks
<1>5. InOrder' /\ Closing'
  BY <1>1 DEF InOrder, Closing
<1>6. QED
  BY <1>4, <1>5

LEMMA CloseKeeps == RenderInv /\ Close => RenderInv'
<1> SUFFICES ASSUME RenderInv, Close PROVE RenderInv'
  OBVIOUS
<1> USE DEF RenderInv
<1>1. /\ waiting = 0 /\ closed' = TRUE /\ pending' = 0 /\ ~closed
      /\ UNCHANGED <<mode, jobs, busy, waiting, thread, device, ops, typed, gaveUp>>
  BY DEF Close
<1>2. replaced' \subseteq 1..ops
  BY Elements DEF Close, Replaces, RenderTypeOK
<1>3. RenderTypeOK'
  BY <1>1, <1>2, Elements DEF RenderTypeOK
<1>4. mode = "correcting" => jobs = <<>>
  BY <1>1, NobodyWaits
<1>5. InOrder' /\ Closing'
  BY <1>1, <1>4 DEF InOrder, Closing, RenderTypeOK
<1>6. QED
  BY <1>3, <1>5

LEMMA CloseEndsKeeps == RenderInv /\ CloseEnds => RenderInv'
<1> SUFFICES ASSUME RenderInv, CloseEnds PROVE RenderInv'
  OBVIOUS
<1>1. /\ closed /\ device' = "closed"
      /\ UNCHANGED <<mode, pending, jobs, busy, waiting, closed, thread, ops, typed, replaced>>
  BY DEF CloseEnds
<1>2. gaveUp' \in BOOLEAN /\ (gaveUp' <=> thread = "running")
  BY DEF CloseEnds, JoinGivesUp
<1>3. thread \in {"running", "returned"}
  BY DEF RenderInv, RenderTypeOK
<1>4. RenderTypeOK' /\ InOrder'
  BY <1>1, <1>2 DEF RenderInv, RenderTypeOK, InOrder
<1>5. Closing'
  BY <1>1, <1>2, <1>3 DEF RenderInv, Closing
<1>6. QED
  BY <1>4, <1>5 DEF RenderInv

LEMMA ThreadReturnsKeeps == RenderInv /\ ThreadReturns => RenderInv'
  BY DEF RenderInv, RenderTypeOK, InOrder, Closing, ThreadReturns

-----------------------------------------------------------------------------
(* The render thread takes and runs.                                       *)

LEMMA TakeKeeps == RenderInv /\ Take => RenderInv'
<1> SUFFICES ASSUME RenderInv, Take PROVE RenderInv'
  OBVIOUS
<1> USE DEF RenderInv
<1>1. /\ thread = "running" /\ busy = <<>>
      /\ UNCHANGED <<mode, waiting, closed, thread, device, ops, typed, replaced, gaveUp>>
  BY DEF Take
<1>2. Closing'
  BY <1>1 DEF Closing
<1>3. CASE pending # 0
  <2> DEFINE task == [id |-> pending, kind |-> "publish"]
  <2>1. busy' = <<task>> /\ pending' = 0 /\ jobs' = jobs
    BY <1>3 DEF Take, PendingFirst
  <2>2. task \in Tasks /\ busy'[1].id = pending
    BY <1>3, <2>1, Elements DEF RenderTypeOK, Tasks
  <2> HIDE DEF task
  <2>3. RenderTypeOK'
    BY <1>1, <2>1, <2>2, Elements DEF RenderTypeOK, Tasks
  <2>4. /\ pending' = 0 /\ jobs' = jobs /\ typed' = typed /\ ops' = ops
        /\ mode' = mode /\ waiting' = waiting
    BY <1>1, <2>1
  <2>5. mode = "correcting" /\ waiting # 0 => jobs # <<>>
    BY <1>3 DEF InOrder
  <2>6. InOrder'
    BY <1>3, <2>2, <2>4, <2>5, Elements DEF InOrder, RenderTypeOK
  <2>7. QED
    BY <1>2, <2>3, <2>6
<1>4. CASE pending = 0
  <2>1. jobs # <<>> /\ busy' = <<Head(jobs)>> /\ jobs' = Tail(jobs) /\ pending' = 0
    BY <1>4 DEF Take, PendingFirst
  <2>2. /\ Head(jobs) \in Jobs /\ Head(jobs) = jobs[1]
        /\ jobs' \in Seq(Jobs) /\ Len(jobs') = Len(jobs) - 1
    BY <2>1, Elements, HeadTailProperties
  <2>3. busy'[1] = jobs[1] /\ busy' \in {<<op>> : op \in Tasks}
    BY <2>1, <2>2 DEF Jobs, Tasks
  <2>4. mode = "correcting" => jobs' = <<>>
    <3>1. mode = "correcting" => Len(jobs') = 0
      BY <2>1, <2>2, Elements DEF RenderTypeOK
    <3>2. QED
      BY <2>2, <3>1, EmptySeq
  <2>5. RenderTypeOK'
    BY <1>1, <2>1, <2>2, <2>3, <2>4, Elements DEF RenderTypeOK, Tasks, Jobs
  <2>6. InOrder'
    BY <1>1, <1>4, <2>1, <2>3, <2>4 DEF InOrder, RenderTypeOK
  <2>7. QED
    BY <1>2, <2>5, <2>6
<1>5. QED
  BY <1>3, <1>4

LEMMA RunKeeps == RenderInv /\ Run => RenderInv'
<1> SUFFICES ASSUME RenderInv, Run PROVE RenderInv'
  OBVIOUS
<1> USE DEF RenderInv
<1>1. /\ busy # <<>> /\ typed' = Append(typed, busy[1].id) /\ busy' = <<>>
      /\ UNCHANGED <<mode, pending, jobs, waiting, closed, thread, device, ops, replaced, gaveUp>>
  BY DEF Run, KeptAfterRun
<1>2. busy[1].id \in 1..ops
  BY <1>1, Elements, Zenon DEF Tasks
<1>3. /\ typed' \in Seq(1..ops) /\ Len(typed') = Len(typed) + 1
      /\ \A i \in 1..Len(typed) : typed'[i] = typed[i]
      /\ typed'[Len(typed) + 1] = busy[1].id
  BY <1>1, <1>2, Elements, AppendProperties
<1>4. DOMAIN typed' = 1..(Len(typed) + 1) /\ DOMAIN typed = 1..Len(typed)
  BY <1>3, LenProperties, Elements
<1>5. RenderTypeOK'
  BY <1>1, <1>3 DEF RenderTypeOK
<1>6. InOrder'
  <2>1. \A i \in DOMAIN typed' : typed'[i] = busy[1].id \/ \E j \in DOMAIN typed : typed'[i] = typed[j]
    BY <1>3, <1>4, Elements
  <2>2. QED
    BY <1>1, <2>1 DEF InOrder
<1>7. Closing'
  BY <1>1 DEF Closing
<1>8. QED
  BY <1>5, <1>6, <1>7

LEMMA RenderInvStep == RenderInv /\ [RenderNext]_renderVars => RenderInv'
<1> SUFFICES ASSUME RenderInv, [RenderNext]_renderVars PROVE RenderInv'
  OBVIOUS
<1>1. CASE UNCHANGED renderVars
  BY <1>1 DEF RenderInv, RenderTypeOK, InOrder, Closing, renderVars
<1>2. CASE RenderThread
  BY <1>2, TakeKeeps, RunKeeps, ThreadReturnsKeeps DEF RenderThread
<1>3. CASE \E kind \in {"sync", "read"} : Call(kind)
  BY <1>3, CallKeeps
<1>4. CASE Publish \/ CallReturns \/ Post \/ Close \/ CloseEnds
  BY <1>4, PublishKeeps, CallReturnsKeeps, PostKeeps, CloseKeeps, CloseEndsKeeps
<1>5. QED
  BY <1>1, <1>2, <1>3, <1>4 DEF RenderNext

LEMMA RenderInitInv == RenderInit => RenderInv
<1> SUFFICES ASSUME RenderInit PROVE RenderInv
  OBVIOUS
<1>1. jobs = <<>> /\ typed = <<>> /\ busy = <<>> /\ ops = 0
  BY DEF RenderInit
<1>2. jobs \in Seq(Jobs) /\ Len(jobs) = 0 /\ typed \in Seq(1..ops)
  BY <1>1, EmptySeq
<1>3. RenderTypeOK
  <2>1. 0 \in 0..OpLimit /\ replaced \subseteq 1..ops
    BY RenderAssumption DEF RenderInit
  <2>2. /\ mode \in {"commit", "correcting"} /\ pending = 0 /\ waiting = 0
        /\ closed = FALSE /\ gaveUp = FALSE /\ thread = "running" /\ device = "open"
    BY DEF RenderInit
  <2>3. Len(jobs) <= 1 /\ pending \in 0..ops /\ ops \in 0..OpLimit /\ waiting \in 0..ops
    BY <1>1, <1>2, <2>1, <2>2
  <2>4. QED
    BY <1>1, <1>2, <2>1, <2>2, <2>3, Zenon DEF RenderTypeOK, Jobs
<1>4. InOrder /\ Closing
  BY <1>1 DEF RenderInit, InOrder, Closing
<1>5. QED
  BY <1>3, <1>4 DEF RenderInv

LEMMA RenderInvariance == RenderSpec => []RenderInv
  BY RenderInitInv, RenderInvStep, PTL DEF RenderSpec

\* The queue has the shape that the callers of barriers and close() rely on.
THEOREM RenderTypeCorrect == RenderSpec => []RenderTypeOK
<1>1. RenderInv => RenderTypeOK
  BY DEF RenderInv
<1>2. QED
  BY <1>1, RenderInvariance, PTL

-----------------------------------------------------------------------------
(* No operation is dropped.                                                *)

IsQueued(n) ==
    \/ n = pending
    \/ \E i \in DOMAIN jobs : jobs[i].id = n
    \/ busy # <<>> /\ busy[1].id = n

IsTyped(n) == \E i \in DOMAIN typed : typed[i] = n

Accounted == \A n \in 1..ops : IsQueued(n) \/ IsTyped(n) \/ n \in replaced

LEMMA AccountedFor ==
    ASSUME RenderTypeOK
    PROVE  NothingDropped <=> Accounted
<1> DEFINE Queued == {pending} \cup {jobs[i].id : i \in DOMAIN jobs}
                               \cup {busy[i].id : i \in DOMAIN busy}
           Typed == {typed[i] : i \in DOMAIN typed}
<1>1. {busy[i].id : i \in DOMAIN busy} = {n \in 1..ops : busy # <<>> /\ busy[1].id = n}
  <2>1. CASE busy = <<>>
    BY <2>1
  <2>2. CASE busy # <<>>
    <3>1. DOMAIN busy = {1}
      BY <2>2, Elements
    <3>2. busy[1].id \in 1..ops
      BY <2>2, Elements, Zenon DEF Tasks
    <3>3. QED
      BY <2>2, <3>1, <3>2
  <2>3. QED
    BY <2>1, <2>2
<1>2. {jobs[i].id : i \in DOMAIN jobs} \subseteq 1..ops
  <2>1. \A i \in DOMAIN jobs : jobs[i] \in Jobs
    BY Elements, LenProperties, ElementOfSeq
  <2>2. QED
    BY <2>1 DEF Jobs
<1>3. Typed \subseteq 1..ops /\ replaced \subseteq 1..ops /\ pending \in 0..ops /\ ops \in Nat
  BY Elements DEF RenderTypeOK
<1>4. \A n \in 1..ops : n \in Queued <=> IsQueued(n)
  BY <1>1 DEF IsQueued
<1>5. \A n \in 1..ops : n \in Typed <=> IsTyped(n)
  BY DEF IsTyped
<1>6. NothingDropped <=> 1..ops = (Typed \cup Queued \cup replaced) \ {0}
  BY DEF NothingDropped
<1>7. {busy[i].id : i \in DOMAIN busy} \subseteq 1..ops
  BY <1>1
<1>8. Queued \ {0} \subseteq 1..ops /\ ~(0 \in 1..ops)
  BY <1>2, <1>3, <1>7
<1> HIDE DEF Queued, Typed
<1>9. QED
  BY <1>3, <1>4, <1>5, <1>6, <1>8 DEF Accounted

\* A job queued is the newest operation, and the others stay.
LEMMA QueueGrows ==
    ASSUME RenderTypeOK, NEW kind \in {"sync", "read", "post"}, ops' = ops + 1,
           jobs' = Append(jobs, [id |-> ops + 1, kind |-> kind])
    PROVE  \A n : (\E i \in DOMAIN jobs' : jobs'[i].id = n)
                  <=> n = ops' \/ \E i \in DOMAIN jobs : jobs[i].id = n
<1> DEFINE job == [id |-> ops + 1, kind |-> kind]
<1>1. job.id = ops' /\ job \in Jobs' /\ jobs \in Seq(Jobs')
  BY Elements, MoreOps DEF Jobs
<1>2. jobs' = Append(jobs, job)
  OBVIOUS
<1> HIDE DEF job
<1>3. /\ Len(jobs') = Len(jobs) + 1 /\ jobs'[Len(jobs) + 1] = job
      /\ \A i \in 1..Len(jobs) : jobs'[i] = jobs[i]
      /\ jobs' \in Seq(Jobs')
  BY <1>1, <1>2, AppendProperties
<1>4. DOMAIN jobs' = 1..(Len(jobs) + 1) /\ DOMAIN jobs = 1..Len(jobs) /\ Len(jobs) \in Nat
  BY <1>1, <1>3, LenProperties
<1>5. QED
  BY <1>1, <1>3, <1>4

\* The newest operation goes in, and what is in the queue stays, is typed, or is
\* the pending text that is replaced.
LEMMA AccountedStep == RenderInv /\ Accounted /\ [RenderNext]_renderVars => Accounted'
<1> SUFFICES ASSUME RenderInv, Accounted, [RenderNext]_renderVars,
                    NEW n \in (1..ops)'
             PROVE  (IsQueued(n) \/ IsTyped(n) \/ n \in replaced)'
  BY DEF Accounted
<1> USE DEF RenderInv
<1>0. ops \in Nat /\ (n \in 1..ops => IsQueued(n) \/ IsTyped(n) \/ n \in replaced)
  BY Elements DEF Accounted
<1>1. CASE Publish
  <2>1. /\ ops' = ops + 1 /\ pending' = ops' /\ UNCHANGED <<jobs, busy, typed>>
        /\ replaced \subseteq replaced' /\ (pending # 0 => pending \in replaced')
    BY <1>1 DEF Publish, Submits, Replaces
  <2>2. n = ops' \/ n \in 1..ops
    BY <1>0, <2>1
  <2>3. QED
    BY <1>0, <2>1, <2>2 DEF IsQueued, IsTyped
<1>2. ASSUME NEW kind \in {"sync", "read"}, Call(kind)
      PROVE  (IsQueued(n) \/ IsTyped(n) \/ n \in replaced)'
  <2>1. /\ ops' = ops + 1 /\ jobs' = Append(jobs, [id |-> ops + 1, kind |-> kind])
        /\ UNCHANGED <<busy, typed>>
        /\ replaced \subseteq replaced' /\ (pending = 0 \/ pending' = pending \/ pending \in replaced')
    BY <1>2 DEF Call, Submits, Replaces
  <2>2. n = ops' \/ n \in 1..ops
    BY <1>0, <2>1
  <2>3. n = ops' \/ (\E i \in DOMAIN jobs : jobs[i].id = n) => \E i \in DOMAIN jobs' : jobs'[i].id = n
    BY <2>1, QueueGrows
  <2>4. QED
    BY <1>0, <2>1, <2>2, <2>3 DEF IsQueued, IsTyped
<1>3. CASE CallReturns \/ CloseEnds \/ ThreadReturns \/ UNCHANGED renderVars
  BY <1>0, <1>3 DEF CallReturns, CloseEnds, ThreadReturns, renderVars, IsQueued, IsTyped
<1>4. CASE Post
  <2>1. /\ ops' = ops + 1 /\ jobs' = Append(jobs, [id |-> ops + 1, kind |-> "post"])
        /\ UNCHANGED <<pending, busy, typed, replaced>>
    BY <1>4 DEF Post, Submits
  <2>2. n = ops' \/ n \in 1..ops
    BY <1>0, <2>1
  <2>3. n = ops' \/ (\E i \in DOMAIN jobs : jobs[i].id = n) => \E i \in DOMAIN jobs' : jobs'[i].id = n
    BY <2>1, QueueGrows
  <2>4. QED
    BY <1>0, <2>1, <2>2, <2>3 DEF IsQueued, IsTyped
<1>5. CASE Close
  <2>1. /\ UNCHANGED <<ops, jobs, busy, typed>>
        /\ replaced \subseteq replaced' /\ (pending # 0 => pending \in replaced')
    BY <1>5 DEF Close, Replaces
  <2>2. QED
    BY <1>0, <2>1 DEF IsQueued, IsTyped
<1>6. CASE Take
  <2>1. busy = <<>> /\ UNCHANGED <<ops, typed, replaced>>
    BY <1>6 DEF Take
  <2>2. CASE pending # 0
    <3>1. busy' = <<[id |-> pending, kind |-> "publish"]>> /\ jobs' = jobs
      BY <1>6, <2>2 DEF Take, PendingFirst
    <3>2. busy' # <<>> /\ busy'[1].id = pending
      BY <3>1
    <3>3. QED
      BY <1>0, <2>1, <3>1, <3>2 DEF IsQueued, IsTyped
  <2>3. CASE pending = 0
    <3>1. jobs # <<>> /\ busy' = <<Head(jobs)>> /\ jobs' = Tail(jobs) /\ pending' = 0
      BY <1>6, <2>3 DEF Take, PendingFirst
    <3>2. /\ Head(jobs) = jobs[1] /\ jobs' \in Seq(Jobs) /\ Len(jobs') = Len(jobs) - 1
          /\ \A i \in 1..Len(jobs') : jobs'[i] = jobs[i + 1]
      BY <3>1, Elements, HeadTailProperties
    <3>3. busy' # <<>> /\ busy'[1] = jobs[1]
      BY <3>1, <3>2
    <3>4. DOMAIN jobs = 1..Len(jobs) /\ DOMAIN jobs' = 1..Len(jobs') /\ Len(jobs) \in Nat
      BY <3>2, Elements, LenProperties
    <3>5. \A i \in DOMAIN jobs : i = 1 \/ (i - 1 \in DOMAIN jobs' /\ jobs'[i - 1] = jobs[i])
      BY <3>2, <3>4
    <3>6. QED
      BY <1>0, <2>1, <2>3, <3>1, <3>3, <3>5 DEF IsQueued, IsTyped
  <2>4. QED
    BY <2>2, <2>3
<1>7. CASE Run
  <2>1. /\ busy # <<>> /\ typed' = Append(typed, busy[1].id)
        /\ UNCHANGED <<pending, jobs, ops, replaced>>
    BY <1>7 DEF Run, KeptAfterRun
  <2>2. busy[1].id \in 1..ops
    BY <2>1, Elements, Zenon DEF Tasks
  <2>3. /\ typed' \in Seq(1..ops) /\ Len(typed') = Len(typed) + 1
        /\ \A i \in 1..Len(typed) : typed'[i] = typed[i]
        /\ typed'[Len(typed) + 1] = busy[1].id
    BY <2>1, <2>2, Elements, AppendProperties
  <2>4. DOMAIN typed' = 1..(Len(typed) + 1) /\ DOMAIN typed = 1..Len(typed)
    BY <2>3, LenProperties, Elements
  <2>5. IsTyped(n) => IsTyped(n)'
    BY <2>3, <2>4, Elements DEF IsTyped
  <2>6. busy[1].id = n => IsTyped(n)'
    BY <2>3, <2>4, Elements DEF IsTyped
  <2>7. QED
    BY <1>0, <2>1, <2>5, <2>6 DEF IsQueued
<1>8. QED
  BY <1>1, <1>2, <1>3, <1>4, <1>5, <1>6, <1>7 DEF RenderNext, RenderThread

\* Everything submitted is typed, queued, or a text that a newer one replaced or
\* close() discarded, and nothing is left for a device that close() has closed
\* after its thread had returned.
THEOREM RenderLosesNothing == RenderSpec => []TypedOrReplaced
<1>1. RenderInit => Accounted
  BY DEF RenderInit, Accounted
<1>2. RenderInv /\ Accounted => TypedOrReplaced
  <2>1. RenderInv /\ Accounted => NothingDropped
    BY AccountedFor DEF RenderInv
  <2>2. RenderInv => ClosedDeviceIsLeftAlone
    BY DEF RenderInv, Closing, RenderTypeOK, ClosedDeviceIsLeftAlone
  <2>3. QED
    BY <2>1, <2>2 DEF TypedOrReplaced
<1>3. QED
  BY <1>1, <1>2, RenderInvariance, AccountedStep, PTL DEF RenderSpec

-----------------------------------------------------------------------------
(* Every step is a step of TypingOrder, or leaves its state alone.         *)

LEMMA AppendToLast ==
    ASSUME NEW S, NEW s \in Seq(S), NEW t \in Seq(S), NEW e \in S
    PROVE  s \o Append(t, e) = Append(s \o t, e)
<1>1. <<e>> \in Seq(S) /\ Append(t, e) = t \o <<e>>
  BY AppendIsConcat
<1>2. (s \o t) \o <<e>> = s \o (t \o <<e>>)
  BY <1>1, ConcatAssociative
<1>3. s \o t \in Seq(S)
  BY ConcatProperties
<1>4. Append(s \o t, e) = (s \o t) \o <<e>>
  BY <1>3, AppendIsConcat
<1>5. QED
  BY <1>1, <1>2, <1>4

LEMMA HeadOfWork ==
    ASSUME NEW S, NEW s \in Seq(S), NEW e \in S
    PROVE  /\ <<e>> \o s # <<>>
           /\ Head(<<e>> \o s) = e
           /\ Tail(<<e>> \o s) = s
<1>1. <<e>> \in Seq(S) /\ Len(<<e>>) = 1 /\ <<e>>[1] = e /\ Len(s) \in Nat
  BY LenProperties
<1> DEFINE w == <<e>> \o s
<1>2. /\ w \in Seq(S) /\ Len(w) = Len(s) + 1
      /\ \A i \in 1..(Len(s) + 1) : w[i] = IF i <= 1 THEN e ELSE s[i - 1]
  BY <1>1, ConcatProperties
<1> HIDE DEF w
<1>3. w # <<>> /\ Head(w) = w[1] /\ w[1] = e
  BY <1>1, <1>2, EmptySeq
<1>4. /\ Tail(w) \in Seq(S) /\ Len(Tail(w)) = Len(s)
      /\ \A i \in 1..Len(s) : Tail(w)[i] = w[i + 1]
  BY <1>1, <1>2, <1>3, HeadTailProperties
<1>5. \A i \in 1..Len(s) : Tail(w)[i] = s[i]
  BY <1>1, <1>2, <1>4
<1>6. Tail(w) = s
  BY <1>4, <1>5, SeqEqual
<1>7. QED
  BY <1>3, <1>6 DEF w

LEMMA HeadThenTail ==
    ASSUME NEW S, NEW s \in Seq(S), s # <<>>
    PROVE  <<Head(s)>> \o Tail(s) = s
<1>1. Len(s) \in Nat \ {0} /\ Head(s) = s[1]
  BY EmptySeq
<1>2. SubSeq(s, 1, Len(s)) = <<s[1]>> \o SubSeq(s, 2, Len(s))
  <2>1. 1 \in 1..Len(s) /\ Len(s) \in 1..Len(s) /\ 1 + 1 = 2
    BY <1>1
  <2>2. QED
    BY <2>1, SubSeqRecursiveFirst
<1>3. QED
  BY <1>1, <1>2, SubSeqFull, TailIsSubSeq

LEMMA LastWithdrawn ==
    ASSUME NEW S, NEW s \in Seq(S), NEW e \in S, e.kind = "publish"
    PROVE  Order!Offered(Append(s, e)) /\ Order!Withdrawn(Append(s, e)) = s
<1> DEFINE w == Append(s, e)
<1>1. /\ w \in Seq(S) /\ w # <<>> /\ Len(w) = Len(s) + 1 /\ Len(s) \in Nat
      /\ \A i \in 1..Len(s) : w[i] = s[i]
      /\ w[Len(s) + 1] = e
  BY AppendProperties, LenProperties
<1> HIDE DEF w
<1>2. Order!Offered(w)
  BY <1>1 DEF Order!Offered
<1> DEFINE v == SubSeq(w, 1, Len(w) - 1)
<1>3. /\ v \in Seq(S) /\ Len(v) = Len(s) /\ \A i \in 1..Len(s) : v[i] = w[i]
  <2>1. \A i \in 1..(Len(w) - 1) : w[i] \in S
    BY <1>1, ElementOfSeq
  <2>2. QED
    BY <1>1, <2>1, SubSeqProperties
<1> HIDE DEF v
<1>4. v = s
  BY <1>1, <1>3, SeqEqual
<1>5. QED
  BY <1>2, <1>4 DEF w, v, Order!Withdrawn

\* Operations of any number.
AnyTask == [id: Nat, kind: {"publish", "sync", "read", "post"}]

LEMMA WorkParts ==
    ASSUME RenderTypeOK
    PROVE  /\ busy \in Seq(AnyTask) /\ PendingWork \in Seq(AnyTask) /\ jobs \in Seq(AnyTask)
           /\ busy \o PendingWork \in Seq(AnyTask) /\ Work \in Seq(AnyTask)
<1>1. Jobs \subseteq AnyTask /\ Tasks \subseteq AnyTask
  BY DEF Jobs, Tasks, AnyTask
<1>2. jobs \in Seq(AnyTask)
  BY <1>1, Elements, SeqMonotonic
<1>3. <<>> \in Seq(AnyTask)
  BY EmptySeq
<1>4. busy \in Seq(AnyTask)
  <2>1. busy = <<>> \/ \E op \in AnyTask : busy = <<op>>
    BY <1>1 DEF RenderTypeOK, Tasks
  <2>2. \A op \in AnyTask : <<op>> \in Seq(AnyTask)
    OBVIOUS
  <2>3. QED
    BY <1>3, <2>1, <2>2, Zenon
<1>5. PendingWork \in Seq(AnyTask)
  <2>1. [id |-> pending, kind |-> "publish"] \in AnyTask
    BY Elements DEF RenderTypeOK, AnyTask
  <2>2. QED
    BY <1>3, <2>1 DEF PendingWork
<1>6. busy \o PendingWork \in Seq(AnyTask)
  BY <1>4, <1>5, ConcatProperties
<1>7. Work \in Seq(AnyTask)
  BY <1>2, <1>6, ConcatProperties DEF Work
<1>8. QED
  BY <1>2, <1>4, <1>5, <1>6, <1>7

LEMMA PublishRefines == RenderInv /\ Publish => Order!Accept("publish")
<1> SUFFICES ASSUME RenderInv, Publish PROVE Order!Accept("publish")
  OBVIOUS
<1> DEFINE op == [id |-> ops + 1, kind |-> "publish"]
<1>1. /\ mode = "correcting" /\ waiting = 0 /\ ~closed /\ ops' = ops + 1 /\ ops \in Nat
      /\ pending' = ops + 1 /\ UNCHANGED <<jobs, busy, waiting, closed, device, typed>>
  BY Elements DEF Publish, Submits, RenderInv
<1>2. jobs = <<>>
  BY <1>1, NobodyWaits DEF RenderInv
<1>3. PendingWork' = <<op>> /\ op \in AnyTask
  BY <1>1 DEF PendingWork, AnyTask
<1> HIDE DEF op
<1>4. RenderTypeOK
  BY DEF RenderInv
<1>5. Work = busy \o PendingWork
  BY <1>2, <1>4, WorkParts, ConcatEmptySeq DEF Work
<1>6. Work' = Append(busy, op)
  <2>1. Work' = (busy \o <<op>>) \o <<>>
    BY <1>1, <1>2, <1>3 DEF Work
  <2>2. busy \o <<op>> = Append(busy, op) /\ Append(busy, op) \in Seq(AnyTask)
    BY <1>3, <1>4, WorkParts, AppendIsConcat, AppendProperties
  <2>3. QED
    BY <2>1, <2>2, ConcatEmptySeq
<1>7. \/ Work' = Append(Work, op)
      \/ Order!Offered(Work) /\ Work' = Append(Order!Withdrawn(Work), op)
  <2>1. CASE pending = 0
    <3>1. Work = busy
      BY <1>4, <1>5, <2>1, WorkParts, ConcatEmptySeq DEF PendingWork
    <3>2. QED
      BY <1>6, <3>1
  <2>2. CASE pending # 0
    <3> DEFINE old == [id |-> pending, kind |-> "publish"]
    <3>1. old \in AnyTask /\ old.kind = "publish" /\ PendingWork = <<old>>
      BY <1>4, <2>2, Elements DEF AnyTask, PendingWork, RenderTypeOK
    <3> HIDE DEF old
    <3>2. Work = Append(busy, old)
      BY <1>4, <1>5, <3>1, WorkParts, AppendIsConcat
    <3>3. Order!Offered(Work) /\ Order!Withdrawn(Work) = busy
      BY <1>4, <3>1, <3>2, WorkParts, LastWithdrawn
    <3>4. QED
      BY <1>6, <3>3
  <2>3. QED
    BY <2>1, <2>2
<1>8. Caller = "free" /\ Caller' = "free" /\ device = "open"
  BY <1>1 DEF Caller, RenderInv, Closing, RenderTypeOK
<1>9. QED
  BY <1>1, <1>7, <1>8 DEF Order!Accept, Order!IsText, Order!IsBarrier, op

\* An operation queued behind the others goes to the end of the work.
LEMMA QueuedLast ==
    ASSUME RenderTypeOK, ops' = ops + 1, NEW kind \in {"sync", "read", "post"},
           UNCHANGED <<busy, pending>>,
           jobs' = Append(jobs, [id |-> ops + 1, kind |-> kind])
    PROVE  Work' = Append(Work, [id |-> ops + 1, kind |-> kind])
<1> DEFINE op == [id |-> ops + 1, kind |-> kind]
<1>1. op \in AnyTask
  BY Elements DEF AnyTask
<1>2. PendingWork' = PendingWork /\ busy' = busy /\ jobs' = Append(jobs, op)
  BY DEF PendingWork
<1> HIDE DEF op
<1>3. Work' = (busy \o PendingWork) \o Append(jobs, op)
  BY <1>2 DEF Work
<1>4. (busy \o PendingWork) \o Append(jobs, op) = Append((busy \o PendingWork) \o jobs, op)
  BY <1>1, WorkParts, AppendToLast
<1>5. QED
  BY <1>3, <1>4 DEF Work, op

LEMMA CallRefines ==
    ASSUME RenderInv, NEW kind \in {"sync", "read"}, Call(kind)
    PROVE  Order!Accept(kind)
<1> DEFINE op == [id |-> ops + 1, kind |-> kind]
<1>1. /\ mode = "correcting" /\ waiting = 0 /\ ~closed /\ ops' = ops + 1 /\ ops \in Nat
      /\ waiting' = ops + 1 /\ jobs' = Append(jobs, op)
      /\ UNCHANGED <<busy, closed, device, typed>>
  BY Elements DEF Call, Submits, WaitsFor, RenderInv
<1>2. Caller = "free" /\ Caller' = "waiting" /\ device = "open"
  BY <1>1 DEF Caller, RenderInv, Closing, RenderTypeOK
<1>3. CASE pending' = pending
  <2>1. Work' = Append(Work, op)
    BY <1>1, <1>3, QueuedLast DEF RenderInv
  <2>2. QED
    BY <1>1, <1>2, <2>1 DEF Order!Accept, Order!IsBarrier
<1>4. CASE pending' # pending
  <2>1. kind = "sync" /\ pending' = 0 /\ pending # 0
    BY <1>4 DEF Call
  <2> DEFINE old == [id |-> pending, kind |-> "publish"]
  <2>2. /\ old \in AnyTask /\ old.kind = "publish" /\ PendingWork = <<old>> /\ PendingWork' = <<>>
        /\ op \in AnyTask /\ jobs = <<>>
    BY <1>1, <2>1, Elements, NobodyWaits DEF AnyTask, PendingWork, RenderTypeOK, RenderInv
  <2> HIDE DEF op, old
  <2>3. RenderTypeOK
    BY DEF RenderInv
  <2>4. Work = Append(busy, old)
    <3>1. Work = (busy \o <<old>>) \o <<>>
      BY <2>2 DEF Work
    <3>2. busy \o <<old>> = Append(busy, old) /\ Append(busy, old) \in Seq(AnyTask)
      BY <2>2, <2>3, WorkParts, AppendIsConcat, AppendProperties
    <3>3. QED
      BY <3>1, <3>2, ConcatEmptySeq
  <2>5. Order!Offered(Work) /\ Order!Withdrawn(Work) = busy
    BY <2>2, <2>3, <2>4, WorkParts, LastWithdrawn
  <2>6. Work' = Append(busy, op)
    <3>1. Work' = (busy \o <<>>) \o Append(<<>>, op)
      BY <1>1, <2>2 DEF Work
    <3>2. busy \o <<>> = busy
      BY <2>3, WorkParts, ConcatEmptySeq
    <3>3. busy \o Append(<<>>, op) = Append(busy \o <<>>, op)
      BY <2>2, <2>3, WorkParts, EmptySeq, AppendToLast
    <3>4. QED
      BY <3>1, <3>2, <3>3
  <2>7. Work' = Append(Order!Withdrawn(Work), op)
    BY <2>5, <2>6
  <2>8. QED
    BY <1>1, <1>2, <2>1, <2>5, <2>7 DEF Order!Accept, Order!IsBarrier, Order!IsText, op
<1>5. QED
  BY <1>3, <1>4

LEMMA PostRefines == RenderInv /\ Post => Order!Accept("post")
<1> SUFFICES ASSUME RenderInv, Post PROVE Order!Accept("post")
  OBVIOUS
<1>1. /\ waiting = 0 /\ ~closed /\ ops' = ops + 1
      /\ jobs' = Append(jobs, [id |-> ops + 1, kind |-> "post"])
      /\ UNCHANGED <<pending, busy, waiting, closed, device, typed>>
  BY DEF Post, Submits
<1>2. Work' = Append(Work, [id |-> ops + 1, kind |-> "post"])
  BY <1>1, QueuedLast DEF RenderInv
<1>3. Caller = "free" /\ Caller' = "free" /\ device = "open"
  BY <1>1 DEF Caller, RenderInv, Closing, RenderTypeOK
<1>4. QED
  BY <1>1, <1>2, <1>3 DEF Order!Accept, Order!IsBarrier

LEMMA CallReturnsRefines == RenderInv /\ CallReturns => Order!Return
<1> SUFFICES ASSUME RenderInv, CallReturns PROVE Order!Return
  OBVIOUS
<1>1. /\ jobs = <<>> /\ pending = 0 /\ busy = <<>> /\ waiting # 0 /\ waiting' = 0
      /\ UNCHANGED <<pending, jobs, busy, closed, device, ops, typed>>
  BY ReturnsToEmpty DEF CallReturns
<1>2. Work = <<>> /\ Work' = Work
  <2>1. PendingWork = <<>> /\ PendingWork' = PendingWork
    BY <1>1 DEF PendingWork
  <2>2. <<>> \o <<>> = <<>>
    BY EmptySeq, ConcatEmptySeq
  <2>3. QED
    BY <1>1, <2>1, <2>2, Zenon DEF Work
<1>3. Caller = "waiting" /\ Caller' = "free"
  BY <1>1 DEF Caller, RenderInv, Closing
<1>4. QED
  BY <1>1, <1>2, <1>3 DEF Order!Return

LEMMA CloseRefines == RenderInv /\ Close => Order!CloseBegins
<1> SUFFICES ASSUME RenderInv, Close PROVE Order!CloseBegins
  OBVIOUS
<1>1. /\ waiting = 0 /\ ~closed /\ closed' = TRUE /\ pending' = 0
      /\ UNCHANGED <<jobs, busy, waiting, device, ops, typed>>
  BY DEF Close
<1>2. RenderTypeOK /\ mode \in {"commit", "correcting"}
  BY DEF RenderInv, RenderTypeOK
<1>3. Caller = "free" /\ Caller' = "closing" /\ device = "open"
  BY <1>1 DEF Caller, RenderInv, Closing, RenderTypeOK
<1>4. CASE pending = 0
  <2>1. Work' = Work
    BY <1>1, <1>4 DEF Work, PendingWork
  <2>2. QED
    BY <1>1, <1>3, <2>1 DEF Order!CloseBegins
<1>5. CASE pending # 0
  <2> DEFINE old == [id |-> pending, kind |-> "publish"]
  <2>1. jobs = <<>>
    BY <1>1, <1>2, <1>5, NobodyWaits DEF RenderTypeOK
  <2>2. old \in AnyTask /\ old.kind = "publish" /\ PendingWork = <<old>> /\ PendingWork' = <<>>
    BY <1>1, <1>2, <1>5, Elements DEF AnyTask, PendingWork, RenderTypeOK
  <2> HIDE DEF old
  <2>3. Work = Append(busy, old)
    <3>1. Work = (busy \o <<old>>) \o <<>>
      BY <2>1, <2>2 DEF Work
    <3>2. busy \o <<old>> = Append(busy, old) /\ Append(busy, old) \in Seq(AnyTask)
      BY <1>2, <2>2, WorkParts, AppendIsConcat, AppendProperties
    <3>3. QED
      BY <3>1, <3>2, ConcatEmptySeq
  <2>4. Order!Offered(Work) /\ Order!Withdrawn(Work) = busy
    BY <1>2, <2>2, <2>3, WorkParts, LastWithdrawn
  <2>5. Work' = busy
    <3>1. Work' = (busy \o <<>>) \o <<>>
      BY <1>1, <2>1, <2>2 DEF Work
    <3>2. busy \o <<>> = busy
      BY <1>2, WorkParts, ConcatEmptySeq
    <3>3. QED
      BY <3>1, <3>2
  <2>6. QED
    BY <1>1, <1>3, <2>4, <2>5 DEF Order!CloseBegins
<1>6. QED
  BY <1>4, <1>5

LEMMA CloseEndsRefines == RenderInv /\ CloseEnds => Order!CloseEnds
<1> SUFFICES ASSUME RenderInv, CloseEnds PROVE Order!CloseEnds
  OBVIOUS
<1>1. /\ closed /\ device = "open" /\ device' = "closed"
      /\ UNCHANGED <<pending, jobs, busy, waiting, closed, ops, typed>>
  BY DEF CloseEnds
<1>2. Work' = Work
  BY <1>1 DEF Work, PendingWork
<1>3. Caller = "closing" /\ Caller' = "free"
  BY <1>1 DEF Caller, RenderInv, Closing
<1>4. QED
  BY <1>1, <1>2, <1>3 DEF Order!CloseEnds

\* The thread only moves an operation from the queue into its hand.
LEMMA TakeRefines == RenderInv /\ Take => UNCHANGED Order!orderVars
<1> SUFFICES ASSUME RenderInv, Take PROVE UNCHANGED Order!orderVars
  OBVIOUS
<1>1. busy = <<>> /\ UNCHANGED <<waiting, closed, device, ops, typed>>
  BY DEF Take
<1>2. RenderTypeOK
  BY DEF RenderInv
<1>3. Work = PendingWork \o jobs
  BY <1>1, <1>2, WorkParts, ConcatEmptySeq DEF Work
<1>4. Work' = Work
  <2>1. CASE pending # 0
    <3> DEFINE task == [id |-> pending, kind |-> "publish"]
    <3>1. busy' = <<task>> /\ PendingWork' = <<>> /\ PendingWork = <<task>> /\ jobs' = jobs
      BY <2>1 DEF Take, PendingFirst, PendingWork
    <3> HIDE DEF task
    <3>2. Work' = (<<task>> \o <<>>) \o jobs
      BY <3>1 DEF Work
    <3>3. <<task>> \o <<>> = <<task>>
      BY <1>2, <3>1, WorkParts, ConcatEmptySeq
    <3>4. QED
      BY <1>3, <3>1, <3>2, <3>3
  <2>2. CASE pending = 0
    <3>1. /\ jobs # <<>> /\ busy' = <<Head(jobs)>> /\ jobs' = Tail(jobs)
          /\ PendingWork' = <<>> /\ PendingWork = <<>>
      BY <2>2 DEF Take, PendingFirst, PendingWork
    <3>2. Work = jobs
      BY <1>2, <1>3, <3>1, WorkParts, ConcatEmptySeq
    <3>3. Work' = (<<Head(jobs)>> \o <<>>) \o Tail(jobs)
      BY <3>1 DEF Work
    <3>4. Head(jobs) \in AnyTask /\ Tail(jobs) \in Seq(AnyTask)
      BY <1>2, <3>1, WorkParts, HeadTailProperties
    <3>5. <<Head(jobs)>> \o <<>> = <<Head(jobs)>>
      BY <3>4, ConcatEmptySeq
    <3>6. <<Head(jobs)>> \o Tail(jobs) = jobs
      BY <1>2, <3>1, WorkParts, HeadThenTail
    <3>7. QED
      BY <3>2, <3>3, <3>5, <3>6
  <2>3. QED
    BY <2>1, <2>2
<1>5. Caller' = Caller
  BY <1>1 DEF Caller
<1>6. QED
  BY <1>1, <1>4, <1>5 DEF Order!orderVars

LEMMA RunRefines == RenderInv /\ Run => Order!Type
<1> SUFFICES ASSUME RenderInv, Run PROVE Order!Type
  OBVIOUS
<1> DEFINE task == busy[1]
           rest == PendingWork \o jobs
<1>1. /\ busy # <<>> /\ busy' = <<>> /\ typed' = Append(typed, task.id)
      /\ UNCHANGED <<pending, jobs, waiting, closed, device, ops>>
  BY DEF Run, KeptAfterRun
<1>2. RenderTypeOK
  BY DEF RenderInv
<1>3. busy = <<task>> /\ task \in AnyTask /\ rest \in Seq(AnyTask)
  <2>1. busy = <<task>> /\ task \in Tasks
    BY <1>1, <1>2, Elements
  <2>2. rest \in Seq(AnyTask)
    BY <1>2, WorkParts, ConcatProperties
  <2>3. QED
    BY <2>1, <2>2 DEF Tasks, AnyTask
<1>4. Work = busy \o rest
  BY <1>2, WorkParts, ConcatAssociative DEF Work
<1>5. Work' = rest
  <2>1. Work' = (<<>> \o PendingWork) \o jobs
    BY <1>1 DEF Work, PendingWork
  <2>2. QED
    BY <1>2, <2>1, WorkParts, ConcatEmptySeq
<1>6. Caller' = Caller
  BY <1>1 DEF Caller
<1> HIDE DEF task, rest
<1>7. Work = <<task>> \o rest
  BY <1>3, <1>4
<1>8. Work # <<>> /\ Head(Work) = task /\ Tail(Work) = rest
  BY <1>3, <1>7, HeadOfWork
<1>9. QED
  BY <1>1, <1>5, <1>6, <1>8 DEF Order!Type

LEMMA ThreadReturnsRefines == ThreadReturns => UNCHANGED Order!orderVars
  BY DEF ThreadReturns, Order!orderVars, Work, PendingWork, Caller

LEMMA StepRefines == RenderInv /\ [RenderNext]_renderVars => [Order!OrderNext]_(Order!orderVars)
<1> SUFFICES ASSUME RenderInv, [RenderNext]_renderVars
             PROVE  [Order!OrderNext]_(Order!orderVars)
  OBVIOUS
<1>1. CASE UNCHANGED renderVars
  BY <1>1 DEF renderVars, Order!orderVars, Work, PendingWork, Caller
<1>2. CASE RenderThread
  BY <1>2, TakeRefines, RunRefines, ThreadReturnsRefines DEF RenderThread, Order!OrderNext
<1>3. CASE \E kind \in {"sync", "read"} : Call(kind)
  BY <1>3, CallRefines DEF Order!OrderNext, Order!Kinds
<1>4. CASE Publish \/ Post
  BY <1>4, PublishRefines, PostRefines DEF Order!OrderNext, Order!Kinds
<1>5. CASE CallReturns \/ Close \/ CloseEnds
  BY <1>5, CallReturnsRefines, CloseRefines, CloseEndsRefines DEF Order!OrderNext
<1>6. QED
  BY <1>1, <1>2, <1>3, <1>4, <1>5 DEF RenderNext

\* Whatever its thread does in between, the proxy types operations one at a time
\* in the order in which they were accepted, answers a barrier when everything
\* before it is typed, and leaves out tentative texts only: the part of
\* KeepsTypingOrder without its fairness.
THEOREM RenderImplementsOrder ==
    RenderSpec => Order!OrderInit /\ [][Order!OrderNext]_(Order!orderVars)
<1>1. RenderInit => Order!OrderInit
  <2> SUFFICES ASSUME RenderInit PROVE Order!OrderInit
    OBVIOUS
  <2>1. PendingWork = <<>> /\ busy = <<>> /\ jobs = <<>>
    BY DEF RenderInit, PendingWork
  <2>2. <<>> \o <<>> = <<>>
    BY EmptySeq, ConcatEmptySeq
  <2>3. Work = <<>>
    BY <2>1, <2>2, Zenon DEF Work
  <2>4. QED
    BY <2>3 DEF RenderInit, Order!OrderInit, Caller
<1>2. QED
  BY <1>1, RenderInvariance, StepRefines, PTL DEF RenderSpec
=============================================================================
