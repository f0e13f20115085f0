---------------------------- MODULE AudioCapture ----------------------------
(***************************************************************************)
(* The microphone of wldictate/audio.py and its owner, the _CaptureManager *)
(* of wldictate/worker.py.                                                 *)
(*                                                                         *)
(* PortAudio's thread runs _callback, one chunk of ChunkLen samples at a   *)
(* time; the session thread acquires the capture, takes frames out of the  *)
(* bounded queue and releases it.  The two meet in the queue and in the    *)
(* counter of dropped chunks, and every queue operation is a step of its   *)
(* own.  With persistent_capture the stream stays open, and the queue runs *)
(* full, while no session is on.  Chunks are numbered as they are captured.*)
(***************************************************************************)
EXTENDS Integers, Sequences, Resampler

CONSTANTS
    Rates,         \* the rates a device may open at
    QueueChunks,   \* _queue_chunks(rate)
    ChunkLen,      \* blocksize, in samples
    FrameLen,      \* FRAME_SAMPLES
    CaptureLimit,  \* bound of the model: chunks captured per stream
    StreamLimit    \* bound of the model: streams opened

ASSUME AudioAssumption ==
    /\ Rates \subseteq Rate
    /\ QueueChunks \in Nat \ {0} /\ ChunkLen \in Nat \ {0} /\ FrameLen \in Nat \ {0}
    /\ CaptureLimit \in Nat /\ StreamLimit \in Nat

VARIABLES
    persistent, \* audio.persistent_capture
    open,       \* the manager holds an active capture
    queue,      \* _queue
    dropped,    \* _dropped
    resampler,  \* _resampler
    pending,    \* Len(_pending), in samples
    hand,       \* the chunk _callback holds
    callback,   \* where _callback is: "idle", "full", "counted", "room"
    session,    \* where the session thread is
    batch,      \* chunks get_frames() has taken out of the queue
    \* history, read by the properties only
    captured,   \* chunks captured by this stream
    fetched,    \* chunks get_frames() took, and
    flushed,    \* chunks flush() discarded
    lost,       \* chunks lost to a full queue
    reported,   \* drops told to, or discarded by, the session thread
    staleUpTo,  \* the last chunk captured when flush() had emptied the queue
    delivered,  \* the last chunk delivered
    inOrder,    \* every chunk delivered was newer than the one before
    frames,     \* frames yielded
    streams     \* streams opened

deviceVars == <<queue, dropped, hand, callback, captured, lost>>
sessionVars == <<open, resampler, pending, session, batch, fetched, flushed, reported,
                 staleUpTo, delivered, inOrder, frames, streams>>
audioVars == <<persistent, deviceVars, sessionVars>>

AudioInit ==
    /\ persistent \in BOOLEAN
    /\ open = FALSE
    /\ queue = <<>> /\ dropped = 0
    /\ resampler \in {Fresh(rate) : rate \in Rates}
    /\ pending = 0
    /\ hand = 0 /\ callback = "idle"
    /\ session = "off" /\ batch = <<>>
    /\ captured = 0 /\ fetched = 0 /\ flushed = 0 /\ lost = 0 /\ reported = 0
    /\ staleUpTo = 0 /\ delivered = 0 /\ inOrder = TRUE
    /\ frames = 0 /\ streams = 0

-----------------------------------------------------------------------------
(* _callback, on PortAudio's thread.                                       *)

\* _queue is first in, first out, and bounded.
LastInFirstOut(q, chunk) == <<chunk>> \o q
Enqueued(q, chunk) == Append(q, chunk)

AlwaysRoom == TRUE
HasRoom == Len(queue) < QueueChunks

\* put_nowait of a new chunk; a full queue refuses it.
Capture ==
    /\ open /\ callback = "idle"
    /\ captured < CaptureLimit
    /\ captured' = captured + 1
    /\ IF HasRoom
       THEN queue' = Enqueued(queue, captured + 1) /\ UNCHANGED <<hand, callback>>
       ELSE hand' = captured + 1 /\ callback' = "full" /\ UNCHANGED queue
    /\ UNCHANGED <<dropped, lost, sessionVars>>

\* The drop is counted, under the lock.
CountDrop ==
    /\ callback = "full"
    /\ dropped' = dropped + 1
    /\ callback' = "counted"
    /\ UNCHANGED <<queue, hand, captured, lost, sessionVars>>

\* get_nowait drops the oldest chunk.  If the session thread has drained the
\* queue since it was full, there is none, and the new chunk is given up.
MakeRoom ==
    /\ callback = "counted"
    /\ lost' = lost + 1
    /\ IF queue = <<>>
       THEN callback' = "idle" /\ hand' = 0 /\ UNCHANGED queue
       ELSE callback' = "room" /\ queue' = Tail(queue) /\ UNCHANGED hand
    /\ UNCHANGED <<dropped, captured, sessionVars>>

\* The second put_nowait.  It finds room, nobody else puts anything in: the
\* bound of AudioTypeOK says so.
PutAgain ==
    /\ callback = "room"
    /\ queue' = Enqueued(queue, hand)
    /\ callback' = "idle" /\ hand' = 0
    /\ UNCHANGED <<dropped, captured, lost, sessionVars>>

Callback == Capture \/ CountDrop \/ MakeRoom \/ PutAgain

-----------------------------------------------------------------------------
(* The session thread.                                                     *)

\* AudioCapture.start: the first rate the device accepts, a new queue.
Open(rate) ==
    /\ streams < StreamLimit
    /\ streams' = streams + 1
    /\ open' = TRUE
    /\ queue' = <<>> /\ dropped' = 0 /\ hand' = 0 /\ callback' = "idle"
    /\ resampler' = Fresh(rate) /\ pending' = 0 /\ batch' = <<>>
    /\ captured' = 0 /\ fetched' = 0 /\ flushed' = 0 /\ lost' = 0 /\ reported' = 0
    /\ staleUpTo' = 0 /\ delivered' = 0 /\ inOrder' = TRUE /\ frames' = 0

\* The worker opens a persistent microphone before the first session.
PreOpen ==
    /\ persistent /\ streams = 0
    /\ session = "off" /\ session' = "off"
    /\ \E rate \in Rates : Open(rate)

\* _CaptureManager.acquire with no active capture, or one of another device,
\* which is closed first.  The device may not open: the session fails.
AcquireFresh ==
    /\ session = "off" /\ callback = "idle"
    /\ \/ session' = "on" /\ \E rate \in Rates : Open(rate)
       \/ /\ open' = FALSE
          /\ UNCHANGED <<deviceVars, resampler, pending, session, batch, fetched, flushed,
                         reported, staleUpTo, delivered, inOrder, frames, streams>>

\* _CaptureManager.acquire of the capture it has: flush() what came while idle.
AcquireAgain ==
    /\ session = "off" /\ open
    /\ session' = "flushing"
    /\ UNCHANGED <<deviceVars, open, resampler, pending, batch, fetched, flushed, reported,
                   staleUpTo, delivered, inOrder, frames, streams>>

FlushOne ==
    /\ session = "flushing" /\ queue # <<>>
    /\ queue' = Tail(queue)
    /\ flushed' = flushed + 1
    /\ UNCHANGED <<dropped, hand, callback, captured, lost, open, resampler, pending, session,
                   batch, fetched, reported, staleUpTo, delivered, inOrder, frames, streams>>

\* flush() goes on until the queue is empty.
FlushesOnce == flushed > 0 \/ queue = <<>>
FlushesAll == queue = <<>>

\* The queue is empty: flush() drops the remainder of a frame.
FlushEmpty ==
    /\ session = "flushing" /\ FlushesAll
    /\ pending' = 0
    /\ staleUpTo' = captured
    /\ session' = "flushed"
    /\ UNCHANGED <<deviceVars, open, resampler, batch, fetched, flushed, reported,
                   delivered, inOrder, frames, streams>>

\* take_dropped(), in flush() and after each batch of frames: the counter's
\* value, read and reset under the lock.
ReadAfterReset == 0
ReadAndReset == dropped

TakeDropped ==
    /\ session \in {"flushed", "served"}
    /\ session' = "on"
    /\ reported' = reported + ReadAndReset
    /\ dropped' = 0
    /\ UNCHANGED <<queue, hand, callback, captured, lost, open, resampler, pending, batch,
                   fetched, flushed, staleUpTo, delivered, inOrder, frames, streams>>

\* get_frames(): wait for a chunk, in vain or not, ...
GetFrames ==
    /\ session = "on"
    /\ \/ /\ queue = <<>>
          /\ session' = "served"
          /\ UNCHANGED <<queue, batch, fetched>>
       \/ /\ queue # <<>>
          /\ session' = "draining"
          /\ queue' = Tail(queue)
          /\ batch' = <<Head(queue)>>
          /\ fetched' = fetched + 1
    /\ UNCHANGED <<dropped, hand, callback, captured, lost, open, resampler, pending, flushed,
                   reported, staleUpTo, delivered, inOrder, frames, streams>>

\* ... drain whatever else is there, ...
GetMore ==
    /\ session = "draining"
    /\ \/ /\ queue # <<>>
          /\ queue' = Tail(queue)
          /\ batch' = Append(batch, Head(queue))
          /\ fetched' = fetched + 1
          /\ UNCHANGED session
       \/ /\ queue = <<>>
          /\ session' = "delivering"
          /\ UNCHANGED <<queue, batch, fetched>>
    /\ UNCHANGED <<dropped, hand, callback, captured, lost, open, resampler, pending, flushed,
                   reported, staleUpTo, delivered, inOrder, frames, streams>>

\* ... and resample each chunk and cut it into frames; what is left of the
\* last frame waits for the next chunk.
RemainderDropped(samples) == 0
Remainder(samples) == samples % FrameLen

Deliver ==
    /\ session = "delivering"
    /\ LET r == Resampled(resampler, ChunkLen)
           samples == pending + r.made - resampler.made
       IN  /\ resampler' = r
           /\ frames' = frames + samples \div FrameLen
           /\ pending' = Remainder(samples)
    /\ delivered' = Head(batch)
    /\ inOrder' = (inOrder /\ Head(batch) > delivered)
    /\ batch' = Tail(batch)
    /\ session' = IF Len(batch) = 1 THEN "served" ELSE "delivering"
    /\ UNCHANGED <<deviceVars, open, fetched, flushed, reported, staleUpTo, streams>>

\* stop() waits for a callback that is running.
Close ==
    /\ callback = "idle"
    /\ open' = FALSE
    /\ session' = "off"
    /\ batch' = <<>>
    /\ UNCHANGED <<deviceVars, resampler, pending, fetched, flushed, reported, staleUpTo,
                   delivered, inOrder, frames, streams>>

\* _CaptureManager.release at the end of a session.
Release ==
    /\ session = "on"
    /\ IF persistent
       THEN /\ session' = "off"
            /\ UNCHANGED <<deviceVars, open, resampler, pending, batch, fetched, flushed,
                           reported, staleUpTo, delivered, inOrder, frames, streams>>
       ELSE Close

\* _CaptureManager.invalidate: the session failed, wherever it was.
Invalidate == session \in {"on", "delivering", "served"} /\ Close

SessionThread ==
    \/ PreOpen \/ AcquireFresh \/ AcquireAgain
    \/ FlushOne \/ FlushEmpty \/ TakeDropped
    \/ GetFrames \/ GetMore \/ Deliver
    \/ Release \/ Invalidate

AudioNext == (Callback \/ SessionThread) /\ UNCHANGED persistent

AudioSpec == AudioInit /\ [][AudioNext]_audioVars

-----------------------------------------------------------------------------
(* Properties.                                                             *)

\* Types; the queue is bounded, and less than a frame is left over.
AudioTypeOK ==
    /\ persistent \in BOOLEAN
    /\ open \in BOOLEAN
    /\ queue \in Seq(1..captured) /\ Len(queue) <= QueueChunks
    /\ dropped \in Nat
    /\ resampler \in Resampler
    /\ pending \in 0..(FrameLen - 1)
    /\ hand \in 0..captured
    /\ callback \in {"idle", "full", "counted", "room"}
    /\ session \in {"off", "flushing", "flushed", "on", "draining", "delivering", "served"}
    /\ batch \in Seq(1..captured)
    /\ captured \in 0..CaptureLimit
    /\ fetched \in Nat /\ flushed \in Nat /\ lost \in Nat /\ reported \in Nat
    /\ staleUpTo \in 0..captured
    /\ delivered \in 0..captured
    /\ inOrder \in BOOLEAN
    /\ frames \in Nat
    /\ streams \in 0..StreamLimit

\* Every chunk captured is accounted for, and the drop counter tells the truth
\* whatever the session thread does in the middle of a callback: each overrun
\* loses exactly one chunk, and is reported exactly once.
LossesCounted ==
    /\ captured = fetched + flushed + lost + Len(queue)
                  + (IF callback = "idle" THEN 0 ELSE 1)
    /\ dropped + reported = lost + (IF callback = "counted" THEN 1 ELSE 0)

\* Drops make gaps but never disorder: chunks are delivered oldest first.
ChunksInOrder == inOrder

\* "While dictation is off, captured audio is discarded immediately and never
\* transcribed": what a session is given was captured after flush() found the
\* queue empty, save the one chunk the callback had in hand at that moment.
NoStaleAudio ==
    session = "delivering" => Head(batch) >= staleUpTo

\* The two together: what a session is given is from this session, in order.
FreshAndInOrder == ChunksInOrder /\ NoStaleAudio

\* The samples keep their place in the stream, and none is lost between the
\* resampler and the frames: what was produced since the stream's start is in
\* frames, in the remainder or was discarded by a flush.
SamplesKeptInPlace ==
    /\ OnGrid(resampler)
    /\ NoBacklog(resampler)
    /\ (flushed = 0 /\ staleUpTo = 0) => resampler.made = frames * FrameLen + pending
=============================================================================
