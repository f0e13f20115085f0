# wl-dictate in TLA+

Models, model-checking configurations and proofs about wl-dictate, a push-to-talk
dictation program for Wayland: a tray application controls a worker process that
listens to the microphone, decodes speech while the user talks, types the words
into the focused window, corrects them in place, and may have a language model
rewrite a finished utterance.

All names below are those of the Python source (`wldictate/`) or of the modules
beside this file. `PROJECT.json` has the exact lines every definition stands for.

## 1. The system

```
 tray.py (Qt thread)                 worker.py process
 +-------------------+   stdin   +---------------------------------------------+
 | handlers, timers  |---------->| run(): command loop                         |
 | _events           |<----------|   session thread: _run_session              |
 | _WorkerMonitor    |  stdout,  |     AudioCapture <- PortAudio callback      |
 +-------------------+  exit     |     VadGate -> StreamingSession             |
                                 |                  decode thread              |
                                 |     TransformCoordinator                    |
                                 |                  transform thread           |
                                 |     RenderProxy -> CorrectingEmitter        |
                                 |                  render thread -> device    |
                                 +---------------------------------------------+
```

| Component | State | Operations | What makes it hard | What makes it correct |
|---|---|---|---|---|
| Gate (`vad.py`) | in speech, two run counters, pre-roll ring, announcement flag | `process`, `flush` | counters and flags that outlive an utterance; rollover at the length cap | no onset clipped, no frame lost or twice, announced ends are real, length bounded |
| Engine (`streaming.py`) | buffer, committed words, previous hypothesis, in-flight and speculative futures | `start_utterance`, `feed`, `tick`, `speculate_final`, `cancel_speculation`, `finalize` | decodes that answer late, fail or hang; buffer cut while decodes are out | the text is what was said, in order, once; no result crosses utterances; `finalize` returns |
| Session loop (`worker.py`) | gate, engine, capture, chunks of a long message | one batch of frames after another; flush at stop | order of the calls for one frame | gate and engine agree; every utterance is finalized |
| Capture (`audio.py`, `_CaptureManager`) | bounded queue, drop counter, resampler, remainder of a frame | `_callback`, `get_frames`, `flush`, `take_dropped`, acquire, release, invalidate | callback and consumer interleave inside the drop-oldest path; persistent stream between sessions | drops counted, order kept, nothing stale, samples in place |
| Worker (`worker.py` `run`) | command queue, `stop_event`, session thread, the pools of its sessions | start, stop, quit, end of stdin, exit | join timeouts; an event shared by successive sessions; pools that the exit waits for | one session, of the mode asked for; no worker without a parent, but one that waits for a pool |
| Tray (`tray.py`) | process, mode, `_hold_session`, restart flags, `_events` | toggle, hold, idle stop, exit event, restart, cleanup | exits seen late, workers that die between two steps | off is quiet, one worker, dead workers replaced |
| Render thread (`render.py`) | newest pending text, jobs | `publish`, barriers, posts, `close` | hand-over under a condition variable | order of typing, barriers wait, nothing lost |
| Emitter (`emitter.py`) | region of this utterance and of the previous one, frozen flag | `begin_utterance`, `merge_previous`, `sync`, `reset_regions` | a device that fails half way | knows the screen, never touches settled text |
| Coordinator (`transform.py`) | stream or future in flight, prefetched context, generation, one-thread pool, history | `prefetch`, `submit`, `cancel_pending`, `poll`, `drain` | replies that come late, in parts, fail, revise or span a chain; a context captured for another utterance | the user's words stay, once, no reply reaches the next utterance, and each transform sees its own context |
| Devices (`emitter.py`, `vkbd.py`) | wtype and virtual-keyboard state, clipboard timer, LRU of dynamic keys | `rewrite`, `rewrite_bulk`, `press_key` | fallback after partial delivery; keymap and key events in flight | the keys sent are the text |
| Focus tracker (`hypr.py`) | cached window, connected flag | event loop, reconnect, `close` | reconnects; cache before first refresh | a trusted cache is the focused window |
| Formatter (`textproc.py`), commands (`commands.py`) | the last eight characters typed, whether the utterance had output | `peek`, `format_delta`, `end_utterance`, `reseed`; "scratch that", "literally", ... | deltas against whole texts; commands and replies that change what ends the screen | one space between words, none twice; the formatter knows how the screen ends |
| Configuration (`config.py`) | `config.json`, a temporary file, a legacy file, a copy in the tray and one in the worker | load, migrate, validate, save | two processes that load at different times, save the whole file and may be killed in it | valid values only; no setting lost; the microphone that was chosen |
| Hardware (`hardware.py`, `transcriber.py` `load`) | none | probe, choose a Whisper model and a profile, load | tables, fall-backs of fall-backs | what is chosen runs on the machine |
| Toggle client, notifications, entry points | none | send one line | - | - |

The components meet as follows. The tray writes commands to the worker's stdin and queues its exit;
tray and worker each load the configuration file when they start, and the tray writes its copy back
when the microphone changes; the session thread calls gate and engine one after the other, takes
audio from a queue the callback fills, submits decodes and transforms to one thread each and polls
their futures, and hands all typing to the render thread.

## 2. The modules

| Module | Models | Composes |
|---|---|---|
| `VadGate` | `VadGate` of `vad.py` | |
| `StreamingSession` | `StreamingSession` of `streaming.py` and its decode thread | |
| `Dictation` | the frame loop of `_run_session` | `VadGate`, `StreamingSession` |
| `Resampler` | positions in the three resamplers of `audio.py` | |
| `AudioCapture` | `AudioCapture` and `_CaptureManager` | `Resampler` |
| `WorkerProcess` | `run()` of `worker.py`, any number of processes | |
| `Tray` | the handlers of `tray.py` | `WorkerProcess` |
| `TypingOrder` | abstract: what the render thread promises | |
| `RenderProxy` | `render.py` | implements `TypingOrder` |
| `CorrectingEmitter` | `CorrectingEmitter`, as operators on a record | |
| `Output` | final texts, voice commands, `TransformCoordinator`, typing | `CorrectingEmitter` |
| `VirtualKeyboard` | `WaylandVirtualKeyboard` of `vkbd.py`, as operators on a record | |
| `FocusTracker` | the event loop of `hypr.py` | |
| `TypingDevice` | `WtypeEmitter`, `focused_window`, the connection cache | `VirtualKeyboard`, `FocusTracker` |
| `TextFormatter` | `clean_text`, `TextFormatter`, and everything that formats or reseeds: engine, commands, replies | |
| `Hardware` | the choices of `hardware.py` and `load()` of `transcriber.py`, as operators | |
| `Settings` | `config.py` between user, tray, worker, devices and machine | `Hardware` |
| `DictationProofs`, `AudioCaptureProofs`, `RenderProxyProofs`, `TrayProofs`, `OutputProofs`, `TypingDeviceProofs`, `TextFormatterProofs`, `SettingsProofs` | theorems | |
| `MC*` | constants for TLC | |

How state and actions correspond to the code:

* **VadGate.** One variable per field; `Process(p)` is `process()` with the frame's
  probability abstracted to below offset, between the thresholds, or above onset,
  the only three classes the code tells apart. Frames are numbered.
* **StreamingSession.** `u` is what `_reset_utterance_state()` resets. A decode returns
  the words of its window with their end positions; it may mishear the last word, fail,
  or outlast the caller's patience. `finalize()` waits, so it is one action per wait:
  `Finalize`, `DrainWait`, `SpeculativeWait`, `FreshWait`. `faults` marks the two ways an
  utterance is damaged by the code itself (section 5), so that everything else can be
  asked of the other utterances.
* **Dictation.** `NextFrame` puts a frame through the gate and lists the engine calls
  its result asks for, in the order of the loop's body; each call is a step, between
  which decodes run.
* **AudioCapture.** Every queue operation is a step of its own on both sides: the
  callback's refused put, its count, its get and its second put; the consumer's
  get, drain, resample and take_dropped.
* **WorkerProcess, Tray.** A worker is a record; the tray's handlers are functions from
  one state of tray and workers to the next, since a handler runs to its end on the Qt
  thread. A worker may die between `poll()` and the write, in `StartDictation`. Sessions may
  fail (`SessionFails`), be refused for want of a transformer, or outlast their join: the worker
  then goes on without them (`GivenUp`, `left`). A worker that quits is "exiting" until the
  pools of decodes and transforms are idle (`PoolsBusy`), since their threads are joined at the exit of the
  interpreter and those of the sessions are not. `failed` and `left` are history, for the properties. `attempts`
  is `_restart_attempts`: the delay is a float power of it, and `LastExponent` is the last
  attempt for which that power exists.
* **RenderProxy.** Operations are numbered. `busy` is what the thread holds outside the
  lock. The refinement maps the work still to be typed to: in hand, then the pending
  publish, then the jobs.
* **CorrectingEmitter, Output.** A text is a sequence of tokens that say which
  utterances' words they are. `screen` is what the device made of it and `settled` the
  part no region holds any more. A barrier call is one step of `Output`, since its
  caller waits (which is what `KeepsTypingOrder` is for); a published text is rendered by a
  step of its own. The coordinator's pool is a queue of tasks that run one at a time:
  `Prefetch` and the transforms; `generation` says which utterance a captured context is
  for. A task that cannot be cancelled any more goes on in the pool and holds up the next.
  A reply may be new, the same, or a revision, whose marker is seen at once or not before a thought has
  ended; or nothing but that marker (`EmptyRevision`), which is dropped, or stays where it was shown.
* **TextFormatter.** A text is a sequence of characters, one per class that a rule of
  `textproc.py` tells apart. `clean_text` is the composition of its substitutions, each an
  operator on sequences that says which positions go or get a space. `settled`, `previous`
  and `region` are what is on the screen; `tail` is what the formatter believes. `astray`
  marks the ways in which the code itself makes it lose sight (section 5).
* **Settings, Hardware.** A file is absent, torn, or holds the fields that a rule or a choice reads.
  `save()` is three steps, between which its process or the other one may go on or be killed. Each
  process keeps the device list of its start, as PortAudio does, so an index means different devices
  in tray and worker. The tables of `hardware.py` are constants of the module, in the code's
  numbers. `Loaded` is `load()` with its retry on the CPU; a target may refuse the model for what
  the machine is, and any load may fail for want of the model or of memory. With no microphone
  chosen the worker opens the system's default before the first session.

* **VirtualKeyboard, TypingDevice.** The keyboard's queue holds key and keymap requests; a flush may
  end after any of them, noticed by the sender or not. A call of the device is a step per key, per
  method (`EndSegment`) and per program; `landed` is what the window has got of the call, read
  through the keymap in force when the key arrived. The clipboard timer runs beside the next calls.
  The clipboard holds the texts of calls, the user's own contents, or what `_read_clipboard()` makes
  of those if they are no text (`Garbled`); a `wl-copy` may fail before or after it took the
  clipboard. `Output` stays with its own, coarser device (a rewrite that succeeds or breaks off
  anywhere), which `TypesWhatItIsAsked` justifies: a prefix of the rewrite has landed, and a rewrite
  answered as typed has landed in full unless the compositor went away unnoticed.
* **FocusTracker.** The thread is one step per system call, the compositor's events a
  queue. In `TypingDevice` its steps are taken where the device reads the cache, since
  they commute with every other step of a call.

## 3. The runs

| Run | Question | Bounds |
|---|---|---|
| `dictation` | gate, engine and decode thread together: are utterances whole, announced soundly and bounded, and is the text what was said? | onset 2, silence 3, announcement 1, pre-roll 3, cap 6, 9 frames, speech of 2 at least, trim above 3: a trim, a resumption after the announcement, a rollover, a pre-roll longer than the onset run, a skipped utterance and a second utterance all occur |
| `audio` | callback against consumer | queue of 2, 6 chunks, 2 streams, rates 3, 3/2 and 1/2 input samples per output sample, chunks of 4, frames of 3: overruns at every point of the consumer, remainders and phases of every size |
| `control` | tray against workers | 2 commands, 2 deaths, so up to 5 worker processes, idle stops at any time; `LastExponent` 0 brings the end of the restart delay (attempt 1024 of the code) within reach |
| `render` | does the proxy implement `TypingOrder`? | 8 operations of either mode |
| `output` | what is on the screen in the end? | 3 utterances or chunks, one device failure, live cap 3 tokens (reached by "scratch that" over two utterances), transform cap out of reach, texts and replies of 2 tokens |
| `device` | does what was asked for reach the window, and the clipboard its owner? | 2 calls, 2 faults, 2 codes for 3 exotic characters, texts that evict a code while keys with it are queued, rewrites that only delete, keys paced or not; 2 changes of focus or breaks of its link |
| `text` | how is the text spaced, and does the formatter know it? | 3 utterances with 4 tokens between them, of 8 kinds; all commands and 2 replies after each: three regions of the screen are filled at once, and an utterance may have all four tokens |
| `settings` | do settings survive, and do tray and worker agree on device, model and profile? | 4 machines (with a GPU, with one that loads no model, without, and without and `WL_DICTATE_NO_AUTOSELECT` set), 3 files a user may write, one of them torn, a legacy file, 2 device lists that share a name at another index, 1 edit, 1 replug: one change between any two steps is what a process can be stale by |
| `dictation_dupes`, `tray_orphan`, `chain`, `text_stranded` | statements of the repository that the code does not keep (section 5) | as above |

A liveness property needs fairness, assumed only where something in the code makes
the step happen:

* `CallsReturn`: every wait of `finalize()` has a timeout, and the
  loop is sequential code that goes on; nothing is assumed of decodes.
* `WorkerComesBack`, `QuitLeavesNoWorker`: Qt delivers queued events and armed timers, a monitor's
  `wait()` returns when its process is dead, the operating system closes the pipes of a dead
  process, and the worker's command loop goes on, its join bounded by `session_join_timeout()`, and
  its exit is made once no pool is busy. Nothing is assumed of users, sessions, decodes, transforms
  or crashes, so a worker may wait at its exit for ever: `QuitLeavesNoWorker` excepts just that.
* `KeepsTypingOrder` includes the fairness of `TypingOrder`: the render thread runs,
  the event of a job wakes its caller, `close()` waits ten seconds at most.

The other modules state safety only. Deadlock is checked in `dictation`, `audio`, `text` and
`settings`, where the system goes on for ever or says with a `Done` where it ends. In the others a
session, a tray or a proxy that was closed has nothing left to do, or the bounds on users
and devices are used up.

What the passing runs show, in short:

* Audio becomes text exactly once. From the microphone's callback to the final words,
  chunks that are lost are counted, chunks that are delivered are fresh and in order,
  samples keep their place, the gate hands out every frame of an utterance once, and an
  utterance decoded to its end becomes exactly its words, whichever of its decodes
  supplied them, except in the two cases of section 5.
* The icon tells the truth, with exceptions that the property names. While the tray shows dictation
  as off, a worker that has done all it was told to has no session, whatever crashed; while it
  shows a mode, the tray's worker has one session, and no other, that listens in this mode. The icon
  stays on with nothing listening after a session failed or could not begin, which the tray is not told
  (`worker.py:325`, `worker.py:452`, `tray.py:494`), and for as long as the exit of a worker is unhandled that
  the restart timer has already replaced. Outside are workers that a stale exit event made the
  tray forget and sessions that the worker gave up on after its join timed out.
* A worker that dies comes back, up to the end of the restart delay. When the tray is gone every
  worker ends, or is on its way out and waits for a decode or transform that does not return.
* The render thread is invisible: with its pending slot, queue and condition variable
  it implements one queue in the order of acceptance.
* The screen is right. Under hypotheses, commands, transforms, cancellations and a broken device the
  emitter knows the screen or knows that it does not, settled text is never touched, no reply
  reaches the next utterance, no half reply stays, and the user's words are there once, except where
  a chain wipes out more than itself or a reply of the marker alone took their place. A transform is
  given the context of the utterance it belongs to, or none.
* What the device is asked to type is what the window gets, or a beginning of it: no
  retry types a key twice, and no character is typed with the code of another. After a
  paste the user's clipboard comes back as text, unless it could not be read, `wl-copy` failed at
  the wrong moment, or another paste or copy came before the timer.
* Text is spaced as text, through commits, renderings, trailers, commands, escapes and
  replies, and piece by piece as it would have been at once.
* Settings survive whatever is killed while it saves. What they do not survive is
  named in the property: a tray that writes back the copy it loaded before the user's edit, and
  two processes that migrate at once (section 5). A session listens to a microphone of
  the name the tray sent, wherever its index went. A model that does not load on the GPU
  is tried on the CPU, with a compute type that a CPU has: the worker gives up only once the CPU
  refused it. A profile that does not fit is replaced by the largest that does.

## 4. The proofs

TLC covers the small instances above; the theorems hold for every value of the
constants that meets the assumptions of the modules: `GateAssumption`, `SessionAssumption`,
`AudioAssumption` (what the constructors clamp or validate), `SettingsAssumption` (the shape of
tables and files) and, for the rest, that bounds are numbers and that a name for "none" names
nothing else (`RenderAssumption`, `TrayAssumption`, `OffIsNoMode`, `OutputAssumption`,
`KeyAssumption`, `FocusAssumption`, `DeviceAssumption`). Every argument is an inductive
invariant, with a lemma for each action; what follows says what the invariants add to the
properties, which is where the difficulty lies.

* **`DictationProofs`, the gate.** Each property of the gate, from one inductive invariant
  `GateInv`. The properties are not inductive: that an onset is whole needs
  `RingIsRecent` (the ring holds the frames that end now) and `RunInRing` (the onset run
  lies inside the ring or the ring is full); that an announced end covers the speech
  needs `SilenceIsReal` (the silence counter counts frames after the last voiced one);
  that every end was announced needs `AnnouncedInTime`. There is a lemma per branch of
  `process()`. `DeliveredInOrder` is an action property and follows from the same
  invariant. `EndsBySilenceOrCap` joins the three that say how an utterance ends
  (`UtterancesEndRight`).
* **`DictationProofs`, gate and engine.** The session loop implements `GateSpec` (`LoopIsGate`: every
  step is a step of the gate or leaves it alone), so what is proved of the gate holds in a session
  (`SessionGate`). `SessionKeepsInStep` is `GateAndEngineAgree`, for any thresholds and whatever the
  decodes do. Between two frames it is a plain equation, but it is not inductive: in the middle
  of a frame the two differ, and by how much depends on the calls still to be made. `Between`
  says so for each kind of rest of the calls: only quiet ones, with gate and engine together;
  some that lead to "finalize", with the gate idle; some that lead to "start", with the
  gate at the first frame of a new utterance; or "feed" first, with exactly the frames of
  the result missing (`FeedIsDue`). `LeadOn` shows that making a call leaves a rest of the same
  kind, `CallsOfFrame` which kind a result begins with; the pre-roll handed out at an
  onset is recent by `RingIsRecent` of `GateInv`.
* **`DictationProofs`, the words.** `EngineTypes`, `CommittedWordsStayAligned` and
  `NothingSaidIsLost`, for sessions of any length, any lengths of buffer and utterance, any number
  of cuts, and decodes that mishear, fail or time out wherever they like. First the data: `Picked`
  enumerates the chosen places of a sequence in order (`Enumerates`, `Joins`), so what was said in a
  buffer is what was said in its parts, and each operation of an utterance keeps it `Sound`
  (`AppliedMeans`, `SkippedMeans`, `FinalTextMeans`): `committed` and `prev_norm` list the words of
  the buffer from its first on (`Aligned`, `Decoded`), what is trimmed is what was said before the
  buffer (`Typed`), and the screen shows both (`Shows`). `AppliedMeans` has the hard case,
  `_maybe_trim`: the cut is at the end of a word, so it drops as many elements of `committed` and
  `prev_norm` as it takes words off the buffer. Then the control, in `EngineInv`. `PhaseInv`: in
  each phase of `finalize()` who still has a future, and which tasks of the pool are its own.
  `TextInv`: the open utterance is sound, `fed` is some beginning followed by the buffer, and the
  audio of the decode in flight is a beginning of the buffer, as long as `decodedLen`. `FreshInv`:
  the decode that `finalize()` submits is of the whole buffer. `CallsInv` and `SpecInv`: a
  speculation that the calls still due for this frame will not withdraw has everything that was
  said; it rests on `SpeculationCoversSpeech` of the gate and is why the session loop must cancel
  before it feeds on. The decode of an utterance with a fault of section 5 is excepted, as in the
  properties. The two words of a decode that may be wrong, a last one misheard or missing, are
  `Hypotheses`; a final decode is right, which is the model's assumption about Whisper.
* **`AudioCaptureProofs`.** For a rational rate and a chunk of any length, `Interpolate` and
  `Decimate` of `Resampler` keep the next output on the grid and hold nothing back
  (`ResampledSound`). The argument is linear arithmetic once the quotient and remainder of the
  division are named (`DivMod`) and products are distributed by lemma. Then type correctness with the
  queue's bound, the accounting of drops, order and freshness (`FreshAndInOrder`), and the places of
  samples, from `CaptureInv`. The bound on the queue is
  not inductive: the callback puts its chunk without a check after making room two steps
  earlier, so the invariant has that the queue is short of full while the callback is
  there. Order needs that what was captured last is newest in the hand, then in the
  queue, then in the batch, then what was delivered (`Ordered`).
* **`RenderProxyProofs`.** `RenderInv` joins the types to `InOrder` (the jobs are numbered in the order of
  acceptance, a pending publish is older than every job after it, and what the thread holds is
  older than both) and `Closing` (once closed, nothing is pending that the thread has not taken).
  From it `TypedOrReplaced`, by an account of every operation (`Accounted`), and the safety half of the
  refinement: under `PendingWork` each step of the proxy is a step of `TypingOrder` or a
  stutter (`RenderImplementsOrder`).
* **`TrayProofs`.** `ControlInv` has the types of tray and workers, what is always so of a worker
  (`WorkersInv`) and of the tray (`TrayInv`). That the icon is true comes down to what a worker will have
  done once it has read all its commands (`Follows`): a start in the queue after which no stop
  comes is the session the tray shows (`StartsAfterStop`, `OneSession`). A session it began listens and will not
  stop unless it failed (`OnAir`), and a worker put in the place of a dead one, whose exit is still to
  come, has been told nothing (`Fresh`). Each handler is shown
  to keep three things of the state it works on, whatever it goes through in between (`Continues`, `Told`,
  `Sound`), since a handler changes tray and worker more than once.
* **`OutputProofs`.** `OutputInv` joins `TypingInv` (screen, settled text and regions agree, and a text still to
  be rendered belongs to the open utterance), `HistoryInv` (what is owed, stranded or excused is of an
  utterance that has begun) and `PoolInv` (every task in the pool is of a known generation, and the
  captured context is of the generation it says). The emitter's operators are shown to keep
  `EmitterOK` for every text, cap and failure: `Begun`, `Merged`, `Disowned`, `Synced`. `PoolInv` is what
  `ContextIsOfThisUtterance` needs: the thread may still be at work for an utterance long
  gone, and only the generation tells.
* **`OutputProofs`, what is on the screen.** `WordsStay` and `ReplacesWhole` speak of moments of
  rest only; `SoundInv` says what holds at all others while no device failed and no session was cut
  (`Sound`): `Listening` while the user speaks, `ToShow` when nothing is in flight (what is needed
  is on the screen or in the text still to be rendered), `Untouched` and `HalfWay` for a transform
  that has not and has begun to type: then `restore` has the words the screen lacks, and what is
  half there is of this transform alone; when a marker alone ends it, what `restore` has becomes
  excused. The texts of settled part, previous region and region are of different utterances
  (`Shows`, `Apart`) and each is `Tidy`, nothing of it there twice. The rewriting of a text while it
  is typed, with its common prefix kept, is `RegionShown`; `TypedShows`, `EndedShows`,
  `CommandedShows` and their like carry `Shows` through every operator of the emitter. All of it
  needs room: a rewrite that would take back more than `_TRANSFORM_MAX_BACKSPACES` is cut short by
  the code on purpose. So the invariant is kept under `Fits`, that both regions, and what is to be
  rendered, are within the cap while nothing went wrong (`WordsAreKeptWithin`,
  `RepliesAreWholeWithin`, for any constants); and `RoomInv` shows that a cap of two tokens an
  utterance is room enough, since no chain, restored text or half-typed reply is longer
  (`WordsAreKept`, `RepliesAreWhole`, under `2 * UtteranceLimit <= TransformCap`). In the code the
  cap is 4000 characters, some ten minutes of speech in one chain; what happens beyond it is in
  section 5. A failed device is excepted by the properties themselves.
* **`TextFormatterProofs`.** `KnowsTheEnd` holds between utterances; the invariant says what the
  tail is the end of at all times (`Known`): of the screen in commit mode, and of the screen without
  the open region in correcting mode, where `peek()` advances nothing and the region is always what
  `format_delta()` makes of the whole utterance. `EndsIn` is closed under what the formatter and the
  screen do together: both grow by the same text (`EndsGrow`), the tail is taken anew from a region
  that is not empty (`EndsAnew`), or nothing is known and the screen ends in a blank or is empty
  (`EndsUnknown`). A reply is never empty, which `transform()` and `_stream_finish()` see to and
  `FormatterAssumption` states; without it `reseed("")` would forget a screen that has text.
* **`TextFormatterProofs`, the spacing of the screen.** `WellSpaced` is about the screen as a whole,
  which is typed in pieces. First, what `clean_text` gives for any text: each of its substitutions
  keeps the characters it does not name in their order (`Comes`, `Keeps`), and one after the other
  they leave no letter behind a mark, no blank behind a blank and none at either end
  (`CommasSpaced`, `PeriodsSpaced`, `EllipsesSpaced`, `ExclamationsSpaced`, `LeadingGone`,
  `BlanksCollapse`, `Stripped`, joined in `CleanIsTight`). Then, that what `format_delta()` makes of
  it fits what the tail ends in (`FormatFits`). The invariant, `SpaceInv` beside `FormatterInv`, is
  that settled part, previous region and region are spaced and each meets the next (`Spacing`); that
  a tail which ends in no blank is right even when the formatter has lost sight of the screen; and
  that a correcting utterance is formatted as the first output it is, since what it types may yet be
  replaced by a reply that starts with any letter. Two hypotheses, both of what Whisper and the LLM
  give, are needed. `WordsFirst`: a decode does not begin with a closing bracket, a quote or "(".
  Whisper's words begin with their space; without it "a" and then "'a" leave room for a reply to be
  joined to the first word. `SpacedReplies`: a reply begins with no blank (`transform.py` strips it)
  and is itself spaced as text is; the code types replies as they are, so badly spaced ones would be
  on the screen whatever the formatter did. The tokens and replies of `text_formatter` satisfy both.
* **`TypingDeviceProofs`.** `TrustedMeansCurrent` comes from an invariant about the newest piece of
  news (`FocusInv`): the last unread event, else the answer in hand, else the cache, names the
  focused window. It is proved of `FocusSpec`, and again of the device, whose steps between those of
  the tracker leave it alone. For the keyboard, no two characters share a code (`Apart`), and the
  compositor's keymap is, after the requests in the queue, the client's (`InSync`); so a key means
  what it meant when it was sent, however late it is read. The keys of a call are landed, in the
  queue, or left to send: while nothing is broken the three in a row are the plan (`OnWay`), and
  after an error what has landed is a beginning of it (`Broke`). A retry by wtype is sound because
  no key of the plan has landed or is queued then (`NoKeyYet`). For the clipboard `ClipInv`: what
  the user had, or the text it was read as, is in the clipboard, in the call in progress, or in the
  hand of one timer. Texts are flattened plans of keys; what is needed of `FlattenSeq` is proved by
  induction on the length of sequences, from the existence of the function that its definition
  chooses (`FlattensExists`, `SeqInduction`).
* **`SettingsProofs`.** `SettingsInv` has the types, and `SurvivalInv`: who last wrote the file, and
  what a save in progress has in its temporary file, for each of its three steps in either process;
  so a kill leaves the old settings or the new. `MicrophoneInv` follows an index from the tray's
  device list through the name that is sent to the worker's list, `ChosenForMachine` the model and
  the profile from the probe to the load, and `refused` which targets failed on the way. That
  `Validated` is idempotent makes a saved configuration load unchanged.

Only model-checked: liveness and the fairness half of the refinement (`CallsReturn`,
`WorkerComesBack`, `QuitLeavesNoWorker`, and `KeepsTypingOrder` as far as it is about fairness),
which are beyond the prover; and `DeltasLikeWhole`, which is about how tokens are cut as much as
about the code. It fails for an annotation that two commits divide (section 5), so a theorem would
need the exact shape of every token as a hypothesis, and then compare two rewritings of a text
character by character.

## 5. Where the code does not do what the repository says

Each has a run with a counterexample:

1. `dictation_dupes`: a trim under a standing speculation makes the speculative words
   repeat the trimmed ones (`tests/test_streaming.py:180`).
2. `text_stranded`: when the final decode of a correcting utterance fails, the formatter is
   advanced over a trailing space that nobody types, and the next utterance is typed onto
   the last one, "All done.Next one" (`streaming.py:272-275`).
3. `tray_orphan`: a late exit event makes the tray forget the new worker, which dictates
   while the tray shows off (`README.md:201`).
4. `chain`: the transform of a long message deletes the message before it
   (`emitter.py:435-438`).

Met while modelling, without a run of their own:

* Engine and gate: truncating the cut of a trim to a whole sample can lose the word it was
  cut after (`streaming.py:417`, against `tests/test_streaming.py:142`). `finalize()` may wait three decode
  timeouts, not the two of `streaming.py:46-48` that `session_join_timeout()` is computed from
  (`SessionTypeOK` has three as its bound).
* Engine: `min_new_audio_s` is not validated against `min_speech_s`. Below half of it, a correcting
  utterance may be decoded, trimmed and then given up as too short with more than
  `min_speech_s` of speech not in the text; `LossIsShort` holds for the defaults, which are equal
  (`config.py:78`, `config.py:102`).
* Formatter: after "scratch that" or "copy that" with text still before the cursor the
  formatter knows nothing of it, and the next utterance is fused with it. An utterance
  that is skipped as too short after its committed words were trimmed leaves them on the screen
  without telling the formatter. "What?!" becomes "What? !" (`textproc.py:23`). A delta " ." keeps
  its space before the period, against the docstring of `TextFormatter`. Correcting mode, which formats
  the whole utterance at once, capitalises only its first sentence (against `README.md:181`). An annotation of
  several words, "[door slams]", that two commits divide is typed: neither delta has both of its brackets.
* Coordinator and emitter: "scratch that" on more than 500 characters leaves their beginning; a
  chain of more than 4000 is rewritten in its last 4000 only; the reply to a chain after a device
  failure in its middle stands beside the first chunks, since a chunk whose typing failed clears the
  previous region; a restore that was published as the session ends is discarded by `close()`; a
  session that ends by an exception leaves a half-typed reply; a reply that is nothing but the
  marker `@@REVISE@@` is dropped, but if it came after a thought or preamble, or a thought after it,
  `_clean_partial` has shown some of it in the place of the user's words, and `_stream_finish`
  returns without putting them back (`transform.py:1013-1016`); a transform that was cancelled in
  flight keeps the pool's one thread, and the next utterance's context is captured late.
* Devices: `rewrite_bulk()` does not fall back to typing "on any failure" (`emitter.py:310`) but
  gives up when the paste fails; the virtual keyboard is never tried again after one failed connect.
  A `wl-copy` that took the clipboard and then failed or ran into its timeout leaves the text there,
  and no timer brings the user's contents back (`emitter.py:319-320`); a clipboard that is no text,
  or not UTF-8, comes back garbled (`emitter.py:387-397`); a second paste or copy within 0.4 s of a
  paste saves our own text as the user's.
* Focus tracker: `ok` is true from the connect on, before the cache is seeded (`hypr.py:130`), and
  an empty answer seeds it with no window (`hypr.py:109`), which the next change of focus corrects.
* Tray and worker: the exit of a worker under push-to-talk leaves `_hold_session` set
  (`tray.py:517`), and letting go then stops a session that was toggled (`HoldEndsItsOwn` excepts
  that flag until it is next set or cleared); after a session that failed, or that found no
  transformer, the icon goes on showing dictation as on, since the tray acts on no "stopped" or
  "error"; after a join that timed out the next start clears the `stop_event` the old session has
  yet to see, and both go on; a decode or transform that hangs keeps a worker that quit, and that
  its tray or systemd did not kill, for as long as it hangs (`streaming.py:103`, `transform.py:790`:
  not daemons); a restart whose spawn fails is not tried again; after about a thousand deaths in a
  row the restart delay is out of the range of a float (`tray.py:525`) and the tray aborts, to be
  restarted by systemd.
* Configuration: a change of microphone writes the tray's whole old copy over what the user
  has edited since, and defaults over a file that could not be read; tray and worker may
  migrate at once through one `config.json.tmp`, and can leave an empty file; of two
  microphones of one name it is always the first; a missing microphone is replaced by one
  whose name contains its name, or by the default, and that is saved. `README.md:157` has the
  file "created on first run", but nothing writes it before the microphone changes.
* Hardware: `device = "cpu"`, or a GPU that does not load the model, leaves the large model that
  `model = "auto"` chose for the GPU on the CPU (`hardware.py:227`); a model that the CPU refuses,
  because it is not there or there is no memory, or with half precision asked for by name on a
  machine without GPU, ends the worker, which is restarted for ever (`transcriber.py:97`,
  `worker.py:372`).

Those that bite in operation are listed with their lines as hazards in `PROJECT.json`.

## 6. Not modelled

* LLM transformer (`transform.py` up to the coordinator): prompts, HTTP, server-sent events, and what
  is read of the screen. What a reply may be, and when, is an input of `Output`.
* Whisper, Silero and PortAudio: inputs of `StreamingSession`, `VadGate` and `AudioCapture`.
* Tray menus, icons, OSD, notifications, hotkey installation, the tray's command socket and the
  toggle client: one message in, one call out, with no state of their own.
* The sections of the configuration that are only copied to where they are used, and the
  command-line report of `hardware.py`.
* `close()` of the focus tracker, which only tests call; `warmup()` and the initial prompt of the
  transcriber; the null and stdout emitters.
* Times: a timeout may or may not fire where its condition allows it.
