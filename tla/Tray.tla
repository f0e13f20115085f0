-------------------------------- MODULE Tray --------------------------------
(***************************************************************************)
(* The tray application of wldictate/tray.py in control of its worker      *)
(* processes.  Its handlers run one at a time on the Qt thread: the toggle *)
(* and push-to-talk commands, the idle timer, the exit events that         *)
(* _WorkerMonitor threads queue, the restart timer and the cleanup.  They  *)
(* meet the workers at the pipe of each, at poll() and at wait().          *)
(*                                                                         *)
(* Time is left out: the idle stop, the restart delay and the waits may    *)
(* take any time.  So are the worker's lines other than its exit; they     *)
(* only choose the wording of notifications and the length of delays.      *)
(***************************************************************************)
EXTENDS WorkerProcess

CONSTANTS
    CommandLimit,  \* bound of the model: user commands
    DeathLimit,    \* bound of the model: workers that die by themselves
    LastExponent   \* the last n for which the restart delay, a float, holds 2 ** n

ASSUME TrayAssumption == CommandLimit \in Nat /\ DeathLimit \in Nat /\ LastExponent \in Nat

VARIABLES
    tray,      \* the state of DictationTrayApp the handlers share
    events,    \* _events: the exits queued, by worker
    watched,   \* workers whose _WorkerMonitor is still in wait()
    phase,     \* "up", in cleanup's wait "quitting", "gone"
    \* history
    commands,  \* user commands so far
    deaths,    \* workers that died by themselves so far
    forgotten, \* workers dropped by the exit event of another
    heldSince, \* the current session was started by hold_start
    heldLost,  \* _hold_session was set before the exit event that ended its session
    unspawned  \* a restart could not spawn its worker

history == <<commands, deaths, forgotten, heldSince, heldLost, unspawned>>
trayVars == <<workers, tray, events, watched, phase, history>>

Off == "off"

ASSUME OffIsNoMode == Off \notin Modes

\* process         worker_process, 0 for None
\* mode            _active_mode
\* hold            _hold_session
\* restartPending  _restart_pending
\* timer           a single-shot timer for _restart_worker is armed
\* attempts        _restart_attempts
TrayState ==
    [process: Nat, mode: Modes \cup {Off}, hold: BOOLEAN,
     restartPending: BOOLEAN, timer: BOOLEAN, attempts: Nat]

\* The handlers work on both sides at once: the tray's state and the workers.
Here == [tray |-> tray, workers |-> workers]
Becomes(s) == tray' = s.tray /\ workers' = s.workers

-----------------------------------------------------------------------------
(* The building blocks of the handlers.                                    *)

\* worker_process and poll() is None
Running(s) == s.tray.process # 0 /\ Alive(s.workers[s.tray.process])

Sent(s, command) == [s EXCEPT !.workers[s.tray.process].stdin = Append(@, command)]

\* _ensure_worker_process
SpawnsAnyway(s) == TRUE
MustSpawn(s) == ~Running(s)

Ensured(s) ==
    IF MustSpawn(s)
    THEN [s EXCEPT !.workers = Append(@, NewWorker),
                   !.tray.process = Len(s.workers) + 1]
    ELSE s

\* stop_dictation
HoldStays(s) == s.tray.hold
HoldOver(s) == FALSE

StopDictation(s) ==
    IF s.tray.mode = Off THEN s
    ELSE [(IF Running(s) THEN Sent(s, Stop) ELSE s) EXCEPT
             !.tray.mode = Off, !.tray.hold = HoldOver(s)]

\* start_dictation: there may be no input device, or the worker may die between
\* poll() and the write, which then raises; nothing is on in either case.
StartDictation(s, m) ==
    IF s.tray.mode # Off THEN {s}
    ELSE LET e == Ensured(s)
         IN  {s, [Sent(e, Start(m)) EXCEPT !.tray.mode = m]}
             \cup (IF deaths < DeathLimit
                   THEN {[e EXCEPT !.workers[e.tray.process] = Dead(@)]} ELSE {})

\* The history of a handler's outcome.
Witnessed(s, held) ==
    /\ Becomes(s)
    /\ deaths' = deaths + Cardinality({w \in DOMAIN workers :
                             Alive(workers[w]) /\ ~Alive(s.workers[w])})
                        + Cardinality({w \in DOMAIN s.workers \ DOMAIN workers :
                             ~Alive(s.workers[w])})
    /\ watched' = watched \cup (DOMAIN s.workers \ DOMAIN workers)
    /\ heldSince' = IF s.tray.mode = Off THEN FALSE
                    ELSE IF tray.mode = s.tray.mode THEN heldSince ELSE held
    /\ heldLost' = (heldLost /\ s.tray.hold /\ ~heldSince')

Commanded ==
    /\ phase = "up"
    /\ commands < CommandLimit
    /\ commands' = commands + 1
    /\ UNCHANGED <<events, phase, forgotten, unspawned>>

-----------------------------------------------------------------------------
(* The handlers.                                                           *)

\* toggle_dictation: stop this mode, or switch to it from the other one, or
\* start it.
Toggle(m) ==
    /\ Commanded
    /\ \E s \in IF tray.mode = m THEN {StopDictation(Here)}
                ELSE StartDictation(StopDictation(Here), m) :
          Witnessed(s, FALSE)

\* hold_start: a no-op if the mode is already on.
HoldStart(m) ==
    /\ Commanded
    /\ \E s \in IF tray.mode = m THEN {Here}
                ELSE {[t EXCEPT !.tray.hold = (t.tray.mode # Off)] :
                         t \in StartDictation(StopDictation(Here), m)} :
          Witnessed(s, TRUE)

\* hold_stop: only ends a session that push-to-talk started.
HoldStop ==
    /\ Commanded
    /\ Witnessed(IF tray.hold THEN StopDictation([Here EXCEPT !.tray.hold = FALSE]) ELSE Here,
                 FALSE)

\* No speech for ui.idle_stop_s.
IdleStop ==
    /\ phase = "up" /\ tray.mode # Off
    /\ Witnessed(StopDictation(Here), FALSE)
    /\ UNCHANGED <<events, phase, commands, forgotten, unspawned>>

\* _on_worker_exit, on the next exit event.  It does not look whose exit it is.
\* The attempts are counted anew when the worker was ready, or was up for long
\* enough.  A delay that does not fit a float raises, and PyQt5 aborts on an
\* exception in a slot.
StillOn(t) == t.mode
OffAgain(t) == Off

WorkerExit ==
    /\ phase = "up" /\ events # <<>>
    /\ events' = Tail(events)
    /\ \E attempts \in {tray.attempts, 0} :
          LET off == [tray EXCEPT !.process = 0, !.mode = OffAgain(tray), !.attempts = attempts]
          IN  IF attempts > LastExponent
              THEN tray' = off /\ phase' = "gone"
              ELSE /\ tray' = [off EXCEPT !.attempts = @ + 1, !.restartPending = TRUE,
                                          !.timer = @ \/ ~tray.restartPending]
                   /\ UNCHANGED phase
    /\ forgotten' = IF tray.process = 0 \/ tray.process = Head(events) THEN forgotten
                    ELSE forgotten \cup {tray.process}
    /\ heldSince' = (heldSince /\ tray'.mode # Off)
    /\ heldLost' = tray.hold
    /\ UNCHANGED <<workers, watched, commands, deaths, unspawned>>

\* _restart_worker.  The spawn may fail; nothing then tries again.
RestartPends(t) == t.restartPending
RestartDone(t) == FALSE

Restart ==
    LET s == [Here EXCEPT !.tray.timer = FALSE, !.tray.restartPending = RestartDone(tray)]
    IN  /\ phase = "up" /\ tray.timer
        /\ \/ Witnessed(Ensured(s), FALSE) /\ UNCHANGED unspawned
           \/ MustSpawn(s) /\ Witnessed(s, FALSE) /\ unspawned' = TRUE
        /\ UNCHANGED <<events, phase, commands, forgotten>>

\* cleanup(): stop, ask the worker to quit, ...
Cleanup ==
    /\ phase = "up"
    /\ LET s == StopDictation(Here)
       IN  IF Running(s)
           THEN Becomes(Sent(s, Quit)) /\ phase' = "quitting"
           ELSE Becomes(s) /\ phase' = "gone"
    /\ heldSince' = FALSE
    /\ UNCHANGED <<events, watched, commands, deaths, forgotten, heldLost, unspawned>>

\* ... wait for it, kill it when that takes too long, and exit.
CleanedUp ==
    /\ phase = "quitting"
    /\ phase' = "gone"
    /\ Becomes([Here EXCEPT !.workers[tray.process] = Dead(@), !.tray.process = 0])
    /\ UNCHANGED <<events, watched, history>>

\* The pipes of a process that is gone are closed.
PipesClose ==
    /\ phase = "gone"
    /\ \E w \in DOMAIN workers : Alive(workers[w]) /\ ~workers[w].eof
    /\ workers' = [w \in DOMAIN workers |-> [workers[w] EXCEPT !.eof = TRUE]]
    /\ UNCHANGED <<tray, events, watched, phase, history>>

\* A _WorkerMonitor sees its worker dead.
MonitorReports(w) ==
    /\ w \in watched /\ ~Alive(workers[w])
    /\ watched' = watched \ {w}
    /\ events' = Append(events, w)
    /\ UNCHANGED <<workers, tray, phase, history>>

-----------------------------------------------------------------------------
(* Tray and workers together.                                              *)

Init ==
    /\ workers = <<NewWorker>>       \* _prewarm_worker
    /\ tray = [process |-> 1, mode |-> Off, hold |-> FALSE,
               restartPending |-> FALSE, timer |-> FALSE, attempts |-> 0]
    /\ events = <<>>
    /\ watched = {1}
    /\ phase = "up"
    /\ commands = 0 /\ deaths = 0 /\ forgotten = {}
    /\ heldSince = FALSE /\ heldLost = FALSE /\ unspawned = FALSE

Runs(w) == RunStep(w) /\ UNCHANGED <<tray, events, watched, phase, history>>

Listens(w) == SessionStep(w) /\ UNCHANGED <<tray, events, watched, phase, history>>

Dies(w) ==
    /\ deaths < DeathLimit
    /\ LoadFails(w) \/ Crash(w)
    /\ deaths' = deaths + 1
    /\ UNCHANGED <<tray, events, watched, phase, commands, forgotten,
                   heldSince, heldLost, unspawned>>

Handler ==
    \/ \E m \in Modes : Toggle(m) \/ HoldStart(m)
    \/ HoldStop \/ IdleStop
    \/ WorkerExit \/ Restart
    \/ Cleanup \/ CleanedUp \/ PipesClose

Next ==
    \/ Handler
    \/ \E w \in DOMAIN workers : MonitorReports(w) \/ Runs(w) \/ Listens(w) \/ Dies(w)

\* The Qt loop goes on with what it has queued; a monitor thread's wait() and
\* the worker's command loop go on; a join ends by its timeout at the latest, and
\* an exit that waits for nothing is made.  Nothing is assumed of the user, of the
\* sessions, of what runs in their pools, or of crashes.
MaxWorkers == 1 + 2 * DeathLimit

Fairness ==
    /\ WF_trayVars(WorkerExit) /\ WF_trayVars(Restart)
    /\ WF_trayVars(CleanedUp) /\ WF_trayVars(PipesClose)
    /\ \A w \in 1..MaxWorkers :
          /\ WF_trayVars(w \in DOMAIN workers /\ MonitorReports(w))
          /\ WF_trayVars(w \in DOMAIN workers /\ Runs(w))

Spec == Init /\ [][Next]_trayVars /\ Fairness

-----------------------------------------------------------------------------
(* Properties.                                                             *)

\* The type invariant.  Beyond types: the tray's process and the workers with
\* an exit to come are workers that were spawned, every session was started by
\* its worker, an armed restart timer is a pending restart, and dictation is never
\* shown as on without a worker.
ControlTypeOK ==
    /\ workers \in Seq(Worker)
    /\ \A w \in DOMAIN workers : \A s \in workers[w].sessions : s.id <= workers[w].started
    /\ tray \in TrayState /\ tray.process <= Len(workers)
    /\ tray.mode # Off => tray.process # 0
    /\ (tray.timer => tray.restartPending)
    /\ events \in Seq(DOMAIN workers) /\ watched \subseteq DOMAIN workers
    /\ phase \in {"up", "quitting", "gone"}
    /\ commands \in Nat /\ deaths \in Nat /\ forgotten \subseteq DOMAIN workers
    /\ heldSince \in BOOLEAN /\ heldLost \in BOOLEAN /\ unspawned \in BOOLEAN

\* A worker that has done all it was told to.
Settled(p) == p.state = "loop" /\ p.stdin = <<>>

\* While dictation is off, a worker that has done all it was told to has no
\* session, whatever was toggled, held, switched, stopped by the idle timer or
\* crashed before; except workers a stale exit event made the tray forget, and
\* sessions whose join timed out, which the worker gave up on.
OffIsQuiet ==
    tray.mode = Off =>
        \A w \in DOMAIN workers \ forgotten : Settled(workers[w]) => Own(workers[w]) = {}

\* The session of a start that was heard: one that listens in the mode, unless
\* it failed or could not begin.
InMode(p, mode) ==
    /\ \A s \in Own(p) : s.mode = mode
    /\ ~p.failed => \E s \in Own(p) : ~s.ending

\* A worker was replaced by the restart timer before the tray heard of its end.
Untold(p) == p.started = 0 /\ ~p.failed
ExitToCome == events # <<>> \/ \E w \in watched : ~Alive(workers[w])

\* The microphone and the keyboard have one owner: a worker has at most one
\* session that it did not give up on; and while dictation is on, once the worker
\* has done all it was told to, it has such a session, it is of the mode shown and
\* it listens.  The tray does not hear of a session that failed, or that could
\* not begin because no transformer was available: dictation then goes on being
\* shown as on, with no session of any other mode.  It is also shown as on, for
\* a moment, when the restart timer puts a new worker in the place of one that
\* just died, and the exit event is yet to come.
OneSessionOfTheMode ==
    /\ \A w \in DOMAIN workers : Cardinality(Own(workers[w])) <= 1
    /\ (tray.mode # Off /\ Settled(workers[tray.process])) =>
          LET p == workers[tray.process]
          IN  InMode(p, tray.mode) \/ (Untold(p) /\ ExitToCome)

\* What the icon shows is what the microphone does, with these exceptions.
IconTellsTheTruth == OffIsQuiet /\ OneSessionOfTheMode

\* A live worker is the tray's own, or one that the exit event of another
\* worker made it forget: no path spawns a second worker beside a live one.
NoStrayWorker ==
    phase = "up" =>
        \A w \in DOMAIN workers : Alive(workers[w]) => w = tray.process \/ w \in forgotten

\* Letting go of push-to-talk ends only a session that push-to-talk started,
\* whatever was toggled, switched, stopped, lost and restarted in between; except
\* that the exit of a worker under a held session leaves _hold_session behind, and
\* until it is next set or cleared letting go may end a session of another kind.
HoldEndsItsOwn == (tray.hold /\ tray.mode # Off /\ ~heldLost) => heldSince

\* A worker that died is replaced, however often and whenever workers die,
\* as long as the restart manages to spawn one and the tray itself goes on: after
\* some thousand deaths in a row, none ready and none up for a minute, the delay
\* of the next restart is no float any more and the tray aborts.
WorkerComesBack ==
    (phase = "up" /\ ~Running(Here)) ~> (phase # "up" \/ Running(Here) \/ unspawned)

\* When the tray is gone every worker process ends, the forgotten ones too; all
\* but one that is on its way out and held up by a decode or a transform which does
\* not return, in a pool that the interpreter waits for.
QuitLeavesNoWorker ==
    (phase = "gone") ~>
        (\A w \in DOMAIN workers :
            Alive(workers[w]) => workers[w].state = "exiting" /\ PoolsBusy(workers[w]))

-----------------------------------------------------------------------------
(* What the repository says and the code does not do.                      *)

\* README.md:201: "While dictation is off, captured audio is discarded
\* immediately and never transcribed."  No worker that has done all it was
\* told to listens while dictation is off.
OffMeansNotTranscribed ==
    tray.mode = Off =>
        \A w \in DOMAIN workers :
            Settled(workers[w]) => \A s \in Own(workers[w]) : s.ending
=============================================================================
