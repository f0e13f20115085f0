--------------------------- MODULE WorkerProcess ---------------------------
(***************************************************************************)
(* The worker process of wldictate/worker.py (run): it loads the model,    *)
(* then takes commands from its stdin one at a time and starts and stops   *)
(* the session thread.  Several worker processes may be around at once,    *)
(* numbered in the order they were spawned.                                *)
(*                                                                         *)
(* A session is what _run_session does between its start and its end; what *)
(* it does with the audio is the matter of Dictation and AudioCapture.     *)
(***************************************************************************)
EXTENDS Integers, Sequences, FiniteSets

CONSTANT Modes   \* dictation modes: "standard", "contextual"

VARIABLE workers \* a sequence of Worker records

\* The commands of ipc.py; a mode that is not in the line is "standard".
DefaultMode(m) == "standard"
GivenMode(m) == m

Commands == [cmd: {"start"}, mode: Modes] \cup [cmd: {"stop", "quit"}]
Start(m) == [cmd |-> "start", mode |-> GivenMode(m)]
Stop == [cmd |-> "stop"]
Quit == [cmd |-> "quit"]

\* state      where run() is; "joining" and "leaving" wait in _stop_session(),
\*            "exiting" at the interpreter's exit
\* stdin      commands written and not yet taken
\* eof        nobody holds the write end of stdin any more
\* stopEvent  stop_event, which every session of the process shares
\* thread     the id of session_thread, 0 for None
\* sessions   the session threads alive
\* started    sessions started so far
\* behind     a session that ended left a transform running in its pool
\* failed     history: the last start came to nothing, for want of a
\*            transformer, or its session was the first to end
\* left       history of a session: the join that waited for it timed out
SessionIds == Nat \ {0}
Session == [id: SessionIds, mode: Modes, ending: BOOLEAN, left: BOOLEAN]
Worker ==
    [state: {"loading", "loop", "joining", "leaving", "exiting", "dead"},
     stdin: Seq(Commands), eof: BOOLEAN,
     stopEvent: BOOLEAN, thread: Nat, sessions: SUBSET Session, started: Nat,
     behind: BOOLEAN, failed: BOOLEAN]

NewWorker ==
    [state |-> "loading", stdin |-> <<>>, eof |-> FALSE, stopEvent |-> FALSE, thread |-> 0,
     sessions |-> {}, started |-> 0, behind |-> FALSE, failed |-> FALSE]

Alive(p) == p.state # "dead"
Dead(p) == [p EXCEPT !.state = "dead", !.sessions = {}, !.stdin = <<>>, !.behind = FALSE]

\* The sessions that the process still accounts for.
Own(p) == {s \in p.sessions : ~s.left}

\* _session_running()
SessionRunning(p) == \E s \in p.sessions : s.id = p.thread

-----------------------------------------------------------------------------
(* run()                                                                   *)

\* transcriber.load(), the warmup and "ready"; if it fails the process exits.
Load(w) ==
    LET p == workers[w]
    IN  /\ p.state = "loading"
        /\ workers' = [workers EXCEPT ![w].state = "loop"]

LoadFails(w) ==
    LET p == workers[w]
    IN  /\ p.state = "loading"
        /\ workers' = [workers EXCEPT ![w] = Dead(p)]

Taken(p) == [p EXCEPT !.stdin = Tail(@)]

\* _stop_session(): set the event, then join.
Stopping(p, state) ==
    [p EXCEPT !.state = state, !.stopEvent = IF p.thread = 0 THEN @ ELSE TRUE]

TakeStop(w) ==
    LET p == workers[w]
    IN  /\ p.state = "loop" /\ p.stdin # <<>> /\ Head(p.stdin) = Stop
        /\ workers' = [workers EXCEPT ![w] =
               IF p.thread = 0 THEN Taken(p) ELSE Stopping(Taken(p), "joining")]

\* A new session listens: stop_event is cleared first.
Listening(p, m) ==
    [p EXCEPT !.stopEvent = FALSE,
              !.thread = p.started + 1,
              !.started = @ + 1,
              !.sessions = @ \cup {[id |-> p.started + 1, mode |-> m,
                                    ending |-> FALSE, left |-> FALSE]},
              !.failed = FALSE]

\* "start ignored: session already active"; and a contextual session may find no
\* transformer to use and not start.
TakeStart(w) ==
    LET p == workers[w]
        c == Head(p.stdin)
    IN  /\ p.state = "loop" /\ p.stdin # <<>> /\ c.cmd = "start"
        /\ \/ /\ SessionRunning(p)
              /\ workers' = [workers EXCEPT ![w] = Taken(p)]
           \/ /\ ~SessionRunning(p) /\ c.mode = "contextual"
              /\ workers' = [workers EXCEPT ![w] = [Taken(p) EXCEPT !.failed = TRUE]]
           \/ /\ ~SessionRunning(p)
              /\ workers' = [workers EXCEPT ![w] = Listening(Taken(p), c.mode)]

\* "quit", or the end of stdin: the parent is gone.
EndUnseen(p) == FALSE
EndOfStdin(p) == p.stdin = <<>> /\ p.eof

TakeQuit(w) ==
    LET p == workers[w]
    IN  /\ p.state = "loop"
        /\ \/ p.stdin # <<>> /\ Head(p.stdin) = Quit
           \/ EndOfStdin(p)
        /\ workers' = [workers EXCEPT ![w] = Stopping(p, "leaving")]

\* The end of _stop_session(), and of run() when it is leaving.
AfterJoin(p) ==
    [p EXCEPT !.state = IF p.state = "leaving" THEN "exiting" ELSE "loop", !.thread = 0]

NeverWaits(p) == FALSE
MustWait(p) == SessionRunning(p)

Joined(w) ==
    LET p == workers[w]
    IN  /\ p.state \in {"joining", "leaving"}
        /\ ~MustWait(p)
        /\ workers' = [workers EXCEPT ![w] = AfterJoin(p)]

\* The session with this id is not waited for any more.
GivenUp(p, id) ==
    [p EXCEPT !.sessions = {[s EXCEPT !.left = s.left \/ s.id = id] : s \in p.sessions}]

\* session_join_timeout() is over: "session thread did not stop in time".
JoinTimesOut(w) ==
    LET p == workers[w]
    IN  /\ p.state \in {"joining", "leaving"}
        /\ MustWait(p)
        /\ workers' = [workers EXCEPT ![w] = GivenUp(AfterJoin(p), p.thread)]

\* The interpreter exits.  The session threads are daemons, what is left of them
\* dies with the process; but the pools of decodes and transforms are not, and
\* what runs in them is waited for: as long as it takes.
PoolsBusy(p) == p.sessions # {} \/ p.behind

Exits(w) ==
    LET p == workers[w]
    IN  /\ p.state = "exiting" /\ ~PoolsBusy(p)
        /\ workers' = [workers EXCEPT ![w] = Dead(p)]

-----------------------------------------------------------------------------
(* The session thread, and the end of a process.                           *)

\* The frame loop sees stop_event, or dies of an exception; either way the
\* thread is then only winding up.
SessionLeavesLoop(w) ==
    LET p == workers[w]
    IN  \E s \in p.sessions :
            /\ ~s.ending
            /\ workers' = [workers EXCEPT
                   ![w].sessions = (@ \ {s}) \cup {[s EXCEPT !.ending = TRUE]},
                   ![w].failed = @ \/ (~s.left /\ ~p.stopEvent)]

SessionStops(w) == workers[w].stopEvent /\ SessionLeavesLoop(w)
SessionFails(w) == ~workers[w].stopEvent /\ SessionLeavesLoop(w)

\* The last transform is drained or given up, the typing done, "stopped"
\* emitted.  The decodes are over by then, a transform need not be.
SessionEnds(w) ==
    \E s \in workers[w].sessions, behind \in BOOLEAN :
        /\ s.ending
        /\ behind => s.mode = "contextual"
        /\ workers' = [workers EXCEPT ![w].sessions = @ \ {s}, ![w].behind = @ \/ behind]

TransformReturns(w) == workers[w].behind /\ workers' = [workers EXCEPT ![w].behind = FALSE]

\* A session that is left may hold up the exit no longer: it is stuck somewhere
\* else, or its decode returned.
ExitsEarly(w) ==
    LET p == workers[w]
    IN  /\ p.state = "exiting" /\ PoolsBusy(p) /\ ~p.behind
        /\ workers' = [workers EXCEPT ![w] = Dead(p)]

\* The process crashes or is killed from outside.
Crash(w) == Alive(workers[w]) /\ workers' = [workers EXCEPT ![w] = Dead(@)]

\* What run() does by itself, and what its sessions do.
RunStep(w) ==
    \/ Load(w)
    \/ TakeStop(w) \/ TakeStart(w) \/ TakeQuit(w)
    \/ Joined(w) \/ JoinTimesOut(w)
    \/ Exits(w)

SessionStep(w) ==
    \/ SessionStops(w) \/ SessionFails(w) \/ SessionEnds(w)
    \/ TransformReturns(w) \/ ExitsEarly(w)
=============================================================================
