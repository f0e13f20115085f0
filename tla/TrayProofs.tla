----------------------------- MODULE TrayProofs -----------------------------
(***************************************************************************)
(* Proofs about the tray and its workers, for any modes and any number of  *)
(* commands, deaths and restarts: the icon tells the truth, no worker is   *)
(* spawned beside a live one, and letting go of push-to-talk ends only     *)
(* what push-to-talk began.                                                *)
(*                                                                         *)
(* None of these is inductive.  What the icon shows, the worker learns     *)
(* through a pipe, so the invariant says what the commands in the pipe     *)
(* come to (Follows), that a start is never behind a start nor next while  *)
(* a session may be on (StartsAfterStop), and that such a process has one  *)
(* session of its own at most (OneSession).  A worker that the restart     *)
(* timer put in the place of a dead one follows nothing yet (Fresh).       *)
(* These are kept by whatever the process does (Continues) and by whatever *)
(* it is told (Told); the tray's handlers are composed of the two (Sound). *)
(***************************************************************************)
EXTENDS Tray, SequenceTheorems, FiniteSetTheorems, TLAPS

\* A process has at most one session that it did not give up on, the one
\* _stop_session() waits for.
OneSession(p) == \A s \in Own(p) : s.id = p.thread /\ \A t \in Own(p) : s = t

\* It is on its way out, or waits for its session.
Leaving(p) == p.state \in {"leaving", "exiting"}
Ending(p) == p.state = "joining" \/ Leaving(p)

\* A start is never queued behind a start, and none is next while a session of
\* an earlier one may be on.
StartsAfterStop(p) ==
    /\ \A i \in 1..(Len(p.stdin) - 1) : p.stdin[i].cmd = "start" => p.stdin[i + 1].cmd # "start"
    /\ (p.stdin # <<>> /\ p.stdin[1].cmd = "start") => p.thread = 0 \/ Ending(p)

\* The session of the last start listens in the mode, and will not stop, unless
\* it failed.
OnAir(p, mode) == InMode(p, mode) /\ (~p.failed => ~p.stopEvent)

\* What the process was told last, or does when it was told nothing since, is
\* what the icon shows.
Follows(p, mode) ==
    IF p.stdin = <<>>
    THEN IF mode = Off THEN p.thread = 0 \/ Ending(p)
                       ELSE Leaving(p) \/ (p.state # "joining" /\ OnAir(p, mode))
    ELSE LET last == p.stdin[Len(p.stdin)]
         IN  IF mode = Off THEN last.cmd # "start" ELSE last = Start(mode)

\* It was told nothing, ever.
Fresh(p) == p.stdin = <<>> /\ p.thread = 0 /\ Untold(p)

\* Nobody has told the process to end.
GoesOn(p) ==
    /\ ~p.eof /\ ~Leaving(p)
    /\ \A i \in DOMAIN p.stdin : p.stdin[i] # Quit

\* The sessions of a process are numbered as it starts them.
Numbered(p) == \A s \in p.sessions : s.id <= p.started

ProcessOK(p) == Numbered(p) /\ OneSession(p) /\ StartsAfterStop(p)

WorkersInv ==
    /\ workers \in Seq(Worker)
    /\ \A w \in DOMAIN workers : ProcessOK(workers[w])
    /\ phase = "up" => \A w \in DOMAIN workers : GoesOn(workers[w])

\* The tray's worker, when it is alive.
Led(p, mode) == Follows(p, mode) \/ (mode # Off /\ Fresh(p) /\ ExitToCome)

TrayInv ==
    /\ phase = "quitting" => tray.process # 0
    /\ phase # "up" => tray.mode = Off
    /\ \A i \in DOMAIN events : ~Alive(workers[events[i]])
    /\ \A w \in DOMAIN workers : Alive(workers[w]) => w = tray.process \/ w \in forgotten
    /\ (tray.hold /\ ~heldLost) => tray.mode # Off /\ heldSince
    /\ tray.process # 0 => tray.process \in watched \/ events # <<>>
    /\ (tray.process # 0 /\ Alive(workers[tray.process])) => Led(workers[tray.process], tray.mode)

ControlInv == ControlTypeOK /\ WorkersInv /\ TrayInv

-----------------------------------------------------------------------------
(* What a process does by itself.                                          *)

\* q is a state of a process that was p before: it is not revived, follows the
\* mode p followed, and does not end unless it was told to.
Continues(p, q) ==
    /\ q \in Worker /\ ProcessOK(q)
    /\ Alive(q) => Alive(p) /\ \A mode \in Modes \cup {Off} : Follows(p, mode) => Follows(q, mode)
    /\ Alive(q) /\ Fresh(p) => Fresh(q)
    /\ GoesOn(p) => GoesOn(q)

\* The commands left when the first is taken.
LEMMA TailOfCommands ==
    ASSUME NEW c \in Seq(Commands), c # <<>>
    PROVE  /\ Len(c) \in Nat /\ Len(c) >= 1 /\ DOMAIN c = 1..Len(c)
           /\ Head(c) = c[1] /\ Head(c) \in Commands
           /\ Tail(c) \in Seq(Commands) /\ Len(Tail(c)) = Len(c) - 1
           /\ DOMAIN Tail(c) = 1..(Len(c) - 1)
           /\ \A i \in 1..(Len(c) - 1) : Tail(c)[i] = c[i + 1]
           /\ Tail(c) = <<>> => Len(c) = 1
           /\ Tail(c) # <<>> => Len(c) > 1 /\ Tail(c)[Len(Tail(c))] = c[Len(c)]
<1>1. Len(c) \in Nat /\ Len(c) >= 1 /\ Head(c) = c[1] /\ DOMAIN c = 1..Len(c)
  BY EmptySeq, LenProperties
<1>2. /\ Head(c) \in Commands /\ Tail(c) \in Seq(Commands) /\ Len(Tail(c)) = Len(c) - 1
      /\ \A i \in 1..(Len(c) - 1) : Tail(c)[i] = c[i + 1]
  BY HeadTailProperties
<1>3. DOMAIN Tail(c) = 1..(Len(c) - 1)
  BY <1>2, LenProperties
<1>4. Tail(c) = <<>> => Len(c) = 1
  BY <1>1, <1>2, EmptySeq
<1>5. Tail(c) # <<>> => Len(Tail(c)) >= 1
  BY <1>2, EmptySeq
<1>6. Tail(c) # <<>> => Len(c) > 1 /\ Tail(c)[Len(Tail(c))] = c[Len(c)]
  BY <1>1, <1>2, <1>5
<1>7. QED
  BY <1>1, <1>2, <1>3, <1>4, <1>6

\* Taking the first command changes nothing else.
LEMMA TakenIs ==
    ASSUME NEW p \in Worker, p.stdin # <<>>
    PROVE  /\ Taken(p) \in Worker /\ Taken(p).stdin = Tail(p.stdin)
           /\ Taken(p).state = p.state /\ Taken(p).eof = p.eof
           /\ Taken(p).stopEvent = p.stopEvent /\ Taken(p).thread = p.thread
           /\ Taken(p).sessions = p.sessions /\ Taken(p).started = p.started
           /\ Taken(p).failed = p.failed /\ Taken(p).behind = p.behind
<1>1. p.stdin \in Seq(Commands)
  BY DEF Worker
<1>2. Tail(p.stdin) \in Seq(Commands)
  BY <1>1, TailOfCommands
<1>3. QED
  BY <1>2 DEF Taken, Worker

LEMMA TakenGoesOn ==
    ASSUME NEW p \in Worker, p.stdin # <<>>, GoesOn(p)
    PROVE  GoesOn(Taken(p))
<1>1. p.stdin \in Seq(Commands)
  BY DEF Worker
<1>2. \A i \in DOMAIN Tail(p.stdin) : Tail(p.stdin)[i] # Quit
  BY <1>1, TailOfCommands DEF GoesOn
<1>3. /\ Taken(p).stdin = Tail(p.stdin) /\ Taken(p).state = p.state /\ Taken(p).eof = p.eof
  BY TakenIs
<1>4. QED
  BY <1>2, <1>3, Zenon DEF GoesOn, Leaving

\* "stop" is taken.
LEMMA StopTaken ==
    ASSUME NEW p \in Worker, ProcessOK(p),
           p.state = "loop", p.stdin # <<>>, Head(p.stdin) = Stop
    PROVE  Continues(p, IF p.thread = 0 THEN Taken(p) ELSE Stopping(Taken(p), "joining"))
<1> DEFINE c == p.stdin
           t == Taken(p)
           q == IF p.thread = 0 THEN t ELSE Stopping(t, "joining")
<1>1. c \in Seq(Commands) /\ Alive(p)
  BY DEF Worker, Alive
<1>2. /\ q \in Worker /\ q.stdin = Tail(c) /\ q.eof = p.eof /\ q.thread = p.thread
      /\ q.sessions = p.sessions /\ q.started = p.started /\ q.failed = p.failed
      /\ q.state = IF p.thread = 0 THEN p.state ELSE "joining"
  <2>1. t.thread = p.thread /\ t \in Worker
    BY TakenIs
  <2>2. CASE p.thread = 0
    BY <2>2, TakenIs
  <2>3. CASE p.thread # 0
    <3>1. q = [t EXCEPT !.state = "joining", !.stopEvent = TRUE]
      BY <2>1, <2>3 DEF Stopping
    <3> HIDE DEF t
    <3>2. QED
      BY <2>1, <2>3, <3>1, TakenIs DEF t, Worker
  <2>4. QED
    BY <2>2, <2>3
<1> HIDE DEF q, t
<1>3. Numbered(q) /\ OneSession(q)
  BY <1>2 DEF ProcessOK, Numbered, OneSession, Own
<1>4. q.thread = 0 \/ Ending(q)
  BY <1>2 DEF Ending
<1>5. StartsAfterStop(q)
  BY <1>1, <1>2, <1>4, TailOfCommands DEF ProcessOK, StartsAfterStop
<1>6. ASSUME NEW mode \in Modes \cup {Off}, Follows(p, mode)
      PROVE  Follows(q, mode)
  <2>1. CASE Tail(c) = <<>>
    <3>1. Len(c) = 1 /\ c[Len(c)] = Stop
      BY <1>1, <2>1, TailOfCommands
    <3>2. mode = Off
      BY <1>6, <3>1 DEF Follows, Stop, Start
    <3>3. QED
      BY <1>2, <1>4, <2>1, <3>2 DEF Follows
  <2>2. CASE Tail(c) # <<>>
    <3>1. q.stdin[Len(q.stdin)] = c[Len(c)]
      BY <1>1, <1>2, <2>2, TailOfCommands
    <3>2. QED
      BY <1>2, <1>6, <2>2, <3>1 DEF Follows
  <2>3. QED
    BY <2>1, <2>2
<1>7. ASSUME GoesOn(p) PROVE GoesOn(q)
  <2>1. GoesOn(t) /\ t.stdin = Tail(c)
    BY <1>7, TakenGoesOn, TakenIs DEF t
  <2>2. \A i \in DOMAIN q.stdin : q.stdin[i] # Quit
    BY <1>2, <2>1, Zenon DEF GoesOn
  <2>3. ~Leaving(q) /\ ~q.eof
    BY <1>2, <1>7 DEF GoesOn, Leaving
  <2>4. QED
    BY <2>2, <2>3, Zenon DEF GoesOn
<1>8. ~Fresh(p)
  BY DEF Fresh
<1>9. QED
  BY <1>1, <1>2, <1>3, <1>5, <1>6, <1>7, <1>8 DEF Continues, ProcessOK, q, t

\* When a start is next, the process accounts for no session.
LEMMA StartFindsNone ==
    ASSUME NEW p \in Worker, ProcessOK(p),
           p.state = "loop", p.stdin # <<>>, Head(p.stdin).cmd = "start"
    PROVE  /\ p.thread = 0 /\ Own(p) = {} /\ ~SessionRunning(p)
           /\ p.stdin \in Seq(Commands) /\ p.stdin[1].cmd = "start"
<1>1. p.stdin \in Seq(Commands) /\ p.stdin[1].cmd = "start"
  BY TailOfCommands DEF Worker
<1>2. p.thread = 0
  BY <1>1 DEF ProcessOK, StartsAfterStop, Ending, Leaving
<1>3. \A s \in p.sessions : s.id # 0
  BY DEF Worker, Session, SessionIds
<1>4. Own(p) = {} /\ ~SessionRunning(p)
  BY <1>2, <1>3 DEF ProcessOK, OneSession, SessionRunning, Own
<1>5. QED
  BY <1>1, <1>2, <1>4

\* "start" is taken, and no session comes of it.
LEMMA StartRefused ==
    ASSUME NEW p \in Worker, ProcessOK(p),
           p.state = "loop", p.stdin # <<>>, Head(p.stdin).cmd = "start"
    PROVE  Continues(p, [Taken(p) EXCEPT !.failed = TRUE])
<1> DEFINE c == p.stdin
           t == Taken(p)
           q == [t EXCEPT !.failed = TRUE]
<1>1. c \in Seq(Commands) /\ Alive(p) /\ p.thread = 0 /\ Own(p) = {} /\ c[1].cmd = "start"
  BY StartFindsNone DEF Alive
<1>2. /\ t \in Worker /\ t.stdin = Tail(c) /\ t.eof = p.eof /\ t.thread = p.thread
      /\ t.sessions = p.sessions /\ t.started = p.started /\ t.state = p.state
  BY TakenIs
<1> HIDE DEF t
<1>3. /\ q \in Worker /\ q.stdin = Tail(c) /\ q.eof = p.eof /\ q.thread = p.thread
      /\ q.sessions = p.sessions /\ q.started = p.started /\ q.state = p.state /\ q.failed
  BY <1>2 DEF Worker
<1> HIDE DEF q
<1>4. Numbered(q) /\ OneSession(q) /\ Own(q) = {}
  BY <1>1, <1>3 DEF ProcessOK, Numbered, OneSession, Own
<1>5. StartsAfterStop(q)
  BY <1>1, <1>3, TailOfCommands DEF ProcessOK, StartsAfterStop
<1>6. ASSUME NEW mode \in Modes \cup {Off}, Follows(p, mode)
      PROVE  Follows(q, mode)
  <2>1. CASE Tail(c) = <<>>
    <3>1. Len(c) = 1 /\ c[Len(c)].cmd = "start"
      BY <1>1, <2>1, TailOfCommands
    <3>2. mode # Off
      BY <1>6, <3>1 DEF Follows
    <3>3. QED
      BY <1>3, <1>4, <2>1, <3>2 DEF Follows, OnAir, InMode
  <2>2. CASE Tail(c) # <<>>
    <3>1. q.stdin[Len(q.stdin)] = c[Len(c)]
      BY <1>1, <1>3, <2>2, TailOfCommands
    <3>2. QED
      BY <1>3, <1>6, <2>2, <3>1 DEF Follows
  <2>3. QED
    BY <2>1, <2>2
<1>7. ASSUME GoesOn(p) PROVE GoesOn(q)
  <2>1. GoesOn(t)
    BY <1>7, TakenGoesOn DEF t
  <2>2. q.stdin = t.stdin /\ q.eof = t.eof /\ q.state = t.state
    BY <1>2, <1>3
  <2>3. QED
    BY <2>1, <2>2, Zenon DEF GoesOn, Leaving
<1>8. ~Fresh(p)
  BY DEF Fresh
<1>9. QED
  BY <1>1, <1>3, <1>4, <1>5, <1>6, <1>7, <1>8 DEF Continues, ProcessOK, q, t

\* "start" is taken, and its session listens.
LEMMA StartHeard ==
    ASSUME NEW p \in Worker, ProcessOK(p),
           p.state = "loop", p.stdin # <<>>, Head(p.stdin).cmd = "start"
    PROVE  Continues(p, Listening(Taken(p), Head(p.stdin).mode))
<1> DEFINE c == p.stdin
           t == Taken(p)
           m == Head(c).mode
           s == [id |-> p.started + 1, mode |-> m, ending |-> FALSE, left |-> FALSE]
           q == Listening(t, m)
<1>1. c \in Seq(Commands) /\ Alive(p) /\ p.started \in Nat /\ p.thread = 0 /\ Own(p) = {}
      /\ c[1].cmd = "start"
  BY StartFindsNone DEF Worker, Alive
<1>2. Head(c) = c[1] /\ Head(c) \in Commands /\ m \in Modes /\ Head(c) = Start(m)
  BY <1>1, TailOfCommands DEF Commands, Start, GivenMode
<1>3. /\ t \in Worker /\ t.stdin = Tail(c) /\ t.eof = p.eof /\ t.state = p.state
      /\ t.sessions = p.sessions /\ t.started = p.started
  BY TakenIs
<1> HIDE DEF t, m
<1>4. /\ q \in Worker /\ q.stdin = Tail(c) /\ q.eof = p.eof /\ q.thread = s.id /\ ~q.stopEvent
      /\ q.sessions = p.sessions \cup {s} /\ q.started = p.started + 1 /\ ~q.failed
      /\ q.state = "loop"
  <2> DEFINE on == t.sessions \cup {s}
             n == p.started + 1
  <2>1. s \in Session /\ on \in SUBSET Session /\ n \in Nat
    <3>1. n \in SessionIds /\ n \in Nat
      BY <1>1 DEF SessionIds
    <3>2. s \in Session
      BY <1>2, <3>1 DEF Session
    <3>3. t.sessions \in SUBSET Session
      BY <1>3, Zenon DEF Worker
    <3> HIDE DEF s
    <3>4. QED
      BY <3>1, <3>2, <3>3
  <2>2. q = [t EXCEPT !.stopEvent = FALSE, !.thread = n, !.started = n, !.sessions = on,
                      !.failed = FALSE]
    BY <1>3 DEF Listening
  <2>3. s.id = n /\ on = p.sessions \cup {s}
    BY <1>3
  <2> HIDE DEF q, on, s, n
  <2>4. QED
    BY <1>3, <2>1, <2>2, <2>3 DEF Worker, n
<1>5. s.id = p.started + 1 /\ s.mode = m /\ ~s.ending /\ ~s.left
  OBVIOUS
<1> HIDE DEF q, s
<1>6. Numbered(q)
  <2>1. \A r \in p.sessions : r.id \in Nat
    BY DEF Worker, Session, SessionIds
  <2>2. QED
    BY <1>1, <1>4, <1>5, <2>1 DEF ProcessOK, Numbered
<1>7. Own(q) = {s}
  BY <1>1, <1>4, <1>5 DEF Own
<1>8. OneSession(q)
  BY <1>4, <1>7 DEF OneSession
<1>9. ~(Tail(c) # <<>> /\ Tail(c)[1].cmd = "start")
  BY <1>1, <1>2, TailOfCommands DEF ProcessOK, StartsAfterStop
<1>10. StartsAfterStop(q)
  BY <1>1, <1>4, <1>9, TailOfCommands DEF ProcessOK, StartsAfterStop
<1>11. ASSUME NEW mode \in Modes \cup {Off}, Follows(p, mode)
       PROVE  Follows(q, mode)
  <2>1. CASE Tail(c) = <<>>
    <3>1. Len(c) = 1 /\ c[Len(c)] = Start(m)
      BY <1>1, <1>2, <2>1, TailOfCommands
    <3>2. mode # Off /\ mode = m
      BY <1>1, <1>11, <3>1 DEF Follows, Start, GivenMode
    <3>3. OnAir(q, mode)
      BY <1>4, <1>5, <1>7, <3>2 DEF OnAir, InMode
    <3>4. QED
      BY <1>4, <2>1, <3>2, <3>3 DEF Follows
  <2>2. CASE Tail(c) # <<>>
    <3>1. q.stdin[Len(q.stdin)] = c[Len(c)]
      BY <1>1, <1>4, <2>2, TailOfCommands
    <3>2. QED
      BY <1>4, <1>11, <2>2, <3>1 DEF Follows
  <2>3. QED
    BY <2>1, <2>2
<1>12. ASSUME GoesOn(p) PROVE GoesOn(q)
  <2>1. GoesOn(t)
    BY <1>12, TakenGoesOn DEF t
  <2>2. q.stdin = t.stdin /\ q.eof = t.eof /\ ~Leaving(q)
    BY <1>3, <1>4 DEF Leaving
  <2>3. QED
    BY <2>1, <2>2, Zenon DEF GoesOn
<1>13. ~Fresh(p)
  BY DEF Fresh
<1>14. QED
  BY <1>1, <1>4, <1>6, <1>8, <1>10, <1>11, <1>12, <1>13 DEF Continues, ProcessOK, q, m, t

LEMMA DeadIs ==
    ASSUME NEW p \in Worker
    PROVE  /\ Dead(p) \in Worker /\ ~Alive(Dead(p)) /\ Dead(p).eof = p.eof
           /\ Continues(p, Dead(p))
<1> DEFINE q == Dead(p)
<1>1. <<>> \in Seq(Commands) /\ Len(<<>>) = 0
  BY EmptySeq
<1>2. /\ q \in Worker /\ q.state = "dead" /\ q.sessions = {} /\ q.stdin = <<>> /\ q.eof = p.eof
  <2> DEFINE none == <<>>
  <2>1. /\ q = [p EXCEPT !.state = "dead", !.sessions = {}, !.stdin = none, !.behind = FALSE]
        /\ none \in Seq(Commands)
    BY <1>1 DEF Dead
  <2> HIDE DEF q, none
  <2>2. q \in Worker /\ q.state = "dead" /\ q.sessions = {} /\ q.stdin = none /\ q.eof = p.eof
    BY <2>1 DEF Worker
  <2>3. QED
    BY <2>2 DEF none
<1> HIDE DEF q
<1>3. ProcessOK(q)
  BY <1>1, <1>2 DEF ProcessOK, Numbered, OneSession, StartsAfterStop, Own
<1>4. GoesOn(p) => GoesOn(q)
  <2>1. DOMAIN <<>> = {}
    OBVIOUS
  <2>2. QED
    BY <1>2, <2>1 DEF GoesOn, Leaving
<1>5. QED
  BY <1>2, <1>3, <1>4 DEF Continues, Alive, q

\* "quit" is taken, or the end of stdin seen.
LEMMA QuitTaken ==
    ASSUME NEW p \in Worker, ProcessOK(p), p.state = "loop",
           (p.stdin # <<>> /\ Head(p.stdin) = Quit) \/ EndOfStdin(p)
    PROVE  Continues(p, Stopping(p, "leaving")) /\ ~GoesOn(p)
<1> DEFINE q == Stopping(p, "leaving")
<1>1. /\ q \in Worker /\ q.stdin = p.stdin /\ q.thread = p.thread /\ q.sessions = p.sessions
      /\ q.started = p.started /\ q.failed = p.failed /\ q.state = "leaving"
  <2>1. q \in {[p EXCEPT !.state = "leaving", !.stopEvent = b] : b \in BOOLEAN}
    BY DEF Stopping, Worker
  <2> HIDE DEF q
  <2>2. QED
    BY <2>1 DEF Worker
<1> HIDE DEF q
<1>2. ProcessOK(q) /\ Leaving(q) /\ Ending(q)
  BY <1>1 DEF ProcessOK, Numbered, OneSession, StartsAfterStop, Own, Ending, Leaving
<1>3. \A mode \in Modes \cup {Off} : Follows(p, mode) => Follows(q, mode)
  BY <1>1, <1>2 DEF Follows
<1>4. ~GoesOn(p)
  <2>1. CASE EndOfStdin(p)
    BY <2>1 DEF EndOfStdin, GoesOn
  <2>2. CASE p.stdin # <<>> /\ Head(p.stdin) = Quit
    <3>1. p.stdin \in Seq(Commands)
      BY DEF Worker
    <3>2. 1 \in DOMAIN p.stdin /\ p.stdin[1] = Quit
      BY <2>2, <3>1, TailOfCommands
    <3>3. QED
      BY <3>2 DEF GoesOn
  <2>3. QED
    BY <2>1, <2>2
<1>5. Fresh(p) => Fresh(q)
  BY <1>1 DEF Fresh, Untold
<1>6. QED
  BY <1>1, <1>2, <1>3, <1>4, <1>5 DEF Continues, Alive, q

\* A session that is not waited for any more is not accounted for.
LEMMA GivenUpIs ==
    ASSUME NEW p \in Worker, NEW id
    PROVE  LET q == GivenUp(p, id)
           IN  /\ q \in Worker /\ q.stdin = p.stdin /\ q.thread = p.thread /\ q.eof = p.eof
               /\ q.started = p.started /\ q.failed = p.failed /\ q.state = p.state
               /\ q.stopEvent = p.stopEvent
               /\ \A r \in q.sessions : \E s \in p.sessions : r.id = s.id
               /\ \A r \in Own(q) : r \in Own(p) /\ r.id # id
<1> DEFINE away(s) == [s EXCEPT !.left = s.left \/ s.id = id]
           on == {away(s) : s \in p.sessions}
           q == GivenUp(p, id)
<1>1. ASSUME NEW s \in p.sessions
      PROVE  /\ away(s) \in Session /\ away(s).id = s.id
             /\ away(s).left = (s.left \/ s.id = id)
             /\ ~away(s).left => away(s) = s
  <2> DEFINE b == s.left \/ s.id = id
  <2>1. s \in Session /\ s.left \in BOOLEAN /\ b \in BOOLEAN
    BY DEF Worker, Session
  <2>2. away(s) = [s EXCEPT !.left = b]
    OBVIOUS
  <2>3. ~b => ~s.left
    OBVIOUS
  <2> HIDE DEF b, away
  <2>4. away(s) \in Session /\ away(s).id = s.id /\ away(s).left = b
    BY <2>1, <2>2 DEF Session
  <2>5. ASSUME ~b PROVE away(s) = s
    <3>1. s.left = FALSE /\ b = FALSE
      BY <2>1, <2>3, <2>5
    <3>2. QED
      BY <2>1, <2>2, <3>1 DEF Session
  <2>6. QED
    BY <2>4, <2>5 DEF b
<1>2. q = [p EXCEPT !.sessions = on]
  BY DEF GivenUp
<1>3. on \in SUBSET Session
  BY <1>1
<1> HIDE DEF away
<1>4. \A r \in on : \E s \in p.sessions : r = away(s)
  OBVIOUS
<1> HIDE DEF q, on
<1>5. /\ q \in Worker /\ q.stdin = p.stdin /\ q.thread = p.thread /\ q.eof = p.eof
      /\ q.started = p.started /\ q.failed = p.failed /\ q.state = p.state
      /\ q.stopEvent = p.stopEvent /\ q.sessions = on
  BY <1>2, <1>3 DEF Worker
<1>6. \A r \in q.sessions : \E s \in p.sessions : r.id = s.id
  BY <1>1, <1>4, <1>5
<1>7. ASSUME NEW r \in Own(q)
      PROVE  r \in Own(p) /\ r.id # id
  <2>1. r \in on /\ ~r.left
    BY <1>5, <1>7 DEF Own
  <2>2. PICK s \in p.sessions : r = away(s)
    BY <1>4, <2>1
  <2>3. r = s /\ ~s.left /\ s.id # id
    BY <1>1, <2>1, <2>2
  <2>4. QED
    BY <2>3 DEF Own
<1>8. QED
  BY <1>5, <1>6, <1>7 DEF q

\* The join ends with the session, or by its timeout; the process leaves, or
\* takes its next command.
LEMMA JoinEnds ==
    ASSUME NEW p \in Worker, ProcessOK(p), p.state \in {"joining", "leaving"}
    PROVE  /\ ~SessionRunning(p) => Continues(p, AfterJoin(p))
           /\ Continues(p, GivenUp(AfterJoin(p), p.thread))
<1> DEFINE j == AfterJoin(p)
           g == GivenUp(j, p.thread)
<1>1. /\ j \in Worker /\ j.stdin = p.stdin /\ j.thread = 0 /\ j.sessions = p.sessions
      /\ j.started = p.started /\ j.failed = p.failed /\ j.eof = p.eof
      /\ j.state = IF p.state = "leaving" THEN "exiting" ELSE "loop"
  BY DEF AfterJoin, Worker
<1>2. Own(j) = Own(p)
  BY <1>1 DEF Own
<1> HIDE DEF j
<1>3. /\ g \in Worker /\ g.stdin = p.stdin /\ g.thread = 0 /\ g.started = p.started
      /\ g.failed = p.failed /\ g.state = j.state /\ g.eof = p.eof
      /\ \A r \in g.sessions : \E s \in p.sessions : r.id = s.id
      /\ \A r \in Own(g) : r \in Own(p) /\ r.id # p.thread
  BY <1>1, <1>2, GivenUpIs
<1> HIDE DEF g
<1>4. ASSUME NEW q \in Worker, q.stdin = p.stdin, q.thread = 0, q.started = p.started,
             q.failed = p.failed, q.state = j.state, q.eof = p.eof, Own(q) = {},
             \A r \in q.sessions : \E s \in p.sessions : r.id = s.id,
             p.state = "joining" => ~(p.stdin = <<>> /\ \E mode \in Modes : Follows(p, mode))
      PROVE  Continues(p, q)
  <2>1. Numbered(q) /\ OneSession(q) /\ StartsAfterStop(q)
    BY <1>4 DEF ProcessOK, Numbered, OneSession, StartsAfterStop
  <2>2. \A mode \in Modes \cup {Off} : Follows(p, mode) => Follows(q, mode)
    BY <1>1, <1>4 DEF Follows, Leaving
  <2>3. GoesOn(p) => GoesOn(q)
    BY <1>1, <1>4 DEF GoesOn, Leaving
  <2>4. Fresh(p) => Fresh(q)
    BY <1>4 DEF Fresh, Untold
  <2>5. QED
    BY <1>4, <2>1, <2>2, <2>3, <2>4 DEF Continues, ProcessOK, Alive
<1>5. p.state = "joining" => ~(p.stdin = <<>> /\ \E mode \in Modes : Follows(p, mode))
  BY OffIsNoMode DEF Follows, Leaving
<1>6. ASSUME ~SessionRunning(p)
      PROVE  Continues(p, j)
  <2>1. Own(p) = {}
    BY <1>6 DEF SessionRunning, ProcessOK, OneSession, Own
  <2>2. \A r \in j.sessions : \E s \in p.sessions : r.id = s.id
    BY <1>1
  <2>3. QED
    BY <1>1, <1>2, <1>4, <1>5, <2>1, <2>2
<1>7. Own(g) = {}
  BY <1>3 DEF ProcessOK, OneSession
<1>8. Continues(p, g)
  BY <1>3, <1>4, <1>5, <1>7
<1>9. QED
  BY <1>6, <1>8 DEF g, j

\* A session winds up, or is over, or what it left behind is.
LEMMA SessionGoesOn ==
    ASSUME NEW p \in Worker, ProcessOK(p)
    PROVE  /\ \A s \in p.sessions :
                 ~s.ending => Continues(p, [p EXCEPT !.sessions = (@ \ {s}) \cup {[s EXCEPT !.ending = TRUE]},
                                                     !.failed = @ \/ (~s.left /\ ~p.stopEvent)])
           /\ \A s \in p.sessions, b \in BOOLEAN :
                 s.ending => Continues(p, [p EXCEPT !.sessions = @ \ {s}, !.behind = @ \/ b])
           /\ Continues(p, [p EXCEPT !.behind = FALSE])
<1>1. p.sessions \in SUBSET Session /\ p.failed \in BOOLEAN /\ p.behind \in BOOLEAN
  BY Zenon DEF Worker
<1>2. ASSUME NEW on \in SUBSET Session, NEW f \in BOOLEAN, NEW b \in BOOLEAN, p.failed => f,
             \A r \in on : \E o \in p.sessions : o.id = r.id /\ o.mode = r.mode /\ o.left = r.left,
             \A r \in on, o \in on : r.left \/ o.left \/ r = o,
             f \/ \A r \in Own(p) : ~r.ending => p.stopEvent \/ r \in on,
             p.sessions = {} => on = {} /\ f = p.failed
      PROVE  Continues(p, [p EXCEPT !.sessions = on, !.failed = f, !.behind = b])
  <2> DEFINE q == [p EXCEPT !.sessions = on, !.failed = f, !.behind = b]
  <2>1. /\ q \in Worker /\ q.stdin = p.stdin /\ q.sessions = on /\ q.thread = p.thread /\ q.failed = f
        /\ q.started = p.started /\ q.stopEvent = p.stopEvent /\ q.state = p.state /\ q.eof = p.eof
    BY DEF Worker
  <2> HIDE DEF q
  <2>2. Numbered(q)
    BY <1>2, <2>1 DEF ProcessOK, Numbered
  <2>3. OneSession(q)
    BY <1>2, <2>1 DEF ProcessOK, OneSession, Own
  <2>4. StartsAfterStop(q) /\ (GoesOn(p) => GoesOn(q))
    BY <2>1 DEF ProcessOK, StartsAfterStop, GoesOn, Ending, Leaving
  <2>5. ASSUME NEW mode \in Modes, OnAir(p, mode) PROVE OnAir(q, mode)
    <3>1. \A r \in Own(q) : r.mode = mode
      BY <1>2, <2>1, <2>5 DEF OnAir, InMode, Own
    <3>2. ASSUME ~q.failed
          PROVE  ~q.stopEvent /\ \E r \in Own(q) : ~r.ending
      <4>1. PICK r \in Own(p) : ~r.ending /\ ~p.stopEvent
        BY <1>2, <2>1, <2>5, <3>2 DEF OnAir, InMode
      <4>2. r \in on /\ ~r.left
        BY <1>2, <2>1, <3>2, <4>1 DEF Own
      <4>3. QED
        BY <2>1, <4>1, <4>2 DEF Own
    <3>3. QED
      BY <3>1, <3>2 DEF OnAir, InMode
  <2>6. \A mode \in Modes \cup {Off} : Follows(p, mode) => Follows(q, mode)
    BY <2>1, <2>5 DEF Follows, Ending, Leaving
  <2>7. Fresh(p) => Fresh(q)
    <3>1. ASSUME Fresh(p) PROVE p.sessions = {}
      <4>1. \A s \in p.sessions : s.id \in Nat \ {0} /\ s.id <= 0
        BY <3>1 DEF Fresh, Untold, ProcessOK, Numbered, Worker, Session, SessionIds
      <4>2. QED
        BY <4>1
    <3>2. QED
      BY <1>2, <2>1, <3>1 DEF Fresh, Untold
  <2>8. QED
    BY <2>1, <2>2, <2>3, <2>4, <2>6, <2>7 DEF Continues, ProcessOK, Alive, q
<1>3. \A r \in p.sessions, o \in p.sessions : r.left \/ o.left \/ r = o
  BY DEF ProcessOK, OneSession, Own
<1>4. ASSUME NEW s \in p.sessions, ~s.ending
      PROVE  Continues(p, [p EXCEPT !.sessions = (@ \ {s}) \cup {[s EXCEPT !.ending = TRUE]},
                                    !.failed = @ \/ (~s.left /\ ~p.stopEvent)])
  <2> DEFINE t == [s EXCEPT !.ending = TRUE]
             on == (p.sessions \ {s}) \cup {t}
             f == p.failed \/ (~s.left /\ ~p.stopEvent)
  <2>1. s \in Session
    BY <1>1
  <2>2. t \in Session /\ t.id = s.id /\ t.mode = s.mode /\ t.left = s.left
    BY <2>1 DEF Session
  <2> HIDE DEF t
  <2>3. on \in SUBSET Session
    BY <1>1, <2>2
  <2>4. \A r \in on : \E o \in p.sessions : o.id = r.id /\ o.mode = r.mode /\ o.left = r.left
    BY <2>2
  <2>5. \A r \in on, o \in on : r.left \/ o.left \/ r = o
    BY <1>3, <2>2
  <2>6. f \in BOOLEAN /\ (p.failed => f)
    BY <1>1
  <2>7. f \/ \A r \in Own(p) : ~r.ending => p.stopEvent \/ r \in on
    BY <1>3 DEF Own
  <2> HIDE DEF on, f
  <2>8. Continues(p, [p EXCEPT !.sessions = on, !.failed = f, !.behind = p.behind])
    BY <1>1, <1>2, <2>3, <2>4, <2>5, <2>6, <2>7
  <2>9. [p EXCEPT !.sessions = on, !.failed = f, !.behind = p.behind]
           = [p EXCEPT !.sessions = on, !.failed = f]
    BY DEF Worker
  <2>10. QED
    BY <2>8, <2>9 DEF on, f, t
<1>5. ASSUME NEW s \in p.sessions, NEW b \in BOOLEAN, s.ending
      PROVE  Continues(p, [p EXCEPT !.sessions = @ \ {s}, !.behind = @ \/ b])
  <2> DEFINE on == p.sessions \ {s}
             c == p.behind \/ b
  <2>1. on \in SUBSET Session /\ c \in BOOLEAN
    BY <1>1
  <2>2. \A r \in on : r \in p.sessions
    OBVIOUS
  <2>3. \A r \in Own(p) : ~r.ending => r \in on
    BY <1>5 DEF Own
  <2> HIDE DEF on, c
  <2>4. Continues(p, [p EXCEPT !.sessions = on, !.failed = p.failed, !.behind = c])
    BY <1>1, <1>2, <1>3, <2>1, <2>2, <2>3
  <2>5. [p EXCEPT !.sessions = on, !.failed = p.failed, !.behind = c]
           = [p EXCEPT !.sessions = on, !.behind = c]
    BY DEF Worker
  <2>6. QED
    BY <2>4, <2>5 DEF on, c
<1>6. Continues(p, [p EXCEPT !.behind = FALSE])
  <2>1. \A r \in Own(p) : r \in p.sessions
    BY DEF Own
  <2>2. Continues(p, [p EXCEPT !.sessions = p.sessions, !.failed = p.failed, !.behind = FALSE])
    BY <1>1, <1>2, <1>3, <2>1
  <2>3. [p EXCEPT !.sessions = p.sessions, !.failed = p.failed, !.behind = FALSE]
           = [p EXCEPT !.behind = FALSE]
    BY DEF Worker
  <2>4. QED
    BY <2>2, <2>3
<1>7. QED
  BY <1>4, <1>5, <1>6

\* Whatever process w does by itself, it continues what it was.
LEMMA RunsOn ==
    ASSUME WorkersInv, NEW w \in DOMAIN workers, RunStep(w) \/ SessionStep(w)
    PROVE  \E q \in Worker :
              /\ workers' = [workers EXCEPT ![w] = q]
              /\ Continues(workers[w], q)
<1> DEFINE p == workers[w]
           Result(q) == workers' = [workers EXCEPT ![w] = q] /\ Continues(p, q)
<1>1. p \in Worker /\ ProcessOK(p)
  BY ElementOfSeq, LenProperties DEF WorkersInv
<1>2. SUFFICES \E q : Result(q)
  BY DEF Continues
<1> HIDE DEF p
<1>3. CASE Load(w)
  <2> DEFINE q == [p EXCEPT !.state = "loop"]
  <2>1. p.state = "loading" /\ workers' = [workers EXCEPT ![w] = q]
    BY <1>3 DEF Load, p
  <2>2. /\ q \in Worker /\ q.stdin = p.stdin /\ q.sessions = p.sessions /\ q.thread = p.thread
        /\ q.started = p.started /\ q.failed = p.failed /\ q.state = "loop" /\ q.eof = p.eof
        /\ q.stopEvent = p.stopEvent
    BY <1>1 DEF Worker
  <2> HIDE DEF q
  <2>3. /\ ProcessOK(q) /\ (GoesOn(p) => GoesOn(q)) /\ (Fresh(p) => Fresh(q))
    BY <1>1, <2>1, <2>2 DEF ProcessOK, Numbered, OneSession, StartsAfterStop, GoesOn, Own,
       Ending, Leaving, Fresh, Untold
  <2>4. \A mode \in Modes \cup {Off} : Follows(p, mode) => Follows(q, mode)
    BY <2>1, <2>2 DEF Follows, OnAir, InMode, Own, Ending, Leaving
  <2>5. Result(q)
    BY <2>1, <2>2, <2>3, <2>4 DEF Continues, Alive
  <2>6. QED
    BY <2>5
<1>4. CASE TakeStop(w)
  <2> DEFINE q == IF p.thread = 0 THEN Taken(p) ELSE Stopping(Taken(p), "joining")
  <2>1. p.state = "loop" /\ p.stdin # <<>> /\ Head(p.stdin) = Stop /\ workers' = [workers EXCEPT ![w] = q]
    BY <1>4 DEF TakeStop, p
  <2>2. Continues(p, q)
    BY <1>1, <2>1, StopTaken
  <2> HIDE DEF q
  <2>3. QED
    BY <2>1, <2>2
<1>5. CASE TakeStart(w)
  <2>1. p.state = "loop" /\ p.stdin # <<>> /\ Head(p.stdin).cmd = "start"
    BY <1>5 DEF TakeStart, p
  <2>2. ~SessionRunning(p)
    BY <1>1, <2>1, StartFindsNone
  <2>3. CASE workers' = [workers EXCEPT ![w] = [Taken(p) EXCEPT !.failed = TRUE]]
    BY <1>1, <2>1, <2>3, StartRefused
  <2>4. CASE workers' = [workers EXCEPT ![w] = Listening(Taken(p), Head(p.stdin).mode)]
    BY <1>1, <2>1, <2>4, StartHeard
  <2>5. QED
    BY <1>5, <2>2, <2>3, <2>4 DEF TakeStart, p
<1>6. CASE TakeQuit(w)
  <2>1. /\ p.state = "loop" /\ workers' = [workers EXCEPT ![w] = Stopping(p, "leaving")]
        /\ (p.stdin # <<>> /\ Head(p.stdin) = Quit) \/ EndOfStdin(p)
    BY <1>6 DEF TakeQuit, p
  <2>2. QED
    BY <1>1, <2>1, QuitTaken
<1>7. CASE Joined(w) \/ JoinTimesOut(w)
  <2>1. /\ p.state \in {"joining", "leaving"}
        /\ \/ ~SessionRunning(p) /\ workers' = [workers EXCEPT ![w] = AfterJoin(p)]
           \/ workers' = [workers EXCEPT ![w] = GivenUp(AfterJoin(p), p.thread)]
    BY <1>7 DEF Joined, JoinTimesOut, MustWait, p
  <2>2. QED
    BY <1>1, <2>1, JoinEnds
<1>8. CASE Exits(w) \/ ExitsEarly(w)
  <2>1. workers' = [workers EXCEPT ![w] = Dead(p)]
    BY <1>8 DEF Exits, ExitsEarly, p
  <2>2. QED
    BY <1>1, <2>1, DeadIs
<1>9. CASE SessionStops(w) \/ SessionFails(w)
  <2>1. PICK s \in p.sessions :
            /\ ~s.ending
            /\ workers' = [workers EXCEPT
                   ![w].sessions = (@ \ {s}) \cup {[s EXCEPT !.ending = TRUE]},
                   ![w].failed = @ \/ (~s.left /\ ~p.stopEvent)]
    BY <1>9 DEF SessionStops, SessionFails, SessionLeavesLoop, p
  <2> DEFINE q == [p EXCEPT !.sessions = (@ \ {s}) \cup {[s EXCEPT !.ending = TRUE]},
                            !.failed = @ \/ (~s.left /\ ~p.stopEvent)]
  <2>2. workers' = [workers EXCEPT ![w] = q]
    BY <2>1 DEF p
  <2>3. Continues(p, q)
    BY <1>1, <2>1, SessionGoesOn
  <2> HIDE DEF q
  <2>4. QED
    BY <2>2, <2>3
<1>10. CASE SessionEnds(w)
  <2>1. PICK s \in p.sessions, b \in BOOLEAN :
            /\ s.ending
            /\ workers' = [workers EXCEPT ![w].sessions = @ \ {s}, ![w].behind = @ \/ b]
    BY <1>10 DEF SessionEnds, p
  <2> DEFINE q == [p EXCEPT !.sessions = @ \ {s}, !.behind = @ \/ b]
  <2>2. workers' = [workers EXCEPT ![w] = q]
    BY <2>1 DEF p
  <2>3. Continues(p, q)
    BY <1>1, <2>1, SessionGoesOn
  <2> HIDE DEF q
  <2>4. QED
    BY <2>2, <2>3
<1>11. CASE TransformReturns(w)
  <2> DEFINE q == [p EXCEPT !.behind = FALSE]
  <2>1. workers' = [workers EXCEPT ![w] = q]
    BY <1>11 DEF TransformReturns, p
  <2>2. Continues(p, q)
    BY <1>1, SessionGoesOn
  <2> HIDE DEF q
  <2>3. QED
    BY <2>1, <2>2
<1>12. QED
  BY <1>3, <1>4, <1>5, <1>6, <1>7, <1>8, <1>9, <1>10, <1>11 DEF RunStep, SessionStep

-----------------------------------------------------------------------------
(* The steps that are a process's own keep the invariant.                  *)

LEMMA ProcessStep ==
    ASSUME ControlInv, NEW w \in DOMAIN workers, NEW q, Continues(workers[w], q),
           workers' = [workers EXCEPT ![w] = q],
           UNCHANGED <<tray, events, watched, phase, commands, forgotten,
                       heldSince, heldLost, unspawned>>,
           deaths' \in Nat
    PROVE  ControlInv'
<1>1. workers \in Seq(Worker) /\ DOMAIN workers = 1..Len(workers) /\ q \in Worker
  BY LenProperties DEF ControlInv, WorkersInv, Continues
<1>2. /\ workers' \in Seq(Worker) /\ Len(workers') = Len(workers) /\ DOMAIN workers' = DOMAIN workers
      /\ \A v \in DOMAIN workers : workers'[v] = IF v = w THEN q ELSE workers[v]
  <2>1. /\ workers' \in Seq(Worker) /\ Len(workers') = Len(workers)
        /\ \A v \in 1..Len(workers) : workers'[v] = IF v = w THEN q ELSE workers[v]
    BY <1>1, ExceptSeq
  <2>2. QED
    BY <1>1, <2>1, LenProperties
<1>3. \A v \in DOMAIN workers : Alive(workers'[v]) => Alive(workers[v])
  BY <1>2 DEF Continues
<1>4. WorkersInv'
  BY <1>2 DEF ControlInv, WorkersInv, Continues
<1>5. ControlTypeOK'
  BY <1>1, <1>2, <1>4 DEF ControlInv, ControlTypeOK, WorkersInv, ProcessOK, Numbered
<1>6. TrayInv'
  <2>1. \A i \in DOMAIN events : events[i] \in DOMAIN workers
    BY ElementOfSeq, LenProperties DEF ControlInv, ControlTypeOK
  <2>2. (\A i \in DOMAIN events : ~Alive(workers[events[i]]))'
    BY <1>3, <2>1 DEF ControlInv, TrayInv
  <2>3. (\A v \in DOMAIN workers : Alive(workers[v]) => v = tray.process \/ v \in forgotten)'
    BY <1>2, <1>3 DEF ControlInv, TrayInv
  <2>4. ExitToCome => ExitToCome'
    BY <1>3 DEF ExitToCome, ControlInv, ControlTypeOK
  <2>5. tray.process # 0 => tray.process \in DOMAIN workers
    BY <1>1 DEF ControlInv, ControlTypeOK, TrayState
  <2>6. tray.mode \in Modes \cup {Off}
    BY DEF ControlInv, ControlTypeOK, TrayState
  <2>7. ((tray.process # 0 /\ Alive(workers[tray.process])) => Led(workers[tray.process], tray.mode))'
    <3>1. ASSUME tray.process # 0, Alive(workers'[tray.process])
          PROVE  \/ Follows(workers'[tray.process], tray.mode)
                 \/ tray.mode # Off /\ Fresh(workers'[tray.process]) /\ ExitToCome'
      <4>1. tray.process \in DOMAIN workers /\ Led(workers[tray.process], tray.mode)
        BY <1>3, <2>5, <3>1 DEF ControlInv, TrayInv
      <4>2. CASE tray.process # w
        BY <1>2, <2>4, <4>1, <4>2 DEF Led
      <4>3. CASE tray.process = w
        BY <1>2, <2>4, <2>6, <3>1, <4>1, <4>3 DEF Led, Continues
      <4>4. QED
        BY <4>2, <4>3
    <3>2. QED
      BY <3>1 DEF Led
  <2>8. QED
    BY <2>2, <2>3, <2>7 DEF ControlInv, TrayInv
<1>7. QED
  BY <1>4, <1>5, <1>6 DEF ControlInv

LEMMA RunsKeeps ==
    ASSUME ControlInv, NEW w \in DOMAIN workers, Runs(w) \/ Listens(w)
    PROVE  ControlInv'
<1>1. PICK q \in Worker : workers' = [workers EXCEPT ![w] = q] /\ Continues(workers[w], q)
  BY RunsOn DEF Runs, Listens, ControlInv
<1>2. UNCHANGED <<tray, events, watched, phase, history>>
  BY DEF Runs, Listens
<1>3. deaths \in Nat
  BY DEF ControlInv, ControlTypeOK
<1>4. QED
  BY <1>1, <1>2, <1>3, ProcessStep DEF history

LEMMA DiesKeeps ==
    ASSUME ControlInv, NEW w \in DOMAIN workers, Dies(w)
    PROVE  ControlInv'
<1>1. workers[w] \in Worker
  BY ElementOfSeq, LenProperties DEF ControlInv, WorkersInv
<1>2. workers' = [workers EXCEPT ![w] = Dead(workers[w])] /\ deaths' = deaths + 1
  BY DEF Dies, LoadFails, Crash
<1>3. Continues(workers[w], Dead(workers[w]))
  BY <1>1, DeadIs
<1>4. deaths' \in Nat
  BY <1>2 DEF ControlInv, ControlTypeOK
<1>5. QED
  BY <1>2, <1>3, <1>4, ProcessStep DEF Dies

LEMMA MonitorReportsKeeps ==
    ASSUME ControlInv, NEW w \in DOMAIN workers, MonitorReports(w)
    PROVE  ControlInv'
<1>1. /\ ~Alive(workers[w]) /\ events' = Append(events, w) /\ watched' \subseteq watched
      /\ UNCHANGED <<workers, tray, phase, commands, deaths, forgotten, heldSince, heldLost, unspawned>>
  BY DEF MonitorReports, history
<1>2. events \in Seq(DOMAIN workers)
  BY DEF ControlInv, ControlTypeOK
<1>3. /\ events' \in Seq(DOMAIN workers) /\ Len(events') = Len(events) + 1 /\ Len(events) \in Nat
      /\ \A i \in 1..Len(events) : events'[i] = events[i]
      /\ events'[Len(events) + 1] = w
  BY <1>1, <1>2, AppendProperties, LenProperties
<1>4. DOMAIN events' = 1..(Len(events) + 1) /\ DOMAIN events = 1..Len(events)
  BY <1>2, <1>3, LenProperties
<1>5. \A i \in DOMAIN events' : ~Alive(workers[events'[i]])
  BY <1>1, <1>3, <1>4 DEF ControlInv, TrayInv
<1>6. ControlTypeOK'
  BY <1>1, <1>3 DEF ControlInv, ControlTypeOK
<1>7. events' # <<>> /\ ExitToCome'
  BY <1>3, EmptySeq DEF ExitToCome
<1>8. WorkersInv' /\ TrayInv'
  BY <1>1, <1>5, <1>7 DEF ControlInv, WorkersInv, TrayInv, Led
<1>9. QED
  BY <1>6, <1>8 DEF ControlInv

-----------------------------------------------------------------------------
(* What the tray tells a process.                                          *)

Told(p, c) == [p EXCEPT !.stdin = Append(@, c)]

LEMMA ToldIs ==
    ASSUME NEW p \in Worker, NEW c \in Commands
    PROVE  /\ Told(p, c) \in Worker
           /\ Told(p, c).state = p.state /\ Told(p, c).eof = p.eof
           /\ Told(p, c).thread = p.thread /\ Told(p, c).sessions = p.sessions
           /\ Told(p, c).started = p.started
           /\ LET d == Told(p, c).stdin
              IN  /\ d # <<>> /\ Len(d) = Len(p.stdin) + 1 /\ d[Len(d)] = c
                  /\ DOMAIN d = 1..(Len(p.stdin) + 1) /\ DOMAIN p.stdin = 1..Len(p.stdin)
                  /\ Len(p.stdin) \in Nat /\ (p.stdin # <<>> => Len(p.stdin) >= 1)
                  /\ \A i \in 1..Len(p.stdin) : d[i] = p.stdin[i]
<1> DEFINE d == Append(p.stdin, c)
<1>1. p.stdin \in Seq(Commands)
  BY DEF Worker
<1>2. /\ d \in Seq(Commands) /\ d # <<>> /\ Len(d) = Len(p.stdin) + 1 /\ d[Len(p.stdin) + 1] = c
      /\ \A i \in 1..Len(p.stdin) : d[i] = p.stdin[i]
  BY <1>1, AppendProperties
<1>3. /\ DOMAIN d = 1..(Len(p.stdin) + 1) /\ DOMAIN p.stdin = 1..Len(p.stdin)
      /\ Len(p.stdin) \in Nat /\ (p.stdin # <<>> => Len(p.stdin) >= 1)
  BY <1>1, <1>2, LenProperties, EmptySeq
<1>4. Told(p, c) = [p EXCEPT !.stdin = d]
  BY DEF Told
<1> HIDE DEF d
<1>5. /\ Told(p, c) \in Worker /\ Told(p, c).stdin = d
      /\ Told(p, c).state = p.state /\ Told(p, c).eof = p.eof
      /\ Told(p, c).thread = p.thread /\ Told(p, c).sessions = p.sessions
      /\ Told(p, c).started = p.started
  BY <1>2, <1>4 DEF Worker
<1>6. QED
  BY <1>2, <1>3, <1>5

LEMMA ToldToEnd ==
    ASSUME NEW p \in Worker, ProcessOK(p), NEW c \in {Stop, Quit}
    PROVE  /\ Told(p, c) \in Worker /\ ProcessOK(Told(p, c))
           /\ (c = Stop /\ GoesOn(p)) => GoesOn(Told(p, c))
           /\ Alive(Told(p, c)) <=> Alive(p)
           /\ Follows(Told(p, c), Off)
<1> DEFINE q == Told(p, c)
           d == q.stdin
<1>1. c \in Commands /\ c.cmd # "start" /\ Stop # Quit
  BY DEF Commands, Stop, Quit
<1> HIDE DEF q
<1>2. /\ q \in Worker /\ q.state = p.state /\ q.eof = p.eof /\ q.thread = p.thread
      /\ q.sessions = p.sessions /\ q.started = p.started
      /\ d # <<>> /\ Len(d) = Len(p.stdin) + 1 /\ d[Len(d)] = c
      /\ DOMAIN d = 1..(Len(p.stdin) + 1) /\ DOMAIN p.stdin = 1..Len(p.stdin)
      /\ Len(p.stdin) \in Nat /\ (p.stdin # <<>> => Len(p.stdin) >= 1)
      /\ \A i \in 1..Len(p.stdin) : d[i] = p.stdin[i]
  BY <1>1, ToldIs DEF q
<1>3. Numbered(q) /\ OneSession(q)
  BY <1>2 DEF ProcessOK, Numbered, OneSession, Own
<1>4. ASSUME NEW i \in 1..(Len(d) - 1), d[i].cmd = "start"
      PROVE  d[i + 1].cmd # "start"
  <2>1. CASE i = Len(d) - 1
    BY <1>1, <1>2, <2>1
  <2>2. CASE i # Len(d) - 1
    <3>1. i \in 1..(Len(p.stdin) - 1) /\ d[i] = p.stdin[i] /\ d[i + 1] = p.stdin[i + 1]
      BY <1>2, <2>2
    <3>2. QED
      BY <1>2, <1>4, <3>1 DEF ProcessOK, StartsAfterStop
  <2>3. QED
    BY <2>1, <2>2
<1>5. p.stdin = <<>> => Len(p.stdin) = 0
  BY EmptySeq
<1>6. d[1].cmd = "start" => q.thread = 0 \/ Ending(q)
  BY <1>1, <1>2, <1>5 DEF ProcessOK, StartsAfterStop, Ending, Leaving
<1>7. StartsAfterStop(q)
  BY <1>4, <1>6 DEF StartsAfterStop
<1>8. (c = Stop /\ GoesOn(p)) => GoesOn(q)
  BY <1>1, <1>2 DEF GoesOn, Leaving
<1>9. Follows(q, Off)
  BY <1>1, <1>2 DEF Follows
<1>10. QED
  BY <1>2, <1>3, <1>7, <1>8, <1>9 DEF ProcessOK, Alive, q

LEMMA ToldStart ==
    ASSUME NEW p \in Worker, ProcessOK(p), GoesOn(p), Follows(p, Off), NEW m \in Modes
    PROVE  /\ Told(p, Start(m)) \in Worker /\ ProcessOK(Told(p, Start(m))) /\ GoesOn(Told(p, Start(m)))
           /\ Alive(Told(p, Start(m))) <=> Alive(p)
           /\ Follows(Told(p, Start(m)), m)
<1> DEFINE c == Start(m)
           q == Told(p, c)
           d == q.stdin
<1>1. c \in Commands /\ c.cmd = "start" /\ c # Quit /\ m # Off
  BY OffIsNoMode DEF Commands, Start, GivenMode, Quit
<1> HIDE DEF q, c
<1>2. /\ q \in Worker /\ q.state = p.state /\ q.eof = p.eof /\ q.thread = p.thread
      /\ q.sessions = p.sessions /\ q.started = p.started
      /\ d # <<>> /\ Len(d) = Len(p.stdin) + 1 /\ d[Len(d)] = c
      /\ DOMAIN d = 1..(Len(p.stdin) + 1) /\ DOMAIN p.stdin = 1..Len(p.stdin)
      /\ Len(p.stdin) \in Nat /\ (p.stdin # <<>> => Len(p.stdin) >= 1)
      /\ \A i \in 1..Len(p.stdin) : d[i] = p.stdin[i]
  BY <1>1, ToldIs DEF q
<1>3. Numbered(q) /\ OneSession(q)
  BY <1>2 DEF ProcessOK, Numbered, OneSession, Own
<1>4. ASSUME NEW i \in 1..(Len(d) - 1), d[i].cmd = "start"
      PROVE  d[i + 1].cmd # "start"
  <2>1. CASE i = Len(d) - 1
    <3>1. p.stdin # <<>>
      BY <1>2, EmptySeq
    <3>2. p.stdin[i].cmd # "start"
      BY <1>2, <1>4, <2>1, <3>1 DEF Follows
    <3>3. QED
      BY <1>2, <1>4, <2>1, <3>2
  <2>2. CASE i # Len(d) - 1
    <3>1. i \in 1..(Len(p.stdin) - 1) /\ d[i] = p.stdin[i] /\ d[i + 1] = p.stdin[i + 1]
      BY <1>2, <2>2
    <3>2. QED
      BY <1>2, <1>4, <3>1 DEF ProcessOK, StartsAfterStop
  <2>3. QED
    BY <2>1, <2>2
<1>5. d[1].cmd = "start" => q.thread = 0 \/ Ending(q)
  <2>1. CASE p.stdin = <<>>
    BY <1>2, <2>1 DEF Follows, Ending, Leaving
  <2>2. CASE p.stdin # <<>>
    BY <1>2, <2>2 DEF ProcessOK, StartsAfterStop, Ending, Leaving
  <2>3. QED
    BY <2>1, <2>2
<1>6. StartsAfterStop(q)
  BY <1>4, <1>5 DEF StartsAfterStop
<1>7. GoesOn(q)
  BY <1>1, <1>2 DEF GoesOn, Leaving
<1>8. Follows(q, m)
  BY <1>1, <1>2 DEF Follows, c
<1>9. QED
  BY <1>2, <1>3, <1>6, <1>7, <1>8 DEF ProcessOK, Alive, q, c

LEMMA NewWorkerIs ==
    /\ NewWorker \in Worker /\ ProcessOK(NewWorker) /\ GoesOn(NewWorker) /\ Alive(NewWorker)
    /\ Follows(NewWorker, Off) /\ Fresh(NewWorker)
<1>1. <<>> \in Seq(Commands) /\ Len(<<>>) = 0 /\ DOMAIN <<>> = {}
  BY EmptySeq
<1>2. /\ NewWorker.state = "loading" /\ NewWorker.stdin = <<>> /\ ~NewWorker.eof
      /\ NewWorker.thread = 0 /\ NewWorker.sessions = {} /\ NewWorker.started = 0 /\ ~NewWorker.failed
  BY DEF NewWorker
<1>3. NewWorker \in Worker
  BY <1>1 DEF NewWorker, Worker
<1>4. ProcessOK(NewWorker)
  BY <1>1, <1>2 DEF ProcessOK, Numbered, OneSession, StartsAfterStop, Own
<1>5. GoesOn(NewWorker) /\ Alive(NewWorker)
  BY <1>1, <1>2 DEF GoesOn, Alive, Leaving
<1>6. Follows(NewWorker, Off) /\ Fresh(NewWorker)
  BY <1>2 DEF Follows, Fresh, Untold
<1>7. QED
  BY <1>3, <1>4, <1>5, <1>6

-----------------------------------------------------------------------------
(* The building blocks of the handlers, on tray and workers at once.       *)

SystemState == [tray: TrayState, workers: Seq(Worker)]

\* The exit of the tray's worker will be heard of.
Heeds(s) ==
    s.tray.process # 0 =>
        s.tray.process \in watched \/ s.tray.process \notin DOMAIN workers \/ events # <<>>

\* A handler may be at s; none of the processes is revived in it.
Sound(s) ==
    /\ s \in SystemState /\ s.tray.process <= Len(s.workers)
    /\ s.tray.mode # Off => s.tray.process # 0
    /\ s.tray.timer => s.tray.restartPending
    /\ \A w \in DOMAIN s.workers : ProcessOK(s.workers[w]) /\ GoesOn(s.workers[w])
    /\ \A w \in DOMAIN s.workers : Alive(s.workers[w]) => w = s.tray.process \/ w \in forgotten
    /\ (s.tray.process # 0 /\ Alive(s.workers[s.tray.process]))
          => Led(s.workers[s.tray.process], s.tray.mode)
    /\ (s.tray.mode # Off /\ ~Alive(s.workers[s.tray.process])) => ExitToCome
    /\ Heeds(s)

Extends(s) ==
    /\ workers \in Seq(Worker) /\ Len(workers) <= Len(s.workers)
    /\ \A w \in DOMAIN workers : Alive(s.workers[w]) => Alive(workers[w])

LEMMA SystemOf ==
    ASSUME NEW s \in SystemState
    PROVE  /\ s.tray \in TrayState /\ s.tray.process \in Nat
           /\ s.tray.mode \in Modes \cup {Off} /\ s.tray.hold \in BOOLEAN
           /\ s.workers \in Seq(Worker) /\ Len(s.workers) \in Nat
           /\ DOMAIN s.workers = 1..Len(s.workers)
           /\ \A w \in DOMAIN s.workers : s.workers[w] \in Worker
<1>1. s.tray \in TrayState /\ s.workers \in Seq(Worker)
  BY DEF SystemState
<1>2. /\ s.tray.process \in Nat /\ s.tray.mode \in Modes \cup {Off} /\ s.tray.hold \in BOOLEAN
  BY <1>1 DEF TrayState
<1>3. QED
  BY <1>1, <1>2, LenProperties, ElementOfSeq

\* One process is changed, and the tray.
LEMMA OneChanged ==
    ASSUME NEW s, Sound(s), Extends(s), NEW r \in SystemState, NEW q \in Worker,
           s.tray.process # 0, r.tray.process = s.tray.process,
           r.workers = [s.workers EXCEPT ![s.tray.process] = q],
           r.tray.timer => r.tray.restartPending,
           ProcessOK(q), GoesOn(q), Alive(q) => Alive(s.workers[s.tray.process]),
           Alive(q) => Follows(q, r.tray.mode),
           ~Alive(q) => r.tray.mode = Off
    PROVE  Sound(r) /\ Extends(r)
<1> DEFINE i == s.tray.process
<1>1. s \in SystemState /\ i \in 1..Len(s.workers)
  BY SystemOf DEF Sound
<1>2. /\ Len(r.workers) = Len(s.workers) /\ DOMAIN r.workers = DOMAIN s.workers
      /\ \A w \in DOMAIN s.workers : r.workers[w] = IF w = i THEN q ELSE s.workers[w]
  <2>1. /\ Len(r.workers) = Len(s.workers)
        /\ \A w \in 1..Len(s.workers) : r.workers[w] = IF w = i THEN q ELSE s.workers[w]
    BY <1>1, SystemOf, ExceptSeq
  <2>2. QED
    BY <1>1, <2>1, SystemOf
<1>3. DOMAIN workers \subseteq DOMAIN s.workers
  BY <1>1, SystemOf, LenProperties DEF Extends
<1>4. QED
  BY <1>1, <1>2, <1>3, SystemOf DEF Sound, Extends, Led, Heeds

\* stop_dictation
LEMMA StopSound ==
    ASSUME NEW s, Sound(s), Extends(s)
    PROVE  LET r == StopDictation(s)
           IN  /\ Sound(r) /\ Extends(r)
               /\ r.tray.mode = Off
               /\ r.tray.hold => s.tray.hold /\ s.tray.mode = Off
               /\ r.tray.process = s.tray.process
<1>1. s \in SystemState
  BY DEF Sound
<1>2. CASE s.tray.mode = Off
  BY <1>2 DEF StopDictation
<1>3. CASE s.tray.mode # Off
  <2> DEFINE i == s.tray.process
             p == s.workers[i]
             t == [s.tray EXCEPT !.mode = Off, !.hold = FALSE]
             r == StopDictation(s)
  <2>1. /\ i # 0 /\ i \in 1..Len(s.workers) /\ p \in Worker /\ ProcessOK(p) /\ GoesOn(p)
        /\ s.tray \in TrayState /\ s.workers \in Seq(Worker)
    BY <1>1, <1>3, SystemOf DEF Sound
  <2>2. /\ t \in TrayState /\ t.mode = Off /\ ~t.hold /\ t.process = i
        /\ t.timer = s.tray.timer /\ t.restartPending = s.tray.restartPending
    BY <2>1 DEF TrayState
  <2>3. CASE Running(s)
    <3> DEFINE q == Told(p, Stop)
    <3>1. /\ q \in Worker /\ ProcessOK(q) /\ GoesOn(q) /\ (Alive(q) <=> Alive(p))
          /\ Follows(q, Off)
      BY <2>1, ToldToEnd
    <3>2. r.tray = t /\ r.workers = [s.workers EXCEPT ![i] = q] /\ r \in [tray: {r.tray}, workers: {r.workers}]
      <4> DEFINE u == Sent(s, Stop)
      <4>1. u = [s EXCEPT !.workers = [s.workers EXCEPT ![i] = q]]
        BY DEF Sent, Told
      <4> HIDE DEF q
      <4>2. u.tray = s.tray /\ u.workers = [s.workers EXCEPT ![i] = q] /\ u \in [tray: {u.tray}, workers: {u.workers}]
        BY <1>1, <4>1 DEF SystemState
      <4>3. r = [u EXCEPT !.tray = t]
        BY <1>3, <2>3, <4>2 DEF StopDictation, HoldOver
      <4> HIDE DEF u, r, t
      <4>4. QED
        BY <4>2, <4>3
    <3> HIDE DEF q, r, t
    <3>3. r.workers \in Seq(Worker)
      <4>1. [s.workers EXCEPT ![i] = q] \in Seq(Worker)
        BY <2>1, <3>1, ExceptSeq
      <4>2. QED
        BY <3>2, <4>1
    <3>4. r \in SystemState
      BY <2>2, <3>2, <3>3 DEF SystemState
    <3>5. /\ r.tray.process = s.tray.process /\ r.tray.mode = Off
          /\ r.tray.timer => r.tray.restartPending
      BY <2>2, <3>2 DEF Sound
    <3>6. (Alive(q) => Alive(s.workers[s.tray.process])) /\ s.tray.process # 0
      BY <2>1, <3>1
    <3>7. r.workers = [s.workers EXCEPT ![s.tray.process] = q] /\ (Alive(q) => Follows(q, r.tray.mode))
      BY <3>1, <3>2, <3>5
    <3> HIDE DEF i, p
    <3>8. Sound(r) /\ Extends(r)
      BY <3>1, <3>4, <3>5, <3>6, <3>7, OneChanged
    <3>9. QED
      BY <2>2, <3>2, <3>8 DEF r, i
  <2>4. CASE ~Running(s)
    <3>1. r = [s EXCEPT !.tray = t]
      BY <1>1, <1>3, <2>4 DEF StopDictation, HoldOver, SystemState
    <3> HIDE DEF r, t
    <3>2. r.tray = t /\ r.workers = s.workers /\ r \in SystemState
      BY <1>1, <2>2, <3>1 DEF SystemState
    <3>3. Sound(r) /\ Extends(r)
      BY <2>1, <2>2, <2>4, <3>2 DEF Sound, Extends, Running, Heeds
    <3>4. QED
      BY <2>2, <3>2, <3>3 DEF r
  <2>5. QED
    BY <2>3, <2>4
<1>4. QED
  BY <1>2, <1>3

\* _ensure_worker_process
LEMMA EnsuredSound ==
    ASSUME NEW s, Sound(s), Extends(s)
    PROVE  LET e == Ensured(s)
           IN  /\ Sound(e) /\ Extends(e)
               /\ Running(e)
               /\ e.tray.mode = s.tray.mode /\ e.tray.hold = s.tray.hold
<1>1. s \in SystemState /\ s.tray \in TrayState /\ s.workers \in Seq(Worker) /\ Len(s.workers) \in Nat
  BY SystemOf DEF Sound
<1>2. CASE Running(s)
  BY <1>2 DEF Ensured, MustSpawn
<1>3. CASE ~Running(s)
  <2> DEFINE n == Len(s.workers) + 1
             all == Append(s.workers, NewWorker)
             t == [s.tray EXCEPT !.process = n]
             e == Ensured(s)
  <2>1. /\ all \in Seq(Worker) /\ Len(all) = n /\ all[n] = NewWorker
        /\ \A w \in 1..Len(s.workers) : all[w] = s.workers[w]
    BY <1>1, NewWorkerIs, AppendProperties
  <2>2. DOMAIN all = 1..n /\ DOMAIN s.workers = 1..Len(s.workers) /\ n \in Nat /\ n # 0
    BY <1>1, <2>1, LenProperties
  <2>3. t \in TrayState /\ t.process = n /\ t.mode = s.tray.mode /\ t.hold = s.tray.hold
        /\ t.timer = s.tray.timer /\ t.restartPending = s.tray.restartPending
    BY <1>1, <2>2 DEF TrayState
  <2>4. e = [s EXCEPT !.workers = all, !.tray = t]
    BY <1>1, <1>3 DEF Ensured, MustSpawn, SystemState
  <2> HIDE DEF e, t, all
  <2>5. e.workers = all /\ e.tray = t /\ e \in SystemState
    BY <1>1, <2>1, <2>3, <2>4 DEF SystemState
  <2>6. t.mode \in Modes \cup {Off}
    BY <2>3 DEF TrayState
  <2>7. Alive(all[n]) /\ Led(all[n], t.mode)
    <3>1. t.mode # Off => ExitToCome
      BY <1>3, <2>3 DEF Sound, Running
    <3>2. QED
      BY <2>1, <3>1, NewWorkerIs DEF Led
  <2>8. \A w \in 1..Len(s.workers) : Alive(s.workers[w]) => w \in forgotten
    BY <1>3, <2>2 DEF Sound, Running
  <2>9. \A w \in 1..n : w = n \/ w \in 1..Len(s.workers)
    BY <1>1
  <2>10. \A w \in DOMAIN all : ProcessOK(all[w]) /\ GoesOn(all[w])
    BY <2>1, <2>2, <2>9, NewWorkerIs DEF Sound
  <2>11. \A w \in DOMAIN all : Alive(all[w]) => w = n \/ w \in forgotten
    BY <2>1, <2>2, <2>8, <2>9
  <2>12. s.tray.timer => s.tray.restartPending
    BY DEF Sound
  <2>13. Sound(e)
    <3>1. n \notin DOMAIN workers
      BY <1>1, LenProperties DEF Extends
    <3>2. Heeds(e)
      BY <2>3, <2>5, <3>1 DEF Heeds
    <3>3. t.mode # Off => t.process # 0
      BY <2>2, <2>3
    <3>4. QED
      BY <2>1, <2>2, <2>3, <2>5, <2>7, <2>10, <2>11, <2>12, <3>2, <3>3 DEF Sound
  <2>14. Extends(e)
    <3>1. DOMAIN workers = 1..Len(workers) /\ Len(workers) \in Nat
      BY LenProperties DEF Extends
    <3>2. \A w \in DOMAIN workers : e.workers[w] = s.workers[w]
      BY <1>1, <2>1, <2>5, <3>1 DEF Extends
    <3>3. Len(workers) <= Len(e.workers)
      BY <1>1, <2>1, <2>5, <3>1 DEF Extends
    <3>4. QED
      BY <3>2, <3>3 DEF Extends
  <2>15. Running(e)
    BY <2>2, <2>3, <2>5, <2>7 DEF Running
  <2>16. QED
    BY <2>3, <2>5, <2>13, <2>14, <2>15 DEF e
<1>4. QED
  BY <1>2, <1>3

\* start_dictation, in the mode or, when it fails, in none.
LEMMA StartSound ==
    ASSUME NEW s, Sound(s), Extends(s), s.tray.mode = Off,
           NEW m \in Modes, NEW r \in StartDictation(s, m)
    PROVE  /\ Sound(r) /\ Extends(r)
           /\ r.tray.mode \in {Off, m}
           /\ r.tray.hold = s.tray.hold
<1> DEFINE e == Ensured(s)
           i == e.tray.process
           p == e.workers[i]
<1>1. /\ Sound(e) /\ Extends(e) /\ Running(e) /\ e.tray.mode = Off /\ e.tray.hold = s.tray.hold
  BY EnsuredSound
<1>2. \/ r = s
      \/ r = [Sent(e, Start(m)) EXCEPT !.tray.mode = m]
      \/ r = [e EXCEPT !.workers[e.tray.process] = Dead(@)]
  <2>1. r \in {s, [Sent(e, Start(m)) EXCEPT !.tray.mode = m],
                [e EXCEPT !.workers[e.tray.process] = Dead(@)]}
    BY DEF StartDictation
  <2>2. QED
    BY <2>1
<1> HIDE DEF e
<1>3. /\ e \in SystemState /\ i # 0 /\ i \in 1..Len(e.workers) /\ p \in Worker
      /\ ProcessOK(p) /\ GoesOn(p) /\ Alive(p) /\ Follows(p, Off)
      /\ e.tray \in TrayState /\ e.workers \in Seq(Worker)
      /\ (e.tray.timer => e.tray.restartPending)
  BY <1>1, SystemOf DEF Sound, Running, Led
<1>4. CASE r = s
  BY <1>4
<1>5. CASE r = [Sent(e, Start(m)) EXCEPT !.tray.mode = m]
  <2> DEFINE q == Told(p, Start(m))
             t == [e.tray EXCEPT !.mode = m]
             u == Sent(e, Start(m))
  <2>1. q \in Worker /\ ProcessOK(q) /\ GoesOn(q) /\ Follows(q, m)
    BY <1>3, ToldStart
  <2>2. /\ t \in TrayState /\ t.mode = m /\ t.hold = e.tray.hold /\ t.process = i
        /\ t.timer = e.tray.timer /\ t.restartPending = e.tray.restartPending
    BY <1>3 DEF TrayState
  <2>3. u = [e EXCEPT !.workers = [e.workers EXCEPT ![i] = q]]
    BY DEF Sent, Told
  <2> HIDE DEF q, u
  <2>4. u.tray = e.tray /\ u.workers = [e.workers EXCEPT ![i] = q] /\ u \in [tray: {u.tray}, workers: {u.workers}]
    BY <1>3, <2>3 DEF SystemState
  <2>5. r = [u EXCEPT !.tray = t]
    BY <1>5, <2>4 DEF u
  <2> HIDE DEF t
  <2>6. r.tray = t /\ r.workers = [e.workers EXCEPT ![i] = q] /\ r \in [tray: {r.tray}, workers: {r.workers}]
    BY <2>4, <2>5
  <2>7. [e.workers EXCEPT ![i] = q] \in Seq(Worker)
    BY <1>3, <2>1, ExceptSeq
  <2>8. r \in SystemState
    BY <2>2, <2>6, <2>7 DEF SystemState
  <2>9. /\ r.tray.process = e.tray.process /\ r.tray.mode = m /\ r.tray.hold = e.tray.hold
        /\ r.tray.timer => r.tray.restartPending
    BY <1>3, <2>2, <2>6
  <2> HIDE DEF i, p
  <2>10. Sound(r) /\ Extends(r)
    <3>1. Alive(e.workers[e.tray.process]) /\ e.tray.process # 0
      BY <1>3 DEF i, p
    <3>2. r.workers = [e.workers EXCEPT ![e.tray.process] = q] /\ Alive(q)
      BY <1>3, <2>1, <2>6, ToldStart DEF i, q
    <3>3. QED
      BY <1>1, <2>1, <2>8, <2>9, <3>1, <3>2, OneChanged
  <2>11. QED
    BY <1>1, <2>9, <2>10
<1>6. CASE r = [e EXCEPT !.workers[e.tray.process] = Dead(@)]
  <2> DEFINE q == Dead(p)
  <2>1. q \in Worker /\ ProcessOK(q) /\ GoesOn(q) /\ ~Alive(q)
    BY <1>3, DeadIs DEF Continues
  <2>2. r = [e EXCEPT !.workers = [e.workers EXCEPT ![i] = q]]
    BY <1>6
  <2> HIDE DEF q
  <2>3. [e.workers EXCEPT ![i] = q] \in Seq(Worker)
    BY <1>3, <2>1, ExceptSeq
  <2>4. r \in SystemState /\ r.tray = e.tray /\ r.workers = [e.workers EXCEPT ![i] = q]
    BY <1>3, <2>2, <2>3 DEF SystemState
  <2>5. Sound(r) /\ Extends(r)
    BY <1>1, <1>3, <2>1, <2>4, OneChanged
  <2>6. QED
    BY <1>1, <2>4, <2>5
<1>7. QED
  BY <1>2, <1>4, <1>5, <1>6

-----------------------------------------------------------------------------
(* The handlers keep the invariant.                                        *)

LEMMA HereSound ==
    ASSUME ControlInv, phase = "up"
    PROVE  Sound(Here) /\ Extends(Here) /\ Here.tray = tray /\ Here.workers = workers
<1>1. Here.tray = tray /\ Here.workers = workers
  BY DEF Here
<1>2. Here \in SystemState
  BY DEF Here, SystemState, ControlInv, ControlTypeOK
<1>3. Len(workers) \in Nat
  BY LenProperties DEF ControlInv, WorkersInv
<1>4. (tray.mode # Off /\ ~Alive(workers[tray.process])) => ExitToCome
  BY DEF ExitToCome, ControlInv, ControlTypeOK, TrayInv
<1>5. Heeds(Here)
  BY <1>1 DEF Heeds, ControlInv, TrayInv
<1>6. QED
  BY <1>1, <1>2, <1>3, <1>4, <1>5 DEF Sound, Extends, ControlInv, ControlTypeOK, WorkersInv, TrayInv

\* The history counts what died in a handler.
LEMMA DeathsCounted ==
    ASSUME ControlInv, NEW s, Sound(s), Extends(s), NEW held, Witnessed(s, held)
    PROVE  deaths' \in Nat
<1> DEFINE old == {w \in DOMAIN workers : Alive(workers[w]) /\ ~Alive(s.workers[w])}
           new == {w \in DOMAIN s.workers \ DOMAIN workers : ~Alive(s.workers[w])}
<1>1. deaths \in Nat /\ deaths' = deaths + Cardinality(old) + Cardinality(new)
  BY DEF Witnessed, ControlInv, ControlTypeOK
<1>2. IsFiniteSet(DOMAIN workers) /\ IsFiniteSet(DOMAIN s.workers)
  <2>1. /\ DOMAIN workers = 1..Len(workers) /\ Len(workers) \in Nat
        /\ DOMAIN s.workers = 1..Len(s.workers) /\ Len(s.workers) \in Nat
    BY LenProperties, SystemOf DEF ControlInv, WorkersInv, Sound
  <2>2. QED
    BY <2>1, FS_Interval
<1>3. IsFiniteSet(old) /\ IsFiniteSet(new)
  BY <1>2, FS_Subset
<1>4. Cardinality(old) \in Nat /\ Cardinality(new) \in Nat
  BY <1>3, FS_CardinalityType
<1> HIDE DEF old, new
<1>5. QED
  BY <1>1, <1>4

\* A handler that leaves tray and workers at s.
LEMMA HandlerKeeps ==
    ASSUME ControlInv, phase = "up", NEW s, Sound(s), Extends(s),
           NEW held \in BOOLEAN, Witnessed(s, held),
           UNCHANGED <<events, phase, forgotten>>, commands' \in Nat, unspawned' \in BOOLEAN,
           (s.tray.hold /\ ~heldLost) =>
               s.tray.mode # Off /\ IF tray.mode = s.tray.mode THEN heldSince ELSE held
    PROVE  ControlInv'
<1>1. tray' = s.tray /\ workers' = s.workers
  BY DEF Witnessed, Becomes
<1>2. /\ s \in SystemState /\ s.tray \in TrayState /\ s.workers \in Seq(Worker)
      /\ DOMAIN s.workers = 1..Len(s.workers) /\ Len(s.workers) \in Nat
  BY SystemOf DEF Sound
<1>3. deaths' \in Nat
  BY DeathsCounted
<1>4. DOMAIN workers \subseteq DOMAIN s.workers /\ DOMAIN workers = 1..Len(workers)
  BY <1>2, LenProperties DEF Extends
<1>5. WorkersInv'
  BY <1>1, <1>2 DEF WorkersInv, Sound
<1>6. heldSince' \in BOOLEAN /\ heldLost' \in BOOLEAN
  BY DEF Witnessed, ControlInv, ControlTypeOK
<1>7. events' \in Seq(DOMAIN s.workers)
  BY <1>4, SeqMonotonic DEF ControlInv, ControlTypeOK
<1>8. watched' \subseteq DOMAIN s.workers /\ forgotten' \subseteq DOMAIN s.workers
  BY <1>4 DEF Witnessed, ControlInv, ControlTypeOK
<1>9. ControlTypeOK'
  BY <1>1, <1>2, <1>3, <1>6, <1>7, <1>8 DEF ControlInv, ControlTypeOK, Sound, ProcessOK, Numbered
<1>10. TrayInv'
  <2>1. \A i \in DOMAIN events : events[i] \in DOMAIN workers
    BY ElementOfSeq, LenProperties DEF ControlInv, ControlTypeOK
  <2>2. (\A i \in DOMAIN events : ~Alive(workers[events[i]]))'
    BY <1>1, <2>1 DEF Extends, ControlInv, TrayInv
  <2>3. (tray.hold /\ ~heldLost)' => tray'.mode # Off /\ heldSince'
    BY <1>1 DEF Witnessed
  <2>4. phase' = "up"
    OBVIOUS
  <2>5. ExitToCome => ExitToCome'
    <3>1. watched \subseteq watched' /\ watched \subseteq DOMAIN workers
      BY DEF Witnessed, ControlInv, ControlTypeOK
    <3>2. QED
      BY <1>1, <3>1 DEF ExitToCome, Extends
  <2>6. (tray.process # 0 => tray.process \in watched \/ events # <<>>)'
    <3>1. watched' = watched \cup (DOMAIN s.workers \ DOMAIN workers)
      BY DEF Witnessed
    <3>2. s.tray.process # 0 => s.tray.process \in DOMAIN s.workers
      BY <1>2, SystemOf DEF Sound
    <3>3. QED
      BY <1>1, <3>1, <3>2 DEF Sound, Heeds
  <2>7. ((tray.process # 0 /\ Alive(workers[tray.process])) => Led(workers[tray.process], tray.mode))'
    BY <1>1, <2>5 DEF Sound, Led
  <2>8. QED
    BY <1>1, <2>2, <2>3, <2>4, <2>6, <2>7 DEF Sound, TrayInv
<1>11. QED
  BY <1>5, <1>9, <1>10 DEF ControlInv

\* The fields of the tray's state that a handler may set at any time.
LEMMA FlagsSet ==
    ASSUME NEW s, Sound(s), Extends(s), NEW t \in TrayState,
           t.process = s.tray.process, t.mode = s.tray.mode, t.timer => t.restartPending
    PROVE  LET r == [s EXCEPT !.tray = t]
           IN  Sound(r) /\ Extends(r) /\ r.tray = t
<1> DEFINE r == [s EXCEPT !.tray = t]
<1>1. r.tray = t /\ r.workers = s.workers /\ r \in SystemState
  BY DEF Sound, SystemState
<1> HIDE DEF r
<1>2. QED
  BY <1>1 DEF Sound, Extends, Heeds, r

\* Unless an exit left it behind, hold is only set while a session is on that
\* push-to-talk started, so that it is off when dictation is.
LEMMA NotHeldWhenOff ==
    ASSUME ControlInv, phase = "up", ~heldLost
    PROVE  ~StopDictation(Here).tray.hold
  BY HereSound, StopSound DEF ControlInv, TrayInv

LEMMA ToggleKeeps ==
    ASSUME ControlInv, NEW m \in Modes, Toggle(m)
    PROVE  ControlInv'
<1>1. phase = "up" /\ commands' \in Nat /\ unspawned' \in BOOLEAN /\ UNCHANGED <<events, phase, forgotten>>
  BY DEF Toggle, Commanded, ControlInv, ControlTypeOK
<1>2. PICK s \in IF tray.mode = m THEN {StopDictation(Here)} ELSE StartDictation(StopDictation(Here), m) :
          Witnessed(s, FALSE)
  BY DEF Toggle
<1> DEFINE off == StopDictation(Here)
<1>3. Sound(off) /\ Extends(off) /\ off.tray.mode = Off
  BY <1>1, HereSound, StopSound
<1>4. Sound(s) /\ Extends(s) /\ s.tray.hold = off.tray.hold
  BY <1>2, <1>3, StartSound
<1>5. ~heldLost => ~s.tray.hold
  BY <1>1, <1>4, NotHeldWhenOff
<1>6. QED
  BY <1>1, <1>2, <1>4, <1>5, HandlerKeeps

LEMMA HoldStartKeeps ==
    ASSUME ControlInv, NEW m \in Modes, HoldStart(m)
    PROVE  ControlInv'
<1>1. phase = "up" /\ commands' \in Nat /\ unspawned' \in BOOLEAN /\ UNCHANGED <<events, phase, forgotten>>
  BY DEF HoldStart, Commanded, ControlInv, ControlTypeOK
<1>2. Sound(Here) /\ Extends(Here) /\ Here.tray = tray
  BY <1>1, HereSound
<1>3. CASE tray.mode = m
  <2>1. Witnessed(Here, TRUE)
    BY <1>3 DEF HoldStart
  <2>2. (tray.hold /\ ~heldLost) => tray.mode # Off /\ heldSince
    BY DEF ControlInv, TrayInv
  <2>3. QED
    BY <1>1, <1>2, <2>1, <2>2, HandlerKeeps
<1>4. CASE tray.mode # m
  <2>1. PICK t \in StartDictation(StopDictation(Here), m) :
            Witnessed([t EXCEPT !.tray.hold = (t.tray.mode # Off)], TRUE)
    BY <1>4 DEF HoldStart
  <2> DEFINE flags == [t.tray EXCEPT !.hold = (t.tray.mode # Off)]
             r == [t EXCEPT !.tray = flags]
  <2>2. Sound(t) /\ Extends(t) /\ t.tray.mode \in {Off, m}
    BY <1>2, StopSound, StartSound
  <2>3. /\ flags \in TrayState /\ flags.process = t.tray.process /\ flags.mode = t.tray.mode
        /\ flags.timer = t.tray.timer /\ flags.restartPending = t.tray.restartPending
        /\ flags.hold => flags.mode # Off
    <3>1. t.tray \in TrayState
      BY <2>2 DEF Sound, SystemState
    <3>2. QED
      BY <3>1 DEF TrayState
  <2>4. Witnessed(r, TRUE)
    BY <2>1
  <2>5. t.tray.timer => t.tray.restartPending
    BY <2>2 DEF Sound
  <2> HIDE DEF flags
  <2>6. Sound(r) /\ Extends(r) /\ r.tray = flags
    BY <2>2, <2>3, <2>5, FlagsSet
  <2>7. r.tray.hold => r.tray.mode = m /\ r.tray.mode # Off
    BY <2>2, <2>3, <2>6
  <2> HIDE DEF r
  <2>8. QED
    BY <1>1, <1>4, <2>4, <2>6, <2>7, HandlerKeeps
<1>5. QED
  BY <1>3, <1>4

LEMMA HoldStopKeeps == ControlInv /\ HoldStop => ControlInv'
<1> SUFFICES ASSUME ControlInv, HoldStop PROVE ControlInv'
  OBVIOUS
<1>1. phase = "up" /\ commands' \in Nat /\ unspawned' \in BOOLEAN /\ UNCHANGED <<events, phase, forgotten>>
  BY DEF HoldStop, Commanded, ControlInv, ControlTypeOK
<1>2. Sound(Here) /\ Extends(Here) /\ Here.tray = tray
  BY <1>1, HereSound
<1>3. CASE ~tray.hold
  <2>1. Witnessed(Here, FALSE)
    BY <1>3 DEF HoldStop
  <2>2. QED
    BY <1>1, <1>2, <1>3, <2>1, HandlerKeeps
<1>4. CASE tray.hold
  <2> DEFINE flags == [tray EXCEPT !.hold = FALSE]
             r == [Here EXCEPT !.tray = flags]
             s == StopDictation(r)
  <2>1. /\ flags \in TrayState /\ flags.process = tray.process /\ flags.mode = tray.mode
        /\ flags.timer = tray.timer /\ flags.restartPending = tray.restartPending /\ ~flags.hold
    BY DEF ControlInv, ControlTypeOK, TrayState
  <2>2. tray.timer => tray.restartPending
    BY DEF ControlInv, ControlTypeOK
  <2>3. r = [Here EXCEPT !.tray.hold = FALSE]
    BY <1>2
  <2>4. Witnessed(s, FALSE)
    BY <1>4, <2>3, Zenon DEF HoldStop
  <2> HIDE DEF flags
  <2>5. Sound(r) /\ Extends(r) /\ r.tray = flags
    BY <1>2, <2>1, <2>2, FlagsSet
  <2> HIDE DEF r
  <2>6. Sound(s) /\ Extends(s) /\ ~s.tray.hold
    BY <2>1, <2>5, StopSound
  <2> HIDE DEF s
  <2>7. QED
    BY <1>1, <2>4, <2>6, HandlerKeeps
<1>5. QED
  BY <1>3, <1>4

LEMMA IdleStopKeeps == ControlInv /\ IdleStop => ControlInv'
<1> SUFFICES ASSUME ControlInv, IdleStop PROVE ControlInv'
  OBVIOUS
<1> DEFINE s == StopDictation(Here)
<1>1. /\ phase = "up" /\ commands' \in Nat /\ unspawned' \in BOOLEAN /\ UNCHANGED <<events, phase, forgotten>>
      /\ Witnessed(s, FALSE)
  BY DEF IdleStop, ControlInv, ControlTypeOK
<1>2. Sound(s) /\ Extends(s)
  BY <1>1, HereSound, StopSound
<1>3. ~heldLost => ~s.tray.hold
  BY <1>1, NotHeldWhenOff
<1> HIDE DEF s
<1>4. QED
  BY <1>1, <1>2, <1>3, HandlerKeeps

LEMMA RestartKeeps == ControlInv /\ Restart => ControlInv'
<1> SUFFICES ASSUME ControlInv, Restart PROVE ControlInv'
  OBVIOUS
<1> DEFINE flags == [tray EXCEPT !.timer = FALSE, !.restartPending = FALSE]
           r == [Here EXCEPT !.tray = flags]
<1>1. /\ phase = "up" /\ commands' \in Nat /\ unspawned' \in BOOLEAN /\ UNCHANGED <<events, phase, forgotten>>
  BY DEF Restart, ControlInv, ControlTypeOK
<1>2. Sound(Here) /\ Extends(Here) /\ Here.tray = tray
  BY <1>1, HereSound
<1>3. /\ flags \in TrayState /\ flags.process = tray.process /\ flags.mode = tray.mode
      /\ flags.hold = tray.hold /\ ~flags.timer
  BY DEF ControlInv, ControlTypeOK, TrayState
<1>4. r = [Here EXCEPT !.tray.timer = FALSE, !.tray.restartPending = RestartDone(tray)]
  BY <1>2 DEF RestartDone
<1>5. Witnessed(Ensured(r), FALSE) \/ Witnessed(r, FALSE)
  BY <1>4, Zenon DEF Restart
<1> HIDE DEF flags
<1>6. Sound(r) /\ Extends(r) /\ r.tray = flags
  BY <1>2, <1>3, FlagsSet
<1> HIDE DEF r
<1>7. /\ Sound(Ensured(r)) /\ Extends(Ensured(r))
      /\ Ensured(r).tray.mode = tray.mode /\ Ensured(r).tray.hold = tray.hold
  BY <1>3, <1>6, EnsuredSound
<1>8. (tray.hold /\ ~heldLost) => tray.mode # Off /\ heldSince
  BY DEF ControlInv, TrayInv
<1>9. PICK s \in {r, Ensured(r)} : Witnessed(s, FALSE)
  BY <1>5
<1>10. Sound(s) /\ Extends(s) /\ s.tray.mode = tray.mode /\ s.tray.hold = tray.hold
  BY <1>3, <1>6, <1>7, <1>9
<1>11. QED
  BY <1>1, <1>8, <1>9, <1>10, HandlerKeeps

\* The exit event of a worker, whichever it is, leaves the tray without one.
LEMMA WorkerExitKeeps == ControlInv /\ WorkerExit => ControlInv'
<1> SUFFICES ASSUME ControlInv, WorkerExit PROVE ControlInv'
  OBVIOUS
<1>1. /\ phase = "up" /\ events # <<>> /\ events' = Tail(events)
      /\ UNCHANGED <<workers, watched, commands, deaths, unspawned>>
      /\ forgotten' = IF tray.process = 0 \/ tray.process = Head(events) THEN forgotten
                      ELSE forgotten \cup {tray.process}
      /\ heldSince' \in BOOLEAN /\ heldLost' = tray.hold
  BY DEF WorkerExit
<1>2. /\ workers \in Seq(Worker) /\ DOMAIN workers = 1..Len(workers) /\ Len(workers) \in Nat
      /\ tray \in TrayState /\ tray.process <= Len(workers)
      /\ events \in Seq(DOMAIN workers) /\ forgotten \subseteq DOMAIN workers
      /\ tray.timer => tray.restartPending
  BY LenProperties DEF ControlInv, ControlTypeOK
<1>3. /\ events' \in Seq(DOMAIN workers) /\ Head(events) = events[1] /\ 1 \in DOMAIN events
      /\ \A i \in DOMAIN events' : i + 1 \in DOMAIN events /\ events'[i] = events[i + 1]
  <2>1. /\ Len(events) \in Nat /\ Len(events) >= 1 /\ DOMAIN events = 1..Len(events)
        /\ Head(events) = events[1]
    BY <1>1, <1>2, LenProperties, EmptySeq
  <2>2. /\ events' \in Seq(DOMAIN workers) /\ Len(events') = Len(events) - 1
        /\ \A i \in 1..(Len(events) - 1) : events'[i] = events[i + 1]
    BY <1>1, <1>2, HeadTailProperties
  <2>3. DOMAIN events' = 1..(Len(events) - 1)
    BY <2>2, LenProperties
  <2>4. QED
    BY <2>1, <2>2, <2>3
<1>4. /\ tray' \in TrayState /\ tray'.process = 0 /\ tray'.mode = Off
      /\ tray'.timer => tray'.restartPending
      /\ tray'.hold = tray.hold /\ tray.hold \in BOOLEAN
      /\ phase' \in {"up", "gone"}
  <2>1. PICK n \in {tray.attempts, 0} :
            LET off == [tray EXCEPT !.process = 0, !.mode = Off, !.attempts = n]
            IN  IF n > LastExponent
                THEN tray' = off /\ phase' = "gone"
                ELSE /\ tray' = [off EXCEPT !.attempts = @ + 1, !.restartPending = TRUE,
                                            !.timer = @ \/ ~tray.restartPending]
                     /\ UNCHANGED phase
    BY DEF WorkerExit, OffAgain
  <2> DEFINE off == [tray EXCEPT !.process = 0, !.mode = Off, !.attempts = n]
  <2>2. n \in Nat /\ off \in TrayState /\ off.process = 0 /\ off.mode = Off /\ off.hold = tray.hold
        /\ off.timer = tray.timer /\ off.restartPending = tray.restartPending /\ off.attempts = n
    <3>1. n \in Nat /\ 0 \in Nat /\ Off \in Modes \cup {Off}
      BY <1>2, <2>1 DEF TrayState
    <3> HIDE <2>1
    <3>2. QED
      BY <1>2, <3>1 DEF TrayState
  <2>3. \/ tray' = off /\ phase' = "gone"
        \/ /\ tray' = [off EXCEPT !.attempts = @ + 1, !.restartPending = TRUE,
                                  !.timer = @ \/ ~tray.restartPending]
           /\ phase' = phase
    BY <2>1
  <2> HIDE DEF off
  <2>4. CASE tray' = off /\ phase' = "gone"
    BY <1>2, <2>2, <2>4 DEF TrayState
  <2>5. CASE /\ tray' = [off EXCEPT !.attempts = @ + 1, !.restartPending = TRUE,
                                    !.timer = @ \/ ~tray.restartPending]
             /\ phase' = phase
    <3> DEFINE again == off.timer \/ ~tray.restartPending
    <3>1. again \in BOOLEAN /\ n + 1 \in Nat
      BY <2>2 DEF TrayState
    <3>2. tray' = [off EXCEPT !.attempts = n + 1, !.restartPending = TRUE, !.timer = again]
      BY <2>2, <2>5
    <3> HIDE DEF again
    <3>3. QED
      BY <1>1, <2>2, <2>5, <3>1, <3>2 DEF TrayState
  <2>6. QED
    BY <2>3, <2>4, <2>5
<1>5. ~Alive(workers[Head(events)])
  BY <1>3 DEF ControlInv, TrayInv
<1>6. forgotten' \subseteq DOMAIN workers
  BY <1>1, <1>2 DEF TrayState
<1>7. 0 <= Len(workers) /\ tray'.process <= Len(workers)
  BY <1>2, <1>4
<1>8. ControlTypeOK'
  BY <1>1, <1>2, <1>3, <1>4, <1>6, <1>7 DEF ControlInv, ControlTypeOK
<1>9. WorkersInv'
  BY <1>1, <1>4 DEF ControlInv, WorkersInv
<1>10. TrayInv'
  <2>1. \A w \in DOMAIN workers : Alive(workers[w]) => w \in forgotten'
    BY <1>1, <1>2, <1>5 DEF ControlInv, TrayInv
  <2>2. \A i \in DOMAIN events' : ~Alive(workers[events'[i]])
    BY <1>3 DEF ControlInv, TrayInv
  <2>3. QED
    BY <1>1, <1>4, <1>5, <2>1, <2>2 DEF TrayInv
<1>11. QED
  BY <1>8, <1>9, <1>10 DEF ControlInv

\* A step of the cleanup, and what follows it.
LEMMA DownKeeps ==
    ASSUME ControlInv, phase' \in {"quitting", "gone"},
           tray' \in TrayState, tray'.mode = Off, (~heldLost => ~tray'.hold),
           tray'.process # 0 => tray'.process \in watched \/ events # <<>>,
           tray'.timer => tray'.restartPending, tray'.process <= Len(workers'),
           phase' = "quitting" => tray'.process # 0,
           workers' \in Seq(Worker), Len(workers) <= Len(workers'),
           \A w \in DOMAIN workers' : ProcessOK(workers'[w]),
           \A w \in DOMAIN workers' : Alive(workers'[w]) => w = tray'.process \/ w \in forgotten,
           \A w \in DOMAIN workers : Alive(workers'[w]) => Alive(workers[w]),
           (tray'.process # 0 /\ Alive(workers'[tray'.process])) => Follows(workers'[tray'.process], Off),
           heldSince' \in BOOLEAN,
           UNCHANGED <<events, watched, commands, deaths, forgotten, heldLost, unspawned>>
    PROVE  ControlInv'
<1>1. DOMAIN workers \subseteq DOMAIN workers'
  <2>1. /\ DOMAIN workers = 1..Len(workers) /\ Len(workers) \in Nat
        /\ DOMAIN workers' = 1..Len(workers') /\ Len(workers') \in Nat
    BY LenProperties DEF ControlInv, WorkersInv
  <2>2. QED
    BY <2>1
<1>2. WorkersInv'
  BY DEF WorkersInv
<1>3. events \in Seq(DOMAIN workers) /\ events' \in Seq(DOMAIN workers')
  BY <1>1, SeqMonotonic DEF ControlInv, ControlTypeOK
<1>4. ControlTypeOK'
  BY <1>1, <1>3 DEF ControlInv, ControlTypeOK, ProcessOK, Numbered
<1>5. \A i \in DOMAIN events : events[i] \in DOMAIN workers
  BY <1>3, ElementOfSeq, LenProperties
<1>6. \A i \in DOMAIN events' : ~Alive(workers'[events'[i]])
  BY <1>5 DEF ControlInv, TrayInv
<1>7. TrayInv'
  BY <1>6 DEF TrayInv, Led
<1>8. QED
  BY <1>2, <1>4, <1>7 DEF ControlInv

LEMMA CleanupKeeps == ControlInv /\ Cleanup => ControlInv'
<1> SUFFICES ASSUME ControlInv, Cleanup PROVE ControlInv'
  OBVIOUS
<1> DEFINE s == StopDictation(Here)
           i == s.tray.process
           p == s.workers[i]
           q == Told(p, Quit)
<1>1. /\ phase = "up" /\ heldSince' \in BOOLEAN
      /\ UNCHANGED <<events, watched, commands, deaths, forgotten, heldLost, unspawned>>
      /\ IF Running(s) THEN Becomes(Sent(s, Quit)) /\ phase' = "quitting"
                       ELSE Becomes(s) /\ phase' = "gone"
  BY DEF Cleanup
<1>2. /\ Sound(s) /\ Extends(s) /\ s.tray.mode = Off /\ (~heldLost => ~s.tray.hold)
      /\ i # 0 => i \in watched \/ events # <<>>
  BY <1>1, HereSound, StopSound, NotHeldWhenOff DEF ControlInv, TrayInv
<1> HIDE DEF s
<1>3. /\ s.tray \in TrayState /\ s.workers \in Seq(Worker) /\ i \in Nat /\ i <= Len(s.workers)
      /\ DOMAIN s.workers = 1..Len(s.workers) /\ Len(s.workers) \in Nat
      /\ \A w \in DOMAIN s.workers : ProcessOK(s.workers[w])
      /\ \A w \in DOMAIN s.workers : Alive(s.workers[w]) => w = i \/ w \in forgotten
      /\ (i # 0 /\ Alive(p)) => Follows(p, Off)
      /\ s.tray.timer => s.tray.restartPending
  BY <1>2, SystemOf DEF Sound, Led
<1>4. CASE ~Running(s)
  <2>1. tray' = s.tray /\ workers' = s.workers /\ phase' = "gone"
    BY <1>1, <1>4 DEF Becomes
  <2>2. QED
    BY <1>1, <1>2, <1>3, <2>1, DownKeeps DEF Extends
<1>5. CASE Running(s)
  <2>1. i # 0 /\ i \in DOMAIN s.workers /\ Alive(p) /\ p \in Worker
    BY <1>3, <1>5, ElementOfSeq DEF Running
  <2>2. q \in Worker /\ ProcessOK(q) /\ Follows(q, Off)
    BY <1>3, <2>1, ToldToEnd
  <2>3. tray' = s.tray /\ workers' = [s.workers EXCEPT ![i] = q] /\ phase' = "quitting"
    <3>1. Sent(s, Quit) = [s EXCEPT !.workers = [s.workers EXCEPT ![i] = q]]
      BY DEF Sent, Told
    <3>2. s \in SystemState
      BY <1>2 DEF Sound
    <3> HIDE DEF q
    <3>3. QED
      BY <1>1, <1>5, <3>1, <3>2 DEF Becomes, SystemState
  <2> HIDE DEF q, p
  <2>4. /\ workers' \in Seq(Worker) /\ Len(workers') = Len(s.workers)
        /\ \A w \in 1..Len(s.workers) : workers'[w] = IF w = i THEN q ELSE s.workers[w]
    BY <1>3, <2>1, <2>2, <2>3, ExceptSeq
  <2>5. DOMAIN workers' = DOMAIN s.workers
    BY <1>3, <2>4, LenProperties
  <2>6. DOMAIN workers \subseteq DOMAIN s.workers /\ Len(workers) <= Len(workers')
    BY <1>2, <1>3, <2>4, LenProperties DEF Extends
  <2>7. \A w \in DOMAIN workers' : ProcessOK(workers'[w])
    BY <1>3, <2>2, <2>4, <2>5
  <2>8. \A w \in DOMAIN workers' : Alive(workers'[w]) => w = i \/ w \in forgotten
    BY <1>3, <2>4, <2>5
  <2>9. \A w \in DOMAIN workers : Alive(workers'[w]) => Alive(workers[w])
    BY <1>2, <1>3, <2>1, <2>4, <2>6 DEF Extends, p
  <2>10. Follows(workers'[i], Off)
    BY <1>3, <2>1, <2>2, <2>4
  <2>11. QED
    BY <1>1, <1>2, <1>3, <2>1, <2>3, <2>4, <2>6, <2>7, <2>8, <2>9, <2>10, DownKeeps
<1>6. QED
  BY <1>4, <1>5

LEMMA CleanedUpKeeps == ControlInv /\ CleanedUp => ControlInv'
<1> SUFFICES ASSUME ControlInv, CleanedUp PROVE ControlInv'
  OBVIOUS
<1> DEFINE i == tray.process
           q == Dead(workers[i])
           t == [tray EXCEPT !.process = 0]
<1>1. /\ phase = "quitting" /\ phase' = "gone"
      /\ UNCHANGED <<events, watched, commands, deaths, forgotten, heldSince, heldLost, unspawned>>
      /\ workers' = [workers EXCEPT ![i] = q] /\ tray' = t
  BY DEF CleanedUp, Becomes, Here, history
<1>2. /\ workers \in Seq(Worker) /\ DOMAIN workers = 1..Len(workers) /\ Len(workers) \in Nat
      /\ tray \in TrayState /\ i \in Nat /\ i <= Len(workers) /\ i # 0 /\ tray.mode = Off
      /\ tray.timer => tray.restartPending
      /\ tray.process # 0 => tray.process \in watched \/ events # <<>>
      /\ heldSince \in BOOLEAN
      /\ ~heldLost => ~tray.hold
  BY <1>1, LenProperties DEF ControlInv, ControlTypeOK, TrayInv, TrayState
<1>3. q \in Worker /\ ~Alive(q) /\ ProcessOK(q)
  BY <1>2, ElementOfSeq, DeadIs DEF Continues
<1> HIDE DEF q
<1>4. /\ workers' \in Seq(Worker) /\ Len(workers') = Len(workers)
      /\ \A w \in 1..Len(workers) : workers'[w] = IF w = i THEN q ELSE workers[w]
  BY <1>1, <1>2, <1>3, ExceptSeq
<1>5. DOMAIN workers' = DOMAIN workers
  BY <1>2, <1>4, LenProperties
<1>6. /\ tray' \in TrayState /\ tray'.process = 0 /\ tray'.mode = Off /\ tray'.hold = tray.hold
      /\ tray'.timer => tray'.restartPending
  BY <1>1, <1>2 DEF TrayState
<1>7. \A w \in DOMAIN workers' : ProcessOK(workers'[w])
  BY <1>2, <1>3, <1>4, <1>5 DEF ControlInv, WorkersInv
<1>8. \A w \in DOMAIN workers' : Alive(workers'[w]) => w \in forgotten /\ Alive(workers[w])
  BY <1>2, <1>3, <1>4, <1>5 DEF ControlInv, TrayInv
<1>9. QED
  BY <1>1, <1>2, <1>4, <1>5, <1>6, <1>7, <1>8, DownKeeps

LEMMA PipesCloseKeeps == ControlInv /\ PipesClose => ControlInv'
<1> SUFFICES ASSUME ControlInv, PipesClose PROVE ControlInv'
  OBVIOUS
<1>1. /\ phase = "gone" /\ phase' = "gone" /\ tray' = tray
      /\ workers' = [w \in DOMAIN workers |-> [workers[w] EXCEPT !.eof = TRUE]]
      /\ UNCHANGED <<events, watched, commands, deaths, forgotten, heldSince, heldLost, unspawned>>
  BY DEF PipesClose, history
<1>2. /\ workers \in Seq(Worker) /\ DOMAIN workers = 1..Len(workers) /\ Len(workers) \in Nat
      /\ tray \in TrayState /\ tray.process \in Nat /\ tray.process <= Len(workers) /\ tray.mode = Off
      /\ tray.timer => tray.restartPending
      /\ tray.process # 0 => tray.process \in watched \/ events # <<>>
      /\ heldSince \in BOOLEAN
      /\ ~heldLost => ~tray.hold
  BY <1>1, LenProperties DEF ControlInv, ControlTypeOK, TrayInv, TrayState
<1>3. ASSUME NEW w \in DOMAIN workers
      PROVE  LET p == workers[w]
                 q == workers'[w]
             IN  /\ q \in Worker /\ ProcessOK(q) /\ (Alive(q) <=> Alive(p))
                 /\ Follows(p, Off) => Follows(q, Off)
  <2> DEFINE p == workers[w]
             q == [p EXCEPT !.eof = TRUE]
  <2>1. p \in Worker /\ ProcessOK(p) /\ workers'[w] = q
    BY <1>1, <1>2, ElementOfSeq DEF ControlInv, WorkersInv
  <2> HIDE DEF p
  <2>2. /\ q \in Worker /\ q.stdin = p.stdin /\ q.sessions = p.sessions /\ q.thread = p.thread
        /\ q.started = p.started /\ q.state = p.state
    BY <2>1 DEF Worker
  <2> HIDE DEF q
  <2>3. ProcessOK(q)
    BY <2>1, <2>2 DEF ProcessOK, Numbered, OneSession, StartsAfterStop, Own, Ending, Leaving
  <2>4. Follows(p, Off) => Follows(q, Off)
    BY <2>2 DEF Follows, Ending, Leaving
  <2>5. QED
    BY <2>1, <2>2, <2>3, <2>4 DEF Alive, p
<1>4. DOMAIN workers' = DOMAIN workers
  BY <1>1
<1>5. workers' \in Seq(Worker) /\ Len(workers') = Len(workers)
  <2>1. workers' \in [1..Len(workers) -> Worker]
    BY <1>1, <1>2, <1>3, <1>4
  <2>2. workers' \in Seq(Worker)
    BY <1>2, <2>1, SeqDef
  <2>3. DOMAIN workers' = 1..Len(workers') /\ Len(workers') \in Nat
    BY <2>2, LenProperties
  <2>4. QED
    BY <1>2, <1>4, <2>2, <2>3
<1>6. \A w \in DOMAIN workers' : Alive(workers'[w]) => w = tray.process \/ w \in forgotten
  BY <1>3, <1>4 DEF ControlInv, TrayInv
<1>7. (tray.process # 0 /\ Alive(workers'[tray.process])) => Follows(workers'[tray.process], Off)
  BY <1>2, <1>3 DEF ControlInv, TrayInv, Led
<1>8. QED
  BY <1>1, <1>2, <1>3, <1>4, <1>5, <1>6, <1>7, DownKeeps

-----------------------------------------------------------------------------
(* The invariant.                                                          *)

LEMMA ControlInit == Init => ControlInv
<1> SUFFICES ASSUME Init PROVE ControlInv
  OBVIOUS
<1>1. /\ workers = <<NewWorker>> /\ events = <<>> /\ watched = {1} /\ phase = "up"
      /\ commands = 0 /\ deaths = 0 /\ forgotten = {} /\ heldSince = FALSE /\ heldLost = FALSE /\ unspawned = FALSE
      /\ tray = [process |-> 1, mode |-> Off, hold |-> FALSE,
                 restartPending |-> FALSE, timer |-> FALSE, attempts |-> 0]
  BY DEF Init
<1>2. /\ tray \in TrayState /\ tray.process = 1 /\ tray.mode = Off /\ ~tray.hold /\ ~tray.timer
  BY <1>1 DEF TrayState
<1>3. workers \in Seq(Worker) /\ Len(workers) = 1 /\ DOMAIN workers = {1} /\ workers[1] = NewWorker
  <2> DEFINE p == NewWorker
  <2>1. p \in Worker /\ workers = <<p>>
    BY <1>1, NewWorkerIs
  <2> HIDE DEF p
  <2>2. QED
    BY <2>1 DEF p
<1>4. /\ ProcessOK(workers[1]) /\ GoesOn(workers[1]) /\ Alive(workers[1]) /\ Follows(workers[1], Off)
  BY <1>3, NewWorkerIs
<1>5. events \in Seq(DOMAIN workers) /\ DOMAIN events = {}
  BY <1>1, EmptySeq
<1> HIDE <1>1
<1>6. WorkersInv
  BY <1>3, <1>4 DEF WorkersInv
<1>7. ControlTypeOK
  <2>1. \A w \in DOMAIN workers : \A s \in workers[w].sessions : s.id <= workers[w].started
    BY <1>3, <1>4 DEF ProcessOK, Numbered
  <2>2. tray.process <= Len(workers) /\ watched \subseteq DOMAIN workers /\ forgotten \subseteq DOMAIN workers
    BY <1>1, <1>2, <1>3
  <2>3. /\ commands \in Nat /\ deaths \in Nat /\ unspawned \in BOOLEAN
        /\ heldSince \in BOOLEAN /\ heldLost \in BOOLEAN
    BY <1>1
  <2>4. phase \in {"up", "quitting", "gone"}
    BY <1>1
  <2>5. QED
    BY <1>2, <1>3, <1>5, <2>1, <2>2, <2>3, <2>4 DEF ControlTypeOK
<1>8. TrayInv
  BY <1>1, <1>2, <1>3, <1>4, <1>5 DEF TrayInv, Led
<1>9. QED
  BY <1>6, <1>7, <1>8 DEF ControlInv

LEMMA ControlStep == ControlInv /\ [Next]_trayVars => ControlInv'
<1> SUFFICES ASSUME ControlInv, [Next]_trayVars PROVE ControlInv'
  OBVIOUS
<1>1. CASE Handler
  <2>1. ASSUME NEW m \in Modes, Toggle(m) \/ HoldStart(m) PROVE ControlInv'
    BY <2>1, ToggleKeeps, HoldStartKeeps
  <2>2. QED
    BY <1>1, <2>1, HoldStopKeeps, IdleStopKeeps, WorkerExitKeeps, RestartKeeps,
       CleanupKeeps, CleanedUpKeeps, PipesCloseKeeps DEF Handler
<1>2. CASE \E w \in DOMAIN workers : MonitorReports(w) \/ Runs(w) \/ Listens(w) \/ Dies(w)
  BY <1>2, MonitorReportsKeeps, RunsKeeps, DiesKeeps
<1>3. CASE UNCHANGED trayVars
  <2>1. WorkersInv' /\ ControlTypeOK'
    BY <1>3 DEF ControlInv, WorkersInv, ControlTypeOK, trayVars, history
  <2>2. TrayInv'
    BY <1>3 DEF ControlInv, TrayInv, Led, ExitToCome, trayVars, history
  <2>3. QED
    BY <2>1, <2>2 DEF ControlInv
<1>4. QED
  BY <1>1, <1>2, <1>3 DEF Next

LEMMA ControlInvariant == Spec => []ControlInv
  BY ControlInit, ControlStep, PTL DEF Spec

\* Whatever is toggled, held, stopped, lost and restarted, in any number and
\* order, tray and workers keep their types, and the handlers know the workers
\* they deal with.
THEOREM ControlTypeCorrect == Spec => []ControlTypeOK
  BY ControlInvariant, PTL DEF ControlInv

\* No path of the tray spawns a second worker beside a live one that it knows:
\* _ensure_worker_process looks at poll() first, and only the exit event of a
\* worker makes the tray drop one.
THEOREM NoStray == Spec => []NoStrayWorker
<1>1. ControlInv => NoStrayWorker
  BY DEF ControlInv, TrayInv, NoStrayWorker
<1>2. QED
  BY <1>1, ControlInvariant, PTL

\* hold_stop ends only what hold_start began, unless an exit left _hold_session
\* behind.
THEOREM HoldEnds == Spec => []HoldEndsItsOwn
<1>1. ControlInv => HoldEndsItsOwn
  BY DEF ControlInv, TrayInv, HoldEndsItsOwn
<1>2. QED
  BY <1>1, ControlInvariant, PTL

\* While the icon shows dictation off, a worker that has done all it was told to
\* accounts for no session; while it shows a mode, for one that listens in that mode,
\* if that session has not failed and no exit of a replaced worker is to come.
THEOREM IconIsTrue == Spec => []IconTellsTheTruth
<1>1. ASSUME NEW p \in Worker, ProcessOK(p), p.thread = 0 PROVE Own(p) = {}
  <2>1. \A s \in p.sessions : s.id # 0
    BY <1>1 DEF Worker, Session, SessionIds
  <2>2. QED
    BY <1>1, <2>1 DEF ProcessOK, OneSession, Own
<1>2. ControlInv => OffIsQuiet
  <2> SUFFICES ASSUME ControlInv, tray.mode = Off, NEW w \in DOMAIN workers \ forgotten,
                      Settled(workers[w])
               PROVE  Own(workers[w]) = {}
    BY DEF OffIsQuiet
  <2> DEFINE p == workers[w]
  <2>1. p \in Worker /\ ProcessOK(p)
    BY ElementOfSeq, LenProperties DEF ControlInv, WorkersInv
  <2>2. p.state = "loop" /\ p.stdin = <<>> /\ Alive(p)
    BY DEF Settled, Alive
  <2>3. w = tray.process /\ w # 0
    BY <2>2, LenProperties DEF ControlInv, TrayInv, WorkersInv
  <2>4. Follows(p, Off)
    BY <2>2, <2>3 DEF ControlInv, TrayInv, Led
  <2> HIDE DEF p
  <2>5. p.thread = 0
    BY <2>2, <2>4 DEF Follows, Ending, Leaving
  <2>6. QED
    BY <1>1, <2>1, <2>5 DEF p
<1>3. ControlInv => OneSessionOfTheMode
  <2> SUFFICES ASSUME ControlInv
               PROVE  OneSessionOfTheMode
    OBVIOUS
  <2>1. ASSUME NEW w \in DOMAIN workers
        PROVE  Cardinality(Own(workers[w])) <= 1
    <3> DEFINE mine == Own(workers[w])
    <3>1. \A s, t \in mine : s = t
      BY DEF ControlInv, WorkersInv, ProcessOK, OneSession
    <3> HIDE DEF mine
    <3>2. CASE mine = {}
      BY <3>2, FS_EmptySet DEF mine
    <3>3. CASE mine # {}
      <4>1. PICK s : mine = {s}
        BY <3>1, <3>3
      <4>2. Cardinality({s}) = 1
        BY FS_Singleton
      <4>3. QED
        BY <4>1, <4>2 DEF mine
    <3>4. QED
      BY <3>2, <3>3
  <2>2. ASSUME tray.mode # Off, Settled(workers[tray.process])
        PROVE  LET p == workers[tray.process]
               IN  InMode(p, tray.mode) \/ (Untold(p) /\ ExitToCome)
    <3> DEFINE p == workers[tray.process]
    <3>1. tray.process # 0
      BY <2>2 DEF ControlInv, ControlTypeOK
    <3>2. p.state = "loop" /\ p.stdin = <<>> /\ Alive(p)
      BY <2>2 DEF Settled, Alive
    <3>3. Led(p, tray.mode)
      BY <3>1, <3>2 DEF ControlInv, TrayInv
    <3> HIDE DEF p
    <3>4. InMode(p, tray.mode) \/ (Untold(p) /\ ExitToCome)
      BY <2>2, <3>2, <3>3 DEF Led, Follows, OnAir, Fresh, Leaving
    <3>5. QED
      BY <3>4 DEF p
  <2>3. QED
    BY <2>1, <2>2 DEF OneSessionOfTheMode
<1>4. QED
  BY <1>2, <1>3, ControlInvariant, PTL DEF IconTellsTheTruth
=============================================================================
