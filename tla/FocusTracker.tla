---------------------------- MODULE FocusTracker ----------------------------
(***************************************************************************)
(* FocusTracker of wldictate/hypr.py: a thread follows the focused window  *)
(* over the compositor's event socket and keeps it in a cache.  Events     *)
(* only tell of changes, so the cache is seeded with one request after     *)
(* every connect.                                                          *)
(*                                                                         *)
(* Windows stand for their classes; titles are left out.  So is close(),   *)
(* which the program never calls.                                          *)
(***************************************************************************)
EXTENDS Integers, Sequences

CONSTANTS
    Windows,     \* classes of windows
    NoWindow,    \* the class "", of no window or an unknown one
    ChangeLimit  \* bound of the model: changes of focus and breaks of the link

ASSUME FocusAssumption == NoWindow \notin Windows /\ ChangeLimit \in Nat

VARIABLES
    window,    \* the focused window
    link,      \* the event socket's connection: "none", "up" or "cut"
    stream,    \* events on it that are not read yet
    at,        \* where the thread is in _loop
    reply,     \* what the request socket has answered
    focused,   \* _focused
    connected, \* _connected
    \* history
    unseeded,  \* no window was named after the last connect, and no event came since
    changes

focusVars == <<window, link, stream, at, reply, focused, connected, unseeded, changes>>

\* Without Hyprland there is no tracker, and no thread.
FocusInit ==
    /\ window \in Windows
    /\ link = "none" /\ stream = <<>>
    /\ at \in {"connect", "gone"}
    /\ reply = NoWindow /\ focused = NoWindow
    /\ connected = FALSE
    /\ unseeded = FALSE /\ changes = 0

-----------------------------------------------------------------------------
(* The compositor.                                                         *)

FocusMoves(w) ==
    /\ w # window /\ changes < ChangeLimit
    /\ window' = w
    /\ stream' = IF link = "up" THEN Append(stream, w) ELSE stream
    /\ changes' = changes + 1
    /\ UNCHANGED <<link, at, reply, focused, connected, unseeded>>

LinkBreaks ==
    /\ link = "up" /\ changes < ChangeLimit
    /\ link' = "cut"
    /\ changes' = changes + 1
    /\ UNCHANGED <<window, stream, at, reply, focused, connected, unseeded>>

-----------------------------------------------------------------------------
(* The thread: _loop.  A refused connect only waits, and changes nothing.  *)

Connect ==
    /\ at = "connect"
    /\ link' = "up" /\ stream' = <<>>
    /\ at' = "store"
    /\ UNCHANGED <<window, reply, focused, connected, unseeded, changes>>

\* _sock and _connected are set, then the cache is seeded.
StartsReading == "read"
Refreshes == "ask"

StoreSocket ==
    /\ at = "store"
    /\ connected' = TRUE
    /\ at' = Refreshes
    /\ UNCHANGED <<window, link, stream, reply, focused, unseeded, changes>>

\* _refresh: the compositor answers, or the request fails.  An empty answer seeds
\* the cache with no window.
Ask ==
    /\ at = "ask"
    /\ \/ reply' = window /\ at' = "seed" /\ UNCHANGED unseeded
       \/ reply' = NoWindow /\ unseeded' = TRUE /\ at' = "seed"
       \/ unseeded' = TRUE /\ at' = "read" /\ UNCHANGED reply
    /\ UNCHANGED <<window, link, stream, focused, connected, changes>>

Seed ==
    /\ at = "seed"
    /\ focused' = reply
    /\ reply' = NoWindow
    /\ at' = "read"
    /\ UNCHANGED <<window, link, stream, connected, unseeded, changes>>

ReadEvent ==
    /\ at = "read" /\ stream # <<>>
    /\ focused' = Head(stream)
    /\ stream' = Tail(stream)
    /\ unseeded' = FALSE
    /\ UNCHANGED <<window, link, at, reply, connected, changes>>

\* The end of the stream: out of the loop, and round.
Disconnect ==
    /\ at = "read" /\ link = "cut" /\ stream = <<>>
    /\ connected' = FALSE
    /\ link' = "none" /\ stream' = <<>>
    /\ unseeded' = FALSE
    /\ at' = "connect"
    /\ UNCHANGED <<window, reply, focused, changes>>

FocusThread ==
    Connect \/ StoreSocket \/ Ask \/ Seed \/ ReadEvent \/ Disconnect

FocusNext ==
    \/ \E w \in Windows : FocusMoves(w)
    \/ LinkBreaks \/ FocusThread

FocusSpec == FocusInit /\ [][FocusNext]_focusVars

-----------------------------------------------------------------------------
(* Property.                                                               *)

\* The cache that ok declares trustworthy names the focused window once the
\* thread has read what the compositor told it, also when focus moved between
\* the connect, the request and its answer, or while the link was broken.  Only
\* a request that failed or was answered with nothing may leave it behind, until
\* the next change.
TrustedMeansCurrent ==
    (connected /\ at = "read" /\ link = "up" /\ stream = <<>> /\ ~unseeded)
        => focused = window
=============================================================================
