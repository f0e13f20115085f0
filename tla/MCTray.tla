------------------------------- MODULE MCTray -------------------------------
(* The tray and its workers, with both dictation modes, a few commands of  *)
(* the user and up to DeathLimit workers that die by themselves.           *)
EXTENDS Tray

MCModes == {"standard", "contextual"}
=============================================================================
