---------------------------- MODULE MCDictation ----------------------------
(* Gate, engine and decode thread together, over every short utterance.     *)
EXTENDS Dictation
=============================================================================
