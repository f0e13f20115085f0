--------------------------- MODULE MCTypingDevice ---------------------------
(* Calls of every kind, with more characters than codes for them.           *)
EXTENDS TypingDevice

SomeTexts == {<<"a">>, <<"x", "y", "z">>, <<"y", "z", "x">>}
=============================================================================
