--------------------------- MODULE MCAudioCapture ---------------------------
(* A persistent microphone at each kind of device rate.                     *)
EXTENDS AudioCapture

\* 48 kHz, 24 kHz and 8 kHz: a decimator, and interpolators down and up.
MCRates == {[num |-> 3, den |-> 1], [num |-> 3, den |-> 2], [num |-> 1, den |-> 2]}
=============================================================================
