------------------------------ MODULE MCOutput ------------------------------
(* Utterances, chunks, live texts and transforms, and one failure of the    *)
(* device.                                                                  *)
EXTENDS Output

MCTokens ==
    [of: SUBSET (1..UtteranceLimit),
     form: {"word", "last", "misheard", "reply", "end", "newline", "marker"}]
=============================================================================
