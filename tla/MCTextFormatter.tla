---------------------------- MODULE MCTextFormatter ----------------------------
(* Sessions of a few utterances, each of a few tokens as Whisper gives them. *)
EXTENDS TextFormatter

\* A word, a word that ends a sentence, words whose leading space was lost, a
\* quoted word, an annotation, an ellipsis, and marks of their own.
MCTokens ==
    { <<" ", "a">>, <<" ", "a", ".">>, <<"A">>, <<" ", "'", "a", "'">>,
      <<" ", "(", "a", ")">>, <<" ", "a", ".", ".", ".">>, <<",">>, <<"!">> }
MCReplies == { <<"A", ".">>, <<"A", " ", "a">> }
=============================================================================
