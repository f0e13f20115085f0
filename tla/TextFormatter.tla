---------------------------- MODULE TextFormatter ----------------------------
(***************************************************************************)
(* The formatter of wldictate/textproc.py, and what the engine, the voice  *)
(* commands and the contextual transform make of it: who types what, and   *)
(* what the formatter is told is at the end of the screen.                 *)
(*                                                                         *)
(* A character stands for its class: "a" and "A" for the letters and       *)
(* digits, "!" for ! and ?, "." and "," for themselves, "'" and ")" for    *)
(* the closing marks, "(" for the opening bracket of an annotation, "\n"   *)
(* for a line break.  ; and : are spaced like "!" and end no sentence, and *)
(* square brackets are treated like round ones: they are left out.  The    *)
(* device types what it is asked to; the screens it leaves unknown are in  *)
(* Output.                                                                 *)
(***************************************************************************)
EXTENDS Integers, SequencesExt

CONSTANTS
    Tokens,          \* raw deltas a decode may bring, each a sequence of characters
    Replies,         \* replies of the language model, stripped, none of them empty
    TrailingSpace,   \* typing.sentence_trailing_space
    Capitalize,      \* typing.capitalize_sentences
    TokenLimit,      \* bound of the model: tokens of a session
    UtteranceLimit   \* bound of the model: utterances of a session

Letters == {"a", "A"}
Punct == {".", ",", "!"}
Closers == {"'", ")"}
Blank == {" ", "\n"}
Chars == Letters \cup Punct \cup Closers \cup Blank \cup {"("}

ASSUME FormatterAssumption ==
    /\ Tokens \subseteq Seq(Chars \ {"\n"}) /\ Replies \subseteq Seq(Chars \ {"\n"}) \ {<<>>}
    /\ TrailingSpace \in BOOLEAN /\ Capitalize \in BOOLEAN
    /\ TokenLimit \in Nat /\ UtteranceLimit \in Nat

VARIABLES
    typing,      \* typing.mode: "commit" or "correcting"
    tail,        \* _tail: the last characters the formatter believes typed
    hasOutput,   \* _utterance_has_output
    settled,     \* the screen up to the previous utterance's region
    previous,    \* _prev_screen: the previous utterance's region
    region,      \* _screen: what this utterance typed
    raw,         \* the tokens of this utterance, concatenated
    tokens,      \* tokens of the session so far
    speaking,    \* between start_utterance() and the end of finalize()
    mayFollow,   \* a command or a reply may still follow the finalized utterance
    utterances,  \* utterances started
    astray       \* history: how the formatter lost sight of the screen

vars == <<typing, tail, hasOutput, settled, previous, region, raw, tokens, speaking,
          mayFollow, utterances, astray>>

-----------------------------------------------------------------------------
(* clean_text: the substitutions, in order.                                *)

NoChar == ""
At(t, i) == IF i \in DOMAIN t THEN t[i] ELSE NoChar

Without(t, gone) ==
    FlattenSeq([i \in DOMAIN t |-> IF i \in gone THEN <<>> ELSE <<t[i]>>])

SpacedAfter(t, those) ==
    FlattenSeq([i \in DOMAIN t |-> IF i \in those THEN <<t[i], " ">> ELSE <<t[i]>>])

\* The characters from the k-th to the i-th are all in cs.
AllIn(t, k, i, cs) == \A j \in k..i : t[j] \in cs

Strip(t) ==
    LET solid == {i \in DOMAIN t : t[i] \notin Blank}
    IN  Without(t, {i \in DOMAIN t : (\A j \in solid : i < j) \/ (\A j \in solid : j < i)})

\* "\([^)]*\)\s*": an opening bracket up to the next closing one, and the blanks
\* behind it.
WithoutAnnotations(t) ==
    LET Opens(p, i) == t[p] = "(" /\ \A j \in p..(i - 1) : t[j] # ")"
        Closed(i) == \E q \in i..Len(t) : t[q] = ")"
        inside == {i \in DOMAIN t : Closed(i) /\ \E p \in 1..i : Opens(p, i)}
        behind == {i \in DOMAIN t : \E q \in inside :
                        q < i /\ t[q] = ")" /\ AllIn(t, q + 1, i, Blank)}
    IN  Without(t, inside \cup behind)

\* "\s+([.,!?;:])(?!\.)": no blanks before punctuation, unless a period follows it.
PunctJoined(t) ==
    Without(t, {i \in DOMAIN t : \E p \in (i + 1)..Len(t) :
                   t[p] \in Punct /\ At(t, p + 1) # "." /\ AllIn(t, i, p - 1, Blank)})

\* "(?<!\.)\.(\s)?(?![.\"'’)\]}])" and "([!?;:])(\s)?(?![\"'’)\]}])": a space behind.
SpacedCommas(t) == SpacedAfter(t, {i \in DOMAIN t : t[i] = ","})
SpacedPeriods(t) ==
    SpacedAfter(t, {i \in DOMAIN t : /\ t[i] = "." /\ At(t, i - 1) # "."
                                     /\ At(t, i + 1) \notin Closers \cup {"."}})
SpacedExclamations(t) ==
    SpacedAfter(t, {i \in DOMAIN t : t[i] = "!" /\ At(t, i + 1) \notin Closers})

\* "(?:\s*\.\s*){2,}": a run of blanks and periods, two periods at least, becomes
\* one ellipsis and a space.
SpacedEllipses(t) ==
    LET periods == {i \in DOMAIN t : t[i] = "."}
        Linked(p, i) == AllIn(t, p, i, Blank \cup {"."}) /\ AllIn(t, i, p, Blank \cup {"."})
        within == {i \in DOMAIN t : \E p, q \in periods : p # q /\ Linked(p, i) /\ Linked(q, i)}
        Run(i) == IF i \notin within THEN <<t[i]>>
                  ELSE IF i - 1 \in within THEN <<>> ELSE <<".", ".", ".", " ">>
    IN  FlattenSeq([i \in DOMAIN t |-> Run(i)])

\* A single leading punctuation mark goes, with the blanks behind it.
WithoutLeadingPunct(t) ==
    IF At(t, 1) \in Punct /\ At(t, 2) \notin Punct
    THEN Without(t, {1} \cup {i \in DOMAIN t : 1 < i /\ AllIn(t, 2, i, Blank)})
    ELSE t

\* "\s+" becomes one space, and none is left at the ends.
Collapsed(t) ==
    Strip(Without(t, {i \in DOMAIN t : t[i] \in Blank /\ At(t, i - 1) \in Blank}))

Respaced(t) == SpacedExclamations(SpacedEllipses(SpacedPeriods(SpacedCommas(t))))

CleanText(text, utteranceStart) ==
    LET marked == Respaced(Strip(PunctJoined(WithoutAnnotations(text))))
    IN  Collapsed(IF utteranceStart THEN WithoutLeadingPunct(marked) ELSE marked)

-----------------------------------------------------------------------------
(* TextFormatter.                                                          *)

\* "[.!?][\"'’)\]}]*$"
EndsSentence(t) ==
    \E i \in DOMAIN t : t[i] \in {".", "!"} /\ AllIn(t, i + 1, Len(t), Closers)

RStrip(t) ==
    Without(t, {i \in DOMAIN t : AllIn(t, i, Len(t), Blank)})

LastChars(t) == SubSeq(t, IF Len(t) > 8 THEN Len(t) - 7 ELSE 1, Len(t))

EndChar(t) == At(t, Len(t))

\* _joins_words
JoinsWords(before, after) == after \in Letters /\ before \in Letters \cup Punct

\* _capitalize_first_alpha
Capitalized(t) ==
    LET letters == {i \in DOMAIN t : t[i] \in Letters}
        first == {i \in letters : \A j \in letters : i <= j}
    IN  [i \in DOMAIN t |-> IF i \in first THEN "A" ELSE t[i]]

\* The formatter's state: the tail, and whether the utterance had output.
State == [tail |-> tail, hasOutput |-> hasOutput]

AtSentenceStart(end) == RStrip(end) = <<>> \/ EndsSentence(RStrip(end))

\* needs_separator
NeedsSeparatorTwice(f, text, token) ==
    /\ f.tail # <<>>
    /\ \/ At(token, 1) \in Blank
       \/ ~f.hasOutput /\ At(text, 1) \notin Punct \cup Closers
       \/ JoinsWords(EndChar(f.tail), At(text, 1))
NeedsSeparatorUnhinted(f, text, token) ==
    /\ f.tail # <<>> /\ EndChar(f.tail) \notin Blank
    /\ \/ At(token, 1) \in Blank
       \/ ~f.hasOutput /\ At(text, 1) \notin Punct \cup Closers
NeedsSeparatorGuessed(f, text, token) ==
    /\ f.tail # <<>> /\ EndChar(f.tail) \notin Blank
    /\ \/ ~f.hasOutput /\ At(text, 1) \notin Punct \cup Closers
       \/ JoinsWords(EndChar(f.tail), At(text, 1))
NeedsSeparator(f, text, token) ==
    /\ f.tail # <<>> /\ EndChar(f.tail) \notin Blank
    /\ \/ At(token, 1) \in Blank
       \/ ~f.hasOutput /\ At(text, 1) \notin Punct \cup Closers
       \/ JoinsWords(EndChar(f.tail), At(text, 1))

\* peek, and what format_delta returns: the text typed for a delta.
FormatDelta(f, token) ==
    LET text == CleanText(token, ~f.hasOutput)
        spaced == IF NeedsSeparator(f, text, token) THEN <<" ">> \o text ELSE text
    IN  IF text = <<>> THEN <<>>
        ELSE IF Capitalize /\ AtSentenceStart(f.tail) THEN Capitalized(spaced) ELSE spaced

\* The formatter once `text' was formatted.
Advanced(f, text) ==
    [tail |-> LastChars(f.tail \o text), hasOutput |-> f.hasOutput \/ text # <<>>]

\* end_utterance
EndUtterance(f) ==
    IF /\ TrailingSpace /\ f.hasOutput
       /\ f.tail # <<>> /\ EndChar(f.tail) \notin Blank /\ EndsSentence(f.tail)
    THEN <<" ">> ELSE <<>>

-----------------------------------------------------------------------------
(* A session.                                                              *)

Screen == settled \o previous \o region

Init ==
    /\ typing \in {"commit", "correcting"}
    /\ tail = <<>> /\ hasOutput = FALSE
    /\ settled = <<>> /\ previous = <<>> /\ region = <<>>
    /\ raw = <<>> /\ tokens = 0
    /\ speaking = FALSE /\ mayFollow = FALSE
    /\ utterances = 0
    /\ astray = {}

\* start_utterance(): on_utterance_start() and begin_utterance().
StartUtterance ==
    /\ ~speaking /\ utterances < UtteranceLimit
    /\ speaking' = TRUE /\ mayFollow' = FALSE
    /\ hasOutput' = FALSE
    /\ settled' = settled \o previous
    /\ previous' = region
    /\ region' = <<>> /\ raw' = <<>>
    /\ utterances' = utterances + 1
    /\ UNCHANGED <<typing, tail, tokens, astray>>

\* What a decode says next: a mark of its own follows a word.
Said(token) ==
    /\ At(token, 1) \in Punct => EndChar(raw) \in Letters
    /\ raw' = raw \o token /\ tokens' = tokens + 1
    /\ tokens < TokenLimit

Become(f) == tail' = f.tail /\ hasOutput' = f.hasOutput

\* Commit mode: _commit_words() formats a delta and types it.
CommitWords(token) ==
    /\ speaking /\ typing = "commit"
    /\ Said(token)
    /\ LET text == FormatDelta(State, token)
       IN  region' = region \o text /\ Become(Advanced(State, text))
    /\ UNCHANGED <<typing, settled, previous, speaking, mayFollow, utterances, astray>>

\* Correcting mode: _render() shows the whole utterance, as peek() formats it.
Render(token) ==
    /\ speaking /\ typing = "correcting"
    /\ Said(token)
    /\ region' = FormatDelta(State, raw')
    /\ UNCHANGED <<typing, tail, hasOutput, settled, previous, speaking, mayFollow,
                   utterances, astray>>

\* finalize(): the last words were committed; the trailer.
FinalizeCommit ==
    /\ speaking /\ typing = "commit"
    /\ region' = region \o EndUtterance(State)
    /\ Become(Advanced(State, EndUtterance(State)))
    /\ speaking' = FALSE
    /\ UNCHANGED <<typing, settled, previous, raw, tokens, mayFollow, utterances, astray>>

\* The one format of a correcting utterance that advances the formatter.
FinalizeCorrecting ==
    /\ speaking /\ typing = "correcting"
    /\ LET text == FormatDelta(State, raw)
           after == Advanced(State, text)
       IN  /\ region' = text \o EndUtterance(after)
           /\ Become(Advanced(after, EndUtterance(after)))
           /\ mayFollow' = (text # <<>>)
    /\ speaking' = FALSE
    /\ UNCHANGED <<typing, settled, previous, raw, tokens, utterances, astray>>

\* finalize() without a final decode.  In commit mode what was typed stays, with
\* no trailer.  In correcting mode the tentative text stays, and the formatter
\* is advanced over it as if its trailer had been typed as well.
FinalizeFails ==
    /\ speaking
    /\ speaking' = FALSE
    /\ IF typing = "correcting"
       THEN LET after == Advanced(State, FormatDelta(State, raw))
            IN  /\ Become(Advanced(after, EndUtterance(after)))
                /\ astray' = IF EndUtterance(after) = <<>> THEN astray
                             ELSE astray \cup {"stranded"}
       ELSE UNCHANGED <<tail, hasOutput, astray>>
    /\ UNCHANGED <<typing, settled, previous, region, raw, tokens, mayFollow, utterances>>

\* finalize() of an utterance too short to decode once its committed words were
\* trimmed away: their text stays on the screen, unknown to the formatter.
FinalizeSkips ==
    /\ speaking
    /\ speaking' = FALSE
    /\ astray' = IF typing = "correcting" /\ region # <<>> THEN astray \cup {"skipped"}
                 ELSE astray
    /\ UNCHANGED <<typing, tail, hasOutput, settled, previous, region, raw, tokens,
                   mayFollow, utterances>>

-----------------------------------------------------------------------------
(* _handle_final: a voice command, a verbatim escape or a transform.       *)

\* reseed(text)
ReseedNothing(text) == tail' = tail
Reseed(text) == tail' = LastChars(text)

Follow ==
    /\ ~speaking /\ mayFollow
    /\ mayFollow' = FALSE
    /\ UNCHANGED <<typing, hasOutput, raw, tokens, speaking, utterances>>

\* After reseed("") with text still before the cursor.
Forgotten == IF Screen' # <<>> /\ EndChar(Screen') \notin Blank THEN astray \cup {"command"}
             ELSE astray

Scratch ==
    /\ Follow
    /\ UNCHANGED settled
    /\ previous' = <<>> /\ region' = <<>>
    /\ Reseed(<<>>)
    /\ astray' = Forgotten

NewLine ==
    /\ Follow
    /\ region' = <<"\n">>
    /\ Reseed(<<>>)
    /\ UNCHANGED <<settled, previous, astray>>

\* "press enter", "press tab", "press escape": where the cursor is now, nothing
\* is known to be before it.
PressKey ==
    /\ Follow
    /\ settled' = <<>> /\ previous' = <<>> /\ region' = <<>>
    /\ Reseed(<<>>)
    /\ UNCHANGED astray

Copy ==
    /\ Follow
    /\ UNCHANGED <<settled, previous>>
    /\ region' = <<>>
    /\ Reseed(previous)
    /\ astray' = IF previous = <<>> THEN Forgotten ELSE astray

\* "literally ...": the guard word goes, the rest stays as it was said.
Lead(t) == SubSeq(t, 1, CHOOSE n \in 0..Len(t) :
                            AllIn(t, 1, n, Blank) /\ At(t, n + 1) \notin Blank)
AfterGuard(t) ==
    LET start == Len(Lead(t))
        word == CHOOSE n \in start..Len(t) :
                    AllIn(t, start + 1, n, Letters) /\ At(t, n + 1) \notin Letters
        mark == IF At(t, word + 1) \in {",", "."} THEN word + 1 ELSE word
        rest == SubSeq(t, mark + 1, Len(t))
    IN  Lead(t) \o SubSeq(rest, Len(Lead(rest)) + 1, Len(rest))

Literal ==
    /\ Follow
    /\ At(region, Len(Lead(region)) + 1) \in Letters
    /\ \E i \in DOMAIN AfterGuard(region) : AfterGuard(region)[i] \in Letters
    /\ region' = AfterGuard(region)
    /\ Reseed(region')
    /\ UNCHANGED <<settled, previous, astray>>

\* _finish_apply: reseed(body), then end_utterance().
WithTrailer(body) ==
    body \o EndUtterance([tail |-> LastChars(body), hasOutput |-> hasOutput])

\* _apply and _finish_apply: the reply takes the place of the utterance, keeping
\* its separator.
Transform(reply) ==
    /\ Follow
    /\ LET body == Lead(region) \o reply
       IN  IF body \in {RStrip(region), region}
           THEN UNCHANGED <<tail, region>>
           ELSE /\ region' = WithTrailer(body)
                /\ Reseed(region')
    /\ UNCHANGED <<settled, previous, astray>>

\* A revision, or the reply to a chain, takes the previous region with it.
Revise(reply) ==
    /\ Follow /\ previous # <<>>
    /\ LET body == Lead(previous \o region) \o reply
       IN  region' = WithTrailer(body)
    /\ previous' = <<>>
    /\ Reseed(region')
    /\ UNCHANGED <<settled, astray>>

\* _restore_original: a streamed reply failed, the dictated text is back.
RestoreOriginal ==
    /\ Follow
    /\ Reseed(region)
    /\ UNCHANGED <<settled, previous, region, astray>>

Done == ~speaking /\ utterances = UtteranceLimit /\ UNCHANGED vars

Next ==
    \/ StartUtterance
    \/ \E token \in Tokens : CommitWords(token) \/ Render(token)
    \/ FinalizeCommit \/ FinalizeCorrecting \/ FinalizeFails \/ FinalizeSkips
    \/ Scratch \/ NewLine \/ PressKey \/ Copy \/ Literal
    \/ \E reply \in Replies : Transform(reply) \/ Revise(reply)
    \/ RestoreOriginal
    \/ Done

Spec == Init /\ [][Next]_vars

-----------------------------------------------------------------------------
(* Properties.                                                             *)

\* "never a leading space on the first output of a session" and "never a double
\* space", through every commit, trailer, command and reply.
NeverTwoSpaces ==
    /\ At(Screen, 1) # " "
    /\ \A i \in 2..Len(Screen) : Screen[i] = " " => Screen[i - 1] \notin Blank

\* No word is typed onto the end of another: a letter never follows a
\* punctuation mark at once, and two utterances or two regions do not meet inside
\* a word, unless the formatter lost sight of the screen.
WordsStayApart ==
    LET Meet(t, s) == EndChar(t) \in Letters /\ At(s, 1) \in Letters
    IN  astray = {} =>
            /\ \A i \in 2..Len(Screen) : Screen[i] \in Letters => Screen[i - 1] \notin Punct
            /\ ~Meet(settled, previous \o region) /\ ~Meet(settled \o previous, region)

\* What the user reads is spaced as text is.
WellSpaced == NeverTwoSpaces /\ WordsStayApart

TailIsTheEnd ==
    /\ Len(tail) <= Len(Screen)
    /\ tail = SubSeq(Screen, Len(Screen) - Len(tail) + 1, Len(Screen))
    /\ tail = <<>> => EndChar(Screen) \in Blank \cup {NoChar}

\* Between utterances the formatter's tail is how the screen ends, whatever
\* command or reply came last: the next separator and capital are computed
\* against what is there.
KnowsTheEnd == (~speaking /\ astray = {}) => TailIsTheEnd

\* Committing an utterance piece by piece types what formatting it at once would
\* have typed, capitals aside, when its tokens carry the spaces Whisper gives
\* them and no two marks meet.
DeltasLikeWhole ==
    LET Lower(t) == [i \in DOMAIN t |-> IF t[i] = "A" THEN "a" ELSE t[i]]
        Plain == /\ At(raw, 1) = " "
                 /\ \A i \in 2..Len(raw) :
                       /\ raw[i] \in Letters => raw[i - 1] \in {" ", "(", "'"}
                       /\ raw[i] \in Punct => raw[i - 1] \notin Punct \cup {" ", ")"}
        before == [tail |-> LastChars(settled \o previous), hasOutput |-> FALSE]
    IN  (typing = "commit" /\ speaking /\ Plain)
            => Lower(region) = Lower(FormatDelta(before, raw))

\* wldictate/streaming.py, finalize() without a final decode: "Advance formatter
\* state to match what's stranded there so the next utterance's spacing is
\* computed correctly."
StrandedTextIsKnown == (~speaking /\ astray \subseteq {"stranded"}) => TailIsTheEnd
=============================================================================
