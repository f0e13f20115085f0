-------------------------- MODULE TextFormatterProofs --------------------------
(***************************************************************************)
(* Proofs about the formatter.  It knows how the screen ends: its tail and *)
(* the screen grow by the same text, or the tail is taken anew from a text *)
(* that is not empty, or nothing is known and there is nothing to know.    *)
(* And the screen is spaced as text is: clean_text leaves no letter behind *)
(* a mark and no blank behind a blank, whatever it was given, and what is  *)
(* typed meets what the tail knows to be before it.                        *)
(***************************************************************************)
EXTENDS TextFormatter, SequenceTheorems, WellFoundedInduction, TLAPS

-----------------------------------------------------------------------------
(* Sequences.                                                              *)

LEMMA Smallest ==
    ASSUME NEW T \in SUBSET Nat, T # {}
    PROVE  \E n \in T : \A m \in T : n <= m
<1>1. PICK n \in T : \A m \in T : ~(<<m, n>> \in OpToRel(<, Nat))
  BY NatLessThanWellFounded, WFMin
<1>2. \A m \in T : ~(m < n)
  BY <1>1 DEF OpToRel
<1>3. QED
  BY <1>2

\* Induction over sequences, for sets instead of predicates.
LEMMA SeqInduction ==
    ASSUME NEW S, NEW T \in SUBSET Seq(S), <<>> \in T,
           \A s \in T, e \in S : Append(s, e) \in T
    PROVE  T = Seq(S)
<1> DEFINE Bad == {n \in Nat : \E s \in Seq(S) : s \notin T /\ Len(s) = n}
<1>1. SUFFICES ASSUME Bad # {} PROVE FALSE
  <2>1. SUFFICES ASSUME NEW s \in Seq(S), s \notin T PROVE FALSE
    OBVIOUS
  <2>2. Len(s) \in Bad
    BY <2>1, LenProperties
  <2>3. QED
    BY <1>1, <2>2
<1>2. PICK n \in Bad : \A m \in Bad : n <= m
  BY <1>1, Smallest
<1>3. PICK s \in Seq(S) : s \notin T /\ Len(s) = n
  BY <1>2
<1>4. s # <<>>
  BY <1>3
<1>5. PICK r \in Seq(S), e \in S : s = Append(r, e)
  BY <1>4, SequenceEmptyOrAppend
<1>6. Len(r) = n - 1 /\ Len(r) \in Nat
  <2>1. Len(Append(r, e)) = Len(r) + 1
    BY AppendProperties
  <2>2. Len(r) \in Nat
    BY LenProperties
  <2>3. QED
    BY <1>3, <1>5, <2>1, <2>2
<1>7. r \in T
  <2>1. Len(r) \notin Bad
    BY <1>2, <1>6
  <2>2. QED
    BY <2>1, <1>6
<1>8. QED
  BY <1>3, <1>5, <1>7

\* The recursion of FlattenSeq.
Flattens(s, f) == f = [i \in 1..Len(s) |-> IF i = 1 THEN s[i] ELSE f[i - 1] \o s[i]]

LEMMA FlattensExists ==
    ASSUME NEW K
    PROVE  \A s \in Seq(Seq(K)) : \E f : Flattens(s, f) /\ \A i \in 1..Len(s) : f[i] \in Seq(K)
<1> DEFINE Good(s) == \E f : Flattens(s, f) /\ \A i \in 1..Len(s) : f[i] \in Seq(K)
           T == {s \in Seq(Seq(K)) : Good(s)}
<1>1. Good(<<>>)
  <2> DEFINE f == [i \in {} |-> <<>>]
  <2>1. 1..Len(<<>>) = {}
    OBVIOUS
  <2>2. Flattens(<<>>, f)
    BY <2>1 DEF Flattens
  <2>3. QED
    BY <2>1, <2>2
<1>2. ASSUME NEW s \in Seq(Seq(K)), Good(s), NEW e \in Seq(K)
      PROVE  Good(Append(s, e))
  <2>1. PICK f : Flattens(s, f) /\ \A i \in 1..Len(s) : f[i] \in Seq(K)
    BY <1>2
  <2> DEFINE n == Len(s)
             a == Append(s, e)
             last == IF n = 0 THEN e ELSE f[n] \o e
             g == [i \in 1..(n + 1) |-> IF i = n + 1 THEN last ELSE f[i]]
  <2>2. n \in Nat /\ Len(a) = n + 1 /\ a[n + 1] = e /\ \A i \in 1..n : a[i] = s[i]
    BY AppendProperties, LenProperties
  <2>3. \A i \in 1..n : f[i] = IF i = 1 THEN s[i] ELSE f[i - 1] \o s[i]
    BY <2>1 DEF Flattens
  <2>4. last \in Seq(K)
    BY <2>1, <2>2, ConcatProperties
  <2> HIDE DEF a, last
  <2>5. \A i \in 1..(n + 1) : g[i] = IF i = 1 THEN a[i] ELSE g[i - 1] \o a[i]
    <3>1. ASSUME NEW i \in 1..(n + 1), i # n + 1
          PROVE  g[i] = IF i = 1 THEN a[i] ELSE g[i - 1] \o a[i]
      <4>1. i \in 1..n /\ g[i] = f[i] /\ a[i] = s[i] /\ (i # 1 => g[i - 1] = f[i - 1])
        BY <3>1, <2>2
      <4>2. QED
        BY <4>1, <2>3
    <3>2. g[n + 1] = IF n + 1 = 1 THEN a[n + 1] ELSE g[(n + 1) - 1] \o a[n + 1]
      <4>1. g[n + 1] = last
        BY <2>2
      <4>2. CASE n = 0
        BY <4>1, <4>2, <2>2 DEF last
      <4>3. CASE n # 0
        <5>1. g[(n + 1) - 1] = f[n]
          BY <4>3, <2>2
        <5>2. QED
          BY <4>1, <4>3, <5>1, <2>2 DEF last
      <4>4. QED
        BY <4>2, <4>3
    <3>3. QED
      BY <3>1, <3>2
  <2>6. \A i \in 1..(n + 1) : g[i] \in Seq(K)
    BY <2>1, <2>2, <2>4
  <2>7. g = [i \in 1..Len(a) |-> IF i = 1 THEN a[i] ELSE g[i - 1] \o a[i]]
    <3>1. g = [i \in 1..(n + 1) |-> g[i]]
      OBVIOUS
    <3> HIDE DEF g
    <3>2. QED
      BY <3>1, <2>5, <2>2
  <2>8. Flattens(a, g)
    BY <2>7 DEF Flattens
  <2>9. QED
    <3> HIDE DEF g
    <3>1. QED
      BY <2>2, <2>6, <2>8 DEF a
<1>3. T = Seq(Seq(K))
  <2>1. T \in SUBSET Seq(Seq(K)) /\ <<>> \in T
    BY <1>1
  <2>2. \A s \in T, e \in Seq(K) : Append(s, e) \in T
    BY <1>2, AppendProperties
  <2> HIDE DEF T
  <2>3. QED
    BY <2>1, <2>2, SeqInduction
<1>4. QED
  BY <1>3

LEMMA FlattenIs ==
    ASSUME NEW K, NEW s \in Seq(Seq(K)), Len(s) # 0
    PROVE  \E f : Flattens(s, f) /\ FlattenSeq(s) = f[Len(s)]
<1> DEFINE g == CHOOSE f : f = [i \in 1..Len(s) |-> IF i = 1 THEN s[i] ELSE f[i - 1] \o s[i]]
<1>1. \E f : Flattens(s, f)
  BY FlattensExists
<1>2. Flattens(s, g)
  BY <1>1 DEF Flattens
<1>3. FlattenSeq(s) = g[Len(s)]
  BY DEF FlattenSeq
<1>4. QED
  BY <1>2, <1>3

LEMMA FlattenEmpty == FlattenSeq(<<>>) = <<>>
  BY DEF FlattenSeq

\* The recursions for a sequence and for its extension agree.
LEMMA FlattensAgree ==
    ASSUME NEW K, NEW s \in Seq(Seq(K)), NEW e \in Seq(K), NEW f, NEW g,
           Flattens(s, f), Flattens(Append(s, e), g)
    PROVE  \A i \in 1..Len(s) : g[i] = f[i]
<1> DEFINE n == Len(s)
           a == Append(s, e)
           Bad == {i \in 1..n : g[i] # f[i]}
<1>1. n \in Nat /\ Len(a) = n + 1 /\ \A i \in 1..n : a[i] = s[i]
  BY AppendProperties, LenProperties
<1> HIDE DEF a, n
<1>2. \A i \in 1..n : f[i] = IF i = 1 THEN s[i] ELSE f[i - 1] \o s[i]
  BY DEF Flattens, n
<1>3. \A i \in 1..n : g[i] = IF i = 1 THEN a[i] ELSE g[i - 1] \o a[i]
  <2>1. g = [i \in 1..(n + 1) |-> IF i = 1 THEN a[i] ELSE g[i - 1] \o a[i]]
    BY <1>1 DEF Flattens, a
  <2>2. \A i \in 1..n : i \in 1..(n + 1)
    BY <1>1
  <2>3. QED
    BY <2>1, <2>2
<1>4. SUFFICES ASSUME Bad # {} PROVE FALSE
  BY DEF n
<1>5. PICK i \in Bad : \A j \in Bad : i <= j
  <2>1. Bad \in SUBSET Nat
    BY <1>1
  <2> HIDE DEF Bad
  <2>2. QED
    BY <1>4, <2>1, Smallest
<1>6. CASE i = 1
  BY <1>1, <1>2, <1>3, <1>5, <1>6
<1>7. CASE i # 1
  <2>1. i - 1 \in 1..n /\ i \in 1..n /\ i - 1 < i
    BY <1>1, <1>5, <1>7
  <2>2. g[i - 1] = f[i - 1]
    BY <1>5, <2>1
  <2>3. g[i] = f[i]
    BY <1>1, <1>2, <1>3, <1>7, <2>1, <2>2
  <2>4. QED
    BY <1>5, <2>3
<1>8. QED
  BY <1>6, <1>7

LEMMA FlattenAppend ==
    ASSUME NEW K, NEW s \in Seq(Seq(K)), NEW e \in Seq(K)
    PROVE  FlattenSeq(Append(s, e)) = FlattenSeq(s) \o e
<1> DEFINE n == Len(s)
           a == Append(s, e)
<1>1. n \in Nat /\ a \in Seq(Seq(K)) /\ Len(a) = n + 1 /\ a[n + 1] = e
  BY AppendProperties, LenProperties
<1> HIDE DEF a
<1>2. PICK g : Flattens(a, g) /\ FlattenSeq(a) = g[n + 1]
  <2>1. Len(a) # 0
    BY <1>1
  <2>2. QED
    BY <1>1, <2>1, FlattenIs
<1>3. g[n + 1] = IF n + 1 = 1 THEN e ELSE g[(n + 1) - 1] \o e
  <2>1. n + 1 \in 1..Len(a)
    BY <1>1
  <2>2. g = [i \in 1..Len(a) |-> IF i = 1 THEN a[i] ELSE g[i - 1] \o a[i]]
    BY <1>2 DEF Flattens
  <2>3. QED
    BY <1>1, <2>1, <2>2
<1> USE DEF a
<1>4. CASE n = 0
  <2>1. s = <<>>
    BY <1>4
  <2>2. <<>> \o e = e
    BY ConcatEmptySeq
  <2>3. QED
    BY <1>1, <1>2, <1>3, <1>4, <2>1, <2>2, FlattenEmpty
<1>5. CASE n # 0
  <2>1. PICK f : Flattens(s, f) /\ FlattenSeq(s) = f[n]
    BY <1>5, FlattenIs
  <2>2. g[n] = f[n]
    BY <1>1, <1>2, <1>5, <2>1, FlattensAgree
  <2>3. (n + 1) - 1 = n /\ n + 1 # 1
    BY <1>1, <1>5
  <2>4. QED
    BY <1>2, <1>3, <2>1, <2>2, <2>3
<1>6. QED
  BY <1>4, <1>5

LEMMA FlattenType ==
    ASSUME NEW K
    PROVE  \A s \in Seq(Seq(K)) : FlattenSeq(s) \in Seq(K)
<1> DEFINE T == {s \in Seq(Seq(K)) : FlattenSeq(s) \in Seq(K)}
<1>1. T \in SUBSET Seq(Seq(K)) /\ <<>> \in T
  <2>1. <<>> \in Seq(Seq(K)) /\ <<>> \in Seq(K)
    BY EmptySeq
  <2>2. FlattenSeq(<<>>) \in Seq(K)
    BY <2>1, FlattenEmpty, Zenon
  <2>3. QED
    BY <2>1, <2>2
<1>2. ASSUME NEW s \in T, NEW e \in Seq(K) PROVE Append(s, e) \in T
  BY FlattenAppend, AppendProperties, ConcatProperties
<1> HIDE DEF T
<1>3. T = Seq(Seq(K))
  BY <1>1, <1>2, SeqInduction
<1>4. QED
  BY <1>3 DEF T
-----------------------------------------------------------------------------
(* The types of texts.                                                     *)

Text == Seq(Chars)

LEMMA AtIs ==
    ASSUME NEW K, NEW t \in Seq(K), NEW i \in Int
    PROVE  /\ (1 <= i /\ i <= Len(t)) => At(t, i) = t[i] /\ t[i] \in K
           /\ ~(1 <= i /\ i <= Len(t)) => At(t, i) = NoChar
<1>1. DOMAIN t = 1..Len(t) /\ Len(t) \in Nat /\ \A j \in 1..Len(t) : t[j] \in K
  BY LenProperties
<1>2. i \in DOMAIN t <=> (1 <= i /\ i <= Len(t))
  BY <1>1
<1>3. QED
  BY <1>1, <1>2 DEF At

LEMMA ShortTexts ==
    ASSUME NEW K, NEW a \in K, NEW b \in K
    PROVE  <<a>> \in Seq(K) /\ <<a, b>> \in Seq(K) /\ <<a, a, a, b>> \in Seq(K)
<1>1. <<a>> \in Seq(K)
  OBVIOUS
<1>2. <<a, b>> = Append(<<a>>, b)
  OBVIOUS
<1>3. <<a, b>> \in Seq(K)
  BY <1>1, <1>2, AppendProperties
<1>4. <<a, a>> \in Seq(K)
  <2>1. <<a, a>> = Append(<<a>>, a)
    OBVIOUS
  <2>2. QED
    BY <1>1, <2>1, AppendProperties
<1>5. <<a, a, a>> \in Seq(K)
  <2>1. <<a, a, a>> = Append(<<a, a>>, a)
    OBVIOUS
  <2>2. QED
    BY <1>4, <2>1, AppendProperties
<1>6. <<a, a, a, b>> \in Seq(K)
  <2>1. <<a, a, a, b>> = Append(<<a, a, a>>, b)
    OBVIOUS
  <2>2. QED
    BY <1>5, <2>1, AppendProperties
<1>7. QED
  BY <1>1, <1>3, <1>6

LEMMA Mapped ==
    ASSUME NEW K, NEW n \in Nat, NEW f, f = [i \in 1..n |-> f[i]], \A i \in 1..n : f[i] \in K
    PROVE  f \in Seq(K) /\ Len(f) = n
  OBVIOUS

LEMMA WithoutType ==
    ASSUME NEW K, NEW t \in Seq(K), NEW gone
    PROVE  Without(t, gone) \in Seq(K)
<1> DEFINE s == [i \in DOMAIN t |-> IF i \in gone THEN <<>> ELSE <<t[i]>>]
<1>1. DOMAIN t = 1..Len(t) /\ Len(t) \in Nat /\ \A i \in 1..Len(t) : t[i] \in K
  BY LenProperties
<1>2. ASSUME NEW i \in 1..Len(t) PROVE s[i] \in Seq(K)
  BY <1>1, ShortTexts, EmptySeq
<1>3. s \in Seq(Seq(K))
  <2>1. s = [i \in 1..Len(t) |-> s[i]]
    BY <1>1
  <2> HIDE DEF s
  <2>2. QED
    BY <1>1, <1>2, <2>1, Mapped
<1> HIDE DEF s
<1>4. FlattenSeq(s) \in Seq(K)
  BY <1>3, FlattenType
<1>5. QED
  BY <1>4 DEF s, Without

LEMMA SpacedType ==
    ASSUME NEW K, " " \in K, NEW t \in Seq(K), NEW those
    PROVE  SpacedAfter(t, those) \in Seq(K)
<1> DEFINE s == [i \in DOMAIN t |-> IF i \in those THEN <<t[i], " ">> ELSE <<t[i]>>]
<1>1. DOMAIN t = 1..Len(t) /\ Len(t) \in Nat /\ \A i \in 1..Len(t) : t[i] \in K
  BY LenProperties
<1>2. ASSUME NEW i \in 1..Len(t) PROVE s[i] \in Seq(K)
  BY <1>1, ShortTexts, EmptySeq
<1>3. s \in Seq(Seq(K))
  <2>1. s = [i \in 1..Len(t) |-> s[i]]
    BY <1>1
  <2> HIDE DEF s
  <2>2. QED
    BY <1>1, <1>2, <2>1, Mapped
<1> HIDE DEF s
<1>4. FlattenSeq(s) \in Seq(K)
  BY <1>3, FlattenType
<1>5. QED
  BY <1>4 DEF s, SpacedAfter

LEMMA EllipsesType ==
    ASSUME NEW K, " " \in K, "." \in K, NEW t \in Seq(K)
    PROVE  SpacedEllipses(t) \in Seq(K)
<1> DEFINE periods == {i \in DOMAIN t : t[i] = "."}
           Linked(p, i) == AllIn(t, p, i, Blank \cup {"."}) /\ AllIn(t, i, p, Blank \cup {"."})
           within == {i \in DOMAIN t : \E p, q \in periods : p # q /\ Linked(p, i) /\ Linked(q, i)}
           Run(i) == IF i \notin within THEN <<t[i]>>
                     ELSE IF i - 1 \in within THEN <<>> ELSE <<".", ".", ".", " ">>
           s == [i \in DOMAIN t |-> Run(i)]
<1>1. DOMAIN t = 1..Len(t) /\ Len(t) \in Nat /\ \A i \in 1..Len(t) : t[i] \in K
  BY LenProperties
<1>2. SpacedEllipses(t) = FlattenSeq(s)
  BY DEF SpacedEllipses
<1> HIDE DEF within
<1>3. ASSUME NEW i \in 1..Len(t) PROVE s[i] \in Seq(K)
  <2>1. t[i] \in K
    BY <1>1
  <2>2. <<t[i]>> \in Seq(K) /\ <<".", ".", ".", " ">> \in Seq(K) /\ <<>> \in Seq(K)
    BY <2>1, ShortTexts, EmptySeq
  <2>3. QED
    BY <1>1, <2>2
<1>4. s \in Seq(Seq(K))
  <2>1. s = [i \in 1..Len(t) |-> s[i]]
    BY <1>1
  <2> HIDE DEF s
  <2>2. QED
    BY <1>1, <1>3, <2>1, Mapped
<1> HIDE DEF s
<1>5. FlattenSeq(s) \in Seq(K)
  BY <1>4, FlattenType
<1>6. QED
  BY <1>2, <1>5

\* Of nothing, nothing is made.
LEMMA OfNothing ==
    /\ \A gone : Without(<<>>, gone) = <<>> /\ SpacedAfter(<<>>, gone) = <<>>
    /\ SpacedEllipses(<<>>) = <<>>
<1>1. DOMAIN <<>> = {}
  OBVIOUS
<1>2. ASSUME NEW gone PROVE Without(<<>>, gone) = <<>> /\ SpacedAfter(<<>>, gone) = <<>>
  <2>1. [i \in DOMAIN <<>> |-> IF i \in gone THEN <<>> ELSE <<(<<>>)[i]>>] = <<>>
    BY <1>1
  <2>2. [i \in DOMAIN <<>> |-> IF i \in gone THEN <<(<<>>)[i], " ">> ELSE <<(<<>>)[i]>>] = <<>>
    BY <1>1
  <2>3. Without(<<>>, gone) = FlattenSeq(<<>>)
    BY <2>1, Zenon DEF Without
  <2>4. SpacedAfter(<<>>, gone) = FlattenSeq(<<>>)
    BY <2>2, Zenon DEF SpacedAfter
  <2>5. QED
    BY <2>3, <2>4, FlattenEmpty
<1>3. SpacedEllipses(<<>>) = <<>>
  <2> DEFINE t == <<>>
             periods == {i \in DOMAIN t : t[i] = "."}
             Linked(p, i) == AllIn(t, p, i, Blank \cup {"."}) /\ AllIn(t, i, p, Blank \cup {"."})
             within == {i \in DOMAIN t : \E p, q \in periods : p # q /\ Linked(p, i) /\ Linked(q, i)}
             Run(i) == IF i \notin within THEN <<t[i]>>
                       ELSE IF i - 1 \in within THEN <<>> ELSE <<".", ".", ".", " ">>
  <2>1. SpacedEllipses(<<>>) = FlattenSeq([i \in DOMAIN t |-> Run(i)])
    BY DEF SpacedEllipses
  <2>2. [i \in DOMAIN t |-> Run(i)] = <<>>
    <3> HIDE DEF Run
    <3>1. QED
      BY <1>1
  <2>3. QED
    BY <2>1, <2>2, FlattenEmpty, Zenon
<1>4. QED
  BY <1>2, <1>3

LEMMA CleanType ==
    ASSUME NEW K, " " \in K, "." \in K, NEW t \in Seq(K), NEW start
    PROVE  CleanText(t, start) \in Seq(K)
<1> DEFINE a == WithoutAnnotations(t)
           b == PunctJoined(a)
           c == Strip(b)
           d == SpacedCommas(c)
           e == SpacedPeriods(d)
           f == SpacedEllipses(e)
           g == SpacedExclamations(f)
           h == IF start THEN WithoutLeadingPunct(g) ELSE g
<1>1. a \in Seq(K)
  BY WithoutType DEF WithoutAnnotations
<1> HIDE DEF a
<1>2. b \in Seq(K)
  BY <1>1, WithoutType DEF PunctJoined
<1> HIDE DEF b
<1>3. c \in Seq(K)
  BY <1>2, WithoutType DEF Strip
<1> HIDE DEF c
<1>4. d \in Seq(K)
  BY <1>3, SpacedType DEF SpacedCommas
<1> HIDE DEF d
<1>5. e \in Seq(K)
  BY <1>4, SpacedType DEF SpacedPeriods
<1> HIDE DEF e
<1>6. f \in Seq(K)
  BY <1>5, EllipsesType
<1> HIDE DEF f
<1>7. g \in Seq(K)
  BY <1>6, SpacedType DEF SpacedExclamations
<1> HIDE DEF g
<1>8. h \in Seq(K)
  BY <1>7, WithoutType DEF WithoutLeadingPunct
<1>9. CleanText(t, start) = Collapsed(h)
  BY DEF CleanText, Respaced, a, b, c, d, e, f, g
<1> HIDE DEF h
<1>10. Collapsed(h) \in Seq(K)
  BY <1>8, WithoutType DEF Collapsed, Strip
<1>11. QED
  BY <1>9, <1>10

LEMMA CleanNothing ==
    ASSUME NEW start
    PROVE  CleanText(<<>>, start) = <<>>
<1>1. WithoutAnnotations(<<>>) = <<>> /\ PunctJoined(<<>>) = <<>> /\ Strip(<<>>) = <<>>
  BY OfNothing, Zenon DEF WithoutAnnotations, PunctJoined, Strip
<1>2. Respaced(<<>>) = <<>>
  BY OfNothing, Zenon DEF Respaced, SpacedCommas, SpacedPeriods, SpacedExclamations
<1>3. WithoutLeadingPunct(<<>>) = <<>>
  BY OfNothing, Zenon DEF WithoutLeadingPunct
<1>4. Collapsed(<<>>) = <<>>
  BY <1>1, OfNothing, Zenon DEF Collapsed
<1>5. QED
  BY <1>1, <1>2, <1>3, <1>4, Zenon DEF CleanText

LEMMA CharsHere == " " \in Chars /\ "." \in Chars /\ "A" \in Chars /\ "\n" \in Chars
  BY DEF Chars, Letters, Punct, Closers, Blank

LEMMA FormatType ==
    ASSUME NEW f, f.tail \in Text, NEW t \in Text
    PROVE  FormatDelta(f, t) \in Text
<1> DEFINE text == CleanText(t, ~f.hasOutput)
           spaced == IF NeedsSeparator(f, text, t) THEN <<" ">> \o text ELSE text
<1>1. text \in Text
  BY CharsHere, CleanType DEF Text
<1>2. <<" ">> \in Text
  BY CharsHere, ShortTexts DEF Text
<1> HIDE DEF text
<1>3. spaced \in Text
  BY <1>1, <1>2, ConcatProperties DEF Text
<1> HIDE DEF spaced
<1>4. Capitalized(spaced) \in Text
  <2> DEFINE r == Capitalized(spaced)
  <2>1. DOMAIN spaced = 1..Len(spaced) /\ Len(spaced) \in Nat /\ \A i \in 1..Len(spaced) : spaced[i] \in Chars
    BY <1>3, LenProperties DEF Text
  <2>2. r = [i \in 1..Len(spaced) |-> r[i]] /\ \A i \in 1..Len(spaced) : r[i] \in Chars
    BY <2>1, CharsHere DEF Capitalized
  <2> HIDE DEF r
  <2>3. QED
    BY <2>1, <2>2, Mapped DEF Text, r
<1>5. <<>> \in Text
  BY EmptySeq DEF Text
<1>6. QED
  BY <1>1, <1>3, <1>4, <1>5 DEF FormatDelta, text, spaced

LEMMA FormatNothing ==
    ASSUME NEW f
    PROVE  FormatDelta(f, <<>>) = <<>>
  BY CleanNothing, Zenon DEF FormatDelta

\* A text and its end.
LEMMA LastCharsAre ==
    ASSUME NEW t \in Text
    PROVE  /\ LastChars(t) \in Text
           /\ t # <<>> => LastChars(t) # <<>>
           /\ \E p \in Text : t = p \o LastChars(t)
<1>1. Len(t) \in Nat /\ \A i \in 1..Len(t) : t[i] \in Chars
  BY LenProperties DEF Text
<1>2. CASE ~(Len(t) > 8)
  <2>1. LastChars(t) = SubSeq(t, 1, Len(t))
    BY <1>2, Zenon DEF LastChars
  <2>2. LastChars(t) = t
    BY <2>1, SubSeqFull DEF Text
  <2>3. <<>> \in Text /\ <<>> \o t = t
    BY EmptySeq, ConcatEmptySeq DEF Text
  <2>4. QED
    BY <2>2, <2>3
<1>3. CASE Len(t) > 8
  <2> DEFINE k == Len(t) - 8
             p == SubSeq(t, 1, k)
             q == SubSeq(t, k + 1, Len(t))
  <2>1. k \in 1..Len(t) /\ Len(t) - 7 = k + 1
    BY <1>1, <1>3
  <2>2. LastChars(t) = q
    BY <1>1, <1>3, <2>1 DEF LastChars
  <2>3. p \in Text /\ q \in Text /\ Len(q) = 8
    <3>1. /\ k \in Int /\ k + 1 \in Int /\ Len(t) \in Int /\ k + 1 <= Len(t) /\ Len(t) - (k + 1) + 1 = 8
          /\ \A i \in 1..k : t[i] \in Chars
          /\ \A i \in (k + 1)..Len(t) : t[i] \in Chars
      BY <1>1, <1>3
    <3> HIDE DEF k
    <3>2. p \in Seq(Chars)
      BY <3>1, SubSeqProperties
    <3>3. q \in Seq(Chars) /\ Len(q) = IF k + 1 <= Len(t) THEN Len(t) - (k + 1) + 1 ELSE 0
      BY <3>1, SubSeqProperties
    <3>4. QED
      BY <3>1, <3>2, <3>3 DEF Text
  <2>4. t = p \o q
    <3>1. SubSeq(t, 1, k) \o SubSeq(t, k + 1, Len(t)) = SubSeq(t, 1, Len(t))
      <4>1. 1 \in 1..(Len(t) + 1) /\ k \in (1 - 1)..Len(t) /\ Len(t) \in k..Len(t)
        BY <1>1, <2>1
      <4> HIDE DEF k
      <4>2. QED
        BY <4>1, ConcatAdjacentSubSeq DEF Text
    <3>2. SubSeq(t, 1, Len(t)) = t
      BY SubSeqFull DEF Text
    <3>3. QED
      BY <3>1, <3>2
  <2>5. q # <<>>
    <3> HIDE DEF q
    <3>1. QED
      BY <2>3, EmptySeq
  <2>6. QED
    BY <2>2, <2>3, <2>4, <2>5
<1>4. QED
  BY <1>2, <1>3, Zenon

LEMMA TrailerIs ==
    ASSUME NEW f
    PROVE  EndUtterance(f) \in {<<>>, <<" ">>} /\ EndUtterance(f) \in Text
<1>1. <<>> \in Text /\ <<" ">> \in Text
  BY CharsHere, ShortTexts, EmptySeq DEF Text
<1>2. QED
  BY <1>1 DEF EndUtterance

\* A run of characters comes to an end.
LEMMA RunEnds ==
    ASSUME NEW t \in Text, NEW k \in 0..Len(t), NEW cs, NoChar \notin cs
    PROVE  \E n \in k..Len(t) : AllIn(t, k + 1, n, cs) /\ At(t, n + 1) \notin cs
<1> DEFINE m == Len(t)
           T == {n \in k..m : At(t, n + 1) \notin cs}
<1>1. m \in Nat /\ k \in Nat /\ k <= m
  <2>1. m \in Nat
    BY LenProperties DEF Text
  <2>2. k \in 0..m
    OBVIOUS
  <2> HIDE DEF m
  <2>3. QED
    BY <2>1, <2>2
<1> HIDE DEF m
<1>2. At(t, m + 1) = NoChar
  <2>1. m + 1 \in Int /\ ~(1 <= m + 1 /\ m + 1 <= m)
    BY <1>1
  <2>2. QED
    BY <2>1, AtIs DEF Text, m
<1>3. m \in T
  BY <1>1, <1>2
<1>4. PICK n \in T : \A j \in T : n <= j
  <2>1. ASSUME NEW n \in T PROVE n \in Nat
    <3>1. n \in k..m
      OBVIOUS
    <3> HIDE DEF T
    <3>2. QED
      BY <1>1, <3>1
  <2> HIDE DEF T
  <2>2. T \in SUBSET Nat /\ T # {}
    BY <1>3, <2>1
  <2>3. QED
    BY <2>2, Smallest
<1>5. n \in k..m /\ At(t, n + 1) \notin cs
  BY <1>4
<1>6. ASSUME NEW j \in (k + 1)..n PROVE t[j] \in cs
  <2>1. j - 1 \in k..m /\ j - 1 < n /\ (j - 1) + 1 = j /\ j \in Int /\ 1 <= j /\ j <= m
    BY <1>1, <1>5
  <2>2. j - 1 \notin T
    BY <1>4, <2>1
  <2>3. At(t, j) \in cs
    BY <2>1, <2>2
  <2>4. At(t, j) = t[j]
    BY <2>1, AtIs DEF Text, m
  <2>5. QED
    BY <2>3, <2>4
<1>7. QED
  BY <1>5, <1>6 DEF AllIn, m

LEMMA NoneIsNoChar == NoChar \notin Blank /\ NoChar \notin Letters
  BY Zenon DEF NoChar, Blank, Letters

LEMMA PartOfText ==
    ASSUME NEW t \in Text, NEW m \in Int, NEW n \in Int, 1 <= m, n <= Len(t)
    PROVE  SubSeq(t, m, n) \in Text
<1>1. \A i \in 1..Len(t) : t[i] \in Chars
  BY LenProperties DEF Text
<1>2. Len(t) \in Nat
  BY LenProperties DEF Text
<1>3. \A i \in m..n : t[i] \in Chars
  BY <1>1, <1>2
<1>4. QED
  BY <1>3, SubSeqProperties DEF Text

\* The blanks at the head of a text.
LEMMA LeadIs ==
    ASSUME NEW t \in Text
    PROVE  \E n \in 0..Len(t) : /\ Lead(t) = SubSeq(t, 1, n) /\ Lead(t) \in Text /\ Len(Lead(t)) = n
                                /\ AllIn(t, 1, n, Blank) /\ At(t, n + 1) \notin Blank
<1> DEFINE n == CHOOSE k \in 0..Len(t) : AllIn(t, 1, k, Blank) /\ At(t, k + 1) \notin Blank
<1>1. Len(t) \in Nat
  BY LenProperties DEF Text
<1>2. \E k \in 0..Len(t) : AllIn(t, 1, k, Blank) /\ At(t, k + 1) \notin Blank
  <2>1. 0 \in 0..Len(t) /\ 0 + 1 = 1
    BY <1>1
  <2>2. \E k \in 0..Len(t) : AllIn(t, 0 + 1, k, Blank) /\ At(t, k + 1) \notin Blank
    BY <2>1, RunEnds, NoneIsNoChar
  <2>3. QED
    BY <2>1, <2>2
<1>3. n \in 0..Len(t) /\ AllIn(t, 1, n, Blank) /\ At(t, n + 1) \notin Blank
  BY <1>2
<1>4. Lead(t) = SubSeq(t, 1, n)
  BY DEF Lead
<1> HIDE DEF n
<1>5. SubSeq(t, 1, n) \in Text
  BY <1>1, <1>3, PartOfText
<1>6. Len(SubSeq(t, 1, n)) = n
  <2>1. /\ n \in Int /\ 1 \in Int /\ \A i \in 1..n : t[i] \in Chars
        /\ (IF 1 <= n THEN n - 1 + 1 ELSE 0) = n
    BY <1>1, <1>3, LenProperties DEF Text
  <2>2. Len(SubSeq(t, 1, n)) = IF 1 <= n THEN n - 1 + 1 ELSE 0
    BY <2>1, SubSeqProperties
  <2>3. QED
    BY <2>1, <2>2
<1>7. QED
  BY <1>3, <1>4, <1>5, <1>6

LEMMA AfterGuardType ==
    ASSUME NEW t \in Text
    PROVE  AfterGuard(t) \in Text
<1> DEFINE start == Len(Lead(t))
           word == CHOOSE n \in start..Len(t) :
                      AllIn(t, start + 1, n, Letters) /\ At(t, n + 1) \notin Letters
           mark == IF At(t, word + 1) \in {",", "."} THEN word + 1 ELSE word
           rest == SubSeq(t, mark + 1, Len(t))
           more == SubSeq(rest, Len(Lead(rest)) + 1, Len(rest))
<1>1. Lead(t) \in Text /\ start \in 0..Len(t) /\ Len(t) \in Nat
  BY LeadIs, LenProperties DEF Text
<1> HIDE DEF start
<1>2. word \in start..Len(t)
  <2>1. \E n \in start..Len(t) : AllIn(t, start + 1, n, Letters) /\ At(t, n + 1) \notin Letters
    BY <1>1, RunEnds, NoneIsNoChar
  <2>2. QED
    BY <2>1
<1> HIDE DEF word
<1>3. mark + 1 \in Int /\ 1 <= mark + 1
  <2>1. word \in Nat
    BY <1>1, <1>2
  <2>2. mark \in {word, word + 1}
    OBVIOUS
  <2> HIDE DEF mark
  <2>3. QED
    BY <2>1, <2>2
<1> HIDE DEF mark
<1>4. rest \in Text
  BY <1>1, <1>3, PartOfText
<1> HIDE DEF rest
<1>5. Len(Lead(rest)) + 1 \in Int /\ 1 <= Len(Lead(rest)) + 1 /\ Len(rest) \in Nat
  <2>1. PICK n \in 0..Len(rest) : Len(Lead(rest)) = n
    BY <1>4, LeadIs
  <2>2. QED
    BY <1>4, <2>1, LenProperties DEF Text
<1>6. more \in Text
  BY <1>4, <1>5, PartOfText
<1>7. AfterGuard(t) = Lead(t) \o more
  BY DEF AfterGuard, start, word, mark, rest
<1> HIDE DEF more
<1>8. QED
  BY <1>1, <1>6, <1>7, ConcatProperties DEF Text

-----------------------------------------------------------------------------
(* The screen and the formatter's tail.                                    *)

\* The text s ends in tl, and says all there is to know of its end.
EndsIn(s, tl) ==
    /\ \E p \in Text : s = p \o tl
    /\ tl = <<>> => EndChar(s) \in Blank \cup {NoChar}

LEMMA EndsGrow ==
    ASSUME NEW s \in Text, NEW tl \in Text, EndsIn(s, tl), NEW x \in Text
    PROVE  EndsIn(s \o x, LastChars(tl \o x)) /\ LastChars(tl \o x) \in Text
<1> DEFINE y == tl \o x
<1>1. y \in Text
  BY ConcatProperties DEF Text
<1>2. LastChars(y) \in Text /\ (y # <<>> => LastChars(y) # <<>>)
  BY <1>1, LastCharsAre
<1>3. \E q \in Text : s \o x = q \o LastChars(y)
  <2>1. PICK p \in Text : s = p \o tl
    BY DEF EndsIn
  <2>2. PICK q \in Text : y = q \o LastChars(y)
    BY <1>1, LastCharsAre
  <2>3. s \o x = p \o y
    BY <2>1, ConcatAssociative DEF Text
  <2> HIDE DEF y
  <2>4. p \o (q \o LastChars(y)) = (p \o q) \o LastChars(y)
    <3> DEFINE z == LastChars(y)
    <3>1. z \in Seq(Chars) /\ p \in Seq(Chars) /\ q \in Seq(Chars)
      BY <1>2, <2>1, <2>2 DEF Text
    <3> HIDE DEF z
    <3>2. p \o (q \o z) = (p \o q) \o z
      BY <3>1, ConcatAssociative
    <3>3. QED
      BY <3>2 DEF z
  <2>5. p \o q \in Text
    BY ConcatProperties DEF Text
  <2>6. QED
    BY <2>2, <2>3, <2>4, <2>5
<1>4. ASSUME LastChars(y) = <<>> PROVE EndChar(s \o x) \in Blank \cup {NoChar}
  <2>1. y = <<>>
    BY <1>2, <1>4
  <2>2. tl = <<>> /\ x = <<>>
    BY <2>1, ConcatEqualIffEmpty DEF Text
  <2>3. s \o x = s
    BY <2>2, ConcatEmptySeq DEF Text
  <2>4. QED
    BY <2>2, <2>3 DEF EndsIn
<1>5. QED
  BY <1>2, <1>3, <1>4 DEF EndsIn

LEMMA EndsAnew ==
    ASSUME NEW s \in Text, NEW x \in Text, x # <<>>
    PROVE  EndsIn(s \o x, LastChars(x)) /\ LastChars(x) \in Text
<1>1. LastChars(x) \in Text /\ LastChars(x) # <<>>
  BY LastCharsAre
<1>2. PICK q \in Text : x = q \o LastChars(x)
  BY LastCharsAre
<1>3. s \o (q \o LastChars(x)) = (s \o q) \o LastChars(x) /\ s \o q \in Text
  BY <1>1, ConcatAssociative, ConcatProperties DEF Text
<1>4. QED
  BY <1>1, <1>2, <1>3 DEF EndsIn

\* A tail of nothing is right where the screen is empty or ends in a blank.
LEMMA EndsUnknown ==
    ASSUME NEW s \in Text, s = <<>> \/ EndChar(s) \in Blank
    PROVE  EndsIn(s, <<>>)
<1>1. s = s \o <<>>
  BY ConcatEmptySeq DEF Text
<1>2. EndChar(s) \in Blank \cup {NoChar}
  <2>1. CASE s = <<>>
    <3>1. Len(s) = 0
      BY <2>1
    <3>2. At(s, 0) = NoChar
      BY AtIs DEF Text
    <3>3. QED
      BY <3>1, <3>2 DEF EndChar
  <2>2. QED
    BY <2>1
<1>3. QED
  BY <1>1, <1>2 DEF EndsIn

-----------------------------------------------------------------------------
(* The inductive invariant.                                                *)

TextTypes ==
    /\ typing \in {"commit", "correcting"} /\ speaking \in BOOLEAN
    /\ tail \in Text /\ settled \in Text /\ previous \in Text /\ region \in Text /\ raw \in Text

\* What the formatter's tail is the end of: while a correcting utterance is
\* spoken, the screen without it, since peek() advances nothing.
Known == IF speaking /\ typing = "correcting" THEN settled \o previous ELSE Screen

FormatterInv ==
    /\ TextTypes
    /\ astray = {} => EndsIn(Known, tail)
    /\ (speaking /\ typing = "correcting") => region = FormatDelta(State, raw)
    /\ mayFollow => ~speaking /\ region # <<>>

LEMMA ScreenIs ==
    ASSUME NEW a \in Text, NEW b \in Text, NEW c \in Text
    PROVE  /\ (a \o b) \o c \in Text /\ a \o b \in Text
           /\ (a \o b) \o <<>> = a \o b
           /\ (a \o <<>>) \o c = a \o c
  BY ConcatProperties, ConcatEmptySeq DEF Text

LEMMA EmptyText == <<>> \in Text
  BY EmptySeq DEF Text

LEMMA InitFormatter == Init => FormatterInv
<1> SUFFICES ASSUME Init PROVE FormatterInv
  OBVIOUS
<1>1. TextTypes /\ ~speaking /\ ~mayFollow
  BY EmptyText DEF Init, TextTypes
<1>2. Known = <<>> /\ tail = <<>>
  BY EmptyText, ScreenIs DEF Init, Known, Screen
<1>3. EndsIn(Known, tail)
  BY <1>2, EmptyText, EndsUnknown
<1>4. QED
  BY <1>1, <1>3 DEF FormatterInv

LEMMA StepStart == FormatterInv /\ StartUtterance => FormatterInv'
<1> SUFFICES ASSUME FormatterInv, StartUtterance PROVE FormatterInv'
  OBVIOUS
<1>1. TextTypes'
  BY EmptyText, ScreenIs DEF StartUtterance, FormatterInv, TextTypes
<1>2. Known' = Screen /\ Known = Screen
  BY <1>1, ScreenIs DEF FormatterInv, TextTypes, StartUtterance, Known, Screen
<1>3. (astray = {} => EndsIn(Known, tail))'
  BY <1>2 DEF FormatterInv, StartUtterance
<1>4. (region = FormatDelta(State, raw))'
  <2>1. region' = <<>> /\ raw' = <<>>
    BY DEF StartUtterance
  <2>2. FormatDelta(State', <<>>) = <<>>
    BY FormatNothing
  <2>3. QED
    BY <2>1, <2>2
<1>5. QED
  BY <1>1, <1>3, <1>4 DEF FormatterInv, StartUtterance

\* What is said stays a text.
LEMMA SaidType ==
    ASSUME TextTypes, NEW token \in Tokens, Said(token)
    PROVE  raw' \in Text /\ token \in Text
<1>1. token \in Seq(Chars \ {"\n"})
  BY FormatterAssumption
<1>2. token \in Text
  BY <1>1, SeqMonotonic DEF Text
<1>3. QED
  BY <1>2, ConcatProperties DEF Said, TextTypes, Text

LEMMA StateIs == State.tail = tail /\ State.hasOutput = hasOutput
  BY DEF State

LEMMA AdvancedIs ==
    ASSUME NEW f, NEW x
    PROVE  Advanced(f, x).tail = LastChars(f.tail \o x)
  BY DEF Advanced

\* The screen and the formatter advance by the same text.
LEMMA StepCommits ==
    ASSUME FormatterInv, speaking, typing = "commit", NEW x \in Text,
           region' = region \o x, tail' = LastChars(tail \o x), raw' \in Text, speaking' \in BOOLEAN,
           mayFollow' => mayFollow,
           UNCHANGED <<typing, settled, previous, astray>>
    PROVE  FormatterInv'
<1>1. TextTypes
  BY DEF FormatterInv
<1>2. Known = Screen /\ Known' = Screen' /\ Screen \in Text /\ Screen' = Screen \o x
  <2>1. settled \o previous \in Text
    BY <1>1, ConcatProperties DEF TextTypes, Text
  <2>2. (settled \o previous) \o (region \o x) = ((settled \o previous) \o region) \o x
    <3> DEFINE d == settled \o previous
    <3>1. d \in Seq(Chars) /\ region \in Seq(Chars) /\ x \in Seq(Chars)
      BY <1>1, <2>1 DEF TextTypes, Text
    <3> HIDE DEF d
    <3>2. d \o (region \o x) = (d \o region) \o x
      BY <3>1, ConcatAssociative
    <3>3. QED
      BY <3>2 DEF d
  <2>3. QED
    BY <1>1, <2>1, <2>2, ScreenIs DEF Known, Screen, TextTypes
<1>3. TextTypes'
  <2>1. tail \o x \in Text /\ region \o x \in Text
    BY <1>1, ConcatProperties DEF TextTypes, Text
  <2>2. tail' \in Text
    BY <2>1, LastCharsAre
  <2>3. QED
    BY <1>1, <2>1, <2>2 DEF TextTypes
<1>4. (astray = {} => EndsIn(Known, tail))'
  BY <1>1, <1>2, EndsGrow DEF FormatterInv, TextTypes
<1>5. ~mayFollow' /\ typing' = "commit"
  BY DEF FormatterInv
<1>6. QED
  BY <1>3, <1>4, <1>5 DEF FormatterInv

LEMMA StepCommit ==
    ASSUME FormatterInv, NEW token \in Tokens, CommitWords(token)
    PROVE  FormatterInv'
<1> DEFINE x == FormatDelta(State, token)
<1>1. TextTypes /\ raw' \in Text /\ token \in Text
  BY SaidType DEF FormatterInv, CommitWords
<1>2. x \in Text
  BY <1>1, StateIs, FormatType DEF TextTypes
<1>3. region' = region \o x /\ tail' = LastChars(tail \o x)
  BY StateIs, AdvancedIs DEF CommitWords, Become
<1> HIDE DEF x
<1>4. QED
  BY <1>1, <1>2, <1>3, StepCommits DEF CommitWords, TextTypes

LEMMA StepRender ==
    ASSUME FormatterInv, NEW token \in Tokens, Render(token)
    PROVE  FormatterInv'
<1>1. TextTypes /\ raw' \in Text
  BY SaidType DEF FormatterInv, Render
<1>2. region' = FormatDelta(State, raw') /\ State' = State
  BY DEF Render, State
<1>3. region' \in Text
  BY <1>1, <1>2, StateIs, FormatType DEF TextTypes
<1>4. TextTypes'
  BY <1>1, <1>3 DEF TextTypes, Render
<1>5. Known' = Known
  BY DEF Known, Render
<1>6. QED
  BY <1>2, <1>4, <1>5 DEF FormatterInv, Render

LEMMA StepFinalizeCommit ==
    ASSUME FormatterInv, FinalizeCommit
    PROVE  FormatterInv'
<1> DEFINE x == EndUtterance(State)
<1>1. TextTypes /\ x \in Text
  BY TrailerIs DEF FormatterInv
<1>2. region' = region \o x /\ tail' = LastChars(tail \o x)
  BY StateIs, AdvancedIs DEF FinalizeCommit, Become
<1> HIDE DEF x
<1>3. QED
  BY <1>1, <1>2, StepCommits DEF FinalizeCommit, TextTypes

\* The formatter is advanced over an utterance and its trailer, and both are
\* put behind what was there before it.
LEMMA FinalEnds ==
    ASSUME NEW s \in Text, NEW tl \in Text, EndsIn(s, tl), NEW x \in Text, NEW y \in Text
    PROVE  /\ EndsIn(s \o (x \o y), LastChars(LastChars(tl \o x) \o y))
           /\ LastChars(LastChars(tl \o x) \o y) \in Text
<1> DEFINE w == LastChars(tl \o x)
           a == s \o x
<1>1. a \in Text /\ w \in Text /\ EndsIn(a, w)
  BY EndsGrow, ConcatProperties DEF Text
<1>2. s \o (x \o y) = a \o y
  BY ConcatAssociative DEF Text
<1> HIDE DEF a, w
<1>3. EndsIn(a \o y, LastChars(w \o y)) /\ LastChars(w \o y) \in Text
  BY <1>1, EndsGrow
<1>4. QED
  BY <1>2, <1>3 DEF w

\* An utterance ends with the text x and the trailer y on the screen, and the
\* formatter advanced over both.
LEMMA StepFinal ==
    ASSUME FormatterInv, speaking, typing = "correcting", NEW x \in Text, NEW y \in Text,
           region' \in Text, astray' = {} => astray = {} /\ region' = x \o y,
           tail' = LastChars(LastChars(tail \o x) \o y),
           speaking' = FALSE, mayFollow' => region' # <<>>,
           UNCHANGED <<typing, settled, previous, raw>>
    PROVE  FormatterInv'
<1>1. TextTypes /\ settled \o previous \in Text
  BY ConcatProperties DEF FormatterInv, TextTypes, Text
<1>2. tail' \in Text
  <2>1. tail \o x \in Text
    BY <1>1, ConcatProperties DEF TextTypes, Text
  <2>2. LastChars(tail \o x) \in Text
    BY <2>1, LastCharsAre
  <2>3. LastChars(tail \o x) \o y \in Text
    BY <2>2, ConcatProperties DEF Text
  <2>4. QED
    BY <2>3, LastCharsAre
<1>3. TextTypes'
  BY <1>1, <1>2 DEF TextTypes
<1>4. ASSUME astray' = {} PROVE EndsIn(Screen', tail')
  <2>1. EndsIn(settled \o previous, tail) /\ region' = x \o y
    BY <1>4 DEF FormatterInv, Known
  <2> DEFINE s == settled \o previous
  <2>2. s \in Text /\ EndsIn(s, tail) /\ tail \in Text
    BY <1>1, <2>1 DEF TextTypes
  <2>3. Screen' = s \o (x \o y)
    BY <2>1 DEF Screen
  <2> HIDE DEF s
  <2>4. EndsIn(s \o (x \o y), LastChars(LastChars(tail \o x) \o y))
    BY <2>2, FinalEnds
  <2>5. QED
    BY <2>3, <2>4
<1>5. Known' = Screen'
  BY DEF Known
<1>6. QED
  BY <1>3, <1>4, <1>5 DEF FormatterInv

LEMMA StepFinalizeCorrecting ==
    ASSUME FormatterInv, FinalizeCorrecting
    PROVE  FormatterInv'
<1> DEFINE x == FormatDelta(State, raw)
           after == Advanced(State, x)
           y == EndUtterance(after)
<1>1. TextTypes /\ x \in Text /\ y \in Text
  BY StateIs, FormatType, TrailerIs DEF FormatterInv, TextTypes
<1>2. /\ region' = x \o y /\ tail' = LastChars(LastChars(tail \o x) \o y)
      /\ mayFollow' = (x # <<>>)
  BY StateIs, AdvancedIs DEF FinalizeCorrecting, Become
<1> HIDE DEF x, y
<1>3. region' \in Text /\ (mayFollow' => region' # <<>>)
  <2>1. x \o y \in Text /\ (x \o y = <<>> => x = <<>>)
    BY <1>1, ConcatProperties, ConcatEqualIffEmpty DEF Text
  <2>2. QED
    BY <1>2, <2>1
<1>4. QED
  BY <1>1, <1>2, <1>3, StepFinal DEF FinalizeCorrecting

LEMMA StepFinalizeFails ==
    ASSUME FormatterInv, FinalizeFails
    PROVE  FormatterInv'
<1>1. TextTypes /\ ~mayFollow /\ speaking
  BY DEF FormatterInv, FinalizeFails
<1>2. CASE typing = "correcting"
  <2> DEFINE x == FormatDelta(State, raw)
             after == Advanced(State, x)
             y == EndUtterance(after)
  <2>1. x \in Text /\ y \in Text /\ region = x
    BY <1>1, <1>2, StateIs, FormatType, TrailerIs DEF FormatterInv, TextTypes
  <2>2. tail' = LastChars(LastChars(tail \o x) \o y)
    BY <1>2, StateIs, AdvancedIs DEF FinalizeFails, Become
  <2>3. astray' = IF y = <<>> THEN astray ELSE astray \cup {"stranded"}
    BY <1>2 DEF FinalizeFails
  <2> HIDE DEF x, y
  <2>4. astray' = {} => astray = {} /\ region' = x \o y
    <3>1. x \o <<>> = x
      BY <2>1, ConcatEmptySeq DEF Text
    <3>2. region' = x
      BY <2>1 DEF FinalizeFails
    <3>3. QED
      BY <2>3, <3>1, <3>2
  <2>5. region' \in Text
    BY <1>1 DEF FinalizeFails, TextTypes
  <2>6. QED
    BY <1>1, <1>2, <2>1, <2>2, <2>4, <2>5, StepFinal DEF FinalizeFails
<1>3. CASE typing # "correcting"
  <2>1. Known' = Known
    BY <1>3 DEF Known, Screen, FinalizeFails
  <2>2. TextTypes'
    BY <1>1, <1>3 DEF TextTypes, FinalizeFails
  <2>3. QED
    BY <1>1, <1>3, <2>1, <2>2 DEF FormatterInv, FinalizeFails
<1>4. QED
  BY <1>2, <1>3

LEMMA StepFinalizeSkips ==
    ASSUME FormatterInv, FinalizeSkips
    PROVE  FormatterInv'
<1>1. TextTypes /\ ~mayFollow
  BY DEF FormatterInv, FinalizeSkips
<1>2. TextTypes'
  BY <1>1 DEF TextTypes, FinalizeSkips
<1>3. astray' = {} => astray = {} /\ Known' = Known
  <2>1. CASE typing = "correcting"
    <3>1. astray' = {} => region = <<>> /\ astray = {}
      BY <2>1 DEF FinalizeSkips
    <3>2. (settled \o previous) \o <<>> = settled \o previous
      BY <1>1, ScreenIs DEF TextTypes
    <3>3. Known = settled \o previous /\ Known' = (settled \o previous) \o region
      BY <2>1 DEF Known, Screen, FinalizeSkips
    <3>4. QED
      BY <3>1, <3>2, <3>3
  <2>2. CASE typing # "correcting"
    BY <2>2 DEF Known, Screen, FinalizeSkips
  <2>3. QED
    BY <2>1, <2>2
<1>4. QED
  BY <1>1, <1>2, <1>3 DEF FormatterInv, FinalizeSkips

\* A command or a reply: it leaves texts, and the tail is right at once.
LEMMA StepFollow ==
    ASSUME FormatterInv, Follow, settled' \in Text, previous' \in Text, region' \in Text,
           tail' \in Text, astray' = {} => astray = {} /\ EndsIn(Screen', tail')
    PROVE  FormatterInv'
<1>1. TextTypes /\ ~speaking' /\ ~mayFollow'
  BY DEF FormatterInv, Follow
<1>2. TextTypes'
  BY <1>1 DEF TextTypes, Follow
<1>3. Known' = Screen'
  BY <1>1 DEF Known
<1>4. QED
  BY <1>1, <1>2, <1>3 DEF FormatterInv

LEMMA ReseedNone == LastChars(<<>>) = <<>>
<1> DEFINE z == LastChars(<<>>)
<1>1. PICK p \in Text : z \in Text /\ <<>> = p \o z
  BY EmptyText, LastCharsAre
<1> HIDE DEF z
<1>2. z = <<>>
  BY <1>1, ConcatEqualIffEmpty DEF Text
<1>3. QED
  BY <1>2 DEF z

LEMMA StepScratch ==
    ASSUME FormatterInv, Scratch
    PROVE  FormatterInv'
<1>1. TextTypes
  BY DEF FormatterInv
<1>2. settled' \in Text /\ previous' = <<>> /\ region' = <<>> /\ tail' = <<>>
  BY <1>1, ReseedNone DEF Scratch, Reseed, TextTypes
<1>3. Screen' \in Text
  BY <1>2, EmptyText, ScreenIs DEF Screen
<1>4. astray' = {} => astray = {} /\ EndsIn(Screen', tail')
  <2>1. astray' = {} => astray = {} /\ (Screen' = <<>> \/ EndChar(Screen') \in Blank)
    BY DEF Scratch, Forgotten
  <2>2. QED
    BY <1>2, <1>3, <2>1, EndsUnknown
<1>5. Follow
  BY DEF Scratch
<1>6. QED
  BY <1>2, <1>4, <1>5, EmptyText, StepFollow

LEMMA StepNewLine ==
    ASSUME FormatterInv, NewLine
    PROVE  FormatterInv'
<1>1. TextTypes
  BY DEF FormatterInv
<1>2. <<"\n">> \in Text
  BY CharsHere, ShortTexts DEF Text
<1>3. settled' \in Text /\ previous' \in Text /\ region' = <<"\n">> /\ tail' = <<>>
  BY <1>1, ReseedNone DEF NewLine, Reseed, TextTypes
<1>4. EndsIn(Screen', tail')
  <2> DEFINE a == settled' \o previous'
             s == a \o <<"\n">>
  <2>1. a \in Text
    BY <1>3, ConcatProperties DEF Text
  <2> HIDE DEF a
  <2>2. s \in Text /\ Len(s) = Len(a) + 1 /\ s[Len(a) + 1] = "\n" /\ Len(a) \in Nat
    <3>1. Len(a) \in Nat
      BY <2>1, LenProperties DEF Text
    <3>2. s = Append(a, "\n")
      BY <2>1, CharsHere, AppendIsConcat DEF Text
    <3> HIDE DEF s
    <3>3. s \in Seq(Chars) /\ Len(s) = Len(a) + 1 /\ s[Len(a) + 1] = "\n"
      <4>1. a \in Seq(Chars) /\ "\n" \in Chars
        BY <2>1, CharsHere DEF Text
      <4>2. QED
        BY <3>2, <4>1, AppendProperties
    <3>4. QED
      BY <3>1, <3>3 DEF Text
  <2> HIDE DEF s
  <2>3. EndChar(s) = "\n"
    <3>1. Len(s) \in Int /\ 1 <= Len(s) /\ Len(s) <= Len(s)
      BY <2>2
    <3>2. At(s, Len(s)) = s[Len(s)]
      BY <2>2, <3>1, AtIs DEF Text
    <3>3. QED
      BY <2>2, <3>2 DEF EndChar
  <2>4. EndsIn(s, <<>>)
    BY <2>2, <2>3, EndsUnknown DEF Blank
  <2>5. Screen' = s
    BY <1>3 DEF Screen, s, a
  <2>6. QED
    BY <1>3, <2>4, <2>5
<1>5. Follow /\ astray' = astray
  BY DEF NewLine
<1>6. QED
  BY <1>2, <1>3, <1>4, <1>5, EmptyText, StepFollow

LEMMA StepPressKey ==
    ASSUME FormatterInv, PressKey
    PROVE  FormatterInv'
<1>1. settled' = <<>> /\ previous' = <<>> /\ region' = <<>> /\ tail' = <<>>
  BY ReseedNone DEF PressKey, Reseed
<1>2. Screen' = <<>>
  BY <1>1, EmptyText, ScreenIs DEF Screen
<1>3. EndsIn(Screen', tail')
  BY <1>1, <1>2, EmptyText, EndsUnknown
<1>4. Follow /\ astray' = astray
  BY DEF PressKey
<1>5. QED
  BY <1>1, <1>3, <1>4, EmptyText, StepFollow

LEMMA StepCopy ==
    ASSUME FormatterInv, Copy
    PROVE  FormatterInv'
<1>1. TextTypes
  BY DEF FormatterInv
<1>2. settled' = settled /\ previous' = previous /\ region' = <<>> /\ tail' = LastChars(previous)
  BY DEF Copy, Reseed
<1>3. settled \in Text /\ previous \in Text /\ tail' \in Text
  BY <1>1, <1>2, LastCharsAre DEF TextTypes
<1>4. Screen' = settled \o previous /\ Screen' \in Text
  BY <1>2, <1>3, ScreenIs DEF Screen
<1>5. astray' = {} => astray = {} /\ EndsIn(Screen', tail')
  <2>1. CASE previous = <<>>
    <3>1. tail' = <<>>
      BY <1>2, <2>1, ReseedNone
    <3>2. astray' = {} => astray = {} /\ (Screen' = <<>> \/ EndChar(Screen') \in Blank)
      BY <2>1 DEF Copy, Forgotten
    <3>3. QED
      BY <1>4, <3>1, <3>2, EndsUnknown
  <2>2. CASE previous # <<>>
    <3>1. EndsIn(settled \o previous, LastChars(previous))
      BY <1>3, <2>2, EndsAnew
    <3>2. astray' = astray
      BY <2>2 DEF Copy
    <3>3. QED
      BY <1>2, <1>4, <3>1, <3>2
  <2>3. QED
    BY <2>1, <2>2
<1>6. Follow
  BY DEF Copy
<1>7. QED
  BY <1>2, <1>3, <1>5, <1>6, EmptyText, StepFollow

\* The tail is taken from a region that is not empty.
LEMMA StepReseed ==
    ASSUME FormatterInv, Follow, settled' \in Text, previous' \in Text, region' \in Text,
           region' # <<>>, tail' = LastChars(region'), astray' = astray
    PROVE  FormatterInv'
<1>1. settled' \o previous' \in Text
  BY ConcatProperties DEF Text
<1>2. EndsIn(Screen', tail') /\ tail' \in Text
  <2> DEFINE a == settled' \o previous'
             r == region'
  <2>1. a \in Text /\ r \in Text /\ r # <<>>
    BY <1>1
  <2>2. EndsIn(a \o r, LastChars(r)) /\ LastChars(r) \in Text
    <3> HIDE DEF a, r
    <3>1. QED
      BY <2>1, EndsAnew
  <2>3. QED
    BY <2>2 DEF Screen
<1>3. QED
  BY <1>2, StepFollow

LEMMA StepLiteral ==
    ASSUME FormatterInv, Literal
    PROVE  FormatterInv'
<1>1. TextTypes
  BY DEF FormatterInv
<1>2. /\ region' = AfterGuard(region) /\ tail' = LastChars(region')
      /\ UNCHANGED <<settled, previous, astray>> /\ Follow
  BY DEF Literal, Reseed
<1>3. region' \in Text
  BY <1>1, <1>2, AfterGuardType DEF TextTypes
<1>4. region' # <<>>
  <2>1. PICK i \in DOMAIN AfterGuard(region) : TRUE
    BY DEF Literal
  <2>2. QED
    BY <1>2, <2>1
<1>5. QED
  BY <1>1, <1>2, <1>3, <1>4, StepReseed DEF TextTypes

LEMMA ReplyIs ==
    ASSUME NEW reply \in Replies
    PROVE  reply \in Text /\ reply # <<>>
<1>1. reply \in Seq(Chars \ {"\n"}) /\ reply # <<>>
  BY FormatterAssumption
<1>2. QED
  BY <1>1, SeqMonotonic DEF Text

LEMMA BodyIs ==
    ASSUME NEW t \in Text, NEW reply \in Replies
    PROVE  WithTrailer(Lead(t) \o reply) \in Text /\ WithTrailer(Lead(t) \o reply) # <<>>
<1> DEFINE lead == Lead(t)
           body == lead \o reply
           y == EndUtterance([tail |-> LastChars(body), hasOutput |-> hasOutput])
<1>1. lead \in Text /\ reply \in Text /\ reply # <<>>
  BY LeadIs, ReplyIs
<1> HIDE DEF lead
<1>2. body \in Text /\ body # <<>>
  BY <1>1, ConcatProperties, ConcatEqualIffEmpty DEF Text
<1>3. WithTrailer(body) = body \o y
  BY DEF WithTrailer
<1> HIDE DEF body
<1>4. y \in Text
  BY TrailerIs
<1> HIDE DEF y
<1>5. body \o y \in Text /\ body \o y # <<>>
  BY <1>2, <1>4, ConcatProperties, ConcatEqualIffEmpty DEF Text
<1>6. QED
  BY <1>3, <1>5 DEF body, lead

LEMMA StepTransform ==
    ASSUME FormatterInv, NEW reply \in Replies, Transform(reply)
    PROVE  FormatterInv'
<1>1. TextTypes /\ Follow /\ UNCHANGED <<settled, previous, astray>> /\ ~speaking
  BY DEF FormatterInv, Transform, Follow
<1>2. CASE UNCHANGED <<tail, region>>
  <2>1. Screen' = Screen /\ Known = Screen
    BY <1>1, <1>2 DEF Known, Screen
  <2>2. QED
    BY <1>1, <1>2, <2>1, StepFollow DEF FormatterInv, TextTypes
<1>3. CASE region' = WithTrailer(Lead(region) \o reply) /\ Reseed(region')
  <2>1. region' \in Text /\ region' # <<>>
    BY <1>1, <1>3, BodyIs DEF TextTypes
  <2>2. QED
    BY <1>1, <1>3, <2>1, StepReseed DEF Reseed, TextTypes
<1>4. QED
  BY <1>2, <1>3 DEF Transform

LEMMA StepRevise ==
    ASSUME FormatterInv, NEW reply \in Replies, Revise(reply)
    PROVE  FormatterInv'
<1>1. TextTypes /\ previous \o region \in Text
  BY ConcatProperties DEF FormatterInv, TextTypes, Text
<1>2. /\ region' = WithTrailer(Lead(previous \o region) \o reply) /\ previous' = <<>>
      /\ tail' = LastChars(region') /\ UNCHANGED <<settled, astray>> /\ Follow
  BY DEF Revise, Reseed
<1>3. region' \in Text /\ region' # <<>>
  BY <1>1, <1>2, BodyIs
<1>4. QED
  BY <1>1, <1>2, <1>3, EmptyText, StepReseed DEF TextTypes

LEMMA StepRestore ==
    ASSUME FormatterInv, RestoreOriginal
    PROVE  FormatterInv'
<1>1. /\ TextTypes /\ region # <<>> /\ Follow /\ tail' = LastChars(region)
      /\ UNCHANGED <<settled, previous, region, astray>>
  BY DEF FormatterInv, RestoreOriginal, Reseed, Follow
<1>2. QED
  BY <1>1, StepReseed DEF TextTypes

LEMMA StepNothing ==
    ASSUME FormatterInv, UNCHANGED vars
    PROVE  FormatterInv'
<1>1. Screen' = Screen /\ State' = State /\ Known' = Known /\ TextTypes' = TextTypes
  BY DEF vars, Screen, State, Known, TextTypes
<1>2. QED
  BY <1>1 DEF FormatterInv, vars

LEMMA FormatterInvariant == Spec => []FormatterInv
<1>1. ASSUME FormatterInv, [Next]_vars PROVE FormatterInv'
  <2>1. CASE StartUtterance
    BY <1>1, <2>1, StepStart
  <2>2. ASSUME NEW token \in Tokens, CommitWords(token) \/ Render(token) PROVE FormatterInv'
    BY <1>1, <2>2, StepCommit, StepRender
  <2>3. CASE FinalizeCommit \/ FinalizeCorrecting \/ FinalizeFails \/ FinalizeSkips
    BY <1>1, <2>3, StepFinalizeCommit, StepFinalizeCorrecting, StepFinalizeFails, StepFinalizeSkips
  <2>4. CASE Scratch \/ NewLine \/ PressKey \/ Copy \/ Literal
    BY <1>1, <2>4, StepScratch, StepNewLine, StepPressKey, StepCopy, StepLiteral
  <2>5. ASSUME NEW reply \in Replies, Transform(reply) \/ Revise(reply) PROVE FormatterInv'
    BY <1>1, <2>5, StepTransform, StepRevise
  <2>6. CASE RestoreOriginal
    BY <1>1, <2>6, StepRestore
  <2>7. CASE Done \/ UNCHANGED vars
    BY <1>1, <2>7, StepNothing DEF Done
  <2>8. QED
    BY <1>1, <2>1, <2>2, <2>3, <2>4, <2>5, <2>6, <2>7 DEF Next
<1>2. QED
  BY <1>1, InitFormatter, PTL DEF Spec

LEMMA EndIsTail ==
    ASSUME Screen \in Text, tail \in Text, EndsIn(Screen, tail)
    PROVE  TailIsTheEnd
<1> DEFINE s == Screen
<1>1. PICK p \in Text : s = p \o tail
  BY DEF EndsIn
<1>2. /\ Len(p) \in Nat /\ Len(tail) \in Nat /\ Len(s) \in Nat /\ Len(s) = Len(p) + Len(tail)
      /\ s \in Text
      /\ \A i \in 1..Len(s) : s[i] = IF i <= Len(p) THEN p[i] ELSE tail[i - Len(p)]
  BY <1>1, ConcatProperties, LenProperties DEF Text
<1>3. tail = <<>> => EndChar(s) \in Blank \cup {NoChar}
  BY DEF EndsIn
<1> HIDE DEF s
<1> DEFINE m == Len(s) - Len(tail) + 1
           q == SubSeq(s, m, Len(s))
<1>4. m = Len(p) + 1 /\ m \in Int /\ 1 <= m /\ Len(s) - m + 1 = Len(tail) /\ Len(tail) <= Len(s)
  BY <1>2
<1>5. q \in Text /\ Len(q) = Len(tail) /\ \A i \in 1..Len(tail) : q[i] = s[m + i - 1]
  <2>1. \A i \in m..Len(s) : s[i] \in Chars
    <3>1. \A i \in 1..Len(s) : s[i] \in Chars
      BY <1>2, LenProperties DEF Text
    <3>2. QED
      BY <1>2, <1>4, <3>1
  <2>2. /\ q \in Seq(Chars) /\ Len(q) = IF m <= Len(s) THEN Len(s) - m + 1 ELSE 0
        /\ \A i \in 1..(Len(s) - m + 1) : q[i] = s[m + i - 1]
    <3>1. Len(s) \in Int
      BY <1>2
    <3> HIDE DEF m
    <3>2. QED
      BY <1>4, <2>1, <3>1, SubSeqProperties
  <2>3. (IF m <= Len(s) THEN Len(s) - m + 1 ELSE 0) = Len(tail)
    BY <1>2, <1>4
  <2>4. QED
    BY <1>4, <2>2, <2>3 DEF Text
<1>6. ASSUME NEW i \in 1..Len(tail) PROVE q[i] = tail[i]
  <2>1. /\ m + i - 1 \in 1..Len(s) /\ ~(m + i - 1 <= Len(p)) /\ (m + i - 1) - Len(p) = i
    BY <1>2, <1>4
  <2> HIDE DEF q, m
  <2>2. QED
    BY <1>2, <1>5, <2>1
<1>7. q = tail
  <2> HIDE DEF q, m
  <2>1. QED
    BY <1>5, <1>6, SeqEqual DEF Text
<1>8. QED
  BY <1>3, <1>4, <1>7 DEF TailIsTheEnd, s

\* TextFormatter.peek, format_delta, end_utterance and reseed, as the engine, the
\* commands and the transform call them: between utterances the formatter knows
\* how the screen ends, for any decodes, replies and commands, in a session of any
\* length, unless it lost sight of the screen in a way that astray names.
THEOREM FormatterKnows == Spec => []KnowsTheEnd
<1>1. FormatterInv => KnowsTheEnd
  <2> SUFFICES ASSUME FormatterInv, ~speaking, astray = {} PROVE TailIsTheEnd
    BY DEF KnowsTheEnd
  <2>1. EndsIn(Screen, tail) /\ tail \in Text /\ Screen \in Text
    BY ScreenIs DEF FormatterInv, TextTypes, Known, Screen
  <2>2. QED
    BY <2>1, EndIsTail
<1>2. QED
  BY <1>1, FormatterInvariant, PTL

-----------------------------------------------------------------------------
(* Where the characters of a flattened sequence come from.                 *)

\* The n-th element of r is element at[n] of s[of[n]].
Comes(s, r, of, at) ==
    /\ \A n \in 1..Len(r) :
          of[n] \in 1..Len(s) /\ at[n] \in 1..Len(s[of[n]]) /\ r[n] = s[of[n]][at[n]]
    /\ \A n \in 1..Len(r) : n + 1 \in 1..Len(r) =>
          \/ of[n + 1] = of[n] /\ at[n + 1] = at[n] + 1
          \/ /\ of[n] < of[n + 1] /\ at[n] = Len(s[of[n]]) /\ at[n + 1] = 1
             /\ \A j \in 1..Len(s) : (of[n] < j /\ j < of[n + 1]) => s[j] = <<>>
    /\ Len(r) # 0 => /\ at[1] = 1 /\ \A j \in 1..Len(s) : j < of[1] => s[j] = <<>>
                     /\ at[Len(r)] = Len(s[of[Len(r)]])
                     /\ \A j \in 1..Len(s) : of[Len(r)] < j => s[j] = <<>>
    /\ Len(r) = 0 => \A j \in 1..Len(s) : s[j] = <<>>

\* One more part.
LEMMA ComesOn ==
    ASSUME NEW K, NEW s \in Seq(Seq(K)), NEW r \in Seq(K), NEW of, NEW at, Comes(s, r, of, at),
           NEW e \in Seq(K)
    PROVE  \E of2, at2 : Comes(Append(s, e), r \o e, of2, at2)
<1> DEFINE m == Len(s)
           k == Len(r)
           l == Len(e)
           a == Append(s, e)
           b == r \o e
           of2 == [n \in 1..(k + l) |-> IF n <= k THEN of[n] ELSE m + 1]
           at2 == [n \in 1..(k + l) |-> IF n <= k THEN at[n] ELSE n - k]
<1>1. m \in Nat /\ k \in Nat /\ l \in Nat
  BY LenProperties
<1>2. Len(a) = m + 1 /\ a[m + 1] = e /\ \A j \in 1..m : a[j] = s[j]
  BY AppendProperties
<1>3. Len(b) = k + l /\ (\A n \in 1..k : b[n] = r[n]) /\ (\A n \in 1..(k + l) : ~(n <= k) => b[n] = e[n - k])
  BY <1>1, ConcatProperties
<1>4. l = 0 <=> e = <<>>
  BY <1>1
<1>5. /\ \A n \in 1..k : of2[n] = of[n] /\ at2[n] = at[n]
      /\ \A n \in 1..(k + l) : ~(n <= k) => of2[n] = m + 1 /\ at2[n] = n - k
  BY <1>1
<1>6. \A n \in 1..k : of[n] \in 1..m /\ at[n] \in 1..Len(s[of[n]]) /\ r[n] = s[of[n]][at[n]]
  BY DEF Comes
<1>7. \A n \in 1..k : n + 1 \in 1..k =>
          \/ of[n + 1] = of[n] /\ at[n + 1] = at[n] + 1
          \/ /\ of[n] < of[n + 1] /\ at[n] = Len(s[of[n]]) /\ at[n + 1] = 1
             /\ \A j \in 1..m : (of[n] < j /\ j < of[n + 1]) => s[j] = <<>>
  BY DEF Comes
<1>8. k # 0 => /\ at[1] = 1 /\ \A j \in 1..m : j < of[1] => s[j] = <<>>
               /\ at[k] = Len(s[of[k]])
               /\ \A j \in 1..m : of[k] < j => s[j] = <<>>
  BY DEF Comes
<1>9. k = 0 => \A j \in 1..m : s[j] = <<>>
  BY DEF Comes
<1> HIDE DEF m, k, l, a, b, of2, at2
<1>10. \A n \in 1..(k + l) :
          of2[n] \in 1..(m + 1) /\ at2[n] \in 1..Len(a[of2[n]]) /\ b[n] = a[of2[n]][at2[n]]
  <2> SUFFICES ASSUME NEW n \in 1..(k + l)
               PROVE  of2[n] \in 1..(m + 1) /\ at2[n] \in 1..Len(a[of2[n]]) /\ b[n] = a[of2[n]][at2[n]]
    OBVIOUS
  <2>1. CASE n <= k
    <3>1. n \in 1..k
      BY <1>1, <2>1
    <3>2. of2[n] = of[n] /\ at2[n] = at[n] /\ of[n] \in 1..m /\ b[n] = r[n]
      BY <1>3, <1>5, <1>6, <3>1
    <3>3. a[of2[n]] = s[of[n]] /\ of2[n] \in 1..(m + 1)
      BY <1>1, <1>2, <3>2
    <3>4. QED
      BY <1>6, <3>1, <3>2, <3>3
  <2>2. CASE ~(n <= k)
    <3>1. of2[n] = m + 1 /\ at2[n] = n - k /\ b[n] = e[n - k]
      BY <1>3, <1>5, <2>2
    <3>2. n - k \in 1..l
      BY <1>1, <2>2
    <3>3. a[of2[n]] = e /\ of2[n] \in 1..(m + 1)
      BY <1>1, <1>2, <3>1
    <3>4. QED
      BY <3>1, <3>2, <3>3 DEF l
  <2>3. QED
    BY <2>1, <2>2
<1>11. \A n \in 1..(k + l) : n + 1 \in 1..(k + l) =>
          \/ of2[n + 1] = of2[n] /\ at2[n + 1] = at2[n] + 1
          \/ /\ of2[n] < of2[n + 1] /\ at2[n] = Len(a[of2[n]]) /\ at2[n + 1] = 1
             /\ \A j \in 1..(m + 1) : (of2[n] < j /\ j < of2[n + 1]) => a[j] = <<>>
  <2> SUFFICES ASSUME NEW n \in 1..(k + l), n + 1 \in 1..(k + l)
               PROVE  \/ of2[n + 1] = of2[n] /\ at2[n + 1] = at2[n] + 1
                      \/ /\ of2[n] < of2[n + 1] /\ at2[n] = Len(a[of2[n]]) /\ at2[n + 1] = 1
                         /\ \A j \in 1..(m + 1) : (of2[n] < j /\ j < of2[n + 1]) => a[j] = <<>>
    OBVIOUS
  <2>1. CASE n + 1 <= k
    <3>1. n \in 1..k /\ n + 1 \in 1..k
      BY <1>1, <2>1
    <3>2. /\ of2[n] = of[n] /\ at2[n] = at[n] /\ of[n] \in 1..m
          /\ of2[n + 1] = of[n + 1] /\ at2[n + 1] = at[n + 1] /\ of[n + 1] \in 1..m
      BY <1>5, <1>6, <3>1
    <3>3. CASE of[n + 1] = of[n] /\ at[n + 1] = at[n] + 1
      BY <3>2, <3>3
    <3>4. CASE /\ of[n] < of[n + 1] /\ at[n] = Len(s[of[n]]) /\ at[n + 1] = 1
               /\ \A j \in 1..m : (of[n] < j /\ j < of[n + 1]) => s[j] = <<>>
      <4>1. of2[n] < of2[n + 1] /\ at2[n + 1] = 1 /\ a[of2[n]] = s[of[n]] /\ at2[n] = Len(a[of2[n]])
        BY <1>2, <3>2, <3>4
      <4>2. ASSUME NEW j \in 1..(m + 1), of2[n] < j, j < of2[n + 1] PROVE a[j] = <<>>
        <5>1. j \in 1..m /\ of[n] < j /\ j < of[n + 1]
          BY <1>1, <3>2, <4>2
        <5>2. QED
          BY <1>2, <3>4, <5>1
      <4>3. QED
        BY <4>1, <4>2
    <3>5. QED
      BY <1>7, <3>1, <3>3, <3>4
  <2>2. CASE n = k
    <3>1. /\ k # 0 /\ k \in 1..k /\ ~(n + 1 <= k) /\ (n + 1) - k = 1
      BY <1>1, <2>2
    <3>2. /\ of2[n] = of[k] /\ at2[n] = at[k] /\ of[k] \in 1..m
          /\ of2[n + 1] = m + 1 /\ at2[n + 1] = 1
      BY <1>5, <1>6, <2>2, <3>1
    <3>3. of2[n] < of2[n + 1] /\ a[of2[n]] = s[of[k]]
      BY <1>1, <1>2, <3>2
    <3>4. ASSUME NEW j \in 1..(m + 1), of2[n] < j, j < of2[n + 1] PROVE a[j] = <<>>
      <4>1. j \in 1..m /\ of[k] < j
        BY <1>1, <3>2, <3>4
      <4>2. QED
        BY <1>2, <1>8, <3>1, <4>1
    <3>5. QED
      BY <1>8, <3>1, <3>2, <3>3, <3>4
  <2>3. CASE n > k
    <3>1. ~(n <= k) /\ ~(n + 1 <= k) /\ (n + 1) - k = (n - k) + 1
      BY <1>1, <2>3
    <3>2. of2[n] = m + 1 /\ of2[n + 1] = m + 1 /\ at2[n] = n - k /\ at2[n + 1] = (n + 1) - k
      BY <1>5, <3>1
    <3>3. QED
      BY <3>1, <3>2
  <2>4. QED
    BY <1>1, <2>1, <2>2, <2>3
<1>12. ASSUME k + l # 0
       PROVE  /\ at2[1] = 1 /\ \A j \in 1..(m + 1) : j < of2[1] => a[j] = <<>>
              /\ at2[k + l] = Len(a[of2[k + l]])
              /\ \A j \in 1..(m + 1) : of2[k + l] < j => a[j] = <<>>
  <2>1. at2[1] = 1 /\ \A j \in 1..(m + 1) : j < of2[1] => a[j] = <<>>
    <3>1. CASE k # 0
      <4>1. 1 \in 1..k
        BY <1>1, <3>1
      <4>2. of2[1] = of[1] /\ at2[1] = at[1] /\ of[1] \in 1..m
        BY <1>5, <1>6, <4>1
      <4>3. ASSUME NEW j \in 1..(m + 1), j < of2[1] PROVE a[j] = <<>>
        <5>1. j \in 1..m /\ j < of[1]
          BY <1>1, <4>2, <4>3
        <5>2. QED
          BY <1>2, <1>8, <3>1, <5>1
      <4>4. QED
        BY <1>8, <3>1, <4>2, <4>3
    <3>2. CASE k = 0
      <4>1. 1 \in 1..(k + l) /\ ~(1 <= k) /\ 1 - k = 1
        BY <1>1, <1>12, <3>2
      <4>2. of2[1] = m + 1 /\ at2[1] = 1
        BY <1>5, <4>1
      <4>3. ASSUME NEW j \in 1..(m + 1), j < of2[1] PROVE a[j] = <<>>
        <5>1. j \in 1..m
          BY <1>1, <4>2, <4>3
        <5>2. QED
          BY <1>2, <1>9, <3>2, <5>1
      <4>4. QED
        BY <4>2, <4>3
    <3>3. QED
      BY <3>1, <3>2
  <2>2. /\ at2[k + l] = Len(a[of2[k + l]])
        /\ \A j \in 1..(m + 1) : of2[k + l] < j => a[j] = <<>>
    <3>1. CASE l # 0
      <4>1. k + l \in 1..(k + l) /\ ~(k + l <= k) /\ (k + l) - k = l
        BY <1>1, <3>1
      <4>2. of2[k + l] = m + 1 /\ at2[k + l] = l
        BY <1>5, <4>1
      <4>3. at2[k + l] = Len(a[of2[k + l]])
        BY <1>2, <4>2 DEF l
      <4>4. \A j \in 1..(m + 1) : ~(m + 1 < j)
        BY <1>1
      <4>5. QED
        BY <4>2, <4>3, <4>4
    <3>2. CASE l = 0
      <4>1. k \in 1..k /\ k + l = k /\ k # 0
        BY <1>1, <1>12, <3>2
      <4>2. of2[k] = of[k] /\ at2[k] = at[k] /\ of[k] \in 1..m
        BY <1>5, <1>6, <4>1
      <4>3. a[of2[k]] = s[of[k]]
        BY <1>2, <4>2
      <4>4. ASSUME NEW j \in 1..(m + 1), of2[k] < j PROVE a[j] = <<>>
        <5>1. CASE j = m + 1
          BY <1>2, <1>4, <3>2, <5>1
        <5>2. CASE j # m + 1
          <6>1. j \in 1..m /\ of[k] < j
            BY <1>1, <4>2, <4>4, <5>2
          <6>2. QED
            BY <1>2, <1>8, <4>1, <6>1
        <5>3. QED
          BY <5>1, <5>2
      <4>5. QED
        BY <1>8, <4>1, <4>2, <4>3, <4>4
    <3>3. QED
      BY <3>1, <3>2
  <2>3. QED
    BY <2>1, <2>2
<1>13. k + l = 0 => \A j \in 1..(m + 1) : a[j] = <<>>
  <2> SUFFICES ASSUME k + l = 0, NEW j \in 1..(m + 1) PROVE a[j] = <<>>
    OBVIOUS
  <2>1. k = 0 /\ l = 0
    BY <1>1
  <2>2. CASE j = m + 1
    BY <1>2, <1>4, <2>1, <2>2
  <2>3. CASE j # m + 1
    <3>1. j \in 1..m
      BY <1>1, <2>3
    <3>2. QED
      BY <1>2, <1>9, <2>1, <3>1
  <2>4. QED
    BY <2>2, <2>3
<1>14. Len(b) = k + l /\ Len(a) = m + 1
  BY <1>2, <1>3
<1>15. Comes(a, b, of2, at2)
  BY <1>10, <1>11, <1>12, <1>13, <1>14 DEF Comes
<1>16. QED
  BY <1>15 DEF a, b

\* All of a flattened sequence comes from somewhere.
LEMMA FlatComes ==
    ASSUME NEW K
    PROVE  \A s \in Seq(Seq(K)) : \E of, at : Comes(s, FlattenSeq(s), of, at)
<1> DEFINE T == {s \in Seq(Seq(K)) : \E of, at : Comes(s, FlattenSeq(s), of, at)}
<1>1. <<>> \in T
  <2> DEFINE none == [n \in {} |-> n]
  <2>1. <<>> \in Seq(Seq(K)) /\ Len(<<>>) = 0 /\ 1..0 = {}
    BY EmptySeq
  <2>2. Comes(<<>>, <<>>, none, none)
    BY <2>1 DEF Comes
  <2>3. Comes(<<>>, FlattenSeq(<<>>), none, none)
    BY <2>2, FlattenEmpty
  <2>4. QED
    BY <2>1, <2>3
<1>2. ASSUME NEW s \in T, NEW e \in Seq(K) PROVE Append(s, e) \in T
  <2> DEFINE r == FlattenSeq(s)
             b == Append(s, e)
  <2>1. PICK of, at : Comes(s, r, of, at)
    OBVIOUS
  <2>2. s \in Seq(Seq(K)) /\ r \in Seq(K)
    BY FlattenType
  <2>3. b \in Seq(Seq(K)) /\ FlattenSeq(b) = r \o e
    BY <2>2, FlattenAppend, AppendProperties
  <2> HIDE DEF r
  <2>4. \E of2, at2 : Comes(Append(s, e), r \o e, of2, at2)
    BY <2>1, <2>2, ComesOn
  <2>5. \E of2, at2 : Comes(b, FlattenSeq(b), of2, at2)
    BY <2>3, <2>4
  <2>6. QED
    BY <2>3, <2>5
<1>3. T \in SUBSET Seq(Seq(K))
  OBVIOUS
<1> HIDE DEF T
<1>4. T = Seq(Seq(K))
  BY <1>1, <1>2, <1>3, SeqInduction
<1>5. QED
  BY <1>4 DEF T

\* The text r is t without the characters at gone.
Keeps(t, gone, r) ==
    /\ \A n \in 1..Len(r) : n + 1 \in 1..Len(r) =>
          \E p, q \in 1..Len(t) :
             /\ p < q /\ p \notin gone /\ q \notin gone /\ r[n] = t[p] /\ r[n + 1] = t[q]
             /\ \A m \in 1..Len(t) : p < m /\ m < q => m \in gone
    /\ Len(r) # 0 =>
          /\ \E p \in 1..Len(t) : /\ p \notin gone /\ r[1] = t[p]
                                  /\ \A m \in 1..Len(t) : m < p => m \in gone
          /\ \E p \in 1..Len(t) : /\ p \notin gone /\ r[Len(r)] = t[p]
                                  /\ \A m \in 1..Len(t) : p < m => m \in gone
    /\ Len(r) = 0 => \A m \in 1..Len(t) : m \in gone

\* What stands side by side once some characters are taken out.
LEMMA WithoutKeeps ==
    ASSUME NEW t \in Text, NEW gone
    PROVE  Keeps(t, gone, Without(t, gone))
<1> DEFINE k == Len(t)
           s == [i \in DOMAIN t |-> IF i \in gone THEN <<>> ELSE <<t[i]>>]
           r == Without(t, gone)
<1>1. DOMAIN t = 1..k /\ k \in Nat /\ \A i \in 1..k : t[i] \in Chars
  BY LenProperties DEF Text
<1>2. ASSUME NEW i \in 1..k
      PROVE  s[i] \in Seq(Chars) /\ (i \in gone => s[i] = <<>>)
             /\ (i \notin gone => s[i] # <<>> /\ Len(s[i]) = 1 /\ s[i][1] = t[i])
  <2>1. t[i] \in Chars /\ <<t[i]>> \in Seq(Chars) /\ <<>> \in Seq(Chars)
    BY <1>1, ShortTexts, EmptySeq
  <2>2. <<t[i]>> # <<>> /\ Len(<<t[i]>>) = 1 /\ (<<t[i]>>)[1] = t[i]
    OBVIOUS
  <2>3. s[i] = IF i \in gone THEN <<>> ELSE <<t[i]>>
    BY <1>1
  <2> HIDE DEF s
  <2>4. QED
    BY <2>1, <2>2, <2>3
<1>3. s \in Seq(Seq(Chars)) /\ Len(s) = k
  <2>1. s = [i \in 1..k |-> s[i]]
    BY <1>1
  <2> HIDE DEF s
  <2>2. QED
    BY <1>1, <1>2, <2>1, Mapped
<1>4. r = FlattenSeq(s) /\ r \in Seq(Chars)
  BY WithoutType DEF Without, Text
<1> HIDE DEF s, r
<1>5. PICK of, at : Comes(s, r, of, at)
  BY <1>3, <1>4, FlatComes
<1>6. \A n \in 1..Len(r) : of[n] \in 1..k /\ of[n] \notin gone /\ at[n] = 1 /\ r[n] = t[of[n]]
  <2> SUFFICES ASSUME NEW n \in 1..Len(r)
               PROVE  of[n] \in 1..k /\ of[n] \notin gone /\ at[n] = 1 /\ r[n] = t[of[n]]
    OBVIOUS
  <2>1. of[n] \in 1..k /\ at[n] \in 1..Len(s[of[n]]) /\ r[n] = s[of[n]][at[n]]
    BY <1>3, <1>5 DEF Comes
  <2>2. of[n] \notin gone
    <3>1. SUFFICES ASSUME of[n] \in gone PROVE FALSE
      OBVIOUS
    <3>2. s[of[n]] = <<>>
      BY <1>2, <2>1, <3>1
    <3>3. Len(<<>>) = 0 /\ 1..0 = {}
      OBVIOUS
    <3>4. QED
      BY <2>1, <3>2, <3>3
  <2>3. Len(s[of[n]]) = 1 /\ s[of[n]][1] = t[of[n]]
    BY <1>2, <2>1, <2>2
  <2>4. at[n] = 1
    BY <2>1, <2>3
  <2>5. QED
    BY <2>1, <2>2, <2>3, <2>4
<1>7. \A m \in 1..k : s[m] = <<>> => m \in gone
  BY <1>2
<1>8. ASSUME NEW n \in 1..Len(r), n + 1 \in 1..Len(r)
      PROVE  \E p, q \in 1..k :
                    /\ p < q /\ p \notin gone /\ q \notin gone /\ r[n] = t[p] /\ r[n + 1] = t[q]
                    /\ \A m \in 1..k : p < m /\ m < q => m \in gone
  <2>1. ~(of[n + 1] = of[n] /\ at[n + 1] = at[n] + 1)
    <3>1. at[n] = 1 /\ at[n + 1] = 1
      BY <1>6, <1>8
    <3>2. QED
      BY <3>1
  <2>2. of[n] < of[n + 1] /\ \A m \in 1..k : (of[n] < m /\ m < of[n + 1]) => s[m] = <<>>
    BY <1>3, <1>5, <1>8, <2>1 DEF Comes
  <2>3. QED
    BY <1>6, <1>7, <1>8, <2>2
<1>9. ASSUME Len(r) # 0
      PROVE  /\ \E p \in 1..k : /\ p \notin gone /\ r[1] = t[p]
                                /\ \A m \in 1..k : m < p => m \in gone
             /\ \E p \in 1..k : /\ p \notin gone /\ r[Len(r)] = t[p]
                                /\ \A m \in 1..k : p < m => m \in gone
  <2>1. Len(r) \in Nat
    BY <1>4, LenProperties
  <2>2. 1 \in 1..Len(r) /\ Len(r) \in 1..Len(r)
    BY <1>9, <2>1
  <2>3. /\ \A m \in 1..k : m < of[1] => s[m] = <<>>
        /\ \A m \in 1..k : of[Len(r)] < m => s[m] = <<>>
    BY <1>3, <1>5, <1>9 DEF Comes
  <2>4. QED
    BY <1>6, <1>7, <2>2, <2>3
<1>10. ASSUME Len(r) = 0 PROVE \A m \in 1..k : m \in gone
  BY <1>3, <1>5, <1>7, <1>10 DEF Comes
<1>11. QED
  BY <1>8, <1>9, <1>10 DEF r, Keeps

\* The text r is t with spaces behind the characters at those.
KeepsSpaced(t, those, r) ==
    /\ \A n \in 1..Len(r) : n + 1 \in 1..Len(r) =>
          \/ r[n] = " " \/ r[n + 1] = " "
          \/ \E p \in 1..Len(t) :
                /\ p + 1 \in 1..Len(t) /\ p \notin those /\ r[n] = t[p] /\ r[n + 1] = t[p + 1]
                /\ (p - 1 \in 1..Len(t) /\ p - 1 \notin those)
                      => n - 1 \in 1..Len(r) /\ r[n - 1] = t[p - 1]
    /\ Len(t) # 0 => Len(r) # 0 /\ r[1] = t[1]

\* What stands side by side once spaces were put behind some characters.
LEMMA SpacedKeeps ==
    ASSUME NEW t \in Text, NEW those
    PROVE  KeepsSpaced(t, those, SpacedAfter(t, those))
<1> DEFINE k == Len(t)
           s == [i \in DOMAIN t |-> IF i \in those THEN <<t[i], " ">> ELSE <<t[i]>>]
           r == SpacedAfter(t, those)
<1>1. DOMAIN t = 1..k /\ k \in Nat /\ \A i \in 1..k : t[i] \in Chars
  BY LenProperties DEF Text
<1>2. ASSUME NEW i \in 1..k
      PROVE  s[i] \in Seq(Chars) /\ s[i] # <<>> /\ s[i][1] = t[i]
             /\ (i \in those => Len(s[i]) = 2 /\ s[i][2] = " ")
             /\ (i \notin those => Len(s[i]) = 1)
  <2>1. t[i] \in Chars /\ <<t[i]>> \in Seq(Chars) /\ <<t[i], " ">> \in Seq(Chars)
    BY <1>1, CharsHere, ShortTexts
  <2>2. /\ <<t[i]>> # <<>> /\ Len(<<t[i]>>) = 1 /\ (<<t[i]>>)[1] = t[i]
        /\ <<t[i], " ">> # <<>> /\ Len(<<t[i], " ">>) = 2 /\ (<<t[i], " ">>)[1] = t[i] /\ (<<t[i], " ">>)[2] = " "
    OBVIOUS
  <2>3. s[i] = IF i \in those THEN <<t[i], " ">> ELSE <<t[i]>>
    BY <1>1
  <2> HIDE DEF s
  <2>4. QED
    BY <2>1, <2>2, <2>3
<1>3. s \in Seq(Seq(Chars)) /\ Len(s) = k
  <2>1. s = [i \in 1..k |-> s[i]]
    BY <1>1
  <2>2. \A i \in 1..k : s[i] \in Seq(Chars)
    BY <1>2
  <2> HIDE DEF s
  <2>3. QED
    BY <1>1, <2>1, <2>2, Mapped
<1>4. r = FlattenSeq(s) /\ r \in Seq(Chars)
  BY SpacedType, CharsHere DEF SpacedAfter, Text
<1> HIDE DEF s, r
<1>5. PICK of, at : Comes(s, r, of, at)
  BY <1>3, <1>4, FlatComes
<1>6. Len(r) \in Nat
  BY <1>4, LenProperties
<1>7. \A n \in 1..Len(r) : /\ of[n] \in 1..k /\ at[n] \in {1, 2}
                           /\ at[n] = 1 => r[n] = t[of[n]]
                           /\ at[n] = 2 => of[n] \in those /\ r[n] = " "
  <2> SUFFICES ASSUME NEW n \in 1..Len(r)
               PROVE  /\ of[n] \in 1..k /\ at[n] \in {1, 2}
                      /\ at[n] = 1 => r[n] = t[of[n]]
                      /\ at[n] = 2 => of[n] \in those /\ r[n] = " "
    OBVIOUS
  <2>1. of[n] \in 1..k /\ at[n] \in 1..Len(s[of[n]]) /\ r[n] = s[of[n]][at[n]]
    BY <1>3, <1>5 DEF Comes
  <2>2. Len(s[of[n]]) = IF of[n] \in those THEN 2 ELSE 1
    BY <1>2, <2>1
  <2>3. at[n] \in {1, 2} /\ (at[n] = 2 => of[n] \in those)
    BY <2>1, <2>2
  <2>4. QED
    BY <1>2, <2>1, <2>3
\* No part is empty, so parts that meet are neighbours.
<1>8. ASSUME NEW n \in 1..Len(r), n + 1 \in 1..Len(r), at[n + 1] = 1
      PROVE  of[n] = of[n + 1] - 1 /\ (of[n] \notin those => r[n] = t[of[n]])
  <2>1. at[n] \in {1, 2} /\ of[n] \in 1..k /\ of[n + 1] \in 1..k
    BY <1>7, <1>8
  <2>2. ~(at[n + 1] = at[n] + 1)
    BY <1>8, <2>1
  <2>3. of[n] < of[n + 1] /\ \A m \in 1..k : (of[n] < m /\ m < of[n + 1]) => s[m] = <<>>
    BY <1>3, <1>5, <1>8, <2>2 DEF Comes
  <2>4. \A m \in 1..k : ~(of[n] < m /\ m < of[n + 1])
    BY <1>2, <2>3
  <2>5. of[n] = of[n + 1] - 1
    <3>1. SUFFICES ASSUME of[n] # of[n + 1] - 1 PROVE FALSE
      OBVIOUS
    <3>2. of[n] + 1 \in 1..k /\ of[n] < of[n] + 1 /\ of[n] + 1 < of[n + 1]
      BY <1>1, <2>1, <2>3, <3>1
    <3>3. QED
      BY <2>4, <3>2
  <2>6. of[n] \notin those => r[n] = t[of[n]]
    BY <1>7, <2>1
  <2>7. QED
    BY <2>5, <2>6
<1>9. ASSUME NEW n \in 1..Len(r), n + 1 \in 1..Len(r), r[n] # " ", r[n + 1] # " "
      PROVE  \E p \in 1..k :
                /\ p + 1 \in 1..k /\ p \notin those /\ r[n] = t[p] /\ r[n + 1] = t[p + 1]
                /\ (p - 1 \in 1..k /\ p - 1 \notin those) => n - 1 \in 1..Len(r) /\ r[n - 1] = t[p - 1]
  <2> DEFINE p == of[n]
             l == Len(r)
  <2>0. l \in Nat /\ n \in 1..l /\ l # 0 /\ (n # 1 => n - 1 \in 1..l /\ (n - 1) + 1 = n)
    <3>1. l \in Nat /\ n \in 1..l
      BY <1>6
    <3> HIDE DEF l
    <3>2. QED
      BY <3>1
  <2>1. at[n] = 1 /\ at[n + 1] = 1
    BY <1>7, <1>9
  <2>2. p \in 1..k /\ of[n + 1] \in 1..k /\ r[n] = t[p] /\ r[n + 1] = t[of[n + 1]]
    BY <1>7, <1>9, <2>1
  <2>3. of[n + 1] = p + 1
    <3>1. of[n] = of[n + 1] - 1
      BY <1>8, <1>9, <2>1
    <3>2. QED
      BY <2>2, <3>1
  <2>4. p \notin those
    <3>1. of[n + 1] # of[n]
      BY <2>2, <2>3
    <3>2. at[n] = Len(s[of[n]])
      BY <1>5, <1>9, <3>1 DEF Comes
    <3>3. p \in those => Len(s[of[n]]) = 2
      BY <1>2, <2>2
    <3>4. QED
      BY <2>1, <3>2, <3>3
  <2>5. ASSUME p - 1 \in 1..k, p - 1 \notin those PROVE n - 1 \in 1..Len(r) /\ r[n - 1] = t[p - 1]
    <3>1. n # 1
      <4>1. SUFFICES ASSUME n = 1 PROVE FALSE
        OBVIOUS
      <4>2. Len(r) # 0
        BY <2>0
      <4>3. \A m \in 1..k : m < of[1] => s[m] = <<>>
        BY <1>3, <1>5, <4>2 DEF Comes
      <4>4. p - 1 < p
        BY <2>2
      <4>5. s[p - 1] = <<>>
        BY <2>5, <4>1, <4>3, <4>4
      <4>6. QED
        BY <1>2, <2>5, <4>5
    <3>2. n - 1 \in 1..Len(r) /\ (n - 1) + 1 = n
      BY <2>0, <3>1
    <3>3. of[n - 1] = p - 1 /\ (of[n - 1] \notin those => r[n - 1] = t[of[n - 1]])
      BY <1>8, <2>1, <3>2
    <3>4. QED
      BY <2>5, <3>2, <3>3
  <2>6. QED
    BY <2>2, <2>3, <2>4, <2>5
<1>10. ASSUME k # 0 PROVE Len(r) # 0 /\ r[1] = t[1]
  <2>1. 1 \in 1..k
    BY <1>1, <1>10
  <2>2. s[1] # <<>>
    BY <1>2, <2>1
  <2>3. Len(r) # 0
    BY <1>3, <1>5, <2>1, <2>2 DEF Comes
  <2>4. at[1] = 1 /\ \A m \in 1..k : m < of[1] => s[m] = <<>>
    BY <1>3, <1>5, <2>3 DEF Comes
  <2>5. 1 \in 1..Len(r)
    BY <1>6, <2>3
  <2>6. of[1] \in 1..k /\ r[1] = t[of[1]]
    BY <1>7, <2>4, <2>5
  <2>7. ~(1 < of[1])
    BY <2>1, <2>2, <2>4
  <2>8. of[1] = 1
    BY <2>6, <2>7
  <2>9. QED
    BY <2>3, <2>6, <2>8
<1>11. QED
  BY <1>9, <1>10 DEF r, KeepsSpaced

-----------------------------------------------------------------------------
(* What the passes of clean_text do to the spacing.                        *)

LEMMA Classes ==
    /\ \A c \in Letters : c \notin Punct /\ c \notin Closers /\ c \notin Blank /\ c # "(" /\ c # " "
                          /\ c # "." /\ c # "," /\ c # "!"
    /\ \A c \in Punct : c \notin Closers /\ c \notin Blank /\ c # " "
    /\ " " \in Blank /\ " " \notin Letters /\ " " \notin Punct
    /\ "." \in Punct /\ "," \in Punct /\ "!" \in Punct
    /\ Letters \subseteq Chars /\ Blank \subseteq Chars
    /\ NoChar \notin Chars /\ NoChar \notin Punct /\ NoChar \notin Letters /\ NoChar \notin Blank /\ NoChar # " "
<1>1. NoChar \notin Chars
  BY Zenon DEF NoChar, Chars, Letters, Punct, Closers, Blank
<1>2. NoChar \notin Punct /\ NoChar \notin Letters /\ NoChar \notin Blank /\ NoChar # " "
  BY Zenon DEF NoChar, Letters, Punct, Blank
<1>3. QED
  BY <1>1, <1>2 DEF Chars, Letters, Punct, Closers, Blank

Comma == {","}
CommaPeriod == {",", "."}

\* No letter stands right behind a character of cs.
NoWordAfter(t, cs) ==
    \A n \in 1..Len(t) : (n + 1 \in 1..Len(t) /\ t[n] \in cs) => t[n + 1] \notin Letters

NoTwoBlanks(t) ==
    \A n \in 1..Len(t) : n + 1 \in 1..Len(t) => t[n] \notin Blank \/ t[n + 1] \notin Blank

\* A letter stands right behind a period only if that ends a run of them.
WordsAfterRuns(t) ==
    \A n \in 1..Len(t) : (n + 1 \in 1..Len(t) /\ t[n] = "." /\ t[n + 1] \in Letters) =>
        n - 1 \in 1..Len(t) /\ t[n - 1] = "."

\* The passes of Respaced, one by one.
LEMMA CommasSpaced ==
    ASSUME NEW t \in Text
    PROVE  NoWordAfter(SpacedCommas(t), Comma)
<1> DEFINE those == {i \in DOMAIN t : t[i] = ","}
           r == SpacedAfter(t, those)
<1>1. SUFFICES ASSUME NEW n \in 1..Len(r), n + 1 \in 1..Len(r), r[n] = ",", r[n + 1] \in Letters
               PROVE  FALSE
  BY Zenon DEF NoWordAfter, Comma, CommaPeriod, SpacedCommas
<1>2. DOMAIN t = 1..Len(t)
  BY LenProperties DEF Text
<1>3. r[n] # " " /\ r[n + 1] # " "
  BY <1>1, Classes
<1>4. PICK p \in 1..Len(t) : p \notin those /\ r[n] = t[p]
  <2>1. KeepsSpaced(t, those, r)
    BY SpacedKeeps
  <2> HIDE DEF those, r
  <2>2. QED
    BY <1>1, <1>3, <2>1 DEF KeepsSpaced
<1>5. QED
  BY <1>1, <1>2, <1>4

LEMMA PeriodsSpaced ==
    ASSUME NEW t \in Text, NoWordAfter(t, Comma)
    PROVE  NoWordAfter(SpacedPeriods(t), Comma) /\ WordsAfterRuns(SpacedPeriods(t))
<1> DEFINE those == {i \in DOMAIN t : /\ t[i] = "." /\ At(t, i - 1) # "."
                                      /\ At(t, i + 1) \notin Closers \cup {"."}}
           r == SpacedAfter(t, those)
<1>1. r = SpacedPeriods(t)
  BY Zenon DEF SpacedPeriods
<1>2. DOMAIN t = 1..Len(t) /\ Len(t) \in Nat /\ \A i \in 1..Len(t) : t[i] \in Chars
  BY LenProperties DEF Text
<1>3. ASSUME NEW n \in 1..Len(r), n + 1 \in 1..Len(r), r[n] \in {",", "."}, r[n + 1] \in Letters
      PROVE  \E p \in 1..Len(t) :
                /\ p + 1 \in 1..Len(t) /\ p \notin those /\ r[n] = t[p] /\ r[n + 1] = t[p + 1]
                /\ (p - 1 \in 1..Len(t) /\ p - 1 \notin those)
                      => n - 1 \in 1..Len(r) /\ r[n - 1] = t[p - 1]
  <2>1. r[n] # " " /\ r[n + 1] # " "
    BY <1>3, Classes
  <2>2. KeepsSpaced(t, those, r)
    BY SpacedKeeps
  <2> HIDE DEF those, r
  <2>3. QED
    BY <1>3, <2>1, <2>2 DEF KeepsSpaced
<1>4. ASSUME NEW n \in 1..Len(r), n + 1 \in 1..Len(r), r[n] = ",", r[n + 1] \in Letters
      PROVE  FALSE
  <2>1. PICK p \in 1..Len(t) : p + 1 \in 1..Len(t) /\ r[n] = t[p] /\ r[n + 1] = t[p + 1]
    BY <1>3, <1>4
  <2>2. QED
    BY <1>4, <2>1 DEF NoWordAfter, Comma, CommaPeriod
<1>5. ASSUME NEW n \in 1..Len(r), n + 1 \in 1..Len(r), r[n] = ".", r[n + 1] \in Letters
      PROVE  n - 1 \in 1..Len(r) /\ r[n - 1] = "."
  <2>1. PICK p \in 1..Len(t) :
                /\ p + 1 \in 1..Len(t) /\ p \notin those /\ r[n] = t[p] /\ r[n + 1] = t[p + 1]
                /\ (p - 1 \in 1..Len(t) /\ p - 1 \notin those)
                      => n - 1 \in 1..Len(r) /\ r[n - 1] = t[p - 1]
    BY <1>3, <1>5
  <2>2. At(t, p + 1) = t[p + 1]
    <3>1. p + 1 \in DOMAIN t
      BY <1>2, <2>1
    <3>2. QED
      BY <3>1, Zenon DEF At
  <2>3. At(t, p + 1) \notin Closers \cup {"."}
    BY <1>5, <2>1, <2>2, Classes
  <2>4. At(t, p - 1) = "."
    BY <1>2, <1>5, <2>1, <2>3
  <2>5. p - 1 \in 1..Len(t)
    <3>1. "." # NoChar
      BY CharsHere, Classes
    <3>2. p - 1 \in DOMAIN t
      BY <2>4, <3>1, Zenon DEF At
    <3>3. QED
      BY <1>2, <3>2
  <2>6. t[p - 1] = "."
    BY <1>2, <2>4, <2>5 DEF At
  <2>7. p - 1 \notin those
    <3>1. At(t, (p - 1) + 1) = "."
      <4>1. (p - 1) + 1 = p /\ p \in DOMAIN t
        BY <1>2
      <4>2. At(t, p) = t[p]
        BY <4>1, Zenon DEF At
      <4>3. QED
        BY <1>5, <2>1, <4>1, <4>2
    <3>2. QED
      BY <3>1
  <2>8. QED
    BY <2>1, <2>5, <2>6, <2>7
<1> HIDE DEF r
<1>7. WordsAfterRuns(r)
  BY <1>5 DEF WordsAfterRuns
<1>8. NoWordAfter(r, Comma)
  BY <1>4 DEF NoWordAfter, Comma, CommaPeriod
<1>9. QED
  BY <1>1, <1>7, <1>8

LEMMA ExclamationsSpaced ==
    ASSUME NEW t \in Text, NoWordAfter(t, CommaPeriod)
    PROVE  NoWordAfter(SpacedExclamations(t), Punct)
<1> DEFINE those == {i \in DOMAIN t : t[i] = "!" /\ At(t, i + 1) \notin Closers}
           r == SpacedAfter(t, those)
<1>1. SUFFICES ASSUME NEW n \in 1..Len(r), n + 1 \in 1..Len(r), r[n] \in Punct, r[n + 1] \in Letters
               PROVE  FALSE
  BY Zenon DEF NoWordAfter, Comma, CommaPeriod, SpacedExclamations
<1>2. DOMAIN t = 1..Len(t) /\ Len(t) \in Nat
  BY LenProperties DEF Text
<1>3. r[n] # " " /\ r[n + 1] # " "
  BY <1>1, Classes
<1>4. PICK p \in 1..Len(t) : p + 1 \in 1..Len(t) /\ p \notin those /\ r[n] = t[p] /\ r[n + 1] = t[p + 1]
  <2>1. KeepsSpaced(t, those, r)
    BY SpacedKeeps
  <2> HIDE DEF those, r
  <2>2. QED
    BY <1>1, <1>3, <2>1 DEF KeepsSpaced
<1>5. t[p] \in Punct /\ t[p + 1] \in Letters
  BY <1>1, <1>4
<1>6. t[p] = "!"
  BY <1>4, <1>5 DEF NoWordAfter, Comma, CommaPeriod, Punct
<1>7. At(t, p + 1) = t[p + 1]
  <2>1. p + 1 \in DOMAIN t
    BY <1>2, <1>4
  <2>2. QED
    BY <2>1, Zenon DEF At
<1>8. At(t, p + 1) \notin Closers
  BY <1>5, <1>7, Classes
<1>9. QED
  BY <1>2, <1>4, <1>6, <1>8

\* An ellipsis is followed by a space, and a period before a letter was in one.
LEMMA EllipsesSpaced ==
    ASSUME NEW t \in Text, NoWordAfter(t, Comma), WordsAfterRuns(t)
    PROVE  /\ NoWordAfter(SpacedEllipses(t), CommaPeriod)
           /\ At(t, 1) \in Letters => At(SpacedEllipses(t), 1) = At(t, 1)
<1> DEFINE k == Len(t)
           periods == {i \in DOMAIN t : t[i] = "."}
           Linked(p, i) == AllIn(t, p, i, Blank \cup {"."}) /\ AllIn(t, i, p, Blank \cup {"."})
           within == {i \in DOMAIN t : \E p, q \in periods : p # q /\ Linked(p, i) /\ Linked(q, i)}
           Run(i) == IF i \notin within THEN <<t[i]>>
                     ELSE IF i - 1 \in within THEN <<>> ELSE <<".", ".", ".", " ">>
           s == [i \in DOMAIN t |-> Run(i)]
           r == SpacedEllipses(t)
<1>1. DOMAIN t = 1..k /\ k \in Nat /\ \A i \in 1..k : t[i] \in Chars
  BY LenProperties DEF Text
<1>2. r = FlattenSeq(s)
  BY DEF SpacedEllipses
<1>3. r \in Seq(Chars)
  BY EllipsesType, CharsHere DEF Text
<1>0. /\ \A i \in 1..k : i \in Int /\ ~(i < i)
      /\ \A i, j \in 1..k : (i < j /\ j # i + 1) =>
            i + 1 \in 1..k /\ i < i + 1 /\ i + 1 < j /\ (i + 1) - 1 = i
  <2>1. k \in Nat
    BY <1>1
  <2> HIDE DEF k
  <2>2. QED
    BY <2>1
\* A letter is no part of a run; of two periods, both are.
<1>4. ASSUME NEW i \in 1..k, t[i] \in Letters PROVE i \notin within
  <2>1. SUFFICES ASSUME NEW p \in 1..k, Linked(p, i) PROVE FALSE
    BY <1>1
  <2>2. i \in p..i \/ i \in i..p
    <3>1. p \in Int /\ i \in Int
      BY <1>1
    <3>2. QED
      BY <3>1
  <2>3. t[i] \in Blank \cup {"."}
    BY <2>1, <2>2 DEF AllIn
  <2>4. QED
    BY <1>4, <2>3, Classes
<1>5. ASSUME NEW i \in 1..k, i - 1 \in 1..k, t[i] = ".", t[i - 1] = "." PROVE i \in within
  <2>1. i \in Int /\ i - 1 # i
    BY <1>1
  <2>2. Linked(i, i)
    <3>1. \A j \in i..i : j = i
      BY <2>1
    <3>2. QED
      BY <1>5, <3>1 DEF AllIn
  <2>3. Linked(i - 1, i)
    <3>1. \A j \in (i - 1)..i : j = i \/ j = i - 1
      BY <2>1
    <3>2. \A j \in i..(i - 1) : FALSE
      BY <2>1
    <3>3. QED
      BY <1>5, <3>1, <3>2 DEF AllIn
  <2>4. i \in periods /\ i - 1 \in periods
    BY <1>1, <1>5
  <2> HIDE DEF Linked, periods
  <2>5. QED
    BY <1>1, <2>1, <2>2, <2>3, <2>4
<1> HIDE DEF within
<1>6. ASSUME NEW i \in 1..k
      PROVE  /\ s[i] \in Seq(Chars)
             /\ i \notin within => s[i] # <<>> /\ Len(s[i]) = 1 /\ s[i][1] = t[i]
             /\ (i \in within /\ i - 1 \in within) => s[i] = <<>>
             /\ (i \in within /\ i - 1 \notin within) =>
                    s[i] # <<>> /\ Len(s[i]) = 4 /\ \A j \in 1..4 : s[i][j] = IF j = 4 THEN " " ELSE "."
  <2>1. t[i] \in Chars /\ "." \in Chars /\ " " \in Chars
    BY <1>1, CharsHere
  <2>2. <<t[i]>> \in Seq(Chars) /\ <<".", ".", ".", " ">> \in Seq(Chars) /\ <<>> \in Seq(Chars)
    BY <2>1, ShortTexts, EmptySeq
  <2>3. <<t[i]>> # <<>> /\ Len(<<t[i]>>) = 1 /\ (<<t[i]>>)[1] = t[i]
    OBVIOUS
  <2> DEFINE e == <<".", ".", ".", " ">>
  <2>4. e # <<>> /\ Len(e) = 4 /\ \A j \in 1..4 : e[j] = IF j = 4 THEN " " ELSE "."
    <3>1. e # <<>> /\ Len(e) = 4 /\ e[1] = "." /\ e[2] = "." /\ e[3] = "." /\ e[4] = " "
      OBVIOUS
    <3> HIDE DEF e
    <3>2. \A j \in 1..4 : j = 1 \/ j = 2 \/ j = 3 \/ j = 4
      OBVIOUS
    <3>3. QED
      BY <3>1, <3>2
  <2>5. s[i] = IF i \notin within THEN <<t[i]>> ELSE IF i - 1 \in within THEN <<>> ELSE e
    BY <1>1
  <2> HIDE DEF s
  <2>6. CASE i \notin within
    <3>1. s[i] = <<t[i]>>
      BY <2>5, <2>6
    <3>2. s[i] \in Seq(Chars) /\ s[i] # <<>> /\ Len(s[i]) = 1 /\ s[i][1] = t[i]
      BY <2>2, <2>3, <3>1
    <3>3. QED
      BY <2>6, <3>2
  <2>7. CASE i \in within /\ i - 1 \in within
    BY <2>2, <2>5, <2>7
  <2>8. CASE i \in within /\ i - 1 \notin within
    <3>1. s[i] = e
      BY <2>5, <2>8
    <3>2. e \in Seq(Chars)
      BY <2>2
    <3> HIDE DEF e
    <3>3. QED
      BY <2>4, <2>8, <3>1, <3>2
  <2>9. QED
    BY <2>6, <2>7, <2>8
<1>7. s \in Seq(Seq(Chars)) /\ Len(s) = k
  <2>1. s = [i \in 1..k |-> s[i]]
    BY <1>1
  <2>2. \A i \in 1..k : s[i] \in Seq(Chars)
    BY <1>6
  <2> HIDE DEF s
  <2>3. QED
    BY <1>1, <2>1, <2>2, Mapped
<1> HIDE DEF s, r, Run, Linked, periods, k
<1>8. PICK of, at : Comes(s, r, of, at)
  BY <1>2, <1>7, FlatComes
<1>9. Len(r) \in Nat
  BY <1>3, LenProperties
<1>10. ASSUME NEW n \in 1..Len(r)
       PROVE  /\ of[n] \in 1..k
              /\ of[n] \notin within => at[n] = 1 /\ r[n] = t[of[n]] /\ Len(s[of[n]]) = 1
              /\ of[n] \in within => /\ at[n] \in 1..4 /\ Len(s[of[n]]) = 4
                                     /\ r[n] = IF at[n] = 4 THEN " " ELSE "."
  <2>1. of[n] \in 1..k /\ at[n] \in 1..Len(s[of[n]]) /\ r[n] = s[of[n]][at[n]]
    BY <1>7, <1>8 DEF Comes
  <2>2. CASE of[n] \notin within
    <3>1. Len(s[of[n]]) = 1 /\ s[of[n]][1] = t[of[n]]
      BY <1>6, <2>1, <2>2
    <3>2. at[n] = 1
      BY <2>1, <3>1
    <3>3. QED
      BY <2>1, <2>2, <3>1, <3>2
  <2>3. CASE of[n] \in within
    <3>1. of[n] - 1 \notin within
      <4>1. SUFFICES ASSUME of[n] - 1 \in within PROVE FALSE
        OBVIOUS
      <4>2. s[of[n]] = <<>>
        BY <1>6, <2>1, <2>3, <4>1
      <4>3. Len(<<>>) = 0 /\ 1..0 = {}
        OBVIOUS
      <4>4. QED
        BY <2>1, <4>2, <4>3
    <3>2. Len(s[of[n]]) = 4 /\ \A j \in 1..4 : s[of[n]][j] = IF j = 4 THEN " " ELSE "."
      BY <1>6, <2>1, <2>3, <3>1
    <3>3. QED
      BY <2>1, <2>3, <3>2
  <2>4. QED
    BY <2>2, <2>3
<1>11. ASSUME NEW n \in 1..Len(r), n + 1 \in 1..Len(r), r[n] \in CommaPeriod, r[n + 1] \in Letters
       PROVE  FALSE
  <2> DEFINE p == of[n]
             q == of[n + 1]
  <2>1. p \in 1..k /\ q \in 1..k /\ r[n] # " " /\ r[n + 1] # " " /\ r[n + 1] # "."
    BY <1>10, <1>11, Classes DEF CommaPeriod
  <2>2. q \notin within /\ at[n + 1] = 1 /\ r[n + 1] = t[q]
    BY <1>10, <1>11, <2>1
  <2>3. q # p
    <3>1. SUFFICES ASSUME q = p PROVE FALSE
      OBVIOUS
    <3>2. at[n] = 1 /\ at[n + 1] = 1
      BY <1>10, <1>11, <2>2, <3>1
    <3>3. at[n + 1] = at[n] + 1
      <4>1. ~(of[n] < of[n + 1])
        BY <1>0, <2>1, <3>1
      <4>2. QED
        BY <1>8, <1>11, <3>1, <4>1 DEF Comes
    <3>4. QED
      BY <3>2, <3>3
  <2>4. p < q /\ at[n] = Len(s[p]) /\ \A j \in 1..k : (p < j /\ j < q) => s[j] = <<>>
    BY <1>7, <1>8, <1>11, <2>3 DEF Comes
  <2>5. p \notin within
    <3>1. SUFFICES ASSUME p \in within PROVE FALSE
      OBVIOUS
    <3>2. Len(s[p]) = 4 /\ r[n] = IF at[n] = 4 THEN " " ELSE "."
      BY <1>10, <1>11, <3>1
    <3>3. QED
      BY <2>1, <2>4, <3>2
  <2>6. r[n] = t[p]
    BY <1>10, <1>11, <2>5
  <2>7. q = p + 1
    <3>1. SUFFICES ASSUME q # p + 1 PROVE FALSE
      OBVIOUS
    <3>2. p + 1 \in 1..k /\ p < p + 1 /\ p + 1 < q /\ (p + 1) - 1 = p
      BY <1>0, <2>1, <2>4, <3>1
    <3>3. s[p + 1] = <<>>
      BY <2>4, <3>2
    <3>4. (p + 1) - 1 \notin within
      BY <2>5, <3>2
    <3>5. QED
      BY <1>6, <3>2, <3>3, <3>4
  <2>8. t[p] \in CommaPeriod /\ t[p + 1] \in Letters /\ p + 1 \in 1..k
    BY <1>11, <2>1, <2>2, <2>6, <2>7
  <2>9. t[p] = "."
    BY <2>1, <2>8 DEF NoWordAfter, Comma, CommaPeriod, k
  <2>10. p - 1 \in 1..k /\ t[p - 1] = "."
    BY <2>1, <2>8, <2>9 DEF WordsAfterRuns, k
  <2>11. p \in within
    BY <1>5, <2>1, <2>9, <2>10
  <2>12. QED
    BY <2>5, <2>11
<1>12. ASSUME At(t, 1) \in Letters PROVE At(r, 1) = At(t, 1)
  <2>1. 1 \in 1..k /\ At(t, 1) = t[1]
    <3>1. 1 \in DOMAIN t
      BY <1>12, Classes DEF At
    <3>2. QED
      BY <1>1, <3>1 DEF At
  <2>2. 1 \notin within
    BY <1>4, <1>12, <2>1
  <2>3. s[1] # <<>>
    BY <1>6, <2>1, <2>2
  <2>4. Len(r) # 0
    BY <1>7, <1>8, <2>1, <2>3 DEF Comes
  <2>5. \A m \in 1..k : m < of[1] => s[m] = <<>>
    BY <1>7, <1>8, <2>4 DEF Comes
  <2>6. 1 \in 1..Len(r)
    BY <1>9, <2>4
  <2>7. of[1] \in 1..k
    BY <1>10, <2>6
  <2>8. of[1] = 1
    BY <2>1, <2>3, <2>5, <2>7
  <2>9. r[1] = t[1]
    <3>1. of[1] \notin within
      BY <2>2, <2>8
    <3>2. r[1] = t[of[1]]
      BY <1>10, <2>6, <3>1
    <3>3. QED
      BY <2>8, <3>2
  <2>10. At(r, 1) = r[1]
    <3>1. DOMAIN r = 1..Len(r)
      BY <1>3, LenProperties
    <3>2. QED
      BY <2>6, <3>1 DEF At
  <2>11. QED
    BY <2>1, <2>9, <2>10
<1>13. NoWordAfter(r, CommaPeriod)
  BY <1>11 DEF NoWordAfter
<1>14. QED
  BY <1>12, <1>13 DEF r

LEMMA AtFirst ==
    ASSUME NEW t \in Text
    PROVE  /\ Len(t) # 0 => At(t, 1) = t[1] /\ 1 \in 1..Len(t)
           /\ Len(t) = 0 => At(t, 1) = NoChar
           /\ Len(t) # 0 => EndChar(t) = t[Len(t)] /\ Len(t) \in 1..Len(t)
           /\ Len(t) = 0 => EndChar(t) = NoChar
           /\ Len(t) \in Nat /\ DOMAIN t = 1..Len(t) /\ \A i \in 1..Len(t) : t[i] \in Chars
           /\ Len(t) = 0 <=> t = <<>>
<1> DEFINE k == Len(t)
<1>1. k \in Nat /\ DOMAIN t = 1..k /\ \A i \in 1..k : t[i] \in Chars
  BY LenProperties DEF Text
<1>2. (k # 0 => 1 \in 1..k /\ k \in 1..k) /\ (k = 0 => 1 \notin 1..k /\ k \notin 1..k)
  <2> HIDE DEF k
  <2>1. k \in Nat
    BY <1>1
  <2>2. QED
    BY <2>1
<1>3. k = 0 <=> t = <<>>
  BY EmptySeq DEF Text
<1>4. (k # 0 => At(t, 1) = t[1] /\ At(t, k) = t[k]) /\ (k = 0 => At(t, 1) = NoChar /\ At(t, k) = NoChar)
  <2> HIDE DEF k
  <2>1. QED
    BY <1>1, <1>2, Zenon DEF At
<1>5. QED
  BY <1>1, <1>2, <1>3, <1>4 DEF EndChar

\* The first character stays where it is not taken out.
LEMMA WithoutFirst ==
    ASSUME NEW t \in Text, NEW gone, 1 \in 1..Len(t), 1 \notin gone
    PROVE  At(Without(t, gone), 1) = t[1]
<1> DEFINE k == Len(t)
           r == Without(t, gone)
<1>1. Keeps(t, gone, r) /\ r \in Text
  BY WithoutKeeps, WithoutType DEF Text
<1> HIDE DEF r
<1>2. Len(r) # 0
  BY <1>1 DEF Keeps
<1>3. PICK p \in 1..k : r[1] = t[p] /\ \A m \in 1..k : m < p => m \in gone
  BY <1>1, <1>2 DEF Keeps
<1>4. p = 1
  <2>1. k \in Nat
    BY AtFirst
  <2>2. ~(1 < p)
    BY <1>3
  <2> HIDE DEF k
  <2>3. QED
    BY <2>1, <2>2
<1>5. At(r, 1) = r[1]
  BY <1>1, <1>2, AtFirst
<1>6. QED
  BY <1>3, <1>4, <1>5 DEF r

LEMMA SpacedFirst ==
    ASSUME NEW t \in Text, NEW those
    PROVE  SpacedAfter(t, those) \in Text
           /\ (At(t, 1) \in Letters => At(SpacedAfter(t, those), 1) = At(t, 1))
<1> DEFINE r == SpacedAfter(t, those)
<1>1. KeepsSpaced(t, those, r) /\ r \in Text
  BY SpacedKeeps, SpacedType, CharsHere DEF Text
<1> HIDE DEF r
<1>2. ASSUME At(t, 1) \in Letters PROVE At(r, 1) = At(t, 1)
  <2>1. Len(t) # 0 /\ At(t, 1) = t[1]
    BY <1>2, AtFirst, Classes
  <2>2. Len(r) # 0 /\ r[1] = t[1]
    BY <1>1, <2>1 DEF KeepsSpaced
  <2>3. QED
    BY <1>1, <2>1, <2>2, AtFirst
<1>3. QED
  BY <1>1, <1>2 DEF r

\* An initial part taken out changes nothing behind it.
LEMMA LeadingGone ==
    ASSUME NEW t \in Text, NoWordAfter(t, Punct)
    PROVE  NoWordAfter(WithoutLeadingPunct(t), Punct) /\ WithoutLeadingPunct(t) \in Text
<1> DEFINE k == Len(t)
           gone == {1} \cup {i \in DOMAIN t : 1 < i /\ AllIn(t, 2, i, Blank)}
           r == Without(t, gone)
<1>1. k \in Nat /\ DOMAIN t = 1..k
  BY AtFirst
<1>2. Keeps(t, gone, r) /\ r \in Text
  BY WithoutKeeps, WithoutType DEF Text
<1>3. ASSUME NEW p \in 1..k, NEW m \in 1..k, p < m, m \in gone PROVE p \in gone
  <2>1. CASE p = 1
    BY <2>1
  <2>2. CASE p # 1
    <3>1. 1 < p /\ m # 1 /\ \A j \in 2..p : j \in 2..m
      <4>1. k \in Nat
        BY <1>1
      <4> HIDE DEF gone, k
      <4>2. p \in Nat /\ m \in Nat /\ 1 <= p
        BY <4>1
      <4>3. QED
        BY <1>3, <2>2, <4>2
    <3>2. AllIn(t, 2, m, Blank)
      BY <1>3, <3>1
    <3>3. AllIn(t, 2, p, Blank)
      BY <3>1, <3>2 DEF AllIn
    <3>4. QED
      BY <1>1, <3>1, <3>3
  <2>3. QED
    BY <2>1, <2>2
<1> HIDE DEF gone, r
<1>4. ASSUME NEW n \in 1..Len(r), n + 1 \in 1..Len(r), r[n] \in Punct, r[n + 1] \in Letters
      PROVE  FALSE
  <2>1. PICK p, q \in 1..k :
            /\ p < q /\ p \notin gone /\ q \notin gone /\ r[n] = t[p] /\ r[n + 1] = t[q]
            /\ \A m \in 1..k : p < m /\ m < q => m \in gone
    BY <1>2, <1>4 DEF Keeps
  <2>2. q = p + 1
    <3>1. \A m \in 1..k : ~(p < m /\ m < q)
      BY <1>3, <2>1
    <3>2. k \in Nat
      BY <1>1
    <3> HIDE DEF k
    <3>3. QED
      BY <2>1, <3>1, <3>2
  <2>3. QED
    BY <1>4, <2>1, <2>2 DEF NoWordAfter
<1>5. NoWordAfter(r, Punct)
  BY <1>4 DEF NoWordAfter
<1>6. WithoutLeadingPunct(t) = r \/ WithoutLeadingPunct(t) = t
  BY DEF WithoutLeadingPunct, r, gone
<1>7. QED
  BY <1>2, <1>5, <1>6

\* What the last pass leaves.
Tight(t) ==
    /\ t \in Text /\ NoWordAfter(t, Punct) /\ NoTwoBlanks(t)
    /\ At(t, 1) \notin Blank /\ EndChar(t) \notin Blank

LEMMA BlanksCollapse ==
    ASSUME NEW t \in Text, NoWordAfter(t, Punct)
    PROVE  LET u == Without(t, {i \in DOMAIN t : t[i] \in Blank /\ At(t, i - 1) \in Blank})
           IN  u \in Text /\ NoWordAfter(u, Punct) /\ NoTwoBlanks(u)
<1> DEFINE k == Len(t)
           gone == {i \in DOMAIN t : t[i] \in Blank /\ At(t, i - 1) \in Blank}
           r == Without(t, gone)
<1>1. k \in Nat /\ DOMAIN t = 1..k
  BY AtFirst
<1>2. Keeps(t, gone, r) /\ r \in Text
  BY WithoutKeeps, WithoutType DEF Text
<1>3. ASSUME NEW q \in 1..k, q \notin gone, q - 1 \in 1..k
      PROVE  t[q - 1] \notin Blank \/ t[q] \notin Blank
  <2>1. At(t, q - 1) = t[q - 1]
    BY <1>1, <1>3 DEF At
  <2>2. QED
    BY <1>1, <1>3, <2>1
<1>4. \A i \in 1..k : i \in gone => t[i] \in Blank
  BY <1>1
\* The character before one that went is a blank.
<1>5. ASSUME NEW i \in 1..k, i \in gone, i - 1 \in 1..k PROVE t[i - 1] \in Blank
  BY <1>1, <1>5 DEF At
<1> HIDE DEF gone, r
<1>6. ASSUME NEW n \in 1..Len(r), n + 1 \in 1..Len(r)
      PROVE  /\ ~(r[n] \in Punct /\ r[n + 1] \in Letters)
             /\ r[n] \notin Blank \/ r[n + 1] \notin Blank
  <2>1. PICK p, q \in 1..k :
            /\ p < q /\ p \notin gone /\ q \notin gone /\ r[n] = t[p] /\ r[n + 1] = t[q]
            /\ \A m \in 1..k : p < m /\ m < q => m \in gone
    BY <1>2, <1>6 DEF Keeps
  <2>2. /\ p \in Int /\ q \in Int /\ q - 1 \in 1..k /\ (q # p + 1 => p < q - 1 /\ q - 1 < q)
        /\ (q # p + 1 => p + 1 \in 1..k /\ p < p + 1 /\ p + 1 < q)
        /\ (p + 1) - 1 = p /\ (q = p + 1 => q - 1 = p)
    <3>1. k \in Nat
      BY <1>1
    <3> HIDE DEF k
    <3>2. QED
      BY <2>1, <3>1
  <2>3. CASE q = p + 1
    <3>1. ~(t[p] \in Punct /\ t[q] \in Letters)
      BY <2>1, <2>3 DEF NoWordAfter
    <3>2. t[p] \notin Blank \/ t[q] \notin Blank
      BY <1>3, <2>1, <2>2, <2>3
    <3>3. QED
      BY <2>1, <3>1, <3>2
  <2>4. CASE q # p + 1
    <3>1. p + 1 \in gone /\ q - 1 \in gone
      BY <2>1, <2>2, <2>4
    <3>2. t[p] \in Blank
      BY <1>5, <2>1, <2>2, <2>4, <3>1
    <3>3. t[q - 1] \in Blank
      BY <1>4, <2>2, <3>1
    <3>4. t[q] \notin Blank
      BY <1>3, <2>1, <2>2, <3>3
    <3>5. QED
      BY <2>1, <3>2, <3>4, Classes
  <2>5. QED
    BY <2>3, <2>4
<1>7. NoWordAfter(r, Punct) /\ NoTwoBlanks(r)
  BY <1>6 DEF NoWordAfter, NoTwoBlanks
<1>8. QED
  BY <1>2, <1>7 DEF r, gone

LEMMA Stripped ==
    ASSUME NEW t \in Text, NoWordAfter(t, Punct), NoTwoBlanks(t)
    PROVE  Tight(Strip(t))
<1> DEFINE k == Len(t)
           solid == {i \in DOMAIN t : t[i] \notin Blank}
           gone == {i \in DOMAIN t : (\A j \in solid : i < j) \/ (\A j \in solid : j < i)}
           r == Without(t, gone)
<1>1. k \in Nat /\ DOMAIN t = 1..k
  BY AtFirst
<1>2. Keeps(t, gone, r) /\ r \in Text
  BY WithoutKeeps, WithoutType DEF Text
<1>3. \A i \in solid : i \in 1..k /\ i \notin gone
  <2>1. \A i \in solid : i \in 1..k /\ i \in Int /\ ~(i < i)
    <3>1. \A i \in 1..k : i \in Int /\ ~(i < i)
      <4>1. k \in Nat
        BY <1>1
      <4> HIDE DEF k
      <4>2. QED
        BY <4>1
    <3>2. QED
      BY <1>1, <3>1
  <2>2. QED
    BY <2>1
<1>4. ASSUME NEW p \in 1..k, p \notin gone
      PROVE  (\E j \in solid : j <= p) /\ (\E j \in solid : p <= j)
  <2>1. (\E j \in solid : ~(p < j)) /\ (\E j \in solid : ~(j < p))
    BY <1>1, <1>4
  <2>2. \A i, j \in 1..k : ~(i < j) => j <= i
    <3>1. k \in Nat
      BY <1>1
    <3> HIDE DEF k
    <3>2. QED
      BY <3>1
  <2> HIDE DEF solid
  <2>3. QED
    BY <1>3, <2>1, <2>2
<1>5. ASSUME NEW p \in 1..k, NEW m \in 1..k, NEW q \in 1..k, p \notin gone, q \notin gone, p < m, m < q
      PROVE  m \notin gone
  <2>1. PICK i \in solid : i <= p
    BY <1>4, <1>5
  <2>2. PICK j \in solid : q <= j
    BY <1>4, <1>5
  <2>3. i \in 1..k /\ j \in 1..k
    BY <1>3
  <2>4. ~(m < i) /\ ~(j < m)
    <3>1. k \in Nat
      BY <1>1
    <3> HIDE DEF k, gone, solid
    <3>2. QED
      BY <1>5, <2>1, <2>2, <2>3, <3>1
  <2>5. QED
    BY <2>4
<1> HIDE DEF gone, r
<1>6. ASSUME NEW n \in 1..Len(r), n + 1 \in 1..Len(r)
      PROVE  /\ ~(r[n] \in Punct /\ r[n + 1] \in Letters)
             /\ r[n] \notin Blank \/ r[n + 1] \notin Blank
  <2>1. PICK p, q \in 1..k :
            /\ p < q /\ p \notin gone /\ q \notin gone /\ r[n] = t[p] /\ r[n + 1] = t[q]
            /\ \A m \in 1..k : p < m /\ m < q => m \in gone
    BY <1>2, <1>6 DEF Keeps
  <2>2. q = p + 1
    <3>1. \A m \in 1..k : ~(p < m /\ m < q)
      BY <1>5, <2>1
    <3>2. k \in Nat
      BY <1>1
    <3> HIDE DEF k, solid
    <3>3. QED
      BY <2>1, <3>1, <3>2
  <2>3. QED
    BY <2>1, <2>2 DEF NoWordAfter, NoTwoBlanks
<1>7. ASSUME Len(r) # 0 PROVE r[1] \notin Blank /\ r[Len(r)] \notin Blank
  <2>1. PICK p \in 1..k : p \notin gone /\ r[1] = t[p] /\ \A m \in 1..k : m < p => m \in gone
    BY <1>2, <1>7 DEF Keeps
  <2>2. PICK q \in 1..k : q \notin gone /\ r[Len(r)] = t[q] /\ \A m \in 1..k : q < m => m \in gone
    BY <1>2, <1>7 DEF Keeps
  <2>3. PICK i \in solid : i <= p
    BY <1>4, <2>1
  <2>4. PICK j \in solid : q <= j
    BY <1>4, <2>2
  <2>5. i \in 1..k /\ i \notin gone /\ j \in 1..k /\ j \notin gone
    BY <1>3
  <2>6. ~(i < p) /\ ~(q < j)
    BY <2>1, <2>2, <2>5
  <2>7. i = p /\ j = q
    <3>1. k \in Nat
      BY <1>1
    <3> HIDE DEF k, solid
    <3>2. QED
      BY <2>3, <2>4, <2>5, <2>6, <3>1
  <2>8. t[i] \notin Blank /\ t[j] \notin Blank
    OBVIOUS
  <2>9. QED
    BY <2>1, <2>2, <2>7, <2>8
<1>8. NoWordAfter(r, Punct) /\ NoTwoBlanks(r)
  BY <1>6 DEF NoWordAfter, NoTwoBlanks
<1>9. At(r, 1) \notin Blank /\ EndChar(r) \notin Blank
  BY <1>2, <1>7, AtFirst, Classes
<1>10. Strip(t) = r
  BY DEF Strip, r, gone
<1>11. QED
  BY <1>2, <1>8, <1>9, <1>10 DEF Tight

\* A letter at the head of a text is in nobody's way.
LEMMA LetterStays ==
    ASSUME NEW t \in Text, At(t, 1) \in Letters
    PROVE  /\ At(WithoutAnnotations(t), 1) = At(t, 1)
           /\ At(PunctJoined(t), 1) = At(t, 1)
           /\ At(Strip(t), 1) = At(t, 1)
           /\ WithoutLeadingPunct(t) = t
           /\ At(Without(t, {i \in DOMAIN t : t[i] \in Blank /\ At(t, i - 1) \in Blank}), 1) = At(t, 1)
<1> DEFINE k == Len(t)
<1>1. k \in Nat /\ DOMAIN t = 1..k /\ 1 \in 1..k /\ At(t, 1) = t[1]
  BY AtFirst, Classes
<1>2. t[1] \in Letters /\ t[1] # "(" /\ t[1] \notin Blank /\ t[1] \notin Punct
  BY <1>1, Classes
<1>3. \A q \in 1..k : ~(q < 1)
  <2>1. k \in Nat
    BY <1>1
  <2> HIDE DEF k
  <2>2. QED
    BY <2>1
<1>4. At(WithoutAnnotations(t), 1) = t[1]
  <2> DEFINE Opens(p, i) == t[p] = "(" /\ \A j \in p..(i - 1) : t[j] # ")"
             Closed(i) == \E q \in i..Len(t) : t[q] = ")"
             inside == {i \in DOMAIN t : Closed(i) /\ \E p \in 1..i : Opens(p, i)}
             behind == {i \in DOMAIN t : \E q \in inside :
                             q < i /\ t[q] = ")" /\ AllIn(t, q + 1, i, Blank)}
  <2>1. \A p \in 1..1 : p = 1
    OBVIOUS
  <2>2. 1 \notin inside
    <3>1. \A p \in 1..1 : ~Opens(p, 1)
      BY <1>2, <2>1
    <3> HIDE DEF Opens, Closed
    <3>2. QED
      BY <3>1
  <2>3. \A q \in inside : q \in 1..k
    BY <1>1
  <2> HIDE DEF inside
  <2>4. 1 \notin behind
    BY <1>3, <2>3
  <2>5. 1 \notin inside \cup behind
    BY <2>2, <2>4
  <2>6. WithoutAnnotations(t) = Without(t, inside \cup behind)
    BY DEF WithoutAnnotations, inside
  <2> HIDE DEF behind
  <2>7. QED
    BY <1>1, <2>5, <2>6, WithoutFirst
<1>5. At(PunctJoined(t), 1) = t[1]
  <2> DEFINE gone == {i \in DOMAIN t : \E p \in (i + 1)..Len(t) :
                         t[p] \in Punct /\ At(t, p + 1) # "." /\ AllIn(t, i, p - 1, Blank)}
  <2>1. \A p \in (1 + 1)..k : 1 \in 1..(p - 1)
    <3>1. k \in Nat
      BY <1>1
    <3> HIDE DEF k
    <3>2. QED
      BY <3>1
  <2>2. \A p \in (1 + 1)..k : ~AllIn(t, 1, p - 1, Blank)
    BY <1>2, <2>1 DEF AllIn
  <2>3. 1 \notin gone
    BY <2>2
  <2> HIDE DEF gone
  <2>4. At(Without(t, gone), 1) = t[1]
    BY <1>1, <2>3, WithoutFirst
  <2>5. QED
    BY <2>4 DEF PunctJoined, gone
<1>6. At(Strip(t), 1) = t[1]
  <2> DEFINE solid == {i \in DOMAIN t : t[i] \notin Blank}
             gone == {i \in DOMAIN t : (\A j \in solid : i < j) \/ (\A j \in solid : j < i)}
  <2>1. 1 \in solid /\ ~(1 < 1)
    BY <1>1, <1>2
  <2>2. 1 \notin gone
    BY <2>1
  <2> HIDE DEF gone
  <2>3. At(Without(t, gone), 1) = t[1]
    BY <1>1, <2>2, WithoutFirst
  <2>4. QED
    BY <2>3 DEF Strip, gone
<1>7. WithoutLeadingPunct(t) = t
  BY <1>1, <1>2 DEF WithoutLeadingPunct
<1>8. At(Without(t, {i \in DOMAIN t : t[i] \in Blank /\ At(t, i - 1) \in Blank}), 1) = t[1]
  <2> DEFINE gone == {i \in DOMAIN t : t[i] \in Blank /\ At(t, i - 1) \in Blank}
  <2>1. 1 \notin gone
    BY <1>2
  <2> HIDE DEF gone
  <2>2. At(Without(t, gone), 1) = t[1]
    BY <1>1, <2>1, WithoutFirst
  <2>3. QED
    BY <2>2 DEF gone
<1>9. QED
  BY <1>1, <1>4, <1>5, <1>6, <1>7, <1>8

\* All passes together.
LEMMA CleanIsTight ==
    ASSUME NEW t \in Text, NEW start
    PROVE  /\ Tight(CleanText(t, start))
           /\ At(t, 1) \in Letters => At(CleanText(t, start), 1) \in Letters
<1> DEFINE a == WithoutAnnotations(t)
           b == PunctJoined(a)
           c == Strip(b)
           d == SpacedCommas(c)
           e == SpacedPeriods(d)
           f == SpacedEllipses(e)
           g == SpacedExclamations(f)
           h == IF start THEN WithoutLeadingPunct(g) ELSE g
           u == Without(h, {i \in DOMAIN h : h[i] \in Blank /\ At(h, i - 1) \in Blank})
           L(x) == At(t, 1) \in Letters => At(x, 1) \in Letters
<1>1. a \in Text /\ L(a)
  BY WithoutType, LetterStays DEF WithoutAnnotations, Text
<1>2. b \in Text /\ L(b)
  <2> HIDE DEF a
  <2>1. b \in Text
    BY <1>1, WithoutType DEF PunctJoined, Text
  <2>2. QED
    BY <1>1, <2>1, LetterStays
<1>3. c \in Text /\ L(c)
  <2> HIDE DEF b
  <2>1. c \in Text
    BY <1>2, WithoutType DEF Strip, Text
  <2>2. QED
    BY <1>2, <2>1, LetterStays
<1>4. d \in Text /\ L(d) /\ NoWordAfter(d, Comma)
  <2> HIDE DEF c
  <2>1. d \in Text /\ (At(c, 1) \in Letters => At(d, 1) = At(c, 1))
    BY <1>3, SpacedFirst DEF SpacedCommas
  <2>2. QED
    BY <1>3, <2>1, CommasSpaced
<1>5. e \in Text /\ L(e) /\ NoWordAfter(e, Comma) /\ WordsAfterRuns(e)
  <2> HIDE DEF d
  <2>1. e \in Text /\ (At(d, 1) \in Letters => At(e, 1) = At(d, 1))
    BY <1>4, SpacedFirst DEF SpacedPeriods
  <2>2. QED
    BY <1>4, <2>1, PeriodsSpaced
<1>6. f \in Text /\ L(f) /\ NoWordAfter(f, CommaPeriod)
  <2> HIDE DEF e
  <2>1. f \in Text
    BY <1>5, EllipsesType, CharsHere DEF Text
  <2>2. QED
    BY <1>5, <2>1, EllipsesSpaced
<1>7. g \in Text /\ L(g) /\ NoWordAfter(g, Punct)
  <2> HIDE DEF f
  <2>1. g \in Text /\ (At(f, 1) \in Letters => At(g, 1) = At(f, 1))
    BY <1>6, SpacedFirst DEF SpacedExclamations
  <2>2. QED
    BY <1>6, <2>1, ExclamationsSpaced
<1>8. h \in Text /\ L(h) /\ NoWordAfter(h, Punct)
  <2> HIDE DEF g
  <2>1. CASE start
    <3>1. h = WithoutLeadingPunct(g)
      BY <2>1
    <3>2. At(g, 1) \in Letters => WithoutLeadingPunct(g) = g
      BY <1>7, LetterStays
    <3>3. WithoutLeadingPunct(g) \in Text /\ NoWordAfter(WithoutLeadingPunct(g), Punct)
      BY <1>7, LeadingGone
    <3> HIDE DEF h
    <3>4. QED
      BY <1>7, <3>1, <3>2, <3>3
  <2>2. CASE ~start
    BY <1>7, <2>2
  <2>3. QED
    BY <2>1, <2>2
<1>9. u \in Text /\ L(u) /\ NoWordAfter(u, Punct) /\ NoTwoBlanks(u)
  <2> HIDE DEF h
  <2>1. u \in Text /\ NoWordAfter(u, Punct) /\ NoTwoBlanks(u)
    BY <1>8, BlanksCollapse
  <2>2. At(h, 1) \in Letters => At(u, 1) = At(h, 1)
    BY <1>8, LetterStays
  <2> HIDE DEF u
  <2>3. QED
    BY <1>8, <2>1, <2>2
<1>10. Tight(Strip(u)) /\ L(Strip(u))
  <2> HIDE DEF u
  <2>1. QED
    BY <1>9, Stripped, LetterStays
<1>11. CleanText(t, start) = Strip(u)
  BY DEF CleanText, Respaced, Collapsed, a, b, c, d, e, f, g, h
<1> HIDE DEF u
<1>12. QED
  BY <1>10, <1>11

-----------------------------------------------------------------------------
(* Texts that meet, and what format_delta makes of a text.                 *)

Solid == Chars \ Blank

\* How a text is spaced inside; once the formatter lost sight of the screen, no
\* more than that spaces do not add up.
Spaced(t, lost) ==
    \A n \in 1..Len(t) : n + 1 \in 1..Len(t) =>
        /\ t[n + 1] = " " => t[n] \notin Blank
        /\ (lost = {} /\ t[n] \in Punct) => t[n + 1] \notin Letters

\* The text b may stand right behind a: a space of its own has something to part,
\* and what starts with a character of first is parted from a word.
Meets(a, b, lost, first) ==
    /\ At(b, 1) = " " => EndChar(a) \in Solid
    /\ (lost = {} /\ At(b, 1) \in first) => EndChar(a) \notin Letters \cup Punct

LEMMA EndsOfBoth ==
    ASSUME NEW a \in Text, NEW b \in Text
    PROVE  /\ a \o b \in Text /\ Len(a \o b) = Len(a) + Len(b)
           /\ \A n \in 1..Len(a) : (a \o b)[n] = a[n]
           /\ \A n \in 1..Len(b) : (a \o b)[Len(a) + n] = b[n]
           /\ Len(a) \in Nat /\ Len(b) \in Nat
           /\ a = <<>> => a \o b = b
           /\ b = <<>> => a \o b = a
           /\ a # <<>> => At(a \o b, 1) = At(a, 1)
           /\ b # <<>> => EndChar(a \o b) = EndChar(b)
<1> DEFINE k == Len(a)
           l == Len(b)
           r == a \o b
<1>1. k \in Nat /\ l \in Nat
  BY AtFirst
<1>2. r \in Text /\ Len(r) = k + l /\ \A n \in 1..(k + l) : r[n] = IF n <= k THEN a[n] ELSE b[n - k]
  BY ConcatProperties DEF Text
<1>3. (a = <<>> => r = b) /\ (b = <<>> => r = a)
  BY ConcatEmptySeq DEF Text
<1>4. (a # <<>> <=> k # 0) /\ (b # <<>> <=> l # 0)
  BY AtFirst
<1> HIDE DEF k, l, r
<1>5. \A n \in 1..k : n \in 1..(k + l) /\ n <= k
  BY <1>1
<1>6. \A n \in 1..l : k + n \in 1..(k + l) /\ ~(k + n <= k) /\ (k + n) - k = n
  BY <1>1
<1>7. \A n \in 1..k : r[n] = a[n]
  BY <1>2, <1>5
<1>8. \A n \in 1..l : r[k + n] = b[n]
  <2> TAKE n \in 1..l
  <2>1. k + n \in 1..(k + l) /\ ~(k + n <= k) /\ (k + n) - k = n
    BY <1>6
  <2>2. r[k + n] = b[(k + n) - k]
    BY <1>2, <2>1
  <2>3. QED
    BY <2>1, <2>2
<1>9. ASSUME a # <<>> PROVE At(r, 1) = At(a, 1)
  <2>1. 1 \in 1..k /\ Len(r) # 0
    BY <1>1, <1>2, <1>4, <1>9
  <2>2. At(r, 1) = r[1]
    BY <1>2, <2>1, AtFirst
  <2>3. At(a, 1) = a[1]
    BY <1>4, <1>9, AtFirst DEF k
  <2>4. QED
    BY <1>7, <2>1, <2>2, <2>3
<1>10. ASSUME b # <<>> PROVE EndChar(r) = EndChar(b)
  <2>1. l \in 1..l /\ Len(r) # 0 /\ Len(r) = k + l
    BY <1>1, <1>2, <1>4, <1>10
  <2>2. EndChar(r) = r[k + l]
    BY <1>2, <2>1, AtFirst
  <2>3. EndChar(b) = b[l]
    BY <1>4, <1>10, AtFirst DEF l
  <2>4. QED
    BY <1>8, <2>1, <2>2, <2>3
<1>11. QED
  BY <1>1, <1>2, <1>3, <1>7, <1>8, <1>9, <1>10 DEF k, l, r

LEMMA SpacedJoins ==
    ASSUME NEW a \in Text, NEW b \in Text, NEW lost, NEW first, Letters \subseteq first,
           Spaced(a, lost), Spaced(b, lost), Meets(a, b, lost, first)
    PROVE  Spaced(a \o b, lost)
<1> DEFINE k == Len(a)
           l == Len(b)
           r == a \o b
<1>1. k \in Nat /\ l \in Nat /\ Len(r) = k + l
  BY EndsOfBoth
<1>2. (\A n \in 1..k : r[n] = a[n]) /\ (\A n \in 1..l : r[k + n] = b[n])
  BY EndsOfBoth
<1> HIDE DEF r
<1>3. SUFFICES ASSUME NEW n \in 1..(k + l), n + 1 \in 1..(k + l)
               PROVE  /\ r[n + 1] = " " => r[n] \notin Blank
                      /\ (lost = {} /\ r[n] \in Punct) => r[n + 1] \notin Letters
  BY <1>1 DEF Spaced, r
<1>4. CASE n + 1 \in 1..k
  <2>1. n \in 1..k
    <3>1. k \in Nat /\ l \in Nat
      BY <1>1
    <3> HIDE DEF k, l
    <3>2. QED
      BY <1>3, <1>4, <3>1
  <2>2. QED
    BY <1>2, <1>4, <2>1 DEF Spaced
<1>5. CASE n = k
  <2>1. k \in 1..k /\ 1 \in 1..l /\ k # 0 /\ l # 0
    <3>1. k \in Nat /\ l \in Nat
      BY <1>1
    <3> HIDE DEF k, l
    <3>2. QED
      BY <1>3, <1>5, <3>1
  <2>2. r[n] = a[k] /\ r[n + 1] = b[1]
    BY <1>2, <1>5, <2>1
  <2>3. EndChar(a) = a[k] /\ At(b, 1) = b[1]
    BY <2>1, AtFirst
  <2>4. QED
    BY <2>2, <2>3 DEF Meets, Solid
<1>6. CASE n > k
  <2>1. n - k \in 1..l /\ (n - k) + 1 \in 1..l /\ k + (n - k) = n /\ k + ((n - k) + 1) = n + 1
    <3>1. k \in Nat /\ l \in Nat
      BY <1>1
    <3> HIDE DEF k, l
    <3>2. QED
      BY <1>3, <1>6, <3>1
  <2>2. r[n] = b[n - k] /\ r[n + 1] = b[(n - k) + 1]
    BY <1>2, <2>1
  <2>3. QED
    BY <2>1, <2>2 DEF Spaced
<1>7. n + 1 \in 1..k \/ n = k \/ n > k
  <2>1. k \in Nat /\ l \in Nat
    BY <1>1
  <2> HIDE DEF k, l
  <2>2. QED
    BY <1>3, <2>1
<1>8. QED
  BY <1>4, <1>5, <1>6, <1>7

LEMMA MeetsOn ==
    ASSUME NEW a \in Text, NEW b \in Text, NEW c \in Text, NEW lost, NEW first,
           Meets(a, b, lost, first), Meets(a \o b, c, lost, first)
    PROVE  Meets(a, b \o c, lost, first)
<1>1. CASE b = <<>>
  <2>1. b \o c = c /\ a \o b = a
    BY <1>1, EndsOfBoth
  <2>2. QED
    BY <2>1
<1>2. CASE b # <<>>
  <2>1. At(b \o c, 1) = At(b, 1)
    BY <1>2, EndsOfBoth
  <2>2. QED
    BY <2>1 DEF Meets
<1>3. QED
  BY <1>1, <1>2

\* Nothing stands anywhere, and anything may stand behind it that has no space of
\* its own.
LEMMA NothingMeets ==
    ASSUME NEW lost, NEW first, NoChar \notin first
    PROVE  /\ \A a : Meets(a, <<>>, lost, first)
           /\ \A b : At(b, 1) # " " => Meets(<<>>, b, lost, first)
           /\ Spaced(<<>>, lost)
<1>1. At(<<>>, 1) = NoChar /\ EndChar(<<>>) = NoChar /\ Len(<<>>) = 0
  BY EmptyText, AtFirst
<1>2. NoChar # " " /\ NoChar \notin Letters \cup Punct
  BY Classes
<1>3. 1..0 = {}
  OBVIOUS
<1>4. QED
  BY <1>1, <1>2, <1>3 DEF Meets, Spaced

\* Capitalized changes letters for letters.
Alike(s, t) ==
    /\ s \in Text /\ Len(s) = Len(t)
    /\ \A i \in 1..Len(t) : s[i] = t[i] \/ (s[i] \in Letters /\ t[i] \in Letters)

LEMMA CapitalizedIs ==
    ASSUME NEW t \in Text
    PROVE  Alike(Capitalized(t), t)
<1> DEFINE r == Capitalized(t)
<1>1. DOMAIN t = 1..Len(t) /\ Len(t) \in Nat /\ \A i \in 1..Len(t) : t[i] \in Chars
  BY AtFirst
<1>2. r = [i \in 1..Len(t) |-> r[i]] /\ \A i \in 1..Len(t) : r[i] \in Chars
  BY <1>1, CharsHere DEF Capitalized
<1>3. \A i \in 1..Len(t) : r[i] = t[i] \/ (r[i] = "A" /\ t[i] \in Letters)
  BY <1>1 DEF Capitalized
<1> HIDE DEF r
<1>4. r \in Text /\ Len(r) = Len(t)
  BY <1>1, <1>2, Mapped DEF Text
<1>5. "A" \in Letters
  BY DEF Letters
<1>6. QED
  BY <1>3, <1>4, <1>5 DEF Alike, r

\* What is formatted may stand behind what the tail ends.
LEMMA FormatFits ==
    ASSUME NEW f, f.tail \in Text, NEW t \in Text
    PROVE  LET x == FormatDelta(f, t) IN
           /\ \A lost : Spaced(x, lost)
           /\ EndChar(x) \notin Blank
           /\ \A lost : Meets(f.tail, x, lost, Letters)
           /\ (~f.hasOutput /\ At(t, 1) \in Letters \cup Blank \cup {NoChar})
                  => \A lost : Meets(f.tail, x, lost, Solid)
<1> DEFINE text == CleanText(t, ~f.hasOutput)
           apart == NeedsSeparator(f, text, t)
           spaced == IF apart THEN <<" ">> \o text ELSE text
           x == FormatDelta(f, t)
<1>1. Tight(text) /\ (At(t, 1) \in Letters => At(text, 1) \in Letters)
  BY CleanIsTight
<1>2. text \in Text
  BY <1>1 DEF Tight
<1>3. CASE text = <<>>
  <2>1. x = <<>>
    BY <1>3 DEF FormatDelta
  <2>2. EndChar(<<>>) \notin Blank /\ NoChar \notin Solid /\ NoChar \notin Letters
    BY EmptyText, AtFirst, Classes DEF Solid
  <2> HIDE DEF x
  <2>3. QED
    BY <2>1, <2>2, NothingMeets DEF x
<1>4. CASE text # <<>>
  <2>0. x = Capitalized(spaced) \/ x = spaced
    BY <1>4 DEF FormatDelta
  <2>1. /\ apart => EndChar(f.tail) \in Solid
        /\ ~apart => \/ EndChar(f.tail) \notin Solid
                     \/ /\ At(t, 1) \notin Blank
                        /\ f.hasOutput \/ At(text, 1) \in Punct \cup Closers
                        /\ ~(At(text, 1) \in Letters /\ EndChar(f.tail) \in Letters \cup Punct)
    <3>1. f.tail # <<>> /\ EndChar(f.tail) \notin Blank <=> EndChar(f.tail) \in Solid
      <4>1. f.tail # <<>> => EndChar(f.tail) \in Chars
        BY AtFirst
      <4>2. f.tail = <<>> => EndChar(f.tail) \notin Chars
        BY AtFirst, Classes
      <4>3. QED
        BY <4>1, <4>2 DEF Solid
    <3>2. QED
      BY <3>1 DEF NeedsSeparator, JoinsWords
  <2>2. At(text, 1) \in Solid
    <3>1. At(text, 1) \in Chars
      BY <1>2, <1>4, AtFirst
    <3>2. QED
      BY <1>1, <3>1 DEF Tight, Solid
  <2> HIDE DEF text, apart, x
  <2>3. \A lost : Spaced(text, lost)
    BY <1>1, Classes DEF Tight, NoWordAfter, NoTwoBlanks, Spaced
  \* What is typed, capitals aside.
  <2>4. /\ spaced \in Text /\ spaced # <<>> /\ EndChar(spaced) \notin Blank
        /\ \A lost : Spaced(spaced, lost)
        /\ apart => At(spaced, 1) = " "
        /\ ~apart => spaced = text
    <3>1. CASE ~apart
      BY <1>1, <1>2, <1>4, <2>3, <3>1 DEF Tight
    <3>2. CASE apart
      <4> DEFINE one == <<" ">>
      <4>1. one \in Text /\ one # <<>> /\ Len(one) = 1 /\ one[1] = " "
        BY CharsHere, ShortTexts DEF Text
      <4> HIDE DEF one
      <4>2. At(one, 1) = " " /\ EndChar(one) = " "
        BY <4>1, AtFirst
      <4>3. one \o text \in Text /\ At(one \o text, 1) = " " /\ EndChar(one \o text) = EndChar(text)
        BY <1>2, <1>4, <4>1, <4>2, EndsOfBoth
      <4>4. one \o text # <<>>
        <5>1. At(<<>>, 1) # " "
          BY EmptyText, AtFirst, Classes
        <5>2. QED
          BY <4>3, <5>1
      <4>5. ASSUME NEW lost PROVE Spaced(one \o text, lost)
        <5>1. Spaced(one, lost)
          <6>1. \A n \in 1..1 : n + 1 \notin 1..1
            OBVIOUS
          <6>2. QED
            BY <4>1, <6>1 DEF Spaced
        <5>2. Meets(one, text, lost, Letters)
          BY <2>2, <4>2, Classes DEF Meets, Solid
        <5>3. QED
          BY <1>2, <2>3, <4>1, <5>1, <5>2, SpacedJoins
      <4>6. spaced = one \o text
        BY <3>2 DEF one
      <4>7. EndChar(text) \notin Blank
        BY <1>1 DEF Tight
      <4> HIDE DEF spaced
      <4>8. QED
        BY <3>2, <4>3, <4>4, <4>5, <4>6, <4>7
    <3>3. QED
      BY <3>1, <3>2
  <2> HIDE DEF spaced
  <2>5. Alike(x, spaced)
    <3>1. Alike(spaced, spaced)
      BY <2>4 DEF Alike
    <3>2. QED
      BY <2>0, <2>4, <3>1, CapitalizedIs
  <2>6. x \in Text /\ Len(x) # 0 /\ Len(spaced) # 0 /\ Len(x) = Len(spaced)
    BY <2>4, <2>5, AtFirst DEF Alike
  <2>7. /\ At(x, 1) = At(spaced, 1) \/ (At(x, 1) \in Letters /\ At(spaced, 1) \in Letters)
        /\ EndChar(x) = EndChar(spaced) \/ (EndChar(x) \in Letters /\ EndChar(spaced) \in Letters)
    <3>1. At(x, 1) = x[1] /\ EndChar(x) = x[Len(x)] /\ 1 \in 1..Len(x) /\ Len(x) \in 1..Len(x)
      BY <2>6, AtFirst
    <3>2. At(spaced, 1) = spaced[1] /\ EndChar(spaced) = spaced[Len(spaced)]
      BY <2>4, <2>6, AtFirst
    <3>3. QED
      BY <2>5, <2>6, <3>1, <3>2 DEF Alike
  <2>8. EndChar(x) \notin Blank
    BY <2>4, <2>7, Classes
  <2>9. ASSUME NEW lost PROVE Spaced(x, lost)
    <3>1. SUFFICES ASSUME NEW n \in 1..Len(x), n + 1 \in 1..Len(x)
                   PROVE  /\ x[n + 1] = " " => x[n] \notin Blank
                          /\ (lost = {} /\ x[n] \in Punct) => x[n + 1] \notin Letters
      BY DEF Spaced
    <3>2. n \in 1..Len(spaced) /\ n + 1 \in 1..Len(spaced)
      BY <2>6, <3>1
    <3>3. /\ x[n] = spaced[n] \/ (x[n] \in Letters /\ spaced[n] \in Letters)
          /\ x[n + 1] = spaced[n + 1] \/ (x[n + 1] \in Letters /\ spaced[n + 1] \in Letters)
      BY <2>5, <3>2 DEF Alike
    <3>4. /\ spaced[n + 1] = " " => spaced[n] \notin Blank
          /\ (lost = {} /\ spaced[n] \in Punct) => spaced[n + 1] \notin Letters
      BY <2>4, <3>2 DEF Spaced
    <3>5. QED
      BY <3>3, <3>4, Classes
  <2>10. ASSUME NEW lost PROVE Meets(f.tail, x, lost, Letters)
    <3>1. CASE apart
      BY <2>1, <2>4, <2>7, <3>1, Classes DEF Meets
    <3>2. CASE ~apart
      <4>1. At(x, 1) = At(text, 1) \/ (At(x, 1) \in Letters /\ At(text, 1) \in Letters)
        BY <2>4, <2>7, <3>2
      <4>2. At(x, 1) # " "
        BY <2>2, <4>1, Classes DEF Solid
      <4>3. At(x, 1) \in Letters => EndChar(f.tail) \notin Letters \cup Punct
        <5>1. Letters \cup Punct \subseteq Solid
          BY Classes DEF Solid, Chars
        <5>2. At(x, 1) \in Letters => At(text, 1) \in Letters
          BY <4>1
        <5>3. QED
          BY <2>1, <3>2, <5>1, <5>2
      <4>4. QED
        BY <4>2, <4>3 DEF Meets
    <3>3. QED
      BY <3>1, <3>2
  <2>11. ASSUME ~f.hasOutput, At(t, 1) \in Letters \cup Blank \cup {NoChar}, NEW lost
         PROVE  Meets(f.tail, x, lost, Solid)
    <3>1. CASE apart
      BY <2>1, <2>4, <2>7, <3>1, Classes DEF Meets, Solid
    <3>2. CASE ~apart
      <4>1. At(x, 1) # " "
        <5>1. At(x, 1) = At(text, 1) \/ At(x, 1) \in Letters
          BY <2>4, <2>7, <3>2
        <5>2. QED
          BY <2>2, <5>1, Classes DEF Solid
      <4>2. At(t, 1) # NoChar
        <5>1. SUFFICES ASSUME At(t, 1) = NoChar PROVE FALSE
          OBVIOUS
        <5>2. t = <<>>
          BY <5>1, AtFirst, Classes
        <5>3. x = <<>>
          BY <5>2, FormatNothing DEF x
        <5>4. QED
          BY <2>6, <5>3, AtFirst, EmptyText
      <4>3. EndChar(f.tail) \notin Solid
        BY <1>1, <2>1, <2>11, <3>2, <4>2, Classes DEF text
      <4>4. EndChar(f.tail) \notin Letters \cup Punct
        BY <4>3, Classes DEF Solid, Chars
      <4>5. QED
        BY <4>1, <4>4 DEF Meets
    <3>3. QED
      BY <3>1, <3>2
  <2>12. QED
    BY <2>8, <2>9, <2>10, <2>11 DEF x
<1>5. QED
  BY <1>3, <1>4

\* The formatter remembers the end of what it is given.
LEMMA EndOfLast ==
    ASSUME NEW t \in Text
    PROVE  EndChar(LastChars(t)) = EndChar(t) /\ LastChars(t) \in Text
<1> DEFINE q == LastChars(t)
<1>1. q \in Text /\ (t # <<>> => q # <<>>)
  BY LastCharsAre
<1>2. PICK p \in Text : t = p \o q
  BY LastCharsAre
<1> HIDE DEF q
<1>3. CASE t = <<>>
  <2>1. q = <<>>
    BY <1>3, ReseedNone DEF q
  <2>2. QED
    BY <1>1, <1>3, <2>1 DEF q
<1>4. CASE t # <<>>
  <2>1. EndChar(p \o q) = EndChar(q)
    BY <1>1, <1>4, EndsOfBoth
  <2>2. QED
    BY <1>1, <1>2, <2>1 DEF q
<1>5. QED
  BY <1>3, <1>4

\* A tail that ends in no blank still vouches for the text, once both have grown.
LEMMA EndGrows ==
    ASSUME NEW s \in Text, NEW tl \in Text, NEW x \in Text,
           EndChar(tl) \in Solid => EndChar(s) \in Solid
    PROVE  EndChar(LastChars(tl \o x)) \in Solid => EndChar(s \o x) \in Solid
<1>1. tl \o x \in Text
  BY EndsOfBoth
<1>2. EndChar(LastChars(tl \o x)) = EndChar(tl \o x)
  BY <1>1, EndOfLast
<1>3. CASE x = <<>>
  <2>1. tl \o x = tl /\ s \o x = s
    BY <1>3, EndsOfBoth
  <2>2. QED
    BY <1>2, <2>1
<1>4. CASE x # <<>>
  <2>1. EndChar(tl \o x) = EndChar(x) /\ EndChar(s \o x) = EndChar(x)
    BY <1>4, EndsOfBoth
  <2>2. QED
    BY <1>2, <2>1
<1>5. QED
  BY <1>3, <1>4

LEMMA SpacedGrows ==
    ASSUME NEW a \in Text, NEW b \in Text, NEW c \in Text, NEW lost, NEW first, Letters \subseteq first,
           Spaced(b, lost), Spaced(c, lost), Meets(a \o b, c, lost, first)
    PROVE  Spaced(b \o c, lost)
<1>1. CASE b = <<>>
  BY <1>1, EndsOfBoth
<1>2. CASE b # <<>>
  <2>1. EndChar(a \o b) = EndChar(b)
    BY <1>2, EndsOfBoth
  <2>2. Meets(b, c, lost, first)
    BY <2>1 DEF Meets
  <2>3. QED
    BY <2>2, SpacedJoins
<1>3. QED
  BY <1>1, <1>2

LEMMA OneIs ==
    ASSUME NEW c \in Chars
    PROVE  /\ <<c>> \in Text /\ <<c>> # <<>> /\ At(<<c>>, 1) = c /\ EndChar(<<c>>) = c
           /\ \A lost : Spaced(<<c>>, lost)
<1> DEFINE one == <<c>>
<1>1. one \in Text /\ one # <<>> /\ Len(one) = 1 /\ one[1] = c
  BY ShortTexts DEF Text
<1> HIDE DEF one
<1>2. At(one, 1) = c /\ EndChar(one) = c
  BY <1>1, AtFirst
<1>3. \A n \in 1..1 : n + 1 \notin 1..1
  OBVIOUS
<1>4. \A lost : Spaced(one, lost)
  BY <1>1, <1>3 DEF Spaced
<1>5. QED
  BY <1>1, <1>2, <1>4 DEF one

\* The trailer, behind any text that ends like the formatter's tail.
LEMMA TrailerMeets ==
    ASSUME NEW f, f.tail \in Text, NEW a \in Text, NEW lost, NEW first,
           first \in {Letters, Solid},
           EndChar(f.tail) \in Solid => EndChar(a) \in Solid
    PROVE  Spaced(EndUtterance(f), lost) /\ Meets(a, EndUtterance(f), lost, first)
<1>1. CASE EndUtterance(f) = <<>>
  <2>1. NoChar \notin first
    BY Classes DEF Solid
  <2>2. QED
    BY <1>1, <2>1, NothingMeets
<1>2. CASE EndUtterance(f) = <<" ">> /\ f.tail # <<>> /\ EndChar(f.tail) \notin Blank
  <2>1. EndChar(f.tail) \in Solid
    BY <1>2, AtFirst DEF Solid
  <2>2. EndChar(a) \in Solid
    BY <2>1
  <2>3. At(<<" ">>, 1) = " " /\ Spaced(<<" ">>, lost)
    BY CharsHere, OneIs
  <2>4. " " \notin first
    BY Classes DEF Solid
  <2>5. Meets(a, <<" ">>, lost, first)
    BY <2>2, <2>3, <2>4 DEF Meets
  <2>6. QED
    BY <1>2, <2>3, <2>5
<1>3. QED
  BY <1>1, <1>2 DEF EndUtterance

LEMMA FirstIs ==
    /\ \A first \in {Letters, Solid} : Letters \subseteq first /\ NoChar \notin first
    /\ Letters \subseteq Solid
  BY Classes DEF Solid

\* How the three parts of the screen are spaced.
Spacing(st, pr, re, lost, first) ==
    /\ Spaced(st, lost) /\ Spaced(pr, lost) /\ Spaced(re, lost)
    /\ Meets(<<>>, st, lost, first) /\ Meets(st, pr, lost, first) /\ Meets(st \o pr, re, lost, first)

\* The region grows at its end.
LEMMA RegionGrows ==
    ASSUME NEW st \in Text, NEW pr \in Text, NEW re \in Text, NEW x \in Text, NEW lost,
           NEW first \in {Letters, Solid},
           Spacing(st, pr, re, lost, first), Spaced(x, lost), Meets((st \o pr) \o re, x, lost, first)
    PROVE  Spacing(st, pr, re \o x, lost, first)
<1> DEFINE s == st \o pr
<1>1. s \in Text
  BY EndsOfBoth
<1>2. Letters \subseteq first /\ Meets(s, re, lost, first) /\ Spaced(re, lost) /\ Meets(s \o re, x, lost, first)
  BY FirstIs DEF Spacing
<1> HIDE DEF s
<1>3. Spaced(re \o x, lost)
  BY <1>1, <1>2, SpacedGrows
<1>4. Meets(s, re \o x, lost, first)
  BY <1>1, <1>2, MeetsOn
<1>5. QED
  BY <1>3, <1>4 DEF Spacing, s

LEMMA SpacingWeaker ==
    ASSUME NEW st, NEW pr, NEW re, NEW lost, NEW more, NEW first, more = {} => lost = {},
           Spacing(st, pr, re, lost, first)
    PROVE  Spacing(st, pr, re, more, first)
<1>1. \A t : Spaced(t, lost) => Spaced(t, more)
  BY DEF Spaced
<1>2. \A a, b : Meets(a, b, lost, first) => Meets(a, b, more, first)
  BY DEF Meets
<1>3. QED
  BY <1>1, <1>2 DEF Spacing

\* A part of a text is spaced as it was.
LEMMA PartSpaced ==
    ASSUME NEW t \in Text, NEW m \in Int, NEW n \in Int, 1 <= m, n <= Len(t), NEW lost, Spaced(t, lost)
    PROVE  /\ SubSeq(t, m, n) \in Text /\ Spaced(SubSeq(t, m, n), lost)
           /\ m <= n => /\ At(SubSeq(t, m, n), 1) = t[m] /\ EndChar(SubSeq(t, m, n)) = t[n]
                        /\ SubSeq(t, m, n) # <<>>
           /\ ~(m <= n) => SubSeq(t, m, n) = <<>>
<1> DEFINE r == SubSeq(t, m, n)
           l == Len(r)
<1>1. r \in Text /\ Len(t) \in Nat /\ \A i \in 1..Len(t) : t[i] \in Chars
  BY PartOfText, AtFirst
<1>2. l = (IF m <= n THEN n - m + 1 ELSE 0) /\ \A i \in 1..(n - m + 1) : r[i] = t[m + i - 1]
  <2>1. \A i \in m..n : t[i] \in Chars
    BY <1>1
  <2>2. QED
    BY <2>1, SubSeqProperties
<1> HIDE DEF r
<1>3. l \in Nat /\ (m <= n => l = n - m + 1) /\ (l # 0 <=> m <= n) /\ (l # 0 => 1 \in 1..l /\ l \in 1..l)
  <2> HIDE DEF l
  <2>1. QED
    BY <1>2
<1>4. \A i \in 1..l : r[i] = t[m + i - 1]
  <2> HIDE DEF l
  <2>1. QED
    BY <1>2, <1>3
<1>5. ASSUME NEW i \in 1..l, i + 1 \in 1..l
      PROVE  /\ r[i + 1] = " " => r[i] \notin Blank
             /\ (lost = {} /\ r[i] \in Punct) => r[i + 1] \notin Letters
  <2> DEFINE j == m + i - 1
             k == Len(t)
  <2>1. j \in 1..k /\ j + 1 \in 1..k /\ m + (i + 1) - 1 = j + 1
    <3>1. k \in Nat /\ n <= k
      BY <1>1
    <3> HIDE DEF k, l
    <3>2. QED
      BY <1>3, <1>5, <3>1
  <2>2. r[i] = t[j] /\ r[i + 1] = t[j + 1]
    <3> HIDE DEF l
    <3>1. r[i] = t[j] /\ r[i + 1] = t[m + (i + 1) - 1]
      BY <1>4, <1>5
    <3> HIDE DEF j
    <3>2. QED
      BY <2>1, <3>1
  <2> HIDE DEF j
  <2>3. QED
    BY <2>1, <2>2 DEF Spaced
<1>6. Spaced(r, lost)
  BY <1>5 DEF Spaced
<1>7. ASSUME m <= n PROVE At(r, 1) = t[m] /\ EndChar(r) = t[n] /\ r # <<>>
  <2>1. l # 0 /\ 1 \in 1..l /\ l \in 1..l /\ m + 1 - 1 = m /\ m + l - 1 = n
    <3> HIDE DEF l
    <3>1. QED
      BY <1>3, <1>7
  <2>2. At(r, 1) = r[1] /\ EndChar(r) = r[l] /\ r # <<>>
    BY <1>1, <2>1, AtFirst
  <2>3. r[1] = t[m + 1 - 1] /\ r[l] = t[m + l - 1]
    BY <1>4, <2>1
  <2>4. QED
    BY <2>1, <2>2, <2>3
<1>8. ASSUME ~(m <= n) PROVE r = <<>>
  BY <1>1, <1>3, <1>8, AtFirst
<1>9. QED
  BY <1>1, <1>6, <1>7, <1>8 DEF r

\* The head of a text: its blanks, or nothing if it starts with something else.
LEMMA LeadSpaced ==
    ASSUME NEW t \in Text, NEW lost, Spaced(t, lost)
    PROVE  /\ Lead(t) \in Text /\ Spaced(Lead(t), lost)
           /\ Lead(t) # <<>> => At(Lead(t), 1) = At(t, 1) /\ EndChar(Lead(t)) \in Blank
           /\ Lead(t) = <<>> => Len(Lead(t)) = 0 /\ At(t, 1) \notin Blank
           /\ At(t, Len(Lead(t)) + 1) \notin Blank /\ Len(Lead(t)) \in 0..Len(t)
<1> DEFINE k == Len(t)
<1>1. PICK n \in 0..k : /\ Lead(t) = SubSeq(t, 1, n) /\ Lead(t) \in Text /\ Len(Lead(t)) = n
                        /\ AllIn(t, 1, n, Blank) /\ At(t, n + 1) \notin Blank
  BY LeadIs
<1>2. /\ 1 \in Int /\ n \in Int /\ n <= k /\ 1 <= 1 /\ (1 <= n => n \in 1..n /\ k # 0)
      /\ (n = 0 => n + 1 = 1) /\ (~(1 <= n) => n = 0) /\ (n = 0 => ~(1 <= n))
  <2>1. k \in Nat
    BY AtFirst
  <2> HIDE DEF k
  <2>2. QED
    BY <2>1
<1>3. Spaced(SubSeq(t, 1, n), lost)
  BY <1>2, PartSpaced
<1>4. ASSUME 1 <= n PROVE Lead(t) # <<>> /\ At(Lead(t), 1) = At(t, 1) /\ EndChar(Lead(t)) \in Blank
  <2>1. SubSeq(t, 1, n) # <<>> /\ At(SubSeq(t, 1, n), 1) = t[1] /\ EndChar(SubSeq(t, 1, n)) = t[n]
    BY <1>2, <1>4, PartSpaced
  <2>2. t[n] \in Blank
    BY <1>1, <1>2, <1>4 DEF AllIn
  <2>3. At(t, 1) = t[1]
    BY <1>2, <1>4, AtFirst
  <2>4. QED
    BY <1>1, <2>1, <2>2, <2>3
<1>5. ASSUME n = 0 PROVE Lead(t) = <<>> /\ Len(Lead(t)) = 0 /\ At(t, 1) \notin Blank
  <2>1. Len(Lead(t)) = 0 /\ At(t, 1) \notin Blank
    BY <1>1, <1>2, <1>5
  <2>2. QED
    BY <1>1, <2>1, AtFirst
<1>6. QED
  BY <1>1, <1>2, <1>3, <1>4, <1>5

-----------------------------------------------------------------------------
(* The spacing of the screen.                                              *)

\* A decode begins with a space, a word or a mark, as Whisper's words do; which
\* marks come first is Said's business.
WordsFirst == \A token \in Tokens : At(token, 1) \notin Closers \cup {"("}

\* The replies are spaced as text is, and stripped.
SpacedReplies ==
    \A reply \in Replies : At(reply, 1) \notin Blank /\ NoWordAfter(reply, Punct) /\ NoTwoBlanks(reply)

\* With what a text must not start right behind a word: with a letter, or, where
\* a reply may take its place, with anything but a blank.
First == IF typing = "correcting" THEN Solid ELSE Letters

\* With FormatterInv, this is inductive: the parts of the screen are spaced and
\* meet; a tail that ends in no blank is right even when the formatter lost sight
\* of the screen; and a correcting utterance is formatted as the first output it
\* is, from something that begins with a space or a word.
SpaceInv ==
    /\ Spacing(settled, previous, region, astray, First)
    /\ EndChar(tail) \in Solid => EndChar(Known) \in Solid
    /\ mayFollow => typing = "correcting"
    /\ (speaking /\ typing = "correcting") => ~hasOutput /\ At(raw, 1) \in Letters \cup Blank \cup {NoChar}

LEMMA FirstHere ==
    /\ First \in {Letters, Solid} /\ Letters \subseteq First /\ NoChar \notin First
    /\ typing = "correcting" => First = Solid
    /\ typing # "correcting" => First = Letters
  BY FirstIs DEF First

LEMMA InitSpace == Init => SpaceInv
<1> SUFFICES ASSUME Init PROVE SpaceInv
  OBVIOUS
<1>1. settled = <<>> /\ previous = <<>> /\ region = <<>> /\ tail = <<>> /\ ~mayFollow /\ ~speaking
  BY DEF Init
<1>2. <<>> \o <<>> = <<>>
  BY EmptyText, EndsOfBoth
<1>3. At(<<>>, 1) # " " /\ EndChar(<<>>) \notin Solid
  BY EmptyText, AtFirst, Classes DEF Solid
<1>4. Spacing(settled, previous, region, astray, First)
  BY <1>1, <1>2, FirstHere, NothingMeets DEF Spacing
<1>5. QED
  BY <1>1, <1>3, <1>4 DEF SpaceInv

\* What meets the formatter's tail meets the screen that it knows.
LEMMA KnownMeets ==
    ASSUME FormatterInv, SpaceInv, NEW x, NEW first, Meets(tail, x, astray, first)
    PROVE  Meets(Known, x, astray, first) /\ Known \in Text
<1>1. tail \in Text /\ Known \in Text
  BY EndsOfBoth DEF FormatterInv, TextTypes, Known, Screen
<1>2. EndChar(tail) \in Solid => EndChar(Known) \in Solid
  BY DEF SpaceInv
<1>3. ASSUME astray = {}, EndChar(tail) \notin Letters \cup Punct
      PROVE  EndChar(Known) \notin Letters \cup Punct
  <2>1. EndsIn(Known, tail)
    BY <1>3 DEF FormatterInv
  <2>2. CASE tail = <<>>
    <3>1. EndChar(Known) \in Blank \cup {NoChar}
      BY <2>1, <2>2 DEF EndsIn
    <3>2. QED
      BY <3>1, Classes
  <2>3. CASE tail # <<>>
    <3>1. PICK p \in Text : Known = p \o tail
      BY <2>1 DEF EndsIn
    <3>2. EndChar(p \o tail) = EndChar(tail)
      BY <1>1, <2>3, EndsOfBoth
    <3>3. QED
      BY <1>3, <3>1, <3>2
  <2>4. QED
    BY <2>2, <2>3
<1>4. QED
  BY <1>1, <1>2, <1>3 DEF Meets

LEMMA SpaceStart == FormatterInv /\ SpaceInv /\ StartUtterance => SpaceInv'
<1> SUFFICES ASSUME FormatterInv, SpaceInv, StartUtterance PROVE SpaceInv'
  OBVIOUS
<1>1. /\ settled' = settled \o previous /\ previous' = region /\ region' = <<>> /\ raw' = <<>>
      /\ tail' = tail /\ astray' = astray /\ ~mayFollow' /\ ~hasOutput' /\ First' = First
  BY DEF StartUtterance, First
<1>2. settled \in Text /\ previous \in Text /\ region \in Text /\ settled \o previous \in Text
  BY EndsOfBoth DEF FormatterInv, TextTypes
<1>3. Spacing(settled, previous, region, astray, First)
  BY DEF SpaceInv
<1>4. Spaced(settled \o previous, astray)
  BY <1>2, <1>3, FirstHere, SpacedJoins DEF Spacing
<1>5. Meets(<<>>, settled \o previous, astray, First)
  <2>1. <<>> \o settled = settled /\ <<>> \in Text
    BY <1>2, EmptyText, EndsOfBoth
  <2>2. Meets(<<>>, settled, astray, First) /\ Meets(<<>> \o settled, previous, astray, First)
    BY <1>3, <2>1 DEF Spacing
  <2>3. QED
    BY <1>2, <2>1, <2>2, MeetsOn
<1>6. Spacing(settled \o previous, region, <<>>, astray, First)
  BY <1>3, <1>4, <1>5, FirstHere, NothingMeets DEF Spacing
<1>7. Known' = Known
  <2>1. (settled \o previous) \o region \in Text
    BY <1>2, EndsOfBoth
  <2>2. Known = (settled \o previous) \o region
    BY DEF Known, Screen, StartUtterance
  <2>3. ((settled \o previous) \o region) \o <<>> = (settled \o previous) \o region
    BY <2>1, EmptyText, EndsOfBoth
  <2>4. Known' = (settled \o previous) \o region
    BY <1>1, <2>3 DEF Known, Screen
  <2>5. QED
    BY <2>2, <2>4
<1>8. At(<<>>, 1) = NoChar
  BY EmptyText, AtFirst
<1>9. QED
  BY <1>1, <1>6, <1>7, <1>8 DEF SpaceInv

\* Commit mode types x at the end of the screen, and the formatter advances.
LEMMA SpaceCommits ==
    ASSUME FormatterInv, SpaceInv, speaking, typing = "commit", NEW x \in Text,
           Spaced(x, astray), Meets(tail, x, astray, Letters),
           region' = region \o x, tail' = LastChars(tail \o x), mayFollow' = mayFollow,
           UNCHANGED <<typing, settled, previous, astray>>
    PROVE  SpaceInv'
<1>1. settled \in Text /\ previous \in Text /\ region \in Text /\ tail \in Text
  BY DEF FormatterInv, TextTypes
<1>2. Known = Screen /\ Known' = Screen' /\ First' = Letters /\ First = Letters
  BY DEF Known, First
<1>3. Meets(Screen, x, astray, Letters) /\ Screen \in Text
  BY <1>2, KnownMeets
<1>4. Spacing(settled, previous, region, astray, Letters)
  BY <1>2 DEF SpaceInv
<1>5. Spacing(settled, previous, region \o x, astray, Letters)
  BY <1>1, <1>3, <1>4, RegionGrows DEF Screen
<1>6. Screen' = Screen \o x
  <2> DEFINE s == settled \o previous
  <2>1. s \in Seq(Chars) /\ region \in Seq(Chars) /\ x \in Seq(Chars)
    BY <1>1, EndsOfBoth DEF Text
  <2> HIDE DEF s
  <2>2. s \o (region \o x) = (s \o region) \o x
    BY <2>1, ConcatAssociative
  <2>3. QED
    BY <2>2 DEF Screen, s
<1>7. EndChar(tail') \in Solid => EndChar(Known') \in Solid
  <2>1. EndChar(tail) \in Solid => EndChar(Screen) \in Solid
    BY <1>2 DEF SpaceInv
  <2>2. EndChar(LastChars(tail \o x)) \in Solid => EndChar(Screen \o x) \in Solid
    BY <1>1, <1>3, <2>1, EndGrows
  <2>3. QED
    BY <1>2, <1>6, <2>2
<1>8. mayFollow' => typing' = "correcting"
  BY DEF SpaceInv
<1>9. QED
  BY <1>2, <1>5, <1>7, <1>8 DEF SpaceInv

LEMMA SpaceCommit ==
    ASSUME FormatterInv, SpaceInv, NEW token \in Tokens, CommitWords(token)
    PROVE  SpaceInv'
<1> DEFINE x == FormatDelta(State, token)
<1>1. TextTypes /\ token \in Text
  BY SaidType DEF FormatterInv, CommitWords
<1>2. x \in Text /\ Spaced(x, astray) /\ Meets(tail, x, astray, Letters)
  <2>1. State.tail \in Text /\ State.tail = tail
    BY <1>1, StateIs DEF TextTypes
  <2>2. x \in Text
    BY <1>1, <2>1, FormatType
  <2>3. Spaced(x, astray) /\ Meets(State.tail, x, astray, Letters)
    BY <1>1, <2>1, FormatFits
  <2> HIDE DEF x
  <2>4. QED
    BY <2>1, <2>2, <2>3
<1>3. region' = region \o x /\ tail' = LastChars(tail \o x)
  BY StateIs, AdvancedIs DEF CommitWords, Become
<1> HIDE DEF x
<1>4. QED
  BY <1>2, <1>3, SpaceCommits DEF CommitWords

LEMMA SpaceFinalizeCommit ==
    ASSUME FormatterInv, SpaceInv, FinalizeCommit
    PROVE  SpaceInv'
<1> DEFINE x == EndUtterance(State)
<1>1. tail \in Text /\ x \in Text /\ State.tail = tail
  BY TrailerIs, StateIs DEF FormatterInv, TextTypes
<1>2. Spaced(x, astray) /\ Meets(tail, x, astray, Letters)
  BY <1>1, TrailerMeets
<1>3. region' = region \o x /\ tail' = LastChars(tail \o x)
  BY StateIs, AdvancedIs DEF FinalizeCommit, Become
<1> HIDE DEF x
<1>4. QED
  BY <1>1, <1>2, <1>3, SpaceCommits DEF FinalizeCommit

\* What an utterance says begins with a space or a word.
LEMMA SaidFirst ==
    ASSUME WordsFirst, FormatterInv, NEW token \in Tokens, Said(token),
           At(raw, 1) \in Letters \cup Blank \cup {NoChar}
    PROVE  At(raw', 1) \in Letters \cup Blank \cup {NoChar}
<1>1. raw \in Text /\ token \in Text /\ raw' = raw \o token
  BY SaidType DEF FormatterInv, TextTypes, Said
<1>2. CASE raw # <<>>
  BY <1>1, <1>2, EndsOfBoth
<1>3. CASE raw = <<>>
  <2>1. raw' = token
    BY <1>1, <1>3, EndsOfBoth
  <2>2. EndChar(raw) = NoChar
    BY <1>1, <1>3, AtFirst
  <2>3. At(token, 1) \notin Punct
    BY <2>2, Classes DEF Said
  <2>4. At(token, 1) \notin Closers \cup {"("}
    BY DEF WordsFirst
  <2>5. At(token, 1) \in Chars \cup {NoChar}
    BY <1>1, AtFirst
  <2>6. QED
    BY <2>1, <2>3, <2>4, <2>5 DEF Chars
<1>4. QED
  BY <1>2, <1>3

LEMMA SpaceRender ==
    ASSUME WordsFirst, FormatterInv, SpaceInv, NEW token \in Tokens, Render(token)
    PROVE  SpaceInv'
<1> DEFINE x == FormatDelta(State, raw')
<1>1. TextTypes /\ raw' \in Text
  BY SaidType DEF FormatterInv, Render
<1>2. /\ speaking /\ typing = "correcting" /\ ~hasOutput /\ region' = x
      /\ UNCHANGED <<typing, tail, hasOutput, settled, previous, speaking, mayFollow, astray>>
  BY DEF Render, SpaceInv
<1>3. At(raw', 1) \in Letters \cup Blank \cup {NoChar}
  BY SaidFirst DEF Render, SpaceInv
<1>4. Spaced(x, astray) /\ Meets(tail, x, astray, Solid)
  <2>1. State.tail \in Text /\ State.tail = tail /\ ~State.hasOutput
    BY <1>1, <1>2, StateIs DEF TextTypes
  <2>2. Spaced(x, astray) /\ Meets(State.tail, x, astray, Solid)
    BY <1>1, <1>3, <2>1, FormatFits
  <2> HIDE DEF x
  <2>3. QED
    BY <2>1, <2>2
<1> HIDE DEF x
<1>5. Meets(settled \o previous, x, astray, Solid)
  <2>1. Known = settled \o previous
    BY <1>2 DEF Known
  <2>2. QED
    BY <1>4, <2>1, KnownMeets
<1>6. First = Solid /\ First' = Solid /\ Known' = Known
  BY <1>2 DEF First, Known
<1>7. Spacing(settled, previous, x, astray, Solid)
  BY <1>4, <1>5, <1>6 DEF SpaceInv, Spacing
<1>8. QED
  BY <1>2, <1>3, <1>6, <1>7 DEF SpaceInv

\* A correcting utterance ends: its region x stays, with the trailer y behind it.
LEMMA SpaceFinalizeCorrecting ==
    ASSUME FormatterInv, SpaceInv, FinalizeCorrecting
    PROVE  SpaceInv'
<1> DEFINE x == FormatDelta(State, raw)
           after == Advanced(State, x)
           y == EndUtterance(after)
           s == settled \o previous
<1>1. /\ settled \in Text /\ previous \in Text /\ region \in Text /\ tail \in Text /\ s \in Text
      /\ speaking /\ typing = "correcting" /\ region = x /\ x \in Text
  BY EndsOfBoth DEF FormatterInv, TextTypes, FinalizeCorrecting
<1>2. y \in Text /\ after.tail = LastChars(tail \o x)
  BY TrailerIs, AdvancedIs, StateIs
<1>3. /\ region' = x \o y /\ tail' = LastChars(LastChars(tail \o x) \o y)
      /\ settled' = settled /\ previous' = previous /\ astray' = astray /\ typing' = typing /\ ~speaking'
  BY StateIs, AdvancedIs DEF FinalizeCorrecting, Become
<1> HIDE DEF x, after, y
<1>4. tail \o x \in Text /\ LastChars(tail \o x) \in Text /\ s \o x \in Text
  BY <1>1, EndsOfBoth, EndOfLast
<1>5. EndChar(LastChars(tail \o x)) \in Solid => EndChar(s \o x) \in Solid
  <2>1. EndChar(tail) \in Solid => EndChar(s) \in Solid
    BY <1>1 DEF SpaceInv, Known
  <2> HIDE DEF s
  <2>2. QED
    BY <1>1, <2>1, EndGrows
<1>6. EndChar(tail') \in Solid => EndChar((s \o x) \o y) \in Solid
  <2> DEFINE a == s \o x
             b == LastChars(tail \o x)
  <2>1. a \in Text /\ b \in Text /\ y \in Text /\ (EndChar(b) \in Solid => EndChar(a) \in Solid)
    BY <1>2, <1>4, <1>5
  <2> HIDE DEF a, b
  <2>2. EndChar(LastChars(b \o y)) \in Solid => EndChar(a \o y) \in Solid
    BY <2>1, EndGrows
  <2>3. QED
    BY <1>3, <2>2 DEF a, b
<1>7. First = Solid /\ First' = Solid
  BY <1>1, <1>3 DEF First
<1>8. Spaced(y, astray) /\ Meets(s \o x, y, astray, Solid)
  <2> DEFINE a == s \o x
  <2>1. a \in Text /\ after.tail \in Text /\ (EndChar(after.tail) \in Solid => EndChar(a) \in Solid)
    BY <1>2, <1>4, <1>5
  <2> HIDE DEF a
  <2>2. Spaced(EndUtterance(after), astray) /\ Meets(a, EndUtterance(after), astray, Solid)
    BY <2>1, TrailerMeets
  <2>3. QED
    BY <2>2 DEF a, y
<1>9. Spacing(settled, previous, x, astray, Solid)
  BY <1>1, <1>7 DEF SpaceInv
<1>10. Spacing(settled, previous, x \o y, astray, Solid)
  BY <1>1, <1>2, <1>8, <1>9, RegionGrows DEF s
<1>11. Known' = (s \o x) \o y
  <2>1. Known' = s \o (x \o y)
    BY <1>3 DEF Known, Screen, s
  <2>2. s \in Seq(Chars) /\ x \in Seq(Chars) /\ y \in Seq(Chars)
    BY <1>1, <1>2 DEF Text
  <2> HIDE DEF s
  <2>3. s \o (x \o y) = (s \o x) \o y
    BY <2>2, ConcatAssociative
  <2>4. QED
    BY <2>1, <2>3
<1>12. QED
  BY <1>1, <1>3, <1>6, <1>7, <1>10, <1>11 DEF SpaceInv

LEMMA SpaceFinalizeFails ==
    ASSUME FormatterInv, SpaceInv, FinalizeFails
    PROVE  SpaceInv'
<1>1. /\ ~speaking' /\ UNCHANGED <<typing, settled, previous, region, mayFollow>> /\ speaking
      /\ astray' = {} => astray = {}
  BY DEF FinalizeFails
<1>2. First' = First
  BY <1>1 DEF First
<1>3. Spacing(settled, previous, region, astray', First)
  BY <1>1, SpacingWeaker DEF SpaceInv
<1>4. EndChar(tail') \in Solid => EndChar(Known') \in Solid
  <2>1. CASE typing = "correcting"
    <3> DEFINE x == FormatDelta(State, raw)
               after == Advanced(State, x)
               y == EndUtterance(after)
               s == settled \o previous
               w == LastChars(tail \o x)
    <3>1. s \in Text /\ tail \in Text /\ region = x /\ x \in Text
      BY <1>1, <2>1, EndsOfBoth DEF FormatterInv, TextTypes
    <3>2. tail' = LastChars(w \o y) /\ w \in Text
      <4>1. tail' = LastChars(w \o y)
        BY <2>1, StateIs, AdvancedIs DEF FinalizeFails, Become
      <4> HIDE DEF x
      <4>2. tail \o x \in Text
        BY <3>1, EndsOfBoth
      <4>3. w \in Text
        BY <4>2, EndOfLast
      <4>4. QED
        BY <4>1, <4>3
    <3>3. y \in {<<>>, <<" ">>} /\ y \in Text
      BY TrailerIs
    <3>4. Known' = s \o x
      BY <1>1, <3>1 DEF Known, Screen
    <3> HIDE DEF x, after, y
    <3>5. EndChar(w) \in Solid => EndChar(s \o x) \in Solid
      <4>1. EndChar(tail) \in Solid => EndChar(s) \in Solid
        BY <1>1, <2>1 DEF SpaceInv, Known
      <4> HIDE DEF s
      <4>2. QED
        BY <3>1, <4>1, EndGrows
    <3> HIDE DEF w, s
    <3>6. w \o y \in Text
      BY <3>2, <3>3, EndsOfBoth
    <3>7. EndChar(tail') = EndChar(w \o y)
      BY <3>2, <3>6, EndOfLast
    <3>8. CASE y = <<>>
      <4>1. w \o y = w
        BY <3>2, <3>3, <3>8, EndsOfBoth
      <4>2. QED
        BY <3>4, <3>5, <3>7, <4>1
    <3>9. CASE y = <<" ">>
      <4>1. EndChar(y) = " " /\ y # <<>>
        BY <3>9, CharsHere, OneIs
      <4>2. EndChar(w \o y) = " "
        BY <3>2, <3>3, <4>1, EndsOfBoth
      <4>3. QED
        BY <3>7, <4>2, Classes DEF Solid
    <3>10. QED
      BY <3>3, <3>8, <3>9
  <2>2. CASE typing # "correcting"
    <3>1. tail' = tail /\ Known' = Known
      BY <1>1, <2>2 DEF FinalizeFails, Known, Screen
    <3>2. QED
      BY <3>1 DEF SpaceInv
  <2>3. QED
    BY <2>1, <2>2
<1>5. QED
  BY <1>1, <1>2, <1>3, <1>4 DEF SpaceInv

LEMMA SpaceFinalizeSkips ==
    ASSUME FormatterInv, SpaceInv, FinalizeSkips
    PROVE  SpaceInv'
<1>1. /\ ~speaking' /\ UNCHANGED <<typing, tail, settled, previous, region, mayFollow>> /\ speaking
      /\ astray' = {} => astray = {}
  BY DEF FinalizeSkips
<1>2. First' = First
  BY <1>1 DEF First
<1>3. Spacing(settled, previous, region, astray', First)
  BY <1>1, SpacingWeaker DEF SpaceInv
<1>4. EndChar(tail') \in Solid => EndChar(Known') \in Solid
  <2>1. CASE typing = "correcting"
    <3> DEFINE s == settled \o previous
    <3>1. s \in Text /\ region \in Text /\ raw \in Text /\ State.tail \in Text
      BY EndsOfBoth, StateIs DEF FormatterInv, TextTypes
    <3>2. EndChar(region) \notin Blank
      <4>1. region = FormatDelta(State, raw)
        BY <1>1, <2>1 DEF FormatterInv
      <4>2. QED
        BY <3>1, <4>1, FormatFits
    <3>3. EndChar(tail) \in Solid => EndChar(s) \in Solid
      BY <1>1, <2>1 DEF SpaceInv, Known
    <3>4. Known' = s \o region
      BY <1>1 DEF Known, Screen
    <3> HIDE DEF s
    <3>5. CASE region = <<>>
      <4>1. s \o region = s
        BY <3>1, <3>5, EndsOfBoth
      <4>2. QED
        BY <1>1, <3>3, <3>4, <4>1
    <3>6. CASE region # <<>>
      <4>1. EndChar(s \o region) = EndChar(region)
        BY <3>1, <3>6, EndsOfBoth
      <4>2. EndChar(region) \in Solid
        BY <3>1, <3>2, <3>6, AtFirst DEF Solid
      <4>3. QED
        BY <3>4, <4>1, <4>2
    <3>7. QED
      BY <3>5, <3>6
  <2>2. CASE typing # "correcting"
    <3>1. tail' = tail /\ Known' = Known
      BY <1>1, <2>2 DEF Known, Screen
    <3>2. QED
      BY <3>1 DEF SpaceInv
  <2>3. QED
    BY <2>1, <2>2
<1>5. QED
  BY <1>1, <1>2, <1>3, <1>4 DEF SpaceInv

\* A command or a reply leaves the region re, spaced and set apart, and a tail
\* that ends in a blank or as the screen does.
LEMMA SpaceFollow ==
    ASSUME FormatterInv, SpaceInv, Follow, astray' = {} => astray = {},
           Spacing(settled', previous', region', astray, Solid),
           EndChar(tail') \in Solid => EndChar(Screen') \in Solid
    PROVE  SpaceInv'
<1>1. ~speaking' /\ ~mayFollow' /\ typing' = typing /\ typing = "correcting"
  BY DEF Follow, SpaceInv
<1>2. First' = Solid /\ Known' = Screen'
  BY <1>1 DEF First, Known
<1>3. Spacing(settled', previous', region', astray', Solid)
  BY SpacingWeaker
<1>4. QED
  BY <1>1, <1>2, <1>3 DEF SpaceInv

LEMMA WhereFollow ==
    ASSUME FormatterInv, SpaceInv, Follow
    PROVE  /\ settled \in Text /\ previous \in Text /\ region \in Text /\ settled \o previous \in Text
           /\ region # <<>> /\ Spacing(settled, previous, region, astray, Solid)
           /\ EndChar(tail) \in Solid => EndChar(Screen) \in Solid
<1>1. typing = "correcting" /\ ~speaking /\ region # <<>>
  BY DEF Follow, SpaceInv, FormatterInv
<1>2. First = Solid /\ Known = Screen
  BY <1>1 DEF First, Known
<1>3. QED
  BY <1>1, <1>2, EndsOfBoth DEF SpaceInv, FormatterInv, TextTypes

LEMMA BlankEnds == EndChar(<<>>) \notin Solid /\ NoChar \notin Solid
  BY EmptyText, AtFirst, Classes DEF Solid

LEMMA SpaceScratch ==
    ASSUME FormatterInv, SpaceInv, Scratch
    PROVE  SpaceInv'
<1>1. /\ Follow /\ settled' = settled /\ previous' = <<>> /\ region' = <<>> /\ tail' = <<>>
      /\ astray' = {} => astray = {}
  BY ReseedNone DEF Scratch, Reseed, Forgotten
<1>2. Spacing(settled, previous, region, astray, Solid)
  BY <1>1, WhereFollow
<1>3. Spacing(settled, <<>>, <<>>, astray, Solid)
  BY <1>2, BlankEnds, NothingMeets DEF Spacing
<1>4. QED
  BY <1>1, <1>3, BlankEnds, SpaceFollow

LEMMA SpaceNewLine ==
    ASSUME FormatterInv, SpaceInv, NewLine
    PROVE  SpaceInv'
<1>1. /\ Follow /\ settled' = settled /\ previous' = previous /\ region' = <<"\n">> /\ tail' = <<>>
      /\ astray' = astray
  BY ReseedNone DEF NewLine, Reseed
<1>2. Spacing(settled, previous, region, astray, Solid)
  BY <1>1, WhereFollow
<1>3. At(<<"\n">>, 1) = "\n" /\ Spaced(<<"\n">>, astray)
  BY CharsHere, OneIs
<1>4. Meets(settled \o previous, <<"\n">>, astray, Solid)
  BY <1>3 DEF Meets, Solid, Blank
<1>5. Spacing(settled, previous, <<"\n">>, astray, Solid)
  BY <1>2, <1>3, <1>4 DEF Spacing
<1>6. QED
  BY <1>1, <1>5, BlankEnds, SpaceFollow

LEMMA SpacePressKey ==
    ASSUME FormatterInv, SpaceInv, PressKey
    PROVE  SpaceInv'
<1>1. /\ Follow /\ settled' = <<>> /\ previous' = <<>> /\ region' = <<>> /\ tail' = <<>>
      /\ astray' = astray
  BY ReseedNone DEF PressKey, Reseed
<1>2. Spacing(<<>>, <<>>, <<>>, astray, Solid)
  BY BlankEnds, NothingMeets DEF Spacing
<1>3. QED
  BY <1>1, <1>2, BlankEnds, SpaceFollow

LEMMA SpaceCopy ==
    ASSUME FormatterInv, SpaceInv, Copy
    PROVE  SpaceInv'
<1>1. /\ Follow /\ settled' = settled /\ previous' = previous /\ region' = <<>>
      /\ tail' = LastChars(previous)
      /\ astray' = {} => astray = {}
  BY DEF Copy, Reseed, Forgotten
<1>2. Spacing(settled, previous, region, astray, Solid) /\ settled \in Text /\ previous \in Text
  BY <1>1, WhereFollow
<1>3. Spacing(settled, previous, <<>>, astray, Solid)
  BY <1>2, BlankEnds, NothingMeets DEF Spacing
<1>4. EndChar(tail') \in Solid => EndChar(Screen') \in Solid
  <2>1. EndChar(tail') = EndChar(previous)
    BY <1>1, <1>2, EndOfLast
  <2>2. Screen' = settled \o previous
    BY <1>1, <1>2, ScreenIs DEF Screen
  <2>3. previous # <<>> => EndChar(settled \o previous) = EndChar(previous)
    BY <1>2, EndsOfBoth
  <2>4. QED
    BY <2>1, <2>2, <2>3, BlankEnds
<1>5. QED
  BY <1>1, <1>3, <1>4, SpaceFollow

\* The tail is taken from a region that is not empty.
LEMMA SpaceReseed ==
    ASSUME FormatterInv, SpaceInv, Follow, settled' \in Text, previous' \in Text, region' \in Text,
           region' # <<>>, tail' = LastChars(region'), astray' = astray,
           Spacing(settled', previous', region', astray, Solid)
    PROVE  SpaceInv'
<1> DEFINE s == settled' \o previous'
           r == region'
<1>1. s \in Text /\ r \in Text /\ r # <<>>
  BY EndsOfBoth
<1>2. EndChar(s \o r) = EndChar(r) /\ EndChar(LastChars(r)) = EndChar(r)
  <2> HIDE DEF s, r
  <2>1. QED
    BY <1>1, EndsOfBoth, EndOfLast
<1>3. EndChar(tail') = EndChar(Screen')
  BY <1>2 DEF Screen
<1>4. QED
  BY <1>3, SpaceFollow

\* Behind what meets the text before it, a trailer does too.
LEMMA WithTrailerFits ==
    ASSUME NEW a \in Text, NEW b \in Text, b # <<>>, NEW lost, Spaced(b, lost), Meets(a, b, lost, Solid)
    PROVE  /\ WithTrailer(b) \in Text /\ WithTrailer(b) # <<>>
           /\ Spaced(WithTrailer(b), lost) /\ Meets(a, WithTrailer(b), lost, Solid)
<1> DEFINE f == [tail |-> LastChars(b), hasOutput |-> hasOutput]
           y == EndUtterance(f)
<1>1. f.tail \in Text /\ EndChar(f.tail) = EndChar(b) /\ y \in Text
  BY EndOfLast, TrailerIs
<1>2. WithTrailer(b) = b \o y
  BY DEF WithTrailer
<1> HIDE DEF f
<1>3. Spaced(y, lost) /\ Meets(b, y, lost, Solid)
  BY <1>1, TrailerMeets
<1> HIDE DEF y
<1>4. Spaced(b \o y, lost)
  BY <1>1, <1>3, FirstIs, SpacedJoins
<1>5. b \o y \in Text /\ At(b \o y, 1) = At(b, 1)
  BY <1>1, EndsOfBoth
<1>6. Meets(a, b \o y, lost, Solid)
  BY <1>5 DEF Meets
<1>7. b \o y # <<>>
  BY <1>1, ConcatEqualIffEmpty DEF Text
<1>8. QED
  BY <1>2, <1>4, <1>5, <1>6, <1>7

\* A reply in the place of the text t, behind the blanks t began with.
LEMMA ReplyFits ==
    ASSUME SpacedReplies, NEW a \in Text, NEW t \in Text, t # <<>>, NEW lost, Spaced(t, lost),
           Meets(a, t, lost, Solid), NEW reply \in Replies
    PROVE  LET b == WithTrailer(Lead(t) \o reply)
           IN  b \in Text /\ b # <<>> /\ Spaced(b, lost) /\ Meets(a, b, lost, Solid)
<1> DEFINE lead == Lead(t)
           body == lead \o reply
<1>1. reply \in Text /\ reply # <<>> /\ At(reply, 1) \notin Blank /\ Spaced(reply, lost)
  <2>1. reply \in Text /\ reply # <<>>
    BY ReplyIs
  <2>2. At(reply, 1) \notin Blank /\ NoWordAfter(reply, Punct) /\ NoTwoBlanks(reply)
    BY DEF SpacedReplies
  <2>3. Spaced(reply, lost)
    BY <2>2, Classes DEF Spaced, NoWordAfter, NoTwoBlanks
  <2>4. QED
    BY <2>1, <2>2, <2>3
<1>2. /\ lead \in Text /\ Spaced(lead, lost)
      /\ lead # <<>> => At(lead, 1) = At(t, 1) /\ EndChar(lead) \in Blank
      /\ lead = <<>> => At(t, 1) \notin Blank
  BY LeadSpaced
<1> HIDE DEF lead
<1>3. At(reply, 1) # " "
  BY <1>1, Classes
<1>4. Spaced(body, lost)
  <2>1. Meets(lead, reply, lost, Letters)
    <3>1. EndChar(lead) \notin Letters \cup Punct
      <4>1. CASE lead = <<>>
        BY <4>1, EmptyText, AtFirst, Classes
      <4>2. CASE lead # <<>>
        BY <1>2, <4>2, Classes
      <4>3. QED
        BY <4>1, <4>2
    <3>2. QED
      BY <1>3, <3>1 DEF Meets
  <2>2. QED
    BY <1>1, <1>2, <2>1, SpacedJoins
<1>5. Meets(a, body, lost, Solid)
  <2>1. CASE lead = <<>>
    <3>1. body = reply
      BY <1>1, <2>1, EndsOfBoth
    <3>2. At(t, 1) \in Solid
      BY <1>2, <2>1, AtFirst DEF Solid
    <3>3. QED
      BY <1>3, <3>1, <3>2 DEF Meets
  <2>2. CASE lead # <<>>
    <3>1. At(body, 1) = At(t, 1)
      BY <1>1, <1>2, <2>2, EndsOfBoth
    <3>2. QED
      BY <3>1 DEF Meets
  <2>3. QED
    BY <2>1, <2>2
<1>6. body \in Text /\ body # <<>>
  BY <1>1, <1>2, EndsOfBoth, ConcatEqualIffEmpty DEF Text
<1> HIDE DEF body
<1>7. LET b == WithTrailer(body)
      IN  b \in Text /\ b # <<>> /\ Spaced(b, lost) /\ Meets(a, b, lost, Solid)
  BY <1>4, <1>5, <1>6, WithTrailerFits
<1>8. QED
  BY <1>7 DEF body, lead

LEMMA SpaceTransform ==
    ASSUME SpacedReplies, FormatterInv, SpaceInv, NEW reply \in Replies, Transform(reply)
    PROVE  SpaceInv'
<1>1. Follow /\ UNCHANGED <<settled, previous, astray>>
  BY DEF Transform
<1>2. /\ settled \in Text /\ previous \in Text /\ region \in Text /\ settled \o previous \in Text
      /\ region # <<>> /\ Spacing(settled, previous, region, astray, Solid)
      /\ EndChar(tail) \in Solid => EndChar(Screen) \in Solid
  BY <1>1, WhereFollow
<1>3. CASE UNCHANGED <<tail, region>>
  <2>1. Screen' = Screen
    BY <1>1, <1>3 DEF Screen
  <2>2. QED
    BY <1>1, <1>2, <1>3, <2>1, SpaceFollow
<1>4. CASE region' = WithTrailer(Lead(region) \o reply) /\ Reseed(region')
  <2> DEFINE b == WithTrailer(Lead(region) \o reply)
  <2>1. b \in Text /\ b # <<>> /\ Spaced(b, astray) /\ Meets(settled \o previous, b, astray, Solid)
    BY <1>2, ReplyFits DEF Spacing
  <2> HIDE DEF b
  <2>2. Spacing(settled, previous, b, astray, Solid)
    BY <1>2, <2>1 DEF Spacing
  <2>3. region' = b /\ tail' = LastChars(region')
    BY <1>4 DEF b, Reseed
  <2>4. QED
    BY <1>1, <1>2, <2>1, <2>2, <2>3, SpaceReseed
<1>5. QED
  BY <1>3, <1>4 DEF Transform

LEMMA SpaceRevise ==
    ASSUME SpacedReplies, FormatterInv, SpaceInv, NEW reply \in Replies, Revise(reply)
    PROVE  SpaceInv'
<1> DEFINE t == previous \o region
           b == WithTrailer(Lead(t) \o reply)
<1>1. /\ Follow /\ previous # <<>> /\ settled' = settled /\ previous' = <<>> /\ region' = b
      /\ tail' = LastChars(region') /\ astray' = astray
  BY DEF Revise, Reseed
<1>2. /\ settled \in Text /\ previous \in Text /\ region \in Text
      /\ Spacing(settled, previous, region, astray, Solid)
  BY <1>1, WhereFollow
<1>3. t \in Text /\ t # <<>>
  BY <1>1, <1>2, EndsOfBoth, ConcatEqualIffEmpty DEF Text
<1>4. Spaced(t, astray) /\ Meets(settled, t, astray, Solid)
  <2>1. /\ Spaced(previous, astray) /\ Spaced(region, astray)
        /\ Meets(settled, previous, astray, Solid) /\ Meets(settled \o previous, region, astray, Solid)
    BY <1>2 DEF Spacing
  <2>2. Letters \subseteq Solid
    BY FirstIs
  <2>3. Spaced(previous \o region, astray)
    BY <1>2, <2>1, <2>2, SpacedGrows
  <2>4. QED
    BY <1>2, <2>1, <2>3, MeetsOn
<1> HIDE DEF t
<1>5. b \in Text /\ b # <<>> /\ Spaced(b, astray) /\ Meets(settled, b, astray, Solid)
  BY <1>2, <1>3, <1>4, ReplyFits
<1> HIDE DEF b
<1>6. settled \o <<>> = settled /\ <<>> \in Text
  BY <1>2, EmptyText, EndsOfBoth
<1>7. Spacing(settled, <<>>, b, astray, Solid)
  BY <1>2, <1>5, <1>6, BlankEnds, NothingMeets DEF Spacing
<1>8. QED
  BY <1>1, <1>2, <1>5, <1>6, <1>7, SpaceReseed

LEMMA SpaceRestore ==
    ASSUME FormatterInv, SpaceInv, RestoreOriginal
    PROVE  SpaceInv'
<1>1. Follow /\ tail' = LastChars(region') /\ UNCHANGED <<settled, previous, region, astray>>
  BY DEF RestoreOriginal, Reseed
<1>2. QED
  BY <1>1, WhereFollow, SpaceReseed

\* "literally ...": what was said stays behind the blanks it began with.
LEMMA SpaceLiteral ==
    ASSUME FormatterInv, SpaceInv, Literal
    PROVE  SpaceInv'
<1> DEFINE t == region
           start == Len(Lead(t))
           word == CHOOSE n \in start..Len(t) :
                      AllIn(t, start + 1, n, Letters) /\ At(t, n + 1) \notin Letters
           mark == IF At(t, word + 1) \in {",", "."} THEN word + 1 ELSE word
           rest == SubSeq(t, mark + 1, Len(t))
           m == Len(Lead(rest)) + 1
           more == SubSeq(rest, m, Len(rest))
           r == AfterGuard(t)
<1>1. /\ Follow /\ region' = r /\ tail' = LastChars(region') /\ UNCHANGED <<settled, previous, astray>>
      /\ At(t, start + 1) \in Letters /\ r # <<>>
  BY DEF Literal, Reseed
<1>2. /\ settled \in Text /\ previous \in Text /\ t \in Text /\ settled \o previous \in Text
      /\ Spacing(settled, previous, t, astray, Solid)
      /\ Spaced(t, astray) /\ Meets(settled \o previous, t, astray, Solid)
  BY <1>1, WhereFollow DEF Spacing
<1> HIDE DEF t
<1>3. /\ Lead(t) \in Text /\ Spaced(Lead(t), astray)
      /\ Lead(t) # <<>> => At(Lead(t), 1) = At(t, 1) /\ EndChar(Lead(t)) \in Blank
      /\ Lead(t) = <<>> => start = 0
      /\ start \in 0..Len(t) /\ Len(t) \in Nat
  BY <1>2, LeadSpaced, AtFirst
<1>4. r = Lead(t) \o more /\ r \in Text
  BY <1>2, AfterGuardType DEF AfterGuard
<1> HIDE DEF r
<1>5. mark + 1 \in Int /\ 1 <= mark + 1
  <2> HIDE DEF start
  <2>1. word \in start..Len(t)
    <3>1. \E n \in start..Len(t) : AllIn(t, start + 1, n, Letters) /\ At(t, n + 1) \notin Letters
      BY <1>2, <1>3, RunEnds, NoneIsNoChar
    <3>2. QED
      BY <3>1
  <2> HIDE DEF word
  <2>2. word \in Nat
    BY <1>3, <2>1
  <2>3. mark \in {word, word + 1}
    OBVIOUS
  <2> HIDE DEF mark
  <2>4. QED
    BY <2>2, <2>3
<1> HIDE DEF mark, word
<1>6. rest \in Text /\ Spaced(rest, astray)
  BY <1>2, <1>3, <1>5, PartSpaced
<1> HIDE DEF rest
<1>7. /\ At(rest, m) \notin Blank /\ m \in Int /\ 1 <= m /\ Len(rest) <= Len(rest) /\ Len(rest) \in Int
      /\ (m <= Len(rest) => m \in 1..Len(rest))
  <2> DEFINE k == Len(rest)
  <2>1. At(rest, m) \notin Blank /\ Len(Lead(rest)) \in 0..k /\ k \in Nat
    BY <1>6, LeadSpaced, AtFirst
  <2>2. m \in Int /\ 1 <= m /\ k <= k /\ k \in Int /\ (m <= k => m \in 1..k)
    <3> HIDE DEF k
    <3>1. QED
      BY <2>1
  <2>3. QED
    BY <2>1, <2>2
<1> HIDE DEF m
<1>8. more \in Text /\ Spaced(more, astray) /\ At(more, 1) \notin Blank
  <2>1. /\ more \in Text /\ Spaced(more, astray)
        /\ m <= Len(rest) => At(more, 1) = rest[m]
        /\ ~(m <= Len(rest)) => more = <<>>
    BY <1>6, <1>7, PartSpaced
  <2>2. CASE m <= Len(rest)
    <3>1. At(rest, m) = rest[m]
      BY <1>6, <1>7, <2>2, AtIs DEF Text
    <3>2. QED
      BY <1>7, <2>1, <2>2, <3>1
  <2>3. CASE ~(m <= Len(rest))
    BY <2>1, <2>3, EmptyText, AtFirst, Classes
  <2>4. QED
    BY <2>1, <2>2, <2>3
<1> HIDE DEF more, start
<1>9. Spaced(r, astray)
  <2>1. EndChar(Lead(t)) \notin Letters \cup Punct
    <3>1. CASE Lead(t) = <<>>
      BY <3>1, EmptyText, AtFirst, Classes
    <3>2. CASE Lead(t) # <<>>
      BY <1>3, <3>2, Classes
    <3>3. QED
      BY <3>1, <3>2
  <2>2. At(more, 1) # " "
    BY <1>8, Classes
  <2>3. Meets(Lead(t), more, astray, Letters)
    BY <2>1, <2>2 DEF Meets
  <2>4. QED
    BY <1>3, <1>4, <1>8, <2>3, SpacedJoins
<1>10. Meets(settled \o previous, r, astray, Solid)
  <2>1. CASE Lead(t) = <<>>
    <3>1. At(t, 1) \in Letters
      <4>1. start = 0 /\ 0 + 1 = 1
        BY <1>3, <2>1
      <4>2. QED
        BY <1>1, <4>1
    <3>2. r = more
      BY <1>4, <1>8, <2>1, EndsOfBoth
    <3>3. At(r, 1) # " "
      BY <1>8, <3>2, Classes
    <3>4. At(t, 1) \in Solid
      BY <3>1, FirstIs
    <3>5. QED
      BY <1>2, <3>3, <3>4 DEF Meets
  <2>2. CASE Lead(t) # <<>>
    <3>1. At(r, 1) = At(t, 1)
      BY <1>3, <1>4, <1>8, <2>2, EndsOfBoth
    <3>2. QED
      BY <1>2, <3>1 DEF Meets
  <2>3. QED
    BY <2>1, <2>2
<1>11. Spacing(settled, previous, r, astray, Solid)
  BY <1>2, <1>9, <1>10 DEF Spacing
<1>12. QED
  BY <1>1, <1>2, <1>4, <1>11, SpaceReseed

LEMMA SpaceNothing ==
    ASSUME FormatterInv, SpaceInv, UNCHANGED vars
    PROVE  SpaceInv'
<1>1. First' = First /\ Known' = Known
  BY DEF vars, First, Known, Screen
<1>2. QED
  BY <1>1 DEF SpaceInv, vars

LEMMA SpaceInvariant ==
    ASSUME WordsFirst, SpacedReplies
    PROVE  Spec => [](FormatterInv /\ SpaceInv)
<1>1. ASSUME FormatterInv, SpaceInv, [Next]_vars PROVE SpaceInv'
  <2>1. CASE StartUtterance
    BY <1>1, <2>1, SpaceStart
  <2>2. ASSUME NEW token \in Tokens, CommitWords(token) \/ Render(token) PROVE SpaceInv'
    BY <1>1, <2>2, SpaceCommit, SpaceRender
  <2>3. CASE FinalizeCommit \/ FinalizeCorrecting \/ FinalizeFails \/ FinalizeSkips
    BY <1>1, <2>3, SpaceFinalizeCommit, SpaceFinalizeCorrecting, SpaceFinalizeFails, SpaceFinalizeSkips
  <2>4. CASE Scratch \/ NewLine \/ PressKey \/ Copy \/ Literal
    BY <1>1, <2>4, SpaceScratch, SpaceNewLine, SpacePressKey, SpaceCopy, SpaceLiteral
  <2>5. ASSUME NEW reply \in Replies, Transform(reply) \/ Revise(reply) PROVE SpaceInv'
    BY <1>1, <2>5, SpaceTransform, SpaceRevise
  <2>6. CASE RestoreOriginal
    BY <1>1, <2>6, SpaceRestore
  <2>7. CASE Done \/ UNCHANGED vars
    BY <1>1, <2>7, SpaceNothing DEF Done
  <2>8. QED
    BY <1>1, <2>1, <2>2, <2>3, <2>4, <2>5, <2>6, <2>7 DEF Next
<1>2. QED
  BY <1>1, InitSpace, FormatterInvariant, PTL DEF Spec

LEMMA SpacingIsSpaced ==
    ASSUME FormatterInv, SpaceInv
    PROVE  WellSpaced
<1> DEFINE s == settled \o previous
           k == Len(Screen)
<1>1. /\ settled \in Text /\ previous \in Text /\ region \in Text /\ s \in Text
      /\ Screen = s \o region /\ Screen \in Text /\ previous \o region \in Text
  BY EndsOfBoth DEF FormatterInv, TextTypes, Screen
<1>2. /\ Spaced(settled, astray) /\ Spaced(previous, astray) /\ Spaced(region, astray)
      /\ Meets(<<>>, settled, astray, First) /\ Meets(settled, previous, astray, First)
      /\ Meets(s, region, astray, First)
  BY DEF SpaceInv, Spacing
<1>3. Spaced(s, astray)
  BY <1>1, <1>2, FirstHere, SpacedJoins
<1>4. Meets(<<>>, s, astray, First)
  <2>1. <<>> \o settled = settled /\ <<>> \in Text
    BY <1>1, EmptyText, EndsOfBoth
  <2>2. QED
    BY <1>1, <1>2, <2>1, MeetsOn
<1>5. Meets(settled, previous \o region, astray, First)
  BY <1>1, <1>2, MeetsOn
<1> HIDE DEF s
<1>6. Spaced(Screen, astray) /\ Meets(<<>>, Screen, astray, First)
  <2>1. Spaced(s \o region, astray)
    BY <1>1, <1>2, <1>3, FirstHere, SpacedJoins
  <2>2. <<>> \o s = s /\ <<>> \in Text
    BY <1>1, EmptyText, EndsOfBoth
  <2>3. Meets(<<>>, s \o region, astray, First)
    BY <1>1, <1>2, <1>4, <2>2, MeetsOn
  <2>4. QED
    BY <1>1, <2>1, <2>3
<1>7. At(Screen, 1) # " "
  BY <1>6, BlankEnds DEF Meets
<1>8. ASSUME NEW i \in 2..k
      PROVE  /\ Screen[i] = " " => Screen[i - 1] \notin Blank
             /\ (astray = {} /\ Screen[i] \in Letters) => Screen[i - 1] \notin Punct
  <2>1. i - 1 \in 1..k /\ (i - 1) + 1 \in 1..k /\ (i - 1) + 1 = i
    <3>1. k \in Nat
      BY <1>1, AtFirst
    <3> HIDE DEF k
    <3>2. QED
      BY <3>1
  <2> DEFINE j == i - 1
  <2>2. j \in 1..k /\ j + 1 \in 1..k /\ j + 1 = i
    BY <2>1
  <2> HIDE DEF j
  <2>3. /\ Screen[j + 1] = " " => Screen[j] \notin Blank
        /\ (astray = {} /\ Screen[j] \in Punct) => Screen[j + 1] \notin Letters
    BY <1>6, <2>2 DEF Spaced
  <2>4. QED
    BY <2>2, <2>3 DEF j
<1>9. ASSUME astray = {}
      PROVE  /\ ~(EndChar(settled) \in Letters /\ At(previous \o region, 1) \in Letters)
             /\ ~(EndChar(s) \in Letters /\ At(region, 1) \in Letters)
  BY <1>2, <1>5, <1>9, FirstHere DEF Meets
<1>10. NeverTwoSpaces
  BY <1>7, <1>8 DEF NeverTwoSpaces
<1>11. WordsStayApart
  BY <1>8, <1>9 DEF WordsStayApart, s
<1>12. QED
  BY <1>10, <1>11 DEF WellSpaced

\* clean_text, needs_separator, format_delta and end_utterance, with what the
\* engine, the commands and the transform do to the screen: no two spaces ever
\* meet, none is typed first, and while the formatter sees the screen no word is
\* typed onto the end of another, for any decodes that begin as Whisper's do, any
\* replies that are spaced themselves, and a session of any length.
THEOREM ScreenIsWellSpaced ==
    ASSUME WordsFirst, SpacedReplies
    PROVE  Spec => []WellSpaced
  BY SpaceInvariant, SpacingIsSpaced, PTL
=============================================================================
