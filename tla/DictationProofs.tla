-------------------------- MODULE DictationProofs --------------------------
(***************************************************************************)
(* Proofs about the session.                                               *)
(*                                                                         *)
(* The gate, for all thresholds and any number of frames: its inductive    *)
(* invariant ties the counters to the frames they count.  The ring is the  *)
(* run of frames that ends now, the silence counter is covered by frames   *)
(* since the last voiced one, and an announced end is newer than every     *)
(* voiced frame.                                                           *)
(*                                                                         *)
(* The loop: it drives the gate as the gate's own specification says, so   *)
(* that all of this holds in it, and between two frames gate and engine    *)
(* agree on the utterance, however the decodes turn out.                   *)
(*                                                                         *)
(* The engine, for every window, hypothesis and cut: an utterance is sound *)
(* when its trimmed words are those said before its buffer and its         *)
(* committed words and prev_norm are hearings of what the buffer says from *)
(* its first word on.  Called by the loop, its open utterance stays sound, *)
(* its speculation has all that was said, and so nothing said is lost.     *)
(***************************************************************************)
EXTENDS Dictation, SequenceTheorems, WellFoundedInduction, TLAPS

-----------------------------------------------------------------------------
(* Sequences.                                                              *)

\* A sequence is of the elements it has.
LEMMA SeqOfElements ==
    ASSUME NEW S, NEW T, NEW s \in Seq(S), \A i \in 1..Len(s) : s[i] \in T
    PROVE  s \in Seq(T)
<1>1. Len(s) \in Nat /\ DOMAIN s = 1..Len(s) /\ s = [i \in 1..Len(s) |-> s[i]]
  BY LenProperties
<1> DEFINE n == Len(s)
           f(i) == s[i]
<1>2. \A i \in 1..n : f(i) \in T
  OBVIOUS
<1>3. n \in Nat
  BY <1>1
<1> HIDE DEF f
<1>4. [i \in 1..n |-> f(i)] \in Seq(T)
  BY <1>2, <1>3, IsASeq
<1>5. QED
  BY <1>1, <1>4 DEF f

\* A sequence in two parts grows at its end.
InParts(K, f, a, b) == f = a \o b /\ a \in Seq(K) /\ b \in Seq(K)

LEMMA GrowsAtEnd ==
    ASSUME NEW K, NEW f, NEW a, NEW b, NEW c \in Seq(K), InParts(K, f, a, b)
    PROVE  InParts(K, f \o c, a, b \o c)
<1>1. a \in Seq(K) /\ b \in Seq(K) /\ f = a \o b
  BY DEF InParts
<1>2. b \o c \in Seq(K)
  BY <1>1, ConcatProperties
<1>3. (a \o b) \o c = a \o (b \o c)
  BY <1>1, ConcatAssociative, SMTT(60)
<1>4. QED
  BY <1>1, <1>2, <1>3, Zenon DEF InParts

\* A sequence in two parts, without the second.
LEMMA FirstPart ==
    ASSUME NEW K, NEW f, NEW a, NEW b, InParts(K, f, a, b)
    PROVE  SubSeq(f, 1, Len(f) - Len(b)) = a
<1>1. a \in Seq(K) /\ b \in Seq(K) /\ f = a \o b
  BY DEF InParts
<1>2. /\ Len(a) \in Nat /\ Len(b) \in Nat /\ f \in Seq(K) /\ Len(f) = Len(a) + Len(b)
      /\ \A i \in 1..(Len(a) + Len(b)) : f[i] = IF i <= Len(a) THEN a[i] ELSE b[i - Len(a)]
  <2>1. Len(a) \in Nat /\ Len(b) \in Nat
    BY <1>1, LenProperties
  <2>2. /\ a \o b \in Seq(K) /\ Len(a \o b) = Len(a) + Len(b)
        /\ \A i \in 1..(Len(a) + Len(b)) :
              (a \o b)[i] = IF i <= Len(a) THEN a[i] ELSE b[i - Len(a)]
    BY <1>1, ConcatProperties
  <2>3. QED
    BY <1>1, <2>1, <2>2
<1>3. Len(f) - Len(b) = Len(a)
  BY <1>2
<1> DEFINE s == SubSeq(f, 1, Len(a))
<1>4. \A i \in 1..Len(a) : i \in 1..(Len(a) + Len(b)) /\ f[i] = a[i] /\ f[i] \in K
  BY <1>1, <1>2, ElementOfSeq
<1>5. /\ s \in Seq(K) /\ Len(s) = Len(a) /\ \A i \in 1..Len(a) : s[i] = a[i]
  <2>1. /\ s \in Seq(K) /\ Len(s) = IF 1 <= Len(a) THEN Len(a) - 1 + 1 ELSE 0
        /\ \A i \in 1..(Len(a) - 1 + 1) : s[i] = f[1 + i - 1]
    BY <1>2, <1>4, SubSeqProperties
  <2> HIDE DEF s
  <2>2. Len(s) = Len(a) /\ 1..(Len(a) - 1 + 1) = 1..Len(a)
    BY <1>2, <2>1
  <2>3. \A i \in 1..Len(a) : 1 + i - 1 = i
    OBVIOUS
  <2>4. \A i \in 1..Len(a) : s[i] = a[i]
    BY <1>4, <2>1, <2>2, <2>3
  <2>5. QED
    BY <2>1, <2>2, <2>4
<1> HIDE DEF s
<1>6. s = a
  BY <1>1, <1>5, SeqEqual
<1>7. QED
  BY <1>3, <1>6 DEF s

LEMMA Within ==
    ASSUME NEW m \in Nat, NEW n \in Nat, m <= n
    PROVE  \A i \in 1..m : i \in 1..n
  OBVIOUS

LEMMA SamePlaces ==
    ASSUME NEW m \in Nat, NEW n \in Nat, 1..m = 1..n
    PROVE  m = n
<1>1. n > m => n \in 1..n /\ n \notin 1..m
  OBVIOUS
<1>2. m > n => m \in 1..m /\ m \notin 1..n
  OBVIOUS
<1>3. QED
  BY <1>1, <1>2

-----------------------------------------------------------------------------
(* Picked.                                                                 *)

\* A set of numbers has a smallest one.
LEMMA Smallest ==
    ASSUME NEW T \in SUBSET Nat, T # {}
    PROVE  \E n \in T : \A m \in T : n <= m
<1>1. PICK n \in T : \A m \in T : ~(<<m, n>> \in OpToRel(<, Nat))
  BY NatLessThanWellFounded, WFMin
<1>2. \A m \in T : ~(m < n)
  BY <1>1 DEF OpToRel
<1>3. QED
  BY <1>2

\* Induction over sequences, for sets instead of predicates.
LEMMA SeqInduction ==
    ASSUME NEW S, NEW T \in SUBSET Seq(S), <<>> \in T,
           \A s \in T, e \in S : Append(s, e) \in T
    PROVE  T = Seq(S)
<1> DEFINE Bad == {n \in Nat : \E s \in Seq(S) : s \notin T /\ Len(s) = n}
<1>1. SUFFICES ASSUME Bad # {} PROVE FALSE
  <2>1. SUFFICES ASSUME NEW s \in Seq(S), s \notin T PROVE FALSE
    OBVIOUS
  <2>2. Len(s) \in Bad
    BY <2>1, LenProperties
  <2>3. QED
    BY <1>1, <2>2
<1>2. PICK n \in Bad : \A m \in Bad : n <= m
  BY <1>1, Smallest
<1>3. PICK s \in Seq(S) : s \notin T /\ Len(s) = n
  BY <1>2
<1>4. s # <<>>
  BY <1>3
<1>5. PICK r \in Seq(S), e \in S : s = Append(r, e)
  BY <1>4, SequenceEmptyOrAppend
<1>6. Len(r) = n - 1 /\ Len(r) \in Nat
  BY <1>3, <1>5, AppendProperties, LenProperties
<1>7. r \in T
  <2>1. Len(r) \notin Bad
    BY <1>2, <1>6
  <2>2. QED
    BY <2>1, <1>6
<1>8. QED
  BY <1>3, <1>5, <1>7

\* The recursion of Picked.
Picks(s, I, f) ==
    f = [n \in 0..Len(s) |-> IF n = 0 THEN <<>>
                             ELSE IF n \in I THEN Append(f[n - 1], s[n])
                             ELSE f[n - 1]]

\* There is a recursion for every sequence, and it yields sequences.
LEMMA PicksExists ==
    ASSUME NEW K, NEW I
    PROVE  \A s \in Seq(K) : \E f : Picks(s, I, f) /\ \A n \in 0..Len(s) : f[n] \in Seq(K)
<1> DEFINE Good(s) == \E f : Picks(s, I, f) /\ \A n \in 0..Len(s) : f[n] \in Seq(K)
           T == {s \in Seq(K) : Good(s)}
<1>1. Good(<<>>)
  <2> DEFINE f == [n \in {0} |-> <<>>]
  <2>1. 0..Len(<<>>) = {0} /\ <<>> \in Seq(K)
    BY EmptySeq
  <2>2. Picks(<<>>, I, f)
    BY <2>1 DEF Picks
  <2>3. QED
    BY <2>1, <2>2
<1>2. ASSUME NEW s \in Seq(K), Good(s), NEW e \in K
      PROVE  Good(Append(s, e))
  <2>1. PICK f : Picks(s, I, f) /\ \A n \in 0..Len(s) : f[n] \in Seq(K)
    BY <1>2
  <2> DEFINE n == Len(s)
             a == Append(s, e)
             end == IF n + 1 \in I THEN Append(f[n], e) ELSE f[n]
             g == [i \in 0..(n + 1) |-> IF i = n + 1 THEN end ELSE f[i]]
  <2>2. n \in Nat /\ Len(a) = n + 1 /\ a[n + 1] = e /\ \A i \in 1..n : a[i] = s[i]
    BY AppendProperties, LenProperties
  <2>3. \A i \in 0..n : f[i] = IF i = 0 THEN <<>>
                               ELSE IF i \in I THEN Append(f[i - 1], s[i])
                               ELSE f[i - 1]
    BY <2>1 DEF Picks
  <2>4. end \in Seq(K)
    BY <2>1, <2>2, AppendProperties
  <2> HIDE DEF a, end
  <2>5. \A i \in 0..(n + 1) : g[i] = IF i = 0 THEN <<>>
                                     ELSE IF i \in I THEN Append(g[i - 1], a[i])
                                     ELSE g[i - 1]
    <3>1. ASSUME NEW i \in 0..(n + 1), i # n + 1
          PROVE  g[i] = IF i = 0 THEN <<>>
                        ELSE IF i \in I THEN Append(g[i - 1], a[i])
                        ELSE g[i - 1]
      <4>1. i \in 0..n /\ g[i] = f[i] /\ (i # 0 => g[i - 1] = f[i - 1] /\ a[i] = s[i])
        BY <3>1, <2>2
      <4>2. QED
        BY <4>1, <2>3
    <3>2. g[n + 1] = end /\ g[(n + 1) - 1] = f[n] /\ n + 1 # 0
      BY <2>2
    <3>3. QED
      BY <3>1, <3>2, <2>2 DEF end
  <2>6. \A i \in 0..(n + 1) : g[i] \in Seq(K)
    BY <2>1, <2>2, <2>4
  <2>7. g = [i \in 0..Len(a) |-> IF i = 0 THEN <<>>
                                 ELSE IF i \in I THEN Append(g[i - 1], a[i])
                                 ELSE g[i - 1]]
    <3>1. g = [i \in 0..(n + 1) |-> g[i]]
      OBVIOUS
    <3> HIDE DEF g
    <3>2. QED
      BY <3>1, <2>5, <2>2
  <2>8. Picks(a, I, g)
    BY <2>7 DEF Picks
  <2>9. QED
    <3> HIDE DEF g
    <3>1. QED
      BY <2>2, <2>6, <2>8 DEF a
<1>3. T = Seq(K)
  <2>1. T \in SUBSET Seq(K) /\ <<>> \in T
    BY <1>1, EmptySeq
  <2>2. \A s \in T, e \in K : Append(s, e) \in T
    BY <1>2, AppendProperties
  <2> HIDE DEF T
  <2>3. QED
    BY <2>1, <2>2, SeqInduction
<1>4. QED
  BY <1>3

\* Picked is what such a recursion yields.
LEMMA PickedIs ==
    ASSUME NEW K, NEW s \in Seq(K), NEW I
    PROVE  \E f : Picks(s, I, f) /\ Picked(s, I) = f[Len(s)]
<1> DEFINE g == CHOOSE f : f = [n \in 0..Len(s) |-> IF n = 0 THEN <<>>
                                                   ELSE IF n \in I THEN Append(f[n - 1], s[n])
                                                   ELSE f[n - 1]]
<1>1. \E f : Picks(s, I, f)
  BY PicksExists
<1>2. Picks(s, I, g)
  BY <1>1 DEF Picks
<1>3. Picked(s, I) = g[Len(s)]
  BY DEF Picked
<1>4. QED
  BY <1>2, <1>3

LEMMA PickedEmpty == \A I : Picked(<<>>, I) = <<>>
<1> TAKE I
<1>1. <<>> \in Seq({}) /\ Len(<<>>) = 0
  BY EmptySeq
<1>2. PICK f : Picks(<<>>, I, f) /\ Picked(<<>>, I) = f[0]
  BY <1>1, PickedIs
<1>3. 0 \in 0..Len(<<>>)
  BY <1>1
<1>4. QED
  BY <1>2, <1>3 DEF Picks

\* The recursions for a sequence and for its extension agree, if they pick the same.
LEMMA PicksAgree ==
    ASSUME NEW K, NEW s \in Seq(K), NEW e \in K, NEW I, NEW J, NEW f, NEW g,
           \A i \in 1..Len(s) : i \in I <=> i \in J,
           Picks(s, I, f), Picks(Append(s, e), J, g)
    PROVE  \A i \in 0..Len(s) : g[i] = f[i]
<1> DEFINE n == Len(s)
           a == Append(s, e)
           Bad == {i \in 0..n : g[i] # f[i]}
<1>1. n \in Nat /\ Len(a) = n + 1 /\ \A i \in 1..n : a[i] = s[i]
  BY AppendProperties, LenProperties
<1>0. \A i \in 1..n : i \in I <=> i \in J
  OBVIOUS
<1> HIDE DEF a, n
<1>2. \A i \in 0..n : f[i] = IF i = 0 THEN <<>>
                             ELSE IF i \in I THEN Append(f[i - 1], s[i])
                             ELSE f[i - 1]
  BY DEF Picks, n
<1>3. \A i \in 0..n : g[i] = IF i = 0 THEN <<>>
                             ELSE IF i \in J THEN Append(g[i - 1], a[i])
                             ELSE g[i - 1]
  <2>1. g = [i \in 0..(n + 1) |-> IF i = 0 THEN <<>>
                                  ELSE IF i \in J THEN Append(g[i - 1], a[i])
                                  ELSE g[i - 1]]
    BY <1>1 DEF Picks, a
  <2>2. \A i \in 0..n : i \in 0..(n + 1)
    BY <1>1
  <2>3. QED
    BY <2>1, <2>2
<1>4. SUFFICES ASSUME Bad # {} PROVE FALSE
  BY DEF n
<1>5. PICK i \in Bad : \A j \in Bad : i <= j
  <2>1. Bad \in SUBSET Nat
    BY <1>1
  <2> HIDE DEF Bad
  <2>2. QED
    BY <1>4, <2>1, Smallest
<1>6. CASE i = 0
  BY <1>1, <1>2, <1>3, <1>5, <1>6
<1>7. CASE i # 0
  <2>1. i - 1 \in 0..n /\ i \in 1..n /\ i - 1 < i
    BY <1>1, <1>5, <1>7
  <2>2. g[i - 1] = f[i - 1]
    BY <1>5, <2>1
  <2>3. g[i] = f[i]
    BY <1>0, <1>1, <1>2, <1>3, <1>7, <2>1, <2>2
  <2>4. QED
    BY <1>5, <2>3
<1>8. QED
  BY <1>6, <1>7

\* Picking from one element more.
LEMMA PickedAppend ==
    ASSUME NEW K, NEW s \in Seq(K), NEW e \in K, NEW I, NEW J,
           \A i \in 1..Len(s) : i \in I <=> i \in J
    PROVE  Picked(Append(s, e), J)
              = IF Len(s) + 1 \in J THEN Append(Picked(s, I), e) ELSE Picked(s, I)
<1> DEFINE n == Len(s)
           a == Append(s, e)
<1>1. n \in Nat /\ a \in Seq(K) /\ Len(a) = n + 1 /\ a[n + 1] = e
  BY AppendProperties, LenProperties
<1>2. PICK g : Picks(a, J, g) /\ Picked(a, J) = g[n + 1]
  <2> HIDE DEF a
  <2>1. QED
    BY <1>1, PickedIs
<1>3. PICK f : Picks(s, I, f) /\ Picked(s, I) = f[n]
  BY PickedIs
<1>4. g[n] = f[n]
  <2>1. n \in 0..n
    BY <1>1
  <2>2. QED
    BY <1>2, <1>3, <2>1, PicksAgree
<1>5. g[n + 1] = IF n + 1 \in J THEN Append(g[n], e) ELSE g[n]
  <2> HIDE DEF a
  <2>1. n + 1 \in 0..Len(a) /\ n + 1 # 0 /\ (n + 1) - 1 = n
    BY <1>1
  <2>2. \A i \in 0..Len(a) : g[i] = IF i = 0 THEN <<>>
                                    ELSE IF i \in J THEN Append(g[i - 1], a[i])
                                    ELSE g[i - 1]
    BY <1>2 DEF Picks
  <2>3. QED
    BY <1>1, <2>1, <2>2
<1>6. QED
  BY <1>2, <1>3, <1>4, <1>5

LEMMA PickedType ==
    ASSUME NEW K
    PROVE  \A s \in Seq(K) : \A I : Picked(s, I) \in Seq(K) /\ Len(Picked(s, I)) <= Len(s)
<1> DEFINE T == {s \in Seq(K) : \A I : Picked(s, I) \in Seq(K) /\ Len(Picked(s, I)) <= Len(s)}
<1>1. T \in SUBSET Seq(K) /\ <<>> \in T
  <2>1. <<>> \in Seq(K) /\ Len(<<>>) <= Len(<<>>)
    BY EmptySeq
  <2>2. \A I : Picked(<<>>, I) \in Seq(K) /\ Len(Picked(<<>>, I)) <= Len(<<>>)
    BY <2>1, PickedEmpty, Zenon
  <2>3. QED
    BY <2>1, <2>2
<1>2. ASSUME NEW s \in T, NEW e \in K PROVE Append(s, e) \in T
  <2>1. s \in Seq(K) /\ Append(s, e) \in Seq(K) /\ Len(Append(s, e)) = Len(s) + 1 /\ Len(s) \in Nat
    BY AppendProperties, LenProperties
  <2>2. ASSUME NEW I
        PROVE  Picked(Append(s, e), I) \in Seq(K) /\ Len(Picked(Append(s, e), I)) <= Len(Append(s, e))
    <3>1. Picked(s, I) \in Seq(K) /\ Len(Picked(s, I)) <= Len(s) /\ Len(Picked(s, I)) \in Nat
      BY LenProperties
    <3>2. \/ Picked(Append(s, e), I) = Append(Picked(s, I), e)
          \/ Picked(Append(s, e), I) = Picked(s, I)
      BY <2>1, PickedAppend
    <3>3. /\ Append(Picked(s, I), e) \in Seq(K)
          /\ Len(Append(Picked(s, I), e)) = Len(Picked(s, I)) + 1
      BY <3>1, AppendProperties
    <3>4. QED
      BY <2>1, <3>1, <3>2, <3>3
  <2>3. QED
    BY <2>1, <2>2
<1> HIDE DEF T
<1>3. T = Seq(K)
  BY <1>1, <1>2, SeqInduction
<1>4. QED
  BY <1>3 DEF T

\* Picking a beginning or an ending.
LEMMA PickedBeginning ==
    ASSUME NEW K
    PROVE  \A s \in Seq(K) : \A I : \A k \in 0..Len(s) :
              (\A i \in 1..Len(s) : i \in I <=> i <= k) =>
                  /\ Len(Picked(s, I)) = k
                  /\ \A i \in 1..k : Picked(s, I)[i] = s[i]
<1> DEFINE Good(s) == \A I : \A k \in 0..Len(s) :
              (\A i \in 1..Len(s) : i \in I <=> i <= k) =>
                  /\ Len(Picked(s, I)) = k
                  /\ \A i \in 1..k : Picked(s, I)[i] = s[i]
           T == {s \in Seq(K) : Good(s)}
<1>1. T \in SUBSET Seq(K) /\ <<>> \in T
  <2>1. <<>> \in Seq(K) /\ Len(<<>>) = 0 /\ \A k \in 0..0 : k = 0 /\ 1..k = {}
    BY EmptySeq
  <2>2. QED
    BY <2>1, PickedEmpty
<1>2. ASSUME NEW s \in T, NEW e \in K PROVE Append(s, e) \in T
  <2> DEFINE n == Len(s)
             a == Append(s, e)
  <2>1. /\ s \in Seq(K) /\ Good(s) /\ n \in Nat
        /\ a \in Seq(K) /\ Len(a) = n + 1 /\ a[n + 1] = e /\ \A i \in 1..n : a[i] = s[i]
    BY AppendProperties, LenProperties
  <2>2. ASSUME NEW I, NEW k \in 0..Len(a), \A i \in 1..Len(a) : i \in I <=> i <= k
        PROVE  /\ Len(Picked(a, I)) = k
               /\ \A i \in 1..k : Picked(a, I)[i] = a[i]
    <3>1. Picked(a, I) = IF n + 1 \in I THEN Append(Picked(s, I), e) ELSE Picked(s, I)
      BY <2>1, PickedAppend
    <3>2. \A i \in 1..n : i \in I <=> i <= k
      BY <2>1, <2>2
    <3> HIDE DEF a, n
    <3>3. CASE k = n + 1
      <4>1. n + 1 \in I
        BY <2>1, <2>2, <3>3
      <4>2. \A i \in 1..n : i \in I <=> i <= n
        BY <2>1, <3>2, <3>3
      <4>3. Len(Picked(s, I)) = n /\ \A i \in 1..n : Picked(s, I)[i] = s[i]
        BY <2>1, <4>2 DEF n
      <4>4. Picked(s, I) \in Seq(K)
        BY <2>1, PickedType
      <4>5. /\ Len(Append(Picked(s, I), e)) = n + 1
            /\ Append(Picked(s, I), e)[n + 1] = e
            /\ \A i \in 1..n : Append(Picked(s, I), e)[i] = Picked(s, I)[i]
        BY <4>3, <4>4, AppendProperties
      <4>6. QED
        BY <2>1, <3>1, <3>3, <4>1, <4>3, <4>5
    <3>4. CASE k # n + 1
      <4>1. n + 1 \notin I /\ k \in 0..n
        BY <2>1, <2>2, <3>4
      <4>2. Len(Picked(s, I)) = k /\ \A i \in 1..k : Picked(s, I)[i] = s[i]
        BY <2>1, <3>2, <4>1 DEF n
      <4>3. QED
        BY <2>1, <3>1, <4>1, <4>2
    <3>5. QED
      BY <3>3, <3>4
  <2>3. QED
    BY <2>1, <2>2
<1> HIDE DEF T
<1>3. T = Seq(K)
  BY <1>1, <1>2, SeqInduction
<1>4. QED
  BY <1>3 DEF T

LEMMA PickedEnding ==
    ASSUME NEW K
    PROVE  \A s \in Seq(K) : \A I : \A k \in 0..Len(s) :
              (\A i \in 1..Len(s) : i \in I <=> i > k) =>
                  /\ Len(Picked(s, I)) = Len(s) - k
                  /\ \A i \in 1..(Len(s) - k) : Picked(s, I)[i] = s[k + i]
<1> DEFINE Good(s) == \A I : \A k \in 0..Len(s) :
              (\A i \in 1..Len(s) : i \in I <=> i > k) =>
                  /\ Len(Picked(s, I)) = Len(s) - k
                  /\ \A i \in 1..(Len(s) - k) : Picked(s, I)[i] = s[k + i]
           T == {s \in Seq(K) : Good(s)}
<1>1. T \in SUBSET Seq(K) /\ <<>> \in T
  <2>1. <<>> \in Seq(K) /\ Len(<<>>) = 0 /\ 1..0 = {} /\ 0 - 0 = 0
    BY EmptySeq
  <2>2. Good(<<>>)
    <3> SUFFICES ASSUME NEW I, NEW k \in 0..Len(<<>>)
                 PROVE  /\ Len(Picked(<<>>, I)) = Len(<<>>) - k
                        /\ \A i \in 1..(Len(<<>>) - k) : Picked(<<>>, I)[i] = <<>>[k + i]
      OBVIOUS
    <3>1. k = 0 /\ Picked(<<>>, I) = <<>>
      BY <2>1, PickedEmpty
    <3>2. QED
      BY <2>1, <3>1
  <2>3. QED
    BY <2>1, <2>2
<1>2. ASSUME NEW s \in T, NEW e \in K PROVE Append(s, e) \in T
  <2> DEFINE n == Len(s)
             a == Append(s, e)
  <2>1. /\ s \in Seq(K) /\ Good(s) /\ n \in Nat
        /\ a \in Seq(K) /\ Len(a) = n + 1 /\ a[n + 1] = e /\ \A i \in 1..n : a[i] = s[i]
    BY AppendProperties, LenProperties
  <2>2. ASSUME NEW I, NEW k \in 0..Len(a), \A i \in 1..Len(a) : i \in I <=> i > k
        PROVE  /\ Len(Picked(a, I)) = Len(a) - k
               /\ \A i \in 1..(Len(a) - k) : Picked(a, I)[i] = a[k + i]
    <3>1. Picked(a, I) = IF n + 1 \in I THEN Append(Picked(s, I), e) ELSE Picked(s, I)
      BY <2>1, PickedAppend
    <3>2. \A i \in 1..n : i \in I <=> i > k
      BY <2>1, <2>2
    <3> HIDE DEF a, n
    <3>3. CASE k = n + 1
      <4>1. n + 1 \notin I /\ \A i \in 1..n : i \in I <=> i > n
        BY <2>1, <2>2, <3>2, <3>3
      <4>2. Len(Picked(s, I)) = n - n
        BY <2>1, <4>1 DEF n
      <4>3. Len(a) - k = 0 /\ Len(Picked(a, I)) = 0 /\ 1..0 = {}
        BY <2>1, <3>1, <3>3, <4>1, <4>2
      <4>4. QED
        BY <4>3
    <3>4. CASE k # n + 1
      <4>1. n + 1 \in I /\ k \in 0..n
        BY <2>1, <2>2, <3>4
      <4>2. Len(Picked(s, I)) = n - k /\ \A i \in 1..(n - k) : Picked(s, I)[i] = s[k + i]
        BY <2>1, <3>2, <4>1 DEF n
      <4>3. Picked(s, I) \in Seq(K)
        BY <2>1, PickedType
      <4>4. /\ Len(Append(Picked(s, I), e)) = (n - k) + 1
            /\ Append(Picked(s, I), e)[(n - k) + 1] = e
            /\ \A i \in 1..(n - k) : Append(Picked(s, I), e)[i] = Picked(s, I)[i]
        BY <4>2, <4>3, AppendProperties
      <4>5. Picked(a, I) = Append(Picked(s, I), e) /\ Len(a) - k = (n - k) + 1
        BY <2>1, <3>1, <4>1
      <4>6. ASSUME NEW i \in 1..((n - k) + 1)
            PROVE  Append(Picked(s, I), e)[i] = a[k + i]
        <5>1. CASE i = (n - k) + 1
          <6>1. k + i = n + 1
            BY <2>1, <4>1, <5>1
          <6>2. QED
            BY <2>1, <4>4, <5>1, <6>1
        <5>2. CASE i \in 1..(n - k)
          <6>1. k + i \in 1..n
            BY <2>1, <4>1, <5>2
          <6>2. QED
            BY <2>1, <4>2, <4>4, <5>2, <6>1
        <5>3. n - k \in Nat
          BY <2>1, <4>1
        <5>4. i = (n - k) + 1 \/ i \in 1..(n - k)
          BY <2>1, <4>1, <4>6, <5>3
        <5>5. QED
          BY <5>1, <5>2, <5>4
      <4>7. QED
        BY <4>4, <4>5, <4>6
    <3>5. QED
      BY <3>3, <3>4
  <2>3. QED
    BY <2>1, <2>2
<1> HIDE DEF T
<1>3. T = Seq(K)
  BY <1>1, <1>2, SeqInduction
<1>4. QED
  BY <1>3 DEF T

-----------------------------------------------------------------------------
(* What is said in a window, for a given set of spoken frames.             *)

Placed(a) == [i \in DOMAIN a |-> [text |-> a[i], end |-> i]]

PlacesIn(S, a) == {i \in DOMAIN a : a[i] \in S}

SaidOf(S, a) == Picked(Placed(a), PlacesIn(S, a))

SpokenOf(S, a) == Picked(a, PlacesIn(S, a))

\* For the frames spoken so far it is what the model has.
LEMMA SaidIs == \A a : Said(a) = SaidOf(spoken, a) /\ SpokenIn(a) = SpokenOf(spoken, a)
  BY DEF Said, SpokenIn, SpokenAt, SaidOf, SpokenOf, Placed, PlacesIn

SaidWords == [text: Nat, end: Nat]

\* The frames of a window at their places.
LEMMA PlacedType ==
    ASSUME NEW a \in Seq(Nat)
    PROVE  /\ Placed(a) \in Seq(SaidWords) /\ Len(Placed(a)) = Len(a)
           /\ DOMAIN a = 1..Len(a) /\ Len(a) \in Nat
           /\ \A i \in 1..Len(a) : Placed(a)[i] = [text |-> a[i], end |-> i] /\ a[i] \in Nat
<1>1. DOMAIN a = 1..Len(a) /\ Len(a) \in Nat /\ \A i \in 1..Len(a) : a[i] \in Nat
  BY LenProperties, ElementOfSeq
<1>2. \A i \in 1..Len(a) : [text |-> a[i], end |-> i] \in SaidWords
  BY <1>1 DEF SaidWords
<1>3. Placed(a) = [i \in 1..Len(a) |-> [text |-> a[i], end |-> i]]
  BY <1>1 DEF Placed
<1>4. Placed(a) \in Seq(SaidWords) /\ Len(Placed(a)) = Len(a)
  BY <1>1, <1>2, <1>3, IsASeq, LenProperties
<1>5. QED
  BY <1>1, <1>3, <1>4

\* One more frame: a word more, or none.
LEMMA SaidAppend ==
    ASSUME NEW S, NEW a \in Seq(Nat), NEW e \in Nat
    PROVE  /\ SaidOf(S, Append(a, e))
                 = IF e \in S THEN Append(SaidOf(S, a), [text |-> e, end |-> Len(a) + 1])
                   ELSE SaidOf(S, a)
           /\ SpokenOf(S, Append(a, e))
                 = IF e \in S THEN Append(SpokenOf(S, a), e) ELSE SpokenOf(S, a)
<1> DEFINE n == Len(a)
           b == Append(a, e)
           w == [text |-> e, end |-> n + 1]
<1>1. /\ n \in Nat /\ b \in Seq(Nat) /\ Len(b) = n + 1 /\ b[n + 1] = e
      /\ \A i \in 1..n : b[i] = a[i]
  BY AppendProperties, LenProperties
<1>2. /\ DOMAIN a = 1..n /\ Placed(a) \in Seq(SaidWords) /\ Len(Placed(a)) = n
      /\ \A i \in 1..n : Placed(a)[i] = [text |-> a[i], end |-> i]
  BY PlacedType
<1> HIDE DEF b
<1>3. /\ DOMAIN b = 1..(n + 1) /\ Placed(b) \in Seq(SaidWords) /\ Len(Placed(b)) = n + 1
      /\ \A i \in 1..(n + 1) : Placed(b)[i] = [text |-> b[i], end |-> i]
  BY <1>1, PlacedType
<1>4. w \in SaidWords
  BY <1>1 DEF SaidWords
<1> HIDE DEF w
<1>5. Placed(b) = Append(Placed(a), w)
  <2>1. /\ Append(Placed(a), w) \in Seq(SaidWords) /\ Len(Append(Placed(a), w)) = n + 1
        /\ Append(Placed(a), w)[n + 1] = w
        /\ \A i \in 1..n : Append(Placed(a), w)[i] = Placed(a)[i]
    BY <1>2, <1>4, AppendProperties
  <2>2. \A i \in 1..(n + 1) : Placed(b)[i] = Append(Placed(a), w)[i]
    <3> SUFFICES ASSUME NEW i \in 1..(n + 1) PROVE Placed(b)[i] = Append(Placed(a), w)[i]
      OBVIOUS
    <3>1. CASE i = n + 1
      BY <1>1, <1>3, <2>1, <3>1 DEF w
    <3>2. CASE i \in 1..n
      <4>1. Append(Placed(a), w)[i] = Placed(a)[i]
        BY <2>1, <3>2
      <4>2. Placed(a)[i] = [text |-> a[i], end |-> i]
        BY <1>2, <3>2
      <4>3. Placed(b)[i] = [text |-> b[i], end |-> i]
        BY <1>3
      <4>4. b[i] = a[i]
        BY <1>1, <3>2
      <4>5. QED
        BY <4>1, <4>2, <4>3, <4>4
    <3>3. i = n + 1 \/ i \in 1..n
      BY <1>1
    <3>4. QED
      BY <3>1, <3>2, <3>3
  <2>3. QED
    BY <1>3, <2>1, <2>2, SeqEqual
<1>6. \A i \in 1..n : i \in PlacesIn(S, a) <=> i \in PlacesIn(S, b)
  BY <1>1, <1>2, <1>3 DEF PlacesIn
<1>7. n + 1 \in PlacesIn(S, b) <=> e \in S
  BY <1>1, <1>3 DEF PlacesIn
<1>8. SaidOf(S, b) = IF e \in S THEN Append(SaidOf(S, a), w) ELSE SaidOf(S, a)
  <2>1. Picked(Append(Placed(a), w), PlacesIn(S, b))
           = IF Len(Placed(a)) + 1 \in PlacesIn(S, b)
             THEN Append(Picked(Placed(a), PlacesIn(S, a)), w)
             ELSE Picked(Placed(a), PlacesIn(S, a))
    BY <1>2, <1>4, <1>6, PickedAppend
  <2>2. QED
    BY <1>2, <1>5, <1>7, <2>1 DEF SaidOf
<1>9. SpokenOf(S, b) = IF e \in S THEN Append(SpokenOf(S, a), e) ELSE SpokenOf(S, a)
  <2>1. Picked(Append(a, e), PlacesIn(S, b))
           = IF n + 1 \in PlacesIn(S, b)
             THEN Append(Picked(a, PlacesIn(S, a)), e)
             ELSE Picked(a, PlacesIn(S, a))
    BY <1>6, PickedAppend
  <2>2. QED
    BY <1>7, <2>1 DEF SpokenOf, b
<1>10. QED
  BY <1>8, <1>9 DEF b, w

LEMMA SaidEmpty == \A S : SaidOf(S, <<>>) = <<>> /\ SpokenOf(S, <<>>) = <<>>
<1> TAKE S
<1>1. <<>> \in Seq(Nat)
  BY EmptySeq
<1>2. Placed(<<>>) = <<>>
  BY DEF Placed
<1>3. QED
  BY <1>2, PickedEmpty, Zenon DEF SaidOf, SpokenOf

\* Words are in the order of their frames, each at its frame, and none is missing.
Enumerates(S, a) ==
    /\ SaidOf(S, a) \in Seq(SaidWords)
    /\ SpokenOf(S, a) \in Seq(Nat) /\ Len(SpokenOf(S, a)) = Len(SaidOf(S, a))
    /\ \A i \in 1..Len(SaidOf(S, a)) :
          /\ SaidOf(S, a)[i].end \in 1..Len(a)
          /\ SaidOf(S, a)[i].text \in S
          /\ SaidOf(S, a)[i].text = a[SaidOf(S, a)[i].end]
          /\ SpokenOf(S, a)[i] = SaidOf(S, a)[i].text
    /\ \A i, j \in 1..Len(SaidOf(S, a)) : i < j => SaidOf(S, a)[i].end < SaidOf(S, a)[j].end
    /\ \A p \in 1..Len(a) : a[p] \in S => \E i \in 1..Len(SaidOf(S, a)) : SaidOf(S, a)[i].end = p

\* Said enumerates the spoken frames of any window.
LEMMA SaidEnumerates ==
    ASSUME NEW S
    PROVE  \A a \in Seq(Nat) : Enumerates(S, a)
<1> DEFINE T == {a \in Seq(Nat) : Enumerates(S, a)}
<1>1. T \in SUBSET Seq(Nat) /\ <<>> \in T
  <2>1. SaidOf(S, <<>>) = <<>> /\ SpokenOf(S, <<>>) = <<>>
    BY SaidEmpty
  <2>2. <<>> \in Seq(Nat) /\ <<>> \in Seq(SaidWords) /\ Len(<<>>) = 0 /\ 1..0 = {}
    BY EmptySeq
  <2>3. Enumerates(S, <<>>)
    BY <2>1, <2>2 DEF Enumerates
  <2>4. QED
    BY <2>2, <2>3
<1>2. ASSUME NEW a \in T, NEW e \in Nat PROVE Append(a, e) \in T
  <2> DEFINE n == Len(a)
             b == Append(a, e)
             w == [text |-> e, end |-> n + 1]
             A == SaidOf(S, a)
             P == SpokenOf(S, a)
  <2>1. /\ a \in Seq(Nat) /\ Enumerates(S, a) /\ n \in Nat
        /\ b \in Seq(Nat) /\ Len(b) = n + 1 /\ b[n + 1] = e /\ \A i \in 1..n : b[i] = a[i]
    BY AppendProperties, LenProperties
  <2>2. /\ A \in Seq(SaidWords) /\ P \in Seq(Nat) /\ Len(A) \in Nat /\ Len(P) = Len(A)
    BY <2>1, LenProperties DEF Enumerates
  <2>3. w \in SaidWords /\ w.text = e /\ w.end = n + 1
    BY <2>1 DEF SaidWords
  <2>4. /\ SaidOf(S, b) = IF e \in S THEN Append(A, w) ELSE A
        /\ SpokenOf(S, b) = IF e \in S THEN Append(P, e) ELSE P
    BY <2>1, SaidAppend
  <2>5. /\ \A i \in 1..Len(A) :
              /\ A[i].end \in 1..n /\ A[i].text \in S
              /\ A[i].text = b[A[i].end] /\ P[i] = A[i].text
        /\ \A i, j \in 1..Len(A) : i < j => A[i].end < A[j].end
        /\ \A p \in 1..n : b[p] \in S => \E i \in 1..Len(A) : A[i].end = p
    BY <2>1 DEF Enumerates
  <2> HIDE DEF w, b, A, P, n
  <2>6. CASE e \in S
    <3> DEFINE B == Append(A, w)
               Q == Append(P, e)
    <3>1. /\ B \in Seq(SaidWords) /\ Len(B) = Len(A) + 1 /\ B[Len(A) + 1] = w
          /\ \A i \in 1..Len(A) : B[i] = A[i]
          /\ Q \in Seq(Nat) /\ Len(Q) = Len(A) + 1 /\ Q[Len(A) + 1] = e
          /\ \A i \in 1..Len(A) : Q[i] = P[i]
      BY <2>2, <2>3, AppendProperties
    <3>2. SaidOf(S, b) = B /\ SpokenOf(S, b) = Q
      BY <2>4, <2>6
    <3> HIDE DEF B, Q
    <3>3. ASSUME NEW i \in 1..Len(B)
          PROVE  /\ B[i].end \in 1..Len(b) /\ B[i].text \in S
                 /\ B[i].text = b[B[i].end] /\ Q[i] = B[i].text
      <4>1. CASE i = Len(A) + 1
        BY <2>1, <2>3, <2>6, <3>1, <4>1
      <4>2. CASE i \in 1..Len(A)
        <5>1. B[i] = A[i] /\ Q[i] = P[i] /\ A[i].end \in 1..Len(b)
          BY <2>1, <2>5, <3>1, <4>2
        <5>2. QED
          BY <2>5, <4>2, <5>1
      <4>3. QED
        BY <2>2, <3>1, <3>3, <4>1, <4>2
    <3>4. ASSUME NEW i \in 1..Len(B), NEW j \in 1..Len(B), i < j
          PROVE  B[i].end < B[j].end
      <4>1. i \in 1..Len(A) /\ B[i] = A[i] /\ A[i].end \in 1..n
        BY <2>2, <2>5, <3>1, <3>4
      <4>2. CASE j = Len(A) + 1
        BY <2>1, <2>3, <3>1, <4>1, <4>2
      <4>3. CASE j \in 1..Len(A)
        BY <2>5, <3>1, <3>4, <4>1, <4>3
      <4>4. j = Len(A) + 1 \/ j \in 1..Len(A)
        <5>1. Len(B) = Len(A) + 1 /\ Len(A) \in Nat
          BY <2>2, <3>1
        <5>2. QED
          BY <5>1
      <4>5. QED
        BY <4>2, <4>3, <4>4
    <3>5. ASSUME NEW p \in 1..Len(b), b[p] \in S
          PROVE  \E i \in 1..Len(B) : B[i].end = p
      <4>1. CASE p = n + 1
        <5>1. Len(A) + 1 \in 1..Len(B) /\ B[Len(A) + 1].end = p
          BY <2>2, <2>3, <3>1, <4>1
        <5>2. QED
          BY <5>1
      <4>2. CASE p \in 1..n
        <5>1. PICK i \in 1..Len(A) : A[i].end = p
          BY <2>5, <3>5, <4>2
        <5>2. i \in 1..Len(B) /\ B[i].end = p
          BY <2>2, <3>1, <5>1
        <5>3. QED
          BY <5>2
      <4>3. QED
        BY <2>1, <3>5, <4>1, <4>2
    <3>6. Enumerates(S, b)
      BY <3>1, <3>2, <3>3, <3>4, <3>5 DEF Enumerates
    <3>7. QED
      BY <2>1, <3>6 DEF b
  <2>7. CASE e \notin S
    <3>1. SaidOf(S, b) = A /\ SpokenOf(S, b) = P
      BY <2>4, <2>7
    <3>2. \A i \in 1..Len(A) : A[i].end \in 1..Len(b)
      BY <2>1, <2>5
    <3>3. ASSUME NEW p \in 1..Len(b), b[p] \in S
          PROVE  \E i \in 1..Len(A) : A[i].end = p
      <4>1. p \in 1..n
        BY <2>1, <2>7, <3>3
      <4>2. QED
        BY <2>5, <3>3, <4>1
    <3>4. Enumerates(S, b)
      BY <2>2, <2>5, <3>1, <3>2, <3>3 DEF Enumerates
    <3>5. QED
      BY <2>1, <3>4 DEF b
  <2>8. QED
    BY <2>6, <2>7
<1> HIDE DEF T
<1>3. T = Seq(Nat)
  BY <1>1, <1>2, SeqInduction
<1>4. QED
  BY <1>3 DEF T

\* What is said in two windows, one after the other.
Joins(S, a, b) ==
    LET A == SaidOf(S, a)
        B == SaidOf(S, b)
        C == SaidOf(S, a \o b)
    IN  /\ Len(C) = Len(A) + Len(B)
        /\ \A i \in 1..Len(A) : C[i] = A[i]
        /\ \A i \in 1..Len(B) : /\ C[Len(A) + i].text = B[i].text
                                /\ C[Len(A) + i].end = Len(a) + B[i].end

\* And joins what was said in its two parts.
LEMMA SaidJoins ==
    ASSUME NEW S, NEW a \in Seq(Nat)
    PROVE  \A b \in Seq(Nat) : Joins(S, a, b)
<1> DEFINE T == {b \in Seq(Nat) : Joins(S, a, b)}
           A == SaidOf(S, a)
<1>0. A \in Seq(SaidWords) /\ Len(A) \in Nat /\ Len(a) \in Nat
  BY SaidEnumerates, LenProperties DEF Enumerates
<1>1. T \in SUBSET Seq(Nat) /\ <<>> \in T
  <2>1. SaidOf(S, <<>>) = <<>> /\ a \o <<>> = a
    BY SaidEmpty, ConcatEmptySeq
  <2>2. <<>> \in Seq(Nat) /\ Len(<<>>) = 0 /\ 1..0 = {}
    BY EmptySeq
  <2>3. Joins(S, a, <<>>)
    BY <1>0, <2>1, <2>2 DEF Joins
  <2>4. QED
    BY <2>2, <2>3
<1>2. ASSUME NEW b \in T, NEW e \in Nat PROVE Append(b, e) \in T
  <2> DEFINE n == Len(b)
             B == SaidOf(S, b)
             c == a \o b
             C == SaidOf(S, c)
             b1 == Append(b, e)
             v == [text |-> e, end |-> n + 1]
             w == [text |-> e, end |-> (Len(a) + n) + 1]
  <2>1. /\ b \in Seq(Nat) /\ Joins(S, a, b) /\ n \in Nat
        /\ b1 \in Seq(Nat)
        /\ c \in Seq(Nat) /\ Len(c) = Len(a) + n /\ a \o b1 = Append(c, e)
    <3>1. b \in Seq(Nat) /\ Joins(S, a, b)
      OBVIOUS
    <3>2. n \in Nat /\ b1 \in Seq(Nat) /\ c \in Seq(Nat) /\ Len(c) = Len(a) + n
      BY <3>1, AppendProperties, LenProperties, ConcatProperties
    <3>3. a \o b1 = Append(c, e)
      <4>1. <<e>> \in Seq(Nat) /\ b1 = b \o <<e>> /\ Append(c, e) = c \o <<e>>
        BY <3>1, <3>2, AppendIsConcat
      <4>2. (a \o b) \o <<e>> = a \o (b \o <<e>>)
        BY <3>1, <4>1, ConcatAssociative
      <4>3. QED
        BY <4>1, <4>2
    <3>4. QED
      BY <3>1, <3>2, <3>3
  <2>2. /\ B \in Seq(SaidWords) /\ Len(B) \in Nat /\ C \in Seq(SaidWords) /\ Len(C) \in Nat
    BY <2>1, SaidEnumerates, LenProperties DEF Enumerates
  <2>3. v \in SaidWords /\ v.text = e /\ v.end = n + 1 /\ w \in SaidWords /\ w.text = e
        /\ w.end = Len(a) + (n + 1)
    BY <1>0, <2>1 DEF SaidWords
  <2>4. /\ Len(C) = Len(A) + Len(B)
        /\ \A i \in 1..Len(A) : C[i] = A[i]
        /\ \A i \in 1..Len(B) : C[Len(A) + i].text = B[i].text
                                /\ C[Len(A) + i].end = Len(a) + B[i].end
    BY <2>1 DEF Joins
  <2>5. SaidOf(S, b1) = IF e \in S THEN Append(B, v) ELSE B
    BY <2>1, SaidAppend
  <2>6. SaidOf(S, a \o b1) = IF e \in S THEN Append(C, w) ELSE C
    <3>1. SaidOf(S, Append(c, e)) = IF e \in S
                                    THEN Append(SaidOf(S, c), [text |-> e, end |-> Len(c) + 1])
                                    ELSE SaidOf(S, c)
      <4> HIDE DEF c
      <4>1. QED
        BY <2>1, SaidAppend
    <3>2. w = [text |-> e, end |-> Len(c) + 1]
      BY <2>1
    <3>3. QED
      BY <2>1, <3>1, <3>2
  <2> HIDE DEF A, B, C, c, v, w, n, b1
  <2>7. CASE e \in S
    <3> DEFINE B1 == Append(B, v)
               C1 == Append(C, w)
    <3>1. /\ Len(B1) = Len(B) + 1 /\ B1[Len(B) + 1] = v /\ \A i \in 1..Len(B) : B1[i] = B[i]
          /\ Len(C1) = Len(C) + 1 /\ C1[Len(C) + 1] = w /\ \A i \in 1..Len(C) : C1[i] = C[i]
      BY <2>2, <2>3, AppendProperties
    <3>2. SaidOf(S, b1) = B1 /\ SaidOf(S, a \o b1) = C1
      BY <2>5, <2>6, <2>7
    <3> HIDE DEF B1, C1
    <3>3. Len(C1) = Len(A) + Len(B1) /\ \A i \in 1..Len(A) : C1[i] = A[i]
      BY <1>0, <2>2, <2>4, <3>1
    <3>4. ASSUME NEW i \in 1..Len(B1)
          PROVE  C1[Len(A) + i].text = B1[i].text /\ C1[Len(A) + i].end = Len(a) + B1[i].end
      <4>1. CASE i = Len(B) + 1
        <5>1. Len(A) + i = Len(C) + 1
          BY <1>0, <2>2, <2>4, <4>1
        <5>2. C1[Len(A) + i] = w /\ B1[i] = v
          BY <3>1, <4>1, <5>1
        <5>3. QED
          BY <2>3, <5>2
      <4>2. CASE i \in 1..Len(B)
        <5>1. Len(A) + i \in 1..Len(C)
          BY <1>0, <2>2, <2>4, <4>2
        <5>2. C1[Len(A) + i] = C[Len(A) + i] /\ B1[i] = B[i]
          BY <3>1, <4>2, <5>1
        <5>3. QED
          BY <2>4, <4>2, <5>2
      <4>3. QED
        BY <2>2, <3>1, <3>4, <4>1, <4>2
    <3>5. Joins(S, a, b1)
      BY <3>2, <3>3, <3>4 DEF Joins, A
    <3>6. QED
      BY <2>1, <3>5 DEF b1
  <2>8. CASE e \notin S
    <3>1. SaidOf(S, b1) = B /\ SaidOf(S, a \o b1) = C
      BY <2>5, <2>6, <2>8
    <3>2. Joins(S, a, b1)
      BY <2>4, <3>1 DEF Joins, A
    <3>3. QED
      BY <2>1, <3>2 DEF b1
  <2>9. QED
    BY <2>7, <2>8
<1> HIDE DEF T
<1>3. T = Seq(Nat)
  BY <1>1, <1>2, SeqInduction
<1>4. QED
  BY <1>3 DEF T

LEMMA SpokenJoins ==
    ASSUME NEW S, NEW a \in Seq(Nat), NEW b \in Seq(Nat)
    PROVE  SpokenOf(S, a \o b) = SpokenOf(S, a) \o SpokenOf(S, b)
<1> DEFINE A == SaidOf(S, a)
           B == SaidOf(S, b)
           C == SaidOf(S, a \o b)
           P == SpokenOf(S, a)
           Q == SpokenOf(S, b)
           R == SpokenOf(S, a \o b)
<1>1. /\ A \in Seq(SaidWords) /\ P \in Seq(Nat) /\ Len(P) = Len(A) /\ Len(A) \in Nat
      /\ \A i \in 1..Len(A) : P[i] = A[i].text
  BY SaidEnumerates, LenProperties, ZenonT(30) DEF Enumerates
<1>2. /\ B \in Seq(SaidWords) /\ Q \in Seq(Nat) /\ Len(Q) = Len(B) /\ Len(B) \in Nat
      /\ \A i \in 1..Len(B) : Q[i] = B[i].text
  BY SaidEnumerates, LenProperties DEF Enumerates
<1>3. /\ C \in Seq(SaidWords) /\ R \in Seq(Nat) /\ Len(R) = Len(C) /\ Len(C) \in Nat
      /\ \A i \in 1..Len(C) : R[i] = C[i].text
  <2>1. a \o b \in Seq(Nat)
    BY ConcatProperties
  <2>2. QED
    BY <2>1, SaidEnumerates, LenProperties, ZenonT(30) DEF Enumerates
<1>4. /\ Len(C) = Len(A) + Len(B)
      /\ \A i \in 1..Len(A) : C[i] = A[i]
      /\ \A i \in 1..Len(B) : C[Len(A) + i].text = B[i].text
  <2>1. Joins(S, a, b)
    BY SaidJoins
  <2>2. QED
    BY <2>1 DEF Joins
<1> HIDE DEF A, B, C, P, Q, R
<1>5. /\ P \o Q \in Seq(Nat) /\ Len(P \o Q) = Len(A) + Len(B)
      /\ \A i \in 1..(Len(A) + Len(B)) : (P \o Q)[i] = IF i <= Len(A) THEN P[i] ELSE Q[i - Len(A)]
  <2>1. /\ P \o Q \in Seq(Nat) /\ Len(P \o Q) = Len(P) + Len(Q)
        /\ \A i \in 1..(Len(P) + Len(Q)) : (P \o Q)[i] = IF i <= Len(P) THEN P[i] ELSE Q[i - Len(P)]
    BY <1>1, <1>2, ConcatProperties
  <2>2. Len(P) = Len(A) /\ Len(Q) = Len(B)
    BY <1>1, <1>2
  <2>3. QED
    BY <2>1, <2>2, Zenon
<1>6. ASSUME NEW i \in 1..Len(R) PROVE R[i] = (P \o Q)[i]
  <2>1. CASE i \in 1..Len(A)
    <3>1. (P \o Q)[i] = P[i] /\ i \in 1..Len(C)
      BY <1>1, <1>2, <1>4, <1>5, <2>1
    <3>2. QED
      BY <1>1, <1>3, <1>4, <2>1, <3>1
  <2>2. CASE i \notin 1..Len(A)
    <3> DEFINE k == i - Len(A)
    <3>1. k \in 1..Len(B) /\ Len(A) + k = i /\ ~(i <= Len(A)) /\ i \in 1..(Len(A) + Len(B)) /\ i \in 1..Len(C)
      BY <1>1, <1>2, <1>3, <1>4, <1>6, <2>2
    <3>2. (P \o Q)[i] = Q[k]
      BY <1>5, <3>1
    <3>3. C[Len(A) + k].text = B[k].text
      BY <1>4, <3>1
    <3> HIDE DEF k
    <3>4. QED
      BY <1>2, <1>3, <3>1, <3>2, <3>3
  <2>3. QED
    BY <2>1, <2>2
<1>7. R = P \o Q
  BY <1>3, <1>4, <1>5, <1>6, SeqEqual
<1>8. QED
  BY <1>7 DEF P, Q, R

\* Silence says nothing.
LEMMA SaidSilence ==
    ASSUME NEW S, NEW a \in Seq(Nat), NEW b \in Seq(Nat), \A i \in 1..Len(b) : b[i] \notin S
    PROVE  SaidOf(S, a \o b) = SaidOf(S, a)
<1> DEFINE A == SaidOf(S, a)
           B == SaidOf(S, b)
           C == SaidOf(S, a \o b)
<1>1. /\ B \in Seq(SaidWords) /\ Len(B) \in Nat
      /\ \A i \in 1..Len(B) : B[i].end \in 1..Len(b) /\ B[i].text \in S /\ B[i].text = b[B[i].end]
  BY SaidEnumerates, LenProperties DEF Enumerates
<1>2. A \in Seq(SaidWords) /\ Len(A) \in Nat
  BY SaidEnumerates, LenProperties DEF Enumerates
<1>3. C \in Seq(SaidWords)
  <2>1. a \o b \in Seq(Nat)
    BY ConcatProperties
  <2>2. QED
    BY <2>1, SaidEnumerates DEF Enumerates
<1>4. Len(C) = Len(A) + Len(B) /\ \A i \in 1..Len(A) : C[i] = A[i]
  BY SaidJoins DEF Joins
<1> HIDE DEF A, B, C
<1>5. Len(B) = 0
  <2>1. SUFFICES ASSUME Len(B) # 0 PROVE FALSE
    OBVIOUS
  <2>2. 1 \in 1..Len(B)
    BY <1>1, <2>1
  <2>3. QED
    BY <1>1, <2>2
<1>6. Len(C) = Len(A)
  BY <1>2, <1>4, <1>5
<1>7. C = A
  BY <1>2, <1>3, <1>4, <1>6, SeqEqual
<1>8. QED
  BY <1>7 DEF A, C

\* Only the frames of the window matter.
Alike(K, S, R) == \A f \in K : f \in S <=> f \in R

LEMMA SaidSame ==
    ASSUME NEW S, NEW R, NEW K, NEW a \in Seq(K), Alike(K, S, R)
    PROVE  SaidOf(S, a) = SaidOf(R, a) /\ SpokenOf(S, a) = SpokenOf(R, a)
<1>1. PlacesIn(S, a) = PlacesIn(R, a)
  <2>1. DOMAIN a = 1..Len(a) /\ \A i \in 1..Len(a) : a[i] \in K
    BY LenProperties, ElementOfSeq
  <2>2. QED
    BY <2>1 DEF PlacesIn, Alike
<1>2. QED
  BY <1>1 DEF SaidOf, SpokenOf

\* What is picked is one of the elements picked from.
LEMMA PickedFrom ==
    ASSUME NEW K
    PROVE  \A s \in Seq(K) : \A I :
              \A i \in 1..Len(Picked(s, I)) : \E j \in 1..Len(s) : j \in I /\ Picked(s, I)[i] = s[j]
<1> DEFINE Good(s) == \A I :
              \A i \in 1..Len(Picked(s, I)) : \E j \in 1..Len(s) : j \in I /\ Picked(s, I)[i] = s[j]
           T == {s \in Seq(K) : Good(s)}
<1>1. T \in SUBSET Seq(K) /\ <<>> \in T
  <2>1. <<>> \in Seq(K) /\ Len(<<>>) = 0 /\ 1..0 = {}
    BY EmptySeq
  <2>2. \A I : Picked(<<>>, I) = <<>>
    BY PickedEmpty
  <2>3. Good(<<>>)
    BY <2>1, <2>2
  <2>4. QED
    BY <2>1, <2>3
<1>2. ASSUME NEW s \in T, NEW e \in K PROVE Append(s, e) \in T
  <2> DEFINE n == Len(s)
             a == Append(s, e)
  <2>1. /\ s \in Seq(K) /\ Good(s) /\ n \in Nat
        /\ a \in Seq(K) /\ Len(a) = n + 1 /\ a[n + 1] = e /\ \A i \in 1..n : a[i] = s[i]
    BY AppendProperties, LenProperties
  <2>2. ASSUME NEW I, NEW i \in 1..Len(Picked(a, I))
        PROVE  \E j \in 1..Len(a) : j \in I /\ Picked(a, I)[i] = a[j]
    <3> DEFINE P == Picked(s, I)
    <3>1. Picked(a, I) = IF n + 1 \in I THEN Append(P, e) ELSE P
      BY <2>1, PickedAppend
    <3>2. P \in Seq(K) /\ Len(P) \in Nat
      BY <2>1, PickedType, LenProperties
    <3>3. \A k \in 1..Len(P) : \E j \in 1..n : j \in I /\ P[k] = s[j]
      BY <2>1
    <3> HIDE DEF P, a, n
    <3>4. ASSUME i \in 1..Len(P), Picked(a, I)[i] = P[i]
          PROVE  \E j \in 1..Len(a) : j \in I /\ Picked(a, I)[i] = a[j]
      <4>1. PICK j \in 1..n : j \in I /\ P[i] = s[j]
        BY <3>3, <3>4
      <4>2. j \in 1..Len(a) /\ a[j] = s[j]
        BY <2>1, <4>1
      <4>3. QED
        BY <3>4, <4>1, <4>2
    <3>5. CASE n + 1 \in I
      <4>1. /\ Len(Append(P, e)) = Len(P) + 1 /\ Append(P, e)[Len(P) + 1] = e
            /\ \A k \in 1..Len(P) : Append(P, e)[k] = P[k]
        BY <3>2, AppendProperties
      <4>2. Picked(a, I) = Append(P, e)
        BY <3>1, <3>5
      <4>3. i = Len(P) + 1 \/ i \in 1..Len(P)
        <5>1. Len(Picked(a, I)) = Len(P) + 1
          BY <4>1, <4>2
        <5>2. QED
          BY <3>2, <5>1
      <4>4. CASE i = Len(P) + 1
        <5>1. n + 1 \in 1..Len(a) /\ Picked(a, I)[i] = a[n + 1]
          BY <2>1, <4>1, <4>2, <4>4
        <5>2. QED
          BY <3>5, <5>1
      <4>5. CASE i \in 1..Len(P)
        BY <3>4, <4>1, <4>2, <4>5
      <4>6. QED
        BY <4>3, <4>4, <4>5
    <3>6. CASE n + 1 \notin I
      <4>1. Picked(a, I) = P
        BY <3>1, <3>6
      <4>2. QED
        BY <3>4, <4>1
    <3>7. QED
      BY <3>5, <3>6
  <2>3. QED
    BY <2>1, <2>2
<1> HIDE DEF T
<1>3. T = Seq(K)
  BY <1>1, <1>2, SeqInduction
<1>4. QED
  BY <1>3 DEF T

-----------------------------------------------------------------------------
(* Words and texts.                                                        *)

\* Words and their frames.
Word == [text: Int, end: Nat]

LEMMA FrameOfText ==
    ASSUME NEW t \in Int
    PROVE  FrameOf(t) \in Nat /\ FrameOf(-t) = FrameOf(t) /\ (t \in Nat => FrameOf(t) = t)
  BY DEF FrameOf

\* What lists of words and of texts are made of.
LEMMA TextsType ==
    ASSUME NEW ws \in Words
    PROVE  /\ Texts(ws) \in TextsOfWords /\ Len(Texts(ws)) = Len(ws) /\ Len(ws) \in Nat
           /\ \A i \in 1..Len(ws) : /\ Texts(ws)[i] = ws[i].text
                                    /\ ws[i] \in Word /\ ws[i].text \in Int /\ ws[i].end \in Nat
<1>1. /\ DOMAIN ws = 1..Len(ws) /\ Len(ws) \in Nat
      /\ \A i \in 1..Len(ws) : ws[i] \in Word
  BY LenProperties, ElementOfSeq DEF Words, Word
<1>2. \A i \in 1..Len(ws) : ws[i].text \in Int /\ ws[i].end \in Nat
  BY <1>1 DEF Word
<1>3. Texts(ws) = [i \in 1..Len(ws) |-> ws[i].text]
  BY <1>1 DEF Texts
<1>4. Texts(ws) \in Seq(Int) /\ Len(Texts(ws)) = Len(ws)
  BY <1>1, <1>2, <1>3, IsASeq, LenProperties
<1>5. QED
  BY <1>1, <1>2, <1>3, <1>4 DEF TextsOfWords

LEMMA FramesOfType ==
    ASSUME NEW t \in TextsOfWords
    PROVE  /\ FramesOf(t) \in Seq(Nat) /\ Len(FramesOf(t)) = Len(t) /\ Len(t) \in Nat
           /\ \A i \in 1..Len(t) : FramesOf(t)[i] = FrameOf(t[i]) /\ t[i] \in Int
<1>1. /\ DOMAIN t = 1..Len(t) /\ Len(t) \in Nat /\ \A i \in 1..Len(t) : t[i] \in Int
  BY LenProperties, ElementOfSeq DEF TextsOfWords
<1>2. \A i \in 1..Len(t) : FrameOf(t[i]) \in Nat
  BY <1>1, FrameOfText
<1>3. FramesOf(t) = [i \in 1..Len(t) |-> FrameOf(t[i])]
  BY <1>1 DEF FramesOf
<1>4. FramesOf(t) \in Seq(Nat) /\ Len(FramesOf(t)) = Len(t)
  BY <1>1, <1>2, <1>3, IsASeq, LenProperties
<1>5. QED
  BY <1>1, <1>3, <1>4

LEMMA FramesOfJoin ==
    ASSUME NEW s \in TextsOfWords, NEW t \in TextsOfWords
    PROVE  /\ s \o t \in TextsOfWords
           /\ FramesOf(s \o t) = FramesOf(s) \o FramesOf(t)
<1>1. /\ s \o t \in TextsOfWords /\ Len(s \o t) = Len(s) + Len(t)
      /\ \A i \in 1..(Len(s) + Len(t)) : (s \o t)[i] = IF i <= Len(s) THEN s[i] ELSE t[i - Len(s)]
  BY ConcatProperties DEF TextsOfWords
<1> DEFINE st == s \o t
           F == FramesOf(s)
           G == FramesOf(t)
           H == FramesOf(st)
<1>2. /\ F \in Seq(Nat) /\ Len(F) = Len(s) /\ Len(s) \in Nat
      /\ \A i \in 1..Len(s) : F[i] = FrameOf(s[i])
  BY FramesOfType
<1>3. /\ G \in Seq(Nat) /\ Len(G) = Len(t) /\ Len(t) \in Nat
      /\ \A i \in 1..Len(t) : G[i] = FrameOf(t[i])
  BY FramesOfType
<1> HIDE DEF st
<1>4. /\ H \in Seq(Nat) /\ Len(H) = Len(st)
      /\ \A i \in 1..Len(st) : H[i] = FrameOf(st[i])
  BY <1>1, FramesOfType DEF st
<1> HIDE DEF F, G, H
<1>5. /\ F \o G \in Seq(Nat) /\ Len(F \o G) = Len(F) + Len(G)
      /\ \A i \in 1..(Len(F) + Len(G)) : (F \o G)[i] = IF i <= Len(F) THEN F[i] ELSE G[i - Len(F)]
  <2>1. F \in Seq(Nat) /\ G \in Seq(Nat)
    BY <1>2, <1>3
  <2>2. QED
    BY <2>1, ConcatProperties
<1>6. ASSUME NEW i \in 1..Len(H) PROVE H[i] = (F \o G)[i]
  <2>0. Len(H) = Len(s) + Len(t) /\ i \in 1..(Len(F) + Len(G))
    BY <1>1, <1>2, <1>3, <1>4 DEF st
  <2>1. CASE i <= Len(s)
    <3>1. i \in 1..Len(s)
      BY <1>2, <2>1
    <3>2. H[i] = FrameOf(s[i])
      BY <1>1, <1>4, <2>0, <2>1 DEF st
    <3>3. (F \o G)[i] = F[i]
      BY <1>2, <1>5, <2>0, <2>1
    <3>4. QED
      BY <1>2, <3>1, <3>2, <3>3
  <2>2. CASE ~(i <= Len(s))
    <3>1. i - Len(s) \in 1..Len(t)
      BY <1>2, <1>3, <2>0, <2>2
    <3>2. H[i] = FrameOf(t[i - Len(s)])
      BY <1>1, <1>4, <2>0, <2>2 DEF st
    <3>3. (F \o G)[i] = G[i - Len(s)]
      BY <1>2, <1>5, <2>0, <2>2
    <3>4. QED
      BY <1>3, <3>1, <3>2, <3>3
  <2>3. QED
    BY <2>1, <2>2
<1>7. H = F \o G
  <2>1. Len(H) = Len(F \o G)
    BY <1>1, <1>2, <1>3, <1>4, <1>5 DEF st
  <2>2. QED
    BY <1>4, <1>5, <1>6, <2>1, SeqEqual
<1>8. QED
  BY <1>1, <1>7 DEF F, G, H, st

\* Words and texts that are a hearing of what was said, from its first word on.
WordsOf(ws, said) ==
    /\ Len(ws) <= Len(said)
    /\ \A i \in 1..Len(ws) : FrameOf(ws[i].text) = said[i].text /\ ws[i].end = said[i].end

HeardAs(texts, said) ==
    /\ Len(texts) <= Len(said)
    /\ \A i \in 1..Len(texts) : FrameOf(texts[i]) = said[i].text

\* What was said is a hearing of itself.
LEMMA SaidIsHeard ==
    ASSUME NEW S, NEW a \in Seq(Nat)
    PROVE  /\ SaidOf(S, a) \in Words /\ WordsOf(SaidOf(S, a), SaidOf(S, a))
           /\ FramesOf(Texts(SaidOf(S, a))) = SpokenOf(S, a)
           /\ \A i \in 1..Len(SaidOf(S, a)) : SaidOf(S, a)[i].end <= Len(a)
<1> DEFINE A == SaidOf(S, a)
           P == SpokenOf(S, a)
<1>1. /\ A \in Seq(SaidWords) /\ P \in Seq(Nat) /\ Len(P) = Len(A) /\ Len(A) \in Nat
      /\ \A i \in 1..Len(A) : P[i] = A[i].text /\ A[i].end \in 1..Len(a)
  BY SaidEnumerates, LenProperties DEF Enumerates
<1> HIDE DEF A, P
<1>2. A \in Words /\ \A i \in 1..Len(A) : A[i].text \in Nat
  <2>1. SaidWords \subseteq Word
    BY DEF SaidWords, Word
  <2>2. A \in Seq(Word)
    BY <1>1, <2>1, SeqMonotonic
  <2>3. \A i \in 1..Len(A) : A[i] \in SaidWords
    BY <1>1, ElementOfSeq
  <2>4. QED
    BY <2>2, <2>3 DEF Words, Word, SaidWords
<1>3. \A i \in 1..Len(A) : FrameOf(A[i].text) = A[i].text
  <2>1. \A t \in Nat : FrameOf(t) = t
    BY FrameOfText
  <2>2. QED
    BY <1>2, <2>1
<1>4. WordsOf(A, A)
  <2>1. Len(A) <= Len(A)
    BY <1>1
  <2>2. QED
    BY <1>3, <2>1 DEF WordsOf
<1>5. FramesOf(Texts(A)) = P
  <2>1. /\ Texts(A) \in TextsOfWords /\ Len(Texts(A)) = Len(A)
        /\ \A i \in 1..Len(A) : Texts(A)[i] = A[i].text
    BY <1>2, TextsType
  <2>2. /\ FramesOf(Texts(A)) \in Seq(Nat) /\ Len(FramesOf(Texts(A))) = Len(A)
        /\ \A i \in 1..Len(A) : FramesOf(Texts(A))[i] = FrameOf(Texts(A)[i])
    <3> DEFINE t == Texts(A)
    <3> HIDE DEF t
    <3>1. FramesOf(t) \in Seq(Nat) /\ Len(FramesOf(t)) = Len(t)
          /\ \A i \in 1..Len(t) : FramesOf(t)[i] = FrameOf(t[i])
      BY <2>1, FramesOfType DEF t
    <3>2. QED
      BY <2>1, <3>1 DEF t
  <2>3. \A i \in 1..Len(P) : FramesOf(Texts(A))[i] = P[i]
    BY <1>1, <1>3, <2>1, <2>2
  <2>4. QED
    BY <1>1, <2>2, <2>3, SeqEqual
<1>6. \A i \in 1..Len(A) : A[i].end <= Len(a)
  <2>1. Len(a) \in Nat
    BY LenProperties
  <2>2. QED
    BY <1>1, <2>1
<1>7. QED
  BY <1>2, <1>4, <1>5, <1>6 DEF A, P

\* What an interim decode returns is a hearing of its window.
LEMMA HypothesisHeard ==
    ASSUME NEW a \in Seq(Nat), NEW ws \in Hypotheses(a)
    PROVE  ws \in Words /\ WordsOf(ws, Said(a))
<1> DEFINE A == Said(a)
           firm == SubSeq(A, 1, Len(A) - 1)
           w == [A[Len(A)] EXCEPT !.text = -@]
<1>1. A \in Words /\ WordsOf(A, A) /\ Len(A) \in Nat
  <2>1. A = SaidOf(spoken, a)
    BY SaidIs
  <2>2. QED
    BY <2>1, SaidIsHeard, LenProperties DEF Words
<1>2. ws = A \/ (A # <<>> /\ (ws = firm \/ ws = Append(firm, w)))
  BY DEF Hypotheses
<1> HIDE DEF A
<1>3. CASE ws = A
  BY <1>1, <1>3 DEF A
<1>4. CASE A # <<>> /\ (ws = firm \/ ws = Append(firm, w))
  <2> DEFINE n == Len(A) - 1
  <2>1. Len(A) \in Nat \ {0} /\ n \in Nat
    <3>1. Len(A) # 0
      BY <1>1, <1>4, EmptySeq DEF Words
    <3>2. QED
      BY <1>1, <3>1
  <2>2. \A i \in 1..Len(A) : A[i] \in Word /\ FrameOf(A[i].text) = A[i].text
    BY <1>1, TextsType DEF WordsOf
  <2>3. firm \in Seq(Word) /\ Len(firm) = n /\ \A i \in 1..n : firm[i] = A[i]
    <3>1. \A i \in 1..n : A[i] \in Word
      BY <2>1, <2>2
    <3>2. /\ SubSeq(A, 1, n) \in Seq(Word)
          /\ Len(SubSeq(A, 1, n)) = (IF 1 <= n THEN n - 1 + 1 ELSE 0)
          /\ \A i \in 1..(n - 1 + 1) : SubSeq(A, 1, n)[i] = A[1 + i - 1]
      BY <2>1, <3>1, SubSeqProperties
    <3>3. n - 1 + 1 = n /\ (IF 1 <= n THEN n - 1 + 1 ELSE 0) = n /\ \A i \in 1..n : 1 + i - 1 = i
      <4> HIDE DEF n
      <4>1. QED
        BY <2>1
    <3>4. Len(SubSeq(A, 1, n)) = n /\ \A i \in 1..n : SubSeq(A, 1, n)[i] = A[i]
      BY <3>2, <3>3
    <3>5. QED
      BY <3>2, <3>4
  <2> HIDE DEF firm
  <2>4. /\ w \in Word /\ w.end = A[Len(A)].end /\ FrameOf(w.text) = A[Len(A)].text
    <3>1. A[Len(A)] \in Word /\ FrameOf(A[Len(A)].text) = A[Len(A)].text
      BY <2>1, <2>2
    <3>2. w.text = -(A[Len(A)].text) /\ w.end = A[Len(A)].end /\ w \in Word
      BY <3>1 DEF Word
    <3>3. FrameOf(-(A[Len(A)].text)) = FrameOf(A[Len(A)].text)
      BY <3>1, FrameOfText DEF Word
    <3>4. QED
      BY <3>1, <3>2, <3>3
  <2> HIDE DEF w
  <2>5. CASE ws = firm
    <3>1. \A i \in 1..n : i \in 1..Len(A)
      BY <2>1
    <3>2. WordsOf(firm, A)
      BY <2>1, <2>2, <2>3, <3>1 DEF WordsOf
    <3>3. QED
      BY <2>3, <2>5, <3>2 DEF Words, Word, A
  <2>6. CASE ws = Append(firm, w)
    <3>1. /\ ws \in Seq(Word) /\ Len(ws) = n + 1 /\ ws[n + 1] = w
          /\ \A i \in 1..n : ws[i] = A[i]
      BY <2>3, <2>4, <2>6, AppendProperties
    <3>2. ASSUME NEW i \in 1..(n + 1)
          PROVE  FrameOf(ws[i].text) = A[i].text /\ ws[i].end = A[i].end
      <4>1. CASE i = n + 1
        BY <2>1, <2>4, <3>1, <4>1
      <4>2. CASE i \in 1..n
        <5>1. i \in 1..Len(A) /\ ws[i] = A[i]
          BY <2>1, <3>1, <4>2
        <5>2. QED
          BY <2>2, <5>1
      <4>3. i = n + 1 \/ i \in 1..n
        BY <2>1
      <4>4. QED
        BY <4>1, <4>2, <4>3
    <3>3. WordsOf(ws, A)
      BY <2>1, <3>1, <3>2 DEF WordsOf
    <3>4. QED
      BY <3>1, <3>3 DEF Words, Word, A
  <2>7. QED
    BY <1>4, <2>5, <2>6
<1>5. QED
  BY <1>2, <1>3, <1>4

\* A hearing of a window is a hearing of any longer one.
LEMMA HeardInLonger ==
    ASSUME NEW S, NEW a \in Seq(Nat), NEW b \in Seq(Nat)
    PROVE  /\ \A ws : WordsOf(ws, SaidOf(S, a)) /\ Len(ws) \in Nat => WordsOf(ws, SaidOf(S, a \o b))
           /\ \A t : HeardAs(t, SaidOf(S, a)) /\ Len(t) \in Nat => HeardAs(t, SaidOf(S, a \o b))
           /\ \A i \in 1..Len(SaidOf(S, a)) : SaidOf(S, a \o b)[i] = SaidOf(S, a)[i]
           /\ Len(SaidOf(S, a)) <= Len(SaidOf(S, a \o b))
<1> DEFINE A == SaidOf(S, a)
           B == SaidOf(S, b)
           C == SaidOf(S, a \o b)
<1>1. Len(A) \in Nat /\ Len(B) \in Nat
  BY SaidEnumerates, LenProperties DEF Enumerates
<1>2. Len(C) = Len(A) + Len(B) /\ \A i \in 1..Len(A) : C[i] = A[i]
  <2>1. Joins(S, a, b)
    BY SaidJoins
  <2>2. QED
    BY <2>1 DEF Joins
<1> HIDE DEF A, B, C
<1>3. Len(A) <= Len(C)
  BY <1>1, <1>2
<1>4. ASSUME NEW ws, WordsOf(ws, A), Len(ws) \in Nat PROVE WordsOf(ws, C)
  <2>1. Len(ws) <= Len(A) /\ Len(ws) <= Len(C)
    BY <1>1, <1>2, <1>4 DEF WordsOf
  <2>2. \A i \in 1..Len(ws) : i \in 1..Len(A)
    BY <1>1, <1>4, <2>1
  <2>3. QED
    BY <1>2, <1>4, <2>1, <2>2 DEF WordsOf
<1>5. ASSUME NEW t, HeardAs(t, A), Len(t) \in Nat PROVE HeardAs(t, C)
  <2>1. Len(t) <= Len(A) /\ Len(t) <= Len(C)
    BY <1>1, <1>2, <1>5 DEF HeardAs
  <2>2. \A i \in 1..Len(t) : i \in 1..Len(A)
    BY <1>1, <1>5, <2>1
  <2>3. QED
    BY <1>2, <1>5, <2>1, <2>2 DEF HeardAs
<1>6. QED
  BY <1>2, <1>3, <1>4, <1>5 DEF A, C

-----------------------------------------------------------------------------
(* Types of what _apply_hypothesis leaves.                                 *)

\* An utterance on frames of K.
UtterancesOf(K) ==
    [buffer: Seq(K), committed: Words, prevNorm: TextsOfWords, decodedLen: Nat,
     firstDecode: BOOLEAN, trimmed: TextsOfWords, text: TextsOfWords, faults: SUBSET Faults]

\* The agreement is with a beginning of the hypothesis.
LEMMA AgreementIs ==
    ASSUME NEW K, NEW v \in UtterancesOf(K), NEW ws \in Words
    PROVE  /\ Agreement(v, ws) \in Nat
           /\ Agreement(v, ws) <= Len(v.prevNorm) /\ Agreement(v, ws) <= Len(ws)
           /\ \A i \in 1..Agreement(v, ws) : v.prevNorm[i] = ws[i].text
<1> DEFINE both == IF Len(v.prevNorm) < Len(ws) THEN Len(v.prevNorm) ELSE Len(ws)
           Agree(i) == v.prevNorm[i] = ws[i].text /\ FrameOf(ws[i].text) \notin Blanks
           Good(n) == (\A i \in 1..n : Agree(i)) /\ (n < both => ~Agree(n + 1))
           Bad == {i \in 1..both : ~Agree(i)}
<1>1. Len(v.prevNorm) \in Nat /\ Len(ws) \in Nat
  BY LenProperties DEF UtterancesOf, Words, TextsOfWords
<1>2. both \in Nat /\ both <= Len(v.prevNorm) /\ both <= Len(ws)
  BY <1>1
<1>3. Agreement(v, ws) = CHOOSE n \in 0..both : Good(n)
  BY DEF Agreement
<1> HIDE DEF both
<1>4. \E n \in 0..both : Good(n)
  <2>1. CASE Bad = {}
    <3>1. both \in 0..both /\ Good(both)
      BY <1>2, <2>1
    <3>2. QED
      BY <3>1
  <2>2. CASE Bad # {}
    <3>1. PICK m \in Bad : \A j \in Bad : m <= j
      <4>1. Bad \in SUBSET Nat
        BY <1>2
      <4> HIDE DEF Bad
      <4>2. QED
        BY <2>2, <4>1, Smallest
    <3>2. m \in 1..both /\ ~Agree(m)
      BY <3>1
    <3>3. \A i \in 1..(m - 1) : Agree(i)
      <4> SUFFICES ASSUME NEW i \in 1..(m - 1), ~Agree(i) PROVE FALSE
        OBVIOUS
      <4>1. i \in Bad /\ i < m
        BY <1>2, <3>2
      <4>2. QED
        BY <1>2, <3>1, <3>2, <4>1
    <3>4. m - 1 \in 0..both /\ (m - 1) + 1 = m
      BY <1>2, <3>2
    <3>5. Good(m - 1)
      BY <3>2, <3>3, <3>4
    <3>6. QED
      BY <3>4, <3>5
  <2>3. QED
    BY <2>1, <2>2
<1> DEFINE a == Agreement(v, ws)
<1>5. a \in 0..both /\ Good(a)
  <2> HIDE DEF Good
  <2>1. QED
    BY <1>3, <1>4
<1> HIDE DEF a
<1>6. a \in Nat /\ a <= Len(v.prevNorm) /\ a <= Len(ws) /\ \A i \in 1..a : v.prevNorm[i] = ws[i].text
  BY <1>1, <1>2, <1>5
<1>7. QED
  BY <1>6 DEF a

\* A part of a list of words.
LEMMA PartOfWords ==
    ASSUME NEW ws \in Words, NEW m \in Nat, NEW n \in Nat, m <= n, n <= Len(ws)
    PROVE  /\ SubSeq(ws, m + 1, n) \in Words /\ Len(SubSeq(ws, m + 1, n)) = n - m
           /\ \A i \in 1..(n - m) : SubSeq(ws, m + 1, n)[i] = ws[m + i]
<1>1. Len(ws) \in Nat /\ \A i \in 1..Len(ws) : ws[i] \in Word
  BY TextsType
<1>2. \A i \in (m + 1)..n : ws[i] \in Word
  BY <1>1
<1>3. /\ SubSeq(ws, m + 1, n) \in Seq(Word)
      /\ Len(SubSeq(ws, m + 1, n)) = (IF m + 1 <= n THEN n - (m + 1) + 1 ELSE 0)
      /\ \A i \in 1..(n - (m + 1) + 1) : SubSeq(ws, m + 1, n)[i] = ws[m + 1 + i - 1]
  BY <1>2, SubSeqProperties
<1>4. /\ n - (m + 1) + 1 = n - m /\ (IF m + 1 <= n THEN n - (m + 1) + 1 ELSE 0) = n - m
      /\ \A i \in 1..(n - m) : m + 1 + i - 1 = m + i
  OBVIOUS
<1>5. Len(SubSeq(ws, m + 1, n)) = n - m /\ \A i \in 1..(n - m) : SubSeq(ws, m + 1, n)[i] = ws[m + i]
  BY <1>3, <1>4
<1>6. QED
  BY <1>3, <1>5 DEF Words, Word

LEMMA BeginningOfWords ==
    ASSUME NEW ws \in Words, NEW n \in Nat, n <= Len(ws)
    PROVE  /\ SubSeq(ws, 1, n) \in Words /\ Len(SubSeq(ws, 1, n)) = n
           /\ \A i \in 1..n : SubSeq(ws, 1, n)[i] = ws[i]
<1>1. /\ SubSeq(ws, 0 + 1, n) \in Words /\ Len(SubSeq(ws, 0 + 1, n)) = n - 0
      /\ \A i \in 1..(n - 0) : SubSeq(ws, 0 + 1, n)[i] = ws[0 + i]
  BY PartOfWords
<1>2. 0 + 1 = 1 /\ n - 0 = n /\ \A i \in 1..n : 0 + i = i
  OBVIOUS
<1>3. QED
  BY <1>1, <1>2

\* A commitment.
LEMMA CommittedIs ==
    ASSUME NEW K, NEW v \in UtterancesOf(K), NEW ws \in Words
    PROVE  LET c == Committed(v, ws)
               agree == Agreement(v, ws)
               done == Len(v.committed)
           IN  /\ c \in UtterancesOf(K)
               /\ c.buffer = v.buffer /\ c.trimmed = v.trimmed /\ c.decodedLen = v.decodedLen
               /\ c.firstDecode = v.firstDecode /\ c.faults = v.faults
               /\ c.prevNorm = Texts(ws)
               /\ done \in Nat
               /\ agree <= done => c.committed = v.committed /\ c.text = v.text
               /\ agree > done =>
                     /\ c.committed = SubSeq(ws, 1, agree)
                     /\ c.text = IF mode = "commit"
                                 THEN v.text \o Texts(SubSeq(ws, done + 1, agree)) ELSE v.text
<1> DEFINE agree == Agreement(v, ws)
           done == Len(v.committed)
           c == Committed(v, ws)
           new == SubSeq(ws, done + 1, agree)
           long == SubSeq(ws, 1, agree)
           t == IF mode = "commit" THEN v.text \o Texts(new) ELSE v.text
<1>1. /\ v.committed \in Words /\ v.prevNorm \in TextsOfWords /\ v.text \in TextsOfWords
      /\ done \in Nat /\ Texts(ws) \in TextsOfWords
  BY TextsType DEF UtterancesOf
<1>2. agree \in Nat /\ agree <= Len(ws)
  BY AgreementIs
<1>3. c = IF agree > done
          THEN [v EXCEPT !.committed = long, !.prevNorm = Texts(ws), !.text = t]
          ELSE [v EXCEPT !.prevNorm = Texts(ws)]
  BY DEF Committed
<1>4. CASE agree > done
  <2>1. new \in Words /\ long \in Words
    <3>1. done <= agree
      BY <1>1, <1>2, <1>4
    <3>2. QED
      BY <1>1, <1>2, <3>1, PartOfWords, BeginningOfWords
  <2>2. t \in TextsOfWords
    <3>1. Texts(new) \in TextsOfWords
      BY <2>1, TextsType
    <3>2. v.text \o Texts(new) \in TextsOfWords
      BY <1>1, <3>1, FramesOfJoin
    <3>3. QED
      BY <1>1, <3>2
  <2> HIDE DEF t, long, new, agree, done
  <2> DEFINE norm == Texts(ws)
  <2> HIDE DEF norm
  <2>3. c = [v EXCEPT !.committed = long, !.prevNorm = norm, !.text = t]
    BY <1>3, <1>4 DEF norm
  <2>4. norm \in TextsOfWords
    BY <1>1 DEF norm
  <2> HIDE DEF c
  <2>5. /\ c \in UtterancesOf(K)
        /\ c.buffer = v.buffer /\ c.trimmed = v.trimmed /\ c.decodedLen = v.decodedLen
        /\ c.firstDecode = v.firstDecode /\ c.faults = v.faults
        /\ c.prevNorm = norm /\ c.committed = long /\ c.text = t
    BY <2>1, <2>2, <2>3, <2>4 DEF UtterancesOf
  <2>6. ~(agree <= done)
    BY <1>1, <1>2, <1>4
  <2>7. QED
    BY <1>1, <2>5, <2>6 DEF c, t, new, long, agree, done, norm
<1>5. CASE ~(agree > done)
  <2> HIDE DEF t, long, new, agree, done
  <2> DEFINE norm == Texts(ws)
  <2> HIDE DEF norm
  <2>1. c = [v EXCEPT !.prevNorm = norm]
    BY <1>3, <1>5 DEF norm
  <2>2. norm \in TextsOfWords
    BY <1>1 DEF norm
  <2> HIDE DEF c
  <2>3. /\ c \in UtterancesOf(K)
        /\ c.buffer = v.buffer /\ c.trimmed = v.trimmed /\ c.decodedLen = v.decodedLen
        /\ c.firstDecode = v.firstDecode /\ c.faults = v.faults
        /\ c.prevNorm = norm /\ c.committed = v.committed /\ c.text = v.text
    BY <2>1, <2>2 DEF UtterancesOf
  <2>4. QED
    BY <1>1, <1>5, <2>3 DEF c, agree, done, norm
<1>6. QED
  BY <1>4, <1>5

\* A rendering.
Renders(v, ws, r) ==
    /\ mode # "correcting" => r.text = v.text
    /\ mode = "correcting" =>
          \E n \in Nat : /\ n <= Len(ws) /\ (n = Len(ws) \/ n >= Len(v.committed))
                         /\ r.text = v.trimmed \o Texts(SubSeq(ws, 1, n))

\* What is rendered, and that it is only the text.
LEMMA RenderedIs ==
    ASSUME NEW K, NEW v \in UtterancesOf(K), NEW ws \in Words, NEW agree \in Nat,
           agree <= Len(ws), NEW r \in Rendered(v, ws, agree)
    PROVE  /\ r \in UtterancesOf(K)
           /\ r.buffer = v.buffer /\ r.trimmed = v.trimmed /\ r.decodedLen = v.decodedLen
           /\ r.firstDecode = v.firstDecode /\ r.faults = v.faults
           /\ r.prevNorm = v.prevNorm /\ r.committed = v.committed
           /\ Renders(v, ws, r)
<1> DEFINE stable == IF agree > Len(v.committed) THEN agree ELSE Len(v.committed)
<1>1. /\ v.committed \in Words /\ v.trimmed \in TextsOfWords
      /\ Len(v.committed) \in Nat /\ Len(ws) \in Nat
  BY TextsType DEF UtterancesOf
<1>2. CASE mode = "correcting"
  <2>1. PICK n \in {Len(ws)} \cup stable..Len(ws) :
            r = [v EXCEPT !.text = v.trimmed \o Texts(SubSeq(ws, 1, n))]
    BY <1>2 DEF Rendered
  <2>2. stable \in Nat /\ stable >= Len(v.committed)
    BY <1>1
  <2> HIDE DEF stable
  <2>3. n \in Nat /\ n <= Len(ws) /\ (n = Len(ws) \/ n >= Len(v.committed))
    BY <1>1, <2>1, <2>2
  <2> DEFINE t == v.trimmed \o Texts(SubSeq(ws, 1, n))
  <2>4. t \in TextsOfWords
    <3>1. SubSeq(ws, 1, n) \in Words
      BY <2>3, BeginningOfWords
    <3>2. Texts(SubSeq(ws, 1, n)) \in TextsOfWords
      BY <3>1, TextsType
    <3>3. QED
      BY <1>1, <3>2, FramesOfJoin
  <2>5. r = [v EXCEPT !.text = t]
    BY <2>1
  <2> HIDE DEF t
  <2>6. /\ r \in UtterancesOf(K)
        /\ r.buffer = v.buffer /\ r.trimmed = v.trimmed /\ r.decodedLen = v.decodedLen
        /\ r.firstDecode = v.firstDecode /\ r.faults = v.faults
        /\ r.prevNorm = v.prevNorm /\ r.committed = v.committed /\ r.text = t
    BY <2>4, <2>5 DEF UtterancesOf
  <2>7. QED
    BY <1>2, <2>3, <2>6 DEF t, Renders
<1>3. CASE mode # "correcting"
  <2>1. r = v
    BY <1>3 DEF Rendered
  <2>2. QED
    BY <1>3, <2>1 DEF Renders
<1>4. QED
  BY <1>2, <1>3

LEMMA RenderedKeeps ==
    ASSUME NEW K, NEW v \in UtterancesOf(K), NEW ws \in Words, NEW agree \in Nat,
           agree <= Len(ws), NEW r \in Rendered(v, ws, agree)
    PROVE  /\ r \in UtterancesOf(K) /\ r.buffer = v.buffer /\ r.faults = v.faults
           /\ r.firstDecode = v.firstDecode
  BY RenderedIs

\* The place of the cut.
LEMMA TrimEndIs ==
    ASSUME NEW K, NEW v \in UtterancesOf(K), v.committed # <<>>
    PROVE  \E at \in 1..Len(v.committed) : TrimEnd(v) = v.committed[at].end
<1> DEFINE n == Len(v.committed)
           ends == {i \in DOMAIN v.committed : v.committed[i].text \in SentenceEnds}
           Last(i) == \A j \in ends : j <= i
           at == IF ends = {} THEN n ELSE CHOOSE i \in ends : Last(i)
<1>1. v.committed \in Words /\ n \in Nat \ {0} /\ DOMAIN v.committed = 1..n
  <2>1. v.committed \in Seq(Word)
    BY DEF UtterancesOf, Words, Word
  <2>2. QED
    BY <2>1, EmptySeq, LenProperties DEF UtterancesOf
<1>2. TrimEnd(v) = v.committed[at].end
  BY DEF TrimEnd
<1>3. ends \subseteq 1..n
  BY <1>1
<1> HIDE DEF n, ends
<1>4. at \in 1..n
  <2>1. CASE ends = {}
    BY <1>1, <2>1
  <2>2. CASE ends # {}
    <3> DEFINE D == {n - i : i \in ends}
    <3>1. D \in SUBSET Nat /\ D # {}
      <4>1. PICK i \in ends : TRUE
        BY <2>2
      <4>2. n - i \in D
        BY <4>1
      <4>3. \A j \in 1..n : n - j \in Nat
        BY <1>1
      <4>4. \A d \in D : d \in Nat
        BY <1>3, <4>3
      <4> HIDE DEF D
      <4>5. QED
        BY <4>2, <4>4
    <3>2. PICK d \in D : \A e \in D : d <= e
      <4> HIDE DEF D
      <4>1. QED
        BY <3>1, Smallest
    <3>3. PICK i \in ends : d = n - i
      BY <3>2
    <3>4. Last(i)
      <4> SUFFICES ASSUME NEW j \in ends PROVE j <= i
        OBVIOUS
      <4>1. n - j \in D
        OBVIOUS
      <4>2. n - i <= n - j
        BY <3>2, <3>3, <4>1
      <4>3. QED
        BY <1>1, <1>3, <4>2
    <3>5. at \in ends
      <4> HIDE DEF Last
      <4>1. QED
        BY <2>2, <3>4
    <3>6. QED
      BY <1>3, <3>5
  <2>3. QED
    BY <2>1, <2>2
<1>5. QED
  BY <1>2, <1>4 DEF n

\* A cut: the fields, and the types whatever the words.
TheCut(v) == IF TrimEnd(v) < Len(v.buffer) THEN TrimEnd(v) ELSE Len(v.buffer)

TheKept(v, short) == {i \in DOMAIN v.committed : StillHeard(v.committed[i], TheCut(v), short)}

LEMMA TrimmedIs ==
    ASSUME NEW K, NEW v \in UtterancesOf(K), v.committed # <<>>, NEW short \in BOOLEAN
    PROVE  LET w == Trimmed(v, short)
               cut == TheCut(v)
               gone == Picked(v.committed, DOMAIN v.committed \ TheKept(v, short))
               stay == Picked(v.committed, TheKept(v, short))
           IN  /\ w \in UtterancesOf(K)
               /\ cut \in Nat /\ cut <= Len(v.buffer)
               /\ gone \in Words /\ stay \in Words
               /\ w.buffer = SubSeq(v.buffer, cut + 1, Len(v.buffer))
               /\ w.decodedLen = (IF v.decodedLen > cut THEN v.decodedLen - cut ELSE 0)
               /\ w.trimmed = v.trimmed \o Texts(gone)
               /\ w.committed = [i \in 1..Len(stay) |-> [stay[i] EXCEPT !.end = @ - cut]]
               /\ w.prevNorm = SubSeq(v.prevNorm, Len(gone) + 1, Len(v.prevNorm))
               /\ w.text = v.text /\ w.firstDecode = v.firstDecode
               /\ w.faults = v.faults
                     \cup (IF short THEN {"cut short"} ELSE {})
                     \cup (IF speculative # NoFuture THEN {"cut under speculation"} ELSE {})
<1> DEFINE w == Trimmed(v, short)
           cut == TheCut(v)
           gone == Picked(v.committed, DOMAIN v.committed \ TheKept(v, short))
           stay == Picked(v.committed, TheKept(v, short))
           buf == SubSeq(v.buffer, cut + 1, Len(v.buffer))
           dl == IF v.decodedLen > cut THEN v.decodedLen - cut ELSE 0
           tr == v.trimmed \o Texts(gone)
           com == [i \in 1..Len(stay) |-> [stay[i] EXCEPT !.end = @ - cut]]
           norm == SubSeq(v.prevNorm, Len(gone) + 1, Len(v.prevNorm))
           flt == v.faults \cup (IF short THEN {"cut short"} ELSE {})
                     \cup (IF speculative # NoFuture THEN {"cut under speculation"} ELSE {})
<1>1. /\ v.committed \in Words /\ v.trimmed \in TextsOfWords /\ v.prevNorm \in TextsOfWords
      /\ v.text \in TextsOfWords /\ v.buffer \in Seq(K) /\ v.decodedLen \in Nat
      /\ v.firstDecode \in BOOLEAN /\ v.faults \subseteq Faults
  BY DEF UtterancesOf
<1>2. cut \in Nat /\ cut <= Len(v.buffer) /\ Len(v.buffer) \in Nat
  <2>1. PICK at \in 1..Len(v.committed) : TrimEnd(v) = v.committed[at].end
    BY TrimEndIs
  <2>2. TrimEnd(v) \in Nat
    BY <1>1, <2>1, TextsType
  <2>3. Len(v.buffer) \in Nat
    BY <1>1, LenProperties
  <2>4. QED
    BY <2>2, <2>3 DEF TheCut
<1>3. gone \in Words /\ stay \in Words /\ Len(gone) \in Nat /\ Len(stay) \in Nat
  <2>1. v.committed \in Seq(Word)
    BY <1>1 DEF Words, Word
  <2>2. gone \in Seq(Word) /\ stay \in Seq(Word)
    BY <2>1, PickedType
  <2>3. QED
    BY <2>2, LenProperties DEF Words, Word
<1>4. \A i \in 1..Len(stay) : stay[i] \in Word /\ stay[i].end - cut \in Nat
  <2> SUFFICES ASSUME NEW i \in 1..Len(stay) PROVE stay[i] \in Word /\ stay[i].end - cut \in Nat
    OBVIOUS
  <2>1. v.committed \in Seq(Word)
    BY <1>1 DEF Words, Word
  <2>2. PICK j \in 1..Len(v.committed) : j \in TheKept(v, short) /\ stay[i] = v.committed[j]
    BY <2>1, PickedFrom
  <2>3. StillHeard(v.committed[j], cut, short)
    BY <2>2 DEF TheKept
  <2>4. stay[i] \in Word /\ stay[i].end \in Nat
    BY <1>3, TextsType
  <2> HIDE DEF stay, cut
  <2>5. stay[i].end > cut \/ stay[i].end = cut
    BY <2>2, <2>3 DEF StillHeard
  <2>6. QED
    BY <1>2, <2>4, <2>5
<1>5. buf \in Seq(K)
  <2>1. \A i \in (cut + 1)..Len(v.buffer) : v.buffer[i] \in K
    BY <1>1, <1>2, ElementOfSeq
  <2>2. QED
    BY <1>2, <2>1, SubSeqProperties
<1>6. dl \in Nat
  BY <1>1, <1>2
<1>7. tr \in TextsOfWords
  <2>1. Texts(gone) \in TextsOfWords
    BY <1>3, TextsType
  <2>2. QED
    BY <1>1, <2>1, FramesOfJoin
<1>8. com \in Words
  <2> HIDE DEF stay, cut
  <2>1. \A i \in 1..Len(stay) : [stay[i] EXCEPT !.end = @ - cut] \in Word
    <3> SUFFICES ASSUME NEW i \in 1..Len(stay) PROVE [stay[i] EXCEPT !.end = @ - cut] \in Word
      OBVIOUS
    <3> DEFINE x == stay[i]
    <3>1. x \in Word /\ x.end - cut \in Nat
      BY <1>4
    <3> HIDE DEF x
    <3>2. [x EXCEPT !.end = @ - cut] \in Word
      BY <3>1 DEF Word
    <3>3. QED
      BY <3>2 DEF x
  <2>2. com \in Seq(Word)
    BY <1>3, <2>1, IsASeq
  <2>3. QED
    BY <2>2 DEF Words, Word
<1>9. norm \in TextsOfWords
  <2> DEFINE m == Len(gone) + 1
             k == Len(v.prevNorm)
  <2>1. m \in Nat \ {0} /\ k \in Nat
    BY <1>1, <1>3, LenProperties DEF TextsOfWords
  <2>2. \A i \in m..k : v.prevNorm[i] \in Int
    <3> HIDE DEF m
    <3>1. \A i \in m..k : i \in 1..k
      BY <2>1
    <3>2. QED
      BY <1>1, <3>1, ElementOfSeq DEF TextsOfWords
  <2>3. QED
    <3> HIDE DEF m, k
    <3>1. SubSeq(v.prevNorm, m, k) \in Seq(Int)
      BY <2>1, <2>2, SubSeqProperties
    <3>2. QED
      BY <3>1 DEF TextsOfWords, m, k
<1>10. flt \subseteq Faults
  BY <1>1 DEF Faults
<1>11. w = [v EXCEPT !.buffer = buf, !.decodedLen = dl, !.trimmed = tr, !.committed = com,
                     !.prevNorm = norm, !.faults = flt]
  <2>1. /\ TheKept(v, short) = {i \in DOMAIN v.committed : StillHeard(v.committed[i], cut, short)}
        /\ DOMAIN stay = 1..Len(stay)
    BY <1>3, LenProperties DEF TheKept, Words
  <2>2. QED
    BY <2>1 DEF Trimmed, NormAfterCut, TheKept, TheCut
<1> HIDE DEF buf, dl, tr, com, norm, flt, w
<1>12. /\ w \in UtterancesOf(K)
       /\ w.buffer = buf /\ w.decodedLen = dl /\ w.trimmed = tr /\ w.committed = com
       /\ w.prevNorm = norm /\ w.text = v.text /\ w.firstDecode = v.firstDecode /\ w.faults = flt
  BY <1>1, <1>5, <1>6, <1>7, <1>8, <1>9, <1>10, <1>11 DEF UtterancesOf
<1>13. QED
  BY <1>2, <1>3, <1>12 DEF w, buf, dl, tr, com, norm, flt, cut, gone, stay

\* Whatever _apply_hypothesis leaves, it is well typed, and has cut the buffer
\* only with the fault it has to note.
LEMMA AppliedTyped ==
    ASSUME NEW K, NEW v \in UtterancesOf(K), NEW ws \in Words, NEW w \in Applied(v, ws)
    PROVE  /\ w \in UtterancesOf(K)
           /\ v.faults \subseteq w.faults /\ w.firstDecode = v.firstDecode
           /\ (speculative # NoFuture /\ "cut under speculation" \notin w.faults) => w.buffer = v.buffer
<1> DEFINE c == Committed(v, ws)
           agree == Agreement(v, ws)
<1>1. PICK r \in Rendered(c, ws, agree) : w \in MaybeTrimmed(r)
  BY DEF Applied
<1>2. /\ c \in UtterancesOf(K) /\ c.buffer = v.buffer /\ c.faults = v.faults
      /\ c.firstDecode = v.firstDecode
  BY CommittedIs
<1>3. agree \in Nat /\ agree <= Len(ws)
  BY AgreementIs
<1> HIDE DEF c, agree
<1>4. /\ r \in UtterancesOf(K) /\ r.buffer = v.buffer /\ r.faults = v.faults
      /\ r.firstDecode = v.firstDecode
  <2>1. r \in Rendered(c, ws, agree) /\ c \in UtterancesOf(K)
    BY <1>1, <1>2
  <2>2. /\ r \in UtterancesOf(K) /\ r.buffer = c.buffer /\ r.faults = c.faults
        /\ r.firstDecode = c.firstDecode
    BY <1>3, <2>1, RenderedKeeps
  <2>3. QED
    BY <1>2, <2>2
<1>5. CASE w = r
  BY <1>4, <1>5
<1>6. CASE r.committed # <<>> /\ \E short \in {FALSE, CutsShort} : w = Trimmed(r, short)
  <2>1. PICK short \in BOOLEAN : w = Trimmed(r, short)
    BY <1>6, SessionAssumption
  <2>2. /\ w \in UtterancesOf(K) /\ w.firstDecode = r.firstDecode
        /\ w.faults = r.faults
              \cup (IF short THEN {"cut short"} ELSE {})
              \cup (IF speculative # NoFuture THEN {"cut under speculation"} ELSE {})
    <3> DEFINE x == Trimmed(r, short)
    <3>1. r \in UtterancesOf(K) /\ r.committed # <<>>
      BY <1>4, <1>6
    <3>2. /\ x \in UtterancesOf(K) /\ x.firstDecode = r.firstDecode
          /\ x.faults = r.faults
                \cup (IF short THEN {"cut short"} ELSE {})
                \cup (IF speculative # NoFuture THEN {"cut under speculation"} ELSE {})
      BY <3>1, TrimmedIs
    <3>3. QED
      BY <2>1, <3>2
  <2>3. speculative # NoFuture => "cut under speculation" \in w.faults
    BY <2>2
  <2>4. QED
    BY <1>4, <2>2, <2>3
<1>7. QED
  BY <1>1, <1>5, <1>6 DEF MaybeTrimmed

-----------------------------------------------------------------------------
(* Cutting a window behind one of its words.                               *)

\* The cut falls between the words up to that one and those behind it.
CutsAt(S, b, at, b1, b2) ==
    LET k == SaidOf(S, b)[at].end
    IN  /\ k \in 1..Len(b) /\ Len(b1) = k /\ Len(b2) = Len(b) - k
        /\ b2 = SubSeq(b, k + 1, Len(b)) /\ b = b1 \o b2
        /\ Len(SaidOf(S, b1)) = at
        /\ \A i \in 1..Len(SaidOf(S, b)) : SaidOf(S, b)[i].end > k <=> i > at

\* Every word of a window has such a cut behind it.
LEMMA CutBehindWord ==
    ASSUME NEW K \in SUBSET Nat, NEW S, NEW b \in Seq(K), NEW at \in 1..Len(SaidOf(S, b))
    PROVE  \E b1, b2 \in Seq(K) : CutsAt(S, b, at, b1, b2)
<1> DEFINE C == SaidOf(S, b)
           k == C[at].end
           b1 == SubSeq(b, 1, k)
           b2 == SubSeq(b, k + 1, Len(b))
           A == SaidOf(S, b1)
           B == SaidOf(S, b2)
<1>1. b \in Seq(Nat) /\ Len(b) \in Nat
  BY SeqMonotonic, LenProperties
<1>2. /\ Len(C) \in Nat /\ \A i \in 1..Len(C) : C[i].end \in 1..Len(b)
      /\ \A i, j \in 1..Len(C) : i < j => C[i].end < C[j].end
  <2>1. Enumerates(S, b)
    BY <1>1, SaidEnumerates
  <2>2. QED
    BY <2>1, LenProperties DEF Enumerates
<1> HIDE DEF C
<1>3. k \in 1..Len(b) /\ at \in 1..Len(C)
  BY <1>2 DEF C
<1> HIDE DEF k
<1>4. b1 \in Seq(K) /\ Len(b1) = k
  <2>1. \A i \in 1..k : b[i] \in K
    BY <1>1, <1>3, ElementOfSeq
  <2>2. 1 \in Int /\ k \in Int /\ 1 <= k /\ k - 1 + 1 = k
    BY <1>1, <1>3
  <2>3. QED
    BY <2>1, <2>2, SubSeqProperties
<1>5. b2 \in Seq(K) /\ Len(b2) = Len(b) - k
  <2>1. \A i \in (k + 1)..Len(b) : b[i] \in K
    BY <1>1, <1>3, ElementOfSeq
  <2>2. /\ k + 1 \in Int /\ Len(b) \in Int
        /\ (IF k + 1 <= Len(b) THEN Len(b) - (k + 1) + 1 ELSE 0) = Len(b) - k
    BY <1>1, <1>3
  <2>3. QED
    BY <2>1, <2>2, SubSeqProperties
<1>6. b = b1 \o b2
  <2>1. 1 \in 1..(Len(b) + 1) /\ k \in (1 - 1)..Len(b) /\ Len(b) \in k..Len(b)
    BY <1>1, <1>3
  <2>2. b1 \o b2 = SubSeq(b, 1, Len(b))
    BY <1>1, <2>1, ConcatAdjacentSubSeq
  <2>3. QED
    BY <1>1, <2>2, SubSeqFull
<1> HIDE DEF b1, b2
<1>7. b1 \in Seq(Nat) /\ b2 \in Seq(Nat)
  BY <1>4, <1>5, SeqMonotonic
<1>8. /\ Len(C) = Len(A) + Len(B)
      /\ \A i \in 1..Len(A) : C[i] = A[i]
      /\ \A i \in 1..Len(B) : C[Len(A) + i].end = k + B[i].end
  <2>1. Joins(S, b1, b2)
    BY <1>7, SaidJoins
  <2>2. QED
    BY <1>4, <1>6, <2>1 DEF Joins, C
<1>9. /\ Len(A) \in Nat /\ \A i \in 1..Len(A) : A[i].end \in 1..k
      /\ Len(B) \in Nat /\ \A i \in 1..Len(B) : B[i].end \in Nat \ {0}
  <2>1. Enumerates(S, b1) /\ Enumerates(S, b2)
    BY <1>7, SaidEnumerates
  <2>2. /\ Len(A) \in Nat /\ \A i \in 1..Len(A) : A[i].end \in 1..k
        /\ Len(B) \in Nat /\ \A i \in 1..Len(B) : B[i].end \in 1..Len(b2)
    BY <1>4, <2>1, LenProperties DEF Enumerates
  <2>3. QED
    BY <2>2
<1> HIDE DEF A, B
<1>10. Len(A) = at
  <2>1. at <= Len(A)
    <3> SUFFICES ASSUME at > Len(A) PROVE FALSE
      BY <1>3, <1>9
    <3> DEFINE j == at - Len(A)
    <3>1. j \in 1..Len(B) /\ Len(A) + j = at
      BY <1>2, <1>3, <1>8, <1>9
    <3>2. C[at].end = k + B[j].end /\ B[j].end \in Nat \ {0}
      BY <1>8, <1>9, <3>1
    <3>3. QED
      BY <1>1, <1>3, <3>2 DEF k
  <2>2. Len(A) <= at
    <3> SUFFICES ASSUME Len(A) > at PROVE FALSE
      BY <1>3, <1>9
    <3>1. Len(A) \in 1..Len(C) /\ Len(A) \in 1..Len(A)
      BY <1>2, <1>3, <1>8, <1>9
    <3>2. C[at].end < C[Len(A)].end
      BY <1>2, <1>3, <3>1
    <3>3. C[Len(A)].end \in 1..k
      BY <1>8, <1>9, <3>1
    <3>4. QED
      BY <1>1, <1>3, <3>2, <3>3 DEF k
  <2>3. QED
    BY <1>3, <1>9, <2>1, <2>2
<1>11. \A i \in 1..Len(C) : C[i].end > k <=> i > at
  <2> SUFFICES ASSUME NEW i \in 1..Len(C) PROVE C[i].end > k <=> i > at
    OBVIOUS
  <2>1. C[i].end \in Nat /\ k = C[at].end /\ k \in Nat
    BY <1>1, <1>2, <1>3 DEF k
  <2>2. (i < at => C[i].end < k) /\ (at < i => k < C[i].end) /\ (i = at => C[i].end = k)
    BY <1>2, <1>3, <2>1
  <2>3. QED
    BY <1>2, <1>3, <2>1, <2>2
<1>12. CutsAt(S, b, at, b1, b2)
  BY <1>3, <1>4, <1>5, <1>6, <1>10, <1>11 DEF CutsAt, k, C, A, b2
<1>13. QED
  BY <1>4, <1>5, <1>12

-----------------------------------------------------------------------------
(* What an utterance's state means.                                        *)

\* trimmed, committed and prevNorm are the words said before the buffer and from
\* the buffer's first word on.
Aligned(S, v, pre) ==
    /\ FramesOf(v.trimmed) = SpokenOf(S, pre)
    /\ WordsOf(v.committed, SaidOf(S, v.buffer))
    /\ HeardAs(v.prevNorm, SaidOf(S, v.buffer))

\* The words of a hypothesis were decoded, those committed a decode earlier; lag
\* is how far the decode in flight is ahead of the last one applied.
Decoded(S, v, lag) ==
    /\ v.decodedLen <= Len(v.buffer)
    /\ \A i \in 1..Len(v.prevNorm) : SaidOf(S, v.buffer)[i].end + lag <= v.decodedLen
    /\ \A i \in 1..Len(v.committed) : SaidOf(S, v.buffer)[i].end + lag + MinNew <= v.decodedLen
    /\ ~v.firstDecode => v.prevNorm = <<>> /\ v.committed = <<>> /\ v.decodedLen = 0

\* Commit mode has typed what was committed.
Typed(v) ==
    mode = "commit" => FramesOf(v.text) = FramesOf(v.trimmed) \o FramesOf(Texts(v.committed))

Starts(a, b) == Len(a) <= Len(b) /\ \A i \in 1..Len(a) : a[i] = b[i]

\* Correcting mode shows what was trimmed away, or can still decode.
Shows(v) ==
    (mode = "correcting" /\ MinSpeech <= 2 * MinNew) =>
        Len(v.buffer) >= MinSpeech \/ Starts(FramesOf(v.trimmed), FramesOf(v.text))

\* A hypothesis without a committed word comes long after it was committed.
Late(S, v, ws) ==
    Len(ws) < Len(v.committed) =>
        \A i \in 1..Len(v.committed) : SaidOf(S, v.buffer)[i].end + 2 * MinNew <= v.decodedLen

\* What is heard in a list of words, in two parts.
LEMMA FramesInParts ==
    ASSUME NEW ws \in Words, NEW xs \in Words, NEW n \in Nat, n <= Len(ws),
           Len(xs) = n, \A i \in 1..n : FrameOf(xs[i].text) = FrameOf(ws[i].text)
    PROVE  FramesOf(Texts(ws)) = FramesOf(Texts(xs)) \o FramesOf(Texts(SubSeq(ws, n + 1, Len(ws))))
<1> DEFINE rest == SubSeq(ws, n + 1, Len(ws))
           m == Len(ws)
           W == FramesOf(Texts(ws))
           X == FramesOf(Texts(xs))
           R == FramesOf(Texts(rest))
<1>1. m \in Nat /\ \A i \in 1..m : Texts(ws)[i] = ws[i].text
  BY TextsType
<1>2. rest \in Words /\ Len(rest) = m - n /\ \A i \in 1..(m - n) : rest[i] = ws[n + i]
  BY <1>1, PartOfWords
<1> HIDE DEF rest, m
<1>3. /\ W \in Seq(Nat) /\ Len(W) = m
      /\ \A i \in 1..m : W[i] = FrameOf(ws[i].text)
  BY TextsType, FramesOfType DEF m
<1>4. /\ X \in Seq(Nat) /\ Len(X) = n
      /\ \A i \in 1..n : X[i] = FrameOf(xs[i].text)
  BY TextsType, FramesOfType
<1>5. /\ R \in Seq(Nat) /\ Len(R) = m - n
      /\ \A i \in 1..(m - n) : R[i] = FrameOf(rest[i].text)
  BY <1>2, TextsType, FramesOfType
<1> HIDE DEF W, X, R
<1>6. /\ X \o R \in Seq(Nat) /\ Len(X \o R) = n + (m - n)
      /\ \A i \in 1..(n + (m - n)) : (X \o R)[i] = IF i <= n THEN X[i] ELSE R[i - n]
  <2>1. /\ X \o R \in Seq(Nat) /\ Len(X \o R) = Len(X) + Len(R)
        /\ \A i \in 1..(Len(X) + Len(R)) : (X \o R)[i] = IF i <= Len(X) THEN X[i] ELSE R[i - Len(X)]
    BY <1>4, <1>5, ConcatProperties
  <2>2. Len(X) = n /\ Len(R) = m - n
    BY <1>4, <1>5
  <2>3. QED
    BY <2>1, <2>2
<1>7. n <= m
  BY DEF m
<1>8. \A i \in 1..m : (X \o R)[i] = W[i]
  <2> SUFFICES ASSUME NEW i \in 1..m PROVE (X \o R)[i] = W[i]
    OBVIOUS
  <2>1. CASE i <= n
    BY <1>1, <1>3, <1>4, <1>6, <1>7, <2>1
  <2>2. CASE i > n
    <3>1. i - n \in 1..(m - n) /\ n + (i - n) = i /\ ~(i <= n) /\ i \in 1..(n + (m - n))
      BY <1>1, <1>7, <2>2
    <3>2. rest[i - n] = ws[i]
      BY <1>2, <3>1
    <3>3. (X \o R)[i] = R[i - n]
      BY <1>6, <3>1
    <3>4. R[i - n] = FrameOf(rest[i - n].text)
      BY <1>5, <3>1
    <3>5. R[i - n] = FrameOf(ws[i].text)
      BY <3>2, <3>4, Zenon
    <3>6. W[i] = FrameOf(ws[i].text)
      BY <1>3
    <3>7. QED
      BY <3>3, <3>5, <3>6
  <2>3. i <= n \/ i > n
    BY <1>1
  <2>4. QED
    BY <2>1, <2>2, <2>3, Zenon
<1>9. Len(X \o R) = Len(W)
  BY <1>1, <1>3, <1>6, <1>7
<1>10. X \o R = W
  BY <1>1, <1>3, <1>6, <1>8, <1>9, SeqEqual
<1>11. QED
  BY <1>10 DEF W, X, R, rest, m

\* Committing keeps all of it, now without the lag.
LEMMA CommittedMeans ==
    ASSUME NEW K \in SUBSET Nat, NEW S, NEW v \in UtterancesOf(K), NEW ws \in Words, NEW pre,
           Aligned(S, v, pre), Decoded(S, v, MinNew), Typed(v), v.firstDecode,
           WordsOf(ws, SaidOf(S, v.buffer)),
           \A i \in 1..Len(ws) : SaidOf(S, v.buffer)[i].end <= v.decodedLen,
           NEW c, c = Committed(v, ws)
    PROVE  /\ Aligned(S, c, pre) /\ Decoded(S, c, 0) /\ Typed(c)
           /\ Late(S, c, ws)
<1> DEFINE agree == Agreement(v, ws)
           done == Len(v.committed)
           A == SaidOf(S, v.buffer)
<1>1. /\ v.committed \in Words /\ v.prevNorm \in TextsOfWords /\ v.text \in TextsOfWords
      /\ v.trimmed \in TextsOfWords /\ v.decodedLen \in Nat /\ v.buffer \in Seq(K)
      /\ done \in Nat /\ Len(ws) \in Nat
  BY TextsType DEF UtterancesOf
<1>2. v.buffer \in Seq(Nat) /\ Len(v.buffer) \in Nat
  BY <1>1, SeqMonotonic, LenProperties
<1>3. Len(A) \in Nat /\ \A i \in 1..Len(A) : A[i].end \in Nat
  <2>1. Enumerates(S, v.buffer)
    BY <1>2, SaidEnumerates
  <2>2. Len(A) \in Nat /\ \A i \in 1..Len(A) : A[i].end \in 1..Len(v.buffer)
    BY <2>1, LenProperties DEF Enumerates
  <2>3. QED
    BY <1>2, <2>2
<1>4. /\ agree \in Nat /\ agree <= Len(v.prevNorm) /\ agree <= Len(ws)
  BY AgreementIs
<1>5. Len(v.prevNorm) \in Nat /\ MinNew \in Nat
  BY <1>1, FramesOfType, SessionAssumption
<1> HIDE DEF A, agree, done
<1>6. /\ FramesOf(v.trimmed) = SpokenOf(S, pre)
      /\ done <= Len(A)
      /\ \A i \in 1..done : FrameOf(v.committed[i].text) = A[i].text /\ v.committed[i].end = A[i].end
      /\ Len(v.prevNorm) <= Len(A)
      /\ v.decodedLen <= Len(v.buffer)
      /\ \A i \in 1..Len(v.prevNorm) : A[i].end + MinNew <= v.decodedLen
      /\ \A i \in 1..done : A[i].end + MinNew + MinNew <= v.decodedLen
  BY DEF Aligned, Decoded, WordsOf, HeardAs, A, done
<1>7. /\ Len(ws) <= Len(A)
      /\ \A i \in 1..Len(ws) : FrameOf(ws[i].text) = A[i].text /\ ws[i].end = A[i].end
      /\ \A i \in 1..Len(ws) : A[i].end <= v.decodedLen
  BY DEF WordsOf, A
<1> DEFINE norm == Texts(ws)
<1>8. /\ norm \in TextsOfWords /\ Len(norm) = Len(ws)
      /\ \A i \in 1..Len(ws) : norm[i] = ws[i].text
  BY TextsType
<1> HIDE DEF norm
<1>9. /\ c.buffer = v.buffer /\ c.trimmed = v.trimmed /\ c.decodedLen = v.decodedLen
      /\ c.firstDecode = v.firstDecode /\ c.prevNorm = norm
      /\ agree <= done => c.committed = v.committed /\ c.text = v.text
      /\ agree > done =>
            /\ c.committed = SubSeq(ws, 1, agree)
            /\ c.text = IF mode = "commit"
                        THEN v.text \o Texts(SubSeq(ws, done + 1, agree)) ELSE v.text
  BY CommittedIs DEF agree, done, norm
\* The committed words, old or new.
<1>10. /\ Len(c.committed) \in Nat /\ Len(c.committed) <= Len(A)
       /\ \A i \in 1..Len(c.committed) : /\ FrameOf(c.committed[i].text) = A[i].text
                                         /\ c.committed[i].end = A[i].end
                                         /\ A[i].end + MinNew <= v.decodedLen
       /\ Len(ws) < Len(c.committed) =>
             \A i \in 1..Len(c.committed) : A[i].end + 2 * MinNew <= v.decodedLen
  <2>1. CASE agree <= done
    <3>1. c.committed = v.committed /\ Len(c.committed) = done
      BY <1>9, <2>1 DEF done
    <3>2. \A i \in 1..done : /\ A[i].end + MinNew <= v.decodedLen
                             /\ A[i].end + 2 * MinNew <= v.decodedLen
      BY <1>1, <1>3, <1>5, <1>6
    <3>3. QED
      BY <1>1, <1>6, <3>1, <3>2
  <2>2. CASE agree > done
    <3> DEFINE x == SubSeq(ws, 1, agree)
    <3>1. x \in Words /\ Len(x) = agree /\ \A i \in 1..agree : x[i] = ws[i]
      BY <1>4, BeginningOfWords
    <3>2. c.committed = x
      BY <1>9, <2>2
    <3> HIDE DEF x
    <3>3. \A i \in 1..agree : i \in 1..Len(ws) /\ i \in 1..Len(v.prevNorm)
      BY <1>1, <1>4, <1>5
    <3>4. \A i \in 1..agree : /\ FrameOf(x[i].text) = A[i].text /\ x[i].end = A[i].end
                              /\ A[i].end + MinNew <= v.decodedLen
      BY <1>6, <1>7, <3>1, <3>3
    <3>5. agree <= Len(A) /\ ~(Len(ws) < agree)
      BY <1>1, <1>3, <1>4, <1>7
    <3>6. QED
      BY <1>4, <3>1, <3>2, <3>4, <3>5
  <2>3. QED
    BY <1>1, <1>4, <2>1, <2>2
<1>11. Aligned(S, c, pre)
  <2>1. WordsOf(c.committed, A)
    BY <1>10 DEF WordsOf
  <2>2. HeardAs(norm, A)
    BY <1>7, <1>8 DEF HeardAs
  <2>3. QED
    BY <1>6, <1>9, <2>1, <2>2 DEF Aligned, A
<1>12. Decoded(S, c, 0)
  <2>1. \A i \in 1..Len(norm) : A[i].end + 0 <= v.decodedLen
    <3>1. \A i \in 1..Len(ws) : A[i].end \in Nat
      BY <1>1, <1>3, <1>7
    <3>2. QED
      BY <1>7, <1>8, <3>1
  <2>2. \A i \in 1..Len(c.committed) : A[i].end + 0 + MinNew <= v.decodedLen
    <3>1. \A i \in 1..Len(c.committed) : A[i].end \in Nat
      BY <1>3, <1>10
    <3>2. QED
      BY <1>5, <1>10, <3>1
  <2>3. c.firstDecode
    BY <1>9
  <2>4. QED
    BY <1>6, <1>9, <2>1, <2>2, <2>3 DEF Decoded, A
<1>13. Late(S, c, ws)
  BY <1>9, <1>10 DEF Late, A
<1>14. Typed(c)
  <2> SUFFICES ASSUME mode = "commit"
               PROVE  FramesOf(c.text) = FramesOf(c.trimmed) \o FramesOf(Texts(c.committed))
    BY DEF Typed
  <2>1. FramesOf(v.text) = FramesOf(v.trimmed) \o FramesOf(Texts(v.committed))
    BY DEF Typed
  <2>2. CASE agree <= done
    BY <1>9, <2>1, <2>2
  <2>3. CASE agree > done
    <3> DEFINE x == SubSeq(ws, 1, agree)
               new == SubSeq(ws, done + 1, agree)
    <3>1. x \in Words /\ Len(x) = agree /\ \A i \in 1..agree : x[i] = ws[i]
      BY <1>4, BeginningOfWords
    <3>2. /\ new \in Words /\ Len(new) = agree - done
          /\ \A i \in 1..(agree - done) : new[i] = ws[done + i]
      BY <1>1, <1>4, <2>3, PartOfWords
    <3>3. new = SubSeq(x, done + 1, Len(x))
      <4> DEFINE y == SubSeq(x, done + 1, Len(x))
      <4>0. done <= Len(x)
        BY <1>1, <1>4, <2>3, <3>1
      <4>1. /\ y \in Words /\ Len(y) = Len(x) - done
            /\ \A i \in 1..(Len(x) - done) : y[i] = x[done + i]
        <5> HIDE DEF x
        <5>1. QED
          BY <1>1, <1>4, <3>1, <4>0, PartOfWords
      <4> HIDE DEF x, y, new
      <4>2. \A i \in 1..(agree - done) : y[i] = ws[done + i]
        <5> SUFFICES ASSUME NEW i \in 1..(agree - done) PROVE y[i] = ws[done + i]
          OBVIOUS
        <5>1. done + i \in 1..agree
          BY <1>1, <1>4
        <5>2. QED
          BY <3>1, <4>1, <5>1
      <4>3. Len(y) = agree - done
        BY <3>1, <4>1
      <4>4. new = y
        BY <3>2, <4>1, <4>2, <4>3, SeqEqual DEF Words
      <4>5. QED
        BY <4>4 DEF y
    <3>4. c.committed = x /\ c.text = v.text \o Texts(new) /\ c.trimmed = v.trimmed
      BY <1>9, <2>3
    <3> HIDE DEF x, new
    <3>5. \A i \in 1..done : FrameOf(v.committed[i].text) = FrameOf(x[i].text)
      <4>1. \A i \in 1..done : i \in 1..agree /\ i \in 1..Len(ws)
        BY <1>1, <1>4, <2>3
      <4>2. QED
        BY <1>6, <1>7, <3>1, <4>1
    <3>6. FramesOf(Texts(x)) = FramesOf(Texts(v.committed)) \o FramesOf(Texts(new))
      <4>1. done <= Len(x)
        BY <1>1, <1>4, <2>3, <3>1
      <4>2. FramesOf(Texts(x)) = FramesOf(Texts(v.committed))
                                    \o FramesOf(Texts(SubSeq(x, done + 1, Len(x))))
        BY <1>1, <3>1, <3>5, <4>1, FramesInParts DEF done
      <4>3. QED
        BY <3>3, <4>2
    <3> DEFINE a == FramesOf(v.trimmed)
               b == FramesOf(Texts(v.committed))
               d == FramesOf(Texts(new))
    <3>7. a \in Seq(Nat) /\ b \in Seq(Nat) /\ d \in Seq(Nat)
      BY <1>1, <3>2, TextsType, FramesOfType
    <3>8. FramesOf(v.text \o Texts(new)) = FramesOf(v.text) \o d
      BY <1>1, <3>2, TextsType, FramesOfJoin
    <3>9. FramesOf(v.text) = a \o b /\ FramesOf(Texts(x)) = b \o d
      BY <2>1, <3>6
    <3> HIDE DEF a, b, d
    <3>10. (a \o b) \o d = a \o (b \o d)
      BY <3>7, ConcatAssociative
    <3>11. FramesOf(c.text) = a \o FramesOf(Texts(x))
      BY <3>4, <3>8, <3>9, <3>10, Zenon
    <3>12. QED
      BY <3>4, <3>11 DEF a
  <2>4. QED
    BY <1>1, <1>4, <2>2, <2>3
<1>15. QED
  BY <1>11, <1>12, <1>13, <1>14

\* Rendering does not touch it.
LEMMA RenderedMeans ==
    ASSUME NEW K \in SUBSET Nat, NEW S, NEW v \in UtterancesOf(K), NEW ws \in Words, NEW pre,
           NEW agree \in Nat, agree <= Len(ws), NEW r \in Rendered(v, ws, agree),
           Aligned(S, v, pre), Decoded(S, v, 0), Typed(v), Late(S, v, ws)
    PROVE  /\ Aligned(S, r, pre) /\ Decoded(S, r, 0) /\ Typed(r) /\ Late(S, r, ws)
           /\ Renders(r, ws, r) /\ Shows(r)
<1>1. /\ r \in UtterancesOf(K)
      /\ r.buffer = v.buffer /\ r.trimmed = v.trimmed /\ r.decodedLen = v.decodedLen
      /\ r.firstDecode = v.firstDecode
      /\ r.prevNorm = v.prevNorm /\ r.committed = v.committed
      /\ Renders(v, ws, r)
  BY RenderedIs
<1>2. Aligned(S, r, pre)
  BY <1>1 DEF Aligned
<1>3. Decoded(S, r, 0)
  BY <1>1 DEF Decoded
<1>4. Late(S, r, ws)
  BY <1>1 DEF Late
<1>5. Renders(r, ws, r)
  BY <1>1 DEF Renders
<1>6. Typed(r)
  <2>1. mode = "commit" => mode # "correcting"
    OBVIOUS
  <2>2. mode = "commit" => r.text = v.text
    BY <1>1, <2>1 DEF Renders
  <2>3. QED
    BY <1>1, <2>2 DEF Typed
<1>7. Shows(r)
  <2> SUFFICES ASSUME mode = "correcting" PROVE Starts(FramesOf(r.trimmed), FramesOf(r.text))
    BY DEF Shows
  <2>1. PICK n \in Nat : n <= Len(ws) /\ r.text = r.trimmed \o Texts(SubSeq(ws, 1, n))
    BY <1>5 DEF Renders
  <2> DEFINE t == Texts(SubSeq(ws, 1, n))
  <2>2. t \in TextsOfWords /\ r.trimmed \in TextsOfWords
    <3>1. SubSeq(ws, 1, n) \in Words
      BY <2>1, BeginningOfWords
    <3>2. QED
      BY <1>1, <3>1, TextsType DEF UtterancesOf
  <2> HIDE DEF t
  <2>3. FramesOf(r.text) = FramesOf(r.trimmed) \o FramesOf(t)
    BY <2>1, <2>2, FramesOfJoin DEF t
  <2> DEFINE a == FramesOf(r.trimmed)
             b == FramesOf(t)
  <2>4. a \in Seq(Nat) /\ b \in Seq(Nat)
    BY <2>2, FramesOfType
  <2> HIDE DEF a, b
  <2>5. Starts(a, a \o b)
    BY <2>4, ConcatProperties, LenProperties DEF Starts
  <2>6. QED
    BY <2>3, <2>5 DEF a, b
<1>8. QED
  BY <1>2, <1>3, <1>4, <1>5, <1>6, <1>7

\* A trim cuts buffer and hypothesis at the same word.
LEMMA TrimmedMeans ==
    ASSUME NEW K \in SUBSET Nat, NEW S, NEW v \in UtterancesOf(K), NEW ws \in Words,
           NEW pre \in Seq(Nat), v.committed # <<>>, v.firstDecode,
           Aligned(S, v, pre), Decoded(S, v, 0), Typed(v), Late(S, v, ws), Renders(v, ws, v),
           WordsOf(ws, SaidOf(S, v.buffer)), NEW w, w = Trimmed(v, FALSE)
    PROVE  \E b1, b2 \in Seq(K) :
              /\ v.buffer = b1 \o b2 /\ w.buffer = b2
              /\ Aligned(S, w, pre \o b1) /\ Decoded(S, w, 0) /\ Typed(w) /\ Shows(w)
<1> DEFINE C == SaidOf(S, v.buffer)
           n == Len(v.committed)
<1>1. /\ v.committed \in Words /\ v.prevNorm \in TextsOfWords /\ v.text \in TextsOfWords
      /\ v.trimmed \in TextsOfWords /\ v.decodedLen \in Nat /\ v.buffer \in Seq(K)
      /\ n \in Nat /\ Len(ws) \in Nat /\ v.buffer \in Seq(Nat) /\ Len(v.buffer) \in Nat
      /\ Len(v.prevNorm) \in Nat
  BY TextsType, FramesOfType, SeqMonotonic, LenProperties DEF UtterancesOf
<1>2. /\ Len(C) \in Nat /\ \A i \in 1..Len(C) : C[i].end \in Nat
  <2>1. Enumerates(S, v.buffer)
    BY <1>1, SaidEnumerates
  <2>2. Len(C) \in Nat /\ \A i \in 1..Len(C) : C[i].end \in 1..Len(v.buffer)
    BY <2>1, LenProperties DEF Enumerates
  <2>3. QED
    BY <1>1, <2>2
<1> HIDE DEF C, n
<1>3. /\ FramesOf(v.trimmed) = SpokenOf(S, pre)
      /\ n <= Len(C)
      /\ \A i \in 1..n : FrameOf(v.committed[i].text) = C[i].text /\ v.committed[i].end = C[i].end
      /\ Len(v.prevNorm) <= Len(C)
      /\ \A i \in 1..Len(v.prevNorm) : FrameOf(v.prevNorm[i]) = C[i].text
      /\ v.decodedLen <= Len(v.buffer)
      /\ \A i \in 1..Len(v.prevNorm) : C[i].end + 0 <= v.decodedLen
      /\ \A i \in 1..n : C[i].end + 0 + MinNew <= v.decodedLen
  BY DEF Aligned, Decoded, WordsOf, HeardAs, C, n
<1>4. /\ Len(ws) <= Len(C)
      /\ \A i \in 1..Len(ws) : FrameOf(ws[i].text) = C[i].text
  BY DEF WordsOf, C
\* The place of the cut.
<1>5. PICK at \in 1..n : TrimEnd(v) = v.committed[at].end
  BY TrimEndIs DEF n
<1>6. at \in 1..Len(C) /\ at \in Nat
  BY <1>1, <1>2, <1>3
<1>7. PICK b1 \in Seq(K), b2 \in Seq(K) : CutsAt(S, v.buffer, at, b1, b2)
  BY <1>1, <1>6, CutBehindWord DEF C
<1> DEFINE k == C[at].end
           A == SaidOf(S, b1)
           B == SaidOf(S, b2)
<1>8. /\ k \in 1..Len(v.buffer) /\ Len(b1) = k /\ Len(b2) = Len(v.buffer) - k
      /\ b2 = SubSeq(v.buffer, k + 1, Len(v.buffer)) /\ v.buffer = b1 \o b2
      /\ Len(A) = at
      /\ \A i \in 1..Len(C) : C[i].end > k <=> i > at
  BY <1>7 DEF CutsAt, C
<1>9. b1 \in Seq(Nat) /\ b2 \in Seq(Nat)
  BY SeqMonotonic
<1> HIDE DEF k
<1>10. TheCut(v) = k
  <2>1. TrimEnd(v) = k /\ k \in Nat /\ k <= Len(v.buffer)
    <3>1. v.committed[at].end = C[at].end
      BY <1>3
    <3>2. TrimEnd(v) = k
      BY <1>5, <3>1 DEF k
    <3>3. QED
      BY <1>1, <1>8, <3>2
  <2>2. QED
    BY <1>1, <2>1 DEF TheCut
<1>11. /\ Len(C) = at + Len(B) /\ Len(B) \in Nat
       /\ \A i \in 1..at : C[i] = A[i]
       /\ \A i \in 1..Len(B) : C[at + i].text = B[i].text /\ C[at + i].end = k + B[i].end
  <2>1. Joins(S, b1, b2)
    BY <1>9, SaidJoins
  <2>2. /\ Len(C) = Len(A) + Len(B)
        /\ \A i \in 1..Len(A) : C[i] = A[i]
        /\ \A i \in 1..Len(B) : C[Len(A) + i].text = B[i].text /\ C[Len(A) + i].end = Len(b1) + B[i].end
    BY <1>8, <2>1 DEF Joins, C
  <2>3. Enumerates(S, b2)
    BY <1>9, SaidEnumerates
  <2>4. Len(B) \in Nat
    BY <2>3, LenProperties DEF Enumerates
  <2>5. QED
    BY <1>8, <2>2, <2>4
<1>12. \A i \in 1..Len(B) : B[i].end \in Nat
  <2>1. Enumerates(S, b2)
    BY <1>9, SaidEnumerates
  <2>2. \A i \in 1..Len(B) : B[i].end \in 1..Len(b2)
    BY <2>1 DEF Enumerates
  <2>3. QED
    BY <1>1, <1>8, <2>2
\* The words it takes, and those it leaves.
<1> DEFINE keep == TheKept(v, FALSE)
           gone == Picked(v.committed, DOMAIN v.committed \ keep)
           stay == Picked(v.committed, keep)
<1>13. v.committed \in Seq(Word) /\ DOMAIN v.committed = 1..n
  <2>1. v.committed \in Seq(Word)
    BY <1>1 DEF Words, Word
  <2>2. QED
    BY <2>1, LenProperties DEF n
<1>14. \A i \in 1..n : i \in keep <=> i > at
  <2> SUFFICES ASSUME NEW i \in 1..n PROVE i \in keep <=> i > at
    OBVIOUS
  <2>1. i \in keep <=> v.committed[i].end > k
    BY <1>10, <1>13 DEF TheKept, StillHeard
  <2>2. v.committed[i].end = C[i].end /\ i \in 1..Len(C)
    BY <1>1, <1>2, <1>3
  <2>3. QED
    BY <1>8, <2>1, <2>2
<1> HIDE DEF A, B, keep
<1>15. /\ gone \in Words /\ Len(gone) = at
       /\ \A i \in 1..at : gone[i] = v.committed[i]
  <2> DEFINE I == DOMAIN v.committed \ keep
  <2>1. \A i \in 1..n : i \in I <=> i <= at
    BY <1>6, <1>13, <1>14
  <2>2. at \in 0..n
    BY <1>1, <1>6
  <2> HIDE DEF I
  <2>3. /\ Len(Picked(v.committed, I)) = at
        /\ \A i \in 1..at : Picked(v.committed, I)[i] = v.committed[i]
    BY <1>13, <2>1, <2>2, PickedBeginning DEF n
  <2>4. Picked(v.committed, I) \in Seq(Word)
    BY <1>13, PickedType
  <2>5. QED
    BY <2>3, <2>4 DEF I, Words, Word
<1>16. /\ stay \in Words /\ Len(stay) = n - at
       /\ \A i \in 1..(n - at) : stay[i] = v.committed[at + i]
  <2>1. at \in 0..n
    BY <1>1, <1>6
  <2>2. /\ Len(stay) = n - at
        /\ \A i \in 1..(n - at) : stay[i] = v.committed[at + i]
    BY <1>13, <1>14, <2>1, PickedEnding DEF n
  <2>3. stay \in Seq(Word)
    BY <1>13, PickedType
  <2>4. QED
    BY <2>2, <2>3 DEF Words, Word
<1> DEFINE com == [i \in 1..Len(stay) |-> [stay[i] EXCEPT !.end = @ - k]]
           norm == SubSeq(v.prevNorm, Len(gone) + 1, Len(v.prevNorm))
           dl == IF v.decodedLen > k THEN v.decodedLen - k ELSE 0
<1>17. /\ w \in UtterancesOf(K) /\ w.buffer = b2 /\ w.decodedLen = dl
       /\ w.trimmed = v.trimmed \o Texts(gone) /\ w.committed = com /\ w.prevNorm = norm
       /\ w.text = v.text /\ w.firstDecode
  <2> DEFINE x == Trimmed(v, FALSE)
  <2>1. /\ x \in UtterancesOf(K)
        /\ x.buffer = SubSeq(v.buffer, TheCut(v) + 1, Len(v.buffer))
        /\ x.decodedLen = (IF v.decodedLen > TheCut(v) THEN v.decodedLen - TheCut(v) ELSE 0)
        /\ x.trimmed = v.trimmed \o Texts(gone)
        /\ x.committed = [i \in 1..Len(stay) |-> [stay[i] EXCEPT !.end = @ - TheCut(v)]]
        /\ x.prevNorm = SubSeq(v.prevNorm, Len(gone) + 1, Len(v.prevNorm))
        /\ x.text = v.text /\ x.firstDecode = v.firstDecode
    BY TrimmedIs DEF keep
  <2>2. QED
    BY <1>8, <1>10, <2>1
<1> HIDE DEF gone, stay
<1>18. dl = v.decodedLen - k /\ dl \in Nat /\ dl <= Len(b2)
  <2>1. C[at].end + 0 + MinNew <= v.decodedLen
    BY <1>3
  <2>2. k + MinNew <= v.decodedLen /\ k \in Nat /\ MinNew \in Nat
    BY <1>1, <1>8, <2>1, SessionAssumption DEF k
  <2>3. v.decodedLen \in Nat /\ v.decodedLen <= Len(v.buffer) /\ Len(v.buffer) \in Nat
    BY <1>1, <1>3
  <2>4. v.decodedLen - k \in Nat /\ v.decodedLen - k <= Len(v.buffer) - k
    BY <2>2, <2>3
  <2>5. dl = v.decodedLen - k
    BY <2>2, <2>3
  <2>6. QED
    BY <1>8, <2>4, <2>5
<1>19. /\ Len(com) = n - at /\ com \in Words
       /\ \A i \in 1..(n - at) : /\ com[i].text = v.committed[at + i].text
                                 /\ FrameOf(com[i].text) = B[i].text /\ com[i].end = B[i].end
  <2>1. w.committed \in Words
    BY <1>17 DEF UtterancesOf
  <2>2. Len(com) = n - at /\ com \in Words
    <3>1. com \in Words
      BY <1>17, <2>1
    <3>2. com \in Seq(Word)
      BY <3>1 DEF Words, Word
    <3>3. DOMAIN com = 1..Len(com) /\ Len(com) \in Nat
      BY <3>2, LenProperties
    <3>4. DOMAIN com = 1..(n - at) /\ n - at \in Nat
      BY <1>1, <1>6, <1>16
    <3> HIDE DEF com
    <3>5. QED
      BY <3>1, <3>3, <3>4
  <2>3. ASSUME NEW i \in 1..(n - at)
        PROVE  /\ com[i].text = v.committed[at + i].text
               /\ FrameOf(com[i].text) = B[i].text /\ com[i].end = B[i].end
    <3>1. com[i] = [stay[i] EXCEPT !.end = @ - k] /\ stay[i] = v.committed[at + i] /\ i \in 1..Len(stay)
      BY <1>16
    <3>2. stay[i] \in Word
      BY <1>16, <3>1, TextsType
    <3> DEFINE e == stay[i]
    <3> HIDE DEF e
    <3>3. com[i].text = e.text /\ com[i].end = e.end - k
      <4>1. [e EXCEPT !.end = @ - k].text = e.text /\ [e EXCEPT !.end = @ - k].end = e.end - k
        BY <3>2 DEF Word, e
      <4>2. QED
        BY <3>1, <4>1 DEF e
    <3>4. at + i \in 1..n /\ at + i \in 1..Len(C) /\ i \in 1..Len(B)
      BY <1>1, <1>3, <1>6, <1>11
    <3>5. FrameOf(e.text) = C[at + i].text /\ e.end = C[at + i].end
      BY <1>3, <3>1, <3>4 DEF e
    <3>6. C[at + i].text = B[i].text /\ C[at + i].end = k + B[i].end /\ B[i].end \in Nat
      BY <1>11, <1>12, <3>4
    <3>7. k \in Nat
      BY <1>1, <1>8
    <3> HIDE DEF com
    <3>8. com[i].end = B[i].end
      BY <3>3, <3>5, <3>6, <3>7
    <3>9. com[i].text = v.committed[at + i].text
      BY <3>1, <3>3 DEF e
    <3>10. FrameOf(com[i].text) = B[i].text
      BY <3>3, <3>5, <3>6
    <3>11. QED
      BY <3>8, <3>9, <3>10
  <2>4. QED
    BY <2>2, <2>3
<1>20. /\ norm \in TextsOfWords /\ Len(norm) <= Len(B)
       /\ \A i \in 1..Len(norm) : FrameOf(norm[i]) = B[i].text /\ B[i].end <= dl
  <2> DEFINE m == Len(v.prevNorm)
  <2>1. /\ norm \in TextsOfWords
        /\ Len(norm) = (IF at + 1 <= m THEN m - at ELSE 0)
        /\ \A i \in 1..(m - at) : norm[i] = v.prevNorm[at + i]
    <3>1. \A i \in (at + 1)..m : v.prevNorm[i] \in Int
      <4>1. \A i \in (at + 1)..m : i \in 1..m
        BY <1>1, <1>6
      <4>2. QED
        BY <1>1, <4>1, ElementOfSeq DEF TextsOfWords
    <3>2. at + 1 \in Int /\ m \in Int
      BY <1>1, <1>6
    <3> DEFINE x == SubSeq(v.prevNorm, at + 1, m)
    <3>3. /\ x \in Seq(Int) /\ Len(x) = (IF at + 1 <= m THEN m - (at + 1) + 1 ELSE 0)
          /\ \A i \in 1..(m - (at + 1) + 1) : x[i] = v.prevNorm[at + 1 + i - 1]
      BY <3>1, <3>2, SubSeqProperties
    <3>4. norm = x
      BY <1>15
    <3> HIDE DEF x, norm
    <3>5. m - (at + 1) + 1 = m - at /\ \A i \in 1..(m - at) : at + 1 + i - 1 = at + i
      BY <1>1, <1>6
    <3>6. QED
      BY <3>3, <3>4, <3>5 DEF TextsOfWords
  <2> HIDE DEF norm, m, dl
  <2>2. m \in Nat /\ m <= Len(C)
    BY <1>1, <1>3 DEF m
  <2>3. Len(norm) \in Nat /\ (Len(norm) = m - at \/ Len(norm) = 0) /\ Len(norm) <= Len(B)
    BY <1>6, <1>11, <2>1, <2>2
  <2>4. ASSUME NEW i \in 1..Len(norm) PROVE FrameOf(norm[i]) = B[i].text /\ B[i].end <= dl
    <3>1. i \in 1..(m - at) /\ at + i \in 1..m /\ i \in 1..Len(B)
      BY <1>6, <1>11, <2>2, <2>3
    <3>2. FrameOf(v.prevNorm[at + i]) = C[at + i].text /\ C[at + i].end + 0 <= v.decodedLen
      BY <1>3, <3>1 DEF m
    <3>3. C[at + i].text = B[i].text /\ C[at + i].end = k + B[i].end /\ B[i].end \in Nat
      BY <1>11, <1>12, <3>1
    <3>4. norm[i] = v.prevNorm[at + i]
      BY <2>1, <3>1
    <3>5. B[i].end <= dl
      <4>1. C[at + i].end <= v.decodedLen
        BY <1>1, <1>8, <3>2, <3>3
      <4>2. k + B[i].end <= v.decodedLen
        BY <3>3, <4>1
      <4>3. k \in Nat /\ v.decodedLen \in Nat /\ B[i].end \in Nat /\ dl = v.decodedLen - k
        BY <1>1, <1>8, <1>18, <3>3
      <4>4. QED
        BY <4>2, <4>3
    <3>6. QED
      BY <3>2, <3>3, <3>4, <3>5
  <2>5. QED
    BY <2>1, <2>3, <2>4
<1> HIDE DEF com, norm, dl
<1>21. FramesOf(Texts(gone)) = SpokenOf(S, b1) /\ SpokenOf(S, b1) \in Seq(Nat)
  <2> DEFINE P == SpokenOf(S, b1)
             G == FramesOf(Texts(gone))
  <2>1. Enumerates(S, b1)
    BY <1>9, SaidEnumerates
  <2>2. P \in Seq(Nat) /\ Len(P) = at /\ \A i \in 1..at : P[i] = A[i].text
    BY <1>8, <2>1 DEF Enumerates, A
  <2>3. G \in Seq(Nat) /\ Len(G) = at /\ \A i \in 1..at : G[i] = FrameOf(gone[i].text)
    BY <1>15, TextsType, FramesOfType
  <2> HIDE DEF P, G
  <2>4. \A i \in 1..at : FrameOf(gone[i].text) = A[i].text
    <3> SUFFICES ASSUME NEW i \in 1..at PROVE FrameOf(gone[i].text) = A[i].text
      OBVIOUS
    <3>1. gone[i] = v.committed[i] /\ C[i] = A[i] /\ i \in 1..n
      BY <1>1, <1>6, <1>11, <1>15
    <3>2. FrameOf(v.committed[i].text) = C[i].text
      BY <1>3, <3>1
    <3>3. QED
      BY <3>1, <3>2
  <2>5. G = P
    BY <2>2, <2>3, <2>4, SeqEqual
  <2>6. QED
    BY <2>2, <2>5 DEF G, P
<1>22. FramesOf(w.trimmed) = FramesOf(v.trimmed) \o FramesOf(Texts(gone))
  BY <1>1, <1>15, <1>17, TextsType, FramesOfJoin
<1>23. Aligned(S, w, pre \o b1)
  <2>1. FramesOf(w.trimmed) = SpokenOf(S, pre \o b1)
    <3>1. SpokenOf(S, pre \o b1) = SpokenOf(S, pre) \o SpokenOf(S, b1)
      BY <1>9, SpokenJoins
    <3>2. FramesOf(v.trimmed) = SpokenOf(S, pre)
      BY <1>3
    <3>3. QED
      BY <1>21, <1>22, <3>1, <3>2, Zenon
  <2>2. WordsOf(com, B)
    BY <1>1, <1>3, <1>6, <1>11, <1>19 DEF WordsOf
  <2>3. HeardAs(norm, B)
    BY <1>20 DEF HeardAs
  <2>4. QED
    BY <1>17, <2>1, <2>2, <2>3 DEF Aligned, B
<1>24. Decoded(S, w, 0)
  <2>1. \A i \in 1..Len(norm) : B[i].end + 0 <= dl
    <3> SUFFICES ASSUME NEW i \in 1..Len(norm) PROVE B[i].end + 0 <= dl
      OBVIOUS
    <3>1. i \in 1..Len(B) /\ B[i].end <= dl
      <4>1. Len(norm) \in Nat
        BY <1>20, FramesOfType
      <4>2. QED
        BY <1>11, <1>20, <4>1
    <3>2. B[i].end \in Nat
      BY <1>12, <3>1
    <3>3. QED
      BY <3>1, <3>2
  <2>2. \A i \in 1..Len(com) : B[i].end + 0 + MinNew <= dl
    <3> SUFFICES ASSUME NEW i \in 1..Len(com) PROVE B[i].end + 0 + MinNew <= dl
      OBVIOUS
    <3>1. at + i \in 1..n /\ i \in 1..Len(B)
      BY <1>1, <1>3, <1>6, <1>11, <1>19
    <3>2. C[at + i].end + 0 + MinNew <= v.decodedLen
      BY <1>3, <3>1
    <3>3. C[at + i].end = k + B[i].end /\ B[i].end \in Nat
      BY <1>11, <1>12, <3>1
    <3>4. k \in Nat /\ MinNew \in Nat /\ v.decodedLen \in Nat /\ dl = v.decodedLen - k
      BY <1>1, <1>8, <1>18, SessionAssumption
    <3> DEFINE e == B[i].end
    <3>5. e \in Nat /\ (k + e) + 0 + MinNew <= v.decodedLen
      BY <3>2, <3>3
    <3> HIDE DEF e
    <3>6. e + 0 + MinNew <= dl
      BY <3>4, <3>5
    <3>7. QED
      BY <3>6 DEF e
  <2>3. QED
    BY <1>17, <1>18, <2>1, <2>2 DEF Decoded, B
<1>25. FramesOf(Texts(v.committed)) = FramesOf(Texts(gone)) \o FramesOf(Texts(com))
  <2> DEFINE rest == SubSeq(v.committed, at + 1, n)
  <2>1. at <= n /\ \A i \in 1..at : FrameOf(gone[i].text) = FrameOf(v.committed[i].text)
    BY <1>1, <1>6, <1>15
  <2>2. FramesOf(Texts(v.committed)) = FramesOf(Texts(gone)) \o FramesOf(Texts(rest))
    BY <1>1, <1>6, <1>15, <2>1, FramesInParts DEF n
  <2>3. /\ rest \in Words /\ Len(rest) = n - at
        /\ \A i \in 1..(n - at) : rest[i] = v.committed[at + i]
    <3>1. n <= Len(v.committed)
      BY <1>1 DEF n
    <3>2. QED
      BY <1>1, <1>6, <2>1, <3>1, PartOfWords
  <2> HIDE DEF rest
  <2>4. FramesOf(Texts(rest)) = FramesOf(Texts(com))
    <3> DEFINE P == FramesOf(Texts(rest))
               Q == FramesOf(Texts(com))
    <3>1. P \in Seq(Nat) /\ Len(P) = n - at /\ \A i \in 1..(n - at) : P[i] = FrameOf(rest[i].text)
      BY <2>3, TextsType, FramesOfType
    <3>2. Q \in Seq(Nat) /\ Len(Q) = n - at /\ \A i \in 1..(n - at) : Q[i] = FrameOf(com[i].text)
      BY <1>19, TextsType, FramesOfType
    <3> HIDE DEF P, Q
    <3>3. \A i \in 1..(n - at) : rest[i].text = com[i].text
      BY <1>19, <2>3
    <3>4. P = Q
      BY <3>1, <3>2, <3>3, SeqEqual
    <3>5. QED
      BY <3>4 DEF P, Q
  <2>5. QED
    BY <2>2, <2>4
<1>26. Typed(w)
  <2> SUFFICES ASSUME mode = "commit"
               PROVE  FramesOf(w.text) = FramesOf(w.trimmed) \o FramesOf(Texts(w.committed))
    BY DEF Typed
  <2> DEFINE a == FramesOf(v.trimmed)
             b == FramesOf(Texts(gone))
             d == FramesOf(Texts(com))
  <2>1. a \in Seq(Nat) /\ b \in Seq(Nat) /\ d \in Seq(Nat)
    BY <1>1, <1>15, <1>19, TextsType, FramesOfType
  <2>2. FramesOf(v.text) = a \o FramesOf(Texts(v.committed))
    BY DEF Typed
  <2>3. FramesOf(v.text) = a \o (b \o d)
    BY <1>25, <2>2, Zenon
  <2>4. FramesOf(w.text) = FramesOf(v.text) /\ FramesOf(w.trimmed) = a \o b
        /\ FramesOf(Texts(w.committed)) = d
    BY <1>17, <1>22
  <2> HIDE DEF a, b, d
  <2>5. (a \o b) \o d = a \o (b \o d)
    BY <2>1, ConcatAssociative, SMTT(30)
  <2>6. QED
    BY <2>3, <2>4, <2>5, Zenon
<1>27. Shows(w)
  <2> SUFFICES ASSUME mode = "correcting", MinSpeech <= 2 * MinNew
               PROVE  Len(w.buffer) >= MinSpeech \/ Starts(FramesOf(w.trimmed), FramesOf(w.text))
    BY DEF Shows
  <2>1. PICK j \in Nat : /\ j <= Len(ws) /\ (j = Len(ws) \/ j >= n)
                         /\ v.text = v.trimmed \o Texts(SubSeq(ws, 1, j))
    BY DEF Renders, n
  <2>2. CASE j >= at
    <3> DEFINE x == SubSeq(ws, 1, j)
               a == FramesOf(v.trimmed)
               b == FramesOf(Texts(gone))
               d == FramesOf(Texts(x))
    <3>1. x \in Words /\ Len(x) = j /\ \A i \in 1..j : x[i] = ws[i]
      BY <2>1, BeginningOfWords
    <3>2. FramesOf(w.trimmed) = a \o b
      BY <1>22
    <3>3. FramesOf(w.text) = a \o d
      <4>1. w.text = v.trimmed \o Texts(x)
        BY <1>17, <2>1
      <4>2. Texts(x) \in TextsOfWords
        BY <3>1, TextsType
      <4> HIDE DEF x
      <4>3. QED
        BY <1>1, <4>1, <4>2, FramesOfJoin
    <3>4. a \in Seq(Nat) /\ Len(a) \in Nat
      BY <1>1, FramesOfType, LenProperties
    <3>5. /\ b \in Seq(Nat) /\ Len(b) = at
          /\ \A i \in 1..at : b[i] = FrameOf(gone[i].text)
      <4> DEFINE t == Texts(gone)
      <4>1. t \in TextsOfWords /\ Len(t) = at /\ \A i \in 1..at : t[i] = gone[i].text
        BY <1>15, TextsType
      <4> HIDE DEF t
      <4>2. /\ FramesOf(t) \in Seq(Nat) /\ Len(FramesOf(t)) = at
            /\ \A i \in 1..at : FramesOf(t)[i] = FrameOf(t[i])
        BY <4>1, FramesOfType
      <4>3. QED
        BY <4>1, <4>2 DEF t
    <3>6. /\ d \in Seq(Nat) /\ Len(d) = j
          /\ \A i \in 1..j : d[i] = FrameOf(ws[i].text)
      <4> HIDE DEF x
      <4>1. d \in Seq(Nat) /\ Len(d) = j /\ \A i \in 1..j : d[i] = FrameOf(x[i].text)
        <5> DEFINE t == Texts(x)
        <5>1. t \in TextsOfWords /\ Len(t) = j /\ \A i \in 1..j : t[i] = x[i].text
          BY <3>1, TextsType
        <5> HIDE DEF t
        <5>2. /\ FramesOf(t) \in Seq(Nat) /\ Len(FramesOf(t)) = j
              /\ \A i \in 1..j : FramesOf(t)[i] = FrameOf(t[i])
          BY <5>1, FramesOfType
        <5>3. QED
          BY <5>1, <5>2 DEF t
      <4>2. QED
        BY <3>1, <4>1
    <3> HIDE DEF a, b, d, x
    <3>7. \A i \in 1..at : b[i] = d[i]
      <4> SUFFICES ASSUME NEW i \in 1..at PROVE b[i] = d[i]
        OBVIOUS
      <4>1. i \in 1..n /\ i \in 1..j /\ i \in 1..Len(ws)
        BY <1>1, <1>6, <2>1, <2>2
      <4>2. gone[i] = v.committed[i] /\ FrameOf(v.committed[i].text) = C[i].text
            /\ FrameOf(ws[i].text) = C[i].text
        BY <1>3, <1>4, <1>15, <4>1
      <4>3. QED
        BY <3>5, <3>6, <4>1, <4>2
    <3>8. Starts(a \o b, a \o d)
      <4>1. /\ Len(a \o b) = Len(a) + at
            /\ \A i \in 1..(Len(a) + at) : (a \o b)[i] = IF i <= Len(a) THEN a[i] ELSE b[i - Len(a)]
        <5>1. /\ Len(a \o b) = Len(a) + Len(b)
              /\ \A i \in 1..(Len(a) + Len(b)) :
                    (a \o b)[i] = IF i <= Len(a) THEN a[i] ELSE b[i - Len(a)]
          BY <3>4, <3>5, ConcatProperties
        <5>2. QED
          BY <3>5, <5>1
      <4>2. /\ Len(a \o d) = Len(a) + j
            /\ \A i \in 1..(Len(a) + j) : (a \o d)[i] = IF i <= Len(a) THEN a[i] ELSE d[i - Len(a)]
        <5>1. /\ Len(a \o d) = Len(a) + Len(d)
              /\ \A i \in 1..(Len(a) + Len(d)) :
                    (a \o d)[i] = IF i <= Len(a) THEN a[i] ELSE d[i - Len(a)]
          BY <3>4, <3>6, ConcatProperties
        <5>2. QED
          BY <3>6, <5>1
      <4>3. ASSUME NEW i \in 1..(Len(a) + at) PROVE (a \o b)[i] = (a \o d)[i]
        <5>1. i \in 1..(Len(a) + j)
          BY <1>6, <2>2, <3>4
        <5>2. CASE i <= Len(a)
          BY <4>1, <4>2, <5>1, <5>2
        <5>3. CASE ~(i <= Len(a))
          <6>1. i - Len(a) \in 1..at
            BY <1>6, <3>4, <5>3
          <6>2. b[i - Len(a)] = d[i - Len(a)]
            BY <3>7, <6>1
          <6>3. QED
            BY <4>1, <4>2, <5>1, <5>3, <6>2
        <5>4. QED
          BY <5>2, <5>3
      <4>4. Len(a) + at <= Len(a) + j
        BY <1>6, <2>2, <3>4
      <4>5. QED
        BY <4>1, <4>2, <4>3, <4>4 DEF Starts
    <3>9. QED
      BY <3>2, <3>3, <3>8
  <2>3. CASE ~(j >= at)
    <3>1. Len(ws) < n
      BY <1>1, <1>6, <2>1, <2>3
    <3>2. C[at].end + 2 * MinNew <= v.decodedLen
      BY <3>1 DEF Late, C, n
    <3>3. Len(w.buffer) = Len(v.buffer) - k /\ k = C[at].end
      BY <1>8, <1>17 DEF k
    <3>4. k \in Nat /\ MinNew \in Nat /\ MinSpeech \in Nat
      BY <1>1, <1>8, SessionAssumption
    <3>5. /\ Len(v.buffer) \in Nat /\ v.decodedLen \in Nat /\ v.decodedLen <= Len(v.buffer)
          /\ k + 2 * MinNew <= v.decodedLen
      BY <1>1, <1>3, <3>2, <3>3
    <3>6. Len(v.buffer) - k >= MinSpeech
      BY <3>4, <3>5
    <3>7. QED
      BY <3>3, <3>6
  <2>4. QED
    BY <2>2, <2>3
<1>28. QED
  BY <1>8, <1>17, <1>23, <1>24, <1>26, <1>27

\* The state an utterance is in when nothing is in flight, and one step of its
\* audio: what the words before its buffer are, and what it has typed.
Sound(S, v, pre, lag) ==
    Aligned(S, v, pre) /\ Decoded(S, v, lag) /\ Typed(v) /\ Shows(v)

\* _apply_hypothesis leaves an utterance sound, however it cuts the buffer.
LEMMA AppliedMeans ==
    ASSUME NEW K \in SUBSET Nat, NEW S, NEW v \in UtterancesOf(K), NEW ws \in Words,
           NEW pre \in Seq(Nat), Sound(S, v, pre, MinNew), v.firstDecode,
           WordsOf(ws, SaidOf(S, v.buffer)),
           \A i \in 1..Len(ws) : SaidOf(S, v.buffer)[i].end <= v.decodedLen,
           NEW w \in Applied(v, ws), "cut short" \notin w.faults
    PROVE  \E b1, b2 \in Seq(K) :
              /\ v.buffer = b1 \o b2 /\ w.buffer = b2
              /\ Sound(S, w, pre \o b1, 0)
<1> DEFINE c == Committed(v, ws)
           agree == Agreement(v, ws)
<1>1. PICK r \in Rendered(c, ws, agree) : w \in MaybeTrimmed(r)
  BY DEF Applied
<1>2. /\ c \in UtterancesOf(K) /\ c.buffer = v.buffer /\ c.firstDecode
  BY CommittedIs
<1>3. agree \in Nat /\ agree <= Len(ws)
  BY AgreementIs
<1>4. /\ Aligned(S, c, pre) /\ Decoded(S, c, 0) /\ Typed(c) /\ Late(S, c, ws)
  BY CommittedMeans DEF Sound
<1> HIDE DEF c, agree
<1>5. /\ r \in UtterancesOf(K) /\ r.buffer = v.buffer /\ r.firstDecode
  <2>1. r \in Rendered(c, ws, agree) /\ c \in UtterancesOf(K)
    BY <1>1, <1>2
  <2>2. /\ r \in UtterancesOf(K) /\ r.buffer = c.buffer /\ r.firstDecode = c.firstDecode
    <3>1. \A x \in Rendered(c, ws, agree) :
             /\ x \in UtterancesOf(K) /\ x.buffer = c.buffer /\ x.firstDecode = c.firstDecode
      BY <1>2, <1>3, RenderedKeeps
    <3>2. QED
      BY <2>1, <3>1
  <2>3. QED
    BY <1>2, <2>2
<1>6. /\ Aligned(S, r, pre) /\ Decoded(S, r, 0) /\ Typed(r) /\ Late(S, r, ws)
      /\ Renders(r, ws, r) /\ Shows(r)
  BY <1>1, <1>2, <1>3, <1>4, RenderedMeans
<1>7. CASE w = r
  <2>1. <<>> \in Seq(K) /\ v.buffer \in Seq(K)
    BY EmptySeq DEF UtterancesOf
  <2>2. v.buffer = <<>> \o v.buffer /\ pre \o <<>> = pre
    BY <2>1, ConcatEmptySeq
  <2>3. Sound(S, w, pre \o <<>>, 0)
    BY <1>6, <1>7, <2>2 DEF Sound
  <2>4. QED
    BY <1>5, <1>7, <2>1, <2>2, <2>3
<1>8. CASE r.committed # <<>> /\ \E short \in {FALSE, CutsShort} : w = Trimmed(r, short)
  <2>1. PICK short \in BOOLEAN : w = Trimmed(r, short)
    BY <1>8, SessionAssumption
  <2>2. short = FALSE
    <3> DEFINE x == Trimmed(r, short)
    <3>1. r \in UtterancesOf(K) /\ r.committed # <<>>
      BY <1>5, <1>8
    <3>2. x.faults = r.faults
                \cup (IF short THEN {"cut short"} ELSE {})
                \cup (IF speculative # NoFuture THEN {"cut under speculation"} ELSE {})
      BY <3>1, TrimmedIs
    <3>3. QED
      BY <2>1, <3>2
  <2>3. w = Trimmed(r, FALSE) /\ r.committed # <<>> /\ WordsOf(ws, SaidOf(S, r.buffer))
    BY <1>5, <1>8, <2>1, <2>2
  <2>4. \E b1, b2 \in Seq(K) :
            /\ r.buffer = b1 \o b2 /\ w.buffer = b2
            /\ Aligned(S, w, pre \o b1) /\ Decoded(S, w, 0) /\ Typed(w) /\ Shows(w)
    <3>1. /\ r \in UtterancesOf(K) /\ r.committed # <<>> /\ r.firstDecode /\ ws \in Words
          /\ pre \in Seq(Nat)
      BY <1>1, <1>5, <2>3
    <3>2. WordsOf(ws, SaidOf(S, r.buffer)) /\ w = Trimmed(r, FALSE)
      BY <2>3
    <3>3. QED
      BY <1>6, <3>1, <3>2, TrimmedMeans
  <2>5. QED
    BY <1>5, <2>4 DEF Sound
<1>9. QED
  BY <1>1, <1>7, <1>8 DEF MaybeTrimmed

-----------------------------------------------------------------------------
(* An utterance stays sound whatever is done to it.                        *)

\* An utterance that is ready for a decode to come is sound without one.
LEMMA SoundSooner ==
    ASSUME NEW K \in SUBSET Nat, NEW S, NEW v \in UtterancesOf(K), NEW pre,
           Sound(S, v, pre, MinNew)
    PROVE  Sound(S, v, pre, 0)
<1> DEFINE said == SaidOf(S, v.buffer)
<1>1. /\ v.buffer \in Seq(Nat) /\ v.decodedLen \in Nat /\ MinNew \in Nat
      /\ v.prevNorm \in TextsOfWords /\ v.committed \in Words
  <2>1. v.buffer \in Seq(K) /\ v.decodedLen \in Nat /\ v.prevNorm \in TextsOfWords
        /\ v.committed \in Words
    BY DEF UtterancesOf
  <2>2. QED
    BY <2>1, SessionAssumption, SeqMonotonic
<1>2. /\ Len(v.prevNorm) \in Nat /\ Len(v.committed) \in Nat /\ Len(said) \in Nat
      /\ Len(v.prevNorm) <= Len(said) /\ Len(v.committed) <= Len(said)
      /\ \A i \in 1..Len(said) : said[i].end \in Nat
  <2>1. Enumerates(S, v.buffer)
    BY <1>1, SaidEnumerates
  <2>2. said \in Seq(SaidWords)
    BY <2>1 DEF Enumerates
  <2>3. Len(said) \in Nat /\ \A i \in 1..Len(said) : said[i] \in SaidWords
    BY <2>2, LenProperties, ElementOfSeq
  <2>4. Len(v.prevNorm) <= Len(said) /\ Len(v.committed) <= Len(said)
    BY DEF Sound, Aligned, HeardAs, WordsOf
  <2>5. Len(v.prevNorm) \in Nat /\ Len(v.committed) \in Nat
    BY <1>1, LenProperties DEF TextsOfWords, Words
  <2> HIDE DEF said
  <2>6. QED
    BY <2>3, <2>4, <2>5 DEF SaidWords
<1>3. /\ \A i \in 1..Len(v.prevNorm) : said[i].end + MinNew <= v.decodedLen
      /\ \A i \in 1..Len(v.committed) : said[i].end + MinNew + MinNew <= v.decodedLen
      /\ v.decodedLen <= Len(v.buffer)
      /\ ~v.firstDecode => v.prevNorm = <<>> /\ v.committed = <<>> /\ v.decodedLen = 0
  BY DEF Sound, Decoded
<1> HIDE DEF said
<1>4. \A i \in 1..Len(v.prevNorm) : said[i].end + 0 <= v.decodedLen
  <2> SUFFICES ASSUME NEW i \in 1..Len(v.prevNorm) PROVE said[i].end + 0 <= v.decodedLen
    OBVIOUS
  <2>1. i \in 1..Len(said)
    BY <1>2
  <2>2. said[i].end \in Nat /\ said[i].end + MinNew <= v.decodedLen
    BY <1>2, <1>3, <2>1
  <2>3. QED
    BY <1>1, <2>2
<1>5. \A i \in 1..Len(v.committed) : said[i].end + 0 + MinNew <= v.decodedLen
  <2> SUFFICES ASSUME NEW i \in 1..Len(v.committed) PROVE said[i].end + 0 + MinNew <= v.decodedLen
    OBVIOUS
  <2>1. i \in 1..Len(said)
    BY <1>2
  <2>2. said[i].end \in Nat /\ said[i].end + MinNew + MinNew <= v.decodedLen
    BY <1>2, <1>3, <2>1
  <2>3. QED
    BY <1>1, <2>2
<1>6. Decoded(S, v, 0)
  BY <1>3, <1>4, <1>5 DEF Decoded, said
<1>7. QED
  BY <1>6 DEF Sound

\* A decode is submitted: what was decoded before is far behind it.
LEMMA SoundDecoding ==
    ASSUME NEW K \in SUBSET Nat, NEW S, NEW v \in UtterancesOf(K), NEW pre,
           Sound(S, v, pre, 0),
           v.firstDecode => Len(v.buffer) - v.decodedLen >= MinNew,
           NEW w, w = [v EXCEPT !.decodedLen = Len(v.buffer), !.firstDecode = TRUE]
    PROVE  w \in UtterancesOf(K) /\ Sound(S, w, pre, MinNew)
<1> DEFINE said == SaidOf(S, v.buffer)
<1>1. /\ v.buffer \in Seq(Nat) /\ v.decodedLen \in Nat /\ MinNew \in Nat
      /\ v.prevNorm \in TextsOfWords /\ v.committed \in Words
      /\ v.firstDecode \in BOOLEAN /\ v.buffer \in Seq(K)
  <2>1. v.buffer \in Seq(K) /\ v.decodedLen \in Nat /\ v.prevNorm \in TextsOfWords
        /\ v.committed \in Words /\ v.firstDecode \in BOOLEAN
    BY DEF UtterancesOf
  <2>2. QED
    BY <2>1, SessionAssumption, SeqMonotonic
<1>2. /\ Len(v.prevNorm) \in Nat /\ Len(v.committed) \in Nat /\ Len(said) \in Nat
      /\ Len(v.prevNorm) <= Len(said) /\ Len(v.committed) <= Len(said)
      /\ \A i \in 1..Len(said) : said[i].end \in Nat
  <2>1. Enumerates(S, v.buffer)
    BY <1>1, SaidEnumerates
  <2>2. said \in Seq(SaidWords)
    BY <2>1 DEF Enumerates
  <2>3. Len(said) \in Nat /\ \A i \in 1..Len(said) : said[i] \in SaidWords
    BY <2>2, LenProperties, ElementOfSeq
  <2>4. Len(v.prevNorm) <= Len(said) /\ Len(v.committed) <= Len(said)
    BY DEF Sound, Aligned, HeardAs, WordsOf
  <2>5. Len(v.prevNorm) \in Nat /\ Len(v.committed) \in Nat
    BY <1>1, LenProperties DEF TextsOfWords, Words
  <2> HIDE DEF said
  <2>6. QED
    BY <2>3, <2>4, <2>5 DEF SaidWords
<1>3. /\ \A i \in 1..Len(v.prevNorm) : said[i].end + 0 <= v.decodedLen
      /\ \A i \in 1..Len(v.committed) : said[i].end + 0 + MinNew <= v.decodedLen
      /\ v.decodedLen <= Len(v.buffer)
      /\ ~v.firstDecode => v.prevNorm = <<>> /\ v.committed = <<>> /\ v.decodedLen = 0
  BY DEF Sound, Decoded
<1>l. Len(v.buffer) \in Nat
  BY <1>1, LenProperties
<1>w. /\ w.buffer = v.buffer /\ w.committed = v.committed /\ w.prevNorm = v.prevNorm
      /\ w.trimmed = v.trimmed /\ w.text = v.text /\ w.decodedLen = Len(v.buffer)
      /\ w.firstDecode = TRUE /\ w \in UtterancesOf(K)
  BY <1>l DEF UtterancesOf
<1> HIDE DEF said
<1>4. \A i \in 1..Len(v.prevNorm) : said[i].end + MinNew <= Len(v.buffer)
  <2> SUFFICES ASSUME NEW i \in 1..Len(v.prevNorm) PROVE said[i].end + MinNew <= Len(v.buffer)
    OBVIOUS
  <2>1. i \in 1..Len(said)
    BY <1>2
  <2>2. said[i].end \in Nat /\ said[i].end + 0 <= v.decodedLen
    BY <1>2, <1>3, <2>1
  <2>3. v.prevNorm # <<>>
    BY <1>2
  <2>4. Len(v.buffer) - v.decodedLen >= MinNew
    BY <1>1, <1>3, <2>3
  <2>5. QED
    BY <1>1, <1>l, <2>2, <2>4
<1>5. \A i \in 1..Len(v.committed) : said[i].end + MinNew + MinNew <= Len(v.buffer)
  <2> SUFFICES ASSUME NEW i \in 1..Len(v.committed)
               PROVE  said[i].end + MinNew + MinNew <= Len(v.buffer)
    OBVIOUS
  <2>1. i \in 1..Len(said)
    BY <1>2
  <2>2. said[i].end \in Nat /\ said[i].end + 0 + MinNew <= v.decodedLen
    BY <1>2, <1>3, <2>1
  <2>3. v.committed # <<>>
    BY <1>2
  <2>4. Len(v.buffer) - v.decodedLen >= MinNew
    BY <1>1, <1>3, <2>3
  <2>5. QED
    BY <1>1, <1>l, <2>2, <2>4
<1>6. Decoded(S, w, MinNew)
  BY <1>4, <1>5, <1>w, <1>l DEF Decoded, said
<1>7. Aligned(S, w, pre) /\ Typed(w) /\ Shows(w)
  BY <1>w DEF Sound, Aligned, Typed, Shows
<1>8. QED
  BY <1>6, <1>7, <1>w DEF Sound

\* That the first decode is done does not matter to it.
LEMMA SoundFirst ==
    ASSUME NEW K \in SUBSET Nat, NEW S, NEW v \in UtterancesOf(K), NEW pre, NEW lag,
           Sound(S, v, pre, lag), NEW w, w = [v EXCEPT !.firstDecode = TRUE]
    PROVE  w \in UtterancesOf(K) /\ Sound(S, w, pre, lag)
<1>1. /\ w.buffer = v.buffer /\ w.committed = v.committed /\ w.prevNorm = v.prevNorm
      /\ w.trimmed = v.trimmed /\ w.text = v.text /\ w.decodedLen = v.decodedLen
      /\ w.firstDecode = TRUE /\ w \in UtterancesOf(K)
  BY DEF UtterancesOf
<1>2. Decoded(S, w, lag)
  BY <1>1 DEF Sound, Decoded
<1>3. Aligned(S, w, pre) /\ Typed(w) /\ Shows(w)
  BY <1>1 DEF Sound, Aligned, Typed, Shows
<1>4. QED
  BY <1>1, <1>2, <1>3 DEF Sound

\* More audio.
LEMMA SoundFed ==
    ASSUME NEW K \in SUBSET Nat, NEW S, NEW v \in UtterancesOf(K), NEW pre, NEW lag \in Nat,
           Sound(S, v, pre, lag), NEW frames \in Seq(K),
           NEW w, w = [v EXCEPT !.buffer = @ \o frames]
    PROVE  w \in UtterancesOf(K) /\ Sound(S, w, pre, lag)
<1> DEFINE b == v.buffer
           said == SaidOf(S, b)
           more == SaidOf(S, b \o frames)
<1>1. /\ b \in Seq(K) /\ v.decodedLen \in Nat /\ v.prevNorm \in TextsOfWords
      /\ v.committed \in Words /\ b \in Seq(Nat) /\ frames \in Seq(Nat)
  BY SeqMonotonic DEF UtterancesOf
<1>2. b \o frames \in Seq(K) /\ Len(b \o frames) = Len(b) + Len(frames)
      /\ Len(b) \in Nat /\ Len(frames) \in Nat
  BY <1>1, ConcatProperties, LenProperties
<1>3. /\ w.buffer = b \o frames /\ w.committed = v.committed /\ w.prevNorm = v.prevNorm
      /\ w.trimmed = v.trimmed /\ w.text = v.text /\ w.decodedLen = v.decodedLen
      /\ w.firstDecode = v.firstDecode /\ w \in UtterancesOf(K)
  BY <1>2 DEF UtterancesOf
<1>4. /\ WordsOf(v.committed, said) /\ HeardAs(v.prevNorm, said)
      /\ FramesOf(v.trimmed) = SpokenOf(S, pre)
  BY DEF Sound, Aligned
<1>5. Len(v.prevNorm) \in Nat /\ Len(v.committed) \in Nat /\ Len(said) \in Nat
  <2>1. said \in Seq(SaidWords)
    BY <1>1, SaidEnumerates DEF Enumerates
  <2>2. QED
    BY <1>1, <2>1, LenProperties DEF TextsOfWords, Words
<1>6. /\ \A ws : WordsOf(ws, said) /\ Len(ws) \in Nat => WordsOf(ws, more)
      /\ \A t : HeardAs(t, said) /\ Len(t) \in Nat => HeardAs(t, more)
      /\ \A i \in 1..Len(said) : more[i] = said[i]
      /\ Len(said) <= Len(more)
  BY <1>1, HeardInLonger
<1>7. Len(v.prevNorm) <= Len(said) /\ Len(v.committed) <= Len(said)
  BY <1>4 DEF WordsOf, HeardAs
<1>8. /\ \A i \in 1..Len(v.prevNorm) : said[i].end + lag <= v.decodedLen
      /\ \A i \in 1..Len(v.committed) : said[i].end + lag + MinNew <= v.decodedLen
      /\ v.decodedLen <= Len(b)
      /\ ~v.firstDecode => v.prevNorm = <<>> /\ v.committed = <<>> /\ v.decodedLen = 0
  BY DEF Sound, Decoded
<1>9. WordsOf(v.committed, more) /\ HeardAs(v.prevNorm, more)
  BY <1>4, <1>5, <1>6
<1>a. Shows(v) /\ Typed(v)
  BY DEF Sound
<1> HIDE DEF said, more
<1>10. /\ \A i \in 1..Len(v.prevNorm) : more[i].end + lag <= v.decodedLen
       /\ \A i \in 1..Len(v.committed) : more[i].end + lag + MinNew <= v.decodedLen
  <2>1. \A i \in 1..Len(v.prevNorm) : i \in 1..Len(said)
    BY <1>5, <1>7
  <2>2. \A i \in 1..Len(v.committed) : i \in 1..Len(said)
    BY <1>5, <1>7
  <2>3. QED
    BY <1>6, <1>8, <2>1, <2>2, Zenon
<1>11. SaidOf(S, w.buffer) = more
  BY <1>3 DEF more
<1>12. Len(w.buffer) = Len(b) + Len(frames)
  BY <1>2, <1>3
<1> HIDE DEF b
<1>13. Decoded(S, w, lag)
  <2>1. w.decodedLen <= Len(w.buffer)
    BY <1>1, <1>2, <1>3, <1>8, <1>12
  <2>2. QED
    BY <1>3, <1>8, <1>10, <1>11, <2>1 DEF Decoded
<1>14. Aligned(S, w, pre)
  BY <1>3, <1>4, <1>9, <1>11 DEF Aligned
<1>15. Typed(w)
  BY <1>3, <1>a DEF Typed
<1>16. Shows(w)
  <2>1. Len(v.buffer) >= MinSpeech => Len(w.buffer) >= MinSpeech
    BY <1>2, <1>12, SessionAssumption DEF b
  <2>2. QED
    BY <1>3, <1>a, <2>1 DEF Shows
<1>17. QED
  BY <1>3, <1>13, <1>14, <1>15, <1>16 DEF Sound

\* More that is spoken, beyond the frames of the utterance.
LEMMA SoundSpoken ==
    ASSUME NEW K \in SUBSET Nat, NEW S, NEW R, NEW v \in UtterancesOf(K), NEW pre \in Seq(K),
           NEW lag, Sound(S, v, pre, lag), Alike(K, S, R)
    PROVE  Sound(R, v, pre, lag)
<1>1. v.buffer \in Seq(K)
  BY DEF UtterancesOf
<1>2. SaidOf(S, v.buffer) = SaidOf(R, v.buffer)
  BY <1>1, SaidSame
<1>3. SpokenOf(S, pre) = SpokenOf(R, pre)
  BY SaidSame
<1>4. QED
  BY <1>2, <1>3 DEF Sound, Aligned, Decoded

\* A new utterance is sound, with nothing before it.
LEMMA SoundFresh ==
    ASSUME NEW K \in SUBSET Nat, NEW S
    PROVE  FreshUtterance \in UtterancesOf(K) /\ Sound(S, FreshUtterance, <<>>, 0)
<1> DEFINE v == FreshUtterance
<1>1. /\ v.buffer = <<>> /\ v.committed = <<>> /\ v.prevNorm = <<>> /\ v.trimmed = <<>>
      /\ v.text = <<>> /\ v.decodedLen = 0 /\ v.firstDecode = FALSE
  BY DEF FreshUtterance
<1>2. v \in UtterancesOf(K)
  <2>1. <<>> \in Seq(K) /\ <<>> \in Seq(Int) /\ <<>> \in Words /\ <<>> \in TextsOfWords
    BY EmptySeq DEF Words, TextsOfWords
  <2>2. QED
    BY <2>1 DEF UtterancesOf, FreshUtterance
<1>3. SaidOf(S, <<>>) = <<>> /\ SpokenOf(S, <<>>) = <<>>
  BY SaidEmpty
<1>4. /\ Texts(<<>>) = <<>> /\ FramesOf(<<>>) = <<>> /\ <<>> \o <<>> = <<>>
      /\ Len(<<>>) = 0
  BY DEF Texts, FramesOf
<1>5. 1..0 = {}
  OBVIOUS
<1> HIDE DEF v
<1>6. Aligned(S, v, <<>>)
  BY <1>1, <1>3, <1>4, <1>5 DEF Aligned, WordsOf, HeardAs
<1>7. Decoded(S, v, 0)
  BY <1>1, <1>3, <1>4, <1>5 DEF Decoded
<1>8. Typed(v)
  BY <1>1, <1>4 DEF Typed
<1>9. Shows(v)
  BY <1>1, <1>4, <1>5 DEF Shows, Starts
<1>10. QED
  BY <1>2, <1>6, <1>7, <1>8, <1>9 DEF Sound, v

\* The words of a decode are those of the longer buffer, too.
LEMMA WordsInLonger ==
    ASSUME NEW S, NEW a \in Seq(Nat), NEW b \in Seq(Nat), NEW ws \in Words, NEW n,
           WordsOf(ws, SaidOf(S, a)), \A i \in 1..Len(ws) : SaidOf(S, a)[i].end <= n
    PROVE  /\ WordsOf(ws, SaidOf(S, a \o b))
           /\ \A i \in 1..Len(ws) : SaidOf(S, a \o b)[i].end <= n
<1> DEFINE said == SaidOf(S, a)
           said2 == SaidOf(S, a \o b)
<1>1. Len(ws) \in Nat /\ Len(said) \in Nat
  <2>1. said \in Words
    BY SaidIsHeard
  <2>2. QED
    BY <2>1, LenProperties DEF Words
<1>2. /\ \A t : WordsOf(t, said) /\ Len(t) \in Nat => WordsOf(t, said2)
      /\ \A i \in 1..Len(said) : said2[i] = said[i]
  BY HeardInLonger
<1>3. Len(ws) <= Len(said)
  BY DEF WordsOf
<1>4. WordsOf(ws, said2)
  BY <1>1, <1>2
<1> HIDE DEF said2
<1>5. \A i \in 1..Len(ws) : i \in 1..Len(said)
  BY <1>1, <1>3
<1>6. \A i \in 1..Len(ws) : said2[i].end <= n
  BY <1>2, <1>5, Zenon
<1>7. QED
  BY <1>4, <1>6 DEF said2

\* The final text is a text, whatever the words.
LEMMA FinalTextType ==
    ASSUME NEW K, u \in UtterancesOf(K), NEW ws \in Words
    PROVE  FinalText(ws) \in TextsOfWords
<1>1. u.committed \in Words /\ u.trimmed \in TextsOfWords /\ u.text \in TextsOfWords
  BY DEF UtterancesOf
<1> DEFINE n == Len(u.committed)
           rest == SubSeq(ws, n + 1, Len(ws))
<1>2. n \in Nat /\ Len(ws) \in Nat /\ Texts(ws) \in TextsOfWords
  BY <1>1, TextsType
<1> HIDE DEF n
<1>3. rest \in Words
  <2>1. CASE n <= Len(ws)
    BY <1>2, <2>1, PartOfWords
  <2>2. CASE ~(n <= Len(ws))
    <3>1. rest = <<>>
      BY <1>2, <2>2, SubSeqEmpty
    <3> HIDE DEF rest
    <3>2. QED
      BY <3>1, EmptySeq DEF Words
  <2>3. QED
    BY <2>1, <2>2
<1> HIDE DEF rest
<1>4. Texts(rest) \in TextsOfWords
  BY <1>3, TextsType
<1>5. u.text \o Texts(rest) \in TextsOfWords /\ u.trimmed \o Texts(ws) \in TextsOfWords
  BY <1>1, <1>2, <1>4, ConcatProperties DEF TextsOfWords
<1>6. QED
  BY <1>5 DEF FinalText, rest, n

\* No frame of the run is spoken.
Silent(frames, S) == \A i \in 1..Len(frames) : frames[i] \notin S

LEMMA SilentFrame ==
    ASSUME NEW f, NEW S, f \notin S
    PROVE  Silent(<<f>>, S)
<1>1. Len(<<f>>) = 1 /\ <<f>>[1] = f
  OBVIOUS
<1>2. \A i \in 1..1 : i = 1
  OBVIOUS
<1>3. QED
  BY <1>1, <1>2 DEF Silent

\* The final words make the text of a sound utterance what was spoken in it.
LEMMA FinalTextMeans ==
    ASSUME NEW K \in SUBSET Nat, NEW S, u \in UtterancesOf(K), NEW pre \in Seq(Nat), NEW lag,
           Sound(S, u, pre, lag)
    PROVE  /\ FinalText(SaidOf(S, u.buffer)) \in TextsOfWords
           /\ FramesOf(FinalText(SaidOf(S, u.buffer))) = SpokenOf(S, pre \o u.buffer)
<1> DEFINE b == u.buffer
           W == SaidOf(S, b)
           n == Len(u.committed)
           rest == SubSeq(W, n + 1, Len(W))
           T == FramesOf(u.trimmed)
           C == FramesOf(Texts(u.committed))
           R == FramesOf(Texts(rest))
<1>1. /\ b \in Seq(Nat) /\ u.committed \in Words /\ u.trimmed \in TextsOfWords
      /\ u.text \in TextsOfWords
  BY SeqMonotonic DEF UtterancesOf
<1>2. /\ W \in Words /\ FramesOf(Texts(W)) = SpokenOf(S, b)
  BY <1>1, SaidIsHeard
<1>3. n \in Nat /\ Len(W) \in Nat /\ Texts(W) \in TextsOfWords
      /\ Texts(u.committed) \in TextsOfWords
  BY <1>1, <1>2, TextsType
<1>4. T = SpokenOf(S, pre) /\ WordsOf(u.committed, W)
  BY DEF Sound, Aligned
<1>5. n <= Len(W) /\ \A i \in 1..n : FrameOf(u.committed[i].text) = W[i].text
  BY <1>4 DEF WordsOf
<1>6. \A i \in 1..n : FrameOf(u.committed[i].text) = FrameOf(W[i].text)
  <2> SUFFICES ASSUME NEW i \in 1..n PROVE FrameOf(u.committed[i].text) = FrameOf(W[i].text)
    OBVIOUS
  <2>1. u.committed[i].text \in Int
    BY <1>1, TextsType
  <2>2. FrameOf(u.committed[i].text) \in Nat
    BY <2>1, FrameOfText
  <2>3. W[i].text \in Nat
    BY <1>5, <2>2
  <2>4. FrameOf(W[i].text) = W[i].text
    <3> DEFINE t == W[i].text
    <3> HIDE DEF t
    <3>1. t \in Nat /\ t \in Int
      BY <2>3 DEF t
    <3>2. FrameOf(t) = t
      BY <3>1, FrameOfText
    <3>3. QED
      BY <3>2 DEF t
  <2>5. QED
    BY <1>5, <2>4
<1>7. SpokenOf(S, pre \o b) = T \o FramesOf(Texts(W))
  BY <1>1, <1>2, <1>4, SpokenJoins
<1> HIDE DEF W
<1>8. FramesOf(Texts(W)) = C \o R
  BY <1>1, <1>2, <1>3, <1>5, <1>6, FramesInParts
<1>9. rest \in Words
  BY <1>2, <1>3, <1>5, PartOfWords
<1>10. Texts(rest) \in TextsOfWords
  BY <1>9, TextsType
<1> HIDE DEF rest, n, b
<1>11. T \in Seq(Nat) /\ C \in Seq(Nat) /\ R \in Seq(Nat)
  BY <1>1, <1>3, <1>10, FramesOfType
<1>12. CASE mode = "commit"
  <2>1. FinalText(W) = u.text \o Texts(rest)
    BY <1>12 DEF FinalText, rest, n
  <2>2. FinalText(W) \in TextsOfWords /\ FramesOf(FinalText(W)) = FramesOf(u.text) \o R
    BY <1>1, <1>10, <2>1, FramesOfJoin
  <2>3. FramesOf(u.text) = T \o C
    BY <1>12 DEF Sound, Typed
  <2> HIDE DEF T, C, R
  <2>4. (T \o C) \o R = T \o (C \o R)
    BY <1>11, ConcatAssociative, SMTT(60)
  <2>5. QED
    BY <1>7, <1>8, <2>2, <2>3, <2>4 DEF b, W
<1>13. CASE mode # "commit"
  <2>1. FinalText(W) = u.trimmed \o Texts(W)
    BY <1>13 DEF FinalText
  <2>2. FinalText(W) \in TextsOfWords /\ FramesOf(FinalText(W)) = T \o FramesOf(Texts(W))
    BY <1>1, <1>3, <2>1, FramesOfJoin
  <2>3. QED
    BY <1>7, <2>2 DEF b, W
<1>14. QED
  BY <1>12, <1>13

\* An utterance too short to decode: the text has all that was trimmed away.
LEMMA SkippedMeans ==
    ASSUME NEW K \in SUBSET Nat, NEW S, u \in UtterancesOf(K), NEW pre \in Seq(Nat), NEW lag,
           Sound(S, u, pre, lag), u.committed = <<>>, Len(u.buffer) < MinSpeech,
           mode \in {"commit", "correcting"}, mode = "commit" \/ MinSpeech <= 2 * MinNew
    PROVE  \A i \in 1..Len(pre \o u.buffer) :
              ((pre \o u.buffer)[i] \in S /\ i + MinSpeech <= Len(pre \o u.buffer) + 1)
                  => \E j \in DOMAIN u.text : FrameOf(u.text[j]) = (pre \o u.buffer)[i]
<1> DEFINE b == u.buffer
           f == pre \o b
           T == FramesOf(u.trimmed)
           X == FramesOf(u.text)
<1>1. /\ b \in Seq(Nat) /\ u.trimmed \in TextsOfWords /\ u.text \in TextsOfWords
  BY SeqMonotonic DEF UtterancesOf
<1>2. /\ Len(f) = Len(pre) + Len(b) /\ Len(pre) \in Nat /\ Len(b) \in Nat /\ MinSpeech \in Nat
      /\ \A i \in 1..(Len(pre) + Len(b)) : f[i] = IF i <= Len(pre) THEN pre[i] ELSE b[i - Len(pre)]
  <2> HIDE DEF b
  <2>1. QED
    BY <1>1, ConcatProperties, LenProperties, SessionAssumption
<1>3. /\ T \in Seq(Nat) /\ Len(T) = Len(u.trimmed) /\ X \in Seq(Nat) /\ Len(X) = Len(u.text)
      /\ Len(u.text) \in Nat /\ \A i \in 1..Len(u.text) : X[i] = FrameOf(u.text[i])
  BY <1>1, FramesOfType
<1>4. DOMAIN u.text = 1..Len(u.text)
  BY <1>1, LenProperties DEF TextsOfWords
<1>5. T = SpokenOf(S, pre)
  BY DEF Sound, Aligned
<1>6. Starts(T, X)
  <2>1. CASE mode = "commit"
    <3>1. X = T \o FramesOf(Texts(<<>>))
      BY <2>1 DEF Sound, Typed
    <3>2. FramesOf(Texts(<<>>)) = <<>>
      BY DEF Texts, FramesOf
    <3> HIDE DEF T, X
    <3>3. X = T
      BY <1>3, <3>1, <3>2, ConcatEmptySeq
    <3>4. Len(T) \in Nat
      BY <1>3, LenProperties
    <3>5. QED
      BY <3>3, <3>4 DEF Starts
  <2>2. CASE mode # "commit"
    <3>1. mode = "correcting" /\ MinSpeech <= 2 * MinNew
      BY <2>2
    <3>2. ~(Len(b) >= MinSpeech)
      BY <1>2
    <3>3. QED
      BY <3>1, <3>2 DEF Sound, Shows
  <2>3. QED
    BY <2>1, <2>2
<1> HIDE DEF T, X, f, b
<1>7. SUFFICES ASSUME NEW i \in 1..Len(f), f[i] \in S, i + MinSpeech <= Len(f) + 1
               PROVE  \E j \in DOMAIN u.text : FrameOf(u.text[j]) = f[i]
  BY DEF f, b
<1>8. i \in 1..Len(pre) /\ f[i] = pre[i]
  <2>1. Len(b) < MinSpeech
    BY DEF b
  <2>2. i <= Len(pre)
    BY <1>2, <1>7, <2>1
  <2>3. QED
    BY <1>2, <1>7, <2>2
<1>9. Enumerates(S, pre)
  BY SaidEnumerates
<1>10. PICK j \in 1..Len(SaidOf(S, pre)) : SaidOf(S, pre)[j].end = i
  BY <1>7, <1>8, <1>9 DEF Enumerates
<1>11. Len(T) = Len(SaidOf(S, pre)) /\ T[j] = pre[i]
  <2>1. SpokenOf(S, pre)[j] = SaidOf(S, pre)[j].text
    BY <1>9, <1>10 DEF Enumerates
  <2>2. SaidOf(S, pre)[j].text = pre[SaidOf(S, pre)[j].end]
    BY <1>9, <1>10 DEF Enumerates
  <2>3. Len(SpokenOf(S, pre)) = Len(SaidOf(S, pre))
    BY <1>9 DEF Enumerates
  <2>4. QED
    BY <1>5, <1>10, <2>1, <2>2, <2>3
<1>12. Len(T) <= Len(X) /\ X[j] = T[j]
  BY <1>6, <1>10, <1>11 DEF Starts
<1>13. j \in 1..Len(u.text)
  <2>1. Len(T) \in Nat
    BY <1>3, LenProperties
  <2>2. j \in 1..Len(T)
    BY <1>10, <1>11
  <2>3. QED
    BY <1>3, <1>12, <2>1, <2>2
<1>14. FrameOf(u.text[j]) = f[i]
  BY <1>3, <1>8, <1>11, <1>12, <1>13
<1>15. QED
  BY <1>4, <1>13, <1>14

-----------------------------------------------------------------------------
(* The pool: what it holds for a future.                                   *)

\* The futures a decode of the pool may belong to.
Owners == {"nobody", "inflight", "speculative", "fresh"}

Decodes(K) == [of: Owners, audio: Seq(K)]

\* The windows it still has to decode for a future, and whether that is one.
Audios(q, of) == {q[i].audio : i \in {j \in 1..Len(q) : q[j].of = of}}

Alone(q, of) == \A i, j \in 1..Len(q) : q[i].of = of /\ q[j].of = of => i = j

\* A future whose decode is running has it in the pool, and no other future has.
Owns(f, q, of) == Alone(q, of) /\ (f.state = "running" <=> Audios(q, of) # {})

\* The decodes of a future, and the windows.
LEMMA AudiosAre ==
    ASSUME NEW q, NEW of
    PROVE  /\ \A i \in 1..Len(q) : q[i].of = of => q[i].audio \in Audios(q, of)
           /\ \A a \in Audios(q, of) : \E i \in 1..Len(q) : q[i].of = of /\ a = q[i].audio
  BY DEF Audios

\* The pool loses its oldest decode, gets another, or one of it is orphaned.
LEMMA PoolTail ==
    ASSUME NEW K, NEW q \in Seq(Decodes(K)), q # <<>>, NEW of
    PROVE  /\ Tail(q) \in Seq(Decodes(K)) /\ Head(q) \in Decodes(K)
           /\ Alone(q, of) => Alone(Tail(q), of)
           /\ Head(q).of # of => Audios(Tail(q), of) = Audios(q, of)
           /\ Head(q).of = of => Head(q).audio \in Audios(q, of)
           /\ Head(q).of = of /\ Alone(q, of) => Audios(Tail(q), of) = {}
<1> DEFINE t == Tail(q)
           n == Len(q)
<1>1. /\ n \in Nat \ {0} /\ Head(q) = q[1] /\ Head(q) \in Decodes(K) /\ t \in Seq(Decodes(K))
      /\ Len(t) = n - 1 /\ \A i \in 1..(n - 1) : t[i] = q[i + 1]
  <2>1. n \in Nat \ {0} /\ Head(q) = q[1]
    BY EmptySeq
  <2>2. /\ Head(q) \in Decodes(K) /\ t \in Seq(Decodes(K)) /\ Len(t) = n - 1
        /\ \A i \in 1..Len(t) : t[i] = q[i + 1]
    BY HeadTailProperties
  <2>3. QED
    BY <2>1, <2>2
<1> HIDE DEF t, n
<1>2. \A i \in 1..(n - 1) : i + 1 \in 1..n
  BY <1>1
<1>3. ASSUME Alone(q, of) PROVE Alone(t, of)
  <2>1. \A i, j \in 1..n : q[i].of = of /\ q[j].of = of => i = j
    BY <1>3 DEF Alone, n
  <2> SUFFICES ASSUME NEW i \in 1..(n - 1), NEW j \in 1..(n - 1), t[i].of = of, t[j].of = of
               PROVE  i = j
    BY <1>1 DEF Alone
  <2>2. q[i + 1].of = of /\ q[j + 1].of = of
    BY <1>1
  <2>3. i + 1 = j + 1
    BY <1>2, <2>1, <2>2
  <2>4. QED
    BY <1>1, <2>3
<1>4. Audios(t, of) \subseteq Audios(q, of)
  <2> SUFFICES ASSUME NEW a \in Audios(t, of) PROVE a \in Audios(q, of)
    OBVIOUS
  <2>1. PICK i \in 1..(n - 1) : t[i].of = of /\ a = t[i].audio
    BY <1>1, AudiosAre
  <2>2. i + 1 \in 1..n /\ q[i + 1].of = of /\ a = q[i + 1].audio
    BY <1>1, <1>2, <2>1
  <2>3. QED
    BY <2>2, AudiosAre DEF n
<1>5. ASSUME Head(q).of # of PROVE Audios(q, of) \subseteq Audios(t, of)
  <2> SUFFICES ASSUME NEW a \in Audios(q, of) PROVE a \in Audios(t, of)
    OBVIOUS
  <2>1. PICK i \in 1..n : q[i].of = of /\ a = q[i].audio
    BY AudiosAre DEF n
  <2>2. i # 1
    BY <1>1, <1>5, <2>1
  <2>3. i - 1 \in 1..(n - 1) /\ (i - 1) + 1 = i
    BY <1>1, <2>2
  <2>4. t[i - 1] = q[i]
    BY <1>1, <2>3
  <2>5. i - 1 \in 1..Len(t) /\ t[i - 1].of = of /\ a = t[i - 1].audio
    BY <1>1, <2>1, <2>3, <2>4
  <2>6. QED
    BY <2>5, AudiosAre
<1>6. ASSUME Head(q).of = of PROVE Head(q).audio \in Audios(q, of)
  BY <1>1, <1>6, AudiosAre DEF n
<1>7. ASSUME Head(q).of = of, Alone(q, of) PROVE Audios(t, of) = {}
  <2> SUFFICES ASSUME NEW a \in Audios(t, of) PROVE FALSE
    OBVIOUS
  <2>1. PICK i \in 1..(n - 1) : t[i].of = of /\ a = t[i].audio
    BY <1>1, AudiosAre
  <2>2. i + 1 \in 1..n /\ q[i + 1].of = of /\ 1 \in 1..n /\ q[1].of = of
    BY <1>1, <1>2, <1>7, <2>1
  <2>3. i + 1 = 1
    BY <1>7, <2>2 DEF Alone, n
  <2>4. QED
    BY <1>1, <2>3
<1>8. QED
  BY <1>1, <1>3, <1>4, <1>5, <1>6, <1>7 DEF t

LEMMA PoolAppend ==
    ASSUME NEW K, NEW q \in Seq(Decodes(K)), NEW d \in Decodes(K), NEW of, Alone(q, of)
    PROVE  /\ Append(q, d) \in Seq(Decodes(K))
           /\ d.of # of => Alone(Append(q, d), of) /\ Audios(Append(q, d), of) = Audios(q, of)
           /\ d.of = of /\ Audios(q, of) = {} =>
                 Alone(Append(q, d), of) /\ Audios(Append(q, d), of) = {d.audio}
<1> DEFINE p == Append(q, d)
           n == Len(q)
<1>1. /\ p \in Seq(Decodes(K)) /\ n \in Nat /\ Len(p) = n + 1
      /\ p[n + 1] = d /\ \A i \in 1..n : p[i] = q[i]
  <2>1. /\ p \in Seq(Decodes(K)) /\ Len(p) = n + 1
        /\ \A i \in 1..(n + 1) : p[i] = IF i = n + 1 THEN d ELSE q[i]
    BY AppendProperties
  <2>2. n \in Nat
    BY LenProperties
  <2> HIDE DEF p, n
  <2>3. QED
    BY <2>1, <2>2
<1> HIDE DEF p, n
<1>2. \A i \in 1..(n + 1) : i = n + 1 \/ i \in 1..n
  BY <1>1
<1>3. \A i, j \in 1..n : q[i].of = of /\ q[j].of = of => i = j
  BY DEF Alone, n
<1>4. ASSUME d.of # of PROVE Alone(p, of) /\ Audios(p, of) = Audios(q, of)
  <2>1. \A i \in 1..(n + 1) : p[i].of = of => i \in 1..n /\ p[i] = q[i]
    BY <1>1, <1>2, <1>4
  <2>2. Alone(p, of)
    <3> SUFFICES ASSUME NEW i \in 1..(n + 1), NEW j \in 1..(n + 1), p[i].of = of, p[j].of = of
                 PROVE  i = j
      BY <1>1 DEF Alone
    <3>1. i \in 1..n /\ j \in 1..n /\ q[i].of = of /\ q[j].of = of
      BY <2>1
    <3>2. QED
      BY <1>3, <3>1
  <2>3. ASSUME NEW a \in Audios(p, of) PROVE a \in Audios(q, of)
    <3>1. PICK i \in 1..(n + 1) : p[i].of = of /\ a = p[i].audio
      BY <1>1, AudiosAre
    <3>2. i \in 1..Len(q) /\ q[i].of = of /\ a = q[i].audio
      BY <2>1, <3>1 DEF n
    <3>3. QED
      BY <3>2, AudiosAre
  <2>4. ASSUME NEW a \in Audios(q, of) PROVE a \in Audios(p, of)
    <3>1. PICK i \in 1..n : q[i].of = of /\ a = q[i].audio
      BY AudiosAre DEF n
    <3>2. i \in 1..Len(p) /\ p[i].of = of /\ a = p[i].audio
      BY <1>1, <3>1
    <3>3. QED
      BY <3>2, AudiosAre
  <2>5. QED
    BY <2>2, <2>3, <2>4
<1>5. ASSUME d.of = of, Audios(q, of) = {} PROVE Alone(p, of) /\ Audios(p, of) = {d.audio}
  <2>1. \A i \in 1..n : q[i].of # of
    BY <1>5, AudiosAre DEF n
  <2>2. \A i \in 1..(n + 1) : p[i].of = of => i = n + 1
    BY <1>1, <1>2, <2>1
  <2>3. Alone(p, of)
    BY <1>1, <2>2 DEF Alone
  <2>4. ASSUME NEW a \in Audios(p, of) PROVE a = d.audio
    <3>1. PICK i \in 1..(n + 1) : p[i].of = of /\ a = p[i].audio
      BY <1>1, AudiosAre
    <3>2. QED
      BY <1>1, <2>2, <3>1
  <2>5. d.audio \in Audios(p, of)
    <3>1. n + 1 \in 1..Len(p) /\ p[n + 1].of = of
      BY <1>1, <1>5
    <3>2. QED
      BY <1>1, <3>1, AudiosAre
  <2>6. QED
    BY <2>3, <2>4, <2>5
<1>6. QED
  BY <1>1, <1>4, <1>5 DEF p

LEMMA PoolOrphan ==
    ASSUME NEW K, NEW q \in Seq(Decodes(K)), NEW x, NEW of, of # "nobody"
    PROVE  /\ Orphan(q, x) \in Seq(Decodes(K))
           /\ Alone(q, of) => Alone(Orphan(q, x), of)
           /\ of # x => Audios(Orphan(q, x), of) = Audios(q, of)
           /\ of = x => Audios(Orphan(q, x), of) = {}
<1> DEFINE p == Orphan(q, x)
           n == Len(q)
           e(i) == IF q[i].of = x THEN Decode("nobody", <<>>) ELSE q[i]
<1>1. n \in Nat /\ DOMAIN q = 1..n /\ \A i \in 1..n : q[i] \in Decodes(K)
  BY LenProperties, ElementOfSeq
<1>2. p = [i \in 1..n |-> e(i)]
  BY <1>1 DEF Orphan
<1>3. Decode("nobody", <<>>) \in Decodes(K) /\ Decode("nobody", <<>>).of = "nobody"
  <2>1. <<>> \in Seq(K)
    BY EmptySeq
  <2>2. QED
    BY <2>1 DEF Decode, Decodes, Owners
<1>4. \A i \in 1..n : e(i) \in Decodes(K)
  BY <1>1, <1>3
<1> HIDE DEF n
<1>5. p \in Seq(Decodes(K))
  <2> HIDE DEF e
  <2>1. [i \in 1..n |-> e(i)] \in Seq(Decodes(K))
    BY <1>1, <1>4, IsASeq
  <2> HIDE DEF p
  <2>2. QED
    BY <1>2, <2>1
<1>6. Len(p) = n /\ \A i \in 1..n : p[i] = e(i)
  <2>1. DOMAIN p = 1..Len(p) /\ Len(p) \in Nat
    BY <1>5, LenProperties
  <2> HIDE DEF p, e
  <2>2. DOMAIN p = 1..n
    BY <1>2
  <2>3. \A i \in 1..n : p[i] = e(i)
    BY <1>2
  <2>4. Len(p) = n
    BY <1>1, <2>1, <2>2, SamePlaces
  <2>5. QED
    BY <2>3, <2>4
<1> HIDE DEF p
<1>7. \A i \in 1..n : p[i].of = of => q[i].of = of /\ p[i] = q[i] /\ of # x
  <2> SUFFICES ASSUME NEW i \in 1..n, p[i].of = of PROVE q[i].of = of /\ p[i] = q[i] /\ of # x
    OBVIOUS
  <2>1. CASE q[i].of = x
    <3>1. p[i].of = "nobody"
      BY <1>3, <1>6, <2>1
    <3>2. QED
      BY <3>1
  <2>2. CASE q[i].of # x
    <3>1. p[i] = q[i]
      BY <1>6, <2>2
    <3>2. QED
      BY <2>2, <3>1
  <2>3. QED
    BY <2>1, <2>2
<1>8. \A i \in 1..n : q[i].of # x => p[i] = q[i]
  BY <1>6
<1> HIDE DEF e
<1>9. ASSUME Alone(q, of) PROVE Alone(p, of)
  <2>1. \A i, j \in 1..n : q[i].of = of /\ q[j].of = of => i = j
    BY <1>9 DEF Alone, n
  <2>2. QED
    BY <1>6, <1>7, <2>1 DEF Alone
<1>10. ASSUME NEW a \in Audios(p, of) PROVE a \in Audios(q, of) /\ of # x
  <2>1. PICK i \in 1..n : p[i].of = of /\ a = p[i].audio
    BY <1>6, AudiosAre
  <2>2. i \in 1..Len(q) /\ q[i].of = of /\ a = q[i].audio /\ of # x
    BY <1>7, <2>1 DEF n
  <2>3. QED
    BY <2>2, AudiosAre
<1>11. ASSUME of # x, NEW a \in Audios(q, of) PROVE a \in Audios(p, of)
  <2>1. PICK i \in 1..n : q[i].of = of /\ a = q[i].audio
    BY AudiosAre DEF n
  <2>2. i \in 1..Len(p) /\ p[i].of = of /\ a = p[i].audio
    BY <1>6, <1>8, <1>11, <2>1
  <2>3. QED
    BY <2>2, AudiosAre
<1>12. of = x => Audios(p, of) = {}
  BY <1>10
<1>13. of # x => Audios(p, of) = Audios(q, of)
  BY <1>10, <1>11
<1>14. QED
  BY <1>5, <1>9, <1>12, <1>13 DEF p

\* Every window in the pool is one of frames.
LEMMA AudiosType ==
    ASSUME NEW K, NEW q \in Seq(Decodes(K)), NEW of, NEW a \in Audios(q, of)
    PROVE  a \in Seq(K)
<1>1. PICK i \in 1..Len(q) : a = q[i].audio
  BY AudiosAre
<1>2. q[i] \in Decodes(K)
  BY ElementOfSeq
<1>3. QED
  BY <1>1, <1>2 DEF Decodes

\* The pool holds nothing for a future.
Free(q, of) == Alone(q, of) /\ Audios(q, of) = {}

\* The pool when a decode of a future is submitted, or a future dropped.
LEMMA Submitted ==
    ASSUME NEW K, NEW q \in Seq(Decodes(K)), NEW of \in Owners, NEW audio \in Seq(K), Free(q, of)
    PROVE  /\ Append(q, Decode(of, audio)) \in Seq(Decodes(K))
           /\ Alone(Append(q, Decode(of, audio)), of)
           /\ Audios(Append(q, Decode(of, audio)), of) = {audio}
           /\ \A other : other # of /\ Alone(q, other) =>
                 /\ Alone(Append(q, Decode(of, audio)), other)
                 /\ Audios(Append(q, Decode(of, audio)), other) = Audios(q, other)
<1> DEFINE d == Decode(of, audio)
           p == Append(q, d)
<1>1. d \in Decodes(K) /\ d.of = of /\ d.audio = audio
  BY DEF Decode, Decodes
<1>2. Alone(q, of) /\ Audios(q, of) = {}
  BY DEF Free
<1> HIDE DEF d
<1>3. p \in Seq(Decodes(K)) /\ Alone(p, of) /\ Audios(p, of) = {audio}
  BY <1>1, <1>2, PoolAppend
<1>4. ASSUME NEW other, other # of, Alone(q, other)
      PROVE  Alone(p, other) /\ Audios(p, other) = Audios(q, other)
  BY <1>1, <1>4, PoolAppend
<1>5. QED
  BY <1>3, <1>4 DEF p, d

LEMMA Dropped ==
    ASSUME NEW K, NEW q \in Seq(Decodes(K)), NEW x, x # "nobody", NEW f,
           Alone(q, x), f.state # "running", NEW p, p = Orphan(q, x)
    PROVE  /\ p \in Seq(Decodes(K))
           /\ Owns(f, p, x) /\ Audios(p, x) = {}
           /\ \A other : other # x /\ other # "nobody" /\ Alone(q, other) =>
                 Alone(p, other) /\ Audios(p, other) = Audios(q, other)
<1>1. p \in Seq(Decodes(K)) /\ Alone(p, x) /\ Audios(p, x) = {}
  BY PoolOrphan
<1>2. ASSUME NEW other, other # x, other # "nobody", Alone(q, other)
      PROVE  Alone(p, other) /\ Audios(p, other) = Audios(q, other)
  BY <1>2, PoolOrphan
<1>3. QED
  BY <1>1, <1>2 DEF Owns

\* A decode of the pool is dropped, if it is there.
LEMMA Freed ==
    ASSUME NEW K, NEW q \in Seq(Decodes(K)), NEW x \in Owners \ {"nobody"}, Alone(q, x)
    PROVE  /\ Orphan(q, x) \in Seq(Decodes(K)) /\ Free(Orphan(q, x), x)
           /\ \A other : other # x /\ other # "nobody" /\ Alone(q, other) =>
                 Alone(Orphan(q, x), other) /\ Audios(Orphan(q, x), other) = Audios(q, other)
<1>1. x # "nobody"
  OBVIOUS
<1>2. Orphan(q, x) \in Seq(Decodes(K)) /\ Alone(Orphan(q, x), x) /\ Audios(Orphan(q, x), x) = {}
  BY <1>1, PoolOrphan
<1>3. ASSUME NEW other, other # x, other # "nobody", Alone(q, other)
      PROVE  Alone(Orphan(q, x), other) /\ Audios(Orphan(q, x), other) = Audios(q, other)
  BY <1>3, PoolOrphan
<1>4. QED
  BY <1>2, <1>3 DEF Free

\* A future owns exactly one decode of the pool while it runs, else none.
LEMMA OwnsMeans ==
    ASSUME NEW q, DOMAIN q = 1..Len(q), NEW of, NEW f, Owns(f, q, of)
    PROVE  LET mine == {i \in DOMAIN q : q[i].of = of}
           IN  IF f.state = "running" THEN \E i \in mine : mine = {i} ELSE mine = {}
<1> DEFINE mine == {i \in DOMAIN q : q[i].of = of}
<1>1. DOMAIN q = 1..Len(q)
  OBVIOUS
<1>2. \A i, j \in mine : i = j
  BY <1>1 DEF Owns, Alone
<1>3. CASE f.state = "running"
  <2>1. PICK a : a \in Audios(q, of)
    BY <1>3 DEF Owns
  <2>2. PICK i \in 1..Len(q) : q[i].of = of
    BY <2>1, AudiosAre
  <2>3. i \in mine
    BY <1>1, <2>2
  <2>4. QED
    BY <1>2, <1>3, <2>3
<1>4. CASE f.state # "running"
  <2>1. Audios(q, of) = {}
    BY <1>4 DEF Owns
  <2>2. \A i \in 1..Len(q) : q[i].of # of
    BY <2>1, AudiosAre
  <2>3. QED
    BY <1>1, <1>4, <2>2
<1>5. QED
  BY <1>3, <1>4

-----------------------------------------------------------------------------
(* The gate.                                                               *)

\* The pre-roll ring holds the last frames processed, none handed out yet.
RingIsRecent ==
    ~inSpeech =>
        /\ Len(preRoll) <= clock - kept
        /\ \A i \in 1..Len(preRoll) : preRoll[i] = clock - Len(preRoll) + i

\* The onset run lies inside the ring, unless the ring is full.
RunInRing == ~inSpeech => onsetRun <= Len(preRoll) \/ Len(preRoll) = PreRollFrames

\* An open utterance has every frame up to now; its ring is empty.
UtteranceIsCurrent ==
    inSpeech => preRoll = <<>> /\ onsetRun = 0 /\ kept = clock

\* The silence counter counts frames after the last voiced one.
SilenceIsReal == inSpeech => lastVoiced + silenceRun <= clock

\* An announcement stands as soon as the silence is long enough.
AnnouncedInTime ==
    /\ specFired => inSpeech
    /\ (inSpeech /\ SpecFrames > 0 /\ ~specFired) => silenceRun < SpecFrames

GateInv ==
    /\ GateTypeOK
    /\ RingIsRecent
    /\ RunInRing
    /\ UtteranceIsCurrent
    /\ SilenceIsReal
    /\ AnnouncedInTime
    /\ OnsetNotClipped
    /\ SpeculationCoversSpeech
    /\ NoEndWhileTalking
    /\ MaybeEndedBeforeEnded
    /\ LengthBounded

-----------------------------------------------------------------------------

\* Appending the next frame to a ring of recent frames keeps it one.
LEMMA RememberRecent ==
    ASSUME NEW ring \in Seq(Nat), NEW now \in Nat,
           Len(ring) <= PreRollFrames,
           \A i \in 1..Len(ring) : ring[i] = now - Len(ring) + i,
           NEW new, new = Remember(ring, now + 1)
    PROVE  /\ new \in Seq(Nat)
           /\ Len(new) <= PreRollFrames
           /\ Len(new) <= Len(ring) + 1
           /\ Len(new) = Len(ring) + 1 \/ Len(new) = PreRollFrames
           /\ \A i \in 1..Len(new) : new[i] = (now + 1) - Len(new) + i
<1>1. CASE PreRollFrames = 0
  BY <1>1 DEF Remember
<1>2. CASE PreRollFrames # 0 /\ Len(ring) < PreRollFrames
  BY <1>2, GateAssumption DEF Remember
<1>3. CASE PreRollFrames # 0 /\ ~(Len(ring) < PreRollFrames)
  <2>1. Len(ring) = PreRollFrames /\ ring # <<>>
    BY <1>3, GateAssumption
  <2>2. /\ Tail(ring) \in Seq(Nat)
        /\ Len(Tail(ring)) = Len(ring) - 1
        /\ \A i \in 1..Len(Tail(ring)) : Tail(ring)[i] = ring[i + 1]
    BY <2>1
  <2>3. new = Append(Tail(ring), now + 1)
    BY <1>3, <2>1 DEF Remember
  <2>4. new \in Seq(Nat) /\ Len(new) = PreRollFrames
    BY <2>1, <2>2, <2>3, GateAssumption
  <2>5. ASSUME NEW i \in 1..Len(new)
        PROVE  new[i] = (now + 1) - Len(new) + i
    <3>1. CASE i = Len(new)
      BY <3>1, <2>1, <2>2, <2>3, <2>4, GateAssumption
    <3>2. CASE i # Len(new)
      <4>1. i \in 1..Len(Tail(ring)) /\ i + 1 \in 1..Len(ring)
        BY <3>2, <2>1, <2>2, <2>4, GateAssumption
      <4>2. new[i] = Tail(ring)[i]
        BY <4>1, <2>2, <2>3, AppendProperties, SMTT(30)
      <4>3. QED
        BY <4>1, <4>2, <2>1, <2>2, <2>4, GateAssumption
    <3>3. QED
      BY <3>1, <3>2
  <2>6. QED
    BY <2>1, <2>4, <2>5, GateAssumption
<1>4. QED
  BY <1>1, <1>2, <1>3

LEMMA NoResultType == NoResult \in GateResult
<1>1. <<>> \in Seq(Nat)
  OBVIOUS
<1>2. QED
  BY <1>1 DEF NoResult, GateResult

LEMMA GateInitial == GateInit => GateInv
<1> SUFFICES ASSUME GateInit PROVE GateInv
  OBVIOUS
<1> USE GateAssumption DEF GateInit
<1>1. GateTypeOK
  <2>1. /\ onsetRun \in 0..(OnsetFrames - 1)
        /\ silenceRun \in 0..(SilenceFrames - 1)
        /\ utteranceFrames \in Nat
        /\ clock \in 0..FrameLimit
        /\ kept \in 0..clock /\ lastVoiced \in 0..clock /\ specAt \in 0..clock
    OBVIOUS
  <2>2. preRoll \in Seq(Nat) /\ Len(preRoll) <= PreRollFrames
    OBVIOUS
  <2>3. QED
    BY <2>1, <2>2, NoResultType DEF GateTypeOK
<1>2. RingIsRecent /\ RunInRing /\ UtteranceIsCurrent /\ SilenceIsReal /\ AnnouncedInTime
  BY DEF RingIsRecent, RunInRing, UtteranceIsCurrent, SilenceIsReal, AnnouncedInTime
<1>3. OnsetNotClipped
  BY DEF OnsetNotClipped, NoResult
<1>4. SpeculationCoversSpeech /\ NoEndWhileTalking /\ MaybeEndedBeforeEnded /\ LengthBounded
  BY DEF SpeculationCoversSpeech, NoEndWhileTalking, MaybeEndedBeforeEnded,
         LengthBounded, NoResult
<1>5. QED
  BY <1>1, <1>2, <1>3, <1>4 DEF GateInv

-----------------------------------------------------------------------------

LEMMA ListenStep ==
    ASSUME GateInv, NEW p \in Levels, clock < FrameLimit, clock' = clock + 1, Listen(p)
    PROVE  GateInv'
<1> USE GateAssumption
<1>1. GateTypeOK /\ clock \in Nat /\ preRoll \in Seq(Nat) /\ Len(preRoll) <= PreRollFrames
  BY DEF GateInv, GateTypeOK
<1>2. /\ ~inSpeech /\ ~inSpeech'
      /\ result' = NoResult
      /\ onsetRun' = OnsetRunAfter(p) /\ onsetRun' < OnsetFrames
      /\ UNCHANGED <<inSpeech, silenceRun, utteranceFrames, specFired,
                     kept, lastVoiced, specAt>>
  BY DEF Listen, GateInv, GateTypeOK
<1>3. preRoll' = Remember(preRoll, clock + 1)
  BY DEF Listen
<1>4. /\ Len(preRoll) <= clock - kept
      /\ \A i \in 1..Len(preRoll) : preRoll[i] = clock - Len(preRoll) + i
  BY <1>2 DEF GateInv, RingIsRecent
<1>5. /\ preRoll' \in Seq(Nat)
      /\ Len(preRoll') <= PreRollFrames
      /\ Len(preRoll') <= Len(preRoll) + 1
      /\ Len(preRoll') = Len(preRoll) + 1 \/ Len(preRoll') = PreRollFrames
      /\ \A i \in 1..Len(preRoll') : preRoll'[i] = (clock + 1) - Len(preRoll') + i
  BY <1>1, <1>3, <1>4, RememberRecent, SMTT(30)
<1>6. GateTypeOK'
  <2>1. /\ onsetRun' \in 0..(OnsetFrames - 1)
        /\ clock' \in 0..FrameLimit
        /\ kept' \in 0..clock' /\ lastVoiced' \in 0..clock' /\ specAt' \in 0..clock'
    BY <1>1, <1>2 DEF GateTypeOK, OnsetRunAfter
  <2>2. /\ inSpeech' \in BOOLEAN /\ specFired' \in BOOLEAN
        /\ silenceRun' \in 0..(SilenceFrames - 1) /\ utteranceFrames' \in Nat
    BY <1>1, <1>2 DEF GateTypeOK
  <2>3. QED
    BY <1>2, <1>5, <2>1, <2>2, NoResultType DEF GateTypeOK
<1>7. RingIsRecent'
  BY <1>1, <1>2, <1>4, <1>5 DEF RingIsRecent, GateTypeOK
<1>8. RunInRing'
  BY <1>1, <1>2, <1>5 DEF GateInv, RunInRing, OnsetRunAfter, GateTypeOK
<1>9. OnsetNotClipped'
  BY <1>2 DEF OnsetNotClipped, NoResult
<1>10. UtteranceIsCurrent' /\ SilenceIsReal' /\ AnnouncedInTime'
  BY <1>2 DEF GateInv, UtteranceIsCurrent, SilenceIsReal, AnnouncedInTime
<1>11. SpeculationCoversSpeech' /\ NoEndWhileTalking' /\ MaybeEndedBeforeEnded' /\ LengthBounded'
  BY <1>2 DEF SpeculationCoversSpeech, NoEndWhileTalking, MaybeEndedBeforeEnded,
              LengthBounded, NoResult
<1>12. QED
  BY <1>6, <1>7, <1>8, <1>9, <1>10, <1>11 DEF GateInv

LEMMA OnsetStep ==
    ASSUME GateInv, NEW p \in Levels, clock < FrameLimit, clock' = clock + 1, Onset(p)
    PROVE  GateInv'
<1> USE GateAssumption
<1> DEFINE speech == Append(preRoll, clock + 1)
<1>1. GateTypeOK /\ clock \in Nat /\ preRoll \in Seq(Nat) /\ Len(preRoll) <= PreRollFrames
  BY DEF GateInv, GateTypeOK
<1>2. /\ ~inSpeech
      /\ inSpeech' = TRUE /\ onsetRun' = 0 /\ silenceRun' = 0 /\ preRoll' = <<>>
      /\ utteranceFrames' = Len(preRoll) + 1
      /\ kept' = clock + 1 /\ lastVoiced' = clock + 1 /\ specAt' = 0
      /\ specFired' = specFired
      /\ OnsetRunAfter(p) >= OnsetFrames
  BY DEF Onset, RingCleared
<1>3. result' = [NoResult EXCEPT !.started = TRUE, !.speech = speech]
  BY DEF Onset
<1>4. /\ specFired = FALSE
      /\ \A i \in 1..Len(preRoll) : preRoll[i] = clock - Len(preRoll) + i
      /\ onsetRun <= Len(preRoll) \/ Len(preRoll) = PreRollFrames
  BY <1>1, <1>2 DEF GateInv, AnnouncedInTime, RingIsRecent, RunInRing, GateTypeOK
<1>5. /\ speech \in Seq(Nat)
      /\ Len(speech) = Len(preRoll) + 1
      /\ \A i \in 1..Len(preRoll) : speech[i] = preRoll[i]
      /\ speech[Len(preRoll) + 1] = clock + 1
  BY <1>1, AppendProperties
<1>6. \A i \in 1..Len(speech) : speech[i] = clock + 1 - Len(speech) + i
  BY <1>1, <1>4, <1>5
<1> HIDE DEF speech
<1>7. /\ result' \in GateResult
      /\ result'.speech = speech /\ result'.started /\ ~result'.ended
  BY <1>3, <1>5 DEF GateResult, NoResult
<1>8. GateTypeOK'
  <2>1. /\ onsetRun' \in 0..(OnsetFrames - 1)
        /\ silenceRun' \in 0..(SilenceFrames - 1)
        /\ utteranceFrames' \in Nat
        /\ clock' \in 0..FrameLimit
        /\ kept' \in 0..clock' /\ lastVoiced' \in 0..clock' /\ specAt' \in 0..clock'
    BY <1>1, <1>2 DEF GateTypeOK
  <2>2. preRoll' \in Seq(Nat) /\ Len(preRoll') <= PreRollFrames
    BY <1>2
  <2>3. QED
    BY <1>2, <1>4, <1>7, <2>1, <2>2 DEF GateTypeOK
<1>9. OnsetNotClipped'
  <2>1. SUFFICES ASSUME PreRollFrames >= OnsetFrames - 1,
                        NEW f \in (clock' - OnsetFrames + 1)..clock'
                 PROVE  f \in Range(result'.speech)
    BY DEF OnsetNotClipped
  <2>2. onsetRun + 1 >= OnsetFrames
    BY <1>1, <1>2 DEF OnsetRunAfter, GateTypeOK
  <2>3. Len(preRoll) >= OnsetFrames - 1
    BY <1>1, <1>4, <2>1, <2>2 DEF GateTypeOK
  <2>4. f \in Int /\ f >= clock + 2 - OnsetFrames /\ f <= clock + 1
    BY <1>1
  <2> DEFINE i == f - (clock + 1 - Len(speech))
  <2>5. i \in 1..Len(speech) /\ f = clock + 1 - Len(speech) + i
    BY <1>1, <1>5, <2>3, <2>4
  <2>6. speech[i] = f
    BY <1>6, <2>5
  <2>7. DOMAIN speech = 1..Len(speech)
    BY <1>5
  <2>8. QED
    BY <1>7, <2>5, <2>6, <2>7 DEF Range
<1>10. RingIsRecent' /\ RunInRing' /\ UtteranceIsCurrent' /\ SilenceIsReal' /\ AnnouncedInTime'
  BY <1>1, <1>2, <1>4
  DEF RingIsRecent, RunInRing, UtteranceIsCurrent, SilenceIsReal, AnnouncedInTime
<1>11. SpeculationCoversSpeech' /\ NoEndWhileTalking' /\ MaybeEndedBeforeEnded' /\ LengthBounded'
  BY <1>2, <1>4, <1>7
  DEF SpeculationCoversSpeech, NoEndWhileTalking, MaybeEndedBeforeEnded, LengthBounded
<1>12. QED
  BY <1>8, <1>9, <1>10, <1>11 DEF GateInv

\* What every frame inside an utterance establishes, whether it goes on or ends.
LEMMA SpeakingFacts ==
    ASSUME GateInv, NEW p \in Levels, clock < FrameLimit, clock' = clock + 1,
           inSpeech, Witness(p)
    PROVE  /\ Speaking(p) \in GateResult
           /\ Speaking(p).started = FALSE /\ Speaking(p).ended = FALSE
           /\ SilenceAfter(p) \in Nat
           /\ (StillFired(p) \/ Announces(p)) \in BOOLEAN
           /\ clock' \in 0..FrameLimit
           /\ kept' = clock'
           /\ lastVoiced' \in 0..clock' /\ specAt' \in 0..clock'
           /\ lastVoiced' + SilenceAfter(p) <= clock'
           /\ StillFired(p) \/ Announces(p) => specAt' > lastVoiced'
           /\ SpecFrames > 0 /\ ~(StillFired(p) \/ Announces(p))
                => SilenceAfter(p) < SpecFrames
<1> USE GateAssumption
<1>1. /\ GateTypeOK /\ clock \in Nat
      /\ lastVoiced + silenceRun <= clock
      /\ specFired => specAt > lastVoiced
      /\ SpecFrames > 0 /\ ~specFired => silenceRun < SpecFrames
  BY DEF GateInv, GateTypeOK, SilenceIsReal, SpeculationCoversSpeech, AnnouncedInTime
<1>2. /\ kept' = clock + 1
      /\ lastVoiced' = IF p = "low" THEN lastVoiced ELSE clock + 1
      /\ specAt' = IF Announces(p) THEN clock + 1
                   ELSE IF StillFired(p) THEN specAt ELSE 0
  BY DEF Witness
<1>3. /\ Speaking(p) \in GateResult
      /\ Speaking(p).started = FALSE /\ Speaking(p).ended = FALSE
  <2>1. <<clock + 1>> \in Seq(Nat)
    BY <1>1
  <2>2. (specFired /\ p # "low") \in BOOLEAN /\ Announces(p) \in BOOLEAN
    BY DEF Announces
  <2>3. QED
    BY <2>1, <2>2 DEF Speaking, NoResult, GateResult
<1>4. SilenceAfter(p) \in Nat
  BY <1>1 DEF SilenceAfter, GateTypeOK
<1>5. clock' \in 0..FrameLimit /\ lastVoiced' \in 0..clock' /\ specAt' \in 0..clock'
  BY <1>1, <1>2 DEF GateTypeOK
<1>6. lastVoiced' + SilenceAfter(p) <= clock'
  BY <1>1, <1>2 DEF SilenceAfter, GateTypeOK
<1>7. Announces(p) => specAt' > lastVoiced'
  BY <1>1, <1>2 DEF Announces, SilenceAfter, GateTypeOK
<1>8. StillFired(p) => specAt' > lastVoiced'
  BY <1>1, <1>2 DEF StillFired, GateTypeOK
<1>9. SpecFrames > 0 /\ ~(StillFired(p) \/ Announces(p)) => SilenceAfter(p) < SpecFrames
  BY <1>1 DEF StillFired, Announces, SilenceAfter, GateTypeOK
<1>10. (StillFired(p) \/ Announces(p)) \in BOOLEAN
  OBVIOUS
<1>11. QED
  BY <1>2, <1>3, <1>4, <1>5, <1>6, <1>7, <1>8, <1>9, <1>10

LEMMA ContinueStep ==
    ASSUME GateInv, NEW p \in Levels, clock < FrameLimit, clock' = clock + 1, Continue(p)
    PROVE  GateInv'
<1> USE GateAssumption
<1>0. GateTypeOK
  BY DEF GateInv
<1>1. inSpeech /\ Witness(p)
  BY DEF Continue
<1>2. /\ Speaking(p) \in GateResult
      /\ Speaking(p).started = FALSE /\ Speaking(p).ended = FALSE
      /\ SilenceAfter(p) \in Nat
      /\ (StillFired(p) \/ Announces(p)) \in BOOLEAN
      /\ clock' \in 0..FrameLimit
      /\ kept' = clock'
      /\ lastVoiced' \in 0..clock' /\ specAt' \in 0..clock'
      /\ lastVoiced' + SilenceAfter(p) <= clock'
      /\ StillFired(p) \/ Announces(p) => specAt' > lastVoiced'
      /\ SpecFrames > 0 /\ ~(StillFired(p) \/ Announces(p)) => SilenceAfter(p) < SpecFrames
  BY <1>1, SpeakingFacts
<1>3. /\ utteranceFrames' = utteranceFrames + 1
      /\ utteranceFrames + 1 < MaxUtteranceFrames
      /\ silenceRun' = SilenceAfter(p) /\ SilenceAfter(p) < SilenceFrames
      /\ specFired' = (StillFired(p) \/ Announces(p))
      /\ result' = Speaking(p)
      /\ UNCHANGED <<inSpeech, onsetRun, preRoll>>
  BY <1>0 DEF Continue, AtCap, GateTypeOK
<1>4. GateTypeOK /\ preRoll = <<>> /\ onsetRun = 0
  BY <1>1 DEF GateInv, UtteranceIsCurrent
<1>5. GateTypeOK'
  <2>1. /\ onsetRun' \in 0..(OnsetFrames - 1)
        /\ silenceRun' \in 0..(SilenceFrames - 1)
        /\ utteranceFrames' \in Nat
        /\ kept' \in 0..clock'
    BY <1>2, <1>3, <1>4 DEF GateTypeOK
  <2>2. QED
    BY <1>2, <1>3, <1>4, <2>1 DEF GateTypeOK
<1>6. RingIsRecent' /\ RunInRing' /\ UtteranceIsCurrent' /\ SilenceIsReal' /\ AnnouncedInTime'
  BY <1>1, <1>2, <1>3, <1>4
  DEF RingIsRecent, RunInRing, UtteranceIsCurrent, SilenceIsReal, AnnouncedInTime
<1>7. OnsetNotClipped' /\ SpeculationCoversSpeech' /\ NoEndWhileTalking'
      /\ MaybeEndedBeforeEnded' /\ LengthBounded'
  BY <1>2, <1>3
  DEF OnsetNotClipped, SpeculationCoversSpeech, NoEndWhileTalking, MaybeEndedBeforeEnded,
      LengthBounded
<1>8. QED
  BY <1>5, <1>6, <1>7 DEF GateInv

\* A frame that ends the utterance, with or without a successor.
LEMMA EndStep ==
    ASSUME GateInv, NEW p \in Levels, clock < FrameLimit, clock' = clock + 1,
           EndOnSilence(p) \/ Rollover(p)
    PROVE  GateInv'
<1> USE GateAssumption
<1>1. inSpeech /\ Witness(p)
  BY DEF EndOnSilence, Rollover
<1>2. /\ Speaking(p) \in GateResult
      /\ Speaking(p).started = FALSE /\ Speaking(p).ended = FALSE
      /\ SilenceAfter(p) \in Nat
      /\ (StillFired(p) \/ Announces(p)) \in BOOLEAN
      /\ clock' \in 0..FrameLimit
      /\ kept' = clock'
      /\ lastVoiced' \in 0..clock' /\ specAt' \in 0..clock'
      /\ lastVoiced' + SilenceAfter(p) <= clock'
      /\ StillFired(p) \/ Announces(p) => specAt' > lastVoiced'
      /\ SpecFrames > 0 /\ ~(StillFired(p) \/ Announces(p)) => SilenceAfter(p) < SpecFrames
  BY <1>1, SpeakingFacts
<1>3. GateTypeOK /\ preRoll = <<>> /\ onsetRun = 0
  BY <1>1 DEF GateInv, UtteranceIsCurrent
<1>4. /\ onsetRun' = 0 /\ silenceRun' = 0 /\ utteranceFrames' = 0 /\ specFired' = FALSE
      /\ inSpeech' \in BOOLEAN /\ preRoll' = <<>>
  BY <1>1, <1>3 DEF EndOnSilence, Rollover, ClearUtterance, GateTypeOK
<1>5. /\ result' \in GateResult
      /\ result'.started = FALSE
      /\ ~result'.forced => SilenceAfter(p) >= SilenceFrames
  <2>1. CASE EndOnSilence(p)
    BY <1>2, <2>1 DEF EndOnSilence, Ended, GateResult
  <2>2. CASE Rollover(p)
    BY <1>2, <2>2 DEF Rollover, Ended, GateResult
  <2>3. QED
    BY <2>1, <2>2
<1>6. GateTypeOK'
  <2>1. /\ onsetRun' \in 0..(OnsetFrames - 1)
        /\ silenceRun' \in 0..(SilenceFrames - 1)
        /\ utteranceFrames' \in Nat
        /\ kept' \in 0..clock'
    BY <1>2, <1>4
  <2>2. preRoll' \in Seq(Nat) /\ Len(preRoll') <= PreRollFrames
    BY <1>4
  <2>3. QED
    BY <1>2, <1>4, <1>5, <2>1, <2>2 DEF GateTypeOK
<1>7. RingIsRecent' /\ RunInRing' /\ UtteranceIsCurrent' /\ SilenceIsReal' /\ AnnouncedInTime'
  BY <1>2, <1>4, <1>6
  DEF RingIsRecent, RunInRing, UtteranceIsCurrent, SilenceIsReal, AnnouncedInTime, GateTypeOK
<1>8. NoEndWhileTalking'
  BY <1>2, <1>5, <1>6 DEF NoEndWhileTalking, GateTypeOK
<1>9. MaybeEndedBeforeEnded'
  BY <1>2, <1>5 DEF MaybeEndedBeforeEnded
<1>10. OnsetNotClipped' /\ SpeculationCoversSpeech' /\ LengthBounded'
  BY <1>4, <1>5 DEF OnsetNotClipped, SpeculationCoversSpeech, LengthBounded
<1>11. QED
  BY <1>6, <1>7, <1>8, <1>9, <1>10 DEF GateInv

LEMMA FlushStep == GateInv /\ Flush => GateInv'
<1> SUFFICES ASSUME GateInv, Flush PROVE GateInv'
  OBVIOUS
<1> USE GateAssumption
<1>1. /\ inSpeech' = FALSE
      /\ UNCHANGED <<preRoll, clock, kept, lastVoiced, specAt>>
  BY DEF Flush
<1>2. GateTypeOK
  BY DEF GateInv
<1>3. /\ result' \in GateResult
      /\ result'.started = FALSE
      /\ result'.ended => result'.forced
  <2>1. CASE inSpeech
    <3>1. result' = [NoResult EXCEPT !.ended = TRUE, !.forced = TRUE]
      BY <2>1 DEF Flush, Ended
    <3>2. QED
      BY <3>1, NoResultType DEF GateResult, NoResult
  <2>2. CASE ~inSpeech
    <3>1. result' = NoResult
      BY <2>2 DEF Flush
    <3>2. QED
      BY <3>1, NoResultType DEF NoResult
  <2>3. QED
    BY <2>1, <2>2
<1>4. /\ onsetRun' \in 0..(OnsetFrames - 1)
      /\ silenceRun' \in 0..(SilenceFrames - 1)
      /\ utteranceFrames' \in Nat
      /\ specFired' = FALSE
      /\ inSpeech => preRoll = <<>> /\ onsetRun' = 0
      /\ ~inSpeech => onsetRun' = onsetRun
  <2>1. CASE inSpeech
    BY <2>1 DEF Flush, ClearUtterance, GateInv, UtteranceIsCurrent
  <2>2. CASE ~inSpeech
    BY <1>2, <2>2 DEF Flush, GateInv, AnnouncedInTime, GateTypeOK
  <2>3. QED
    BY <2>1, <2>2
<1>5. GateTypeOK'
  BY <1>1, <1>2, <1>3, <1>4 DEF GateTypeOK
<1>6. RingIsRecent' /\ RunInRing'
  BY <1>1, <1>2, <1>4 DEF GateInv, RingIsRecent, RunInRing, UtteranceIsCurrent, GateTypeOK
<1>7. UtteranceIsCurrent' /\ SilenceIsReal' /\ AnnouncedInTime' /\ SpeculationCoversSpeech'
      /\ LengthBounded'
  BY <1>1, <1>4
  DEF UtteranceIsCurrent, SilenceIsReal, AnnouncedInTime, SpeculationCoversSpeech, LengthBounded
<1>8. OnsetNotClipped' /\ NoEndWhileTalking' /\ MaybeEndedBeforeEnded'
  BY <1>3 DEF OnsetNotClipped, NoEndWhileTalking, MaybeEndedBeforeEnded
<1>9. QED
  BY <1>5, <1>6, <1>7, <1>8 DEF GateInv

-----------------------------------------------------------------------------

LEMMA GateStep == GateInv /\ [GateNext]_gateVars => GateInv'
<1> SUFFICES ASSUME GateInv, [GateNext]_gateVars PROVE GateInv'
  OBVIOUS
<1>1. ASSUME NEW p \in Levels, Process(p) PROVE GateInv'
  <2>1. clock < FrameLimit /\ clock' = clock + 1
    BY <1>1 DEF Process
  <2>2. CASE Listen(p)
    BY <2>1, <2>2, ListenStep
  <2>3. CASE Onset(p)
    BY <2>1, <2>3, OnsetStep
  <2>4. CASE Continue(p)
    BY <2>1, <2>4, ContinueStep
  <2>5. CASE EndOnSilence(p) \/ Rollover(p)
    BY <2>1, <2>5, EndStep
  <2>6. QED
    BY <1>1, <2>2, <2>3, <2>4, <2>5 DEF Process
<1>2. CASE Flush
  BY <1>2, FlushStep
<1>3. CASE UNCHANGED gateVars
  BY <1>3
  DEF gateVars, gateState, GateInv, GateTypeOK, RingIsRecent, RunInRing, UtteranceIsCurrent,
      SilenceIsReal, AnnouncedInTime, OnsetNotClipped, SpeculationCoversSpeech,
      NoEndWhileTalking, MaybeEndedBeforeEnded, LengthBounded
<1>4. QED
  BY <1>1, <1>2, <1>3 DEF GateNext

LEMMA GateInvariance == GateSpec => []GateInv
  BY GateInitial, GateStep, PTL DEF GateSpec

\* The gate's state always has its type, and its ring and counters their bounds.
THEOREM GateTypeCorrect == GateSpec => []GateTypeOK
<1>1. GateInv => GateTypeOK
  BY DEF GateInv
<1>2. QED
  BY <1>1, GateInvariance, PTL

\* Every frame of the onset run is part of the utterance it opens.
THEOREM OnsetIsKept == GateSpec => []OnsetNotClipped
<1>1. GateInv => OnsetNotClipped
  BY DEF GateInv
<1>2. QED
  BY <1>1, GateInvariance, PTL

\* An announced end covers all the speech of its utterance, which is what lets
\* finalize() use the decode started at the announcement.
THEOREM SpeculationIsSound == GateSpec => []SpeculationCoversSpeech
<1>1. GateInv => SpeculationCoversSpeech
  BY DEF GateInv
<1>2. QED
  BY <1>1, GateInvariance, PTL

\* Unless forced, an utterance ends only after the whole closing silence, and
\* never without an announcement standing; the length cap bounds every utterance.
THEOREM UtterancesEndRight == GateSpec => []EndsBySilenceOrCap
<1>1. GateInv => EndsBySilenceOrCap
  BY DEF GateInv, EndsBySilenceOrCap
<1>2. QED
  BY <1>1, GateInvariance, PTL

-----------------------------------------------------------------------------

DeliversInOrder ==
    \A i \in DOMAIN result'.speech :
        /\ result'.speech[i] > kept
        /\ result'.speech[i] = result'.speech[1] + i - 1
        /\ inSpeech => result'.speech[1] = kept + 1

LEMMA ProcessDelivers ==
    ASSUME GateInv, NEW p \in Levels, Process(p)
    PROVE  DeliversInOrder
<1> USE GateAssumption
<1>1. GateTypeOK /\ clock \in Nat /\ kept \in Nat /\ kept <= clock /\ preRoll \in Seq(Nat)
  BY DEF GateInv, GateTypeOK
<1>2. CASE Listen(p)
  BY <1>2 DEF Listen, NoResult, DeliversInOrder
<1>3. CASE Onset(p)
  <2> DEFINE speech == Append(preRoll, clock + 1)
  <2>1. ~inSpeech /\ result'.speech = speech
    BY <1>3 DEF Onset, NoResult
  <2>2. /\ Len(preRoll) <= clock - kept
        /\ \A i \in 1..Len(preRoll) : preRoll[i] = clock - Len(preRoll) + i
    BY <2>1 DEF GateInv, RingIsRecent
  <2>3. /\ DOMAIN speech = 1..(Len(preRoll) + 1)
        /\ \A i \in 1..Len(preRoll) : speech[i] = preRoll[i]
        /\ speech[Len(preRoll) + 1] = clock + 1
    BY <1>1, AppendProperties
  <2> HIDE DEF speech
  <2>4. \A i \in DOMAIN speech : speech[i] = clock - Len(preRoll) + i
    BY <1>1, <2>2, <2>3, SMTT(30)
  <2>5. 1 \in DOMAIN speech
    BY <1>1, <2>3
  <2>6. ASSUME NEW i \in DOMAIN speech
        PROVE  speech[i] > kept /\ speech[i] = speech[1] + i - 1
    <3>1. i \in 1..(Len(preRoll) + 1) /\ Len(preRoll) \in Nat
      BY <1>1, <2>3
    <3>2. speech[i] = clock - Len(preRoll) + i /\ speech[1] = clock - Len(preRoll) + 1
      BY <2>4, <2>5
    <3>3. QED
      BY <1>1, <2>2, <3>1, <3>2
  <2>7. QED
    BY <2>1, <2>6 DEF DeliversInOrder
<1>4. CASE Continue(p) \/ EndOnSilence(p) \/ Rollover(p)
  <2>1. inSpeech /\ result'.speech = <<clock + 1>>
    BY <1>4 DEF Continue, EndOnSilence, Rollover, Ended, Speaking, NoResult
  <2>2. kept = clock
    BY <2>1 DEF GateInv, UtteranceIsCurrent
  <2>3. QED
    BY <1>1, <2>1, <2>2 DEF DeliversInOrder
<1>5. QED
  BY <1>2, <1>3, <1>4 DEF Process

\* No frame is handed out twice, out of order, or skipped inside an utterance.
THEOREM FramesAreDeliveredInOrder == GateSpec => DeliveredInOrder
<1>1. GateInv /\ [GateNext]_gateVars => [DeliversInOrder]_gateVars
  <2> SUFFICES ASSUME GateInv, GateNext PROVE DeliversInOrder
    BY DEF gateVars
  <2>1. CASE Flush
    <3>1. result' = Ended(NoResult, TRUE) \/ result' = NoResult
      BY <2>1, Zenon DEF Flush
    <3>2. result'.speech = <<>>
      <4>1. NoResult.speech = <<>>
        BY DEF NoResult
      <4>2. Ended(NoResult, TRUE).speech = NoResult.speech
        BY NoResultType DEF Ended, GateResult
      <4>3. QED
        BY <3>1, <4>1, <4>2
    <3>3. QED
      BY <3>2 DEF DeliversInOrder
  <2>2. QED
    BY <2>1, ProcessDelivers DEF GateNext
<1>2. QED
  BY <1>1, GateInvariance, PTL DEF GateSpec, DeliveredInOrder, DeliversInOrder

-----------------------------------------------------------------------------
(* The session loop.                                                       *)

\* Steps of the loop are steps of the gate, or leave it alone.
LEMMA LoopStep == [Next]_vars => [GateNext]_gateVars
<1> SUFFICES ASSUME [Next]_vars PROVE [GateNext]_gateVars
  OBVIOUS
<1>1. CASE NextFrame
  BY <1>1 DEF NextFrame, GateNext
<1>2. CASE StopLoop
  BY <1>2 DEF StopLoop, GateNext
<1>3. CASE CallStart \/ CallFeed \/ CallCancel \/ CallSpeculate \/ CallFinalize
  BY <1>3 DEF CallStart, CallFeed, CallCancel, CallSpeculate, CallFinalize, Call
<1>4. CASE CallTick \/ Waiting \/ Decoding \/ LoopFails
  BY <1>4 DEF CallTick, Waiting, Decoding, LoopFails
<1>5. CASE Done \/ UNCHANGED vars
  BY <1>5 DEF Done, vars
<1>6. QED
  BY <1>1, <1>2, <1>3, <1>4, <1>5 DEF Next

\* The session loop implements the gate's specification.
THEOREM LoopIsGate == Spec => GateSpec
<1>1. Init => GateInit
  BY DEF Init
<1>2. QED
  BY <1>1, LoopStep, PTL DEF Spec, GateSpec

\* So everything proved of the gate holds of it in a session.
LEMMA GateInSession == Spec => []GateInv
  BY LoopIsGate, GateInvariance, PTL

-----------------------------------------------------------------------------
(* The calls of one frame.                                                 *)

EngineCalls == {"start", "feed", "cancel", "speculate", "finalize"}

\* What follows "feed" in a frame of an utterance that goes on.
Quiet == {"cancel", "speculate"}

\* Calls that lead up to a last one.
LeadTo(c, before, end) ==
    /\ c \in Seq(EngineCalls) /\ c # <<>>
    /\ c[Len(c)] = end
    /\ \A i \in 1..(Len(c) - 1) : c[i] \in before

\* An utterance ends; it ends and the next one is open already.
Ending(c) == LeadTo(c, Quiet, "finalize")
Rolling(c) == LeadTo(c, Quiet \cup {"finalize"}, "start")

\* Making one of these calls leaves calls of the same kind.
LEMMA QuietGoesOn ==
    ASSUME NEW c \in Seq(Quiet), c # <<>>
    PROVE  Head(c) \in Quiet /\ Tail(c) \in Seq(Quiet)
  BY HeadTailProperties

LEMMA LeadOn ==
    ASSUME NEW c, NEW before, NEW end, LeadTo(c, before, end)
    PROVE  \/ Head(c) \in before /\ LeadTo(Tail(c), before, end)
           \/ Head(c) = end /\ Tail(c) = <<>>
<1>1. c \in Seq(EngineCalls) /\ c # <<>> /\ Head(c) = c[1] /\ Len(c) \in Nat \ {0}
  BY EmptySeq DEF LeadTo
<1>2. /\ Tail(c) \in Seq(EngineCalls)
      /\ Len(Tail(c)) = Len(c) - 1
      /\ \A i \in 1..Len(Tail(c)) : Tail(c)[i] = c[i + 1]
  BY <1>1, HeadTailProperties
<1>3. CASE Len(c) = 1
  <2>1. Head(c) = end
    BY <1>1, <1>3 DEF LeadTo
  <2>2. Len(Tail(c)) = 0
    BY <1>2, <1>3
  <2>3. Tail(c) = <<>>
    BY <1>2, <2>2, EmptySeq
  <2>4. QED
    BY <2>1, <2>3
<1>4. CASE Len(c) # 1
  <2>1. Head(c) \in before /\ Len(Tail(c)) \in Nat \ {0}
    BY <1>1, <1>2, <1>4 DEF LeadTo
  <2>2. Tail(c)[Len(Tail(c))] = end
    BY <1>1, <1>2, <2>1 DEF LeadTo
  <2>3. \A i \in 1..(Len(Tail(c)) - 1) : Tail(c)[i] \in before
    BY <1>1, <1>2, <2>1 DEF LeadTo
  <2>4. QED
    BY <1>2, <2>1, <2>2, <2>3, EmptySeq DEF LeadTo
<1>5. QED
  BY <1>3, <1>4

\* "feed", and then only calls from a set.
FeedThen(c, after) ==
    /\ c \in Seq(EngineCalls) /\ Len(c) >= 1
    /\ c[1] = "feed"
    /\ \A i \in 2..Len(c) : c[i] \in after

LEMMA FeedThenCall ==
    ASSUME NEW c, NEW after, after \subseteq EngineCalls, FeedThen(c, after),
           NEW call \in after
    PROVE  /\ FeedThen(c \o <<call>>, after)
           /\ Len(c \o <<call>>) = Len(c) + 1
           /\ (c \o <<call>>)[Len(c) + 1] = call
           /\ \A i \in 1..Len(c) : (c \o <<call>>)[i] = c[i]
<1>1. c \in Seq(EngineCalls) /\ Len(c) \in Nat /\ Len(c) >= 1
  BY DEF FeedThen
<1>2. <<call>> \in Seq(EngineCalls) /\ Len(<<call>>) = 1 /\ <<call>>[1] = call
  OBVIOUS
<1> DEFINE d == c \o <<call>>
<1>3. /\ d \in Seq(EngineCalls) /\ Len(d) = Len(c) + 1
      /\ \A i \in 1..(Len(c) + 1) : d[i] = IF i <= Len(c) THEN c[i] ELSE <<call>>[i - Len(c)]
  BY <1>1, <1>2, ConcatProperties
<1> HIDE DEF d
<1>4. d[1] = "feed" /\ d[Len(c) + 1] = call /\ \A i \in 1..Len(c) : d[i] = c[i]
  BY <1>1, <1>2, <1>3 DEF FeedThen
<1>5. \A i \in 2..Len(d) : d[i] \in after
  BY <1>1, <1>2, <1>3 DEF FeedThen
<1>6. FeedThen(d, after)
  BY <1>1, <1>3, <1>4, <1>5 DEF FeedThen
<1>7. QED
  BY <1>3, <1>4, <1>6 DEF d

LEMMA FeedThenMaybe ==
    ASSUME NEW c, NEW after, after \subseteq EngineCalls, FeedThen(c, after),
           NEW flag \in BOOLEAN, NEW call \in after
    PROVE  /\ FeedThen(c \o If(flag, call), after)
           /\ ~flag => c \o If(flag, call) = c
<1>1. CASE flag
  BY <1>1, FeedThenCall DEF If
<1>2. CASE ~flag
  BY <1>2, ConcatEmptySeq DEF If, FeedThen
<1>3. QED
  BY <1>1, <1>2

\* The calls for a frame of an open utterance: "feed" first, and what follows
\* tells whether the utterance goes on, ends, or ends with the next one open.
LEMMA CallsOfFrame ==
    ASSUME NEW r \in GateResult, r.speech # <<>>, ~r.started
    PROVE  /\ FeedThen(CallsFor(r), EngineCalls)
           /\ ~r.ended /\ ~r.restarted => Tail(CallsFor(r)) \in Seq(Quiet)
           /\ r.ended /\ ~r.restarted => Ending(Tail(CallsFor(r)))
           /\ r.restarted => Rolling(Tail(CallsFor(r)))
<1> DEFINE fedFirst == If(r.started, "start") \o If(r.speech # <<>>, "feed")
           quiet1 == fedFirst \o If(r.cancelled, "cancel")
           quiet2 == quiet1 \o If(r.maybeEnded, "speculate")
           ended == quiet2 \o If(r.ended, "finalize")
           all == ended \o If(r.restarted, "start")
<1>0. /\ r.started = FALSE /\ r.cancelled \in BOOLEAN /\ r.maybeEnded \in BOOLEAN
      /\ r.ended \in BOOLEAN /\ r.restarted \in BOOLEAN
  BY DEF GateResult
<1>1. CallsFor(r) = all
  BY DEF CallsFor
<1>2. fedFirst = <<"feed">>
  <2>1. If(r.started, "start") = <<>> /\ If(r.speech # <<>>, "feed") = <<"feed">>
    BY <1>0 DEF If
  <2>2. <<"feed">> \in Seq(EngineCalls)
    BY DEF EngineCalls
  <2>3. QED
    BY <2>1, <2>2, ConcatEmptySeq
<1> HIDE DEF fedFirst
<1>3. FeedThen(fedFirst, Quiet)
  BY <1>2 DEF FeedThen, EngineCalls
<1>4. Quiet \subseteq EngineCalls /\ "cancel" \in Quiet /\ "speculate" \in Quiet
  BY DEF Quiet, EngineCalls
<1>5. FeedThen(quiet1, Quiet)
  BY <1>0, <1>3, <1>4, FeedThenMaybe
<1> HIDE DEF quiet1
<1>6. FeedThen(quiet2, Quiet)
  BY <1>0, <1>4, <1>5, FeedThenMaybe
<1> HIDE DEF quiet2
<1> DEFINE QF == Quiet \cup {"finalize"}
<1>7. QF \subseteq EngineCalls /\ "finalize" \in QF /\ FeedThen(quiet2, QF)
  BY <1>6 DEF FeedThen, Quiet, EngineCalls
<1> HIDE DEF QF
<1>8. /\ FeedThen(ended, QF)
      /\ r.ended => /\ Len(ended) = Len(quiet2) + 1
                    /\ ended[Len(quiet2) + 1] = "finalize"
                    /\ \A i \in 1..Len(quiet2) : ended[i] = quiet2[i]
      /\ ~r.ended => ended = quiet2
  <2>1. CASE r.ended
    <3>1. ended = quiet2 \o <<"finalize">>
      BY <2>1 DEF If
    <3>2. /\ FeedThen(quiet2 \o <<"finalize">>, QF)
          /\ Len(quiet2 \o <<"finalize">>) = Len(quiet2) + 1
          /\ (quiet2 \o <<"finalize">>)[Len(quiet2) + 1] = "finalize"
          /\ \A i \in 1..Len(quiet2) : (quiet2 \o <<"finalize">>)[i] = quiet2[i]
      BY <1>7, FeedThenCall
    <3>3. QED
      BY <2>1, <3>1, <3>2
  <2>2. CASE ~r.ended
    <3>1. ended = quiet2
      BY <2>2, <1>6, ConcatEmptySeq DEF If, FeedThen
    <3>2. QED
      BY <2>2, <3>1, <1>7
  <2>3. QED
    BY <2>1, <2>2
<1> HIDE DEF ended
<1>9. /\ EngineCalls \subseteq EngineCalls /\ "start" \in EngineCalls
      /\ FeedThen(ended, EngineCalls)
  BY <1>7, <1>8 DEF FeedThen, EngineCalls
<1>10. /\ FeedThen(all, EngineCalls)
       /\ r.restarted => /\ Len(all) = Len(ended) + 1
                         /\ all[Len(ended) + 1] = "start"
                         /\ \A i \in 1..Len(ended) : all[i] = ended[i]
       /\ ~r.restarted => all = ended
  <2>1. CASE r.restarted
    <3>1. all = ended \o <<"start">>
      BY <2>1 DEF If
    <3>2. /\ FeedThen(ended \o <<"start">>, EngineCalls)
          /\ Len(ended \o <<"start">>) = Len(ended) + 1
          /\ (ended \o <<"start">>)[Len(ended) + 1] = "start"
          /\ \A i \in 1..Len(ended) : (ended \o <<"start">>)[i] = ended[i]
      BY <1>9, FeedThenCall
    <3>3. QED
      BY <2>1, <3>1, <3>2
  <2>2. CASE ~r.restarted
    <3>1. all = ended
      BY <2>2, <1>9, ConcatEmptySeq DEF If, FeedThen
    <3>2. QED
      BY <2>2, <3>1, <1>9
  <2>3. QED
    BY <2>1, <2>2
<1> HIDE DEF all
<1> DEFINE t == Tail(all)
<1>11. /\ t \in Seq(EngineCalls) /\ Len(t) = Len(all) - 1 /\ Len(all) \in Nat
       /\ \A i \in 1..Len(t) : t[i] = all[i + 1]
  <2>1. all \in Seq(EngineCalls) /\ all # <<>> /\ Len(all) \in Nat
    BY <1>10, EmptySeq DEF FeedThen
  <2>2. QED
    BY <2>1, HeadTailProperties
<1> HIDE DEF t
<1>12. ASSUME ~r.ended, ~r.restarted PROVE t \in Seq(Quiet)
  <2>1. FeedThen(all, Quiet)
    BY <1>6, <1>8, <1>10, <1>12
  <2>2. \A i \in 1..Len(t) : t[i] \in Quiet
    BY <1>11, <2>1 DEF FeedThen
  <2>3. QED
    BY <1>11, <2>2, LenProperties
<1>13. ASSUME r.ended, ~r.restarted PROVE Ending(t)
  <2>1. all = ended /\ Len(quiet2) \in Nat /\ Len(quiet2) >= 1
    BY <1>6, <1>10, <1>13 DEF FeedThen
  <2>2. Len(t) = Len(quiet2) /\ t[Len(t)] = "finalize"
    BY <1>8, <1>11, <1>13, <2>1
  <2>3. \A i \in 1..(Len(t) - 1) : t[i] \in Quiet
    <3> SUFFICES ASSUME NEW i \in 1..(Len(t) - 1) PROVE t[i] \in Quiet
      OBVIOUS
    <3>1. i \in 1..Len(t) /\ i + 1 \in 2..Len(quiet2) /\ i + 1 \in 1..Len(quiet2)
      BY <2>1, <2>2
    <3>2. QED
      BY <3>1, <1>6, <1>8, <1>11, <1>13, <2>1 DEF FeedThen
  <2>4. QED
    BY <1>11, <2>1, <2>2, <2>3, EmptySeq DEF Ending, LeadTo
<1>14. ASSUME r.restarted PROVE Rolling(t)
  <2>1. Len(ended) \in Nat /\ Len(ended) >= 1
    BY <1>8 DEF FeedThen
  <2>2. Len(t) = Len(ended) /\ t[Len(t)] = "start"
    BY <1>10, <1>11, <1>14, <2>1
  <2>3. \A i \in 1..(Len(t) - 1) : t[i] \in QF
    <3> SUFFICES ASSUME NEW i \in 1..(Len(t) - 1) PROVE t[i] \in QF
      OBVIOUS
    <3>1. i \in 1..Len(t) /\ i + 1 \in 2..Len(ended) /\ i + 1 \in 1..Len(ended)
      BY <2>1, <2>2
    <3>2. QED
      BY <3>1, <1>8, <1>10, <1>11, <1>14 DEF FeedThen
  <2>4. QED
    BY <1>11, <2>1, <2>2, <2>3, EmptySeq DEF Rolling, LeadTo, QF
<1>15. QED
  BY <1>1, <1>10, <1>12, <1>13, <1>14 DEF t

\* The frame that opens an utterance starts it and feeds it, and no more.
LEMMA CallsOfOnset ==
    ASSUME NEW r \in GateResult, r.speech # <<>>, r.started,
           ~r.ended, ~r.cancelled, ~r.maybeEnded, ~r.restarted
    PROVE  CallsFor(r) = <<"start", "feed">>
<1>0. /\ If(r.started, "start") = <<"start">> /\ If(r.speech # <<>>, "feed") = <<"feed">>
      /\ If(r.cancelled, "cancel") = <<>> /\ If(r.maybeEnded, "speculate") = <<>>
      /\ If(r.ended, "finalize") = <<>> /\ If(r.restarted, "start") = <<>>
  BY Zenon DEF If
<1>1. CallsFor(r) = ((((<<"start">> \o <<"feed">>) \o <<>>) \o <<>>) \o <<>>) \o <<>>
  BY <1>0, Zenon DEF CallsFor
<1>2. <<"start">> \o <<"feed">> = <<"start", "feed">>
  <2> DEFINE one == <<"start">>
             other == <<"feed">>
             both == <<"start", "feed">>
  <2>1. /\ one \in Seq(EngineCalls) /\ other \in Seq(EngineCalls) /\ both \in Seq(EngineCalls)
        /\ Len(one) = 1 /\ Len(other) = 1 /\ Len(both) = 2
        /\ one[1] = "start" /\ other[1] = "feed" /\ both[1] = "start" /\ both[2] = "feed"
    BY DEF EngineCalls
  <2> HIDE DEF one, other, both
  <2>2. /\ one \o other \in Seq(EngineCalls)
        /\ Len(one \o other) = Len(one) + Len(other)
        /\ \A i \in 1..(Len(one) + Len(other)) :
              (one \o other)[i] = IF i <= Len(one) THEN one[i] ELSE other[i - Len(one)]
    BY <2>1, ConcatProperties
  <2>3. Len(one \o other) = 2 /\ (one \o other)[1] = "start" /\ (one \o other)[2] = "feed"
    BY <2>1, <2>2
  <2>4. \A i \in 1..2 : (one \o other)[i] = both[i]
    BY <2>1, <2>3
  <2>5. one \o other = both
    BY <2>1, <2>2, <2>3, <2>4, SeqEqual
  <2>6. QED
    BY <2>5 DEF one, other, both
<1>3. <<"start", "feed">> \in Seq(EngineCalls)
  BY DEF EngineCalls
<1>4. QED
  BY <1>1, <1>2, <1>3, ConcatEmptySeq

LEMMA CallsOfNothing == CallsFor(NoResult) = <<>>
  BY DEF CallsFor, If, NoResult

-----------------------------------------------------------------------------
(* Gate and engine.                                                        *)

\* Frames that end at a given one, none missing.
Runs(frames, end) == \A i \in 1..Len(frames) : frames[i] = end - Len(frames) + i

\* The engine is where the gate is.
Together ==
    /\ inUtterance <=> inSpeech
    /\ inSpeech => Len(fed) = utteranceFrames /\ Runs(fed, clock)

\* The engine will be there once it has been fed the frames of the result.
FeedIsDue ==
    /\ inUtterance /\ inSpeech
    /\ Runs(result.speech, clock)
    /\ Runs(fed, clock - Len(result.speech))
    /\ Len(fed) + Len(result.speech) = utteranceFrames

\* Where the calls of the frame have got to.
Between ==
    \/ calls \in Seq(Quiet) /\ Together
    \/ Ending(calls) /\ ~inSpeech
    \/ Rolling(calls) /\ inSpeech /\ utteranceFrames = 0
    \/ /\ FeedThen(calls, EngineCalls)
       /\ \/ Tail(calls) \in Seq(Quiet) /\ FeedIsDue
          \/ Ending(Tail(calls)) /\ ~inSpeech
          \/ Rolling(Tail(calls)) /\ inSpeech /\ utteranceFrames = 0
    \/ /\ calls = <<"start", "feed">> /\ inSpeech
       /\ Runs(result.speech, clock)
       /\ Len(result.speech) = utteranceFrames

LoopInv ==
    /\ inUtterance \in BOOLEAN
    /\ stopped \in BOOLEAN
    /\ fed \in Seq(Nat)
    /\ ~stopped => Between

\* Frames fed after the frames before them.
LEMMA RunsOn ==
    ASSUME NEW before \in Seq(Nat), NEW frames \in Seq(Nat), NEW end \in Nat,
           Runs(before, end - Len(frames)), Runs(frames, end)
    PROVE  /\ before \o frames \in Seq(Nat)
           /\ Len(before \o frames) = Len(before) + Len(frames)
           /\ Runs(before \o frames, end)
<1>1. /\ before \o frames \in Seq(Nat)
      /\ Len(before \o frames) = Len(before) + Len(frames)
      /\ \A i \in 1..(Len(before) + Len(frames)) :
            (before \o frames)[i] = IF i <= Len(before) THEN before[i]
                                    ELSE frames[i - Len(before)]
  BY ConcatProperties
<1>2. Len(before) \in Nat /\ Len(frames) \in Nat
  OBVIOUS
<1> DEFINE d == before \o frames
<1> HIDE DEF d
<1>3. ASSUME NEW i \in 1..(Len(before) + Len(frames))
      PROVE  d[i] = end - (Len(before) + Len(frames)) + i
  <2>1. CASE i <= Len(before)
    BY <1>1, <1>2, <2>1 DEF Runs, d
  <2>2. CASE ~(i <= Len(before))
    <3>1. i - Len(before) \in 1..Len(frames)
      BY <1>2, <2>2
    <3>2. d[i] = frames[i - Len(before)]
      BY <1>1, <2>2 DEF d
    <3>3. QED
      BY <1>2, <2>2, <3>1, <3>2 DEF Runs
  <2>3. QED
    BY <2>1, <2>2
<1>4. QED
  BY <1>1, <1>2, <1>3 DEF Runs, d

\* Which calls begin with which: a call tells where the loop is.
LEMMA HeadTells ==
    ASSUME Between, calls # <<>>
    PROVE  /\ Head(calls) = "start" =>
                 \/ Rolling(calls) /\ Tail(calls) = <<>> /\ inSpeech /\ utteranceFrames = 0
                 \/ /\ calls = <<"start", "feed">> /\ inSpeech
                    /\ Runs(result.speech, clock)
                    /\ Len(result.speech) = utteranceFrames
           /\ Head(calls) = "feed" =>
                 \/ Tail(calls) \in Seq(Quiet) /\ FeedIsDue
                 \/ Ending(Tail(calls)) /\ ~inSpeech
                 \/ Rolling(Tail(calls)) /\ inSpeech /\ utteranceFrames = 0
           /\ Head(calls) \in Quiet =>
                 \/ Tail(calls) \in Seq(Quiet) /\ Together
                 \/ Ending(Tail(calls)) /\ ~inSpeech
                 \/ Rolling(Tail(calls)) /\ inSpeech /\ utteranceFrames = 0
           /\ Head(calls) = "finalize" =>
                 \/ Tail(calls) = <<>> /\ ~inSpeech
                 \/ Rolling(Tail(calls)) /\ inSpeech /\ utteranceFrames = 0
<1>1. CASE calls \in Seq(Quiet) /\ Together
  <2>1. Head(calls) \in Quiet /\ Tail(calls) \in Seq(Quiet)
    BY <1>1, QuietGoesOn
  <2>2. Head(calls) \notin {"start", "feed", "finalize"}
    BY <2>1 DEF Quiet
  <2>3. QED
    BY <1>1, <2>1, <2>2
<1>2. CASE Ending(calls) /\ ~inSpeech
  <2>1. \/ Head(calls) \in Quiet /\ Ending(Tail(calls))
        \/ Head(calls) = "finalize" /\ Tail(calls) = <<>>
    BY <1>2, LeadOn DEF Ending
  <2>2. \A c \in Quiet : c \notin {"start", "feed", "finalize"}
    BY DEF Quiet
  <2>3. QED
    BY <1>2, <2>1, <2>2
<1>3. CASE Rolling(calls) /\ inSpeech /\ utteranceFrames = 0
  <2>1. \/ Head(calls) \in Quiet \cup {"finalize"} /\ Rolling(Tail(calls))
        \/ Head(calls) = "start" /\ Tail(calls) = <<>>
    BY <1>3, LeadOn DEF Rolling
  <2>2. \A c \in Quiet : c \notin {"start", "feed", "finalize"}
    BY DEF Quiet
  <2>3. CASE Head(calls) = "start" /\ Tail(calls) = <<>>
    BY <1>3, <2>2, <2>3
  <2>4. CASE Head(calls) \in Quiet \cup {"finalize"} /\ Rolling(Tail(calls))
    BY <1>3, <2>2, <2>4
  <2>5. QED
    BY <2>1, <2>3, <2>4
<1>4. CASE /\ FeedThen(calls, EngineCalls)
           /\ \/ Tail(calls) \in Seq(Quiet) /\ FeedIsDue
              \/ Ending(Tail(calls)) /\ ~inSpeech
              \/ Rolling(Tail(calls)) /\ inSpeech /\ utteranceFrames = 0
  <2>1. Head(calls) = "feed"
    BY <1>4 DEF FeedThen
  <2>2. QED
    BY <1>4, <2>1 DEF Quiet
<1>5. CASE /\ calls = <<"start", "feed">> /\ inSpeech
           /\ Runs(result.speech, clock)
           /\ Len(result.speech) = utteranceFrames
  <2>1. Head(calls) = "start"
    BY <1>5
  <2>2. QED
    BY <1>5, <2>1 DEF Quiet
<1>6. QED
  BY <1>1, <1>2, <1>3, <1>4, <1>5 DEF Between

\* A frame through the gate, between two frames.
LEMMA FrameStep ==
    ASSUME GateInv, GateInv', LoopInv, ~stopped, NextFrame
    PROVE  LoopInv'
<1>1. calls = <<>> /\ Together /\ inUtterance' = inUtterance /\ stopped' = stopped
      /\ fed' = fed /\ calls' = CallsFor(result')
  <2>1. calls = <<>> /\ inUtterance' = inUtterance /\ stopped' = stopped
        /\ fed' = fed /\ calls' = CallsFor(result')
    BY DEF NextFrame, Ready
  <2>2. ~Ending(calls) /\ ~Rolling(calls) /\ ~FeedThen(calls, EngineCalls)
        /\ calls # <<"start", "feed">>
    BY <2>1 DEF Ending, Rolling, LeadTo, FeedThen
  <2>3. QED
    BY <2>1, <2>2 DEF LoopInv, Between
<1>2. PICK p \in Levels : Process(p)
  BY DEF NextFrame
<1>3. result' \in GateResult /\ clock \in Nat /\ clock' = clock + 1 /\ fed \in Seq(Nat)
      /\ utteranceFrames \in Nat /\ result \in GateResult
  BY <1>2, GateAssumption DEF Process, GateInv, GateTypeOK, LoopInv
<1>4. SUFFICES Between'
  BY <1>1 DEF LoopInv
<1>5. CASE Listen(p)
  <2>1. calls' = <<>> /\ ~inSpeech'
    BY <1>1, <1>5, CallsOfNothing DEF Listen
  <2>2. ~inUtterance'
    BY <1>1, <1>5 DEF Listen, Together
  <2>3. Together'
    BY <2>1, <2>2 DEF Together
  <2>4. QED
    BY <2>1, <2>3 DEF Between
<1>6. CASE Onset(p)
  <2> DEFINE s == Append(preRoll, clock + 1)
  <2>1. /\ result' = [NoResult EXCEPT !.started = TRUE, !.speech = s]
        /\ inSpeech' /\ utteranceFrames' = Len(preRoll) + 1
    BY <1>6 DEF Onset
  <2>2. /\ preRoll \in Seq(Nat) /\ Len(preRoll) \in Nat
        /\ \A i \in 1..Len(preRoll) : preRoll[i] = clock - Len(preRoll) + i
    BY <1>6 DEF GateInv, GateTypeOK, RingIsRecent, Onset
  <2>3. /\ s \in Seq(Nat) /\ Len(s) = Len(preRoll) + 1 /\ s # <<>>
        /\ \A i \in 1..(Len(preRoll) + 1) :
              s[i] = IF i = Len(preRoll) + 1 THEN clock + 1 ELSE preRoll[i]
    BY <1>3, <2>2, AppendProperties
  <2> HIDE DEF s
  <2>4. Runs(s, clock + 1)
    <3> SUFFICES ASSUME NEW i \in 1..Len(s) PROVE s[i] = (clock + 1) - Len(s) + i
      BY Zenon DEF Runs
    <3>1. CASE i = Len(preRoll) + 1
      BY <3>1, <1>3, <2>2, <2>3
    <3>2. CASE i \in 1..Len(preRoll)
      <4>1. s[i] = preRoll[i]
        BY <3>2, <2>2, <2>3
      <4>2. QED
        BY <3>2, <4>1, <1>3, <2>2, <2>3
    <3>3. QED
      BY <3>1, <3>2, <2>2, <2>3
  <2>5. /\ result'.speech = s /\ result'.started /\ ~result'.ended /\ ~result'.cancelled
        /\ ~result'.maybeEnded /\ ~result'.restarted
    BY <2>1 DEF NoResult
  <2>6. CallsFor(result') = <<"start", "feed">>
    BY <2>3, <2>5, <1>3, CallsOfOnset
  <2>8. QED
    BY <1>1, <1>3, <2>1, <2>3, <2>4, <2>5, <2>6 DEF Between
<1>8. CASE Continue(p)
  <2>1. /\ result'.speech = <<clock + 1>> /\ ~result'.started
        /\ ~result'.ended /\ ~result'.restarted
        /\ inSpeech /\ inSpeech' /\ utteranceFrames' = utteranceFrames + 1
    BY <1>8 DEF Continue, Speaking, NoResult
  <2>2. FeedThen(calls', EngineCalls) /\ Tail(calls') \in Seq(Quiet)
    BY <1>1, <1>3, <2>1, CallsOfFrame, SMTT(30)
  <2>3. Len(result'.speech) = 1 /\ Runs(result'.speech, clock')
    BY <1>3, <2>1 DEF Runs
  <2>4. Runs(fed', clock' - 1)
    BY <1>1, <1>3, <2>1 DEF Together
  <2>5. Len(fed') + 1 = utteranceFrames' /\ inUtterance'
    BY <1>1, <1>3, <2>1 DEF Together
  <2>6. FeedIsDue'
    BY <2>1, <2>3, <2>4, <2>5 DEF FeedIsDue
  <2>7. QED
    BY <2>2, <2>6 DEF Between
<1>9. CASE EndOnSilence(p)
  <2>1. /\ result'.speech = <<clock + 1>> /\ ~result'.started
        /\ result'.ended /\ ~result'.restarted /\ ~inSpeech'
    BY <1>9 DEF EndOnSilence, Ended, Speaking, NoResult
  <2>a. result'.speech # <<>>
    BY <2>1
  <2>2. FeedThen(calls', EngineCalls) /\ Ending(Tail(calls'))
    BY <1>1, <1>3, <2>1, <2>a, CallsOfFrame, Zenon
  <2>3. QED
    BY <2>1, <2>2 DEF Between, Ending
<1>10. CASE Rollover(p)
  <2>1. /\ result'.speech = <<clock + 1>> /\ ~result'.started /\ result'.restarted
        /\ inSpeech' /\ utteranceFrames' = 0
    BY <1>10 DEF Rollover, ClearUtterance, Ended, Speaking, NoResult
  <2>a. result'.speech # <<>>
    BY <2>1
  <2>2. FeedThen(calls', EngineCalls) /\ Rolling(Tail(calls'))
    BY <1>1, <1>3, <2>1, <2>a, CallsOfFrame, Zenon
  <2>3. QED
    BY <2>1, <2>2 DEF Between, Rolling
<1>11. QED
  BY <1>2, <1>5, <1>6, <1>8, <1>9, <1>10 DEF Process

\* A call to the engine.
LEMMA CallStep ==
    ASSUME GateInv, LoopInv, ~stopped,
           CallStart \/ CallFeed \/ CallCancel \/ CallSpeculate \/ CallFinalize
    PROVE  LoopInv'
<1>1. /\ calls # <<>> /\ calls' = Tail(calls) /\ phase = "idle" /\ stopped' = stopped
      /\ UNCHANGED <<inSpeech, utteranceFrames, clock, result>>
  BY DEF CallStart, CallFeed, CallCancel, CallSpeculate, CallFinalize, Call, gateVars, gateState,
         StartUtterance, Feed, CancelSpeculation, SpeculateFinal, Finalize
<1>2. result.speech \in Seq(Nat) /\ fed \in Seq(Nat) /\ inUtterance \in BOOLEAN
      /\ clock \in Nat /\ Between /\ stopped \in BOOLEAN
  BY GateAssumption DEF GateInv, GateTypeOK, GateResult, LoopInv
<1>3. CASE CallStart
  <2>1. Head(calls) = "start" /\ inUtterance' = TRUE /\ fed' = <<>>
    BY <1>3 DEF CallStart, Call, StartUtterance
  <2>2. fed' \in Seq(Nat) /\ Len(fed') = 0 /\ \A e : Runs(fed', e)
    BY <2>1 DEF Runs
  <2>3. CASE Rolling(calls) /\ Tail(calls) = <<>> /\ inSpeech /\ utteranceFrames = 0
    <3>1. Together'
      BY <1>1, <2>1, <2>2, <2>3 DEF Together
    <3>2. calls' \in Seq(Quiet)
      BY <1>1, <2>3, EmptySeq
    <3>3. QED
      BY <1>1, <1>2, <2>1, <2>2, <3>1, <3>2 DEF LoopInv, Between
  <2>4. CASE /\ calls = <<"start", "feed">> /\ inSpeech
             /\ Runs(result.speech, clock)
             /\ Len(result.speech) = utteranceFrames
    <3>1. calls' = <<"feed">>
      BY <1>1, <2>4
    <3>2. FeedThen(calls', EngineCalls) /\ Tail(calls') \in Seq(Quiet)
      BY <3>1 DEF FeedThen, EngineCalls
    <3>3. FeedIsDue'
      BY <1>1, <1>2, <2>1, <2>2, <2>4 DEF FeedIsDue
    <3>4. QED
      BY <1>1, <1>2, <2>1, <2>2, <3>2, <3>3 DEF LoopInv, Between
  <2>5. QED
    BY <1>1, <1>2, <2>1, <2>3, <2>4, HeadTells
<1>4. CASE CallFeed
  <2>1. /\ Head(calls) = "feed" /\ inUtterance' = inUtterance
        /\ fed' = IF inUtterance THEN fed \o result.speech ELSE fed
    BY <1>4 DEF CallFeed, Call, Feed
  <2>2. fed' \in Seq(Nat)
    BY <1>2, <2>1, ConcatProperties
  <2>3. CASE Tail(calls) \in Seq(Quiet) /\ FeedIsDue
    <3>1. fed' = fed \o result.speech
      BY <2>1, <2>3 DEF FeedIsDue
    <3>2. Len(fed') = Len(fed) + Len(result.speech) /\ Runs(fed', clock)
      BY <1>2, <2>3, <3>1, RunsOn DEF FeedIsDue
    <3>3. Together'
      BY <1>1, <2>1, <2>3, <3>2 DEF Together, FeedIsDue
    <3>4. QED
      BY <1>1, <1>2, <2>1, <2>2, <2>3, <3>3 DEF LoopInv, Between
  <2>4. CASE \/ Ending(Tail(calls)) /\ ~inSpeech
             \/ Rolling(Tail(calls)) /\ inSpeech /\ utteranceFrames = 0
    BY <1>1, <1>2, <2>1, <2>2, <2>4 DEF LoopInv, Between, Ending, Rolling
  <2>5. QED
    BY <1>1, <1>2, <2>1, <2>3, <2>4, HeadTells
<1>5. CASE CallCancel \/ CallSpeculate
  <2>1. Head(calls) \in Quiet /\ inUtterance' = inUtterance /\ fed' = fed
    BY <1>5 DEF CallCancel, CallSpeculate, Call, CancelSpeculation, SpeculateFinal, Quiet
  <2>2. Together => Together'
    BY <1>1, <2>1 DEF Together, Runs
  <2>3. \/ calls' \in Seq(Quiet) /\ Together'
        \/ Ending(calls') /\ ~inSpeech'
        \/ Rolling(calls') /\ inSpeech' /\ utteranceFrames' = 0
    BY <1>1, <1>2, <2>1, <2>2, HeadTells
  <2>4. QED
    BY <1>1, <1>2, <2>1, <2>3 DEF LoopInv, Between, Ending, Rolling
<1>6. CASE CallFinalize
  <2>1. Head(calls) = "finalize" /\ inUtterance' = FALSE /\ fed' = fed
    BY <1>2, <1>6 DEF CallFinalize, Call, Finalize
  <2>2. CASE Tail(calls) = <<>> /\ ~inSpeech
    <3>1. calls' \in Seq(Quiet) /\ Together'
      BY <1>1, <2>1, <2>2, EmptySeq DEF Together
    <3>2. QED
      BY <1>1, <1>2, <2>1, <3>1 DEF LoopInv, Between
  <2>3. CASE Rolling(Tail(calls)) /\ inSpeech /\ utteranceFrames = 0
    BY <1>1, <1>2, <2>1, <2>3 DEF LoopInv, Between, Rolling
  <2>4. QED
    BY <1>1, <1>2, <2>1, <2>2, <2>3, HeadTells
<1>7. QED
  BY <1>3, <1>4, <1>5, <1>6

\* Everything else leaves gate and engine where they are.
LEMMA OtherStep ==
    ASSUME LoopInv, CallTick \/ Waiting \/ Decoding \/ Done \/ UNCHANGED vars
    PROVE  LoopInv'
<1>1. UNCHANGED <<inSpeech, utteranceFrames, clock, result, calls, stopped, inUtterance, fed>>
  <2>1. CASE CallTick
    BY <2>1 DEF CallTick, Tick, gateVars, gateState, loopVars
  <2>2. CASE Waiting
    BY <2>2 DEF Waiting, FinalizeWait, DrainWait, SpeculativeWait, FreshWait,
                gateVars, gateState, loopVars
  <2>3. CASE Decoding
    BY <2>3 DEF Decoding, FinishDecode, gateVars, gateState, loopVars
  <2>4. CASE Done \/ UNCHANGED vars
    BY <2>4 DEF Done, vars, gateVars, gateState, loopVars, sessionVars
  <2>5. QED
    BY <2>1, <2>2, <2>3, <2>4
<1>2. QED
  BY <1>1 DEF LoopInv, Between, Together, FeedIsDue, Runs

LEMMA LoopInvariance == Spec => []LoopInv
<1>1. Init => LoopInv
  <2> SUFFICES ASSUME Init PROVE LoopInv
    OBVIOUS
  <2>1. calls = <<>> /\ inSpeech = FALSE /\ inUtterance = FALSE /\ fed = <<>> /\ stopped = FALSE
    BY DEF Init, GateInit, SessionInit
  <2>2. calls \in Seq(Quiet) /\ fed \in Seq(Nat) /\ Together
    BY <2>1, EmptySeq DEF Together
  <2>3. QED
    BY <2>1, <2>2 DEF LoopInv, Between
<1>2. GateInv /\ GateInv' /\ LoopInv /\ [Next]_vars => LoopInv'
  <2> SUFFICES ASSUME GateInv, GateInv', LoopInv, [Next]_vars PROVE LoopInv'
    OBVIOUS
  <2>1. CASE NextFrame
    BY <2>1, FrameStep DEF NextFrame
  <2>2. CASE CallStart \/ CallFeed \/ CallCancel \/ CallSpeculate \/ CallFinalize
    <3>1. CASE ~stopped
      BY <2>2, <3>1, CallStep
    <3>2. CASE stopped
      <4>1. stopped' = stopped
        BY <2>2 DEF CallStart, CallFeed, CallCancel, CallSpeculate, CallFinalize, Call
      <4>2. result.speech \in Seq(Nat) /\ fed \in Seq(Nat) /\ inUtterance \in BOOLEAN
        BY DEF GateInv, GateTypeOK, GateResult, LoopInv
      <4>3. inUtterance' \in BOOLEAN
        BY <2>2, <4>2 DEF CallStart, CallFeed, CallCancel, CallSpeculate, CallFinalize, Call,
             StartUtterance, Feed, CancelSpeculation, SpeculateFinal, Finalize
      <4>4. \/ fed' = fed \/ fed' = <<>> \/ fed' = fed \o result.speech
        BY <2>2 DEF CallStart, CallFeed, CallCancel, CallSpeculate, CallFinalize, Call,
             StartUtterance, Feed, CancelSpeculation, SpeculateFinal, Finalize
      <4>5. fed' \in Seq(Nat)
        <5>1. fed \o result.speech \in Seq(Nat) /\ <<>> \in Seq(Nat)
          BY <4>2, ConcatProperties, EmptySeq
        <5>2. QED
          BY <4>2, <4>4, <5>1
      <4>6. QED
        BY <3>2, <4>1, <4>3, <4>5 DEF LoopInv
    <3>3. QED
      BY <3>1, <3>2
  <2>3. CASE CallTick \/ Waiting \/ Decoding \/ Done \/ UNCHANGED vars
    BY <2>3, OtherStep
  <2>4. CASE StopLoop \/ LoopFails
    BY <2>4 DEF StopLoop, LoopFails, LoopInv, sessionVars
  <2>5. QED
    BY <2>1, <2>2, <2>3, <2>4 DEF Next
<1>3. QED
  BY <1>1, <1>2, GateInSession, PTL DEF Spec

\* Between two frames the engine is in an utterance exactly when the gate is, and
\* has every frame of it up to now: whatever the thresholds, and whatever became
\* of the decodes.
THEOREM SessionKeepsInStep == Spec => []GateAndEngineAgree
<1>1. LoopInv => GateAndEngineAgree
  <2> SUFFICES ASSUME LoopInv, Ready, ~stopped PROVE
          /\ inUtterance <=> inSpeech
          /\ inUtterance => /\ Len(fed) = utteranceFrames
                            /\ \A i \in DOMAIN fed : fed[i] = clock - Len(fed) + i
    BY DEF GateAndEngineAgree
  <2>1. calls = <<>>
    BY DEF Ready
  <2>2. ~Ending(calls) /\ ~Rolling(calls) /\ ~FeedThen(calls, EngineCalls)
        /\ calls # <<"start", "feed">>
    BY <2>1 DEF Ending, Rolling, LeadTo, FeedThen
  <2>3. Together /\ DOMAIN fed = 1..Len(fed)
    BY <2>1, <2>2 DEF LoopInv, Between
  <2>4. QED
    BY <2>3 DEF Together, Runs
<1>2. QED
  BY <1>1, LoopInvariance, PTL

\* What is proved of the gate holds in a session: no word is clipped, an announced
\* end covers all the speech, an utterance ends in silence or at the cap, and no
\* frame is handed out twice or left out.
THEOREM SessionGate ==
    Spec => /\ [](GateTypeOK /\ OnsetNotClipped /\ SpeculationCoversSpeech /\ EndsBySilenceOrCap)
            /\ DeliveredInOrder
<1>1. GateInv => GateTypeOK /\ OnsetNotClipped /\ SpeculationCoversSpeech /\ EndsBySilenceOrCap
  BY DEF GateInv, EndsBySilenceOrCap
<1>2. QED
  BY <1>1, GateInSession, LoopIsGate, FramesAreDeliveredInOrder, PTL

-----------------------------------------------------------------------------
(* The calls a frame still has due.                                        *)

\* The calls as flags, each call in its turn.
DueCalls == [start: BOOLEAN, feed: BOOLEAN, cancel: BOOLEAN, speculate: BOOLEAN,
             finalize: BOOLEAN, again: BOOLEAN]

NoneDue == [start |-> FALSE, feed |-> FALSE, cancel |-> FALSE, speculate |-> FALSE,
            finalize |-> FALSE, again |-> FALSE]

DueFor(r) == [start |-> r.started, feed |-> r.speech # <<>>, cancel |-> r.cancelled,
              speculate |-> r.maybeEnded, finalize |-> r.ended, again |-> r.restarted]

\* The calls that are due, in the order of the loop's body.
Again(d) == If(d.again, "start")

FromFinalize(d) == If(d.finalize, "finalize") \o Again(d)

FromSpeculate(d) == If(d.speculate, "speculate") \o FromFinalize(d)

FromCancel(d) == If(d.cancel, "cancel") \o FromSpeculate(d)

FromFeed(d) == If(d.feed, "feed") \o FromCancel(d)

CallsDue(d) == If(d.start, "start") \o FromFeed(d)

\* A call, or none.
LEMMA IfIsCall ==
    ASSUME NEW flag \in BOOLEAN, NEW call \in EngineCalls, NEW rest \in Seq(EngineCalls)
    PROVE  /\ If(flag, call) \in Seq(EngineCalls)
           /\ If(flag, call) \o rest \in Seq(EngineCalls)
           /\ flag => /\ If(flag, call) \o rest # <<>>
                      /\ Head(If(flag, call) \o rest) = call
                      /\ Tail(If(flag, call) \o rest) = rest
<1>1. CASE flag
  <2> DEFINE one == <<call>>
             all == one \o rest
  <2>1. If(flag, call) = one
    BY <1>1 DEF If
  <2>2. one \in Seq(EngineCalls) /\ Len(one) = 1 /\ one[1] = call
    OBVIOUS
  <2> HIDE DEF one
  <2>3. /\ all \in Seq(EngineCalls) /\ Len(all) = 1 + Len(rest) /\ Len(rest) \in Nat
        /\ \A i \in 1..(1 + Len(rest)) : all[i] = IF i <= 1 THEN one[1] ELSE rest[i - 1]
    <3>1. /\ all \in Seq(EngineCalls) /\ Len(all) = Len(one) + Len(rest)
          /\ \A i \in 1..(Len(one) + Len(rest)) :
                all[i] = IF i <= Len(one) THEN one[i] ELSE rest[i - Len(one)]
      BY <2>2, ConcatProperties
    <3>2. Len(rest) \in Nat
      BY LenProperties
    <3> HIDE DEF all
    <3>3. QED
      BY <2>2, <3>1, <3>2
  <2> HIDE DEF all
  <2>4. all # <<>> /\ Head(all) = call
    <3>1. all # <<>>
      BY <2>3, EmptySeq
    <3>2. QED
      BY <2>2, <2>3, <3>1
  <2>5. Tail(all) = rest
    <3>1. /\ Tail(all) \in Seq(EngineCalls) /\ Len(Tail(all)) = Len(rest)
          /\ \A i \in 1..Len(rest) : Tail(all)[i] = all[i + 1]
      BY <2>3, <2>4, HeadTailProperties
    <3>2. \A i \in 1..Len(rest) : Tail(all)[i] = rest[i]
      BY <2>3, <3>1
    <3>3. QED
      BY <3>1, <3>2, SeqEqual
  <2>6. QED
    BY <1>1, <2>1, <2>2, <2>3, <2>4, <2>5 DEF all
<1>2. CASE ~flag
  <2>1. If(flag, call) = <<>> /\ <<>> \in Seq(EngineCalls)
    BY <1>2, EmptySeq DEF If
  <2>2. <<>> \o rest = rest
    BY ConcatEmptySeq
  <2>3. QED
    BY <1>2, <2>1, <2>2
<1>3. QED
  BY <1>1, <1>2

LEMMA CallsDueType ==
    ASSUME NEW d \in DueCalls
    PROVE  /\ Again(d) \in Seq(EngineCalls) /\ FromFinalize(d) \in Seq(EngineCalls)
           /\ FromSpeculate(d) \in Seq(EngineCalls) /\ FromCancel(d) \in Seq(EngineCalls)
           /\ FromFeed(d) \in Seq(EngineCalls) /\ CallsDue(d) \in Seq(EngineCalls)
<1>1. /\ d.start \in BOOLEAN /\ d.feed \in BOOLEAN /\ d.cancel \in BOOLEAN
      /\ d.speculate \in BOOLEAN /\ d.finalize \in BOOLEAN /\ d.again \in BOOLEAN
      /\ "start" \in EngineCalls /\ "feed" \in EngineCalls /\ "cancel" \in EngineCalls
      /\ "speculate" \in EngineCalls /\ "finalize" \in EngineCalls
      /\ <<>> \in Seq(EngineCalls)
  BY EmptySeq DEF DueCalls, EngineCalls
<1>2. Again(d) \in Seq(EngineCalls)
  BY <1>1, IfIsCall DEF Again
<1>3. FromFinalize(d) \in Seq(EngineCalls)
  BY <1>1, <1>2, IfIsCall DEF FromFinalize
<1>4. FromSpeculate(d) \in Seq(EngineCalls)
  BY <1>1, <1>3, IfIsCall DEF FromSpeculate
<1>5. FromCancel(d) \in Seq(EngineCalls)
  BY <1>1, <1>4, IfIsCall DEF FromCancel
<1>6. FromFeed(d) \in Seq(EngineCalls)
  BY <1>1, <1>5, IfIsCall DEF FromFeed
<1>7. CallsDue(d) \in Seq(EngineCalls)
  BY <1>1, <1>6, IfIsCall DEF CallsDue
<1>8. QED
  BY <1>2, <1>3, <1>4, <1>5, <1>6, <1>7

\* The calls for a result are those due for it.
LEMMA CallsForIsDue ==
    ASSUME NEW r \in GateResult
    PROVE  DueFor(r) \in DueCalls /\ CallsFor(r) = CallsDue(DueFor(r))
<1> DEFINE d == DueFor(r)
           a == If(d.start, "start")
           b == If(d.feed, "feed")
           c == If(d.cancel, "cancel")
           e == If(d.speculate, "speculate")
           f == If(d.finalize, "finalize")
           g == If(d.again, "start")
<1>1. d \in DueCalls
  BY DEF DueFor, DueCalls, GateResult
<1>2. CallsFor(r) = ((((a \o b) \o c) \o e) \o f) \o g
  BY DEF CallsFor, DueFor
<1>3. /\ a \in Seq(EngineCalls) /\ b \in Seq(EngineCalls) /\ c \in Seq(EngineCalls)
      /\ e \in Seq(EngineCalls) /\ f \in Seq(EngineCalls) /\ g \in Seq(EngineCalls)
  <2>1. /\ d.start \in BOOLEAN /\ d.feed \in BOOLEAN /\ d.cancel \in BOOLEAN
        /\ d.speculate \in BOOLEAN /\ d.finalize \in BOOLEAN /\ d.again \in BOOLEAN
        /\ "start" \in EngineCalls /\ "feed" \in EngineCalls /\ "cancel" \in EngineCalls
        /\ "speculate" \in EngineCalls /\ "finalize" \in EngineCalls
        /\ <<>> \in Seq(EngineCalls)
    BY <1>1, EmptySeq DEF DueCalls, EngineCalls
  <2>2. QED
    BY <2>1, IfIsCall
<1>4. CallsDue(d) = a \o (b \o (c \o (e \o (f \o g))))
  BY DEF CallsDue, FromFeed, FromCancel, FromSpeculate, FromFinalize, Again
<1> HIDE DEF a, b, c, e, f, g, d
<1>5. ((((a \o b) \o c) \o e) \o f) \o g = a \o (b \o (c \o (e \o (f \o g))))
  <2> DEFINE ab == a \o b
             abc == ab \o c
             abce == abc \o e
             fg == f \o g
             efg == e \o fg
             cefg == c \o efg
  <2>1. ab \in Seq(EngineCalls) /\ fg \in Seq(EngineCalls)
    BY <1>3, ConcatProperties
  <2>2. abc \in Seq(EngineCalls) /\ efg \in Seq(EngineCalls)
    <3> HIDE DEF ab, fg
    <3>1. QED
      BY <1>3, <2>1, ConcatProperties
  <2>3. abce \in Seq(EngineCalls) /\ cefg \in Seq(EngineCalls)
    <3> HIDE DEF abc, efg
    <3>1. QED
      BY <1>3, <2>2, ConcatProperties
  <2>4. ab \o cefg = a \o (b \o cefg)
    <3> HIDE DEF cefg
    <3>1. QED
      BY <1>3, <2>3, ConcatAssociative, SMTT(60)
  <2>5. abc \o efg = ab \o cefg
    <3> HIDE DEF ab, efg
    <3>1. QED
      BY <1>3, <2>1, <2>2, ConcatAssociative, SMTT(60)
  <2>6. abce \o fg = abc \o efg
    <3> HIDE DEF abc, fg
    <3>1. QED
      BY <1>3, <2>1, <2>2, ConcatAssociative, SMTT(60)
  <2>7. (abce \o f) \o g = abce \o fg
    <3> HIDE DEF abce
    <3>1. QED
      BY <1>3, <2>3, ConcatAssociative, SMTT(60)
  <2>8. QED
    BY <2>4, <2>5, <2>6, <2>7, Zenon
<1>6. QED
  BY <1>1, <1>2, <1>4, <1>5, Zenon DEF d

\* What is not due is skipped.
LEMMA Skips ==
    ASSUME NEW d \in DueCalls
    PROVE  /\ d.start = FALSE => CallsDue(d) = FromFeed(d)
           /\ d.feed = FALSE => FromFeed(d) = FromCancel(d)
           /\ d.cancel = FALSE => FromCancel(d) = FromSpeculate(d)
           /\ d.speculate = FALSE => FromSpeculate(d) = FromFinalize(d)
           /\ d.finalize = FALSE => FromFinalize(d) = Again(d)
           /\ d.again = FALSE => Again(d) = <<>>
<1>1. ASSUME NEW rest \in Seq(EngineCalls) PROVE <<>> \o rest = rest
  BY ConcatEmptySeq
<1>2. ASSUME d.start = FALSE PROVE CallsDue(d) = FromFeed(d)
  <2>1. If(d.start, "start") = <<>>
    BY <1>2 DEF If
  <2>2. <<>> \o FromFeed(d) = FromFeed(d)
    BY <1>1, CallsDueType
  <2>3. QED
    BY <2>1, <2>2, Zenon DEF CallsDue
<1>3. ASSUME d.feed = FALSE PROVE FromFeed(d) = FromCancel(d)
  <2>1. If(d.feed, "feed") = <<>>
    BY <1>3 DEF If
  <2>2. <<>> \o FromCancel(d) = FromCancel(d)
    BY <1>1, CallsDueType
  <2>3. QED
    BY <2>1, <2>2, Zenon DEF FromFeed
<1>4. ASSUME d.cancel = FALSE PROVE FromCancel(d) = FromSpeculate(d)
  <2>1. If(d.cancel, "cancel") = <<>>
    BY <1>4 DEF If
  <2>2. <<>> \o FromSpeculate(d) = FromSpeculate(d)
    BY <1>1, CallsDueType
  <2>3. QED
    BY <2>1, <2>2, Zenon DEF FromCancel
<1>5. ASSUME d.speculate = FALSE PROVE FromSpeculate(d) = FromFinalize(d)
  <2>1. If(d.speculate, "speculate") = <<>>
    BY <1>5 DEF If
  <2>2. <<>> \o FromFinalize(d) = FromFinalize(d)
    BY <1>1, CallsDueType
  <2>3. QED
    BY <2>1, <2>2, Zenon DEF FromSpeculate
<1>6. ASSUME d.finalize = FALSE PROVE FromFinalize(d) = Again(d)
  <2>1. If(d.finalize, "finalize") = <<>>
    BY <1>6 DEF If
  <2>2. <<>> \o Again(d) = Again(d)
    BY <1>1, CallsDueType
  <2>3. QED
    BY <2>1, <2>2, Zenon DEF FromFinalize
<1>7. ASSUME d.again = FALSE PROVE Again(d) = <<>>
  BY <1>7 DEF Again, If
<1>8. QED
  BY <1>2, <1>3, <1>4, <1>5, <1>6, <1>7

\* The first call that is due, and what is due after it.
LEMMA NextDue ==
    ASSUME NEW d \in DueCalls
    PROVE  \/ d = NoneDue /\ CallsDue(d) = <<>>
           \/ /\ CallsDue(d) # <<>> /\ Head(CallsDue(d)) = "start" /\ d.start
              /\ Tail(CallsDue(d)) = CallsDue([d EXCEPT !.start = FALSE])
           \/ /\ CallsDue(d) # <<>> /\ Head(CallsDue(d)) = "feed" /\ d.feed /\ ~d.start
              /\ Tail(CallsDue(d)) = CallsDue([d EXCEPT !.feed = FALSE])
           \/ /\ CallsDue(d) # <<>> /\ Head(CallsDue(d)) = "cancel" /\ d.cancel /\ ~d.start /\ ~d.feed
              /\ Tail(CallsDue(d)) = CallsDue([d EXCEPT !.cancel = FALSE])
           \/ /\ CallsDue(d) # <<>> /\ Head(CallsDue(d)) = "speculate"
              /\ d.speculate /\ ~d.start /\ ~d.feed /\ ~d.cancel
              /\ Tail(CallsDue(d)) = CallsDue([d EXCEPT !.speculate = FALSE])
           \/ /\ CallsDue(d) # <<>> /\ Head(CallsDue(d)) = "finalize"
              /\ d.finalize /\ ~d.start /\ ~d.feed /\ ~d.cancel /\ ~d.speculate
              /\ Tail(CallsDue(d)) = CallsDue([d EXCEPT !.finalize = FALSE])
           \/ /\ CallsDue(d) # <<>> /\ Head(CallsDue(d)) = "start"
              /\ d.again /\ ~d.start /\ ~d.feed /\ ~d.cancel /\ ~d.speculate /\ ~d.finalize
              /\ Tail(CallsDue(d)) = CallsDue([d EXCEPT !.again = FALSE])
<1>1. /\ d.start \in BOOLEAN /\ d.feed \in BOOLEAN /\ d.cancel \in BOOLEAN
      /\ d.speculate \in BOOLEAN /\ d.finalize \in BOOLEAN /\ d.again \in BOOLEAN
      /\ "start" \in EngineCalls /\ "feed" \in EngineCalls /\ "cancel" \in EngineCalls
      /\ "speculate" \in EngineCalls /\ "finalize" \in EngineCalls
  BY DEF DueCalls, EngineCalls
<1>2. /\ Again(d) \in Seq(EngineCalls) /\ FromFinalize(d) \in Seq(EngineCalls)
      /\ FromSpeculate(d) \in Seq(EngineCalls) /\ FromCancel(d) \in Seq(EngineCalls)
      /\ FromFeed(d) \in Seq(EngineCalls)
  BY CallsDueType
<1>3. CASE d.start
  <2> DEFINE e == [d EXCEPT !.start = FALSE]
  <2>1. /\ e.start = FALSE /\ e.feed = d.feed /\ e.cancel = d.cancel
        /\ e.speculate = d.speculate /\ e.finalize = d.finalize /\ e.again = d.again /\ e \in DueCalls
    BY <1>1 DEF DueCalls
  <2> HIDE DEF e
  <2>2. FromFeed(e) = FromFeed(d)
    BY <2>1 DEF FromFeed, FromCancel, FromSpeculate, FromFinalize, Again
  <2>3. CallsDue(e) = FromFeed(d)
    BY <2>1, <2>2, Skips
  <2>4. /\ CallsDue(d) # <<>> /\ Head(CallsDue(d)) = "start"
        /\ Tail(CallsDue(d)) = FromFeed(d)
    BY <1>1, <1>2, <1>3, IfIsCall DEF CallsDue
  <2>5. QED
    BY <1>3, <2>3, <2>4 DEF e
<1>4. ASSUME d.start = FALSE PROVE CallsDue(d) = FromFeed(d)
  BY <1>4, Skips
<1>5. CASE d.start = FALSE /\ d.feed
  <2> DEFINE e == [d EXCEPT !.feed = FALSE]
  <2>1. /\ e.start = FALSE /\ e.feed = FALSE /\ e.cancel = d.cancel
        /\ e.speculate = d.speculate /\ e.finalize = d.finalize /\ e.again = d.again /\ e \in DueCalls
    BY <1>1, <1>5 DEF DueCalls
  <2> HIDE DEF e
  <2>2. FromCancel(e) = FromCancel(d)
    BY <2>1 DEF FromCancel, FromSpeculate, FromFinalize, Again
  <2>3. CallsDue(e) = FromCancel(d)
    <3>1. FromFeed(e) = FromCancel(d)
      BY <2>1, <2>2, Skips
    <3>2. QED
      BY <2>1, <3>1, Skips
  <2>4. /\ FromFeed(d) # <<>> /\ Head(FromFeed(d)) = "feed"
        /\ Tail(FromFeed(d)) = FromCancel(d)
    BY <1>1, <1>2, <1>5, IfIsCall DEF FromFeed
  <2>5. QED
    BY <1>4, <1>5, <2>3, <2>4 DEF e
<1>6. ASSUME d.start = FALSE, d.feed = FALSE PROVE CallsDue(d) = FromCancel(d)
  <2>1. FromFeed(d) = FromCancel(d)
    BY <1>6, Skips
  <2>2. QED
    BY <1>4, <1>6, <2>1
<1>7. CASE d.start = FALSE /\ d.feed = FALSE /\ d.cancel
  <2> DEFINE e == [d EXCEPT !.cancel = FALSE]
  <2>1. /\ e.start = FALSE /\ e.feed = FALSE /\ e.cancel = FALSE
        /\ e.speculate = d.speculate /\ e.finalize = d.finalize /\ e.again = d.again /\ e \in DueCalls
    BY <1>1, <1>7 DEF DueCalls
  <2> HIDE DEF e
  <2>2. FromSpeculate(e) = FromSpeculate(d)
    BY <2>1 DEF FromSpeculate, FromFinalize, Again
  <2>3. CallsDue(e) = FromSpeculate(d)
    <3>1. FromCancel(e) = FromSpeculate(d)
      BY <2>1, <2>2, Skips
    <3>2. FromFeed(e) = FromSpeculate(d)
      BY <2>1, <3>1, Skips
    <3>3. QED
      BY <2>1, <3>2, Skips
  <2>4. /\ FromCancel(d) # <<>> /\ Head(FromCancel(d)) = "cancel"
        /\ Tail(FromCancel(d)) = FromSpeculate(d)
    BY <1>1, <1>2, <1>7, IfIsCall DEF FromCancel
  <2>5. QED
    BY <1>6, <1>7, <2>3, <2>4 DEF e
<1>8. ASSUME d.start = FALSE, d.feed = FALSE, d.cancel = FALSE PROVE CallsDue(d) = FromSpeculate(d)
  <2>1. FromCancel(d) = FromSpeculate(d)
    BY <1>8, Skips
  <2>2. QED
    BY <1>6, <1>8, <2>1
<1>9. CASE d.start = FALSE /\ d.feed = FALSE /\ d.cancel = FALSE /\ d.speculate
  <2> DEFINE e == [d EXCEPT !.speculate = FALSE]
  <2>1. /\ e.start = FALSE /\ e.feed = FALSE /\ e.cancel = FALSE
        /\ e.speculate = FALSE /\ e.finalize = d.finalize /\ e.again = d.again /\ e \in DueCalls
    BY <1>1, <1>9 DEF DueCalls
  <2> HIDE DEF e
  <2>2. FromFinalize(e) = FromFinalize(d)
    BY <2>1 DEF FromFinalize, Again
  <2>3. CallsDue(e) = FromFinalize(d)
    <3>1. FromSpeculate(e) = FromFinalize(d)
      BY <2>1, <2>2, Skips
    <3>2. FromCancel(e) = FromFinalize(d)
      BY <2>1, <3>1, Skips
    <3>3. FromFeed(e) = FromFinalize(d)
      BY <2>1, <3>2, Skips
    <3>4. QED
      BY <2>1, <3>3, Skips
  <2>4. /\ FromSpeculate(d) # <<>> /\ Head(FromSpeculate(d)) = "speculate"
        /\ Tail(FromSpeculate(d)) = FromFinalize(d)
    BY <1>1, <1>2, <1>9, IfIsCall DEF FromSpeculate
  <2>5. QED
    BY <1>8, <1>9, <2>3, <2>4 DEF e
<1>10. ASSUME d.start = FALSE, d.feed = FALSE, d.cancel = FALSE, d.speculate = FALSE PROVE CallsDue(d) = FromFinalize(d)
  <2>1. FromSpeculate(d) = FromFinalize(d)
    BY <1>10, Skips
  <2>2. QED
    BY <1>8, <1>10, <2>1
<1>11. CASE d.start = FALSE /\ d.feed = FALSE /\ d.cancel = FALSE /\ d.speculate = FALSE /\ d.finalize
  <2> DEFINE e == [d EXCEPT !.finalize = FALSE]
  <2>1. /\ e.start = FALSE /\ e.feed = FALSE /\ e.cancel = FALSE
        /\ e.speculate = FALSE /\ e.finalize = FALSE /\ e.again = d.again /\ e \in DueCalls
    BY <1>1, <1>11 DEF DueCalls
  <2> HIDE DEF e
  <2>2. Again(e) = Again(d)
    BY <2>1 DEF Again
  <2>3. CallsDue(e) = Again(d)
    <3>0. FromFinalize(e) = Again(d)
      BY <2>1, <2>2, Skips
    <3>1. FromSpeculate(e) = Again(d)
      BY <2>1, <3>0, Skips
    <3>2. FromCancel(e) = Again(d)
      BY <2>1, <3>1, Skips
    <3>3. FromFeed(e) = Again(d)
      BY <2>1, <3>2, Skips
    <3>4. QED
      BY <2>1, <3>3, Skips
  <2>4. /\ FromFinalize(d) # <<>> /\ Head(FromFinalize(d)) = "finalize"
        /\ Tail(FromFinalize(d)) = Again(d)
    BY <1>1, <1>2, <1>11, IfIsCall DEF FromFinalize
  <2>5. QED
    BY <1>10, <1>11, <2>3, <2>4 DEF e
<1>12. ASSUME d.start = FALSE, d.feed = FALSE, d.cancel = FALSE, d.speculate = FALSE, d.finalize = FALSE
       PROVE  CallsDue(d) = Again(d)
  <2>1. FromFinalize(d) = Again(d)
    BY <1>12, Skips
  <2>2. QED
    BY <1>10, <1>12, <2>1
<1>13. CallsDue(NoneDue) = <<>>
  <2>1. /\ NoneDue \in DueCalls /\ NoneDue.start = FALSE /\ NoneDue.feed = FALSE /\ NoneDue.cancel = FALSE
        /\ NoneDue.speculate = FALSE /\ NoneDue.finalize = FALSE /\ NoneDue.again = FALSE
    BY DEF NoneDue, DueCalls
  <2>2. /\ If(NoneDue.start, "start") = <<>> /\ If(NoneDue.feed, "feed") = <<>>
        /\ If(NoneDue.cancel, "cancel") = <<>> /\ If(NoneDue.speculate, "speculate") = <<>>
        /\ If(NoneDue.finalize, "finalize") = <<>> /\ If(NoneDue.again, "start") = <<>>
    BY <2>1 DEF If
  <2>3. <<>> \in Seq(EngineCalls) /\ <<>> \o <<>> = <<>>
    BY EmptySeq, ConcatEmptySeq
  <2>4. QED
    BY <2>2, <2>3, Zenon DEF CallsDue, FromFeed, FromCancel, FromSpeculate, FromFinalize, Again
<1>14. CASE d.start = FALSE /\ d.feed = FALSE /\ d.cancel = FALSE /\ d.speculate = FALSE /\ d.finalize = FALSE /\ d.again
  <2> DEFINE e == [d EXCEPT !.again = FALSE]
  <2>1. e = NoneDue
    <3>1. /\ d.start = FALSE /\ d.feed = FALSE /\ d.cancel = FALSE /\ d.speculate = FALSE
          /\ d.finalize = FALSE
      BY <1>14
    <3>2. /\ e.start = FALSE /\ e.feed = FALSE /\ e.cancel = FALSE /\ e.speculate = FALSE
          /\ e.finalize = FALSE /\ e.again = FALSE /\ e \in DueCalls
      BY <3>1 DEF DueCalls
    <3> HIDE DEF e
    <3>3. e = [start |-> e.start, feed |-> e.feed, cancel |-> e.cancel, speculate |-> e.speculate,
               finalize |-> e.finalize, again |-> e.again]
      BY <3>2 DEF DueCalls
    <3>4. QED
      BY <3>2, <3>3 DEF NoneDue
  <2>2. CallsDue(d) = <<"start">>
    BY <1>12, <1>14 DEF Again, If
  <2>3. CallsDue(d) # <<>> /\ Head(CallsDue(d)) = "start" /\ Tail(CallsDue(d)) = <<>>
    BY <2>2
  <2>4. QED
    BY <1>13, <1>14, <2>1, <2>3
<1>15. CASE d.start = FALSE /\ d.feed = FALSE /\ d.cancel = FALSE /\ d.speculate = FALSE /\ d.finalize = FALSE /\ d.again = FALSE
  <2>1. d = NoneDue
    BY <1>1, <1>15 DEF DueCalls, NoneDue
  <2>2. QED
    BY <1>13, <2>1
<1>16. /\ d.start \/ d.start = FALSE
       /\ d.feed \/ d.feed = FALSE
       /\ d.cancel \/ d.cancel = FALSE
       /\ d.speculate \/ d.speculate = FALSE
       /\ d.finalize \/ d.finalize = FALSE
       /\ d.again \/ d.again = FALSE
  BY <1>1
<1>17. QED
  BY <1>3, <1>5, <1>7, <1>9, <1>11, <1>14, <1>15, <1>16, Zenon

-----------------------------------------------------------------------------
(* The engine's invariant.                                                 *)

\* The frames there have been.
Heard == 0..clock

\* A future is of the current utterance.
FutureOK(f) ==
    /\ f \in Futures
    /\ f.state = "none" => f = NoFuture
    /\ f # NoFuture => f.utt = utteranceId

\* What finalize() leaves for the record.
LastOf(K) ==
    [outcome: {"none", "final", "skipped", "failed"}, text: TextsOfWords,
     fed: Seq(K), faults: SUBSET Faults]

\* The types, on the frames there have been.
TypesInv ==
    /\ mode \in {"commit", "correcting"}
    /\ utteranceId \in Nat
    /\ inUtterance \in BOOLEAN
    /\ u \in UtterancesOf(Heard)
    /\ spoken \subseteq Heard
    /\ fed \in Seq(Heard)
    /\ result.speech \in Seq(Heard)
    /\ last \in LastOf(Heard)
    /\ pool \in Seq(Decodes(Heard))
    /\ FutureOK(inflight) /\ FutureOK(speculative) /\ FutureOK(fresh)

\* Which futures there are in which phase, and who owns what in the pool.
PhaseInv ==
    /\ phase \in {"idle", "drain", "speculative", "fresh"}
    /\ phase # "idle" => inUtterance = FALSE
    /\ (phase = "idle" /\ inUtterance = FALSE) =>
          u = FreshUtterance /\ inflight = NoFuture /\ speculative = NoFuture
    /\ phase \in {"idle", "drain"} => fresh = NoFuture
    /\ phase = "speculative" => inflight = NoFuture /\ speculative # NoFuture /\ fresh = NoFuture
    /\ phase = "fresh" => inflight = NoFuture /\ speculative = NoFuture /\ fresh # NoFuture
    /\ timeouts \in 0..3
    /\ phase = "drain" => timeouts = 0
    /\ phase = "speculative" => timeouts <= 1
    /\ phase = "fresh" => timeouts <= 2
    /\ Owns(inflight, pool, "inflight")
    /\ Owns(speculative, pool, "speculative")
    /\ Owns(fresh, pool, "fresh")

\* The open utterance is sound, and what the decode in flight brings belongs to
\* the beginning of its buffer.
TextAt(pre) ==
    /\ fed = pre \o u.buffer
    /\ Sound(spoken, u, pre, IF inflight = NoFuture THEN 0 ELSE MinNew)
    /\ inflight # NoFuture => u.firstDecode
    /\ \A a \in Audios(pool, "inflight") :
          Len(a) = u.decodedLen /\ \E more \in Seq(Heard) : u.buffer = a \o more
    /\ inflight.state = "done" =>
          /\ WordsOf(inflight.words, SaidOf(spoken, u.buffer))
          /\ \A i \in 1..Len(inflight.words) : SaidOf(spoken, u.buffer)[i].end <= u.decodedLen

\* An open utterance has some such beginning, unless a cut fell short.
TextInv ==
    ((inUtterance \/ phase # "idle") /\ "cut short" \notin u.faults)
        => \E pre \in Seq(Heard) : TextAt(pre)

\* The decode that finalize() submits is of the whole buffer.
FreshInv ==
    /\ \A a \in Audios(pool, "fresh") : a = u.buffer
    /\ fresh.state = "done" => fresh.words = SaidOf(spoken, u.buffer)

\* Where the calls of a frame have got to: an utterance is begun by a first call
\* or after the last one, and a speculation stands, is withdrawn or is used.
CallsInv(d) ==
    /\ d.start => /\ inUtterance = FALSE
                  /\ ~d.cancel /\ ~d.speculate /\ ~d.finalize /\ ~d.again
    /\ d.again => d.finalize \/ inUtterance = FALSE
    /\ phase # "idle" => ~d.start /\ ~d.feed /\ ~d.cancel /\ ~d.speculate /\ ~d.finalize
    /\ (d.speculate /\ inUtterance) => specFired \/ d.finalize
    /\ (speculative # NoFuture /\ inUtterance) => specFired \/ d.cancel \/ d.finalize

\* A speculation that is not about to be withdrawn has all that was said.
SpecInv(d) ==
    (speculative # NoFuture /\ "cut under speculation" \notin u.faults /\ ~d.cancel) =>
        /\ d.feed => Silent(result.speech, spoken)
        /\ \A a \in Audios(pool, "speculative") : SaidOf(spoken, a) = SaidOf(spoken, u.buffer)
        /\ speculative.state = "done" => speculative.words = SaidOf(spoken, u.buffer)

\* All of it, when the calls d are still due.
EngineInvAt(d) ==
    /\ TypesInv /\ PhaseInv /\ TextInv /\ FreshInv
    /\ AllDecoded /\ LossIsShort
    /\ calls = CallsDue(d) /\ CallsInv(d) /\ SpecInv(d)

EngineInv == \E d \in DueCalls : EngineInvAt(d)

-----------------------------------------------------------------------------
(* What steps leave alone.                                                 *)

\* How the next state has it.
LEMMA TextNext ==
    ASSUME mode' = mode, NEW pre \in Seq(Heard'), fed' = pre \o u'.buffer,
           Sound(spoken', u', pre, IF inflight' = NoFuture THEN 0 ELSE MinNew),
           inflight' # NoFuture => u'.firstDecode,
           \A a \in Audios(pool', "inflight") :
              Len(a) = u'.decodedLen /\ \E more \in Seq(Heard') : u'.buffer = a \o more,
           inflight'.state = "done" =>
              /\ WordsOf(inflight'.words, SaidOf(spoken', u'.buffer))
              /\ \A i \in 1..Len(inflight'.words) : SaidOf(spoken', u'.buffer)[i].end <= u'.decodedLen
    PROVE  TextInv'
<1>1. Sound(spoken, u, pre, IF inflight = NoFuture THEN 0 ELSE MinNew)'
  BY DEF Sound, Aligned, Decoded, Typed, Shows, NoFuture
<1>2. TextAt(pre)'
  BY <1>1 DEF TextAt, NoFuture
<1>3. QED
  BY <1>2 DEF TextInv

\* The utterance, the decodes of a future and the calls, left alone.
LEMMA TextSame ==
    ASSUME TextInv, mode' = mode, u' = u, fed' = fed, spoken' = spoken, clock' = clock,
           inflight' = inflight, Audios(pool', "inflight") = Audios(pool, "inflight"),
           (inUtterance' \/ phase' # "idle") => (inUtterance \/ phase # "idle")
    PROVE  TextInv'
<1> SUFFICES ASSUME (inUtterance \/ phase # "idle") /\ "cut short" \notin u.faults PROVE TextInv'
  BY DEF TextInv
<1>1. PICK pre \in Seq(Heard) : TextAt(pre)
  BY DEF TextInv
<1>2. Heard' = Heard
  BY DEF Heard
<1>3. QED
  BY <1>1, <1>2, TextNext DEF TextAt

LEMMA FreshSame ==
    ASSUME FreshInv, fresh' = fresh, u'.buffer = u.buffer, spoken' = spoken,
           Audios(pool', "fresh") = Audios(pool, "fresh")
    PROVE  FreshInv'
  BY DEF FreshInv

\* And what there is nothing to say of.
LEMMA NoFresh ==
    ASSUME PhaseInv', fresh' = NoFuture
    PROVE  FreshInv'
<1>1. fresh'.state = "none"
  BY DEF NoFuture
<1>2. Audios(pool', "fresh") = {}
  BY <1>1 DEF PhaseInv, Owns
<1>3. QED
  BY <1>1, <1>2 DEF FreshInv

LEMMA SpecSame ==
    ASSUME NEW d \in DueCalls, NEW e \in DueCalls, SpecInv(d), speculative' = speculative,
           u'.buffer = u.buffer, u.faults \subseteq u'.faults, spoken' = spoken,
           Audios(pool', "speculative") = Audios(pool, "speculative"),
           e.feed => d.feed /\ result' = result, d.cancel => e.cancel
    PROVE  SpecInv(e)'
  BY DEF SpecInv, NoFuture

LEMMA NoSpec ==
    ASSUME NEW e, speculative' = NoFuture
    PROVE  SpecInv(e)'
  BY DEF SpecInv, NoFuture

\* The record of the last utterance is left alone.
LEMMA LastSame ==
    ASSUME AllDecoded, LossIsShort, last' = last, spoken' = spoken, mode' = mode
    PROVE  AllDecoded' /\ LossIsShort'
<1>1. SpokenIn(last.fed)' = SpokenIn(last.fed)
  BY DEF SpokenIn, SpokenAt
<1>2. AllDecoded'
  BY <1>1 DEF AllDecoded
<1>3. LossIsShort'
  BY DEF LossIsShort
<1>4. QED
  BY <1>2, <1>3

\* Futures.
LEMMA Future ==
    /\ NoFuture.state = "none" /\ FutureOK(NoFuture)
    /\ utteranceId \in Nat => FutureOK(Running) /\ Running.state = "running" /\ Running # NoFuture
<1>1. <<>> \in Words
  BY EmptySeq DEF Words
<1>2. QED
  BY <1>1 DEF FutureOK, NoFuture, Running, Futures

\* Frames are numbers.
LEMMA HeardIsNat ==
    ASSUME GateInv
    PROVE  clock \in Nat /\ Heard \in SUBSET Nat
<1>1. clock \in Nat
  BY GateAssumption DEF GateInv, GateTypeOK
<1>2. QED
  BY <1>1 DEF Heard

\* The types of the next state, on the same frames.
LEMMA TypesNext ==
    ASSUME TypesInv, clock' = clock, result' = result, mode' = mode, spoken' = spoken,
           utteranceId' = utteranceId, inUtterance' \in BOOLEAN, u' \in UtterancesOf(Heard),
           fed' \in Seq(Heard), last' \in LastOf(Heard), pool' \in Seq(Decodes(Heard)),
           FutureOK(inflight'), FutureOK(speculative'), FutureOK(fresh')
    PROVE  TypesInv'
<1>1. Heard' = Heard
  BY DEF Heard
<1>2. FutureOK(inflight)' /\ FutureOK(speculative)' /\ FutureOK(fresh)'
  BY DEF FutureOK, NoFuture
<1>3. QED
  BY <1>1, <1>2 DEF TypesInv

\* The session begins in it.
LEMMA Initially == Init => EngineInv
<1> SUFFICES ASSUME Init PROVE EngineInv
  OBVIOUS
<1>1. /\ mode \in {"commit", "correcting"} /\ utteranceId = 0 /\ inUtterance = FALSE
      /\ u = FreshUtterance /\ inflight = NoFuture /\ speculative = NoFuture /\ fresh = NoFuture
      /\ pool = <<>> /\ phase = "idle" /\ spoken = {} /\ fed = <<>> /\ timeouts = 0
      /\ last = Nothing /\ calls = <<>> /\ clock = 0 /\ result = NoResult
  BY DEF Init, SessionInit, GateInit
<1>2. Heard \in SUBSET Nat
  BY <1>1 DEF Heard
<1>3. FreshUtterance \in UtterancesOf(Heard)
  BY <1>2, SoundFresh
<1>4. Nothing \in LastOf(Heard)
  <2>1. <<>> \in TextsOfWords /\ <<>> \in Seq(Heard)
    BY EmptySeq DEF TextsOfWords
  <2>2. QED
    BY <2>1 DEF Nothing, LastOf
<1>5. TypesInv
  <2>1. <<>> \in Seq(Heard) /\ <<>> \in Seq(Decodes(Heard)) /\ result.speech = <<>>
    BY <1>1, EmptySeq DEF NoResult
  <2>2. FutureOK(NoFuture)
    BY Future
  <2>3. QED
    BY <1>1, <1>3, <1>4, <2>1, <2>2 DEF TypesInv
<1>6. \A of : Audios(<<>>, of) = {} /\ Alone(<<>>, of)
  BY DEF Audios, Alone
<1>7. PhaseInv
  BY <1>1, <1>6, Future DEF PhaseInv, Owns
<1>8. TextInv
  BY <1>1 DEF TextInv
<1>9. FreshInv
  BY <1>1, <1>6, Future DEF FreshInv
<1>10. AllDecoded /\ LossIsShort
  BY <1>1 DEF AllDecoded, LossIsShort, Nothing
<1>11. NoneDue \in DueCalls /\ calls = CallsDue(NoneDue)
  <2>1. NoneDue \in DueCalls
    BY DEF NoneDue, DueCalls
  <2>2. CallsDue(NoneDue) = <<>>
    BY <2>1, NextDue DEF NoneDue
  <2>3. QED
    BY <1>1, <2>1, <2>2
<1>12. CallsInv(NoneDue) /\ SpecInv(NoneDue)
  BY <1>1 DEF CallsInv, SpecInv, NoneDue
<1>13. QED
  BY <1>5, <1>7, <1>8, <1>9, <1>10, <1>11, <1>12 DEF EngineInv, EngineInvAt

\* An utterance begins.
LEMMA StartKeeps ==
    ASSUME GateInv, NEW d \in DueCalls, EngineInvAt(d), CallStart
    PROVE  EngineInv'
<1>1. /\ phase = "idle" /\ calls # <<>> /\ Head(calls) = "start" /\ calls' = Tail(calls)
      /\ utteranceId' = utteranceId + 1 /\ inUtterance' = TRUE /\ u' = FreshUtterance
      /\ speculative' = NoFuture /\ pool' = Orphan(pool, "speculative") /\ fed' = <<>>
      /\ last' = Nothing /\ mode' = mode /\ inflight' = inflight /\ fresh' = fresh
      /\ phase' = phase /\ spoken' = spoken /\ timeouts' = timeouts
      /\ clock' = clock /\ result' = result /\ specFired' = specFired
  BY DEF CallStart, Call, StartUtterance, gateVars, gateState
<1>2. TypesInv /\ PhaseInv /\ CallsInv(d) /\ calls = CallsDue(d)
  BY DEF EngineInvAt
<1>3. PICK e \in DueCalls : /\ calls' = CallsDue(e) /\ inUtterance = FALSE
                            /\ ~e.start /\ ~e.cancel /\ ~e.speculate /\ ~e.finalize /\ ~e.again
  <2>1. CASE d.start /\ Tail(CallsDue(d)) = CallsDue([d EXCEPT !.start = FALSE])
    <3> DEFINE e == [d EXCEPT !.start = FALSE]
    <3>1. /\ e \in DueCalls /\ e.start = FALSE /\ e.cancel = d.cancel
          /\ e.speculate = d.speculate /\ e.finalize = d.finalize /\ e.again = d.again
      BY DEF DueCalls
    <3>2. QED
      BY <1>1, <1>2, <2>1, <3>1 DEF CallsInv
  <2>2. CASE /\ d.again /\ ~d.start /\ ~d.feed /\ ~d.cancel /\ ~d.speculate /\ ~d.finalize
             /\ Tail(CallsDue(d)) = CallsDue([d EXCEPT !.again = FALSE])
    <3> DEFINE e == [d EXCEPT !.again = FALSE]
    <3>1. /\ e \in DueCalls /\ e.start = d.start /\ e.cancel = d.cancel
          /\ e.speculate = d.speculate /\ e.finalize = d.finalize /\ e.again = FALSE
      BY DEF DueCalls
    <3>2. QED
      BY <1>1, <1>2, <2>2, <3>1 DEF CallsInv
  <2>3. QED
    BY <1>1, <1>2, <2>1, <2>2, NextDue
<1>4. /\ inflight = NoFuture /\ fresh = NoFuture /\ NoFuture.state = "none"
      /\ Owns(inflight, pool, "inflight") /\ Owns(speculative, pool, "speculative")
      /\ Owns(fresh, pool, "fresh")
  BY <1>1, <1>2, <1>3, Future DEF PhaseInv
<1>5. Heard \in SUBSET Nat /\ Heard' = Heard
  BY <1>1, HeardIsNat DEF Heard
<1>6. /\ pool' \in Seq(Decodes(Heard)) /\ Owns(NoFuture, pool', "speculative")
      /\ Alone(pool', "inflight") /\ Audios(pool', "inflight") = Audios(pool, "inflight")
      /\ Alone(pool', "fresh") /\ Audios(pool', "fresh") = Audios(pool, "fresh")
  <2>1. pool \in Seq(Decodes(Heard)) /\ Alone(pool, "speculative") /\ Alone(pool, "inflight")
        /\ Alone(pool, "fresh")
    BY <1>2, <1>4 DEF TypesInv, Owns
  <2>2. /\ pool' \in Seq(Decodes(Heard)) /\ Owns(NoFuture, pool', "speculative")
        /\ \A other : other # "speculative" /\ other # "nobody" /\ Alone(pool, other) =>
              Alone(pool', other) /\ Audios(pool', other) = Audios(pool, other)
    BY <1>1, <1>4, <2>1, Dropped
  <2>3. QED
    BY <2>1, <2>2
<1>7. Owns(inflight', pool', "inflight") /\ Owns(speculative', pool', "speculative")
      /\ Owns(fresh', pool', "fresh")
  BY <1>1, <1>4, <1>6 DEF Owns
<1>8. TypesInv'
  <2>1. u' \in UtterancesOf(Heard)
    BY <1>1, <1>5, SoundFresh
  <2>2. fed' \in Seq(Heard) /\ last' \in LastOf(Heard)
    <3>1. <<>> \in TextsOfWords /\ <<>> \in Seq(Heard)
      BY EmptySeq DEF TextsOfWords
    <3>2. QED
      BY <1>1, <3>1 DEF Nothing, LastOf
  <2>3. FutureOK(inflight)' /\ FutureOK(speculative)' /\ FutureOK(fresh)'
    <3>1. FutureOK(NoFuture)
      BY Future
    <3>2. QED
      BY <1>1, <1>4, <3>1 DEF FutureOK, NoFuture
  <2>4. QED
    BY <1>1, <1>2, <1>5, <1>6, <2>1, <2>2, <2>3 DEF TypesInv
<1>9. PhaseInv'
  BY <1>1, <1>2, <1>4, <1>7 DEF PhaseInv, NoFuture
<1>10. TextInv'
  <2>1. <<>> \in Seq(Heard') /\ fed' = <<>> \o u'.buffer
    BY <1>1, EmptySeq DEF FreshUtterance
  <2>2. Sound(spoken', u', <<>>, 0)
    BY <1>1, <1>5, SoundFresh
  <2>3. Audios(pool', "inflight") = {}
    BY <1>1, <1>4, <1>6 DEF Owns
  <2>4. QED
    BY <1>1, <1>4, <2>1, <2>2, <2>3, TextNext
<1>11. FreshInv'
  BY <1>1, <1>4, <1>9, NoFresh
<1>12. AllDecoded' /\ LossIsShort'
  BY <1>1 DEF AllDecoded, LossIsShort, Nothing
<1>13. CallsInv(e)' /\ SpecInv(e)'
  <2>1. SpecInv(e)'
    BY <1>1, NoSpec
  <2>2. QED
    BY <1>1, <1>3, <2>1 DEF CallsInv, NoFuture
<1>14. QED
  BY <1>3, <1>8, <1>9, <1>10, <1>11, <1>12, <1>13 DEF EngineInv, EngineInvAt

\* The frames of the result are fed.
LEMMA FeedKeeps ==
    ASSUME GateInv, NEW d \in DueCalls, EngineInvAt(d), CallFeed
    PROVE  EngineInv'
<1>1. /\ phase = "idle" /\ calls # <<>> /\ Head(calls) = "feed" /\ calls' = Tail(calls)
      /\ IF inUtterance THEN u' = [u EXCEPT !.buffer = @ \o result.speech]
                             /\ fed' = fed \o result.speech
                        ELSE u' = u /\ fed' = fed
      /\ utteranceId' = utteranceId /\ inUtterance' = inUtterance
      /\ speculative' = speculative /\ pool' = pool /\ last' = last
      /\ mode' = mode /\ inflight' = inflight /\ fresh' = fresh
      /\ phase' = phase /\ spoken' = spoken /\ timeouts' = timeouts
      /\ clock' = clock /\ result' = result /\ specFired' = specFired
  BY DEF CallFeed, Call, Feed, gateVars, gateState
<1>2. /\ TypesInv /\ PhaseInv /\ TextInv /\ FreshInv /\ AllDecoded /\ LossIsShort
      /\ CallsInv(d) /\ SpecInv(d) /\ calls = CallsDue(d)
  BY DEF EngineInvAt
<1> DEFINE e == [d EXCEPT !.feed = FALSE]
<1>3. /\ d.feed /\ ~d.start /\ e \in DueCalls /\ calls' = CallsDue(e)
      /\ e.start = d.start /\ e.feed = FALSE /\ e.cancel = d.cancel
      /\ e.speculate = d.speculate /\ e.finalize = d.finalize /\ e.again = d.again
  <2>1. d.feed /\ ~d.start /\ Tail(CallsDue(d)) = CallsDue([d EXCEPT !.feed = FALSE])
    BY <1>1, <1>2, NextDue
  <2>2. /\ e \in DueCalls /\ e.start = d.start /\ e.feed = FALSE /\ e.cancel = d.cancel
        /\ e.speculate = d.speculate /\ e.finalize = d.finalize /\ e.again = d.again
    BY DEF DueCalls
  <2>3. QED
    BY <1>1, <1>2, <2>1, <2>2
<1> HIDE DEF e
<1>4. Heard \in SUBSET Nat /\ Heard' = Heard
  BY <1>1, HeardIsNat DEF Heard
<1>5. /\ result.speech \in Seq(Heard) /\ fed \in Seq(Heard) /\ u \in UtterancesOf(Heard)
      /\ u.buffer \in Seq(Heard) /\ inUtterance \in BOOLEAN
  BY <1>2 DEF TypesInv, UtterancesOf
<1>6. AllDecoded' /\ LossIsShort'
  BY <1>1, <1>2, LastSame
<1>7. PhaseInv'
  BY <1>1, <1>2, <1>5 DEF PhaseInv
<1>8. CallsInv(e)'
  BY <1>1, <1>2, <1>3 DEF CallsInv, NoFuture
<1>9. FreshInv'
  BY <1>1, <1>2, <1>7, NoFresh DEF PhaseInv
<1>10. CASE inUtterance
  <2> DEFINE more == result.speech
             b == u.buffer
  <2>1. /\ u' = [u EXCEPT !.buffer = b \o more] /\ fed' = fed \o more
    BY <1>1, <1>10
  <2>2. b \o more \in Seq(Heard) /\ fed \o more \in Seq(Heard)
    BY <1>5, ConcatProperties
  <2>3. /\ u' \in UtterancesOf(Heard) /\ u'.buffer = b \o more /\ u'.faults = u.faults
        /\ u'.decodedLen = u.decodedLen /\ u'.firstDecode = u.firstDecode
    BY <1>5, <2>1, <2>2 DEF UtterancesOf
  <2>4. TypesInv'
    <3>1. FutureOK(inflight') /\ FutureOK(speculative') /\ FutureOK(fresh') /\ last' \in LastOf(Heard)
          /\ pool' \in Seq(Decodes(Heard))
      BY <1>1, <1>2 DEF TypesInv
    <3>2. QED
      BY <1>1, <1>2, <1>5, <2>1, <2>2, <2>3, <3>1, TypesNext
  <2>5. TextInv'
    <3> SUFFICES ASSUME "cut short" \notin u.faults PROVE TextInv'
      BY <2>3 DEF TextInv
    <3>1. PICK pre \in Seq(Heard) : TextAt(pre)
      BY <1>2, <1>10 DEF TextInv
    <3> DEFINE lag == IF inflight = NoFuture THEN 0 ELSE MinNew
    <3>2. lag \in Nat /\ Sound(spoken, u, pre, lag)
      BY <3>1, SessionAssumption DEF TextAt
    <3>3. Sound(spoken, u', pre, lag)
      <4> HIDE DEF lag
      <4>1. QED
        BY <1>4, <1>5, <2>1, <3>2, SoundFed
    <3> HIDE DEF b, more
    <3>4. fed' = pre \o u'.buffer
      <4>1. InParts(Heard, fed, pre, u.buffer)
        BY <1>5, <3>1 DEF TextAt, InParts
      <4>2. InParts(Heard, fed \o result.speech, pre, u.buffer \o result.speech)
        BY <1>5, <4>1, GrowsAtEnd
      <4>3. fed \o result.speech = pre \o (u.buffer \o result.speech)
        BY <4>2 DEF InParts
      <4>4. QED
        BY <2>1, <2>3, <4>3 DEF b, more
    <3>5. \A a \in Audios(pool', "inflight") :
             Len(a) = u'.decodedLen /\ \E rest \in Seq(Heard') : u'.buffer = a \o rest
      <4> SUFFICES ASSUME NEW a \in Audios(pool, "inflight")
                   PROVE  Len(a) = u'.decodedLen /\ \E rest \in Seq(Heard) : u'.buffer = a \o rest
        BY <1>1, <1>4
      <4>1. Len(a) = u.decodedLen /\ \E rest \in Seq(Heard) : u.buffer = a \o rest
        BY <3>1 DEF TextAt
      <4>2. PICK rest \in Seq(Heard) : u.buffer = a \o rest
        BY <4>1
      <4>3. a \in Seq(Heard)
        BY <1>2, AudiosType DEF TypesInv
      <4>4. InParts(Heard, u.buffer \o result.speech, a, rest \o result.speech)
        <5>1. InParts(Heard, u.buffer, a, rest)
          BY <4>2, <4>3 DEF InParts
        <5>2. QED
          BY <1>5, <5>1, GrowsAtEnd
      <4>5. /\ u.buffer \o result.speech = a \o (rest \o result.speech)
            /\ rest \o result.speech \in Seq(Heard)
        BY <4>4 DEF InParts
      <4>6. QED
        BY <2>3, <4>1, <4>5 DEF b, more
    <3>6. ASSUME inflight.state = "done"
          PROVE  /\ WordsOf(inflight.words, SaidOf(spoken, u'.buffer))
                 /\ \A i \in 1..Len(inflight.words) : SaidOf(spoken, u'.buffer)[i].end <= u'.decodedLen
      <4>1. u.buffer \in Seq(Nat) /\ result.speech \in Seq(Nat) /\ inflight.words \in Words
        BY <1>2, <1>4, <1>5, SeqMonotonic DEF TypesInv, FutureOK, Futures
      <4>2. /\ WordsOf(inflight.words, SaidOf(spoken, u.buffer))
            /\ \A i \in 1..Len(inflight.words) : SaidOf(spoken, u.buffer)[i].end <= u.decodedLen
        BY <3>1, <3>6 DEF TextAt
      <4>3. /\ WordsOf(inflight.words, SaidOf(spoken, u.buffer \o result.speech))
            /\ \A i \in 1..Len(inflight.words) :
                  SaidOf(spoken, u.buffer \o result.speech)[i].end <= u.decodedLen
        BY <4>1, <4>2, WordsInLonger
      <4>4. QED
        BY <2>3, <4>3 DEF b, more
    <3>7. QED
      BY <1>1, <1>4, <2>3, <3>1, <3>3, <3>4, <3>5, <3>6, TextNext DEF TextAt, lag
  <2>6. SpecInv(e)'
    <3>1. SUFFICES ASSUME speculative # NoFuture, "cut under speculation" \notin u.faults, ~d.cancel
                   PROVE  SpecInv(e)'
      BY <1>1, <1>3, <2>3 DEF SpecInv, NoFuture
    <3>2. /\ Silent(more, spoken)
          /\ \A a \in Audios(pool, "speculative") : SaidOf(spoken, a) = SaidOf(spoken, b)
          /\ speculative.state = "done" => speculative.words = SaidOf(spoken, b)
      BY <1>2, <1>3, <3>1 DEF SpecInv
    <3>3. SaidOf(spoken, b \o more) = SaidOf(spoken, b)
      <4>1. b \in Seq(Nat) /\ more \in Seq(Nat)
        BY <1>4, <1>5, SeqMonotonic
      <4> HIDE DEF b, more
      <4>2. QED
        BY <3>2, <4>1, SaidSilence DEF Silent
    <3>4. QED
      BY <1>1, <1>3, <2>3, <3>2, <3>3 DEF SpecInv
  <2>7. QED
    BY <1>3, <1>6, <1>7, <1>8, <1>9, <2>4, <2>5, <2>6 DEF EngineInv, EngineInvAt
<1>11. CASE ~inUtterance
  <2>1. u' = u /\ fed' = fed
    BY <1>1, <1>11
  <2>2. TypesInv'
    BY <1>1, <1>2, <2>1, <1>5, TypesNext DEF TypesInv
  <2>3. TextInv'
    BY <1>1, <1>2, <2>1, TextSame
  <2>4. SpecInv(e)'
    BY <1>1, <1>2, <1>3, <2>1, SpecSame
  <2>5. QED
    BY <1>3, <1>6, <1>7, <1>8, <1>9, <2>2, <2>3, <2>4 DEF EngineInv, EngineInvAt
<1>12. QED
  BY <1>10, <1>11

\* A speculation is withdrawn.
LEMMA CancelKeeps ==
    ASSUME GateInv, NEW d \in DueCalls, EngineInvAt(d), CallCancel
    PROVE  EngineInv'
<1>1. /\ phase = "idle" /\ calls # <<>> /\ Head(calls) = "cancel" /\ calls' = Tail(calls)
      /\ speculative' = NoFuture /\ pool' = Orphan(pool, "speculative")
      /\ u' = u /\ fed' = fed
      /\ utteranceId' = utteranceId /\ inUtterance' = inUtterance /\ last' = last
      /\ mode' = mode /\ inflight' = inflight /\ fresh' = fresh
      /\ phase' = phase /\ spoken' = spoken /\ timeouts' = timeouts
      /\ clock' = clock /\ result' = result /\ specFired' = specFired
  BY DEF CallCancel, Call, CancelSpeculation, gateVars, gateState
<1>2. /\ TypesInv /\ PhaseInv /\ TextInv /\ FreshInv /\ AllDecoded /\ LossIsShort
      /\ CallsInv(d) /\ SpecInv(d) /\ calls = CallsDue(d)
  BY DEF EngineInvAt
<1> DEFINE e == [d EXCEPT !.cancel = FALSE]
<1>3. /\ d.cancel /\ ~d.start /\ ~d.feed /\ e \in DueCalls /\ calls' = CallsDue(e)
      /\ e.start = d.start /\ e.feed = d.feed /\ e.cancel = FALSE
      /\ e.speculate = d.speculate /\ e.finalize = d.finalize /\ e.again = d.again
  <2>1. d.cancel /\ ~d.start /\ ~d.feed /\ Tail(CallsDue(d)) = CallsDue([d EXCEPT !.cancel = FALSE])
    BY <1>1, <1>2, NextDue
  <2>2. /\ e \in DueCalls /\ e.start = d.start /\ e.feed = d.feed /\ e.cancel = FALSE
        /\ e.speculate = d.speculate /\ e.finalize = d.finalize /\ e.again = d.again
    BY DEF DueCalls
  <2>3. QED
    BY <1>1, <1>2, <2>1, <2>2
<1> HIDE DEF e
<1>4. /\ NoFuture.state = "none" /\ FutureOK(NoFuture)
  BY Future
<1>5. /\ pool' \in Seq(Decodes(Heard)) /\ Owns(NoFuture, pool', "speculative")
      /\ Alone(pool', "inflight") /\ Audios(pool', "inflight") = Audios(pool, "inflight")
      /\ Alone(pool', "fresh") /\ Audios(pool', "fresh") = Audios(pool, "fresh")
  <2>1. pool \in Seq(Decodes(Heard)) /\ Alone(pool, "speculative") /\ Alone(pool, "inflight")
        /\ Alone(pool, "fresh")
    BY <1>2 DEF TypesInv, PhaseInv, Owns
  <2>2. /\ pool' \in Seq(Decodes(Heard)) /\ Owns(NoFuture, pool', "speculative")
        /\ \A other : other # "speculative" /\ other # "nobody" /\ Alone(pool, other) =>
              Alone(pool', other) /\ Audios(pool', other) = Audios(pool, other)
    BY <1>1, <1>4, <2>1, Dropped
  <2>3. QED
    BY <2>1, <2>2
<1>6. Owns(inflight', pool', "inflight") /\ Owns(speculative', pool', "speculative")
      /\ Owns(fresh', pool', "fresh")
  BY <1>1, <1>2, <1>5 DEF PhaseInv, Owns
<1>7. TypesInv'
  BY <1>1, <1>2, <1>4, <1>5, TypesNext DEF TypesInv
<1>8. PhaseInv'
  BY <1>1, <1>2, <1>6 DEF PhaseInv, NoFuture
<1>9. TextInv'
  BY <1>1, <1>2, <1>5, TextSame
<1>10. FreshInv'
  BY <1>1, <1>2, <1>8, NoFresh DEF PhaseInv
<1>11. AllDecoded' /\ LossIsShort'
  BY <1>1, <1>2, LastSame
<1>12. SpecInv(e)'
  BY <1>1, NoSpec
<1>13. CallsInv(e)'
  BY <1>1, <1>2, <1>3 DEF CallsInv, NoFuture
<1>14. QED
  BY <1>3, <1>7, <1>8, <1>9, <1>10, <1>11, <1>12, <1>13 DEF EngineInv, EngineInvAt

\* finalize() is entered.
LEMMA FinalizeKeeps ==
    ASSUME GateInv, NEW d \in DueCalls, EngineInvAt(d), CallFinalize
    PROVE  EngineInv'
<1>1. /\ phase = "idle" /\ calls # <<>> /\ Head(calls) = "finalize" /\ calls' = Tail(calls)
      /\ IF inUtterance THEN inUtterance' = FALSE /\ phase' = "drain" /\ timeouts' = 0
                        ELSE inUtterance' = inUtterance /\ phase' = phase /\ timeouts' = timeouts
      /\ speculative' = speculative /\ pool' = pool /\ u' = u /\ fed' = fed
      /\ utteranceId' = utteranceId /\ last' = last
      /\ mode' = mode /\ inflight' = inflight /\ fresh' = fresh /\ spoken' = spoken
      /\ clock' = clock /\ result' = result /\ specFired' = specFired
  BY DEF CallFinalize, Call, Finalize, gateVars, gateState
<1>2. /\ TypesInv /\ PhaseInv /\ TextInv /\ FreshInv /\ AllDecoded /\ LossIsShort
      /\ CallsInv(d) /\ SpecInv(d) /\ calls = CallsDue(d)
  BY DEF EngineInvAt
<1> DEFINE e == [d EXCEPT !.finalize = FALSE]
<1>3. /\ d.finalize /\ ~d.start /\ ~d.feed /\ ~d.cancel /\ ~d.speculate
      /\ e \in DueCalls /\ calls' = CallsDue(e)
      /\ e.start = d.start /\ e.feed = d.feed /\ e.cancel = d.cancel
      /\ e.speculate = d.speculate /\ e.finalize = FALSE /\ e.again = d.again
  <2>1. d.finalize /\ ~d.start /\ ~d.feed /\ ~d.cancel /\ ~d.speculate
        /\ Tail(CallsDue(d)) = CallsDue([d EXCEPT !.finalize = FALSE])
    BY <1>1, <1>2, NextDue
  <2>2. /\ e \in DueCalls /\ e.start = d.start /\ e.feed = d.feed /\ e.cancel = d.cancel
        /\ e.speculate = d.speculate /\ e.finalize = FALSE /\ e.again = d.again
    BY DEF DueCalls
  <2>3. QED
    BY <1>1, <1>2, <2>1, <2>2
<1> HIDE DEF e
<1>4. inUtterance' = FALSE
  BY <1>1, <1>2 DEF TypesInv
<1>5. TypesInv'
  BY <1>1, <1>2, <1>4, TypesNext DEF TypesInv
<1>6. PhaseInv'
  BY <1>1, <1>2, <1>4 DEF PhaseInv
<1>7. TextInv'
  BY <1>1, <1>2, <1>4, TextSame
<1>8. FreshInv'
  BY <1>1, <1>2, FreshSame
<1>9. AllDecoded' /\ LossIsShort'
  BY <1>1, <1>2, LastSame
<1>10. SpecInv(e)'
  BY <1>1, <1>2, <1>3, SpecSame
<1>11. CallsInv(e)'
  BY <1>1, <1>2, <1>3, <1>4 DEF CallsInv
<1>12. QED
  BY <1>3, <1>5, <1>6, <1>7, <1>8, <1>9, <1>10, <1>11 DEF EngineInv, EngineInvAt

\* Between two frames no call is due.
LEMMA NoCallsDue ==
    ASSUME NEW d \in DueCalls, EngineInvAt(d), calls = <<>>
    PROVE  d = NoneDue
<1>1. CallsDue(d) = <<>>
  BY DEF EngineInvAt
<1>2. QED
  BY <1>1, NextDue

\* The engine is left alone.
LEMMA EngineSame ==
    ASSUME NEW d \in DueCalls, EngineInvAt(d), UNCHANGED sessionVars, clock' = clock,
           result'.speech \in Seq(Heard)
    PROVE  TypesInv' /\ PhaseInv' /\ TextInv' /\ FreshInv' /\ AllDecoded' /\ LossIsShort'
<1>1. /\ mode' = mode /\ utteranceId' = utteranceId /\ inUtterance' = inUtterance /\ u' = u
      /\ inflight' = inflight /\ speculative' = speculative /\ fresh' = fresh /\ pool' = pool
      /\ phase' = phase /\ spoken' = spoken /\ fed' = fed /\ timeouts' = timeouts /\ last' = last
  BY DEF sessionVars
<1>2. TypesInv /\ PhaseInv /\ TextInv /\ FreshInv /\ AllDecoded /\ LossIsShort
  BY DEF EngineInvAt
<1>3. TypesInv'
  <2>1. FutureOK(inflight)' /\ FutureOK(speculative)' /\ FutureOK(fresh)'
    BY <1>1, <1>2 DEF TypesInv, FutureOK, NoFuture
  <2>2. Heard' = Heard
    BY DEF Heard
  <2>3. QED
    BY <1>1, <1>2, <2>1, <2>2 DEF TypesInv
<1>4. PhaseInv'
  BY <1>1, <1>2 DEF PhaseInv, NoFuture, FreshUtterance
<1>5. TextInv'
  BY <1>1, <1>2, TextSame
<1>6. FreshInv'
  BY <1>1, <1>2, FreshSame
<1>7. AllDecoded' /\ LossIsShort'
  BY <1>1, <1>2, LastSame
<1>8. QED
  BY <1>3, <1>4, <1>5, <1>6, <1>7

\* A session that is done, or does nothing, keeps it.
LEMMA StutterKeeps ==
    ASSUME EngineInv, UNCHANGED vars
    PROVE  EngineInv'
<1>1. PICK d \in DueCalls : EngineInvAt(d)
  BY DEF EngineInv
<1>2. /\ UNCHANGED sessionVars /\ clock' = clock /\ result' = result /\ calls' = calls
      /\ specFired' = specFired
  BY DEF vars, gateVars, gateState, loopVars
<1>3. TypesInv' /\ PhaseInv' /\ TextInv' /\ FreshInv' /\ AllDecoded' /\ LossIsShort'
  BY <1>1, <1>2, EngineSame DEF EngineInvAt, TypesInv
<1>4. CallsInv(d) /\ SpecInv(d) /\ calls = CallsDue(d)
  BY <1>1 DEF EngineInvAt
<1>5. SpecInv(d)'
  BY <1>2, <1>4, SpecSame DEF sessionVars
<1>6. CallsInv(d)'
  BY <1>2, <1>4 DEF sessionVars, CallsInv, NoFuture
<1>7. QED
  BY <1>2, <1>3, <1>4, <1>5, <1>6 DEF EngineInv, EngineInvAt

\* A result makes the calls due that its flags tell.
LEMMA DueAfter ==
    ASSUME NEW r \in GateResult
    PROVE  \E e \in DueCalls :
              /\ CallsFor(r) = CallsDue(e)
              /\ e.start = r.started /\ e.cancel = r.cancelled /\ e.speculate = r.maybeEnded
              /\ e.finalize = r.ended /\ e.again = r.restarted
              /\ (r.speech = <<>> => e.feed = FALSE)
<1> DEFINE e == DueFor(r)
<1>1. e \in DueCalls /\ CallsFor(r) = CallsDue(e)
  BY CallsForIsDue
<1>2. /\ e.start = r.started /\ e.cancel = r.cancelled /\ e.speculate = r.maybeEnded
      /\ e.finalize = r.ended /\ e.again = r.restarted /\ (r.speech = <<>> => e.feed = FALSE)
  BY DEF DueFor
<1> HIDE DEF e
<1>3. QED
  BY <1>1, <1>2

\* The session is stopped: the gate is flushed.
LEMMA StopKeeps ==
    ASSUME GateInv, GateInv', GateAndEngineAgree, EngineInv, StopLoop
    PROVE  EngineInv'
<1>1. PICK d \in DueCalls : EngineInvAt(d)
  BY DEF EngineInv
<1>2. /\ Ready /\ ~stopped /\ UNCHANGED sessionVars /\ clock' = clock /\ calls = <<>>
      /\ calls' = CallsFor(result')
      /\ result' = IF inSpeech THEN Ended(NoResult, TRUE) ELSE NoResult
  BY DEF StopLoop, Flush, Ready
<1>3. d = NoneDue
  BY <1>1, <1>2, NoCallsDue
<1>4. /\ result' \in GateResult /\ result'.speech = <<>> /\ result'.started = FALSE
      /\ result'.cancelled = FALSE /\ result'.maybeEnded = FALSE /\ result'.restarted = FALSE
      /\ inSpeech => result'.ended = TRUE
  BY <1>2 DEF Ended, NoResult, GateInv, GateTypeOK
<1>6. PICK e \in DueCalls :
        /\ calls' = CallsDue(e)
        /\ e.start = FALSE /\ e.feed = FALSE /\ e.cancel = FALSE /\ e.speculate = FALSE
        /\ e.again = FALSE /\ (inSpeech => e.finalize = TRUE)
  BY <1>2, <1>4, DueAfter
<1>7. TypesInv' /\ PhaseInv' /\ TextInv' /\ FreshInv' /\ AllDecoded' /\ LossIsShort'
  <2>1. result'.speech \in Seq(Heard)
    BY <1>4, EmptySeq
  <2>2. QED
    BY <1>1, <1>2, <2>1, EngineSame
<1>8. CallsInv(d) /\ SpecInv(d) /\ TypesInv /\ PhaseInv
  BY <1>1 DEF EngineInvAt
<1>9. ~d.cancel
  BY <1>3 DEF NoneDue
<1>10. SpecInv(e)'
  BY <1>2, <1>6, <1>8, <1>9, SpecSame DEF sessionVars
<1>11. CallsInv(e)'
  <2>1. inUtterance <=> inSpeech
    BY <1>2 DEF GateAndEngineAgree
  <2>2. inUtterance' = inUtterance /\ speculative' = speculative /\ phase' = phase /\ phase = "idle"
    BY <1>2 DEF sessionVars, Ready
  <2>3. QED
    BY <1>6, <2>1, <2>2 DEF CallsInv
<1>12. QED
  BY <1>6, <1>7, <1>10, <1>11 DEF EngineInv, EngineInvAt

\* The loop dies.
LEMMA FailKeeps ==
    ASSUME EngineInv, LoopFails
    PROVE  EngineInv'
<1>1. PICK d \in DueCalls : EngineInvAt(d)
  BY DEF EngineInv
<1>2. /\ phase = "idle" /\ UNCHANGED sessionVars /\ clock' = clock /\ calls = <<>> /\ result' = result
      /\ calls' = <<"finalize">>
  BY DEF LoopFails, Ready, gateVars
<1> DEFINE e == [NoneDue EXCEPT !.finalize = TRUE]
<1>3. /\ e \in DueCalls /\ e.start = FALSE /\ e.feed = FALSE /\ e.cancel = FALSE
      /\ e.speculate = FALSE /\ e.finalize = TRUE /\ e.again = FALSE
  BY DEF NoneDue, DueCalls
<1> HIDE DEF e
<1>4. calls' = CallsDue(e)
  <2>1. CallsDue(e) = FromFinalize(e) /\ Again(e) = <<>>
    BY <1>3, Skips
  <2>2. If(TRUE, "finalize") = <<"finalize">>
    BY DEF If
  <2>3. FromFinalize(e) = <<"finalize">> \o <<>>
    BY <1>3, <2>1, <2>2, Zenon DEF FromFinalize
  <2>4. <<"finalize">> \in Seq(EngineCalls)
    BY DEF EngineCalls
  <2>5. <<"finalize">> \o <<>> = <<"finalize">>
    BY <2>4, ConcatEmptySeq
  <2>6. QED
    BY <1>2, <2>1, <2>3, <2>5, Zenon
<1>5. TypesInv' /\ PhaseInv' /\ TextInv' /\ FreshInv' /\ AllDecoded' /\ LossIsShort'
  BY <1>1, <1>2, EngineSame DEF EngineInvAt, TypesInv
<1>6. SpecInv(d) /\ ~d.cancel
  <2>1. d = NoneDue
    BY <1>1, <1>2, NoCallsDue
  <2>2. NoneDue.cancel = FALSE
    BY DEF NoneDue
  <2>3. QED
    BY <1>1, <2>1, <2>2 DEF EngineInvAt
<1>7. SpecInv(e)'
  BY <1>2, <1>3, <1>6, SpecSame DEF sessionVars
<1>8. CallsInv(e)'
  BY <1>2, <1>3 DEF CallsInv, sessionVars
<1>9. QED
  BY <1>3, <1>4, <1>5, <1>7, <1>8 DEF EngineInv, EngineInvAt

\* What the decode thread leaves in a future.
LEMMA Resolved ==
    ASSUME NEW f \in Futures, NEW hyps, \A ws \in hyps : ws \in Words, NEW g \in Resolutions(f, hyps)
    PROVE  /\ g \in Futures /\ g.utt = f.utt /\ g.state \in {"failed", "done"}
           /\ g.state = "done" => g.words \in hyps
<1>1. CASE g = [f EXCEPT !.state = "failed"]
  BY <1>1 DEF Futures
<1>2. ASSUME NEW ws \in hyps, g = [f EXCEPT !.state = "done", !.words = ws]
      PROVE  g \in Futures /\ g.utt = f.utt /\ g.state = "done" /\ g.words = ws
  <2>1. ws \in Words
    BY <1>2
  <2>2. QED
    BY <1>2, <2>1 DEF Futures
<1>3. QED
  BY <1>1, <1>2 DEF Resolutions

\* The decode at the head of the pool is that of the future it resolves.
LEMMA HeadOwns ==
    ASSUME NEW K, NEW q \in Seq(Decodes(K)), q # <<>>, NEW of, Head(q).of = of,
           NEW f, Owns(f, q, of), NEW g, Settled(g)
    PROVE  /\ f.state = "running" /\ Head(q).audio \in Audios(q, of)
           /\ Owns(g, Tail(q), of) /\ Audios(Tail(q), of) = {}
<1>1. Alone(q, of)
  BY DEF Owns
<1>2. /\ Head(q).audio \in Audios(q, of)
      /\ Alone(Tail(q), of) /\ Audios(Tail(q), of) = {}
  BY <1>1, PoolTail
<1>3. QED
  BY <1>2 DEF Owns, Settled

\* The other futures keep theirs.
LEMMA TailOwns ==
    ASSUME NEW K, NEW q \in Seq(Decodes(K)), q # <<>>, NEW of, of # Head(q).of, NEW f, Owns(f, q, of)
    PROVE  Owns(f, Tail(q), of) /\ Audios(Tail(q), of) = Audios(q, of)
<1>1. Alone(q, of)
  BY DEF Owns
<1>2. Alone(Tail(q), of) /\ Audios(Tail(q), of) = Audios(q, of)
  BY <1>1, PoolTail
<1>3. QED
  BY <1>2 DEF Owns

\* The decode thread finishes a decode.
LEMMA DecodingKeeps ==
    ASSUME GateInv, EngineInv, Decoding
    PROVE  EngineInv'
<1>1. PICK d \in DueCalls : EngineInvAt(d)
  BY DEF EngineInv
<1>2. /\ TypesInv /\ PhaseInv /\ TextInv /\ FreshInv /\ AllDecoded /\ LossIsShort
      /\ CallsInv(d) /\ SpecInv(d) /\ calls = CallsDue(d)
  BY <1>1 DEF EngineInvAt
<1>3. /\ pool # <<>> /\ pool' = Tail(pool)
      /\ mode' = mode /\ utteranceId' = utteranceId /\ inUtterance' = inUtterance /\ u' = u
      /\ phase' = phase /\ spoken' = spoken /\ fed' = fed /\ timeouts' = timeouts /\ last' = last
      /\ clock' = clock /\ result' = result /\ calls' = calls /\ specFired' = specFired
  BY DEF Decoding, FinishDecode, gateVars, gateState, loopVars
<1> DEFINE h == Head(pool)
<1>4. Heard \in SUBSET Nat /\ Heard' = Heard
  BY <1>3, HeardIsNat DEF Heard
<1>5. /\ pool \in Seq(Decodes(Heard)) /\ pool' \in Seq(Decodes(Heard)) /\ h \in Decodes(Heard)
      /\ h.audio \in Seq(Heard) /\ h.audio \in Seq(Nat) /\ h.of \in Owners
  <2>1. pool \in Seq(Decodes(Heard))
    BY <1>2 DEF TypesInv
  <2>2. pool' \in Seq(Decodes(Heard)) /\ h \in Decodes(Heard)
    BY <1>3, <2>1, PoolTail
  <2>3. h.audio \in Seq(Heard) /\ h.of \in Owners
    BY <2>2 DEF Decodes
  <2>4. QED
    BY <1>4, <2>1, <2>2, <2>3, SeqMonotonic
<1>6. /\ Owns(inflight, pool, "inflight") /\ Owns(speculative, pool, "speculative")
      /\ Owns(fresh, pool, "fresh") /\ inflight \in Futures /\ speculative \in Futures
      /\ fresh \in Futures
      /\ FutureOK(inflight) /\ FutureOK(speculative) /\ FutureOK(fresh)
  BY <1>2 DEF PhaseInv, TypesInv, FutureOK
<1>7. AllDecoded' /\ LossIsShort'
  BY <1>2, <1>3, LastSame
<1>8. /\ \A ws \in Hypotheses(h.audio) : ws \in Words /\ WordsOf(ws, SaidOf(spoken, h.audio))
      /\ \A ws \in {Said(h.audio)} : ws \in Words /\ ws = SaidOf(spoken, h.audio)
  <2>1. \A ws \in Hypotheses(h.audio) : ws \in Words /\ WordsOf(ws, Said(h.audio))
    BY <1>5, HypothesisHeard
  <2>2. Said(h.audio) = SaidOf(spoken, h.audio)
    BY SaidIs
  <2>3. SaidOf(spoken, h.audio) \in Words
    BY <1>5, SaidIsHeard
  <2>4. QED
    BY <2>1, <2>2, <2>3
<1>n. NoFuture.state = "none"
  BY Future
<1> HIDE DEF h
<1>9. CASE h.of = "nobody"
  <2>1. inflight' = inflight /\ speculative' = speculative /\ fresh' = fresh
    BY <1>9 DEF Decoding, FinishDecode, h
  <2>2. /\ Owns(inflight', pool', "inflight") /\ Audios(pool', "inflight") = Audios(pool, "inflight")
        /\ Owns(speculative', pool', "speculative")
        /\ Audios(pool', "speculative") = Audios(pool, "speculative")
        /\ Owns(fresh', pool', "fresh") /\ Audios(pool', "fresh") = Audios(pool, "fresh")
    BY <1>3, <1>5, <1>6, <1>9, <2>1, TailOwns DEF h
  <2>3. TypesInv'
    BY <1>2, <1>3, <1>5, <2>1, TypesNext DEF TypesInv
  <2>4. PhaseInv'
    BY <1>2, <1>3, <2>1, <2>2 DEF PhaseInv
  <2>5. TextInv' /\ FreshInv' /\ SpecInv(d)'
    BY <1>2, <1>3, <2>1, <2>2, TextSame, FreshSame, SpecSame
  <2>6. CallsInv(d)'
    BY <1>2, <1>3, <2>1 DEF CallsInv
  <2>7. QED
    BY <1>2, <1>3, <1>7, <2>3, <2>4, <2>5, <2>6 DEF EngineInv, EngineInvAt
<1>10. CASE h.of = "inflight"
  <2>1. /\ inflight' \in Resolutions(inflight, Hypotheses(h.audio))
        /\ speculative' = speculative /\ fresh' = fresh
    BY <1>10 DEF Decoding, FinishDecode, h
  <2>2. /\ inflight' \in Futures /\ inflight'.utt = inflight.utt
        /\ inflight'.state \in {"failed", "done"}
        /\ inflight'.state = "done" => inflight'.words \in Hypotheses(h.audio)
    BY <1>6, <1>8, <2>1, Resolved
  <2>3. /\ inflight.state = "running" /\ h.audio \in Audios(pool, "inflight")
        /\ Owns(inflight', pool', "inflight") /\ Audios(pool', "inflight") = {}
    <3>1. /\ pool \in Seq(Decodes(Heard)) /\ pool # <<>> /\ Head(pool).of = "inflight"
          /\ Owns(inflight, pool, "inflight") /\ Settled(inflight')
      BY <1>3, <1>5, <1>6, <1>10, <2>2 DEF h, Settled
    <3>2. /\ inflight.state = "running" /\ Head(pool).audio \in Audios(pool, "inflight")
          /\ Owns(inflight', Tail(pool), "inflight") /\ Audios(Tail(pool), "inflight") = {}
      BY <3>1, HeadOwns
    <3>3. QED
      BY <1>3, <3>2 DEF h
  <2>4. inflight # NoFuture /\ inflight' # NoFuture /\ FutureOK(inflight')
    BY <1>6, <1>n, <2>2, <2>3 DEF FutureOK
  <2>5. /\ Owns(speculative', pool', "speculative")
        /\ Audios(pool', "speculative") = Audios(pool, "speculative")
        /\ Owns(fresh', pool', "fresh") /\ Audios(pool', "fresh") = Audios(pool, "fresh")
    BY <1>3, <1>5, <1>6, <1>10, <2>1, TailOwns DEF h
  <2>6. TypesInv'
    BY <1>2, <1>3, <1>5, <1>6, <2>1, <2>4, TypesNext DEF TypesInv
  <2>7. PhaseInv'
    BY <1>2, <1>3, <2>1, <2>3, <2>4, <2>5 DEF PhaseInv
  <2>8. FreshInv' /\ SpecInv(d)'
    BY <1>2, <1>3, <2>1, <2>5, FreshSame, SpecSame
  <2>9. CallsInv(d)'
    BY <1>2, <1>3, <2>1 DEF CallsInv
  <2>10. TextInv'
    <3> SUFFICES ASSUME inUtterance \/ phase # "idle", "cut short" \notin u.faults PROVE TextInv'
      BY <1>3 DEF TextInv
    <3>1. PICK pre \in Seq(Heard) : TextAt(pre)
      BY <1>2 DEF TextInv
    <3>2. PICK more \in Seq(Heard) : Len(h.audio) = u.decodedLen /\ u.buffer = h.audio \o more
      BY <2>3, <3>1 DEF TextAt
    <3>3. ASSUME inflight'.state = "done"
          PROVE  /\ WordsOf(inflight'.words, SaidOf(spoken, u.buffer))
                 /\ \A i \in 1..Len(inflight'.words) : SaidOf(spoken, u.buffer)[i].end <= u.decodedLen
      <4>1. PICK ws \in Hypotheses(h.audio) : ws = inflight'.words
        BY <2>2, <3>3
      <4>2. ws \in Words /\ WordsOf(ws, SaidOf(spoken, h.audio)) /\ Len(ws) \in Nat
        BY <1>8, LenProperties DEF Words
      <4>3. /\ \A i \in 1..Len(SaidOf(spoken, h.audio)) :
                  SaidOf(spoken, h.audio)[i].end <= Len(h.audio)
            /\ Len(SaidOf(spoken, h.audio)) \in Nat
        BY <1>5, SaidIsHeard, LenProperties DEF Words
      <4>4. \A i \in 1..Len(ws) : SaidOf(spoken, h.audio)[i].end <= u.decodedLen
        <5>1. Len(ws) <= Len(SaidOf(spoken, h.audio))
          BY <4>2 DEF WordsOf
        <5>2. \A i \in 1..Len(ws) : i \in 1..Len(SaidOf(spoken, h.audio))
          BY <4>2, <4>3, <5>1, Within
        <5>3. QED
          BY <3>2, <4>3, <5>2
      <4>5. more \in Seq(Nat)
        BY <1>4, SeqMonotonic
      <4>6. /\ WordsOf(ws, SaidOf(spoken, h.audio \o more))
            /\ \A i \in 1..Len(ws) : SaidOf(spoken, h.audio \o more)[i].end <= u.decodedLen
        BY <1>5, <4>2, <4>4, <4>5, WordsInLonger
      <4>7. QED
        BY <3>2, <4>1, <4>6
    <3>4. /\ fed' = pre \o u'.buffer /\ u.firstDecode
          /\ Sound(spoken', u', pre, IF inflight' = NoFuture THEN 0 ELSE MinNew)
      BY <1>3, <2>4, <3>1 DEF TextAt
    <3>5. QED
      BY <1>3, <1>4, <2>3, <3>3, <3>4, TextNext
  <2>11. QED
    BY <1>2, <1>3, <1>7, <2>6, <2>7, <2>8, <2>9, <2>10 DEF EngineInv, EngineInvAt
<1>11. CASE h.of = "speculative"
  <2>1. /\ speculative' \in Resolutions(speculative, {Said(h.audio)})
        /\ inflight' = inflight /\ fresh' = fresh
    BY <1>11 DEF Decoding, FinishDecode, h
  <2>2. /\ speculative' \in Futures /\ speculative'.utt = speculative.utt
        /\ speculative'.state \in {"failed", "done"}
        /\ speculative'.state = "done" => speculative'.words = SaidOf(spoken, h.audio)
    BY <1>6, <1>8, <2>1, Resolved
  <2>3. /\ speculative.state = "running" /\ h.audio \in Audios(pool, "speculative")
        /\ Owns(speculative', pool', "speculative") /\ Audios(pool', "speculative") = {}
    <3>1. /\ pool \in Seq(Decodes(Heard)) /\ pool # <<>> /\ Head(pool).of = "speculative"
          /\ Owns(speculative, pool, "speculative") /\ Settled(speculative')
      BY <1>3, <1>5, <1>6, <1>11, <2>2 DEF h, Settled
    <3>2. /\ speculative.state = "running" /\ Head(pool).audio \in Audios(pool, "speculative")
          /\ Owns(speculative', Tail(pool), "speculative") /\ Audios(Tail(pool), "speculative") = {}
      BY <3>1, HeadOwns
    <3>3. QED
      BY <1>3, <3>2 DEF h
  <2>4. speculative # NoFuture /\ speculative' # NoFuture /\ FutureOK(speculative')
    BY <1>6, <1>n, <2>2, <2>3 DEF FutureOK
  <2>5. /\ Owns(inflight', pool', "inflight") /\ Audios(pool', "inflight") = Audios(pool, "inflight")
        /\ Owns(fresh', pool', "fresh") /\ Audios(pool', "fresh") = Audios(pool, "fresh")
    BY <1>3, <1>5, <1>6, <1>11, <2>1, TailOwns DEF h
  <2>6. TypesInv'
    BY <1>2, <1>3, <1>5, <1>6, <2>1, <2>4, TypesNext DEF TypesInv
  <2>7. PhaseInv'
    BY <1>2, <1>3, <2>1, <2>3, <2>4, <2>5 DEF PhaseInv
  <2>8. TextInv' /\ FreshInv'
    BY <1>2, <1>3, <2>1, <2>5, TextSame, FreshSame
  <2>9. CallsInv(d)'
    BY <1>2, <1>3, <2>1, <2>4 DEF CallsInv
  <2>10. SpecInv(d)'
    BY <1>2, <1>3, <2>2, <2>3, <2>4 DEF SpecInv
  <2>11. QED
    BY <1>2, <1>3, <1>7, <2>6, <2>7, <2>8, <2>9, <2>10 DEF EngineInv, EngineInvAt
<1>12. CASE h.of = "fresh"
  <2>1. /\ fresh' \in Resolutions(fresh, {Said(h.audio)})
        /\ inflight' = inflight /\ speculative' = speculative
    BY <1>12 DEF Decoding, FinishDecode, h
  <2>2. /\ fresh' \in Futures /\ fresh'.utt = fresh.utt /\ fresh'.state \in {"failed", "done"}
        /\ fresh'.state = "done" => fresh'.words = SaidOf(spoken, h.audio)
    BY <1>6, <1>8, <2>1, Resolved
  <2>3. /\ fresh.state = "running" /\ h.audio \in Audios(pool, "fresh")
        /\ Owns(fresh', pool', "fresh") /\ Audios(pool', "fresh") = {}
    <3>1. /\ pool \in Seq(Decodes(Heard)) /\ pool # <<>> /\ Head(pool).of = "fresh"
          /\ Owns(fresh, pool, "fresh") /\ Settled(fresh')
      BY <1>3, <1>5, <1>6, <1>12, <2>2 DEF h, Settled
    <3>2. /\ fresh.state = "running" /\ Head(pool).audio \in Audios(pool, "fresh")
          /\ Owns(fresh', Tail(pool), "fresh") /\ Audios(Tail(pool), "fresh") = {}
      BY <3>1, HeadOwns
    <3>3. QED
      BY <1>3, <3>2 DEF h
  <2>4. fresh # NoFuture /\ fresh' # NoFuture /\ FutureOK(fresh')
    BY <1>6, <1>n, <2>2, <2>3 DEF FutureOK
  <2>5. /\ Owns(inflight', pool', "inflight") /\ Audios(pool', "inflight") = Audios(pool, "inflight")
        /\ Owns(speculative', pool', "speculative")
        /\ Audios(pool', "speculative") = Audios(pool, "speculative")
    BY <1>3, <1>5, <1>6, <1>12, <2>1, TailOwns DEF h
  <2>6. TypesInv'
    BY <1>2, <1>3, <1>5, <1>6, <2>1, <2>4, TypesNext DEF TypesInv
  <2>7. PhaseInv'
    BY <1>2, <1>3, <2>1, <2>3, <2>4, <2>5 DEF PhaseInv
  <2>8. TextInv' /\ SpecInv(d)'
    BY <1>2, <1>3, <2>1, <2>5, TextSame, SpecSame
  <2>9. CallsInv(d)'
    BY <1>2, <1>3, <2>1 DEF CallsInv
  <2>10. FreshInv'
    <3>1. h.audio = u.buffer
      BY <1>2, <2>3 DEF FreshInv
    <3>2. QED
      BY <1>3, <2>2, <2>3, <3>1 DEF FreshInv
  <2>11. QED
    BY <1>2, <1>3, <1>7, <2>6, <2>7, <2>8, <2>9, <2>10 DEF EngineInv, EngineInvAt
<1>13. QED
  BY <1>5, <1>9, <1>10, <1>11, <1>12 DEF Owners

\* What a drain that does not wait leaves.
DrainedTo(v, pre) ==
    /\ fed = pre \o v.buffer
    /\ Sound(spoken, v, pre, IF AfterDrain = NoFuture THEN 0 ELSE MinNew)

\* It is sound, and the future is settled or still the one it was.
LEMMA DrainedMeans ==
    ASSUME GateInv, NEW d \in DueCalls, EngineInvAt(d), NEW v \in Drained
    PROVE  /\ v \in UtterancesOf(Heard) /\ u.faults \subseteq v.faults
           /\ v.firstDecode = u.firstDecode
           /\ (speculative # NoFuture /\ "cut under speculation" \notin v.faults) => v.buffer = u.buffer
           /\ (inUtterance /\ "cut short" \notin v.faults)
                 => \E pre \in Seq(Heard) : DrainedTo(v, pre)
           /\ AfterDrain # NoFuture => v = u /\ AfterDrain = inflight
           /\ inUtterance = FALSE => v = u
           /\ Owns(AfterDrain, pool, "inflight") /\ FutureOK(AfterDrain)
<1>1. TypesInv /\ PhaseInv /\ TextInv
  BY DEF EngineInvAt
<1>2. /\ u \in UtterancesOf(Heard) /\ FutureOK(inflight) /\ inflight \in Futures
      /\ inflight.words \in Words /\ Owns(inflight, pool, "inflight")
      /\ inUtterance \in BOOLEAN
  BY <1>1 DEF TypesInv, PhaseInv, FutureOK, Futures
<1>3. Heard \in SUBSET Nat
  BY HeardIsNat
<1>4. /\ NoFuture.state = "none" /\ FutureOK(NoFuture)
  BY Future
<1>5. Owns(AfterDrain, pool, "inflight") /\ FutureOK(AfterDrain)
  BY <1>2, <1>4 DEF AfterDrain, Owns, Settled
<1>6. CASE inflight.state = "done" /\ inflight.utt = utteranceId /\ inUtterance
  <2>1. v \in Applied(u, inflight.words) /\ AfterDrain = NoFuture /\ inflight # NoFuture
    BY <1>4, <1>6 DEF Drained, AfterDrain, Settled
  <2>2. /\ v \in UtterancesOf(Heard) /\ u.faults \subseteq v.faults /\ v.firstDecode = u.firstDecode
        /\ (speculative # NoFuture /\ "cut under speculation" \notin v.faults) => v.buffer = u.buffer
    BY <1>2, <2>1, AppliedTyped
  <2>3. ASSUME "cut short" \notin v.faults
        PROVE  \E pre \in Seq(Heard) : DrainedTo(v, pre)
    <3>1. PICK pre \in Seq(Heard) : TextAt(pre)
      BY <1>1, <1>6, <2>2, <2>3 DEF TextInv
    <3>2. /\ Sound(spoken, u, pre, MinNew) /\ u.firstDecode /\ fed = pre \o u.buffer
          /\ WordsOf(inflight.words, SaidOf(spoken, u.buffer))
          /\ \A i \in 1..Len(inflight.words) : SaidOf(spoken, u.buffer)[i].end <= u.decodedLen
      BY <1>6, <2>1, <3>1 DEF TextAt
    <3>3. pre \in Seq(Nat)
      BY <1>3, SeqMonotonic
    <3>4. PICK b1 \in Seq(Heard), b2 \in Seq(Heard) :
              u.buffer = b1 \o b2 /\ v.buffer = b2 /\ Sound(spoken, v, pre \o b1, 0)
      BY <1>2, <1>3, <2>1, <2>3, <3>2, <3>3, AppliedMeans
    <3>5. pre \o b1 \in Seq(Heard)
      BY ConcatProperties
    <3>6. fed = (pre \o b1) \o b2
      <4>1. InParts(Heard, pre \o b1, pre, b1)
        BY DEF InParts
      <4>2. InParts(Heard, (pre \o b1) \o b2, pre, b1 \o b2)
        BY <4>1, GrowsAtEnd
      <4>3. QED
        BY <3>2, <3>4, <4>2 DEF InParts
    <3>7. DrainedTo(v, pre \o b1)
      BY <2>1, <3>4, <3>6 DEF DrainedTo
    <3>8. QED
      BY <3>5, <3>7
  <2>4. QED
    BY <1>5, <1>6, <2>1, <2>2, <2>3
<1>7. CASE ~(inflight.state = "done" /\ inflight.utt = utteranceId /\ inUtterance)
  <2>1. v = u
    BY <1>7 DEF Drained
  <2>2. AfterDrain = NoFuture \/ AfterDrain = inflight
    BY DEF AfterDrain
  <2>3. ASSUME inUtterance, "cut short" \notin u.faults
        PROVE  \E pre \in Seq(Heard) : DrainedTo(u, pre)
    <3>1. PICK pre \in Seq(Heard) : TextAt(pre)
      BY <1>1, <2>3 DEF TextInv
    <3>2. /\ fed = pre \o u.buffer
          /\ Sound(spoken, u, pre, IF inflight = NoFuture THEN 0 ELSE MinNew)
      BY <3>1 DEF TextAt
    <3>3. Sound(spoken, u, pre, MinNew) => Sound(spoken, u, pre, 0)
      BY <1>2, <1>3, SoundSooner
    <3>4. DrainedTo(u, pre)
      BY <2>2, <3>2, <3>3 DEF DrainedTo
    <3>5. QED
      BY <3>4
  <2>4. QED
    BY <1>2, <1>5, <2>1, <2>2, <2>3
<1>8. QED
  BY <1>6, <1>7

\* The text after a drain that left the future or settled it.
LEMMA DrainedText ==
    ASSUME GateInv, NEW d \in DueCalls, EngineInvAt(d), NEW v \in Drained,
           u' = v \/ u' = [v EXCEPT !.firstDecode = TRUE], inflight' = AfterDrain,
           Audios(pool', "inflight") = Audios(pool, "inflight"),
           mode' = mode, fed' = fed, spoken' = spoken, clock' = clock, inUtterance' = inUtterance,
           phase = "idle", phase' = phase
    PROVE  TextInv' /\ u' \in UtterancesOf(Heard) /\ u'.buffer = v.buffer /\ u'.faults = v.faults
<1>1. /\ v \in UtterancesOf(Heard) /\ u.faults \subseteq v.faults
      /\ v.firstDecode = u.firstDecode
      /\ (inUtterance /\ "cut short" \notin v.faults)
                 => \E pre \in Seq(Heard) : DrainedTo(v, pre)
      /\ AfterDrain # NoFuture => v = u /\ AfterDrain = inflight
      /\ Owns(AfterDrain, pool, "inflight")
  BY DrainedMeans
<1>2. Heard \in SUBSET Nat /\ Heard' = Heard
  BY HeardIsNat DEF Heard
<1>3. /\ u' \in UtterancesOf(Heard) /\ u'.buffer = v.buffer /\ u'.faults = v.faults
      /\ u'.decodedLen = v.decodedLen /\ (v.firstDecode => u'.firstDecode)
  BY <1>1 DEF UtterancesOf
<1>4. TextInv'
  <2> SUFFICES ASSUME inUtterance, "cut short" \notin v.faults PROVE TextInv'
    BY <1>3 DEF TextInv
  <2>1. CASE AfterDrain = NoFuture
    <3>1. PICK pre \in Seq(Heard) : DrainedTo(v, pre)
      BY <1>1
    <3>2. fed = pre \o v.buffer /\ Sound(spoken, v, pre, 0)
      BY <2>1, <3>1 DEF DrainedTo
    <3>3. Sound(spoken, u', pre, 0)
      <4>1. CASE u' = v
        BY <3>2, <4>1
      <4>2. CASE u' = [v EXCEPT !.firstDecode = TRUE]
        BY <1>1, <1>2, <3>2, <4>2, SoundFirst
      <4>3. QED
        BY <4>1, <4>2
    <3>4. Audios(pool', "inflight") = {} /\ inflight'.state = "none"
      <4>1. NoFuture.state = "none"
        BY Future
      <4>2. QED
        BY <1>1, <2>1, <4>1 DEF Owns
    <3>5. QED
      BY <1>2, <1>3, <2>1, <3>2, <3>3, <3>4, TextNext
  <2>2. CASE AfterDrain # NoFuture
    <3>1. v = u /\ inflight' = inflight /\ inflight # NoFuture /\ TextInv
      BY <1>1, <2>2 DEF EngineInvAt
    <3>2. PICK pre \in Seq(Heard) : TextAt(pre)
      BY <3>1 DEF TextInv
    <3>3. u.firstDecode /\ Sound(spoken, u, pre, MinNew) /\ fed = pre \o u.buffer
          /\ \A a \in Audios(pool, "inflight") :
                Len(a) = u.decodedLen /\ \E more \in Seq(Heard) : u.buffer = a \o more
          /\ inflight.state = "done" =>
                /\ WordsOf(inflight.words, SaidOf(spoken, u.buffer))
                /\ \A i \in 1..Len(inflight.words) : SaidOf(spoken, u.buffer)[i].end <= u.decodedLen
      BY <3>1, <3>2 DEF TextAt
    <3>4. Sound(spoken, u', pre, MinNew)
      <4>1. CASE u' = v
        BY <3>1, <3>3, <4>1
      <4>2. CASE u' = [v EXCEPT !.firstDecode = TRUE]
        BY <1>1, <1>2, <3>1, <3>3, <4>2, SoundFirst
      <4>3. QED
        BY <4>1, <4>2
    <3>5. /\ fed' = pre \o u'.buffer /\ u'.firstDecode
          /\ Sound(spoken', u', pre, IF inflight' = NoFuture THEN 0 ELSE MinNew)
      BY <1>3, <3>1, <3>3, <3>4
    <3>a. u'.buffer = u.buffer /\ u'.decodedLen = u.decodedLen /\ inflight' = inflight
          /\ Audios(pool', "inflight") = Audios(pool, "inflight") /\ spoken' = spoken
      BY <1>3, <3>1
    <3>6. \A a \in Audios(pool', "inflight") :
             Len(a) = u'.decodedLen /\ \E more \in Seq(Heard') : u'.buffer = a \o more
      <4> SUFFICES ASSUME NEW a \in Audios(pool, "inflight")
                   PROVE  Len(a) = u'.decodedLen /\ \E more \in Seq(Heard) : u'.buffer = a \o more
        BY <1>2
      <4>1. Len(a) = u.decodedLen /\ \E more \in Seq(Heard) : u.buffer = a \o more
        BY <3>2 DEF TextAt
      <4>2. QED
        BY <3>a, <4>1
    <3>7. inflight'.state = "done" =>
                /\ WordsOf(inflight'.words, SaidOf(spoken', u'.buffer))
                /\ \A i \in 1..Len(inflight'.words) :
                      SaidOf(spoken', u'.buffer)[i].end <= u'.decodedLen
      <4> SUFFICES ASSUME inflight.state = "done"
                   PROVE  /\ WordsOf(inflight.words, SaidOf(spoken, u'.buffer))
                          /\ \A i \in 1..Len(inflight.words) :
                                SaidOf(spoken, u'.buffer)[i].end <= u'.decodedLen
        BY <3>1
      <4>1. /\ WordsOf(inflight.words, SaidOf(spoken, u.buffer))
            /\ \A i \in 1..Len(inflight.words) : SaidOf(spoken, u.buffer)[i].end <= u.decodedLen
        BY <3>2 DEF TextAt
      <4>2. QED
        BY <3>a, <4>1
    <3>8. pre \in Seq(Heard')
      BY <1>2
    <3>9. QED
      BY <3>5, <3>6, <3>7, <3>8, TextNext
  <2>3. QED
    BY <2>1, <2>2
<1>5. QED
  BY <1>3, <1>4

\* tick(): the drain, and perhaps another decode.
LEMMA TickKeeps ==
    ASSUME GateInv, EngineInv, CallTick
    PROVE  EngineInv'
<1>1. PICK d \in DueCalls : EngineInvAt(d)
  BY DEF EngineInv
<1>2. /\ TypesInv /\ PhaseInv /\ TextInv /\ FreshInv /\ AllDecoded /\ LossIsShort
      /\ CallsInv(d) /\ SpecInv(d) /\ calls = CallsDue(d)
  BY <1>1 DEF EngineInvAt
<1>3. /\ phase = "idle" /\ calls = <<>>
      /\ mode' = mode /\ utteranceId' = utteranceId /\ inUtterance' = inUtterance
      /\ speculative' = speculative /\ fresh' = fresh
      /\ phase' = phase /\ spoken' = spoken /\ fed' = fed /\ timeouts' = timeouts /\ last' = last
      /\ clock' = clock /\ result' = result /\ calls' = calls /\ specFired' = specFired
  BY DEF CallTick, Tick, Ready, gateVars, gateState, loopVars
<1>4. Heard \in SUBSET Nat /\ Heard' = Heard
  BY <1>3, HeardIsNat DEF Heard
<1>5. PICK v \in Drained :
        \/ /\ MayDecode(v)
           /\ u' = [v EXCEPT !.decodedLen = Len(v.buffer), !.firstDecode = TRUE]
           /\ inflight' = Running
           /\ pool' = Append(pool, Decode("inflight", v.buffer))
        \/ u' = v /\ inflight' = AfterDrain /\ pool' = pool
  BY DEF CallTick, Tick
<1>6. /\ v \in UtterancesOf(Heard) /\ u.faults \subseteq v.faults
      /\ (speculative # NoFuture /\ "cut under speculation" \notin v.faults) => v.buffer = u.buffer
      /\ (inUtterance /\ "cut short" \notin v.faults) => \E pre \in Seq(Heard) : DrainedTo(v, pre)
      /\ AfterDrain # NoFuture => v = u /\ AfterDrain = inflight
      /\ inUtterance = FALSE => v = u
      /\ Owns(AfterDrain, pool, "inflight") /\ FutureOK(AfterDrain)
  BY <1>1, DrainedMeans
<1>7. AllDecoded' /\ LossIsShort'
  BY <1>2, <1>3, LastSame
<1>8. CallsInv(d)'
  BY <1>2, <1>3 DEF CallsInv, NoFuture
<1>9. /\ pool \in Seq(Decodes(Heard)) /\ Owns(speculative, pool, "speculative")
      /\ Owns(fresh, pool, "fresh") /\ fresh = NoFuture
      /\ Alone(pool, "speculative") /\ Alone(pool, "fresh")
  BY <1>2, <1>3 DEF TypesInv, PhaseInv, Owns
<1>10. CASE /\ MayDecode(v)
            /\ u' = [v EXCEPT !.decodedLen = Len(v.buffer), !.firstDecode = TRUE]
            /\ inflight' = Running
            /\ pool' = Append(pool, Decode("inflight", v.buffer))
  <2>1. /\ inUtterance /\ AfterDrain = NoFuture /\ speculative = NoFuture
        /\ v.firstDecode => Len(v.buffer) - v.decodedLen >= MinNew
    BY <1>10 DEF MayDecode
  <2>2. /\ NoFuture.state = "none" /\ Running.state = "running" /\ Running # NoFuture
        /\ FutureOK(Running) /\ NoFuture.state # "running"
    BY <1>2, Future DEF TypesInv
  <2>3. v.buffer \in Seq(Heard) /\ Len(v.buffer) \in Nat
    BY <1>6, LenProperties DEF UtterancesOf
  <2>4. /\ u' \in UtterancesOf(Heard) /\ u'.buffer = v.buffer /\ u'.faults = v.faults
        /\ u'.decodedLen = Len(v.buffer) /\ u'.firstDecode
    BY <1>6, <1>10, <2>3 DEF UtterancesOf
  <2>5. /\ pool' \in Seq(Decodes(Heard)) /\ Owns(inflight', pool', "inflight")
        /\ Audios(pool', "inflight") = {v.buffer}
        /\ \A other : other # "inflight" /\ Alone(pool, other) =>
              Alone(pool', other) /\ Audios(pool', other) = Audios(pool, other)
    <3>1. "inflight" \in Owners
      BY DEF Owners
    <3>2. Owns(NoFuture, pool, "inflight")
      BY <1>6, <2>1
    <3>3. Free(pool, "inflight")
      BY <2>2, <3>2 DEF Free, Owns
    <3> DEFINE p == Append(pool, Decode("inflight", v.buffer))
    <3>4. /\ p \in Seq(Decodes(Heard)) /\ Alone(p, "inflight") /\ Audios(p, "inflight") = {v.buffer}
          /\ \A other : other # "inflight" /\ Alone(pool, other) =>
                Alone(p, other) /\ Audios(p, other) = Audios(pool, other)
      BY <1>9, <2>3, <3>1, <3>3, Submitted
    <3> HIDE DEF p
    <3>5. pool' = p /\ inflight'.state = "running"
      BY <1>10, <2>2 DEF p
    <3>6. QED
      BY <3>4, <3>5 DEF Owns
  <2>6. /\ Owns(speculative', pool', "speculative") /\ Owns(fresh', pool', "fresh")
    BY <1>3, <1>9, <2>5 DEF Owns
  <2>7. TypesInv'
    BY <1>2, <1>3, <1>10, <2>2, <2>4, <2>5, TypesNext DEF TypesInv
  <2>8. PhaseInv'
    BY <1>2, <1>3, <2>1, <2>5, <2>6 DEF PhaseInv
  <2>9. TextInv'
    <3> SUFFICES ASSUME "cut short" \notin v.faults PROVE TextInv'
      BY <2>4 DEF TextInv
    <3>1. PICK pre \in Seq(Heard) : DrainedTo(v, pre)
      BY <1>6, <2>1
    <3>2. fed = pre \o v.buffer /\ Sound(spoken, v, pre, 0)
      BY <2>1, <3>1 DEF DrainedTo
    <3>3. Sound(spoken, u', pre, MinNew)
      BY <1>4, <1>6, <1>10, <2>1, <3>2, SoundDecoding
    <3>4. \A a \in Audios(pool', "inflight") :
             Len(a) = u'.decodedLen /\ \E more \in Seq(Heard') : u'.buffer = a \o more
      <4>1. <<>> \in Seq(Heard) /\ v.buffer = v.buffer \o <<>>
        BY <2>3, EmptySeq, ConcatEmptySeq
      <4>2. QED
        BY <1>4, <2>4, <2>5, <4>1
    <3>5. inflight'.state # "done"
      BY <1>10, <2>2
    <3>6. /\ fed' = pre \o u'.buffer /\ pre \in Seq(Heard')
          /\ Sound(spoken', u', pre, IF inflight' = NoFuture THEN 0 ELSE MinNew)
      BY <1>3, <1>4, <1>10, <2>2, <2>4, <3>2, <3>3
    <3>7. QED
      BY <1>3, <2>4, <3>4, <3>5, <3>6, TextNext
  <2>10. FreshInv'
    BY <1>3, <1>9, <2>8, NoFresh
  <2>11. SpecInv(d)'
    BY <1>3, <2>1, NoSpec
  <2>12. QED
    BY <1>2, <1>3, <1>7, <1>8, <2>7, <2>8, <2>9, <2>10, <2>11 DEF EngineInv, EngineInvAt
<1>11. CASE u' = v /\ inflight' = AfterDrain /\ pool' = pool
  <2>1. TextInv' /\ u' \in UtterancesOf(Heard)
    BY <1>1, <1>3, <1>11, DrainedText
  <2>2. TypesInv'
    BY <1>2, <1>3, <1>6, <1>11, <2>1, TypesNext DEF TypesInv
  <2>3. PhaseInv'
    BY <1>2, <1>3, <1>6, <1>11 DEF PhaseInv
  <2>4. FreshInv'
    BY <1>3, <1>9, <2>3, NoFresh
  <2>5. SpecInv(d)'
    <3>1. CASE speculative = NoFuture
      BY <1>3, <3>1, NoSpec
    <3>2. CASE "cut under speculation" \in v.faults
      BY <1>11, <3>2 DEF SpecInv
    <3>3. CASE speculative # NoFuture /\ "cut under speculation" \notin v.faults
      <4>1. u'.buffer = u.buffer /\ u.faults \subseteq u'.faults
        BY <1>6, <1>11, <3>3
      <4>2. QED
        BY <1>2, <1>3, <1>11, <4>1, SpecSame
    <3>4. QED
      BY <3>1, <3>2, <3>3
  <2>6. QED
    BY <1>2, <1>3, <1>7, <1>8, <2>1, <2>2, <2>3, <2>4, <2>5 DEF EngineInv, EngineInvAt
<1>12. QED
  BY <1>5, <1>10, <1>11

\* A probable end: the final decode is begun early.
LEMMA SpeculateKeeps ==
    ASSUME GateInv, NEW d \in DueCalls, EngineInvAt(d), CallSpeculate
    PROVE  EngineInv'
<1>1. /\ phase = "idle" /\ calls # <<>> /\ Head(calls) = "speculate" /\ calls' = Tail(calls)
      /\ mode' = mode /\ utteranceId' = utteranceId /\ inUtterance' = inUtterance
      /\ fresh' = fresh /\ last' = last
      /\ phase' = phase /\ spoken' = spoken /\ fed' = fed /\ timeouts' = timeouts
      /\ clock' = clock /\ result' = result /\ specFired' = specFired
  BY DEF CallSpeculate, Call, SpeculateFinal, gateVars, gateState
<1>2. /\ TypesInv /\ PhaseInv /\ TextInv /\ FreshInv /\ AllDecoded /\ LossIsShort
      /\ CallsInv(d) /\ SpecInv(d) /\ calls = CallsDue(d)
  BY DEF EngineInvAt
<1> DEFINE e == [d EXCEPT !.speculate = FALSE]
<1>3. /\ d.speculate /\ ~d.start /\ ~d.feed /\ ~d.cancel /\ e \in DueCalls /\ calls' = CallsDue(e)
      /\ e.start = d.start /\ e.feed = d.feed /\ e.cancel = d.cancel
      /\ e.speculate = FALSE /\ e.finalize = d.finalize /\ e.again = d.again
  <2>1. /\ d.speculate /\ ~d.start /\ ~d.feed /\ ~d.cancel
        /\ Tail(CallsDue(d)) = CallsDue([d EXCEPT !.speculate = FALSE])
    BY <1>1, <1>2, NextDue
  <2>2. /\ e \in DueCalls /\ e.start = d.start /\ e.feed = d.feed /\ e.cancel = d.cancel
        /\ e.speculate = FALSE /\ e.finalize = d.finalize /\ e.again = d.again
    BY DEF DueCalls
  <2>3. QED
    BY <1>1, <1>2, <2>1, <2>2
<1> HIDE DEF e
<1>4. AllDecoded' /\ LossIsShort'
  BY <1>1, <1>2, LastSame
<1>5. \/ /\ u' = u /\ inflight' = inflight /\ speculative' = speculative /\ pool' = pool
      \/ /\ inUtterance /\ speculative = NoFuture
         /\ \E v \in Drained :
               /\ u' = [v EXCEPT !.firstDecode = TRUE]
               /\ inflight' = AfterDrain
               /\ speculative' = Running
               /\ pool' = Append(pool, Decode("speculative", v.buffer))
  BY DEF CallSpeculate, Call, SpeculateFinal
<1>6. CASE u' = u /\ inflight' = inflight /\ speculative' = speculative /\ pool' = pool
  <2>1. TypesInv'
    BY <1>1, <1>2, <1>6, TypesNext DEF TypesInv
  <2>2. PhaseInv'
    BY <1>1, <1>2, <1>6 DEF PhaseInv
  <2>3. TextInv' /\ FreshInv'
    BY <1>1, <1>2, <1>6, TextSame, FreshSame
  <2>4. SpecInv(e)'
    BY <1>1, <1>2, <1>3, <1>6, SpecSame
  <2>5. CallsInv(e)'
    BY <1>1, <1>2, <1>3, <1>6 DEF CallsInv, NoFuture
  <2>6. QED
    BY <1>3, <1>4, <2>1, <2>2, <2>3, <2>4, <2>5 DEF EngineInv, EngineInvAt
<1>7. ASSUME inUtterance, speculative = NoFuture, NEW v \in Drained,
             u' = [v EXCEPT !.firstDecode = TRUE], inflight' = AfterDrain,
             speculative' = Running, pool' = Append(pool, Decode("speculative", v.buffer))
      PROVE  EngineInv'
  <2>1. /\ v \in UtterancesOf(Heard) /\ Owns(AfterDrain, pool, "inflight") /\ FutureOK(AfterDrain)
    BY <1>7, DrainedMeans
  <2>2. /\ pool \in Seq(Decodes(Heard)) /\ Owns(NoFuture, pool, "speculative")
        /\ Owns(fresh, pool, "fresh") /\ fresh = NoFuture
        /\ Alone(pool, "inflight") /\ Alone(pool, "fresh")
    BY <1>1, <1>2, <1>7, <2>1 DEF TypesInv, PhaseInv, Owns
  <2>3. /\ NoFuture.state # "running" /\ Running.state = "running" /\ Running # NoFuture
        /\ FutureOK(Running)
    BY <1>2, Future DEF TypesInv
  <2>4. v.buffer \in Seq(Heard) /\ "speculative" \in Owners
    BY <2>1 DEF UtterancesOf, Owners
  <2>5. /\ pool' \in Seq(Decodes(Heard)) /\ Owns(speculative', pool', "speculative")
        /\ Audios(pool', "speculative") = {v.buffer}
        /\ \A other : other # "speculative" /\ Alone(pool, other) =>
              Alone(pool', other) /\ Audios(pool', other) = Audios(pool, other)
    <3>1. Free(pool, "speculative")
      BY <2>2, <2>3, Future DEF Free, Owns
    <3> DEFINE p == Append(pool, Decode("speculative", v.buffer))
    <3>2. /\ p \in Seq(Decodes(Heard)) /\ Alone(p, "speculative")
          /\ Audios(p, "speculative") = {v.buffer}
          /\ \A other : other # "speculative" /\ Alone(pool, other) =>
                Alone(p, other) /\ Audios(p, other) = Audios(pool, other)
      BY <2>2, <2>4, <3>1, Submitted
    <3> HIDE DEF p
    <3>3. pool' = p /\ speculative'.state = "running"
      BY <1>7, <2>3 DEF p
    <3>4. QED
      BY <3>2, <3>3 DEF Owns
  <2>6. /\ Audios(pool', "inflight") = Audios(pool, "inflight")
        /\ Owns(inflight', pool', "inflight") /\ Owns(fresh', pool', "fresh")
    BY <1>1, <1>7, <2>1, <2>2, <2>5 DEF Owns
  <2>7. TextInv' /\ u' \in UtterancesOf(Heard) /\ u'.buffer = v.buffer
    BY <1>1, <1>7, <2>6, DrainedText
  <2>8. TypesInv'
    BY <1>1, <1>2, <1>7, <2>1, <2>3, <2>5, <2>7, TypesNext DEF TypesInv
  <2>9. PhaseInv'
    BY <1>1, <1>2, <1>7, <2>5, <2>6 DEF PhaseInv
  <2>10. FreshInv'
    BY <1>1, <2>2, <2>9, NoFresh
  <2>11. SpecInv(e)'
    <3>1. speculative'.state # "done"
      BY <1>7, <2>3
    <3>2. QED
      BY <1>3, <2>5, <2>7, <3>1 DEF SpecInv
  <2>12. CallsInv(e)'
    BY <1>1, <1>2, <1>3, <1>7 DEF CallsInv
  <2>13. QED
    BY <1>3, <1>4, <2>7, <2>8, <2>9, <2>10, <2>11, <2>12 DEF EngineInv, EngineInvAt
<1>8. QED
  BY <1>5, <1>6, <1>7

\* No decode is in flight any more.
LEMMA NothingInFlight ==
    ASSUME GateInv, TypesInv, TextInv, u' = u, fed' = fed, spoken' = spoken, clock' = clock,
           mode' = mode, phase # "idle", inflight' = NoFuture, Audios(pool', "inflight") = {}
    PROVE  TextInv'
<1> SUFFICES ASSUME "cut short" \notin u.faults PROVE TextInv'
  BY DEF TextInv
<1>1. PICK pre \in Seq(Heard) : TextAt(pre)
  BY DEF TextInv
<1>2. Heard \in SUBSET Nat /\ Heard' = Heard /\ u \in UtterancesOf(Heard)
  BY HeardIsNat DEF Heard, TypesInv
<1>3. fed = pre \o u.buffer /\ Sound(spoken, u, pre, IF inflight = NoFuture THEN 0 ELSE MinNew)
  BY <1>1 DEF TextAt
<1>4. Sound(spoken, u, pre, 0)
  <2>1. Sound(spoken, u, pre, MinNew) => Sound(spoken, u, pre, 0)
    BY <1>2, SoundSooner
  <2>2. QED
    BY <1>3, <2>1
<1>5. NoFuture.state = "none"
  BY Future
<1>6. QED
  BY <1>2, <1>3, <1>4, <1>5, TextNext

\* The utterance is over.
LEMMA FinishKeeps ==
    ASSUME GateInv, NEW d \in DueCalls, EngineInvAt(d), phase # "idle",
           mode' = mode, utteranceId' = utteranceId, inUtterance' = inUtterance,
           spoken' = spoken, fed' = fed, clock' = clock, result' = result, calls' = calls,
           u' = FreshUtterance, phase' = "idle", timeouts' \in 0..3,
           inflight' = NoFuture, speculative' = NoFuture, fresh' = NoFuture,
           pool' \in Seq(Decodes(Heard)), Free(pool', "inflight"), Free(pool', "speculative"),
           Free(pool', "fresh"), last' \in LastOf(Heard), AllDecoded', LossIsShort'
    PROVE  EngineInv'
<1>1. TypesInv /\ PhaseInv /\ CallsInv(d) /\ calls = CallsDue(d)
  BY DEF EngineInvAt
<1>2. /\ inUtterance = FALSE /\ ~d.start /\ ~d.feed /\ ~d.cancel /\ ~d.speculate /\ ~d.finalize
  BY <1>1 DEF PhaseInv, CallsInv
<1>3. NoFuture.state = "none" /\ FutureOK(NoFuture)
  BY Future
<1>4. TypesInv'
  <2>1. u' \in UtterancesOf(Heard)
    BY HeardIsNat, SoundFresh
  <2>2. QED
    BY <1>1, <1>3, <2>1, TypesNext DEF TypesInv
<1>5. PhaseInv'
  BY <1>2, <1>3 DEF PhaseInv, Owns, Free
<1>6. TextInv'
  BY <1>2 DEF TextInv
<1>7. FreshInv'
  BY <1>5, NoFresh
<1>8. CallsInv(d)'
  BY <1>1, <1>2 DEF CallsInv
<1>9. SpecInv(d)'
  BY NoSpec
<1>10. QED
  BY <1>1, <1>4, <1>5, <1>6, <1>7, <1>8, <1>9 DEF EngineInv, EngineInvAt

\* finalize() submits a decode of its own.
LEMMA AfreshKeeps ==
    ASSUME GateInv, NEW d \in DueCalls, EngineInvAt(d), phase \in {"drain", "speculative"},
           mode' = mode, utteranceId' = utteranceId, inUtterance' = inUtterance,
           spoken' = spoken, fed' = fed, clock' = clock, result' = result, calls' = calls,
           u' = u, last' = last, phase' = "fresh", timeouts' \in 0..2,
           inflight' = NoFuture, speculative' = NoFuture, fresh' = Running,
           NEW q \in Seq(Decodes(Heard)), Free(q, "inflight"), Free(q, "speculative"),
           Free(q, "fresh"), pool' = Append(q, Decode("fresh", u.buffer))
    PROVE  EngineInv'
<1>1. /\ TypesInv /\ PhaseInv /\ TextInv /\ AllDecoded /\ LossIsShort /\ CallsInv(d)
      /\ calls = CallsDue(d)
  BY DEF EngineInvAt
<1>2. inUtterance = FALSE /\ phase # "idle"
  BY <1>1 DEF PhaseInv
<1>3. /\ NoFuture.state = "none" /\ FutureOK(NoFuture) /\ Running.state = "running"
      /\ Running # NoFuture /\ FutureOK(Running)
  BY <1>1, Future DEF TypesInv
<1>4. u.buffer \in Seq(Heard) /\ "fresh" \in Owners
  BY <1>1 DEF TypesInv, UtterancesOf, Owners
<1> DEFINE p == Append(q, Decode("fresh", u.buffer))
<1>5. /\ p \in Seq(Decodes(Heard)) /\ Alone(p, "fresh") /\ Audios(p, "fresh") = {u.buffer}
      /\ \A other : other # "fresh" /\ Alone(q, other) =>
            Alone(p, other) /\ Audios(p, other) = Audios(q, other)
  BY <1>4, Submitted
<1> HIDE DEF p
<1>6. pool' = p
  BY DEF p
<1>7. /\ pool' \in Seq(Decodes(Heard)) /\ Owns(fresh', pool', "fresh")
      /\ Owns(inflight', pool', "inflight") /\ Owns(speculative', pool', "speculative")
      /\ Audios(pool', "fresh") = {u.buffer} /\ Audios(pool', "inflight") = {}
  BY <1>3, <1>5, <1>6 DEF Owns, Free
<1>8. TypesInv'
  BY <1>1, <1>3, <1>7, TypesNext DEF TypesInv
<1>9. PhaseInv'
  BY <1>2, <1>3, <1>7 DEF PhaseInv
<1>10. TextInv'
  BY <1>1, <1>2, <1>7, NothingInFlight
<1>11. FreshInv'
  <2>1. fresh'.state # "done"
    BY <1>3
  <2>2. QED
    BY <1>7, <2>1 DEF FreshInv
<1>12. AllDecoded' /\ LossIsShort'
  BY <1>1, LastSame
<1>13. CallsInv(d)'
  BY <1>1, <1>2 DEF CallsInv
<1>14. SpecInv(d)'
  BY NoSpec
<1>15. QED
  BY <1>1, <1>8, <1>9, <1>10, <1>11, <1>12, <1>13, <1>14 DEF EngineInv, EngineInvAt

\* What finalize() leaves when it typed the words of the whole buffer.
LEMMA FinalMeans ==
    ASSUME GateInv, NEW d \in DueCalls, EngineInvAt(d), phase # "idle", NEW ws \in Words,
           last' = [outcome |-> "final", text |-> FinalText(ws), fed |-> fed, faults |-> u.faults],
           u.faults = {} => ws = SaidOf(spoken, u.buffer), spoken' = spoken, mode' = mode
    PROVE  last' \in LastOf(Heard) /\ AllDecoded' /\ LossIsShort'
<1>1. /\ TypesInv /\ TextInv
  BY DEF EngineInvAt
<1>2. Heard \in SUBSET Nat
  BY HeardIsNat
<1>3. u \in UtterancesOf(Heard) /\ fed \in Seq(Heard) /\ u.faults \in SUBSET Faults
  BY <1>1 DEF TypesInv, UtterancesOf
<1>4. last' \in LastOf(Heard)
  <2>1. FinalText(ws) \in TextsOfWords
    BY <1>3, FinalTextType
  <2>2. QED
    BY <1>3, <2>1 DEF LastOf
<1>5. LossIsShort'
  BY DEF LossIsShort
<1>6. ASSUME u.faults = {}
      PROVE  FramesOf(FinalText(ws)) = SpokenOf(spoken, fed)
  <2>1. PICK pre \in Seq(Heard) : TextAt(pre)
    BY <1>1, <1>6 DEF TextInv
  <2>2. /\ fed = pre \o u.buffer
        /\ Sound(spoken, u, pre, IF inflight = NoFuture THEN 0 ELSE MinNew)
    BY <2>1 DEF TextAt
  <2>3. pre \in Seq(Nat)
    BY <1>2, SeqMonotonic
  <2>4. FramesOf(FinalText(SaidOf(spoken, u.buffer))) = SpokenOf(spoken, pre \o u.buffer)
    BY <1>2, <1>3, <2>2, <2>3, FinalTextMeans
  <2>5. QED
    BY <1>6, <2>2, <2>4
<1>7. AllDecoded'
  <2> SUFFICES ASSUME u.faults = {} PROVE AllDecoded'
    BY DEF AllDecoded
  <2>1. SpokenIn(last.fed)' = SpokenOf(spoken, fed)
    BY DEF SpokenIn, SpokenAt, SpokenOf, PlacesIn
  <2>2. FramesOf(last.text)' = FramesOf(FinalText(ws))
    BY DEF FramesOf
  <2>3. QED
    BY <1>6, <2>1, <2>2 DEF AllDecoded
<1>8. QED
  BY <1>4, <1>5, <1>7

\* What a buffer given up as too short leaves.
LEMMA SkippedText ==
    ASSUME GateInv, NEW d \in DueCalls, EngineInvAt(d), phase # "idle", TooShort,
           last' = [outcome |-> "skipped", text |-> u.text, fed |-> fed, faults |-> u.faults],
           spoken' = spoken, mode' = mode
    PROVE  last' \in LastOf(Heard) /\ AllDecoded' /\ LossIsShort'
<1>1. /\ TypesInv /\ TextInv
  BY DEF EngineInvAt
<1>2. Heard \in SUBSET Nat
  BY HeardIsNat
<1>3. /\ u \in UtterancesOf(Heard) /\ fed \in Seq(Heard) /\ u.faults \in SUBSET Faults
      /\ u.text \in TextsOfWords /\ mode \in {"commit", "correcting"}
  BY <1>1 DEF TypesInv, UtterancesOf
<1>4. last' \in LastOf(Heard)
  BY <1>3 DEF LastOf
<1>5. AllDecoded'
  BY DEF AllDecoded
<1>6. ASSUME "cut short" \notin u.faults, mode = "commit" \/ MinSpeech <= 2 * MinNew
      PROVE  \A i \in 1..Len(fed) : (fed[i] \in spoken /\ i + MinSpeech <= Len(fed) + 1)
                => \E j \in DOMAIN u.text : FrameOf(u.text[j]) = fed[i]
  <2>1. PICK pre \in Seq(Heard) : TextAt(pre)
    BY <1>1, <1>6 DEF TextInv
  <2>2. /\ fed = pre \o u.buffer
        /\ Sound(spoken, u, pre, IF inflight = NoFuture THEN 0 ELSE MinNew)
    BY <2>1 DEF TextAt
  <2>3. pre \in Seq(Nat)
    BY <1>2, SeqMonotonic
  <2>4. u.committed = <<>> /\ Len(u.buffer) < MinSpeech
    BY DEF TooShort
  <2>5. \A i \in 1..Len(pre \o u.buffer) :
          ((pre \o u.buffer)[i] \in spoken /\ i + MinSpeech <= Len(pre \o u.buffer) + 1)
              => \E j \in DOMAIN u.text : FrameOf(u.text[j]) = (pre \o u.buffer)[i]
    BY <1>2, <1>3, <1>6, <2>2, <2>3, <2>4, SkippedMeans
  <2>6. QED
    BY <2>2, <2>5
<1>7. LossIsShort'
  BY <1>6 DEF LossIsShort
<1>8. QED
  BY <1>4, <1>5, <1>7

\* The blocking drain ends: with a result, without one to wait for, or in time.
LEMMA DrainWaitKeeps ==
    ASSUME GateInv, EngineInv, DrainWait, UNCHANGED <<gateVars, loopVars>>
    PROVE  EngineInv'
<1>1. PICK d \in DueCalls : EngineInvAt(d)
  BY DEF EngineInv
<1>2. /\ TypesInv /\ PhaseInv /\ TextInv /\ FreshInv /\ AllDecoded /\ LossIsShort
      /\ CallsInv(d) /\ SpecInv(d) /\ calls = CallsDue(d)
  BY <1>1 DEF EngineInvAt
<1>3. /\ phase = "drain" /\ inflight' = NoFuture
      /\ mode' = mode /\ utteranceId' = utteranceId /\ inUtterance' = inUtterance
      /\ spoken' = spoken /\ fed' = fed
      /\ clock' = clock /\ result' = result /\ calls' = calls /\ specFired' = specFired
  BY DEF DrainWait, gateVars, gateState, loopVars
<1>4. /\ inUtterance = FALSE /\ fresh = NoFuture /\ timeouts = 0
      /\ pool \in Seq(Decodes(Heard)) /\ Owns(inflight, pool, "inflight")
      /\ Owns(speculative, pool, "speculative") /\ Owns(fresh, pool, "fresh")
      /\ FutureOK(speculative)
  BY <1>2, <1>3 DEF PhaseInv, TypesInv
<1>5. NoFuture.state = "none"
  BY Future
<1>6. /\ "inflight" \in Owners \ {"nobody"} /\ "speculative" \in Owners \ {"nobody"}
  BY DEF Owners
<1>7. PICK q \in {pool, Orphan(pool, "inflight")} :
        /\ AfterTheDrain(q) /\ timeouts' \in 0..1
        /\ q \in Seq(Decodes(Heard)) /\ Free(q, "inflight")
        /\ Owns(speculative, q, "speculative") /\ Free(q, "fresh")
        /\ Audios(q, "speculative") = Audios(pool, "speculative")
  <2>1. Free(pool, "fresh")
    BY <1>4, <1>5 DEF Owns, Free
  <2>2. CASE (inflight = NoFuture \/ Settled(inflight)) /\ AfterTheDrain(pool) /\ timeouts' = timeouts
    <3>1. inflight.state # "running"
      BY <1>5, <2>2 DEF Settled
    <3>2. Free(pool, "inflight")
      BY <1>4, <3>1 DEF Owns, Free
    <3>3. QED
      BY <1>4, <2>1, <2>2, <3>2
  <2>3. CASE timeouts' = timeouts + 1 /\ AfterTheDrain(Orphan(pool, "inflight"))
    <3>1. Alone(pool, "inflight") /\ Alone(pool, "speculative") /\ Alone(pool, "fresh")
      BY <1>4 DEF Owns
    <3> DEFINE p == Orphan(pool, "inflight")
    <3>2. /\ p \in Seq(Decodes(Heard)) /\ Free(p, "inflight")
          /\ \A other : other # "inflight" /\ other # "nobody" /\ Alone(pool, other) =>
                 Alone(p, other) /\ Audios(p, other) = Audios(pool, other)
      BY <1>4, <1>6, <3>1, Freed
    <3> HIDE DEF p
    <3>3. /\ Alone(p, "speculative") /\ Audios(p, "speculative") = Audios(pool, "speculative")
          /\ Alone(p, "fresh") /\ Audios(p, "fresh") = Audios(pool, "fresh")
      BY <3>1, <3>2
    <3>4. Owns(speculative, p, "speculative") /\ Free(p, "fresh")
      BY <1>4, <2>1, <3>3 DEF Owns, Free
    <3>5. timeouts' \in 0..1
      BY <1>4, <2>3
    <3>6. QED
      BY <2>3, <3>2, <3>3, <3>4, <3>5 DEF p
  <2>4. QED
    BY <2>2, <2>3 DEF DrainWait
<1>8. CASE /\ TooShort /\ speculative' = NoFuture /\ pool' = Orphan(q, "speculative")
           /\ Finish("skipped", u.text) /\ fresh' = fresh
  <2>1. /\ u' = FreshUtterance /\ phase' = "idle"
        /\ last' = [outcome |-> "skipped", text |-> u.text, fed |-> fed, faults |-> u.faults]
    BY <1>8 DEF Finish
  <2>2. last' \in LastOf(Heard) /\ AllDecoded' /\ LossIsShort'
    BY <1>1, <1>3, <1>8, <2>1, SkippedText
  <2>3. Alone(q, "inflight") /\ Alone(q, "speculative") /\ Alone(q, "fresh")
    BY <1>7 DEF Owns, Free
  <2> DEFINE p == Orphan(q, "speculative")
  <2>4. /\ p \in Seq(Decodes(Heard)) /\ Free(p, "speculative")
        /\ \A other : other # "speculative" /\ other # "nobody" /\ Alone(q, other) =>
               Alone(p, other) /\ Audios(p, other) = Audios(q, other)
    BY <1>6, <1>7, <2>3, Freed
  <2> HIDE DEF p
  <2>5. Free(p, "inflight") /\ Free(p, "fresh")
    BY <1>7, <2>3, <2>4 DEF Free
  <2>6. pool' = p
    BY <1>8 DEF p
  <2>7. timeouts' \in 0..3
    BY <1>7
  <2>8. QED
    BY <1>1, <1>3, <1>4, <1>8, <2>1, <2>2, <2>4, <2>5, <2>6, <2>7, FinishKeeps
<1>9. CASE /\ ~TooShort /\ speculative # NoFuture /\ phase' = "speculative" /\ pool' = q
           /\ fresh' = fresh /\ speculative' = speculative /\ u' = u /\ last' = last
  <2>1. TypesInv'
    BY <1>2, <1>3, <1>5, <1>7, <1>9, TypesNext, Future DEF TypesInv
  <2>2. Owns(inflight', pool', "inflight") /\ Owns(fresh', pool', "fresh")
        /\ Owns(speculative', pool', "speculative")
    BY <1>3, <1>4, <1>5, <1>7, <1>9 DEF Owns, Free
  <2>3. PhaseInv'
    BY <1>3, <1>4, <1>7, <1>9, <2>2 DEF PhaseInv
  <2>4. TextInv'
    <3>1. Audios(pool', "inflight") = {}
      BY <1>7, <1>9 DEF Free
    <3>2. QED
      BY <1>2, <1>3, <1>9, <3>1, NothingInFlight
  <2>5. FreshInv'
    BY <1>4, <1>9, <2>3, NoFresh
  <2>6. AllDecoded' /\ LossIsShort'
    BY <1>2, <1>3, <1>9, LastSame
  <2>7. CallsInv(d)'
    BY <1>2, <1>3, <1>4, <1>9 DEF CallsInv
  <2>8. SpecInv(d)'
    BY <1>2, <1>3, <1>7, <1>9, SpecSame
  <2>9. QED
    BY <1>2, <1>3, <2>1, <2>3, <2>4, <2>5, <2>6, <2>7, <2>8 DEF EngineInv, EngineInvAt
<1>10. CASE /\ ~TooShort /\ speculative = NoFuture /\ phase' = "fresh" /\ fresh' = Running
            /\ speculative' = NoFuture /\ pool' = Append(q, Decode("fresh", u.buffer))
            /\ u' = u /\ last' = last
  <2>1. Free(q, "speculative")
    BY <1>5, <1>7, <1>10 DEF Owns, Free
  <2>2. timeouts' \in 0..2
    BY <1>7
  <2>3. phase \in {"drain", "speculative"}
    BY <1>3
  <2>4. QED
    BY <1>1, <1>3, <1>7, <1>10, <2>1, <2>2, <2>3, AfreshKeeps
<1>11. speculative # NoFuture => speculative.utt = utteranceId
  BY <1>4 DEF FutureOK
<1>12. QED
  BY <1>7, <1>8, <1>9, <1>10, <1>11 DEF AfterTheDrain

\* The wait for the speculative decode ends.
LEMMA SpeculativeWaitKeeps ==
    ASSUME GateInv, EngineInv, SpeculativeWait, UNCHANGED <<gateVars, loopVars>>
    PROVE  EngineInv'
<1>1. PICK d \in DueCalls : EngineInvAt(d)
  BY DEF EngineInv
<1>2. /\ TypesInv /\ PhaseInv /\ CallsInv(d) /\ SpecInv(d)
  BY <1>1 DEF EngineInvAt
<1>3. /\ phase = "speculative" /\ speculative' = NoFuture
      /\ mode' = mode /\ utteranceId' = utteranceId /\ inUtterance' = inUtterance
      /\ inflight' = inflight /\ spoken' = spoken /\ fed' = fed
      /\ clock' = clock /\ result' = result /\ calls' = calls
  BY DEF SpeculativeWait, gateVars, loopVars
<1>4. /\ inflight = NoFuture /\ fresh = NoFuture /\ speculative # NoFuture
      /\ timeouts \in 0..1 /\ pool \in Seq(Decodes(Heard))
      /\ Owns(inflight, pool, "inflight") /\ Owns(speculative, pool, "speculative")
      /\ Owns(fresh, pool, "fresh") /\ speculative \in Futures
  BY <1>2, <1>3 DEF PhaseInv, TypesInv, FutureOK
<1>5. NoFuture.state = "none" /\ "speculative" \in Owners \ {"nobody"}
  BY Future DEF Owners
<1>6. Free(pool, "inflight") /\ Free(pool, "fresh") /\ Alone(pool, "speculative")
  BY <1>4, <1>5 DEF Owns, Free
<1>7. CASE /\ speculative.state = "done" /\ Finish("final", FinalText(speculative.words))
           /\ fresh' = fresh /\ pool' = pool /\ timeouts' = timeouts
  <2>1. /\ u' = FreshUtterance /\ phase' = "idle"
        /\ last' = [outcome |-> "final", text |-> FinalText(speculative.words),
                    fed |-> fed, faults |-> u.faults]
    BY <1>7 DEF Finish
  <2>2. speculative.words \in Words
    BY <1>4 DEF Futures
  <2>3. u.faults = {} => speculative.words = SaidOf(spoken, u.buffer)
    <3>1. ~d.cancel
      BY <1>2, <1>3 DEF CallsInv
    <3>2. QED
      BY <1>2, <1>4, <1>7, <3>1 DEF SpecInv
  <2>4. last' \in LastOf(Heard) /\ AllDecoded' /\ LossIsShort'
    BY <1>1, <1>3, <2>1, <2>2, <2>3, FinalMeans
  <2>5. Free(pool, "speculative")
    BY <1>4, <1>7 DEF Owns, Free
  <2>6. timeouts' \in 0..3
    BY <1>4, <1>7
  <2>7. QED
    BY <1>1, <1>3, <1>4, <1>6, <1>7, <2>1, <2>4, <2>5, <2>6, FinishKeeps
<1>8. CASE /\ phase' = "fresh" /\ fresh' = Running
           /\ pool' = Append(Orphan(pool, "speculative"), Decode("fresh", u.buffer))
           /\ timeouts' = IF speculative.state = "running" THEN timeouts + 1 ELSE timeouts
           /\ u' = u /\ last' = last
  <2> DEFINE p == Orphan(pool, "speculative")
  <2>1. /\ p \in Seq(Decodes(Heard)) /\ Free(p, "speculative")
        /\ \A other : other # "speculative" /\ other # "nobody" /\ Alone(pool, other) =>
               Alone(p, other) /\ Audios(p, other) = Audios(pool, other)
    BY <1>4, <1>5, <1>6, Freed
  <2> HIDE DEF p
  <2>2. Free(p, "inflight") /\ Free(p, "fresh")
    BY <1>6, <2>1 DEF Free
  <2>3. pool' = Append(p, Decode("fresh", u.buffer))
    BY <1>8 DEF p
  <2>4. timeouts' \in 0..2 /\ phase \in {"drain", "speculative"}
    BY <1>3, <1>4, <1>8
  <2>5. QED
    BY <1>1, <1>3, <1>4, <1>8, <2>1, <2>2, <2>3, <2>4, AfreshKeeps
<1>9. QED
  BY <1>7, <1>8 DEF SpeculativeWait

\* The wait for finalize()'s own decode ends.
LEMMA FreshWaitKeeps ==
    ASSUME GateInv, EngineInv, FreshWait, UNCHANGED <<gateVars, loopVars>>
    PROVE  EngineInv'
<1>1. PICK d \in DueCalls : EngineInvAt(d)
  BY DEF EngineInv
<1>2. /\ TypesInv /\ PhaseInv /\ FreshInv
  BY <1>1 DEF EngineInvAt
<1>3. /\ phase = "fresh" /\ fresh' = NoFuture
      /\ mode' = mode /\ utteranceId' = utteranceId /\ inUtterance' = inUtterance
      /\ inflight' = inflight /\ speculative' = speculative /\ spoken' = spoken /\ fed' = fed
      /\ clock' = clock /\ result' = result /\ calls' = calls
  BY DEF FreshWait, gateVars, loopVars
<1>4. /\ inflight = NoFuture /\ speculative = NoFuture
      /\ timeouts \in 0..2 /\ pool \in Seq(Decodes(Heard))
      /\ Owns(inflight, pool, "inflight") /\ Owns(speculative, pool, "speculative")
      /\ Owns(fresh, pool, "fresh") /\ fresh \in Futures
      /\ u \in UtterancesOf(Heard) /\ fed \in Seq(Heard)
  BY <1>2, <1>3 DEF PhaseInv, TypesInv, FutureOK
<1>5. NoFuture.state = "none" /\ "fresh" \in Owners \ {"nobody"}
  BY Future DEF Owners
<1>6. Free(pool, "inflight") /\ Free(pool, "speculative") /\ Alone(pool, "fresh")
  BY <1>4, <1>5 DEF Owns, Free
<1>7. CASE /\ fresh.state = "done" /\ Finish("final", FinalText(fresh.words))
           /\ pool' = pool /\ timeouts' = timeouts
  <2>1. /\ u' = FreshUtterance /\ phase' = "idle"
        /\ last' = [outcome |-> "final", text |-> FinalText(fresh.words),
                    fed |-> fed, faults |-> u.faults]
    BY <1>7 DEF Finish
  <2>2. fresh.words \in Words
    BY <1>4 DEF Futures
  <2>3. fresh.words = SaidOf(spoken, u.buffer)
    BY <1>2, <1>7 DEF FreshInv
  <2>4. last' \in LastOf(Heard) /\ AllDecoded' /\ LossIsShort'
    BY <1>1, <1>3, <2>1, <2>2, <2>3, FinalMeans
  <2>5. Free(pool, "fresh")
    BY <1>4, <1>7 DEF Owns, Free
  <2>6. timeouts' \in 0..3
    BY <1>4, <1>7
  <2>7. QED
    BY <1>1, <1>3, <1>4, <1>6, <1>7, <2>1, <2>4, <2>5, <2>6, FinishKeeps
<1>8. CASE /\ Finish("failed", u.text) /\ pool' = Orphan(pool, "fresh")
           /\ timeouts' = IF fresh.state = "running" THEN timeouts + 1 ELSE timeouts
  <2>1. /\ u' = FreshUtterance /\ phase' = "idle"
        /\ last' = [outcome |-> "failed", text |-> u.text, fed |-> fed, faults |-> u.faults]
    BY <1>8 DEF Finish
  <2>2. last' \in LastOf(Heard)
    BY <1>4, <2>1 DEF LastOf, UtterancesOf
  <2>3. AllDecoded' /\ LossIsShort'
    BY <2>1 DEF AllDecoded, LossIsShort
  <2> DEFINE p == Orphan(pool, "fresh")
  <2>4. /\ p \in Seq(Decodes(Heard)) /\ Free(p, "fresh")
        /\ \A other : other # "fresh" /\ other # "nobody" /\ Alone(pool, other) =>
               Alone(p, other) /\ Audios(p, other) = Audios(pool, other)
    BY <1>4, <1>5, <1>6, Freed
  <2> HIDE DEF p
  <2>5. Free(p, "inflight") /\ Free(p, "speculative") /\ pool' = p
    BY <1>6, <1>8, <2>4 DEF Free, p
  <2>6. timeouts' \in 0..3
    BY <1>4, <1>8
  <2>7. QED
    BY <1>1, <1>3, <1>4, <1>8, <2>1, <2>2, <2>3, <2>4, <2>5, <2>6, FinishKeeps
<1>9. QED
  BY <1>7, <1>8 DEF FreshWait

\* What the gate says of a frame.
LEMMA FrameTells ==
    ASSUME GateInv, NEW p \in Levels, Process(p)
    PROVE  /\ clock' = clock + 1 /\ result'.speech \in Seq(0..(clock + 1))
           /\ result'.started =>
                 /\ ~inSpeech /\ ~result'.cancelled /\ ~result'.maybeEnded
                 /\ ~result'.ended /\ ~result'.restarted
           /\ result'.restarted => result'.ended
           /\ inSpeech =>
                 /\ result'.speech = <<clock + 1>>
                 /\ specFired /\ p # "low" => result'.cancelled
                 /\ result'.maybeEnded => specFired' \/ result'.ended
                 /\ specFired /\ p = "low" => specFired' \/ result'.ended
<1>1. /\ clock \in Nat /\ specFired \in BOOLEAN /\ inSpeech \in BOOLEAN /\ preRoll \in Seq(Nat)
      /\ RingIsRecent /\ clock' = clock + 1
  BY GateAssumption DEF GateInv, GateTypeOK, Process
<1>2. CASE Listen(p)
  BY <1>1, <1>2, EmptySeq DEF Listen, NoResult
<1>3. CASE Onset(p)
  <2>1. ~inSpeech /\ result' = [NoResult EXCEPT !.started = TRUE, !.speech = Append(preRoll, clock + 1)]
    BY <1>3 DEF Onset
  <2>2. Append(preRoll, clock + 1) \in Seq(0..(clock + 1))
    <3>1. Len(preRoll) \in Nat /\ \A i \in 1..Len(preRoll) : preRoll[i] \in Nat
      BY <1>1, LenProperties, ElementOfSeq
    <3>2. \A i \in 1..Len(preRoll) : preRoll[i] = clock - Len(preRoll) + i
      BY <1>1, <2>1 DEF RingIsRecent
    <3>3. \A i \in 1..Len(preRoll) : preRoll[i] \in 0..(clock + 1)
      BY <1>1, <3>1, <3>2
    <3>4. preRoll \in Seq(0..(clock + 1))
      BY <1>1, <3>3, SeqOfElements
    <3>5. clock + 1 \in 0..(clock + 1)
      BY <1>1
    <3>6. QED
      BY <3>4, <3>5, AppendProperties
  <2>3. QED
    BY <1>1, <2>1, <2>2 DEF NoResult
<1>4. ASSUME inSpeech, result'.speech = <<clock + 1>>
      PROVE  result'.speech \in Seq(0..(clock + 1))
  <2>1. clock + 1 \in 0..(clock + 1)
    BY <1>1
  <2>2. QED
    BY <1>4, <2>1
<1>5. CASE Continue(p)
  <2>1. inSpeech /\ result' = Speaking(p) /\ specFired' = (StillFired(p) \/ Announces(p))
    BY <1>5 DEF Continue
  <2>2. /\ result'.speech = <<clock + 1>> /\ result'.started = FALSE /\ result'.restarted = FALSE
        /\ result'.cancelled = (specFired /\ p # "low") /\ result'.maybeEnded = Announces(p)
    BY <2>1 DEF Speaking, NoResult
  <2>3. specFired /\ p = "low" => StillFired(p)
    BY DEF StillFired
  <2>4. QED
    BY <1>1, <1>4, <2>1, <2>2, <2>3
<1>6. CASE EndOnSilence(p)
  <2>1. inSpeech /\ result' = Ended(Speaking(p), FALSE)
    BY <1>6 DEF EndOnSilence
  <2>2. /\ result'.speech = <<clock + 1>> /\ result'.started = FALSE /\ result'.restarted = FALSE
        /\ result'.cancelled = (specFired /\ p # "low") /\ result'.ended = TRUE
    BY <2>1 DEF Ended, Speaking, NoResult
  <2>3. QED
    BY <1>1, <1>4, <2>1, <2>2
<1>7. CASE Rollover(p)
  <2>1. inSpeech /\ result' = [Ended(Speaking(p), TRUE) EXCEPT !.restarted = TRUE]
    BY <1>7 DEF Rollover
  <2>2. /\ result'.speech = <<clock + 1>> /\ result'.started = FALSE
        /\ result'.cancelled = (specFired /\ p # "low") /\ result'.ended = TRUE
    BY <2>1 DEF Ended, Speaking, NoResult
  <2>3. QED
    BY <1>1, <1>4, <2>1, <2>2
<1>8. QED
  BY <1>2, <1>3, <1>5, <1>6, <1>7 DEF Process

\* Frames to come leave what was said as it is.
LEMMA LastSpoken ==
    ASSUME AllDecoded, LossIsShort, last \in LastOf(Heard), last' = last, mode' = mode,
           Alike(Heard, spoken, spoken')
    PROVE  AllDecoded' /\ LossIsShort'
<1>1. last.fed \in Seq(Heard)
  BY DEF LastOf
<1>2. SpokenOf(spoken, last.fed) = SpokenOf(spoken', last.fed)
  BY <1>1, SaidSame
<1>3. SpokenIn(last.fed)' = SpokenOf(spoken', last.fed)
  BY DEF SpokenIn, SpokenAt, SpokenOf, PlacesIn
<1>4. SpokenIn(last.fed) = SpokenOf(spoken, last.fed)
  BY SaidIs
<1>5. AllDecoded'
  BY <1>2, <1>3, <1>4 DEF AllDecoded
<1>6. \A i \in 1..Len(last.fed) : last.fed[i] \in spoken <=> last.fed[i] \in spoken'
  <2>1. \A i \in 1..Len(last.fed) : last.fed[i] \in Heard
    BY <1>1, ElementOfSeq
  <2>2. QED
    BY <2>1 DEF Alike
<1>7. LossIsShort'
  BY <1>6 DEF LossIsShort
<1>8. QED
  BY <1>5, <1>7

\* The open utterance, too.
LEMMA TextSpoken ==
    ASSUME GateInv, TextInv, TypesInv, mode' = mode, u' = u, fed' = fed, inflight' = inflight,
           pool' = pool, inUtterance' = inUtterance, phase' = phase,
           Heard \subseteq Heard', Alike(Heard, spoken, spoken')
    PROVE  TextInv'
<1> SUFFICES ASSUME inUtterance \/ phase # "idle", "cut short" \notin u.faults PROVE TextInv'
  BY DEF TextInv
<1>1. PICK pre \in Seq(Heard) : TextAt(pre)
  BY DEF TextInv
<1>2. Heard \in SUBSET Nat /\ u \in UtterancesOf(Heard) /\ u.buffer \in Seq(Heard)
  BY HeardIsNat DEF TypesInv, UtterancesOf
<1>3. Sound(spoken', u, pre, IF inflight = NoFuture THEN 0 ELSE MinNew)
  <2>1. Sound(spoken, u, pre, IF inflight = NoFuture THEN 0 ELSE MinNew)
    BY <1>1 DEF TextAt
  <2>2. QED
    BY <1>2, <2>1, SoundSpoken
<1>4. SaidOf(spoken, u.buffer) = SaidOf(spoken', u.buffer)
  BY <1>2, SaidSame
<1>5. pre \in Seq(Heard')
  BY SeqMonotonic
<1>6. \A a \in Audios(pool, "inflight") :
         Len(a) = u.decodedLen /\ \E more \in Seq(Heard') : u.buffer = a \o more
  <2> SUFFICES ASSUME NEW a \in Audios(pool, "inflight")
               PROVE  Len(a) = u.decodedLen /\ \E more \in Seq(Heard') : u.buffer = a \o more
    OBVIOUS
  <2>1. PICK more \in Seq(Heard) : Len(a) = u.decodedLen /\ u.buffer = a \o more
    BY <1>1 DEF TextAt
  <2>2. more \in Seq(Heard')
    BY SeqMonotonic
  <2>3. QED
    BY <2>1, <2>2
<1>7. inflight.state = "done" =>
          /\ WordsOf(inflight.words, SaidOf(spoken', u.buffer))
          /\ \A i \in 1..Len(inflight.words) : SaidOf(spoken', u.buffer)[i].end <= u.decodedLen
  BY <1>1, <1>4 DEF TextAt
<1>8. fed = pre \o u.buffer /\ (inflight # NoFuture => u.firstDecode)
  BY <1>1 DEF TextAt
<1>9. QED
  BY <1>3, <1>5, <1>6, <1>7, <1>8, TextNext

\* The gate takes a frame.
LEMMA FrameKeeps ==
    ASSUME GateInv, GateInv', GateAndEngineAgree, EngineInv, NextFrame
    PROVE  EngineInv'
<1>1. PICK d \in DueCalls : EngineInvAt(d)
  BY DEF EngineInv
<1>2. /\ TypesInv /\ PhaseInv /\ TextInv /\ FreshInv /\ AllDecoded /\ LossIsShort
      /\ CallsInv(d) /\ SpecInv(d) /\ calls = CallsDue(d)
  BY <1>1 DEF EngineInvAt
<1>3. PICK p \in Levels :
        /\ Process(p)
        /\ spoken' = IF p = "low" THEN spoken ELSE spoken \cup {clock + 1}
  BY DEF NextFrame
<1>4. /\ phase = "idle" /\ calls = <<>> /\ (inUtterance <=> inSpeech)
      /\ calls' = CallsFor(result')
      /\ mode' = mode /\ utteranceId' = utteranceId /\ inUtterance' = inUtterance /\ u' = u
      /\ inflight' = inflight /\ speculative' = speculative /\ fresh' = fresh /\ pool' = pool
      /\ phase' = phase /\ fed' = fed /\ timeouts' = timeouts /\ last' = last
  BY DEF NextFrame, Ready, GateAndEngineAgree
<1>5. ~d.cancel /\ ~d.finalize /\ ~d.start /\ ~d.feed /\ ~d.speculate /\ ~d.again
  BY <1>1, <1>4, NoCallsDue DEF NoneDue
<1>6. /\ clock' = clock + 1 /\ result'.speech \in Seq(0..(clock + 1))
      /\ result'.started =>
            /\ ~inSpeech /\ ~result'.cancelled /\ ~result'.maybeEnded
            /\ ~result'.ended /\ ~result'.restarted
      /\ result'.restarted => result'.ended
      /\ inSpeech =>
            /\ result'.speech = <<clock + 1>>
            /\ specFired /\ p # "low" => result'.cancelled
            /\ result'.maybeEnded => specFired' \/ result'.ended
            /\ specFired /\ p = "low" => specFired' \/ result'.ended
  BY <1>3, FrameTells
<1>7. PICK e \in DueCalls :
        /\ calls' = CallsDue(e)
        /\ e.start = result'.started /\ e.cancel = result'.cancelled
        /\ e.speculate = result'.maybeEnded /\ e.finalize = result'.ended
        /\ e.again = result'.restarted
  <2>1. result' \in GateResult
    BY DEF GateInv, GateTypeOK
  <2>2. QED
    BY <1>4, <2>1, DueAfter
<1>8. /\ clock \in Nat /\ Heard = 0..clock /\ Heard' = 0..(clock + 1) /\ Heard \subseteq Heard'
      /\ spoken \subseteq Heard /\ clock + 1 \notin Heard /\ clock + 1 \in Heard'
  BY <1>2, <1>6, HeardIsNat DEF Heard, TypesInv
<1>9. Alike(Heard, spoken, spoken') /\ spoken' \subseteq Heard'
  BY <1>3, <1>8 DEF Alike
<1>10. TypesInv'
  <2>1. Seq(Heard) \subseteq Seq(Heard')
    BY <1>8, SeqMonotonic
  <2>2. u' \in UtterancesOf(Heard') /\ last' \in LastOf(Heard')
    BY <1>2, <1>4, <2>1 DEF TypesInv, UtterancesOf, LastOf
  <2>3. pool' \in Seq(Decodes(Heard'))
    <3>1. Decodes(Heard) \subseteq Decodes(Heard')
      BY <2>1 DEF Decodes
    <3>2. pool \in Seq(Decodes(Heard))
      BY <1>2 DEF TypesInv
    <3>3. QED
      BY <1>4, <3>1, <3>2, SeqMonotonic
  <2>4. FutureOK(inflight)' /\ FutureOK(speculative)' /\ FutureOK(fresh)'
    BY <1>2, <1>4 DEF TypesInv, FutureOK, NoFuture
  <2>5. result'.speech \in Seq(Heard')
    BY <1>6, <1>8
  <2>6. fed' \in Seq(Heard')
    BY <1>2, <1>4, <2>1 DEF TypesInv
  <2>7. /\ mode' \in {"commit", "correcting"} /\ utteranceId' \in Nat /\ inUtterance' \in BOOLEAN
    BY <1>2, <1>4 DEF TypesInv
  <2>8. QED
    BY <1>9, <2>2, <2>3, <2>4, <2>5, <2>6, <2>7 DEF TypesInv
<1>11. PhaseInv'
  BY <1>2, <1>4 DEF PhaseInv, NoFuture, FreshUtterance
<1>12. TextInv'
  BY <1>2, <1>4, <1>8, <1>9, TextSpoken
<1>13. FreshInv'
  BY <1>2, <1>4, <1>11, NoFresh DEF PhaseInv
<1>14. AllDecoded' /\ LossIsShort'
  BY <1>2, <1>4, <1>9, LastSpoken DEF TypesInv
<1>15. CallsInv(e)'
  <2>1. e.start => inUtterance' = FALSE
    BY <1>2, <1>4, <1>6, <1>7 DEF TypesInv
  <2>2. (speculative # NoFuture /\ inUtterance) => specFired' \/ e.cancel \/ e.finalize
    BY <1>2, <1>4, <1>5, <1>6, <1>7 DEF CallsInv
  <2>3. (e.speculate /\ inUtterance) => specFired' \/ e.finalize
    BY <1>4, <1>6, <1>7
  <2>4. QED
    BY <1>4, <1>6, <1>7, <2>1, <2>2, <2>3 DEF CallsInv
<1>16. SpecInv(e)'
  <2> SUFFICES ASSUME speculative # NoFuture, "cut under speculation" \notin u.faults, ~e.cancel
               PROVE  SpecInv(e)'
    BY <1>4 DEF SpecInv, NoFuture
  <2>1. inUtterance
    BY <1>2, <1>4 DEF PhaseInv, TypesInv
  <2>2. specFired
    BY <1>2, <1>5, <2>1 DEF CallsInv
  <2>3. p = "low" /\ spoken' = spoken /\ result'.speech = <<clock + 1>>
    BY <1>3, <1>4, <1>6, <1>7, <2>1, <2>2
  <2>4. Silent(result'.speech, spoken')
    <3>1. clock + 1 \notin spoken
      BY <1>8
    <3>2. QED
      BY <2>3, <3>1, SilentFrame
  <2>5. /\ \A a \in Audios(pool, "speculative") : SaidOf(spoken, a) = SaidOf(spoken, u.buffer)
        /\ speculative.state = "done" => speculative.words = SaidOf(spoken, u.buffer)
    BY <1>2, <1>5 DEF SpecInv
  <2>6. QED
    BY <1>4, <2>3, <2>4, <2>5 DEF SpecInv
<1>17. QED
  BY <1>7, <1>10, <1>11, <1>12, <1>13, <1>14, <1>15, <1>16 DEF EngineInv, EngineInvAt

\* Every step of the session keeps the engine's invariant.
LEMMA EngineStep ==
    ASSUME GateInv, GateInv', GateAndEngineAgree, EngineInv, [Next]_vars
    PROVE  EngineInv'
<1>1. PICK d \in DueCalls : EngineInvAt(d)
  BY DEF EngineInv
<1>2. CASE NextFrame
  BY <1>2, FrameKeeps
<1>3. CASE CallStart
  BY <1>1, <1>3, StartKeeps
<1>4. CASE CallFeed
  BY <1>1, <1>4, FeedKeeps
<1>5. CASE CallCancel
  BY <1>1, <1>5, CancelKeeps
<1>6. CASE CallSpeculate
  BY <1>1, <1>6, SpeculateKeeps
<1>7. CASE CallFinalize
  BY <1>1, <1>7, FinalizeKeeps
<1>8. CASE CallTick
  BY <1>8, TickKeeps
<1>9. CASE Waiting
  <2>1. UNCHANGED <<gateVars, loopVars>> /\ (DrainWait \/ SpeculativeWait \/ FreshWait)
    BY <1>9 DEF Waiting, FinalizeWait
  <2>2. QED
    BY <2>1, DrainWaitKeeps, SpeculativeWaitKeeps, FreshWaitKeeps
<1>10. CASE Decoding
  BY <1>10, DecodingKeeps
<1>11. CASE StopLoop
  BY <1>11, StopKeeps
<1>12. CASE LoopFails
  BY <1>12, FailKeeps
<1>13. CASE Done \/ UNCHANGED vars
  BY <1>13, StutterKeeps DEF Done
<1>14. QED
  BY <1>2, <1>3, <1>4, <1>5, <1>6, <1>7, <1>8, <1>9, <1>10, <1>11, <1>12, <1>13 DEF Next

\* So it holds throughout.
LEMMA EngineInvariance == Spec => []EngineInv
<1>1. GateInv /\ GateInv' /\ GateAndEngineAgree /\ EngineInv /\ [Next]_vars => EngineInv'
  BY EngineStep
<1>2. QED
  BY <1>1, Initially, GateInSession, SessionKeepsInStep, PTL DEF Spec

-----------------------------------------------------------------------------
(* What follows from it.                                                   *)

\* The state of the engine has its types, every future is of the current
\* utterance, a running one has exactly its decode in the pool, and finalize()
\* gives up on at most three decodes.
THEOREM EngineTypes == Spec => []SessionTypeOK
<1>1. ASSUME GateInv, EngineInv
      PROVE  SessionTypeOK
  <2>1. PICK d \in DueCalls : EngineInvAt(d)
    BY <1>1 DEF EngineInv
  <2>2. TypesInv /\ PhaseInv
    BY <2>1 DEF EngineInvAt
  <2>3. Heard \in SUBSET Nat /\ Heard \subseteq Frames /\ Seq(Heard) \subseteq Seq(Frames)
    BY <1>1, HeardIsNat, SeqMonotonic DEF Frames
  <2>4. /\ u \in [buffer: Seq(Frames), committed: Words, prevNorm: TextsOfWords,
                  decodedLen: Nat, firstDecode: BOOLEAN, trimmed: TextsOfWords,
                  text: TextsOfWords, faults: SUBSET Faults]
    BY <2>2, <2>3 DEF TypesInv, UtterancesOf
  <2>5. /\ last \in [outcome: {"none", "final", "skipped", "failed"}, text: TextsOfWords,
                     fed: Seq(Frames), faults: SUBSET Faults]
    BY <2>2, <2>3 DEF TypesInv, LastOf
  <2>6. pool \in Seq([of: {"nobody", "inflight", "speculative", "fresh"}, audio: Seq(Frames)])
    <3> DEFINE Those == [of: {"nobody", "inflight", "speculative", "fresh"}, audio: Seq(Frames)]
    <3>1. Decodes(Heard) \subseteq Those
      BY <2>3 DEF Decodes, Owners
    <3>2. pool \in Seq(Decodes(Heard))
      BY <2>2 DEF TypesInv
    <3> HIDE DEF Those
    <3>3. pool \in Seq(Those)
      BY <3>1, <3>2, SeqMonotonic
    <3>4. QED
      BY <3>3 DEF Those
  <2>7. FuturesAreCurrent
    <3>1. \A f \in {inflight, speculative, fresh} : f # NoFuture => f.utt = utteranceId
      BY <2>2 DEF TypesInv, FutureOK
    <3>2. (~inUtterance /\ phase = "idle") =>
              inflight = NoFuture /\ speculative = NoFuture /\ fresh = NoFuture
      BY <2>2 DEF PhaseInv, TypesInv
    <3>3. ASSUME NEW of, NEW f, Owns(f, pool, of)
          PROVE  LET mine == {i \in DOMAIN pool : pool[i].of = of}
                 IN  IF f.state = "running" THEN \E i \in mine : mine = {i} ELSE mine = {}
      <4>1. DOMAIN pool = 1..Len(pool)
        BY <2>2, LenProperties DEF TypesInv
      <4>2. QED
        BY <3>3, <4>1, OwnsMeans, Zenon
    <3>4. /\ Owns(inflight, pool, "inflight") /\ Owns(speculative, pool, "speculative")
          /\ Owns(fresh, pool, "fresh")
      BY <2>2 DEF PhaseInv
    <3>5. QED
      BY <3>1, <3>2, <3>3, <3>4 DEF FuturesAreCurrent
  <2>8. /\ mode \in {"commit", "correcting"} /\ utteranceId \in Nat /\ inUtterance \in BOOLEAN
        /\ inflight \in Futures /\ speculative \in Futures /\ fresh \in Futures
        /\ phase \in {"idle", "drain", "speculative", "fresh"}
        /\ spoken \subseteq Frames /\ fed \in Seq(Frames) /\ timeouts \in 0..3
    BY <2>2, <2>3 DEF TypesInv, PhaseInv, FutureOK
  <2>9. QED
    BY <2>4, <2>5, <2>6, <2>7, <2>8 DEF SessionTypeOK
<1>2. GateInv /\ EngineInv => SessionTypeOK
  BY <1>1
<1>3. QED
  BY <1>2, GateInSession, EngineInvariance, PTL

\* Whatever the hypotheses are and however often the buffer is cut, committed and
\* prev_norm list the words of the buffer from its first one on, and the trimmed
\* words are those before it.
THEOREM CommittedWordsStayAligned == Spec => []HypothesisAligned
<1>1. ASSUME GateInv, EngineInv
      PROVE  HypothesisAligned
  <2>1. PICK d \in DueCalls : EngineInvAt(d)
    BY <1>1 DEF EngineInv
  <2>2. TypesInv /\ TextInv
    BY <2>1 DEF EngineInvAt
  <2> DEFINE words == Said(u.buffer)
             before == SpokenIn(SubSeq(fed, 1, Len(fed) - Len(u.buffer)))
  <2> SUFFICES ASSUME inUtterance, "cut short" \notin u.faults
               PROVE  /\ Len(u.committed) <= Len(words) /\ Len(u.prevNorm) <= Len(words)
                      /\ \A i \in DOMAIN u.committed :
                            /\ FrameOf(u.committed[i].text) = words[i].text
                            /\ u.committed[i].end = words[i].end
                      /\ \A i \in DOMAIN u.prevNorm : FrameOf(u.prevNorm[i]) = words[i].text
                      /\ FramesOf(u.trimmed) = before
    BY DEF HypothesisAligned
  <2>3. PICK pre \in Seq(Heard) : TextAt(pre)
    BY <2>2 DEF TextInv
  <2>4. /\ fed = pre \o u.buffer
        /\ WordsOf(u.committed, SaidOf(spoken, u.buffer))
        /\ HeardAs(u.prevNorm, SaidOf(spoken, u.buffer))
        /\ FramesOf(u.trimmed) = SpokenOf(spoken, pre)
    BY <2>3 DEF TextAt, Sound, Aligned
  <2>5. u.buffer \in Seq(Heard) /\ u.committed \in Words /\ u.prevNorm \in TextsOfWords
    BY <2>2 DEF TypesInv, UtterancesOf
  <2>6. DOMAIN u.committed = 1..Len(u.committed) /\ DOMAIN u.prevNorm = 1..Len(u.prevNorm)
    BY <2>5, LenProperties DEF Words, TextsOfWords
  <2>7. words = SaidOf(spoken, u.buffer)
    BY SaidIs
  <2>8. SubSeq(fed, 1, Len(fed) - Len(u.buffer)) = pre
    <3>1. InParts(Heard, fed, pre, u.buffer)
      BY <2>4, <2>5 DEF InParts
    <3>2. QED
      BY <3>1, FirstPart
  <2>9. FramesOf(u.trimmed) = before
    BY <2>4, <2>8, SaidIs DEF FramesOf
  <2>10. QED
    BY <2>4, <2>6, <2>7, <2>9 DEF WordsOf, HeardAs
<1>2. GateInv /\ EngineInv => HypothesisAligned
  BY <1>1
<1>3. QED
  BY <1>2, GateInSession, EngineInvariance, PTL

\* An utterance decoded to its end becomes exactly the words said in it, in
\* order; one given up as too short loses no more than the words at its end.
THEOREM NothingSaidIsLost == Spec => []NothingLost
<1>1. EngineInv => NothingLost
  BY DEF EngineInv, EngineInvAt, NothingLost
<1>2. QED
  BY <1>1, EngineInvariance, PTL
=============================================================================
