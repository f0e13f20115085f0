---------------------------- MODULE OutputProofs ----------------------------
(***************************************************************************)
(* Proofs about what is typed.                                             *)
(*                                                                         *)
(* OutputInv is inductive, in three parts.  TypingInv: every text in use   *)
(* is made of the utterances that have begun, the emitter knows the screen *)
(* and leaves settled text alone (EmitterOK, which each of its methods     *)
(* keeps), no transform is in flight while the user speaks, and then the   *)
(* region and the text published are of the open utterance.  HistoryInv:   *)
(* what was owed, stranded or excused has begun.  PoolInv: no task is for  *)
(* a later generation than the one that is on, and no context is older     *)
(* than the utterance it is for; without these, that a transform takes a   *)
(* context of its own utterance is not inductive.                          *)
(*                                                                         *)
(* SoundInv says, while no device failed, that what is needed is on the    *)
(* screen or will be when the text published is rendered: while the user   *)
(* speaks it is in the settled text and the previous region (Listening);   *)
(* when a part of a reply was published it is in the text to put back, and *)
(* will be in the whole reply (HalfWay); before that it is in the region   *)
(* (Untouched); and with nothing in flight it is shown or published        *)
(* (ToShow).  It is inductive while a rewrite of both regions is within    *)
(* the cap on backspaces (Fits), and RoomInv bounds the regions.           *)
(***************************************************************************)
EXTENDS Output, SequenceTheorems, WellFoundedInduction, TLAPS

-----------------------------------------------------------------------------
(* Sequences.                                                              *)

LEMMA Smallest ==
    ASSUME NEW T \in SUBSET Nat, T # {}
    PROVE  \E n \in T : \A m \in T : n <= m
<1>1. PICK n \in T : \A m \in T : ~(<<m, n>> \in OpToRel(<, Nat))
  BY NatLessThanWellFounded, WFMin
<1>2. \A m \in T : ~(m < n)
  BY <1>1 DEF OpToRel
<1>3. QED
  BY <1>2

\* The parts of a text.
LEMMA PartOf ==
    ASSUME NEW T, NEW a \in Seq(T), NEW m \in 0..Len(a), NEW n \in m..Len(a)
    PROVE  /\ SubSeq(a, m + 1, n) \in Seq(T) /\ Len(SubSeq(a, m + 1, n)) = n - m
           /\ \A i \in 1..(n - m) : SubSeq(a, m + 1, n)[i] = a[m + i]
<1>1. Len(a) \in Nat /\ m \in Nat /\ n \in Nat /\ m <= n
  BY LenProperties
<1>2. \A i \in (m + 1)..n : a[i] \in T
  BY <1>1, ElementOfSeq
<1>3. /\ SubSeq(a, m + 1, n) \in Seq(T)
      /\ Len(SubSeq(a, m + 1, n)) = IF m + 1 <= n THEN n - (m + 1) + 1 ELSE 0
      /\ \A i \in 1..(n - (m + 1) + 1) : SubSeq(a, m + 1, n)[i] = a[m + 1 + i - 1]
  BY <1>1, <1>2, SubSeqProperties
<1>4. QED
  BY <1>1, <1>3

LEMMA SameIs ==
    ASSUME NEW T, NEW a \in Seq(T), NEW b \in Seq(T), NEW n \in Nat, n <= Len(a), n <= Len(b)
    PROVE  Same(a, b, n) <=> \A i \in 1..n : a[i] = b[i]
<1>1. /\ SubSeq(a, 1, n) \in Seq(T) /\ Len(SubSeq(a, 1, n)) = n
      /\ \A i \in 1..n : SubSeq(a, 1, n)[i] = a[i]
  BY LenProperties, PartOf, 0 + 1 = 1
<1>2. /\ SubSeq(b, 1, n) \in Seq(T) /\ Len(SubSeq(b, 1, n)) = n
      /\ \A i \in 1..n : SubSeq(b, 1, n)[i] = b[i]
  BY LenProperties, PartOf, 0 + 1 = 1
<1>3. (\A i \in 1..n : a[i] = b[i]) => SubSeq(a, 1, n) = SubSeq(b, 1, n)
  BY <1>1, <1>2, SeqEqual
<1>4. QED
  BY <1>1, <1>2, <1>3 DEF Same

\* _common_prefix_len
LEMMA CommonIs ==
    ASSUME NEW T, NEW a \in Seq(T), NEW b \in Seq(T)
    PROVE  /\ Common(a, b) \in 0..Len(a) /\ Common(a, b) <= Len(b)
           /\ Same(a, b, Common(a, b))
<1> DEFINE Ends(n) == n <= Len(b) /\ (n = Len(a) \/ n = Len(b) \/ a[n + 1] # b[n + 1])
           ends == {n \in 0..Len(a) : Ends(n)}
<1>1. Len(a) \in Nat /\ Len(b) \in Nat
  BY LenProperties
<1>2. ends \in SUBSET Nat /\ ends # {}
  <2>1. Len(a) <= Len(b) => Len(a) \in ends
    BY <1>1
  <2>2. Len(b) < Len(a) => Len(b) \in ends
    BY <1>1
  <2>3. QED
    BY <1>1, <2>1, <2>2
<1>3. PICK n \in ends : \A m \in ends : n <= m
  <2> HIDE DEF ends
  <2>1. QED
    BY <1>2, Smallest
<1>4. \A i \in 1..n : a[i] = b[i]
  <2> SUFFICES ASSUME NEW i \in 1..n, a[i] # b[i] PROVE FALSE
    OBVIOUS
  <2>1. n \in Nat /\ i \in Nat /\ i - 1 \in ends
    BY <1>1, <1>3
  <2>2. n <= i - 1
    BY <1>3, <2>1
  <2>3. QED
    BY <2>1, <2>2
<1>5. /\ n \in 0..Len(a) /\ n <= Len(b) /\ Same(a, b, n)
      /\ n = Len(a) \/ n = Len(b) \/ a[n + 1] # b[n + 1]
  BY <1>1, <1>3, <1>4, SameIs
<1>6. QED
  BY <1>5 DEF Common

\* What the device leaves when it deletes the end of a text.
LEMMA WithoutIs ==
    ASSUME NEW T, NEW a \in Seq(T), NEW n \in 0..Len(a)
    PROVE  /\ Without(a, n) \in Seq(T) /\ Len(Without(a, n)) = Len(a) - n
           /\ \A i \in 1..(Len(a) - n) : Without(a, n)[i] = a[i]
<1>1. Len(a) \in Nat /\ Len(a) - n \in 0..Len(a)
  BY LenProperties
<1>2. QED
  BY <1>1, PartOf, 0 + 1 = 1 DEF Without

\* Texts that begin with another.
BeginsWith(a, b) == Len(b) <= Len(a) /\ Same(a, b, Len(b))

LEMMA BeginsIs ==
    ASSUME NEW T, NEW a \in Seq(T), NEW b \in Seq(T)
    PROVE  BeginsWith(a, b) <=> Len(b) <= Len(a) /\ \A i \in 1..Len(b) : a[i] = b[i]
  BY LenProperties, SameIs DEF BeginsWith

\* A cut no deeper than the second part leaves the first, and so does typing.
LEMMA CutAndTyped ==
    ASSUME NEW T, NEW a \in Seq(T), NEW b \in Seq(T), Len(b) <= Len(a), BeginsWith(a, b),
           NEW n \in 0..(Len(a) - Len(b)), NEW c \in Seq(T)
    PROVE  /\ BeginsWith(Without(a, n), b) /\ Without(a, n) \in Seq(T)
           /\ BeginsWith(Without(a, n) \o c, b) /\ Without(a, n) \o c \in Seq(T)
<1> DEFINE w == Without(a, n)
<1>1. Len(a) \in Nat /\ Len(b) \in Nat /\ Len(c) \in Nat /\ n \in 0..Len(a)
  BY LenProperties
<1>2. w \in Seq(T) /\ Len(w) = Len(a) - n /\ \A i \in 1..(Len(a) - n) : w[i] = a[i]
  BY <1>1, WithoutIs
<1> HIDE DEF w
<1>3. /\ w \o c \in Seq(T) /\ Len(w \o c) = Len(w) + Len(c)
      /\ \A i \in 1..(Len(w) + Len(c)) : (w \o c)[i] = IF i <= Len(w) THEN w[i] ELSE c[i - Len(w)]
  BY <1>2, ConcatProperties
<1>4. \A i \in 1..Len(b) : a[i] = b[i]
  BY BeginsIs
<1>5. BeginsWith(w, b)
  BY <1>1, <1>2, <1>4, BeginsIs
<1>6. BeginsWith(w \o c, b)
  <2>1. Len(b) <= Len(w \o c) /\ \A i \in 1..Len(b) : (w \o c)[i] = b[i]
    BY <1>1, <1>2, <1>3, <1>4
  <2>2. QED
    BY <1>3, <2>1, BeginsIs
<1>7. QED
  BY <1>2, <1>3, <1>5, <1>6 DEF w

LEMMA ConcatBegins ==
    ASSUME NEW T, NEW a \in Seq(T), NEW b \in Seq(T)
    PROVE  BeginsWith(a \o b, a) /\ BeginsWith(a, a) /\ a \o b \in Seq(T)
           /\ Len(a \o b) = Len(a) + Len(b) /\ Len(a) \in Nat /\ Len(b) \in Nat
<1>1. /\ a \o b \in Seq(T) /\ Len(a \o b) = Len(a) + Len(b)
      /\ \A i \in 1..(Len(a) + Len(b)) : (a \o b)[i] = IF i <= Len(a) THEN a[i] ELSE b[i - Len(a)]
      /\ Len(a) \in Nat /\ Len(b) \in Nat
  BY ConcatProperties, LenProperties
<1>2. BeginsWith(a, a)
  BY <1>1, BeginsIs
<1> DEFINE c == a \o b
<1>3. c \in Seq(T) /\ Len(a) <= Len(c) /\ \A i \in 1..Len(a) : c[i] = a[i]
  BY <1>1
<1> HIDE DEF c
<1>4. BeginsWith(c, a)
  BY <1>3, BeginsIs
<1>5. QED
  BY <1>1, <1>2, <1>4 DEF c

\* Deleting the end of the second part leaves the beginning of it.
LEMMA CutOfConcat ==
    ASSUME NEW T, NEW a \in Seq(T), NEW b \in Seq(T), NEW n \in 0..Len(b)
    PROVE  Without(a \o b, Len(b) - n) = a \o SubSeq(b, 1, n)
<1>1. /\ a \o b \in Seq(T) /\ Len(a \o b) = Len(a) + Len(b)
      /\ \A i \in 1..(Len(a) + Len(b)) : (a \o b)[i] = IF i <= Len(a) THEN a[i] ELSE b[i - Len(a)]
      /\ Len(a) \in Nat /\ Len(b) \in Nat
  BY ConcatProperties, LenProperties
<1> DEFINE l == Without(a \o b, Len(b) - n)
           c == SubSeq(b, 1, n)
           r == a \o c
<1>2. c \in Seq(T) /\ Len(c) = n /\ \A i \in 1..n : c[i] = b[i]
  BY <1>1, PartOf, 0 + 1 = 1
<1>3. Len(b) - n \in 0..Len(a \o b)
  BY <1>1
<1>4. l \in Seq(T) /\ Len(l) = Len(a) + n /\ \A i \in 1..(Len(a) + n) : l[i] = (a \o b)[i]
  <2> DEFINE d == a \o b
  <2>1. d \in Seq(T) /\ Len(d) = Len(a) + Len(b) /\ Len(b) - n \in 0..Len(d)
    BY <1>1, <1>3
  <2> HIDE DEF d
  <2>2. /\ Without(d, Len(b) - n) \in Seq(T) /\ Len(Without(d, Len(b) - n)) = Len(d) - (Len(b) - n)
        /\ \A i \in 1..(Len(d) - (Len(b) - n)) : Without(d, Len(b) - n)[i] = d[i]
    BY <2>1, WithoutIs
  <2>3. Len(d) - (Len(b) - n) = Len(a) + n
    BY <1>1, <2>1
  <2>4. QED
    BY <2>2, <2>3 DEF d
<1> HIDE DEF l, c
<1>5. /\ r \in Seq(T) /\ Len(r) = Len(a) + n
      /\ \A i \in 1..(Len(a) + n) : r[i] = IF i <= Len(a) THEN a[i] ELSE c[i - Len(a)]
  BY <1>2, ConcatProperties
<1> HIDE DEF r
<1>6. ASSUME NEW i \in 1..(Len(a) + n) PROVE l[i] = r[i]
  <2>1. i \in 1..(Len(a) + Len(b)) /\ (~(i <= Len(a)) => i - Len(a) \in 1..n)
    BY <1>1
  <2>2. l[i] = IF i <= Len(a) THEN a[i] ELSE b[i - Len(a)]
    BY <1>1, <1>4, <2>1, Zenon
  <2>3. QED
    BY <1>2, <1>5, <2>1, <2>2
<1>7. l = r
  BY <1>4, <1>5, <1>6, SeqEqual
<1>8. QED
  BY <1>7 DEF l, r, c

LEMMA ThreeParts ==
    ASSUME NEW T, NEW a \in Seq(T), NEW b \in Seq(T), NEW c \in Seq(T)
    PROVE  b \o c \in Seq(T) /\ a \o (b \o c) = (a \o b) \o c
<1>1. b \o c \in Seq(T)
  BY ConcatProperties
<1>2. (a \o b) \o c = a \o (b \o c)
  BY ConcatAssociative
<1>3. QED
  BY <1>1, <1>2

-----------------------------------------------------------------------------
(* The emitter, on texts made of any tokens.                               *)

EmitterOf(T) == [scr: Seq(T), prev: Seq(T), frozen: BOOLEAN, screen: Seq(T), settled: Seq(T)]

EmitterOK(e, T) == e \in EmitterOf(T) /\ KnowsScreen(e) /\ SettledStays(e)

LEMMA BegunOK ==
    ASSUME NEW T, NEW e, EmitterOK(e, T), NEW carry \in BOOLEAN
    PROVE  EmitterOK(Begun(e, carry), T) /\ Begun(e, carry).scr = <<>>
<1> DEFINE b == Begun(e, carry)
           none == <<>>
<1>1. /\ e.scr \in Seq(T) /\ e.prev \in Seq(T) /\ e.screen \in Seq(T) /\ e.settled \in Seq(T)
      /\ e.frozen \in BOOLEAN /\ none \in Seq(T)
      /\ e \in EmitterOf(T)
  BY EmptySeq DEF EmitterOK, EmitterOf
<1>2. \A x \in Seq(T) : x \o none = x
  BY ConcatEmptySeq
<1>3. CASE e.frozen
  <2>1. b = [e EXCEPT !.prev = none, !.scr = none, !.frozen = FALSE, !.settled = e.screen]
    BY <1>3 DEF Begun
  <2> HIDE DEF b, none
  <2>2. /\ b \in EmitterOf(T) /\ b.prev = none /\ b.scr = none /\ b.settled = e.screen
        /\ b.screen = e.screen /\ ~b.frozen
    BY <1>1, <2>1 DEF EmitterOf
  <2>3. b.screen = b.settled \o b.prev \o b.scr
    BY <1>1, <1>2, <2>2
  <2>4. BeginsWith(b.screen, b.settled)
    BY <1>1, <2>2, ConcatBegins
  <2>5. QED
    BY <2>2, <2>3, <2>4 DEF EmitterOK, KnowsScreen, SettledStays, BeginsWith, b, none
<1>4. CASE ~e.frozen
  <2> DEFINE p == IF carry THEN e.prev \o e.scr ELSE e.scr
             t == IF carry THEN e.settled ELSE e.settled \o e.prev
  <2>1. b = [e EXCEPT !.prev = p, !.scr = none, !.frozen = FALSE, !.settled = t]
    BY <1>4 DEF Begun
  <2>2. p \in Seq(T) /\ t \in Seq(T) /\ t \o p = (e.settled \o e.prev) \o e.scr
    <3>1. CASE carry
      <4>1. p = e.prev \o e.scr /\ t = e.settled
        BY <3>1
      <4>2. e.prev \o e.scr \in Seq(T) /\ e.settled \o (e.prev \o e.scr) = (e.settled \o e.prev) \o e.scr
        <5>1. \A x, y, z \in Seq(T) : y \o z \in Seq(T) /\ x \o (y \o z) = (x \o y) \o z
          BY ThreeParts
        <5>2. QED
          BY <1>1, <5>1, Zenon
      <4>3. QED
        BY <1>1, <4>1, <4>2, Zenon
    <3>2. CASE ~carry
      <4>1. p = e.scr /\ t = e.settled \o e.prev
        BY <3>2
      <4>2. e.settled \o e.prev \in Seq(T)
        BY <1>1, ConcatProperties, Zenon
      <4>3. QED
        BY <1>1, <4>1, <4>2, Zenon
    <3>3. QED
      BY <3>1, <3>2
  <2> HIDE DEF b, none, p, t
  <2>3. /\ b \in EmitterOf(T) /\ b.prev = p /\ b.scr = none /\ b.settled = t
        /\ b.screen = e.screen /\ ~b.frozen
    BY <1>1, <2>1, <2>2 DEF EmitterOf
  <2>4. b.screen = t \o p
    BY <1>4, <2>2, <2>3 DEF EmitterOK, KnowsScreen
  <2>5. b.screen = b.settled \o b.prev \o b.scr
    <3>1. t \o p \in Seq(T)
      BY <2>2, ConcatProperties
    <3>2. QED
      BY <1>2, <2>3, <2>4, <3>1
  <2>6. BeginsWith(b.screen, b.settled)
    BY <2>2, <2>3, <2>4, ConcatBegins
  <2>7. QED
    BY <2>3, <2>5, <2>6 DEF EmitterOK, KnowsScreen, SettledStays, BeginsWith, b, none
<1>5. QED
  BY <1>1, <1>3, <1>4

LEMMA MergedOK ==
    ASSUME NEW T, NEW e, EmitterOK(e, T)
    PROVE  EmitterOK(Merged(e), T)
<1> DEFINE m == Merged(e)
           none == <<>>
           region == e.prev \o e.scr
<1>1. /\ e.scr \in Seq(T) /\ e.prev \in Seq(T) /\ e.screen \in Seq(T) /\ e.settled \in Seq(T)
      /\ e \in EmitterOf(T) /\ none \in Seq(T)
  BY EmptySeq DEF EmitterOK, EmitterOf
<1>2. CASE ~Mergeable(e)
  BY <1>2 DEF Merged
<1>3. CASE Mergeable(e)
  <2>1. m = [e EXCEPT !.scr = region, !.prev = none]
    BY <1>3 DEF Merged
  <2>2. region \in Seq(T) /\ e.settled \o region = (e.settled \o e.prev) \o e.scr
    <3>1. \A x, y, z \in Seq(T) : y \o z \in Seq(T) /\ x \o (y \o z) = (x \o y) \o z
      BY ThreeParts
    <3>2. QED
      BY <1>1, <3>1, Zenon
  <2> HIDE DEF m, none, region
  <2>3. /\ m \in EmitterOf(T) /\ m.scr = region /\ m.prev = none /\ m.settled = e.settled
        /\ m.screen = e.screen /\ m.frozen = e.frozen
    BY <1>1, <2>1, <2>2 DEF EmitterOf
  <2>4. e.settled \o none = e.settled
    BY <1>1, ConcatEmptySeq DEF none
  <2>5. SettledStays(m)
    BY <2>3 DEF EmitterOK, SettledStays
  <2>6. KnowsScreen(m)
    BY <2>2, <2>3, <2>4 DEF EmitterOK, KnowsScreen
  <2>7. QED
    BY <2>3, <2>5, <2>6 DEF EmitterOK, m
<1>4. QED
  BY <1>2, <1>3

LEMMA DisownedOK ==
    ASSUME NEW T, NEW e, EmitterOK(e, T)
    PROVE  EmitterOK(Disowned(e), T)
<1> DEFINE d == Disowned(e)
           none == <<>>
<1>1. e.screen \in Seq(T) /\ e \in EmitterOf(T) /\ none \in Seq(T)
  BY EmptySeq DEF EmitterOK, EmitterOf
<1>2. d = [e EXCEPT !.scr = none, !.prev = none, !.settled = e.screen] /\ e.screen \o none = e.screen
  BY <1>1, ConcatEmptySeq DEF Disowned
<1> HIDE DEF d, none
<1>3. /\ d \in EmitterOf(T) /\ d.scr = none /\ d.prev = none /\ d.settled = e.screen
      /\ d.screen = e.screen
  BY <1>1, <1>2 DEF EmitterOf
<1>4. BeginsWith(e.screen, e.screen)
  BY <1>1, ConcatBegins
<1>5. QED
  BY <1>2, <1>3, <1>4 DEF EmitterOK, KnowsScreen, SettledStays, BeginsWith, d

\* How far the region's end is from the settled text.
LEMMA RoomBehind ==
    ASSUME NEW s \in Nat, NEW p \in Nat, NEW t \in Nat, NEW front, NEW all,
           front = s + p, all = front + t
    PROVE  /\ all \in Nat /\ s <= all
           /\ \A n \in 0..t : t - n \in 0..(all - s) /\ \A i \in 0..(t - n) : i \in 0..(all - s)
  OBVIOUS

\* sync: what a region looks like afterwards, and what it is made of.
LEMMA SyncedOK ==
    ASSUME NEW T, NEW e, EmitterOK(e, T), NEW desired \in Seq(T), NEW cap \in Nat,
           NEW mayFail \in BOOLEAN, NEW r \in Synced(e, desired, cap, mayFail)
    PROVE  /\ EmitterOK(r, T)
           /\ (r.frozen /\ ~e.frozen) => mayFail
           /\ r.prev = e.prev
           /\ \/ r.scr = e.scr
              \/ \E n \in 0..Len(e.scr) : r.scr = RegionShown(e, desired, n)
<1> DEFINE n == Stays(e, desired, cap)
           rest == SubSeq(desired, n + 1, Len(desired))
           front == e.settled \o e.prev
<1>1. /\ e.scr \in Seq(T) /\ e.prev \in Seq(T) /\ e.screen \in Seq(T) /\ e.settled \in Seq(T)
      /\ e.frozen \in BOOLEAN /\ e \in EmitterOf(T)
      /\ Len(e.scr) \in Nat /\ Len(desired) \in Nat
  BY LenProperties DEF EmitterOK, EmitterOf
<1>7. Len(e.scr) \in Nat
  BY <1>1
<1>2. n \in 0..Len(e.scr)
  <2>1. Common(e.scr, desired) \in 0..Len(e.scr)
    BY <1>1, CommonIs
  <2>2. QED
    BY <1>1, <2>1 DEF Stays
<1>3. rest \in Seq(T) /\ Len(rest) \in Nat
  <2>1. CASE n <= Len(desired)
    BY <1>1, <1>2, <2>1, PartOf
  <2>2. CASE n > Len(desired)
    BY <1>1, <1>2, <2>2, SubSeqEmpty, EmptySeq
  <2>3. QED
    BY <1>1, <1>2, <2>1, <2>2
<1> HIDE DEF n
<1>4. CASE r = e
  BY <1>4
<1>5. CASE r # e
  <2>1. ~e.frozen
    BY <1>5 DEF Synced, IsFrozen
  <2>2. e.screen = front \o e.scr /\ front \in Seq(T)
    BY <1>1, <2>1, ConcatBegins DEF EmitterOK, KnowsScreen
  <2>10. Len(front) = Len(e.settled) + Len(e.prev) /\ Len(e.settled) \in Nat /\ Len(e.prev) \in Nat
    BY <1>1, ConcatBegins
  <2> HIDE DEF front
  <2>3. BeginsWith(e.screen, e.settled)
    BY DEF EmitterOK, SettledStays, BeginsWith
  <2>4. Len(e.screen) = Len(front) + Len(e.scr) /\ Len(front) \in Nat
    BY <1>1, <2>2, ConcatBegins
  <2>11. /\ Len(e.screen) \in Nat /\ Len(e.settled) <= Len(e.screen)
         /\ Len(e.scr) - n \in 0..(Len(e.screen) - Len(e.settled))
         /\ \A i \in 0..(Len(e.scr) - n) : i \in 0..(Len(e.screen) - Len(e.settled))
    <3> DEFINE s == Len(e.settled)
               p == Len(e.prev)
               k == Len(e.scr)
               f == Len(front)
               all == Len(e.screen)
    <3>1. s \in Nat /\ p \in Nat /\ k \in Nat /\ f = s + p /\ all = f + k /\ n \in 0..k
      BY <1>7, <1>2, <2>10, <2>4
    <3> HIDE DEF s, p, k, f, all
    <3>2. /\ all \in Nat /\ s <= all /\ k - n \in 0..(all - s)
          /\ \A i \in 0..(k - n) : i \in 0..(all - s)
      BY <3>1, RoomBehind
    <3>3. QED
      BY <3>2 DEF s, p, k, f, all
  <2>5. Without(e.screen, Len(e.scr) - n) = front \o SubSeq(e.scr, 1, n)
    BY <1>1, <1>2, <2>2, CutOfConcat
  <2>6. ASSUME NEW screen \in Seq(T), BeginsWith(screen, e.settled)
        PROVE  LET x == [e EXCEPT !.screen = screen, !.frozen = TRUE]
               IN  EmitterOK(x, T) /\ x.frozen /\ x.prev = e.prev /\ x.scr = e.scr
    <3> DEFINE x == [e EXCEPT !.screen = screen, !.frozen = TRUE]
    <3>1. /\ x \in EmitterOf(T) /\ x.frozen /\ x.prev = e.prev /\ x.scr = e.scr
          /\ x.settled = e.settled /\ x.screen = screen
      BY <1>1, <2>6 DEF EmitterOf
    <3> HIDE DEF x
    <3>2. QED
      BY <2>6, <3>1 DEF EmitterOK, KnowsScreen, SettledStays, BeginsWith, x
  <2>7. CASE r = Rewritten(e, desired, n)
    <3> DEFINE shown == RegionShown(e, desired, n)
               kept == SubSeq(e.scr, 1, n)
               screen == Without(e.screen, Len(e.scr) - n) \o rest
    <3>1. kept \in Seq(T)
      BY <1>1, <1>2, PartOf, 0 + 1 = 1
    <3>2. shown = kept \o rest /\ shown \in Seq(T) /\ front \o (kept \o rest) = (front \o kept) \o rest
      <4>1. \A x, y, z \in Seq(T) : y \o z \in Seq(T) /\ x \o (y \o z) = (x \o y) \o z
        BY ThreeParts
      <4>2. shown = kept \o rest
        BY DEF RegionShown
      <4> HIDE DEF front, kept, rest, shown
      <4>3. QED
        BY <1>3, <2>2, <3>1, <4>1, <4>2, Zenon
    <3>3. screen = front \o shown
      BY <2>5, <3>2
    <3>4. screen \in Seq(T) /\ BeginsWith(screen, e.settled)
      <4>1. Len(e.scr) - n \in 0..(Len(e.screen) - Len(e.settled))
        BY <2>11
      <4>2. Len(e.settled) <= Len(e.screen)
        BY <2>11
      <4>3. QED
        BY <1>1, <1>3, <2>3, <4>1, <4>2, CutAndTyped
    <3>5. r = [e EXCEPT !.scr = shown, !.screen = screen]
      BY <2>7 DEF Rewritten
    <3> HIDE DEF shown, screen
    <3>6. /\ r \in EmitterOf(T) /\ r.scr = shown /\ r.screen = screen /\ r.prev = e.prev
          /\ r.settled = e.settled /\ r.frozen = e.frozen
      BY <1>1, <3>2, <3>4, <3>5 DEF EmitterOf
    <3>7. KnowsScreen(r) /\ SettledStays(r)
      BY <3>3, <3>4, <3>6 DEF KnowsScreen, SettledStays, BeginsWith, front
    <3>8. QED
      BY <1>2, <2>1, <3>6, <3>7 DEF EmitterOK, shown
  <2>8. CASE mayFail /\ r \in GetsStuck(e, desired, n)
    <3>1. \/ \E i \in 0..(Len(e.scr) - n) : r = [e EXCEPT !.screen = Without(e.screen, i), !.frozen = TRUE]
          \/ \E i \in 0..Len(rest) :
                r = [e EXCEPT !.screen = Without(e.screen, Len(e.scr) - n) \o SubSeq(rest, 1, i),
                              !.frozen = TRUE]
      BY <2>8 DEF GetsStuck, Freezes
    <3>2. Len(e.settled) <= Len(e.screen)
      BY <2>11
    <3>3. ASSUME NEW i \in 0..(Len(e.scr) - n),
                 r = [e EXCEPT !.screen = Without(e.screen, i), !.frozen = TRUE]
          PROVE  EmitterOK(r, T) /\ r.frozen /\ r.prev = e.prev /\ r.scr = e.scr
      <4>1. i \in 0..(Len(e.screen) - Len(e.settled))
        BY <2>11
      <4>2. Without(e.screen, i) \in Seq(T) /\ BeginsWith(Without(e.screen, i), e.settled)
        BY <1>1, <1>3, <2>3, <3>2, <4>1, CutAndTyped
      <4>3. QED
        BY <2>6, <3>3, <4>2
    <3>4. ASSUME NEW i \in 0..Len(rest),
                 r = [e EXCEPT !.screen = Without(e.screen, Len(e.scr) - n) \o SubSeq(rest, 1, i),
                               !.frozen = TRUE]
          PROVE  EmitterOK(r, T) /\ r.frozen /\ r.prev = e.prev /\ r.scr = e.scr
      <4> DEFINE part == SubSeq(rest, 1, i)
                 screen == Without(e.screen, Len(e.scr) - n) \o part
      <4>1. Len(e.scr) - n \in 0..(Len(e.screen) - Len(e.settled))
        BY <2>11
      <4>2. part \in Seq(T)
        <5> HIDE DEF rest
        <5>1. 0 \in 0..Len(rest) /\ i \in 0..Len(rest)
          BY <1>3
        <5>2. QED
          BY <1>3, <5>1, PartOf, 0 + 1 = 1
      <4> HIDE DEF part
      <4>3. screen \in Seq(T) /\ BeginsWith(screen, e.settled)
        BY <1>1, <2>3, <3>2, <4>1, <4>2, CutAndTyped
      <4>4. QED
        BY <2>6, <3>4, <4>3 DEF part
    <3>5. QED
      BY <2>8, <3>1, <3>3, <3>4
  <2>9. QED
    BY <1>5, <2>7, <2>8 DEF Synced, n
<1>6. QED
  BY <1>4, <1>5

-----------------------------------------------------------------------------
(* Texts of the first k utterances.                                        *)

Vocabulary(k) ==
    [of: SUBSET (1..k), form: {"word", "last", "misheard", "reply", "end", "newline", "marker"}]
Texts(k) == Seq(Vocabulary(k))

LEMMA VocabularyGrows ==
    ASSUME NEW k \in Nat, NEW j \in Nat, k <= j
    PROVE  Vocabulary(k) \subseteq Vocabulary(j)
<1>1. 1..k \subseteq 1..j
  OBVIOUS
<1>2. QED
  BY <1>1 DEF Vocabulary

\* Such texts are texts of the model.
LEMMA TextsAreText ==
    ASSUME NEW k \in 0..UtteranceLimit, NEW a \in Texts(k)
    PROVE  a \in Text
<1>1. Vocabulary(k) \subseteq Vocabulary(UtteranceLimit)
  BY OutputAssumption, VocabularyGrows
<1>2. Vocabulary(UtteranceLimit) \subseteq Tokens
  BY OutputAssumption DEF Vocabulary
<1>3. QED
  BY <1>1, <1>2, SeqMonotonic DEF Texts, Text

\* What a text is made of.
LEMMA OfIs ==
    ASSUME NEW k \in Nat, NEW a \in Texts(k)
    PROVE  Of(a) \subseteq 1..k /\ \A u : u \in Of(a) <=> \E i \in 1..Len(a) : u \in a[i].of
<1>1. DOMAIN a = 1..Len(a) /\ \A i \in 1..Len(a) : a[i] \in Vocabulary(k)
  BY LenProperties, ElementOfSeq DEF Texts
<1>2. \A u : u \in Of(a) <=> \E i \in 1..Len(a) : u \in a[i].of
  BY <1>1 DEF Of
<1>3. \A i \in 1..Len(a) : a[i].of \subseteq 1..k
  BY <1>1 DEF Vocabulary
<1>4. QED
  BY <1>2, <1>3

LEMMA NothingIsText == \A k : <<>> \in Texts(k) /\ Of(<<>>) = {}
<1>1. \A k : <<>> \in Texts(k)
  BY EmptySeq DEF Texts
<1>2. DOMAIN <<>> = {}
  OBVIOUS
<1>3. QED
  BY <1>1, <1>2 DEF Of

LEMMA OneToken ==
    ASSUME NEW k \in Nat, NEW p \in Vocabulary(k)
    PROVE  <<p>> \in Texts(k) /\ <<p>> # <<>> /\ Of(<<p>>) = p.of
  BY DEF Texts, Of

LEMMA TwoTokens ==
    ASSUME NEW k \in Nat, NEW p \in Vocabulary(k), NEW q \in Vocabulary(k)
    PROVE  <<p, q>> \in Texts(k) /\ <<p, q>> # <<>> /\ Of(<<p, q>>) = p.of \cup q.of
<1>1. <<p, q>> \in Texts(k) /\ <<p, q>> # <<>>
  BY DEF Texts
<1>2. DOMAIN <<p, q>> = 1..2 /\ <<p, q>>[1] = p /\ <<p, q>>[2] = q
  OBVIOUS
<1>3. 1..2 = {1, 2}
  OBVIOUS
<1>4. QED
  BY <1>1, <1>2, <1>3 DEF Of

LEMMA TokenIs ==
    ASSUME NEW k \in Nat, NEW us \in SUBSET (1..k),
           NEW form \in {"word", "last", "misheard", "reply", "end", "newline", "marker"}
    PROVE  Token(us, form) \in Vocabulary(k) /\ Token(us, form).of = us
  BY DEF Token, Vocabulary

\* The texts the session loop makes.
LEMMA FinalIs ==
    ASSUME NEW k \in Nat, k # 0
    PROVE  Final(k) \in Texts(k) /\ Final(k) # <<>> /\ Of(Final(k)) = {k}
<1>1. {k} \in SUBSET (1..k)
  OBVIOUS
<1>2. QED
  BY <1>1, TokenIs, TwoTokens DEF Final

LEMMA HypothesisIs ==
    ASSUME NEW k \in Nat, k # 0, NEW h \in Hypotheses(k)
    PROVE  h \in Texts(k) /\ Of(h) = {k}
<1>1. {k} \in SUBSET (1..k)
  OBVIOUS
<1>2. QED
  BY <1>1, TokenIs, OneToken DEF Hypotheses

LEMMA ReplyIs ==
    ASSUME NEW k \in Nat, NEW us \in SUBSET (1..k)
    PROVE  Reply(us) \in Texts(k) /\ Reply(us) # <<>>
  BY TokenIs, TwoTokens DEF Reply

LEMMA NewLineIs == \A k \in Nat : NewLine \in Texts(k) /\ Marker \in Texts(k)
  BY TokenIs, OneToken DEF NewLine, Marker

LEMMA Joined ==
    ASSUME NEW k \in Nat, NEW a \in Texts(k), NEW b \in Texts(k)
    PROVE  a \o b \in Texts(k) /\ (b # <<>> => a \o b # <<>>)
  BY ConcatProperties, ConcatEqualIffEmpty DEF Texts

\* A region rewritten half is made of what it was and what it was to be.
LEMMA RegionOf ==
    ASSUME NEW k \in Nat, NEW e, e.scr \in Texts(k), NEW desired \in Texts(k), NEW n \in 0..Len(e.scr)
    PROVE  Of(RegionShown(e, desired, n)) \subseteq Of(e.scr) \cup Of(desired)
<1> DEFINE a == e.scr
           kept == SubSeq(a, 1, n)
           rest == SubSeq(desired, n + 1, Len(desired))
           r == kept \o rest
<1>1. Len(a) \in Nat /\ Len(desired) \in Nat
  BY LenProperties DEF Texts
<1>2. kept \in Texts(k) /\ Len(kept) = n /\ \A i \in 1..n : kept[i] = a[i]
  BY <1>1, PartOf, 0 + 1 = 1 DEF Texts
<1>3. /\ rest \in Texts(k)
      /\ \A i \in 1..Len(rest) : n + i \in 1..Len(desired) /\ rest[i] = desired[n + i]
  <2>1. CASE n <= Len(desired)
    <3>1. rest \in Texts(k) /\ Len(rest) = Len(desired) - n /\ \A i \in 1..(Len(desired) - n) : rest[i] = desired[n + i]
      BY <1>1, <2>1, PartOf DEF Texts
    <3>2. QED
      BY <1>1, <2>1, <3>1
  <2>2. CASE n > Len(desired)
    <3>1. rest = <<>>
      BY <1>1, <2>2, SubSeqEmpty
    <3>2. rest \in Texts(k) /\ Len(rest) = 0
      BY <3>1, NothingIsText, EmptySeq
    <3>3. QED
      BY <3>2
  <2>3. QED
    BY <1>1, <2>1, <2>2
<1> HIDE DEF kept, rest
<1>4. /\ r \in Texts(k) /\ Len(r) = n + Len(rest) /\ Len(rest) \in Nat
      /\ \A i \in 1..(n + Len(rest)) : r[i] = IF i <= n THEN kept[i] ELSE rest[i - n]
  BY <1>2, <1>3, ConcatProperties, LenProperties DEF Texts
<1> HIDE DEF r
<1>5. ASSUME NEW u \in Of(r) PROVE u \in Of(a) \cup Of(desired)
  <2>1. PICK i \in 1..(n + Len(rest)) : u \in r[i].of
    BY <1>4, OfIs
  <2>2. CASE i <= n
    <3>1. i \in 1..n /\ i \in 1..Len(a) /\ r[i] = a[i]
      BY <1>1, <1>2, <1>4, <2>2
    <3>2. QED
      BY <2>1, <3>1, OfIs
  <2>3. CASE i > n
    <3>1. i - n \in 1..Len(rest)
      BY <1>4, <2>3
    <3>2. n + (i - n) \in 1..Len(desired) /\ r[i] = desired[n + (i - n)]
      BY <1>3, <1>4, <2>3, <3>1
    <3>3. QED
      BY <2>1, <3>2, OfIs
  <2>4. QED
    BY <2>2, <2>3
<1>6. QED
  BY <1>5 DEF r, kept, rest, RegionShown

-----------------------------------------------------------------------------
(* A typist: the emitter and what is published to it.                      *)

TypistOK(s, k) ==
    /\ s \in [emitter: EmitterOf(Vocabulary(k)),
              pending: [text: Texts(k), cap: {0, LiveCap, TransformCap}],
              fails: 0..FailLimit]
    /\ EmitterOK(s.emitter, Vocabulary(k))

\* What a typist shows or is to show.
Region(s) == Of(s.pending.text) \cup Of(s.emitter.scr)

LEMMA TypistIs ==
    ASSUME NEW k \in Nat, NEW s, TypistOK(s, k)
    PROVE  /\ s.emitter \in EmitterOf(Vocabulary(k)) /\ EmitterOK(s.emitter, Vocabulary(k))
           /\ s.emitter.scr \in Texts(k) /\ s.emitter.prev \in Texts(k)
           /\ s.pending.text \in Texts(k) /\ s.pending.cap \in Nat
           /\ s.fails \in 0..FailLimit
           /\ Region(s) \subseteq 1..k
<1>1. /\ s.emitter \in EmitterOf(Vocabulary(k)) /\ EmitterOK(s.emitter, Vocabulary(k))
      /\ s.pending \in [text: Texts(k), cap: {0, LiveCap, TransformCap}]
      /\ s.fails \in 0..FailLimit
  BY DEF TypistOK
<1>2. s.emitter.scr \in Texts(k) /\ s.emitter.prev \in Texts(k)
  BY <1>1 DEF EmitterOf, Texts
<1>3. s.pending.text \in Texts(k) /\ s.pending.cap \in Nat
  BY <1>1, OutputAssumption
<1>4. QED
  BY <1>1, <1>2, <1>3, OfIs DEF Region

LEMMA NoTextIs == NoText.text = <<>> /\ \A k : NoText \in [text: Texts(k), cap: {0, LiveCap, TransformCap}]
  BY NothingIsText DEF NoText

LEMMA TypistGrows ==
    ASSUME NEW k \in Nat, NEW j \in Nat, k <= j, NEW s, TypistOK(s, k)
    PROVE  TypistOK(s, j)
<1>1. \A a : a \in Seq(Vocabulary(k)) => a \in Seq(Vocabulary(j))
  BY VocabularyGrows, SeqMonotonic
<1>2. /\ s \in [emitter: EmitterOf(Vocabulary(k)),
                pending: [text: Texts(k), cap: {0, LiveCap, TransformCap}],
                fails: 0..FailLimit]
      /\ KnowsScreen(s.emitter) /\ SettledStays(s.emitter)
  BY DEF TypistOK, EmitterOK
<1>3. s.emitter \in EmitterOf(Vocabulary(j))
  BY <1>1, <1>2 DEF EmitterOf
<1>4. s.pending \in [text: Texts(j), cap: {0, LiveCap, TransformCap}]
  BY <1>1, <1>2 DEF Texts
<1>5. QED
  BY <1>2, <1>3, <1>4 DEF TypistOK, EmitterOK

LEMMA EmitterSet ==
    ASSUME NEW k \in Nat, NEW s, TypistOK(s, k), NEW e, EmitterOK(e, Vocabulary(k))
    PROVE  LET r == [s EXCEPT !.emitter = e]
           IN  TypistOK(r, k) /\ r.emitter = e /\ r.pending = s.pending
  BY DEF TypistOK, EmitterOK

LEMMA PublishedOK ==
    ASSUME NEW k \in Nat, NEW s, TypistOK(s, k), NEW text \in Texts(k), NEW cap \in {0, LiveCap, TransformCap}
    PROVE  LET r == Published(s, text, cap)
           IN  TypistOK(r, k) /\ r.emitter = s.emitter /\ r.pending.text = text
  BY DEF TypistOK, Published

LEMMA TypedOK ==
    ASSUME NEW k \in Nat, NEW s, TypistOK(s, k), NEW text \in Texts(k), NEW cap \in Nat,
           NEW r \in Typed(s, text, cap)
    PROVE  /\ TypistOK(r, k) /\ r.pending = NoText
           /\ r.emitter.prev = s.emitter.prev
           /\ Region(r) \subseteq Of(s.emitter.scr) \cup Of(text)
<1> DEFINE mayFail == s.fails < FailLimit
<1>1. /\ EmitterOK(s.emitter, Vocabulary(k)) /\ s.emitter.scr \in Texts(k) /\ s.fails \in 0..FailLimit
      /\ mayFail \in BOOLEAN
  BY TypistIs
<1>2. PICK e \in Synced(s.emitter, text, cap, mayFail) :
          r = [emitter |-> e, pending |-> NoText,
               fails |-> IF e.frozen /\ ~s.emitter.frozen THEN s.fails + 1 ELSE s.fails]
  BY DEF Typed
<1>3. /\ EmitterOK(e, Vocabulary(k)) /\ ((e.frozen /\ ~s.emitter.frozen) => mayFail)
      /\ e.prev = s.emitter.prev
      /\ \/ e.scr = s.emitter.scr
         \/ \E n \in 0..Len(s.emitter.scr) : e.scr = RegionShown(s.emitter, text, n)
  <2> HIDE DEF mayFail
  <2>1. QED
    BY <1>1, SyncedOK DEF Texts
<1>4. r.emitter = e /\ r.pending = NoText /\ r.fails \in 0..FailLimit /\ r = [emitter |-> e, pending |-> NoText, fails |-> r.fails]
  BY <1>1, <1>2, <1>3, OutputAssumption
<1>5. TypistOK(r, k)
  BY <1>3, <1>4, NoTextIs DEF TypistOK, EmitterOK
<1>6. Of(e.scr) \subseteq Of(s.emitter.scr) \cup Of(text)
  BY <1>1, <1>3, RegionOf
<1>7. Of(r.pending.text) = {}
  BY <1>4, NoTextIs, NothingIsText
<1>8. QED
  BY <1>3, <1>4, <1>5, <1>6, <1>7 DEF Region

LEMMA RenderedOK ==
    ASSUME NEW k \in Nat, NEW s, TypistOK(s, k), NEW r \in Rendered(s)
    PROVE  /\ TypistOK(r, k) /\ r.pending = NoText
           /\ r.emitter.prev = s.emitter.prev
           /\ Region(r) \subseteq Region(s)
<1>1. s.pending.text \in Texts(k) /\ s.pending.cap \in Nat
  BY TypistIs
<1>2. CASE s.pending = NoText
  BY <1>2 DEF Rendered
<1>3. CASE s.pending # NoText
  <2>1. r \in Typed(s, s.pending.text, s.pending.cap)
    BY <1>3 DEF Rendered
  <2>2. QED
    BY <1>1, <2>1, TypedOK DEF Region
<1>4. QED
  BY <1>2, <1>3

\* The baseline advances: nothing is left to be typed, and the region is empty.
LEMMA AdvancedOK ==
    ASSUME NEW k \in Nat, NEW s, TypistOK(s, k), NEW r \in Calls(s, Fresh) \cup Calls(s, Carried)
    PROVE  TypistOK(r, k) /\ Region(r) = {}
<1>1. PICK t \in Rendered(s), carry \in BOOLEAN : r = [t EXCEPT !.emitter = Begun(t.emitter, carry)]
  BY DEF Calls, Fresh, Carried
<1>2. TypistOK(t, k) /\ t.pending = NoText
  BY RenderedOK
<1>3. EmitterOK(Begun(t.emitter, carry), Vocabulary(k)) /\ Begun(t.emitter, carry).scr = <<>>
  BY <1>2, TypistIs, BegunOK
<1>4. TypistOK(r, k) /\ r.emitter.scr = <<>> /\ r.pending = NoText
  BY <1>1, <1>2, <1>3, EmitterSet
<1>5. QED
  BY <1>4, NoTextIs, NothingIsText DEF Region

LEMMA MethodsOK ==
    ASSUME NEW k \in Nat, NEW s, TypistOK(s, k), NEW r \in Calls(s, Merged) \cup Calls(s, Disowned)
    PROVE  TypistOK(r, k)
<1>1. PICK t \in Rendered(s) :
          r = [t EXCEPT !.emitter = Merged(t.emitter)] \/ r = [t EXCEPT !.emitter = Disowned(t.emitter)]
  <2>1. CASE r \in Calls(s, Merged)
    BY <2>1 DEF Calls
  <2>2. CASE r \in Calls(s, Disowned)
    BY <2>2 DEF Calls
  <2>3. QED
    BY <2>1, <2>2
<1>2. TypistOK(t, k)
  BY RenderedOK
<1>3. EmitterOK(Merged(t.emitter), Vocabulary(k)) /\ EmitterOK(Disowned(t.emitter), Vocabulary(k))
  BY <1>2, TypistIs, MergedOK, DisownedOK
<1>4. QED
  BY <1>1, <1>2, <1>3, EmitterSet

LEMMA SyncsOK ==
    ASSUME NEW k \in Nat, NEW s, TypistOK(s, k), NEW text \in Texts(k), NEW r \in Syncs(s, text)
    PROVE  TypistOK(r, k)
  BY TypedOK, OutputAssumption DEF Syncs

-----------------------------------------------------------------------------
(* The coordinator.                                                        *)

\* A transform in flight is of texts of the first k utterances.
TransformOK(c, k) ==
    \/ c = NoTransform
    \/ /\ c \in [state: {"stream", "future"}, original: Texts(k), mergeAll: BOOLEAN, merged: BOOLEAN,
                 typed: BOOLEAN, restore: Texts(k), answer: Answers \cup Bare \cup {"none"}]
       /\ c.original # <<>>

LEMMA TransformIs ==
    ASSUME NEW k \in Nat, NEW c, TransformOK(c, k), c.state # "none"
    PROVE  /\ c \in [state: {"stream", "future"}, original: Texts(k), mergeAll: BOOLEAN, merged: BOOLEAN,
                     typed: BOOLEAN, restore: Texts(k), answer: Answers \cup Bare \cup {"none"}]
           /\ c.original \in Texts(k) /\ c.original # <<>> /\ c.restore \in Texts(k)
           /\ c.mergeAll \in BOOLEAN /\ c.merged \in BOOLEAN /\ c.typed \in BOOLEAN
           /\ Restore(c) \in Texts(k)
           /\ c # NoTransform
<1>1. c # NoTransform
  BY DEF NoTransform
<1>2. /\ c \in [state: {"stream", "future"}, original: Texts(k), mergeAll: BOOLEAN, merged: BOOLEAN,
                typed: BOOLEAN, restore: Texts(k), answer: Answers \cup Bare \cup {"none"}]
      /\ c.original # <<>>
  BY <1>1 DEF TransformOK
<1>3. QED
  BY <1>1, <1>2 DEF Restore

LEMMA TransformGrows ==
    ASSUME NEW k \in Nat, NEW j \in Nat, k <= j, NEW c, TransformOK(c, k)
    PROVE  TransformOK(c, j)
<1>1. \A a : a \in Texts(k) => a \in Texts(j)
  BY VocabularyGrows, SeqMonotonic DEF Texts
<1>2. CASE c = NoTransform
  BY <1>2 DEF TransformOK
<1>3. CASE c # NoTransform
  BY <1>1, <1>3 DEF TransformOK
<1>4. QED
  BY <1>2, <1>3

LEMMA SubmittedOK ==
    ASSUME NEW k \in Nat, streaming \in BOOLEAN, NEW text \in Texts(k), text # <<>>, NEW all \in BOOLEAN
    PROVE  TransformOK(Submitted(text, all), k)
<1> DEFINE c == Submitted(text, all)
           none == <<>>
<1>1. none \in Texts(k)
  BY NothingIsText
<1>2. c = [state |-> IF streaming THEN "stream" ELSE "future", original |-> text, mergeAll |-> all,
           merged |-> FALSE, typed |-> FALSE, restore |-> none, answer |-> "none"]
  BY DEF Submitted
<1> HIDE DEF c, none
<1>3. QED
  BY <1>1, <1>2 DEF TransformOK, c

LEMMA CancelledOK ==
    ASSUME NEW k \in Nat, NEW s, TypistOK(s, k), NEW c, TransformOK(c, k)
    PROVE  TypistOK(Cancelled(s, c), k)
<1>1. CASE ~(c.state = "stream" /\ c.typed)
  BY <1>1 DEF Cancelled
<1>2. CASE c.state = "stream" /\ c.typed
  BY <1>2, TransformIs, PublishedOK DEF Cancelled, Restored
<1>3. QED
  BY <1>1, <1>2

LEMMA MergesOK ==
    ASSUME NEW k \in Nat, NEW s, TypistOK(s, k), NEW wanted, NEW m \in Merges(s, wanted)
    PROVE  /\ TypistOK(m.to, k) /\ m.joined \in BOOLEAN
           /\ m.to.emitter.scr \in Texts(k) /\ Of(m.to.emitter.scr) \subseteq 1..k
<1>1. TypistOK(m.to, k) /\ m.joined \in BOOLEAN
  <2>1. CASE wanted
    <3>1. PICK t \in Rendered(s) :
              m = [to |-> [t EXCEPT !.emitter = Merged(t.emitter)], joined |-> Mergeable(t.emitter)]
      BY <2>1 DEF Merges
    <3>2. TypistOK(t, k)
      BY RenderedOK
    <3>3. EmitterOK(Merged(t.emitter), Vocabulary(k))
      BY <3>2, TypistIs, MergedOK
    <3>4. TypistOK([t EXCEPT !.emitter = Merged(t.emitter)], k)
      BY <3>2, <3>3, EmitterSet
    <3>5. Mergeable(t.emitter) \in BOOLEAN
      BY DEF Mergeable
    <3>6. QED
      BY <3>1, <3>4, <3>5
  <2>2. CASE ~wanted
    <3>1. m = [to |-> s, joined |-> FALSE]
      BY <2>2 DEF Merges
    <3>2. QED
      BY <3>1
  <2>3. QED
    BY <2>1, <2>2
<1>2. QED
  BY <1>1, TypistIs, OfIs

\* The ways to answer, apart.
LEMMA AnswersAre ==
    /\ \A a \in Answers : a \notin Bare /\ (SeenToRevise(a) <=> a = "revise")
    /\ \A a \in Bare : a \notin Answers /\ ~Revises(a) /\ a # "new" /\ a # "same" /\ a # "revise"
  BY DEF Answers, Bare, Revises, SeenToRevise

LEMMA BareBody ==
    ASSUME NEW answer \in Bare, NEW c, NEW region
    PROVE  Body(answer, c, region) = Marker /\ SubSeq(Body(answer, c, region), 1, 1) = Marker
<1>1. Body(answer, c, region) = Marker
  BY AnswersAre DEF Body
<1>2. SubSeq(Marker, 1, 1) = Marker
  <2> DEFINE p == Token({}, "marker")
  <2>1. SubSeq(<<p>>, 1, 1) = <<p>>
    <3> HIDE DEF p
    <3> DEFINE a == <<p>>
    <3>1. a \in Seq({p}) /\ Len(a) = 1
      OBVIOUS
    <3> HIDE DEF a
    <3>2. /\ SubSeq(a, 0 + 1, 1) \in Seq({p}) /\ Len(SubSeq(a, 0 + 1, 1)) = 1 - 0
          /\ \A i \in 1..(1 - 0) : SubSeq(a, 0 + 1, 1)[i] = a[0 + i]
      BY <3>1, PartOf
    <3> DEFINE b == SubSeq(a, 1, 1)
    <3>3. b \in Seq({p}) /\ Len(b) = Len(a) /\ \A i \in 1..Len(b) : b[i] = a[i]
      BY <3>1, <3>2, 0 + 1 = 1
    <3> HIDE DEF b
    <3>4. b = a
      BY <3>1, <3>3, SeqEqual
    <3>5. QED
      BY <3>4 DEF a, b
  <2>2. QED
    BY <2>1 DEF Marker
<1>3. QED
  BY <1>1, <1>2

LEMMA BodyIs ==
    ASSUME NEW k \in Nat, NEW answer \in Answers \cup Bare, NEW c, c.original \in Texts(k), c.original # <<>>,
           NEW region \in Texts(k)
    PROVE  /\ Body(answer, c, region) \in Texts(k)
           /\ SubSeq(Body(answer, c, region), 1, 1) \in Texts(k)
<1> DEFINE body == Body(answer, c, region)
<1>1. Of(c.original) \in SUBSET (1..k) /\ Of(region) \in SUBSET (1..k)
  BY OfIs
<1>2. body \in Texts(k) /\ body # <<>>
  <2>1. CASE answer = "new"
    <3>1. body = Reply(Of(c.original))
      BY <2>1 DEF Body, Revises, Bare
    <3>2. QED
      BY <1>1, <3>1, ReplyIs
  <2>2. CASE answer = "same"
    <3>1. body = c.original
      BY <2>2 DEF Body, Revises, Bare
    <3>2. QED
      BY <3>1
  <2>3. CASE Revises(answer)
    <3>1. body = Reply(Of(c.original) \cup Of(region))
      BY <2>3 DEF Body, Revises, Bare
    <3>2. Of(c.original) \cup Of(region) \in SUBSET (1..k)
      BY <1>1
    <3>3. QED
      BY <3>1, <3>2, ReplyIs
  <2>4. CASE answer \in Bare
    <3>1. body = Marker
      BY <2>4, BareBody
    <3>2. QED
      BY <3>1, NewLineIs, EmptySeq DEF Marker
  <2>5. QED
    BY <2>1, <2>2, <2>3, <2>4 DEF Answers, Revises
<1> HIDE DEF body
<1>3. 0 \in 0..Len(body) /\ 1 \in 0..Len(body)
  BY <1>2, EmptySeq DEF Texts
<1>4. SubSeq(body, 1, 1) \in Texts(k)
  BY <1>2, <1>3, PartOf, 0 + 1 = 1 DEF Texts
<1>5. QED
  BY <1>2, <1>4 DEF body

-----------------------------------------------------------------------------
(* The invariant.                                                          *)

\* Texts are of the utterances so far, and while the user speaks those that may
\* still change are of the open one.
TypingInv ==
    /\ now \in 0..UtteranceLimit /\ speaking \in BOOLEAN /\ (speaking => now # 0)
    /\ contextual \in BOOLEAN /\ streaming \in BOOLEAN
    /\ TypistOK(Typist, now)
    /\ parts \in Texts(now)
    /\ TransformOK(transform, now)
    /\ transform # NoTransform => contextual /\ ~speaking
    /\ speaking => Region(Typist) \subseteq {now}

HistoryInv ==
    /\ loop \in {"on", "draining", "closing", "closed"}
    /\ replied \in BOOLEAN /\ cut \in BOOLEAN
    /\ owed \subseteq 1..now /\ stranded \subseteq 1..now /\ excused \subseteq 1..now

\* No task and no context is of a later generation than the one that is on, and
\* no context is older than the utterance it is for.
PoolInv ==
    /\ generation \in 0..now /\ pool \in Seq(Tasks)
    /\ prefetched \in [for: 0..now, from: 0..now] /\ prefetched.for <= prefetched.from
    /\ \A i \in DOMAIN pool : pool[i].for <= generation
    /\ ContextIsOfThisUtterance

OutputInv == TypingInv /\ HistoryInv /\ PoolInv

LEMMA TypistHere ==
    ASSUME OutputInv
    PROVE  /\ TypistOK(Typist, now) /\ now \in Nat /\ now \in 0..UtteranceLimit
           /\ emitter.scr \in Texts(now) /\ emitter.prev \in Texts(now) /\ parts \in Texts(now)
           /\ Region(Typist) = Of(emitter.scr) \cup Of(pending.text)
<1>1. TypistOK(Typist, now) /\ now \in Nat /\ now \in 0..UtteranceLimit /\ parts \in Texts(now)
  BY OutputAssumption DEF OutputInv, TypingInv
<1>2. Typist.emitter = emitter /\ Typist.pending = pending
  BY DEF Typist
<1>3. Typist.emitter.scr \in Texts(now) /\ Typist.emitter.prev \in Texts(now)
  BY <1>1, TypistIs
<1>4. QED
  BY <1>1, <1>2, <1>3 DEF Region

\* A step that leaves the typist at s.
LEMMA TypingKept ==
    ASSUME OutputInv, now' \in 0..UtteranceLimit, NEW s, TypistOK(s, now'), Goes(s), UNCHANGED mode,
           parts' \in Texts(now'), TransformOK(transform', now'),
           speaking' \in BOOLEAN, transform' # NoTransform => contextual /\ ~speaking',
           speaking' => now' # 0 /\ Region(s) \subseteq {now'}
    PROVE  TypingInv'
<1>1. Typist' = s
  <2>1. s = [emitter |-> s.emitter, pending |-> s.pending, fails |-> s.fails]
    BY DEF TypistOK
  <2>2. QED
    BY <2>1 DEF Goes, Typist
<1>2. TypistOK(Typist, now)'
  BY <1>1 DEF TypistOK, EmitterOK, KnowsScreen, SettledStays, EmitterOf, Vocabulary, Texts, Same
<1>3. (speaking => Region(Typist) \subseteq {now})'
  BY <1>1, ZenonT(30) DEF Region, Of
<1>4. QED
  BY <1>2, <1>3 DEF TypingInv, OutputInv, mode

-----------------------------------------------------------------------------
(* The tasks of the coordinator's thread.                                  *)

LEMMA TaskAdded ==
    ASSUME NEW p \in Seq(Tasks), NEW x \in Tasks, NEW q, q = Append(p, x)
    PROVE  q \in Seq(Tasks) /\ \A i \in DOMAIN q : (i \in DOMAIN p /\ q[i] = p[i]) \/ q[i] = x
<1>1. /\ q \in Seq(Tasks) /\ Len(q) = Len(p) + 1 /\ q[Len(p) + 1] = x
      /\ \A i \in 1..Len(p) : q[i] = p[i]
  BY AppendProperties
<1>2. DOMAIN q = 1..(Len(p) + 1) /\ DOMAIN p = 1..Len(p) /\ Len(p) \in Nat
  BY <1>1, LenProperties
<1>3. QED
  BY <1>1, <1>2

LEMMA TaskDone ==
    ASSUME NEW p \in Seq(Tasks), p # <<>>, NEW q, q = Tail(p)
    PROVE  /\ q \in Seq(Tasks) /\ \A i \in DOMAIN q : i + 1 \in DOMAIN p /\ q[i] = p[i + 1]
           /\ Head(p) = p[1] /\ 1 \in DOMAIN p /\ Head(p) \in Tasks
<1>1. Len(p) \in Nat /\ Len(p) >= 1 /\ DOMAIN p = 1..Len(p) /\ Head(p) = p[1]
  BY LenProperties, EmptySeq
<1>2. /\ q \in Seq(Tasks) /\ Len(q) = Len(p) - 1 /\ Head(p) \in Tasks
      /\ \A i \in 1..Len(q) : q[i] = p[i + 1]
  BY HeadTailProperties
<1>3. DOMAIN q = 1..(Len(p) - 1)
  BY <1>1, <1>2, LenProperties
<1>4. QED
  BY <1>1, <1>2, <1>3

\* A generation that never falls, and a task for the present one.
LEMMA PoolKept ==
    ASSUME OutputInv, generation' = generation, prefetched' = prefetched, now' \in Nat, now <= now',
           \/ pool' = pool
           \/ pool' = Append(pool, Transform(generation))
           \/ pool' = <<>>
           \/ pool # <<>> /\ pool' = Tail(pool)
    PROVE  PoolInv'
<1>1. /\ now \in Nat /\ generation \in 0..now /\ pool \in Seq(Tasks) /\ prefetched \in [for: 0..now, from: 0..now]
      /\ prefetched.for <= prefetched.from /\ DOMAIN pool = 1..Len(pool) /\ Len(pool) \in Nat
      /\ \A i \in DOMAIN pool : pool[i].for <= generation
      /\ \A i \in DOMAIN pool : (pool[i].task = "transform" /\ pool[i].from # 0) => pool[i].from >= pool[i].for
  BY LenProperties, OutputAssumption DEF OutputInv, TypingInv, PoolInv, ContextIsOfThisUtterance
<1>2. generation' \in 0..now' /\ prefetched' \in [for: 0..now', from: 0..now'] /\ prefetched'.for <= prefetched'.from
  <2>1. 0..now \subseteq 0..now'
    BY <1>1
  <2>2. QED
    BY <1>1, <2>1
<1>3. CASE pool' = pool
  BY <1>1, <1>2, <1>3 DEF PoolInv, ContextIsOfThisUtterance
<1>4. CASE pool' = Append(pool, Transform(generation))
  <2> DEFINE x == Transform(generation)
  <2>1. x \in Tasks /\ x.for = generation /\ x.from = 0 /\ generation \in Nat
    BY <1>1 DEF Transform, Tasks
  <2> HIDE DEF x
  <2>2. pool' \in Seq(Tasks) /\ \A i \in DOMAIN pool' : (i \in DOMAIN pool /\ pool'[i] = pool[i]) \/ pool'[i] = x
    BY <1>1, <1>4, <2>1, TaskAdded DEF x
  <2>3. QED
    BY <1>1, <1>2, <2>1, <2>2 DEF PoolInv, ContextIsOfThisUtterance
<1>5. CASE pool' = <<>>
  <2>1. pool' \in Seq(Tasks) /\ DOMAIN pool' = {}
    BY <1>5, EmptySeq
  <2>2. QED
    BY <1>2, <2>1 DEF PoolInv, ContextIsOfThisUtterance
<1>6. CASE pool # <<>> /\ pool' = Tail(pool)
  <2>1. pool' \in Seq(Tasks) /\ \A i \in DOMAIN pool' : i + 1 \in DOMAIN pool /\ pool'[i] = pool[i + 1]
    BY <1>1, <1>6, TaskDone
  <2>2. QED
    BY <1>1, <1>2, <2>1 DEF PoolInv, ContextIsOfThisUtterance
<1>7. QED
  BY <1>3, <1>4, <1>5, <1>6

\* A prefetch is done with the window of the present generation.
LEMMA PrefetchesKeeps == OutputInv /\ Prefetches => PoolInv'
<1> SUFFICES ASSUME OutputInv, Prefetches PROVE PoolInv'
  OBVIOUS
<1>1. /\ pool # <<>> /\ Head(pool).task = "prefetch" /\ pool' = Tail(pool)
      /\ prefetched' = [for |-> Head(pool).for, from |-> generation] \/ prefetched' = prefetched
      /\ UNCHANGED <<now, generation>>
  BY DEF Prefetches, utterance
<1>2. /\ now \in Nat /\ generation \in 0..now /\ pool \in Seq(Tasks)
      /\ prefetched \in [for: 0..now, from: 0..now] /\ prefetched.for <= prefetched.from
      /\ \A i \in DOMAIN pool : pool[i].for <= generation
  BY OutputAssumption DEF OutputInv, TypingInv, PoolInv
<1>3. /\ Head(pool) = pool[1] /\ 1 \in DOMAIN pool /\ Head(pool) \in Tasks
      /\ pool' \in Seq(Tasks)
      /\ \A i \in DOMAIN pool' : i + 1 \in DOMAIN pool /\ pool'[i] = pool[i + 1]
  BY <1>1, <1>2, TaskDone
<1>4. pool[1].for \in Nat /\ pool[1].for <= generation
  BY <1>2, <1>3 DEF Tasks
<1>5. prefetched' \in [for: 0..now', from: 0..now'] /\ prefetched'.for <= prefetched'.from
  BY <1>1, <1>2, <1>3, <1>4
<1>6. \A i \in DOMAIN pool' : pool'[i].for <= generation'
  BY <1>1, <1>2, <1>3
<1>7. ContextIsOfThisUtterance'
  BY <1>3 DEF OutputInv, PoolInv, ContextIsOfThisUtterance
<1>8. QED
  BY <1>1, <1>2, <1>3, <1>5, <1>6, <1>7 DEF PoolInv

\* A transform takes the context captured for it, or captures one now.
LEMMA TransformsKeeps == OutputInv /\ Transforms => PoolInv'
<1> SUFFICES ASSUME OutputInv, Transforms PROVE PoolInv'
  OBVIOUS
<1> DEFINE h == Head(pool)
           n == IF ContextFor(h.for) THEN prefetched.from ELSE generation
           x == [h EXCEPT !.from = n]
<1>1. /\ pool # <<>> /\ h.task = "transform" /\ pool' = [pool EXCEPT ![1].from = n]
      /\ UNCHANGED <<now, generation, prefetched>>
  BY DEF Transforms, utterance
<1>2. /\ now \in Nat /\ generation \in 0..now /\ pool \in Seq(Tasks)
      /\ prefetched \in [for: 0..now, from: 0..now] /\ prefetched.for <= prefetched.from
      /\ \A i \in DOMAIN pool : pool[i].for <= generation
  BY OutputAssumption DEF OutputInv, TypingInv, PoolInv
<1>3. /\ Len(pool) \in Nat /\ 1 \in 1..Len(pool) /\ DOMAIN pool = 1..Len(pool) /\ h = pool[1] /\ h \in Tasks
  <2>1. Len(pool) \in Nat /\ Len(pool) >= 1 /\ DOMAIN pool = 1..Len(pool) /\ h = pool[1]
    BY <1>1, <1>2, LenProperties, EmptySeq
  <2>2. QED
    BY <1>2, <2>1, ElementOfSeq
<1>4. h \in [task: {"transform"}, for: Nat, from: Nat] /\ h.for <= generation
  BY <1>1, <1>2, <1>3 DEF Tasks
<1> HIDE DEF h
<1>5. n \in Nat /\ h.for <= n
  BY <1>2, <1>4 DEF ContextFor
<1> HIDE DEF n
<1>6. /\ x \in [task: {"transform"}, for: Nat, from: Nat] /\ x \in Tasks
      /\ x.task = "transform" /\ x.for = h.for /\ x.from = n
  BY <1>4, <1>5 DEF Tasks
<1>7. pool' = [pool EXCEPT ![1] = x]
  BY <1>1, <1>3
<1> HIDE DEF x
<1>8. /\ pool' \in Seq(Tasks) /\ Len(pool') = Len(pool)
      /\ \A i \in 1..Len(pool) : pool'[i] = IF i = 1 THEN x ELSE pool[i]
  BY <1>2, <1>3, <1>6, <1>7, ExceptSeq
<1>9. DOMAIN pool' = DOMAIN pool
  BY <1>3, <1>8, LenProperties
<1>10. \A i \in DOMAIN pool' : pool'[i].for <= generation'
  BY <1>1, <1>2, <1>3, <1>4, <1>6, <1>8, <1>9
<1>11. ContextIsOfThisUtterance'
  BY <1>3, <1>5, <1>6, <1>8, <1>9 DEF OutputInv, PoolInv, ContextIsOfThisUtterance
<1>12. QED
  BY <1>1, <1>2, <1>8, <1>10, <1>11 DEF PoolInv

LEMMA PoolAdvances ==
    ASSUME OutputInv, now' = now + 1, generation' = now + 1, UNCHANGED prefetched,
           pool' = pool \/ pool' = Append(pool, Prefetch(now + 1))
    PROVE  PoolInv'
<1>1. /\ now \in Nat /\ generation \in 0..now /\ pool \in Seq(Tasks) /\ prefetched \in [for: 0..now, from: 0..now]
      /\ prefetched.for <= prefetched.from /\ DOMAIN pool = 1..Len(pool) /\ Len(pool) \in Nat
      /\ \A i \in DOMAIN pool : pool[i] \in Tasks /\ pool[i].for <= generation
      /\ \A i \in DOMAIN pool : (pool[i].task = "transform" /\ pool[i].from # 0) => pool[i].from >= pool[i].for
  BY LenProperties, ElementOfSeq, OutputAssumption DEF OutputInv, TypingInv, PoolInv, ContextIsOfThisUtterance
<1>2. generation' \in 0..now' /\ prefetched' \in [for: 0..now', from: 0..now'] /\ prefetched'.for <= prefetched'.from
  <2>1. 0..now \subseteq 0..now'
    BY <1>1
  <2>2. QED
    BY <1>1, <2>1
<1>3. \A i \in DOMAIN pool : pool[i].for <= now + 1
  <2>1. \A i \in DOMAIN pool : pool[i].for \in Nat
    BY <1>1 DEF Tasks
  <2>2. QED
    BY <1>1, <2>1
<1>4. CASE pool' = pool
  BY <1>1, <1>2, <1>3, <1>4 DEF PoolInv, ContextIsOfThisUtterance
<1>5. CASE pool' = Append(pool, Prefetch(now + 1))
  <2> DEFINE x == Prefetch(now + 1)
  <2>1. x \in Tasks /\ x.for = now + 1 /\ x.task = "prefetch"
    BY <1>1 DEF Prefetch, Tasks
  <2> HIDE DEF x
  <2>2. pool' \in Seq(Tasks) /\ \A i \in DOMAIN pool' : (i \in DOMAIN pool /\ pool'[i] = pool[i]) \/ pool'[i] = x
    BY <1>1, <1>5, <2>1, TaskAdded DEF x
  <2>3. \A i \in DOMAIN pool' : pool'[i].for <= generation'
    BY <1>3, <2>1, <2>2
  <2>4. QED
    BY <1>1, <1>2, <2>1, <2>2, <2>3 DEF PoolInv, ContextIsOfThisUtterance
<1>6. QED
  BY <1>4, <1>5

-----------------------------------------------------------------------------
(* The session loop.                                                       *)

LEMMA FinalizedOK ==
    ASSUME OutputInv, speaking, NEW f \in Finalized
    PROVE  /\ TypistOK(f.to, now) /\ f.final \in Texts(now)
           /\ Of(f.final) \subseteq 1..now /\ f.left \subseteq 1..now
           /\ f.to.emitter.prev \in Texts(now) /\ Of(f.to.emitter.prev) \subseteq 1..now
<1> DEFINE none == <<>>
           last == Final(now)
<1>1. /\ TypistOK(Typist, now) /\ now \in Nat /\ now # 0
      /\ Region(Typist) = Of(emitter.scr) \cup Of(pending.text) /\ Region(Typist) \subseteq 1..now
  BY TypistHere, TypistIs DEF OutputInv, TypingInv
<1>2. none \in Texts(now) /\ Of(none) = {} /\ last \in Texts(now) /\ Of(last) = {now} /\ {now} \subseteq 1..now
  BY <1>1, NothingIsText, FinalIs
<1>3. \/ \E s \in Syncs(Typist, last) :
            f = [to |-> s, final |-> IF Shown(s) THEN last ELSE none, left |-> {}]
      \/ \E s \in Syncs(Typist, none) : f = [to |-> s, final |-> none, left |-> {}]
      \/ f = [to |-> Typist, final |-> none, left |-> Of(emitter.scr) \cup Of(pending.text)]
  BY DEF Finalized
<1> HIDE DEF none, last
<1>4. /\ TypistOK(f.to, now) /\ f.final \in {last, none}
      /\ f.left \subseteq 1..now
  <2>1. CASE \E s \in Syncs(Typist, last) :
                f = [to |-> s, final |-> IF Shown(s) THEN last ELSE none, left |-> {}]
    BY <1>1, <1>2, <2>1, SyncsOK
  <2>2. CASE \E s \in Syncs(Typist, none) : f = [to |-> s, final |-> none, left |-> {}]
    BY <1>1, <1>2, <2>2, SyncsOK
  <2>3. CASE f = [to |-> Typist, final |-> none, left |-> Of(emitter.scr) \cup Of(pending.text)]
    BY <1>1, <2>3
  <2>4. QED
    BY <1>3, <2>1, <2>2, <2>3
<1>5. f.to.emitter.prev \in Texts(now) /\ Of(f.to.emitter.prev) \subseteq 1..now
  BY <1>1, <1>4, TypistIs, OfIs
<1>6. QED
  BY <1>2, <1>4, <1>5

LEMMA CommandedOK ==
    ASSUME NEW k \in Nat, NEW s, TypistOK(s, k), NEW action \in {"scratch", "newline", "key", "copy"},
           NEW r \in Commanded(s, action)
    PROVE  TypistOK(r, k)
<1> DEFINE none == <<>>
<1>1. none \in Texts(k) /\ NewLine \in Texts(k)
  BY NothingIsText, NewLineIs
<1>2. CASE action = "scratch"
  <2>1. PICK t \in Calls(s, Merged) : r \in Syncs(t, none)
    BY <1>2 DEF Commanded
  <2>2. TypistOK(t, k)
    BY MethodsOK
  <2> HIDE DEF none
  <2>3. QED
    BY <1>1, <2>1, <2>2, SyncsOK
<1>3. CASE action = "newline"
  <2>1. r \in Syncs(s, NewLine)
    BY <1>3 DEF Commanded
  <2>2. QED
    BY <1>1, <2>1, SyncsOK
<1>4. CASE action = "key"
  <2>1. PICK t \in Syncs(s, none) : r \in Calls(t, Disowned)
    BY <1>4 DEF Commanded
  <2> HIDE DEF none
  <2>2. TypistOK(t, k)
    BY <1>1, <2>1, SyncsOK
  <2>3. QED
    BY <2>1, <2>2, MethodsOK
<1>5. CASE action = "copy"
  <2>1. r \in Syncs(s, none)
    BY <1>5 DEF Commanded
  <2> HIDE DEF none
  <2>2. QED
    BY <1>1, <2>1, SyncsOK
<1>6. QED
  BY <1>2, <1>3, <1>4, <1>5

\* What the end of an utterance leaves.
LEMMA UtteranceEnds ==
    ASSUME OutputInv, speaking, NEW next \in {"on", "draining"}, EndUtterance(next)
    PROVE  OutputInv'
<1> DEFINE none == <<>>
<1>1. /\ TypistOK(Typist, now) /\ now \in Nat /\ now \in 0..UtteranceLimit /\ parts \in Texts(now)
      /\ none \in Texts(now) /\ streaming \in BOOLEAN
      /\ owed \subseteq 1..now /\ stranded \subseteq 1..now /\ excused \subseteq 1..now
  BY TypistHere, NothingIsText DEF OutputInv, TypingInv, HistoryInv
<1>2. /\ speaking' = FALSE /\ loop' = next /\ parts' = none
      /\ UNCHANGED <<mode, now, generation, prefetched, replied, cut>>
  BY DEF EndUtterance
<1> DEFINE chained == parts # none
           Said(f) == IF f.final = none THEN none ELSE parts \o f.final
<1>3. PICK f \in Finalized :
        \/ /\ Said(f) = none \/ ~contextual
           /\ Goes(f.to) /\ transform' = NoTransform
           /\ owed' = owed \cup Of(f.final) /\ stranded' = stranded \cup f.left
           /\ UNCHANGED <<pool, excused>>
        \/ /\ Said(f) # none /\ contextual
           /\ Goes(f.to) /\ transform' = Submitted(Said(f), chained)
           /\ pool' = Append(pool, Transform(generation))
           /\ owed' = owed \cup Of(f.final) /\ UNCHANGED stranded
           /\ excused' = IF chained THEN excused \cup (Of(f.to.emitter.prev) \ Of(Said(f))) ELSE excused
        \/ /\ \E action \in {"scratch", "newline", "key", "copy"} :
                 /\ \E s \in Commanded(f.to, action) : Goes(s)
                 /\ \E back : owed' = owed \ back /\ stranded' = stranded \ back
           /\ transform' = NoTransform
           /\ UNCHANGED <<pool, excused>>
        \/ /\ Said(f) # none
           /\ \E s \in Syncs(f.to, Tail(Said(f))) : Goes(s)
           /\ transform' = NoTransform
           /\ owed' = owed \cup Of(Said(f))
           /\ UNCHANGED <<pool, stranded, excused>>
  BY DEF EndUtterance
<1> DEFINE said == Said(f)
<1>4. /\ TypistOK(f.to, now) /\ f.final \in Texts(now) /\ Of(f.final) \subseteq 1..now /\ f.left \subseteq 1..now
      /\ Of(f.to.emitter.prev) \subseteq 1..now
  BY FinalizedOK
<1>5. said \in Texts(now) /\ Of(said) \subseteq 1..now
  <2>1. parts \o f.final \in Texts(now)
    BY <1>1, <1>4, Joined
  <2>2. said \in Texts(now)
    BY <1>1, <2>1
  <2> HIDE DEF said
  <2>3. QED
    BY <1>1, <2>2, OfIs
<1> HIDE DEF none, said
<1>6. ASSUME NEW s, TypistOK(s, now), Goes(s), TransformOK(transform', now), transform' # NoTransform => contextual
      PROVE  TypingInv'
  <2>1. now' = now /\ UNCHANGED mode /\ parts' \in Texts(now) /\ speaking' = FALSE
    BY <1>1, <1>2
  <2>2. now' \in 0..UtteranceLimit /\ TypistOK(s, now') /\ parts' \in Texts(now') /\ TransformOK(transform', now')
    BY <1>1, <1>6, <2>1
  <2>3. QED
    BY <1>6, <2>1, <2>2, TypingKept
<1>7. ASSUME owed' \subseteq 1..now, stranded' \subseteq 1..now, excused' \subseteq 1..now
      PROVE  HistoryInv'
  BY <1>2, <1>7 DEF OutputInv, HistoryInv
<1>8. ASSUME pool' = pool \/ pool' = Append(pool, Transform(generation))
      PROVE  PoolInv'
  BY <1>1, <1>2, <1>8, PoolKept
<1>9. CASE /\ Goes(f.to) /\ transform' = NoTransform
           /\ owed' = owed \cup Of(f.final) /\ stranded' = stranded \cup f.left
           /\ UNCHANGED <<pool, excused>>
  BY <1>1, <1>4, <1>6, <1>7, <1>8, <1>9 DEF TransformOK, OutputInv
<1>10. CASE /\ said # none /\ contextual
            /\ Goes(f.to) /\ transform' = Submitted(said, chained)
            /\ pool' = Append(pool, Transform(generation))
            /\ owed' = owed \cup Of(f.final) /\ UNCHANGED stranded
            /\ excused' = IF chained THEN excused \cup (Of(f.to.emitter.prev) \ Of(said)) ELSE excused
  <2>1. TransformOK(transform', now)
    BY <1>1, <1>5, <1>10, SubmittedOK DEF none
  <2>2. TypingInv'
    BY <1>4, <1>6, <1>10, <2>1
  <2>3. HistoryInv'
    BY <1>1, <1>4, <1>7, <1>10
  <2>4. QED
    BY <1>8, <1>10, <2>2, <2>3 DEF OutputInv
<1>11. CASE /\ \E action \in {"scratch", "newline", "key", "copy"} :
                  /\ \E s \in Commanded(f.to, action) : Goes(s)
                  /\ \E back : owed' = owed \ back /\ stranded' = stranded \ back
            /\ transform' = NoTransform
            /\ UNCHANGED <<pool, excused>>
  <2>6. PICK action \in {"scratch", "newline", "key", "copy"} : \E s \in Commanded(f.to, action) : Goes(s)
    BY <1>11
  <2>1. PICK s \in Commanded(f.to, action) : Goes(s)
    BY <2>6
  <2>2. TypistOK(s, now)
    BY <1>1, <1>4, CommandedOK
  <2>3. TypingInv'
    BY <1>6, <1>11, <2>1, <2>2 DEF TransformOK
  <2>4. HistoryInv'
    BY <1>1, <1>7, <1>11
  <2>5. QED
    BY <1>8, <1>11, <2>3, <2>4 DEF OutputInv
<1>12. CASE /\ said # none
            /\ \E s \in Syncs(f.to, Tail(said)) : Goes(s)
            /\ transform' = NoTransform
            /\ owed' = owed \cup Of(said)
            /\ UNCHANGED <<pool, stranded, excused>>
  <2>1. PICK s \in Syncs(f.to, Tail(said)) : Goes(s)
    BY <1>12
  <2>2. Tail(said) \in Texts(now)
    BY <1>5, <1>12, HeadTailProperties DEF Texts, none
  <2>3. TypistOK(s, now)
    BY <1>1, <1>4, <2>2, SyncsOK
  <2>4. TypingInv'
    BY <1>6, <1>12, <2>1, <2>3 DEF TransformOK
  <2>5. HistoryInv'
    BY <1>1, <1>5, <1>7, <1>12
  <2>6. QED
    BY <1>8, <1>12, <2>4, <2>5 DEF OutputInv
<1>13. QED
  BY <1>3, <1>9, <1>10, <1>11, <1>12 DEF said

-----------------------------------------------------------------------------
(* Each action.                                                            *)

\* What every action may use.
LEMMA Here ==
    ASSUME OutputInv
    PROVE  /\ TypistOK(Typist, now) /\ now \in Nat /\ now \in 0..UtteranceLimit /\ parts \in Texts(now)
           /\ TransformOK(transform, now) /\ TransformOK(NoTransform, now)
           /\ speaking \in BOOLEAN /\ (speaking => now # 0 /\ Region(Typist) \subseteq {now})
           /\ transform # NoTransform => contextual /\ ~speaking
           /\ transform.state # "none" => transform # NoTransform
           /\ owed \subseteq 1..now /\ stranded \subseteq 1..now /\ excused \subseteq 1..now
           /\ replied \in BOOLEAN /\ cut \in BOOLEAN
  BY TypistHere DEF OutputInv, TypingInv, HistoryInv, TransformOK, NoTransform

\* An action of the same utterance, of which no part is taken.
LEMMA UtteranceStays ==
    ASSUME OutputInv, UNCHANGED <<mode, utterance>>, NEW s, TypistOK(s, now), Goes(s),
           TransformOK(transform', now), transform' # NoTransform => contextual /\ ~speaking,
           speaking => Region(s) \subseteq {now}
    PROVE  TypingInv'
<1>1. now' = now /\ speaking' = speaking /\ parts' = parts /\ UNCHANGED mode
  BY DEF utterance
<1>2. /\ now' \in 0..UtteranceLimit /\ TypistOK(s, now') /\ parts' \in Texts(now') /\ TransformOK(transform', now')
      /\ speaking' \in BOOLEAN
      /\ speaking' => now' # 0 /\ Region(s) \subseteq {now'}
      /\ transform' # NoTransform => contextual /\ ~speaking'
  BY <1>1, Here
<1>3. QED
  BY <1>1, <1>2, TypingKept

LEMMA HistoryStays ==
    ASSUME OutputInv, UNCHANGED <<now, owed, stranded>>, excused' \subseteq 1..now,
           replied' \in BOOLEAN, cut' \in BOOLEAN, loop' \in {"on", "draining", "closing", "closed"}
    PROVE  HistoryInv'
  BY DEF OutputInv, HistoryInv

LEMMA PoolStays ==
    ASSUME OutputInv, UNCHANGED <<now, llm>>
    PROVE  PoolInv'
<1>1. now' = now /\ generation' = generation /\ prefetched' = prefetched /\ pool' = pool /\ now \in Nat /\ now <= now'
  BY Here DEF llm
<1>2. QED
  BY <1>1, PoolKept

LEMMA StartUtteranceKeeps == OutputInv /\ StartUtterance => OutputInv'
<1> SUFFICES ASSUME OutputInv, StartUtterance PROVE OutputInv'
  OBVIOUS
<1>1. /\ TypistOK(Typist, now) /\ now \in Nat /\ now + 1 \in Nat /\ now + 1 \in 0..UtteranceLimit
      /\ now <= now + 1 /\ now + 1 # 0 /\ parts \in Texts(now) /\ TransformOK(transform, now)
  BY Here, OutputAssumption DEF StartUtterance
<1>2. /\ loop = "on" /\ transform' = NoTransform
      /\ speaking' = TRUE /\ now' = now + 1 /\ generation' = now + 1
      /\ pool' = pool \/ pool' = Append(pool, Prefetch(now + 1))
      /\ UNCHANGED <<mode, parts, prefetched, loop, replied, owed, stranded, excused, cut>>
  BY DEF StartUtterance, Dropped
<1>3. PICK s \in Calls(Cancelled(Typist, transform), Fresh) : Goes(s)
  BY DEF StartUtterance, CancelledThenAdvanced
<1>4. TypistOK(s, now) /\ Region(s) = {}
  BY <1>1, CancelledOK, AdvancedOK
<1>5. TypistOK(s, now')
  BY <1>1, <1>2, <1>4, TypistGrows
<1>6. parts' \in Texts(now')
  BY <1>1, <1>2, VocabularyGrows, SeqMonotonic DEF Texts
<1>7. TypingInv'
  BY <1>1, <1>2, <1>3, <1>4, <1>5, <1>6, TypingKept DEF TransformOK
<1>8. HistoryInv'
  <2>1. 1..now \subseteq 1..now'
    BY <1>1, <1>2
  <2>2. QED
    BY <1>2, <2>1 DEF OutputInv, HistoryInv
<1>9. PoolInv'
  BY <1>2, PoolAdvances
<1>10. QED
  BY <1>7, <1>8, <1>9 DEF OutputInv

\* An interim hypothesis takes the place of the text that was to be rendered.
LEMMA HypothesisKeeps == OutputInv /\ Hypothesis => OutputInv'
<1> SUFFICES ASSUME OutputInv, Hypothesis PROVE OutputInv'
  OBVIOUS
<1>1. PICK text \in Hypotheses(now) : Goes(Published(Typist, text, LiveCap))
  BY DEF Hypothesis
<1>2. /\ speaking /\ UNCHANGED <<mode, utterance>> /\ transform' = transform
      /\ UNCHANGED <<now, owed, stranded>> /\ excused' = excused /\ replied' = replied
      /\ cut' = cut /\ loop' = loop /\ loop = "on" /\ UNCHANGED <<now, llm>>
  BY DEF Hypothesis, utterance
<1> DEFINE s == Published(Typist, text, LiveCap)
<1>3. text \in Texts(now) /\ Of(text) = {now}
  BY <1>2, Here, HypothesisIs
<1>4. TypistOK(s, now) /\ s.emitter = Typist.emitter /\ s.pending.text = text
  BY <1>3, Here, PublishedOK
<1>5. speaking => Region(s) \subseteq {now}
  BY <1>3, <1>4, Here DEF Region
<1> HIDE DEF s
<1>6. Goes(s)
  BY <1>1 DEF s
<1>7. TypingInv'
  BY <1>2, <1>4, <1>5, <1>6, Here, UtteranceStays
<1>8. HistoryInv'
  BY <1>2, Here, HistoryStays
<1>9. PoolInv'
  BY <1>2, PoolStays
<1>10. QED
  BY <1>7, <1>8, <1>9 DEF OutputInv

\* The next utterance continues the long one that ended at the length cap.
LEMMA RolloverKeeps == OutputInv /\ Rollover => OutputInv'
<1> SUFFICES ASSUME OutputInv, Rollover PROVE OutputInv'
  OBVIOUS
<1>1. /\ now \in Nat /\ now + 1 \in Nat /\ now + 1 \in 0..UtteranceLimit
      /\ now <= now + 1 /\ now + 1 # 0 /\ parts \in Texts(now) /\ TransformOK(transform, now)
      /\ owed \subseteq 1..now /\ stranded \subseteq 1..now
  BY Here, OutputAssumption DEF Rollover
<1>2. /\ loop = "on" /\ speaking /\ now' = now + 1
      /\ UNCHANGED <<mode, speaking, loop, transform, replied, excused, cut>>
      /\ generation' = generation /\ pool' = pool /\ prefetched' = prefetched
  BY DEF Rollover, llm
<1>3. PICK f \in Finalized :
          /\ \E s \in Calls(f.to, Carried) : Goes(s)
          /\ parts' = parts \o f.final
          /\ owed' = owed \cup Of(f.final) /\ stranded' = stranded \cup f.left
  BY DEF Rollover
<1>4. TypistOK(f.to, now) /\ f.final \in Texts(now) /\ Of(f.final) \subseteq 1..now /\ f.left \subseteq 1..now
  BY <1>2, FinalizedOK
<1>5. PICK s \in Calls(f.to, Carried) : Goes(s)
  BY <1>3
<1>6. TypistOK(s, now) /\ Region(s) = {}
  BY <1>1, <1>4, AdvancedOK
<1>7. TypistOK(s, now') /\ TransformOK(transform', now')
  BY <1>1, <1>2, <1>6, TypistGrows, TransformGrows
<1>8. parts' \in Texts(now')
  <2>1. parts' \in Texts(now)
    BY <1>1, <1>3, <1>4, Joined
  <2>2. QED
    BY <1>1, <1>2, <2>1, VocabularyGrows, SeqMonotonic DEF Texts
<1>9. transform' # NoTransform => contextual /\ ~speaking'
  BY <1>2, Here
<1>10. TypingInv'
  BY <1>1, <1>2, <1>5, <1>6, <1>7, <1>8, <1>9, TypingKept
<1>11. HistoryInv'
  <2>1. 1..now \subseteq 1..now'
    BY <1>1, <1>2
  <2>2. QED
    BY <1>2, <1>3, <1>4, <2>1 DEF OutputInv, HistoryInv
<1>12. PoolInv'
  BY <1>1, <1>2, PoolKept
<1>13. QED
  BY <1>10, <1>11, <1>12 DEF OutputInv

\* A part of a reply: the text to put back is what the region held before.
LEMMA ProgressKeeps == OutputInv /\ Progress => OutputInv'
<1> SUFFICES ASSUME OutputInv, Progress PROVE OutputInv'
  OBVIOUS
<1> DEFINE c == transform
<1>1. /\ c.state = "stream" /\ c.state # "none" /\ c # NoTransform /\ ~speaking /\ contextual
      /\ UNCHANGED <<mode, utterance>> /\ UNCHANGED <<now, owed, stranded>>
      /\ excused' = excused /\ replied' = replied /\ cut' = cut /\ loop' = loop
      /\ loop \in {"on", "draining", "closing", "closed"} /\ UNCHANGED <<now, llm>>
  BY Here DEF Progress, utterance
<1>2. PICK answer \in Answers \cup Bare :
          \E m \in Merges(Typist, JoinsPrevious(c, SeenToRevise(answer))) :
              LET wanted == JoinsPrevious(c, SeenToRevise(answer))
                  merged == c.merged \/ m.joined
                  restore == IF c.typed /\ ~wanted THEN c.restore
                             ELSE IF merged THEN m.to.emitter.scr ELSE c.original
              IN  /\ Goes(Published(m.to, SubSeq(Body(answer, c, restore), 1, 1), TransformCap))
                  /\ transform' = [c EXCEPT !.merged = merged, !.typed = TRUE,
                                            !.answer = answer, !.restore = restore]
  BY DEF Progress
<1> DEFINE wanted == JoinsPrevious(c, SeenToRevise(answer))
<1>3. PICK m \in Merges(Typist, wanted) :
          LET merged == c.merged \/ m.joined
              restore == IF c.typed /\ ~wanted THEN c.restore
                         ELSE IF merged THEN m.to.emitter.scr ELSE c.original
          IN  /\ Goes(Published(m.to, SubSeq(Body(answer, c, restore), 1, 1), TransformCap))
              /\ transform' = [c EXCEPT !.merged = merged, !.typed = TRUE,
                                        !.answer = answer, !.restore = restore]
  BY <1>2
<1> DEFINE merged == c.merged \/ m.joined
           restore == IF c.typed /\ ~wanted THEN c.restore
                      ELSE IF merged THEN m.to.emitter.scr ELSE c.original
           part == SubSeq(Body(answer, c, restore), 1, 1)
           s == Published(m.to, part, TransformCap)
<1>4. /\ c \in [state: {"stream", "future"}, original: Texts(now), mergeAll: BOOLEAN, merged: BOOLEAN,
                typed: BOOLEAN, restore: Texts(now), answer: Answers \cup Bare \cup {"none"}]
      /\ c.original \in Texts(now) /\ c.original # <<>> /\ c.restore \in Texts(now) /\ c.merged \in BOOLEAN
  BY <1>1, Here, TransformIs
<1>5. TypistOK(m.to, now) /\ m.joined \in BOOLEAN /\ m.to.emitter.scr \in Texts(now)
  <2> HIDE DEF wanted
  <2>1. QED
    BY Here, MergesOK
<1>6. restore \in Texts(now) /\ merged \in BOOLEAN
  BY <1>4, <1>5
<1>7. Goes(s) /\ transform' = [c EXCEPT !.merged = merged, !.typed = TRUE, !.answer = answer, !.restore = restore]
  BY <1>3
<1> HIDE DEF c, wanted, merged, restore
<1>8. part \in Texts(now)
  BY <1>4, <1>6, Here, BodyIs
<1> HIDE DEF part
<1>9. TypistOK(s, now)
  BY <1>5, <1>8, Here, PublishedOK
<1> HIDE DEF s
<1>10. TransformOK(transform', now)
  BY <1>4, <1>6, <1>7 DEF TransformOK
<1>11. TypingInv'
  BY <1>1, <1>7, <1>9, <1>10, UtteranceStays
<1>12. HistoryInv'
  BY <1>1, Here, HistoryStays
<1>13. PoolInv'
  BY <1>1, PoolStays
<1>14. QED
  BY <1>11, <1>12, <1>13 DEF OutputInv

\* What the end of a transform leaves: it is not in flight any more.
LEMMA TransformEnds ==
    ASSUME OutputInv, ~speaking, UNCHANGED <<mode, utterance>>, UNCHANGED <<now, owed, stranded>>, UNCHANGED <<now, llm>>,
           cut' = cut, loop' \in {"on", "draining", "closing", "closed"}, transform' = NoTransform,
           NEW s, TypistOK(s, now), Goes(s), replied' \in BOOLEAN, excused' \subseteq 1..now
    PROVE  OutputInv'
<1>1. TypingInv'
  BY Here, UtteranceStays
<1>2. HistoryInv'
  BY Here, HistoryStays
<1>3. PoolInv'
  BY PoolStays
<1>4. QED
  BY <1>1, <1>2, <1>3 DEF OutputInv

\* A reply is typed in one piece, unless it is the text that is there.
LEMMA ReplyTyped ==
    ASSUME OutputInv, transform.state # "none", NEW answer \in Answers, NEW wanted,
           NEW m \in Merges(Typist, wanted), NEW joined \in BOOLEAN, NEW there,
           LET region == IF joined THEN m.to.emitter.scr ELSE transform.original
               body == Body(answer, transform, region)
           IN  IF there /\ body = transform.original
               THEN Goes(m.to) /\ replied' = TRUE
               ELSE \E s \in Typed(m.to, body, TransformCap) : Goes(s) /\ replied' = (replied \/ Shown(s))
    PROVE  replied' \in BOOLEAN /\ \E s : TypistOK(s, now) /\ Goes(s)
<1> DEFINE region == IF joined THEN m.to.emitter.scr ELSE transform.original
           body == Body(answer, transform, region)
<1>1. transform.original \in Texts(now) /\ transform.original # <<>>
  BY Here, TransformIs
<1>2. TypistOK(m.to, now) /\ m.to.emitter.scr \in Texts(now) /\ now \in Nat /\ replied \in BOOLEAN
  BY Here, MergesOK
<1>3. region \in Texts(now)
  BY <1>1, <1>2
<1>4. \/ Goes(m.to) /\ replied' = TRUE
      \/ \E s \in Typed(m.to, body, TransformCap) : Goes(s) /\ replied' = (replied \/ Shown(s))
  OBVIOUS
<1> HIDE DEF region
<1>5. body \in Texts(now)
  BY <1>1, <1>2, <1>3, BodyIs
<1> HIDE DEF body
<1>6. CASE Goes(m.to) /\ replied' = TRUE
  BY <1>2, <1>6
<1>7. ASSUME NEW s \in Typed(m.to, body, TransformCap), Goes(s) /\ replied' = (replied \/ Shown(s))
      PROVE  replied' \in BOOLEAN /\ TypistOK(s, now) /\ Goes(s)
  <2>1. TypistOK(s, now)
    BY <1>2, <1>5, <1>7, OutputAssumption, TypedOK
  <2>2. QED
    BY <1>2, <1>7, <2>1 DEF Shown
<1>8. QED
  BY <1>4, <1>6, <1>7

LEMMA FinishKeeps == OutputInv /\ Finish => OutputInv'
<1> SUFFICES ASSUME OutputInv, Finish PROVE OutputInv'
  OBVIOUS
<1>1. /\ transform.state # "none" /\ ~speaking /\ transform' = NoTransform
      /\ UNCHANGED <<mode, utterance>> /\ UNCHANGED <<now, owed, stranded>> /\ UNCHANGED <<now, llm>>
      /\ excused' = excused /\ cut' = cut /\ loop' = loop /\ loop \in {"on", "draining", "closing", "closed"}
  BY Here DEF Finish, utterance
<1>2. PICK answer \in Answers :
          \E m \in Merges(Typist, JoinsPrevious(transform, Revises(answer))) :
              LET merged == transform.merged \/ m.joined
                  region == IF merged THEN m.to.emitter.scr ELSE transform.original
                  body == Body(answer, transform, region)
              IN  IF ~transform.typed /\ body = transform.original
                  THEN Goes(m.to) /\ replied' = TRUE
                  ELSE \E s \in Typed(m.to, body, TransformCap) :
                          Goes(s) /\ replied' = (replied \/ Shown(s))
  BY DEF Finish
<1> DEFINE wanted == JoinsPrevious(transform, Revises(answer))
<1>3. PICK m \in Merges(Typist, wanted) :
          LET merged == transform.merged \/ m.joined
              region == IF merged THEN m.to.emitter.scr ELSE transform.original
              body == Body(answer, transform, region)
          IN  IF ~transform.typed /\ body = transform.original
              THEN Goes(m.to) /\ replied' = TRUE
              ELSE \E s \in Typed(m.to, body, TransformCap) :
                      Goes(s) /\ replied' = (replied \/ Shown(s))
  BY <1>2
<1> DEFINE merged == transform.merged \/ m.joined
           there == ~transform.typed
<1>4. merged \in BOOLEAN
  <2> HIDE DEF wanted
  <2>1. QED
    BY <1>1, Here, TransformIs, MergesOK
<1>5. LET region == IF merged THEN m.to.emitter.scr ELSE transform.original
          body == Body(answer, transform, region)
      IN  IF there /\ body = transform.original
          THEN Goes(m.to) /\ replied' = TRUE
          ELSE \E s \in Typed(m.to, body, TransformCap) : Goes(s) /\ replied' = (replied \/ Shown(s))
  BY <1>3
<1> HIDE DEF wanted, merged, there
<1>6. replied' \in BOOLEAN /\ \E s : TypistOK(s, now) /\ Goes(s)
  BY <1>1, <1>4, <1>5, ReplyTyped
<1>7. QED
  BY <1>1, <1>6, Here, TransformEnds

LEMMA ApplyKeeps == OutputInv /\ Apply => OutputInv'
<1> SUFFICES ASSUME OutputInv, Apply PROVE OutputInv'
  OBVIOUS
<1>1. /\ transform.state # "none" /\ ~speaking /\ transform' = NoTransform
      /\ UNCHANGED <<mode, utterance>> /\ UNCHANGED <<now, owed, stranded>> /\ UNCHANGED <<now, llm>>
      /\ excused' = excused /\ cut' = cut /\ loop' = loop /\ loop \in {"on", "draining", "closing", "closed"}
  BY Here DEF Apply, utterance
<1>2. PICK answer \in Answers :
          \E m \in Merges(Typist, JoinsPrevious(transform, Revises(answer))) :
              LET body == Body(answer, transform, IF m.joined THEN m.to.emitter.scr ELSE transform.original)
              IN  IF ~m.joined /\ body = transform.original
                  THEN Goes(m.to) /\ replied' = TRUE
                  ELSE \E s \in Typed(m.to, body, TransformCap) :
                          Goes(s) /\ replied' = (replied \/ Shown(s))
  BY DEF Apply
<1> DEFINE wanted == JoinsPrevious(transform, Revises(answer))
<1>3. PICK m \in Merges(Typist, wanted) :
          LET body == Body(answer, transform, IF m.joined THEN m.to.emitter.scr ELSE transform.original)
          IN  IF ~m.joined /\ body = transform.original
              THEN Goes(m.to) /\ replied' = TRUE
              ELSE \E s \in Typed(m.to, body, TransformCap) :
                      Goes(s) /\ replied' = (replied \/ Shown(s))
  BY <1>2
<1> DEFINE joined == m.joined
           there == ~joined
<1>4. joined \in BOOLEAN
  <2> HIDE DEF wanted
  <2>1. QED
    BY Here, MergesOK
<1>5. LET region == IF joined THEN m.to.emitter.scr ELSE transform.original
          body == Body(answer, transform, region)
      IN  IF there /\ body = transform.original
          THEN Goes(m.to) /\ replied' = TRUE
          ELSE \E s \in Typed(m.to, body, TransformCap) : Goes(s) /\ replied' = (replied \/ Shown(s))
  BY <1>3
<1> HIDE DEF wanted, joined, there
<1>6. replied' \in BOOLEAN /\ \E s : TypistOK(s, now) /\ Goes(s)
  BY <1>1, <1>4, <1>5, ReplyTyped
<1>7. QED
  BY <1>1, <1>6, Here, TransformEnds

LEMMA FailsKeeps == OutputInv /\ Fails => OutputInv'
<1> SUFFICES ASSUME OutputInv, Fails PROVE OutputInv'
  OBVIOUS
<1>1. /\ transform.state # "none" /\ ~speaking /\ transform' = NoTransform
      /\ UNCHANGED <<mode, utterance>> /\ UNCHANGED <<now, owed, stranded>> /\ UNCHANGED <<now, llm>>
      /\ excused' = excused /\ cut' = cut /\ replied' = replied
      /\ loop' = loop /\ loop \in {"on", "draining", "closing", "closed"}
      /\ Goes(Cancelled(Typist, transform))
  BY Here DEF Fails, utterance
<1>2. TypistOK(Cancelled(Typist, transform), now)
  BY Here, CancelledOK
<1>3. QED
  BY <1>1, <1>2, Here, TransformEnds

LEMMA EmptyRevisionKeeps == OutputInv /\ EmptyRevision => OutputInv'
<1> SUFFICES ASSUME OutputInv, EmptyRevision PROVE OutputInv'
  OBVIOUS
<1>1. /\ transform.state # "none" /\ ~speaking /\ transform' = NoTransform
      /\ UNCHANGED <<mode, utterance>> /\ UNCHANGED <<now, owed, stranded>> /\ UNCHANGED <<now, llm>>
      /\ cut' = cut /\ loop' = loop /\ loop \in {"on", "draining", "closing", "closed"}
  BY Here DEF EmptyRevision, utterance
<1>2. PICK m \in Merges(Typist, transform.mergeAll /\ ~transform.merged) :
          \/ /\ \E s \in Typed(m.to, Marker, TransformCap) : Goes(s) /\ replied' = (replied \/ Shown(s))
             /\ excused' = excused \cup Of(m.to.emitter.scr)
          \/ /\ Goes(m.to) /\ replied' = replied
             /\ excused' = excused \/ excused' = excused \cup Of(Restore(transform))
  BY DEF EmptyRevision
<1>3. /\ TypistOK(m.to, now) /\ Of(m.to.emitter.scr) \subseteq 1..now /\ now \in Nat
      /\ Marker \in Texts(now)
  BY Here, MergesOK, NewLineIs
<1>4. CASE /\ \E s \in Typed(m.to, Marker, TransformCap) : Goes(s) /\ replied' = (replied \/ Shown(s))
           /\ excused' = excused \cup Of(m.to.emitter.scr)
  <2>1. PICK s \in Typed(m.to, Marker, TransformCap) : Goes(s) /\ replied' = (replied \/ Shown(s))
    BY <1>4
  <2>2. TypistOK(s, now)
    BY <1>3, OutputAssumption, TypedOK
  <2>3. replied' \in BOOLEAN /\ excused' \subseteq 1..now
    BY <1>3, <1>4, <2>1, Here DEF Shown
  <2>4. QED
    BY <1>1, <2>1, <2>2, <2>3, TransformEnds
<1>5. CASE /\ Goes(m.to) /\ replied' = replied
           /\ excused' = excused \/ excused' = excused \cup Of(Restore(transform))
  <2>1. Restore(transform) \in Texts(now)
    BY <1>1, Here, TransformIs
  <2>2. Of(Restore(transform)) \subseteq 1..now
    BY <1>3, <2>1, OfIs
  <2>3. excused' \subseteq 1..now
    BY <1>5, <2>2, Here
  <2>4. QED
    BY <1>1, <1>3, <1>5, <2>3, Here, TransformEnds
<1>6. QED
  BY <1>2, <1>4, <1>5

\* What is typed and what is said of it stay as they are.
LEMMA OthersStay ==
    ASSUME OutputInv, UNCHANGED <<mode, typing, utterance>>, UNCHANGED <<transform, replied, owed, stranded, excused, cut>>,
           loop' \in {"on", "draining", "closing", "closed"}
    PROVE  TypingInv' /\ HistoryInv'
<1>1. /\ UNCHANGED <<now, owed, stranded>> /\ excused' = excused /\ replied' = replied /\ cut' = cut
      /\ transform' = transform /\ UNCHANGED <<mode, utterance>>
  BY DEF utterance
<1>2. Goes(Typist)
  BY DEF Goes, Typist, typing
<1>3. TypingInv'
  BY <1>1, <1>2, Here, UtteranceStays
<1>4. HistoryInv'
  BY <1>1, Here, HistoryStays
<1>5. QED
  BY <1>3, <1>4

\* The coordinator's thread types nothing.
LEMMA ThreadKeeps == OutputInv /\ (Prefetches \/ Transforms \/ Answered) => OutputInv'
<1> SUFFICES ASSUME OutputInv, Prefetches \/ Transforms \/ Answered PROVE OutputInv'
  OBVIOUS
<1>1. /\ UNCHANGED <<mode, typing, utterance>> /\ UNCHANGED <<transform, replied, owed, stranded, excused, cut>>
      /\ loop' \in {"on", "draining", "closing", "closed"} /\ now' = now
  BY DEF Prefetches, Transforms, Answered, OutputInv, HistoryInv, utterance
<1>2. TypingInv' /\ HistoryInv'
  BY <1>1, OthersStay
<1>3. CASE Prefetches
  BY <1>2, <1>3, PrefetchesKeeps DEF OutputInv
<1>4. CASE Transforms
  BY <1>2, <1>4, TransformsKeeps DEF OutputInv
<1>5. CASE Answered
  <2>1. pool # <<>> /\ pool' = Tail(pool) /\ generation' = generation /\ prefetched' = prefetched
    BY <1>5 DEF Answered
  <2>2. now' \in Nat /\ now <= now'
    BY <1>1, Here
  <2>3. PoolInv'
    BY <2>1, <2>2, PoolKept
  <2>4. QED
    BY <1>2, <2>3 DEF OutputInv
<1>6. QED
  BY <1>3, <1>4, <1>5

\* The render thread shows what was published, of which it already was the region.
LEMMA RenderKeeps == OutputInv /\ Render => OutputInv'
<1> SUFFICES ASSUME OutputInv, Render PROVE OutputInv'
  OBVIOUS
<1>1. PICK s \in Rendered(Typist) : Goes(s)
  BY DEF Render
<1>2. TypistOK(s, now) /\ Region(s) \subseteq Region(Typist)
  BY Here, RenderedOK
<1>3. /\ UNCHANGED <<mode, utterance>> /\ UNCHANGED <<now, owed, stranded>> /\ UNCHANGED <<now, llm>>
      /\ transform' = transform /\ replied' = replied /\ excused' = excused /\ cut' = cut
      /\ loop' \in {"on", "draining", "closing", "closed"}
  BY DEF Render, utterance, OutputInv, HistoryInv
<1>4. TypingInv'
  BY <1>1, <1>2, <1>3, Here, UtteranceStays
<1>5. HistoryInv'
  BY <1>3, Here, HistoryStays
<1>6. PoolInv'
  BY <1>3, PoolStays
<1>7. QED
  BY <1>4, <1>5, <1>6 DEF OutputInv

LEMMA StopKeeps == OutputInv /\ (EndOfSpeech \/ Stop) => OutputInv'
<1> SUFFICES ASSUME OutputInv, EndOfSpeech \/ Stop PROVE OutputInv'
  OBVIOUS
<1>1. CASE EndOfSpeech
  BY <1>1, UtteranceEnds DEF EndOfSpeech
<1>2. CASE speaking /\ EndUtterance("draining")
  BY <1>2, UtteranceEnds
<1>3. CASE /\ ~speaking /\ loop' = "draining"
           /\ UNCHANGED <<mode, typing, utterance, llm, transform, replied, owed, stranded, excused, cut>>
  <2>1. TypingInv' /\ HistoryInv'
    BY <1>3, OthersStay
  <2>2. PoolInv'
    BY <1>3, PoolStays DEF utterance
  <2>3. QED
    BY <2>1, <2>2 DEF OutputInv
<1>4. QED
  BY <1>1, <1>2, <1>3 DEF Stop

\* The budget of drain() is spent: a rewrite that was begun is taken back.
LEMMA DrainedKeeps == OutputInv /\ Drained => OutputInv'
<1> SUFFICES ASSUME OutputInv, Drained PROVE OutputInv'
  OBVIOUS
<1>1. /\ loop' \in {"on", "draining", "closing", "closed"} /\ transform' = NoTransform
      /\ UNCHANGED <<mode, utterance>> /\ UNCHANGED <<now, owed, stranded>> /\ UNCHANGED <<now, llm>>
      /\ replied' = replied /\ excused' = excused /\ cut' = cut
  BY DEF Drained, utterance
<1>2. PICK s \in TakesBack(Typist, transform) : Goes(s)
  BY DEF Drained
<1>3. TypistOK(s, now) /\ (speaking => Region(s) \subseteq {now})
  <2>1. CASE transform.state = "stream" /\ transform.typed
    <3>1. s \in Typed(Typist, Restore(transform), TransformCap)
      BY <1>2, <2>1 DEF TakesBack
    <3>2. Restore(transform) \in Texts(now) /\ ~speaking
      BY <2>1, Here, TransformIs
    <3>3. QED
      BY <3>1, <3>2, Here, OutputAssumption, TypedOK
  <2>2. CASE ~(transform.state = "stream" /\ transform.typed)
    <3>1. s = Typist
      BY <1>2, <2>2 DEF TakesBack
    <3>2. QED
      BY <3>1, Here
  <2>3. QED
    BY <2>1, <2>2
<1>4. TypingInv'
  BY <1>1, <1>2, <1>3, Here, UtteranceStays
<1>5. HistoryInv'
  BY <1>1, Here, HistoryStays
<1>6. PoolInv'
  BY <1>1, PoolStays
<1>7. QED
  BY <1>4, <1>5, <1>6 DEF OutputInv

LEMMA DiesKeeps == OutputInv /\ Dies => OutputInv'
<1> SUFFICES ASSUME OutputInv, Dies PROVE OutputInv'
  OBVIOUS
<1>1. /\ loop' \in {"on", "draining", "closing", "closed"} /\ transform' = NoTransform /\ speaking' = FALSE
      /\ UNCHANGED mode /\ now' = now /\ parts' = parts /\ UNCHANGED <<now, llm>> /\ UNCHANGED <<now, owed, stranded>>
      /\ replied' = replied /\ excused' = excused
      /\ cut' = (transform # NoTransform /\ transform.typed)
  BY DEF Dies
<1>2. \E s : TypistOK(s, now) /\ Goes(s)
  <2>1. CASE speaking
    <3>1. PICK f \in Finalized : Goes(f.to)
      BY <2>1 DEF Dies
    <3>2. QED
      BY <2>1, <3>1, FinalizedOK
  <2>2. CASE ~speaking
    BY <2>2, Here DEF Dies
  <2>3. QED
    BY <2>1, <2>2
<1>3. PICK s : TypistOK(s, now) /\ Goes(s)
  BY <1>2
<1>4. cut' \in BOOLEAN
  BY <1>1
<1>5. now' \in 0..UtteranceLimit /\ TypistOK(s, now') /\ parts' \in Texts(now') /\ TransformOK(transform', now')
  BY <1>1, <1>3, Here
<1>6. TypingInv'
  BY <1>1, <1>3, <1>5, TypingKept
<1>7. HistoryInv'
  BY <1>1, <1>4, Here, HistoryStays
<1>8. PoolInv'
  BY <1>1, PoolStays
<1>9. QED
  BY <1>6, <1>7, <1>8 DEF OutputInv

LEMMA CloseKeeps == OutputInv /\ Close => OutputInv'
<1> SUFFICES ASSUME OutputInv, Close PROVE OutputInv'
  OBVIOUS
<1>1. /\ pending' = NoText /\ emitter' = emitter /\ fails' = fails /\ pool' = <<>>
      /\ loop' \in {"on", "draining", "closing", "closed"}
      /\ UNCHANGED <<mode, utterance>> /\ UNCHANGED <<now, owed, stranded>>
      /\ now' = now /\ generation' = generation /\ prefetched' = prefetched
      /\ transform' = transform /\ replied' = replied /\ excused' = excused
      /\ cut' = (cut \/ pending # NoText)
  BY DEF Close, utterance
<1> DEFINE s == [Typist EXCEPT !.pending = NoText]
<1>2. /\ TypistOK(Typist, now) /\ Typist.emitter = emitter /\ Typist.fails = fails
      /\ NoText \in [text: Texts(now), cap: {0, LiveCap, TransformCap}] /\ Of(NoText.text) = {}
  BY Here, NoTextIs, NothingIsText DEF Typist
<1>3. /\ TypistOK(s, now) /\ s.emitter = emitter /\ s.fails = fails /\ s.pending = NoText
  BY <1>2 DEF TypistOK
<1>4. Region(s) \subseteq Region(Typist)
  BY <1>2, <1>3 DEF Region
<1> HIDE DEF s
<1>5. Goes(s)
  BY <1>1, <1>3 DEF Goes
<1>6. TypingInv'
  BY <1>1, <1>3, <1>4, <1>5, Here, UtteranceStays
<1>7. HistoryInv'
  BY <1>1, Here, HistoryStays
<1>8. PoolInv'
  BY <1>1, Here, PoolKept
<1>9. QED
  BY <1>6, <1>7, <1>8 DEF OutputInv

-----------------------------------------------------------------------------
(* The invariant holds.                                                    *)

LEMMA InitOutput == OutputInit => OutputInv
<1> SUFFICES ASSUME OutputInit PROVE OutputInv
  OBVIOUS
<1> DEFINE none == <<>>
<1>1. /\ none \in Texts(0) /\ none \in Seq(Vocabulary(0)) /\ none \in Seq(Tasks) /\ Of(none) = {}
      /\ none \o none = none /\ Len(none) = 0 /\ DOMAIN none = {}
  BY NothingIsText, EmptySeq, ConcatEmptySeq DEF Texts
<1>2. /\ emitter = [scr |-> none, prev |-> none, frozen |-> FALSE, screen |-> none, settled |-> none]
      /\ pending = NoText /\ fails = 0 /\ now = 0 /\ speaking = FALSE /\ parts = none
      /\ contextual \in BOOLEAN /\ streaming \in BOOLEAN /\ transform = NoTransform
  BY DEF OutputInit, NewEmitter
<1>3. generation = 0 /\ pool = none /\ prefetched = NoContext
  BY DEF OutputInit
<1> HIDE DEF none
<1>4. EmitterOK(emitter, Vocabulary(0))
  <2>1. Same(none, none, 0)
    BY DEF Same
  <2>2. QED
    BY <1>1, <1>2, <2>1 DEF EmitterOK, EmitterOf, KnowsScreen, SettledStays
<1>5. TypistOK(Typist, 0)
  <2>1. Typist = [emitter |-> emitter, pending |-> NoText, fails |-> 0]
    BY <1>2 DEF Typist
  <2>2. QED
    BY <1>4, <2>1, NoTextIs, OutputAssumption DEF TypistOK, EmitterOK
<1>6. TypingInv
  <2>1. TypistOK(Typist, now) /\ parts \in Texts(now) /\ now \in 0..UtteranceLimit
    BY <1>1, <1>2, <1>5, OutputAssumption
  <2>2. QED
    BY <1>2, <2>1 DEF TypingInv, TransformOK
<1>7. HistoryInv
  BY <1>2 DEF OutputInit, HistoryInv
<1>8. PoolInv
  BY <1>1, <1>2, <1>3 DEF PoolInv, ContextIsOfThisUtterance, NoContext
<1>9. QED
  BY <1>6, <1>7, <1>8 DEF OutputInv

LEMMA NextOutput == OutputInv /\ [OutputNext]_outputVars => OutputInv'
<1>1. OutputInv /\ UNCHANGED outputVars => OutputInv'
  <2> SUFFICES ASSUME OutputInv, UNCHANGED outputVars PROVE OutputInv'
    OBVIOUS
  <2>1. /\ UNCHANGED <<mode, typing, utterance>> /\ UNCHANGED <<transform, replied, owed, stranded, excused, cut>>
        /\ UNCHANGED <<now, llm>> /\ loop' \in {"on", "draining", "closing", "closed"}
    BY DEF outputVars, utterance, OutputInv, HistoryInv
  <2>2. QED
    BY <2>1, OthersStay, PoolStays DEF OutputInv
<1>2. QED
  BY <1>1, StartUtteranceKeeps, HypothesisKeeps, RolloverKeeps, StopKeeps, ProgressKeeps, FinishKeeps,
     FailsKeeps, EmptyRevisionKeeps, ApplyKeeps, ThreadKeeps, RenderKeeps, DrainedKeeps, DiesKeeps, CloseKeeps
  DEF OutputNext

LEMMA OutputInvariant == OutputSpec => []OutputInv
  BY InitOutput, NextOutput, PTL DEF OutputSpec

-----------------------------------------------------------------------------
(* The theorems.                                                           *)

LEMMA TypesOfInv == OutputInv => OutputTypeOK
<1> SUFFICES ASSUME OutputInv PROVE OutputTypeOK
  OBVIOUS
<1>1. /\ TypistOK(Typist, now) /\ Typist.emitter = emitter /\ Typist.pending = pending /\ Typist.fails = fails
      /\ now \in 0..UtteranceLimit
  BY Here DEF Typist
<1>2. \A a : a \in Texts(now) => a \in Text
  BY <1>1, TextsAreText
<1>3. /\ emitter \in EmitterOf(Vocabulary(now)) /\ fails \in 0..FailLimit
      /\ pending \in [text: Texts(now), cap: {0, LiveCap, TransformCap}]
  BY <1>1 DEF TypistOK
<1>4. emitter \in Emitter
  BY <1>2, <1>3 DEF Emitter, EmitterOf, Texts
<1>5. pending \in [text: Text, cap: {0, LiveCap, TransformCap}]
  BY <1>2, <1>3
<1>6. parts \in Text
  BY <1>2, Here
<1>7. transform \in {NoTransform} \cup InFlight
  <2>1. CASE transform = NoTransform
    BY <2>1
  <2>2. CASE transform # NoTransform
    BY <1>2, <2>2, Here DEF TransformOK, InFlight
  <2>3. QED
    BY <2>1, <2>2
<1>8. QED
  BY <1>1, <1>3, <1>4, <1>5, <1>6, <1>7 DEF OutputTypeOK, OutputInv, TypingInv, HistoryInv, PoolInv

\* No call of the session loop, of the coordinator or of the render thread
\* leaves a value out of range, for any number of utterances and any caps: the
\* counters and the history are of utterances that have begun, and no transform
\* is in flight while the user speaks (TransformCoordinator.cancel_pending).
THEOREM OutputTypeCorrect == OutputSpec => []OutputTypeOK
  BY OutputInvariant, TypesOfInv, PTL

\* CorrectingEmitter.sync, begin_utterance, merge_previous and forget: whatever
\* is typed over and however deep the device fails, the emitter knows the screen
\* or that it does not, and no backspace reaches text of no region.
THEOREM OnlyTheRegion == OutputSpec => []SettledTextStays
<1>1. OutputInv => SettledTextStays
  BY Here DEF TypistOK, EmitterOK, Typist, SettledTextStays
<1>2. QED
  BY <1>1, OutputInvariant, PTL

\* TransformCoordinator.cancel_pending before begin_utterance: what a cancelled
\* transform had published is rendered before the baseline advances, so nothing
\* of an earlier utterance is typed, or about to be, while the user speaks.
THEOREM NothingLate == OutputSpec => []NoLateRewrite
<1>1. OutputInv => NoLateRewrite
  BY TypistHere DEF OutputInv, TypingInv, NoLateRewrite
<1>2. QED
  BY <1>1, OutputInvariant, PTL

\* TransformCoordinator._capture_context and prefetch: the one thread does its
\* tasks in order and a context is kept with the generation it is for, so the
\* model is never shown the window of an earlier utterance.
THEOREM ContextIsFresh == OutputSpec => []ContextIsOfThisUtterance
<1>1. OutputInv => ContextIsOfThisUtterance
  BY DEF OutputInv, PoolInv
<1>2. QED
  BY <1>1, OutputInvariant, PTL

-----------------------------------------------------------------------------
(* Texts in which a message and its transform are not both, and replies    *)
(* are whole.                                                              *)

IsReply(token) == token.form \in {"reply", "end"}
Apart(a, b) == Of(a) \cap Of(b) = {}
Plain(text) == \A i \in DOMAIN text : ~IsReply(text[i])

\* SaidOnce and Whole, of a text; o is what is owed.
Neat(text) ==
    \A i, j \in DOMAIN text : (i # j /\ text[i].of \cap text[j].of # {}) =>
        /\ text[i] # text[j]
        /\ IsReply(text[i]) <=> IsReply(text[j])
        /\ IsReply(text[i]) => text[i].of = text[j].of
WholeFor(text, o) ==
    \A i \in DOMAIN text : (text[i].form = "reply" /\ text[i].of \cap o # {}) =>
        i < Len(text) /\ text[i + 1] = Token(text[i].of, "end")
Tidy(text, o) == Neat(text) /\ WholeFor(text, o)

LEMMA TextIs ==
    ASSUME NEW k \in Nat, NEW a \in Texts(k)
    PROVE  /\ Len(a) \in Nat /\ DOMAIN a = 1..Len(a) /\ \A i \in 1..Len(a) : a[i] \in Vocabulary(k)
           /\ \A i \in 1..Len(a) : a[i].of \subseteq Of(a)
           /\ Len(a) = 0 <=> a = <<>>
<1>1. /\ Len(a) \in Nat /\ DOMAIN a = 1..Len(a) /\ \A i \in 1..Len(a) : a[i] \in Vocabulary(k)
      /\ Len(a) = 0 <=> a = <<>>
  BY LenProperties, ElementOfSeq, EmptySeq DEF Texts
<1>2. \A i \in 1..Len(a) : a[i].of \subseteq Of(a)
  BY OfIs
<1>3. QED
  BY <1>1, <1>2

LEMMA NothingIsTidy == \A o : Tidy(<<>>, o) /\ Plain(<<>>) /\ Of(<<>>) = {}
<1>1. DOMAIN <<>> = {}
  OBVIOUS
<1>2. QED
  BY <1>1, NothingIsText DEF Tidy, Neat, WholeFor, Plain

\* One text after another.
LEMMA ConcatIs ==
    ASSUME NEW k \in Nat, NEW a \in Texts(k), NEW b \in Texts(k)
    PROVE  \E c \in Texts(k) :
              /\ c = a \o b /\ Len(c) = Len(a) + Len(b)
              /\ \A i \in 1..Len(c) : \/ i \in 1..Len(a) /\ c[i] = a[i]
                                      \/ i - Len(a) \in 1..Len(b) /\ c[i] = b[i - Len(a)]
              /\ \A i \in 1..Len(a) : i \in 1..Len(c) /\ c[i] = a[i]
              /\ \A i \in 1..Len(b) : Len(a) + i \in 1..Len(c) /\ c[Len(a) + i] = b[i]
<1>1. /\ a \o b \in Texts(k) /\ Len(a \o b) = Len(a) + Len(b) /\ Len(a) \in Nat /\ Len(b) \in Nat
      /\ \A i \in 1..(Len(a) + Len(b)) : (a \o b)[i] = IF i <= Len(a) THEN a[i] ELSE b[i - Len(a)]
  BY ConcatProperties, LenProperties DEF Texts
<1>2. PICK c \in Texts(k) :
        /\ c = a \o b /\ Len(c) = Len(a) + Len(b) /\ Len(a) \in Nat /\ Len(b) \in Nat
        /\ \A i \in 1..(Len(a) + Len(b)) : c[i] = IF i <= Len(a) THEN a[i] ELSE b[i - Len(a)]
  BY <1>1, Zenon
<1>3. \A i \in 1..Len(c) : \/ i \in 1..Len(a) /\ c[i] = a[i]
                           \/ i - Len(a) \in 1..Len(b) /\ c[i] = b[i - Len(a)]
  BY <1>2
<1>4. \A i \in 1..Len(a) : i \in 1..Len(c) /\ c[i] = a[i]
  BY <1>2
<1>5. \A i \in 1..Len(b) : Len(a) + i \in 1..Len(c) /\ c[Len(a) + i] = b[i]
  <2> SUFFICES ASSUME NEW i \in 1..Len(b)
               PROVE  Len(a) + i \in 1..Len(c) /\ c[Len(a) + i] = b[i]
    OBVIOUS
  <2>1. Len(a) + i \in 1..(Len(a) + Len(b)) /\ ~(Len(a) + i <= Len(a)) /\ (Len(a) + i) - Len(a) = i
    BY <1>2
  <2>2. QED
    BY <1>2, <2>1
<1>6. QED
  BY <1>2, <1>3, <1>4, <1>5, Zenon

LEMMA OfConcat ==
    ASSUME NEW k \in Nat, NEW a \in Texts(k), NEW b \in Texts(k)
    PROVE  /\ a \o b \in Texts(k) /\ Of(a \o b) = Of(a) \cup Of(b)
           /\ b # <<>> \/ a # <<>> => a \o b # <<>>
<1>10. PICK c \in Texts(k) :
         /\ c = a \o b /\ Len(c) = Len(a) + Len(b)
         /\ \A i \in 1..Len(c) : \/ i \in 1..Len(a) /\ c[i] = a[i]
                                 \/ i - Len(a) \in 1..Len(b) /\ c[i] = b[i - Len(a)]
         /\ \A i \in 1..Len(a) : i \in 1..Len(c) /\ c[i] = a[i]
         /\ \A i \in 1..Len(b) : Len(a) + i \in 1..Len(c) /\ c[Len(a) + i] = b[i]
  BY ConcatIs
<1>11. Len(a) \in Nat /\ Len(b) \in Nat /\ (Len(a) = 0 <=> a = <<>>) /\ (Len(b) = 0 <=> b = <<>>)
       /\ (Len(c) = 0 <=> c = <<>>)
  BY TextIs
<1>5. ASSUME NEW u PROVE u \in Of(c) <=> u \in Of(a) \/ u \in Of(b)
  <2>1. u \in Of(c) => u \in Of(a) \/ u \in Of(b)
    <3> SUFFICES ASSUME u \in Of(c) PROVE u \in Of(a) \/ u \in Of(b)
      OBVIOUS
    <3>1. PICK i \in 1..Len(c) : u \in c[i].of
      BY OfIs
    <3>2. QED
      BY <1>10, <3>1, OfIs
  <2>2. u \in Of(a) => u \in Of(c)
    <3> SUFFICES ASSUME u \in Of(a) PROVE u \in Of(c)
      OBVIOUS
    <3>1. PICK i \in 1..Len(a) : u \in a[i].of
      BY OfIs
    <3>2. QED
      BY <1>10, <3>1, OfIs
  <2>3. u \in Of(b) => u \in Of(c)
    <3> SUFFICES ASSUME u \in Of(b) PROVE u \in Of(c)
      OBVIOUS
    <3>1. PICK i \in 1..Len(b) : u \in b[i].of
      BY OfIs
    <3>2. Len(a) + i \in 1..Len(c) /\ u \in c[Len(a) + i].of
      BY <1>10, <3>1
    <3>3. QED
      BY <3>2, OfIs
  <2>4. QED
    BY <2>1, <2>2, <2>3
<1>6. b # <<>> \/ a # <<>> => c # <<>>
  BY <1>10, <1>11
<1>7. QED
  BY <1>5, <1>6, <1>10

LEMMA TidyConcat ==
    ASSUME NEW k \in Nat, NEW a \in Texts(k), NEW b \in Texts(k), NEW o,
           Tidy(a, o), Tidy(b, o), Apart(a, b)
    PROVE  Tidy(a \o b, o) /\ (Plain(a) /\ Plain(b) => Plain(a \o b))
<1>7. PICK c \in Texts(k) :
         /\ c = a \o b /\ Len(c) = Len(a) + Len(b)
         /\ \A i \in 1..Len(c) : \/ i \in 1..Len(a) /\ c[i] = a[i]
                                 \/ i - Len(a) \in 1..Len(b) /\ c[i] = b[i - Len(a)]
         /\ \A i \in 1..Len(a) : i \in 1..Len(c) /\ c[i] = a[i]
         /\ \A i \in 1..Len(b) : Len(a) + i \in 1..Len(c) /\ c[Len(a) + i] = b[i]
  BY ConcatIs
<1>1. /\ Len(c) = Len(a) + Len(b) /\ Len(a) \in Nat /\ Len(b) \in Nat
      /\ \A i \in 1..Len(c) : \/ i \in 1..Len(a) /\ c[i] = a[i]
                              \/ i - Len(a) \in 1..Len(b) /\ c[i] = b[i - Len(a)]
      /\ \A i \in 1..Len(a) : i \in 1..Len(c) /\ c[i] = a[i]
      /\ \A i \in 1..Len(b) : Len(a) + i \in 1..Len(c) /\ c[Len(a) + i] = b[i]
      /\ DOMAIN a = 1..Len(a) /\ DOMAIN b = 1..Len(b) /\ DOMAIN c = 1..Len(c)
  <2>1. /\ Len(a) \in Nat /\ Len(b) \in Nat
        /\ DOMAIN a = 1..Len(a) /\ DOMAIN b = 1..Len(b) /\ DOMAIN c = 1..Len(c)
    BY TextIs
  <2>2. QED
    BY <1>7, <2>1
<1>2. /\ \A i \in 1..Len(a) : a[i].of \subseteq Of(a)
      /\ \A i \in 1..Len(b) : b[i].of \subseteq Of(b)
  BY TextIs
<1>3. Neat(c)
  <2> SUFFICES ASSUME NEW i \in 1..Len(c), NEW j \in 1..Len(c), i # j, c[i].of \cap c[j].of # {}
               PROVE  /\ c[i] # c[j]
                      /\ IsReply(c[i]) <=> IsReply(c[j])
                      /\ IsReply(c[i]) => c[i].of = c[j].of
    BY <1>1 DEF Neat
  <2>1. CASE i \in 1..Len(a) /\ c[i] = a[i] /\ j \in 1..Len(a) /\ c[j] = a[j]
    BY <1>1, <2>1 DEF Tidy, Neat
  <2>2. CASE /\ i - Len(a) \in 1..Len(b) /\ c[i] = b[i - Len(a)]
             /\ j - Len(a) \in 1..Len(b) /\ c[j] = b[j - Len(a)]
    <3> DEFINE g == i - Len(a)
               h == j - Len(a)
    <3>1. g # h /\ g \in 1..Len(b) /\ h \in 1..Len(b) /\ c[i] = b[g] /\ c[j] = b[h]
      BY <1>1, <2>2
    <3> HIDE DEF g, h
    <3>2. QED
      BY <1>1, <3>1, SMTT(30) DEF Tidy, Neat
  <2>3. CASE /\ i \in 1..Len(a) /\ c[i] = a[i]
             /\ j - Len(a) \in 1..Len(b) /\ c[j] = b[j - Len(a)]
    BY <1>2, <2>3 DEF Apart
  <2>4. CASE /\ j \in 1..Len(a) /\ c[j] = a[j]
             /\ i - Len(a) \in 1..Len(b) /\ c[i] = b[i - Len(a)]
    BY <1>2, <2>4 DEF Apart
  <2>5. QED
    BY <1>1, <2>1, <2>2, <2>3, <2>4
<1>4. WholeFor(c, o)
  <2> SUFFICES ASSUME NEW i \in 1..Len(c), c[i].form = "reply", c[i].of \cap o # {}
               PROVE  i < Len(c) /\ c[i + 1] = Token(c[i].of, "end")
    BY <1>1 DEF WholeFor
  <2>1. CASE i \in 1..Len(a) /\ c[i] = a[i]
    <3>1. i < Len(a) /\ a[i + 1] = Token(a[i].of, "end")
      BY <1>1, <2>1 DEF Tidy, WholeFor
    <3>2. i + 1 \in 1..Len(a)
      BY <1>1, <3>1
    <3>3. QED
      BY <1>1, <2>1, <3>1, <3>2
  <2>2. CASE i - Len(a) \in 1..Len(b) /\ c[i] = b[i - Len(a)]
    <3> DEFINE h == i - Len(a)
    <3>1. h \in 1..Len(b) /\ h < Len(b) /\ b[h + 1] = Token(b[h].of, "end")
      BY <1>1, <2>2 DEF Tidy, WholeFor
    <3>2. h + 1 \in 1..Len(b) /\ Len(a) + (h + 1) = i + 1 /\ i < Len(c)
      BY <1>1, <3>1
    <3>3. c[i + 1] = b[h + 1]
      BY <1>1, <3>2
    <3>4. QED
      BY <2>2, <3>1, <3>2, <3>3
  <2>3. QED
    BY <1>1, <2>1, <2>2
<1>5. Plain(a) /\ Plain(b) => Plain(c)
  BY <1>1 DEF Plain
<1>6. QED
  BY <1>3, <1>4, <1>5, <1>7 DEF Tidy

\* What was taken back is not owed, and what a text is not of does not matter.
LEMMA TidyForLess ==
    ASSUME NEW k \in Nat, NEW a \in Texts(k), NEW o, NEW p, Tidy(a, o), p \cap Of(a) \subseteq o
    PROVE  Tidy(a, p)
<1>1. DOMAIN a = 1..Len(a) /\ \A i \in 1..Len(a) : a[i].of \subseteq Of(a)
  BY TextIs
<1>2. QED
  BY <1>1 DEF Tidy, WholeFor

LEMMA PlainIsWhole ==
    ASSUME NEW text, Plain(text), Neat(text), NEW o
    PROVE  Tidy(text, o)
  BY DEF Plain, Tidy, WholeFor, IsReply

\* The texts of one utterance: what is heard of it while it is open, and what
\* may be left of it afterwards.
Heard(text, k) ==
    Len(text) <= 1 /\ (text # <<>> => text[1] \in {Token({k}, "word"), Token({k}, "misheard")})
Spoken(text, k) ==
    /\ Len(text) <= 2
    /\ \A i \in DOMAIN text :
          /\ text[i].of = {k}
          /\ \/ text[i].form \in {"word", "misheard"} /\ i = 1
             \/ text[i].form = "last"
    /\ Len(text) = 2 => text[1].form # "last"

LEMMA TokensOf ==
    ASSUME NEW k, NEW form
    PROVE  Token(k, form).of = k /\ Token(k, form).form = form
  BY DEF Token

LEMMA HeardIsSpoken ==
    ASSUME NEW k \in Nat, NEW text \in Texts(k), Heard(text, k)
    PROVE  Spoken(text, k)
<1>1. Len(text) \in Nat /\ DOMAIN text = 1..Len(text) /\ (Len(text) = 0 <=> text = <<>>)
  BY TextIs
<1>2. \A i \in 1..Len(text) : i = 1 /\ text # <<>>
  BY <1>1 DEF Heard
<1>3. \A i \in 1..Len(text) : i = 1 /\ text[i].of = {k} /\ text[i].form \in {"word", "misheard"}
  BY <1>2, TokensOf DEF Heard
<1>4. QED
  BY <1>1, <1>3 DEF Spoken, Heard

LEMMA TwoPlaces ==
    ASSUME NEW n \in Nat, n <= 2, NEW i \in 1..n, NEW j \in 1..n, i # j
    PROVE  n = 2 /\ ((i = 1 /\ j = 2) \/ (i = 2 /\ j = 1))
<1>1. n = 0 \/ n = 1 \/ n = 2
  OBVIOUS
<1>2. \A h \in 1..2 : h = 1 \/ h = 2
  OBVIOUS
<1>3. n # 0 /\ n # 1
  OBVIOUS
<1>4. n = 2
  BY <1>1, <1>3
<1>5. (i = 1 \/ i = 2) /\ (j = 1 \/ j = 2)
  BY <1>2, <1>4
<1>6. QED
  BY <1>4, <1>5

LEMMA SpokenIs ==
    ASSUME NEW k \in Nat, NEW text \in Texts(k), Spoken(text, k)
    PROVE  /\ Plain(text) /\ Neat(text) /\ \A o : Tidy(text, o)
           /\ Of(text) \subseteq {k} /\ (text # <<>> => Of(text) = {k})
<1>1. Len(text) \in Nat /\ DOMAIN text = 1..Len(text) /\ (Len(text) = 0 <=> text = <<>>)
  BY TextIs
<1>2. Plain(text)
  BY <1>1 DEF Spoken, Plain, IsReply
<1>3. ASSUME NEW i \in 1..Len(text), NEW j \in 1..Len(text), i # j
      PROVE  text[i] # text[j]
  <2>4. Len(text) <= 2
    BY DEF Spoken
  <2>1. Len(text) = 2 /\ ((i = 1 /\ j = 2) \/ (i = 2 /\ j = 1))
    BY <1>1, <1>3, <2>4, TwoPlaces
  <2>2. text[1].form # "last" /\ text[2].form = "last"
    BY <1>1, <2>1 DEF Spoken
  <2>3. QED
    BY <2>1, <2>2
<1>4. Neat(text)
  BY <1>1, <1>2, <1>3 DEF Neat, Plain
<1>5. \A u : u \in Of(text) <=> \E i \in 1..Len(text) : u \in text[i].of
  BY OfIs
<1>6. \A i \in 1..Len(text) : text[i].of = {k}
  BY <1>1 DEF Spoken
<1>7. Of(text) \subseteq {k}
  BY <1>5, <1>6
<1>8. text # <<>> => 1 \in 1..Len(text)
  BY <1>1
<1>9. QED
  BY <1>2, <1>4, <1>5, <1>6, <1>7, <1>8, PlainIsWhole

LEMMA FinalIsSpoken ==
    ASSUME NEW k \in Nat
    PROVE  /\ Spoken(Final(k), k) /\ Len(Final(k)) = 2
           /\ Final(k)[2] = Token({k}, "last")
           /\ Tail(Final(k)) = <<Token({k}, "last")>>
<1>1. /\ Len(Final(k)) = 2 /\ DOMAIN Final(k) = 1..2
      /\ Final(k)[1] = Token({k}, "word") /\ Final(k)[2] = Token({k}, "last")
  BY DEF Final
<1>2. Tail(Final(k)) = <<Token({k}, "last")>>
  BY DEF Final
<1>3. \A i \in 1..2 : i = 1 \/ i = 2
  OBVIOUS
<1>4. QED
  BY <1>1, <1>2, <1>3, TokensOf DEF Spoken

LEMMA ReplyIsTidy ==
    ASSUME NEW us, NEW o
    PROVE  Tidy(Reply(us), o)
<1> DEFINE t == Reply(us)
<1>1. /\ Len(t) = 2 /\ DOMAIN t = 1..2 /\ t[1] = Token(us, "reply") /\ t[2] = Token(us, "end")
  BY DEF Reply
<1> HIDE DEF t
<1>2. /\ t[1].of = us /\ t[1].form = "reply" /\ t[2].of = us /\ t[2].form = "end"
  BY <1>1, TokensOf
<1>3. \A i \in 1..2 : i = 1 \/ i = 2
  OBVIOUS
<1>4. Neat(t)
  BY <1>1, <1>2, <1>3 DEF Neat, IsReply
<1>5. WholeFor(t, o)
  <2> SUFFICES ASSUME NEW i \in 1..2, t[i].form = "reply"
               PROVE  i < Len(t) /\ t[i + 1] = Token(t[i].of, "end")
    BY <1>1 DEF WholeFor
  <2>1. i = 1
    BY <1>2, <1>3
  <2>2. QED
    BY <1>1, <1>2, <2>1
<1>6. QED
  BY <1>4, <1>5 DEF Tidy, t

LEMMA ReplyOf ==
    ASSUME NEW k \in Nat, NEW us \in SUBSET (1..k)
    PROVE  /\ Of(Reply(us)) = us /\ Reply(us) # <<>> /\ Reply(us) \in Texts(k)
           /\ SubSeq(Reply(us), 1, 1) = <<Token(us, "reply")>>
           /\ Of(<<Token(us, "reply")>>) = us /\ <<Token(us, "reply")>> \in Texts(k)
<1> DEFINE p == Token(us, "reply")
           q == Token(us, "end")
           t == Reply(us)
<1>1. p \in Vocabulary(k) /\ q \in Vocabulary(k) /\ p.of = us /\ q.of = us /\ t = <<p, q>>
  BY TokenIs DEF Reply
<1> HIDE DEF p, q, t
<1>2. <<p, q>> \in Texts(k) /\ <<p, q>> # <<>> /\ Of(<<p, q>>) = us
  BY <1>1, TwoTokens
<1>3. Of(<<p>>) = us /\ <<p>> \in Texts(k)
  BY <1>1, OneToken
<1>4. SubSeq(<<p, q>>, 1, 1) = <<p>>
  <2>1. Len(<<p, q>>) = 2 /\ <<p, q>>[1] = p /\ Len(<<p>>) = 1 /\ <<p>>[1] = p
    OBVIOUS
  <2> DEFINE a == <<p, q>>
             b == <<p>>
             c == SubSeq(a, 1, 1)
  <2>2. a \in Seq(Vocabulary(k)) /\ b \in Seq(Vocabulary(k)) /\ Len(a) = 2 /\ a[1] = p /\ Len(b) = 1 /\ b[1] = p
    BY <1>2, <1>3, <2>1 DEF Texts
  <2> HIDE DEF a, b
  <2>3. c \in Seq(Vocabulary(k)) /\ Len(c) = 1 /\ \A i \in 1..1 : c[i] = a[i]
    BY <2>2, PartOf, 0 + 1 = 1
  <2> HIDE DEF c
  <2>4. \A i \in 1..Len(c) : c[i] = b[i]
    BY <2>2, <2>3
  <2>5. c = b
    BY <2>2, <2>3, <2>4, SeqEqual
  <2>6. QED
    BY <2>5 DEF a, b, c
<1>5. QED
  BY <1>1, <1>2, <1>3, <1>4 DEF p, t

-----------------------------------------------------------------------------
(* What a sync makes of a region.                                          *)

LEMMA ShownIs ==
    ASSUME NEW T, NEW e, e.scr \in Seq(T), NEW desired \in Seq(T), NEW n \in 0..Len(e.scr),
           NEW r, r = RegionShown(e, desired, n)
    PROVE  /\ r \in Seq(T) /\ Len(r) = IF n <= Len(desired) THEN Len(desired) ELSE n
           /\ \A i \in 1..Len(r) :
                 \/ i <= n /\ i \in 1..Len(e.scr) /\ r[i] = e.scr[i]
                 \/ i > n /\ i \in 1..Len(desired) /\ r[i] = desired[i]
<1> DEFINE a == e.scr
           kept == SubSeq(a, 1, n)
           rest == SubSeq(desired, n + 1, Len(desired))
<1>1. Len(a) \in Nat /\ Len(desired) \in Nat /\ n \in Nat /\ n <= Len(a)
  BY LenProperties
<1>2. kept \in Seq(T) /\ Len(kept) = n /\ \A i \in 1..n : kept[i] = a[i]
  BY <1>1, PartOf, 0 + 1 = 1
<1>3. /\ rest \in Seq(T)
      /\ Len(rest) = IF n <= Len(desired) THEN Len(desired) - n ELSE 0
      /\ \A i \in 1..Len(rest) : rest[i] = desired[n + i]
  <2>1. CASE n <= Len(desired)
    BY <1>1, <2>1, PartOf
  <2>2. CASE n > Len(desired)
    <3>1. rest = <<>>
      BY <1>1, <2>2, SubSeqEmpty
    <3>2. rest \in Seq(T) /\ Len(rest) = 0
      BY <3>1, EmptySeq
    <3>3. QED
      BY <1>1, <2>2, <3>2
  <2>3. QED
    BY <1>1, <2>1, <2>2
<1>4. r = kept \o rest
  BY DEF RegionShown
<1> HIDE DEF kept, rest
<1>5. /\ r \in Seq(T) /\ Len(r) = n + Len(rest)
      /\ \A i \in 1..(n + Len(rest)) : r[i] = IF i <= n THEN kept[i] ELSE rest[i - n]
  <2>1. /\ kept \o rest \in Seq(T) /\ Len(kept \o rest) = Len(kept) + Len(rest)
        /\ \A i \in 1..(Len(kept) + Len(rest)) :
              (kept \o rest)[i] = IF i <= Len(kept) THEN kept[i] ELSE rest[i - Len(kept)]
    BY <1>2, <1>3, ConcatProperties
  <2>2. QED
    BY <1>2, <1>4, <2>1, Zenon
<1>6. Len(rest) \in Nat /\ Len(r) = IF n <= Len(desired) THEN Len(desired) ELSE n
  BY <1>1, <1>3, <1>5
<1>7. ASSUME NEW i \in 1..Len(r)
      PROVE  \/ i <= n /\ i \in 1..Len(a) /\ r[i] = a[i]
             \/ i > n /\ i \in 1..Len(desired) /\ r[i] = desired[i]
  <2>1. CASE i <= n
    BY <1>1, <1>2, <1>5, <1>6, <2>1
  <2>2. CASE i > n
    <3>1. i - n \in 1..Len(rest) /\ n + (i - n) = i /\ i \in 1..Len(desired)
      BY <1>1, <1>3, <1>5, <1>6, <2>2
    <3>2. r[i] = rest[i - n]
      BY <1>1, <1>5, <1>6, <2>2
    <3>3. QED
      BY <1>3, <2>2, <3>1, <3>2
  <2>3. QED
    BY <1>1, <2>1, <2>2
<1>8. QED
  BY <1>5, <1>6, <1>7

\* A text shown to the end is the text.
LEMMA AllShown ==
    ASSUME NEW T, NEW e, e.scr \in Seq(T), NEW desired \in Seq(T), NEW n \in 0..Len(e.scr),
           n <= Len(desired), Same(e.scr, desired, n)
    PROVE  RegionShown(e, desired, n) = desired
<1> DEFINE r == RegionShown(e, desired, n)
<1>1. Len(e.scr) \in Nat /\ Len(desired) \in Nat /\ n \in Nat /\ n <= Len(e.scr)
  BY LenProperties
<1>2. \A i \in 1..n : e.scr[i] = desired[i]
  BY <1>1, SameIs
<1>3. /\ r \in Seq(T) /\ Len(r) = IF n <= Len(desired) THEN Len(desired) ELSE n
      /\ \A i \in 1..Len(r) :
            \/ i <= n /\ i \in 1..Len(e.scr) /\ r[i] = e.scr[i]
            \/ i > n /\ i \in 1..Len(desired) /\ r[i] = desired[i]
  BY ShownIs
<1> HIDE DEF r
<1>4. Len(r) = Len(desired) /\ \A i \in 1..Len(r) : r[i] = desired[i]
  BY <1>1, <1>2, <1>3
<1>5. r = desired
  BY <1>3, <1>4, SeqEqual
<1>6. QED
  BY <1>5 DEF r

\* sync() on a device that does not fail: the region is rewritten up to the cap,
\* and shows the text if it is no longer than the cap.
LEMMA SyncedWell ==
    ASSUME NEW T, NEW e, e \in EmitterOf(T), ~e.frozen, NEW desired \in Seq(T), NEW cap \in Nat,
           NEW mayFail, NEW r \in Synced(e, desired, cap, mayFail), ~r.frozen
    PROVE  /\ r.prev = e.prev /\ r.settled = e.settled
           /\ \E n \in 0..Len(e.scr) : r.scr = RegionShown(e, desired, n)
           /\ Len(e.scr) <= cap => r.scr = desired
<1> DEFINE n == Stays(e, desired, cap)
           c == Common(e.scr, desired)
<1>1. e.scr \in Seq(T) /\ Len(e.scr) \in Nat /\ Len(desired) \in Nat
  BY LenProperties DEF EmitterOf
<1>2. c \in 0..Len(e.scr) /\ c <= Len(desired) /\ Same(e.scr, desired, c)
  BY <1>1, CommonIs
<1>3. n \in 0..Len(e.scr) /\ (Len(e.scr) <= cap => n = c)
  BY <1>1, <1>2 DEF Stays
<1> HIDE DEF n, c
<1>4. n \in 0..Len(e.scr) /\ n \in Nat
  BY <1>1, <1>3
<1>5. Len(e.scr) <= cap => RegionShown(e, desired, n) = desired
  BY <1>1, <1>2, <1>3, AllShown
<1>6. CASE n = Len(e.scr) /\ n >= Len(desired)
  <2>1. r = e
    BY <1>6 DEF Synced, n, IsFrozen
  <2> DEFINE shown == RegionShown(e, desired, n)
  <2>2. /\ shown \in Seq(T) /\ Len(shown) = IF n <= Len(desired) THEN Len(desired) ELSE n
        /\ \A i \in 1..Len(shown) :
              \/ i <= n /\ i \in 1..Len(e.scr) /\ shown[i] = e.scr[i]
              \/ i > n /\ i \in 1..Len(desired) /\ shown[i] = desired[i]
    BY <1>1, <1>4, ShownIs
  <2> HIDE DEF shown
  <2>3. Len(shown) = Len(e.scr) /\ \A i \in 1..Len(shown) : shown[i] = e.scr[i]
    BY <1>1, <1>6, <2>2
  <2>4. shown = e.scr
    BY <1>1, <2>2, <2>3, SeqEqual
  <2>5. QED
    BY <1>4, <1>5, <2>1, <2>4 DEF shown
<1>7. CASE r = Rewritten(e, desired, n)
  <2> DEFINE shown == RegionShown(e, desired, n)
             screen == Without(e.screen, Len(e.scr) - n) \o SubSeq(desired, n + 1, Len(desired))
  <2>1. r = [e EXCEPT !.scr = shown, !.screen = screen]
    BY <1>7 DEF Rewritten
  <2> HIDE DEF shown, screen
  <2>2. r.scr = shown /\ r.prev = e.prev /\ r.settled = e.settled
    BY <2>1 DEF EmitterOf
  <2>3. QED
    BY <1>4, <1>5, <2>2 DEF shown
<1>8. CASE r \in GetsStuck(e, desired, n)
  <2>1. \E screen : r = [e EXCEPT !.screen = screen, !.frozen = TRUE]
    BY <1>8 DEF GetsStuck, Freezes
  <2>2. r.frozen
    BY <2>1 DEF EmitterOf
  <2>3. QED
    BY <2>2
<1>9. QED
  BY <1>6, <1>7, <1>8 DEF Synced, n, IsFrozen

-----------------------------------------------------------------------------
(* The screen, with a text in the place of the region.                     *)

\* Its three parts are of different utterances, each is tidy, and the words W
\* are there.
Shows(e, text, W, o) ==
    /\ Tidy(e.settled, o) /\ Tidy(e.prev, o) /\ Tidy(text, o)
    /\ Apart(e.settled, e.prev) /\ Apart(e.settled, text) /\ Apart(e.prev, text)
    /\ W \subseteq Of(e.settled) \cup Of(e.prev) \cup Of(text)

LEMMA EmitterTexts ==
    ASSUME NEW k \in Nat, NEW e, EmitterOK(e, Vocabulary(k))
    PROVE  /\ e \in EmitterOf(Vocabulary(k))
           /\ e.scr \in Texts(k) /\ e.prev \in Texts(k) /\ e.settled \in Texts(k) /\ e.screen \in Texts(k)
           /\ Of(e.scr) \subseteq 1..k /\ Of(e.prev) \subseteq 1..k /\ Of(e.settled) \subseteq 1..k
           /\ ~e.frozen => e.screen = (e.settled \o e.prev) \o e.scr
<1>1. e \in EmitterOf(Vocabulary(k)) /\ (~e.frozen => e.screen = (e.settled \o e.prev) \o e.scr)
  BY DEF EmitterOK, KnowsScreen
<1>2. e.scr \in Texts(k) /\ e.prev \in Texts(k) /\ e.settled \in Texts(k) /\ e.screen \in Texts(k)
  BY <1>1 DEF EmitterOf, Texts
<1>3. QED
  BY <1>1, <1>2, OfIs

\* Only what is asked of the words and what is owed of these texts count.
LEMMA ShowsLess ==
    ASSUME NEW k \in Nat, NEW e, EmitterOK(e, Vocabulary(k)), NEW text \in Texts(k),
           NEW W, NEW o, NEW V, NEW p, Shows(e, text, W, o),
           p \cap (Of(e.settled) \cup Of(e.prev) \cup Of(text)) \subseteq o,
           V \subseteq Of(e.settled) \cup Of(e.prev) \cup Of(text)
    PROVE  Shows(e, text, V, p)
<1>1. e.settled \in Texts(k) /\ e.prev \in Texts(k)
  BY EmitterTexts
<1>2. p \cap Of(e.settled) \subseteq o /\ p \cap Of(e.prev) \subseteq o /\ p \cap Of(text) \subseteq o
  OBVIOUS
<1>3. Tidy(e.settled, p) /\ Tidy(e.prev, p) /\ Tidy(text, p)
  BY <1>1, <1>2, TidyForLess DEF Shows
<1>4. QED
  BY <1>3 DEF Shows

\* begin_utterance
LEMMA ShowsBegun ==
    ASSUME NEW k \in Nat, NEW e, EmitterOK(e, Vocabulary(k)), ~e.frozen, NEW carry \in BOOLEAN,
           NEW W, NEW o, Shows(e, e.scr, W, o)
    PROVE  /\ Shows(Begun(e, carry), <<>>, W, o) /\ ~Begun(e, carry).frozen
           /\ Begun(e, carry).scr = <<>>
           /\ carry => Begun(e, carry).settled = e.settled
<1> DEFINE b == Begun(e, carry)
           none == <<>>
           p == IF carry THEN e.prev \o e.scr ELSE e.scr
           t == IF carry THEN e.settled ELSE e.settled \o e.prev
<1>1. /\ e \in EmitterOf(Vocabulary(k))
      /\ e.scr \in Texts(k) /\ e.prev \in Texts(k) /\ e.settled \in Texts(k)
  BY EmitterTexts
<1>2. b = [e EXCEPT !.prev = p, !.scr = none, !.frozen = FALSE, !.settled = t]
  BY DEF Begun
<1>3. /\ Tidy(p, o) /\ Tidy(t, o) /\ Apart(t, p)
      /\ Of(t) \cup Of(p) = Of(e.settled) \cup Of(e.prev) \cup Of(e.scr)
  <2>1. CASE carry
    <3> DEFINE q == e.prev \o e.scr
    <3>1. Of(q) = Of(e.prev) \cup Of(e.scr)
      BY <1>1, OfConcat
    <3>2. Tidy(q, o)
      BY <1>1, TidyConcat DEF Shows
    <3> HIDE DEF q
    <3>3. Apart(e.settled, q) /\ Tidy(e.settled, o)
      BY <3>1 DEF Shows, Apart
    <3>4. p = q /\ t = e.settled
      BY <2>1 DEF q
    <3> HIDE DEF p, t
    <3>5. QED
      BY <3>1, <3>2, <3>3, <3>4
  <2>2. CASE ~carry
    <3> DEFINE q == e.settled \o e.prev
    <3>1. Of(q) = Of(e.settled) \cup Of(e.prev)
      BY <1>1, OfConcat
    <3>2. Tidy(q, o)
      BY <1>1, TidyConcat DEF Shows
    <3> HIDE DEF q
    <3>3. Apart(q, e.scr) /\ Tidy(e.scr, o)
      BY <3>1 DEF Shows, Apart
    <3>4. p = e.scr /\ t = q
      BY <2>2 DEF q
    <3> HIDE DEF p, t
    <3>5. QED
      BY <3>1, <3>2, <3>3, <3>4
  <2>3. QED
    BY <2>1, <2>2
<1>4. Tidy(none, o) /\ Of(none) = {}
  BY NothingIsTidy
<1>5. carry => t = e.settled
  OBVIOUS
<1> HIDE DEF p, t, none, b
<1>6. b.prev = p /\ b.scr = none /\ ~b.frozen /\ b.settled = t
  BY <1>1, <1>2 DEF EmitterOf
<1>7. W \subseteq Of(e.settled) \cup Of(e.prev) \cup Of(e.scr)
  BY DEF Shows
<1>8. Shows(b, none, W, o)
  BY <1>3, <1>4, <1>6, <1>7 DEF Shows, Apart
<1>9. QED
  BY <1>5, <1>6, <1>8 DEF b, none

\* merge_previous: nothing is left behind that it could join.
LEMMA MergedIs ==
    ASSUME NEW k \in Nat, NEW e, EmitterOK(e, Vocabulary(k)), ~e.frozen
    PROVE  LET m == Merged(e)
           IN  /\ m.prev = <<>> /\ m.scr = e.prev \o e.scr /\ m.settled = e.settled /\ ~m.frozen
               /\ Of(m.scr) = Of(e.prev) \cup Of(e.scr)
               /\ Mergeable(e) <=> e.prev # <<>>
               /\ ~Mergeable(e) => m = e
<1> DEFINE m == Merged(e)
           none == <<>>
           q == e.prev \o e.scr
<1>1. /\ e \in EmitterOf(Vocabulary(k)) /\ e.scr \in Texts(k) /\ e.prev \in Texts(k)
  BY EmitterTexts
<1>2. Of(q) = Of(e.prev) \cup Of(e.scr)
  BY <1>1, OfConcat
<1>3. Mergeable(e) <=> e.prev # none
  BY DEF Mergeable
<1>4. CASE Mergeable(e)
  <2>1. m = [e EXCEPT !.scr = q, !.prev = none]
    BY <1>4 DEF Merged
  <2> HIDE DEF m, q, none
  <2>2. m.scr = q /\ m.prev = none /\ m.settled = e.settled /\ m.frozen = e.frozen
    BY <1>1, <2>1 DEF EmitterOf
  <2>3. QED
    BY <1>2, <1>3, <1>4, <2>2 DEF m, none, q
<1>5. CASE ~Mergeable(e)
  <2>1. m = e /\ e.prev = none
    BY <1>3, <1>5 DEF Merged
  <2>2. none \o e.scr = e.scr
    BY <1>1, ConcatEmptySeq DEF Texts
  <2>3. e.scr = q
    BY <2>1, <2>2
  <2> HIDE DEF m, q, none
  <2>4. QED
    BY <1>2, <1>3, <1>5, <2>1, <2>3 DEF m, none, q
<1>6. QED
  BY <1>4, <1>5

LEMMA ShowsMerged ==
    ASSUME NEW k \in Nat, NEW e, EmitterOK(e, Vocabulary(k)), ~e.frozen,
           NEW W, NEW o, Shows(e, e.scr, W, o)
    PROVE  Shows(Merged(e), Merged(e).scr, W, o)
<1> DEFINE m == Merged(e)
           none == <<>>
<1>1. /\ e.scr \in Texts(k) /\ e.prev \in Texts(k)
  BY EmitterTexts
<1>2. /\ m.prev = none /\ m.scr = e.prev \o e.scr /\ m.settled = e.settled
      /\ Of(m.scr) = Of(e.prev) \cup Of(e.scr)
  BY MergedIs
<1>3. Tidy(none, o) /\ Of(none) = {}
  BY NothingIsTidy
<1>4. Tidy(m.scr, o)
  BY <1>1, <1>2, TidyConcat DEF Shows
<1> HIDE DEF m, none
<1>5. QED
  BY <1>2, <1>3, <1>4 DEF Shows, Apart, m

\* reset_regions
LEMMA ShowsDisowned ==
    ASSUME NEW k \in Nat, NEW e, EmitterOK(e, Vocabulary(k)), ~e.frozen,
           NEW W, NEW o, Shows(e, e.scr, W, o)
    PROVE  Shows(Disowned(e), Disowned(e).scr, W, o) /\ ~Disowned(e).frozen
<1> DEFINE d == Disowned(e)
           none == <<>>
           q == e.settled \o e.prev
<1>1. /\ e \in EmitterOf(Vocabulary(k)) /\ e.scr \in Texts(k) /\ e.prev \in Texts(k) /\ e.settled \in Texts(k)
      /\ e.screen = q \o e.scr
  BY EmitterTexts
<1>2. Of(q) = Of(e.settled) \cup Of(e.prev) /\ q \in Texts(k)
  BY <1>1, OfConcat
<1>3. Tidy(q, o)
  BY <1>1, TidyConcat DEF Shows
<1> HIDE DEF q
<1>4. Apart(q, e.scr) /\ Tidy(e.scr, o)
  BY <1>2 DEF Shows, Apart
<1>5. Tidy(e.screen, o) /\ Of(e.screen) = Of(q) \cup Of(e.scr)
  <2>1. Of(q \o e.scr) = Of(q) \cup Of(e.scr)
    BY <1>1, <1>2, OfConcat
  <2>2. Tidy(q \o e.scr, o)
    BY <1>1, <1>2, <1>3, <1>4, TidyConcat
  <2>3. QED
    BY <1>1, <2>1, <2>2
<1>6. Tidy(none, o) /\ Of(none) = {}
  BY NothingIsTidy
<1>7. d = [e EXCEPT !.scr = none, !.prev = none, !.settled = e.screen]
  BY DEF Disowned
<1> HIDE DEF d, none
<1>8. d.scr = none /\ d.prev = none /\ d.settled = e.screen /\ d.frozen = e.frozen
  BY <1>1, <1>7 DEF EmitterOf
<1>9. QED
  BY <1>2, <1>5, <1>6, <1>8 DEF Shows, Apart, d

\* What a sync leaves of the texts of one utterance.
LEMMA HeardShown ==
    ASSUME NEW k \in Nat, NEW e, e.scr \in Texts(k), Heard(e.scr, k),
           NEW desired \in Texts(k), Heard(desired, k), NEW n \in 0..Len(e.scr)
    PROVE  /\ Heard(RegionShown(e, desired, n), k)
           /\ desired # <<>> => RegionShown(e, desired, n) # <<>>
           /\ RegionShown(e, desired, n) \in Texts(k)
<1> DEFINE a == e.scr
           r == RegionShown(e, desired, n)
<1>1. /\ r \in Texts(k) /\ Len(r) = IF n <= Len(desired) THEN Len(desired) ELSE n
      /\ \A i \in 1..Len(r) :
            \/ i <= n /\ i \in 1..Len(e.scr) /\ r[i] = e.scr[i]
            \/ i > n /\ i \in 1..Len(desired) /\ r[i] = desired[i]
  BY ShownIs DEF Texts
<1> HIDE DEF r
<1>2. /\ Len(a) \in Nat /\ Len(desired) \in Nat /\ Len(a) <= 1 /\ Len(desired) <= 1
      /\ (Len(desired) = 0 <=> desired = <<>>) /\ (Len(r) = 0 <=> r = <<>>) /\ (Len(a) = 0 <=> a = <<>>)
      /\ Len(r) \in Nat
  BY <1>1, TextIs DEF Heard
<1>3. Len(r) <= 1 /\ (desired # <<>> => r # <<>>)
  BY <1>1, <1>2
<1>4. ASSUME r # <<>> PROVE r[1] \in {Token({k}, "word"), Token({k}, "misheard")}
  <2>1. 1 \in 1..Len(r)
    BY <1>2, <1>4
  <2>2. (a # <<>> /\ r[1] = a[1]) \/ (desired # <<>> /\ r[1] = desired[1])
    BY <1>1, <1>2, <2>1
  <2>3. QED
    BY <2>2 DEF Heard
<1>5. QED
  BY <1>1, <1>3, <1>4 DEF Heard, r

LEMMA FinalShown ==
    ASSUME NEW k \in Nat, k # 0, NEW e, e.scr \in Texts(k), Heard(e.scr, k), NEW n \in 0..Len(e.scr)
    PROVE  Spoken(RegionShown(e, Final(k), n), k) /\ Len(RegionShown(e, Final(k), n)) = 2
<1> DEFINE a == e.scr
           desired == Final(k)
           r == RegionShown(e, desired, n)
<1>1. /\ desired \in Texts(k) /\ Len(desired) = 2 /\ Spoken(desired, k)
      /\ desired[2] = Token({k}, "last")
  BY FinalIs, FinalIsSpoken
<1> HIDE DEF desired
<1>2. /\ r \in Texts(k) /\ Len(r) = IF n <= Len(desired) THEN Len(desired) ELSE n
      /\ \A i \in 1..Len(r) :
            \/ i <= n /\ i \in 1..Len(e.scr) /\ r[i] = e.scr[i]
            \/ i > n /\ i \in 1..Len(desired) /\ r[i] = desired[i]
  <2>1. e.scr \in Seq(Vocabulary(k)) /\ desired \in Seq(Vocabulary(k))
    BY <1>1 DEF Texts
  <2>2. /\ r \in Seq(Vocabulary(k)) /\ Len(r) = IF n <= Len(desired) THEN Len(desired) ELSE n
        /\ \A i \in 1..Len(r) :
              \/ i <= n /\ i \in 1..Len(e.scr) /\ r[i] = e.scr[i]
              \/ i > n /\ i \in 1..Len(desired) /\ r[i] = desired[i]
    <3> HIDE DEF desired
    <3>1. QED
      BY <2>1, ShownIs
  <2>3. QED
    BY <2>2 DEF Texts
<1> HIDE DEF r
<1>3. /\ Len(a) \in Nat /\ Len(a) <= 1 /\ n <= 1
  BY TextIs DEF Heard
<1>4. Len(r) = 2 /\ DOMAIN r = 1..2
  BY <1>1, <1>2, <1>3, TextIs
<1>5. Spoken(a, k)
  BY HeardIsSpoken
<1>6. DOMAIN a = 1..Len(a) /\ DOMAIN desired = 1..2
  BY <1>1, TextIs
<1>7. ASSUME NEW i \in 1..2
      PROVE  /\ r[i].of = {k}
             /\ \/ r[i].form \in {"word", "misheard"} /\ i = 1
                \/ r[i].form = "last"
  <2>1. \/ i \in 1..Len(a) /\ r[i] = a[i]
        \/ r[i] = desired[i]
    BY <1>2, <1>4
  <2>2. QED
    BY <1>1, <1>5, <1>6, <2>1 DEF Spoken
<1>8. r[1].form # "last"
  <2>1. CASE n = 0
    <3>1. r[1] = desired[1]
      BY <1>2, <1>4, <2>1
    <3>2. QED
      BY <1>1, <3>1 DEF Spoken
  <2>2. CASE n # 0
    <3>1. r[1] = a[1] /\ a # <<>>
      BY <1>2, <1>3, <1>4, <2>2, TextIs
    <3>2. r[1] \in {Token({k}, "word"), Token({k}, "misheard")}
      BY <3>1 DEF Heard
    <3>3. QED
      BY <3>2, TokensOf
  <2>3. QED
    BY <2>1, <2>2
<1>9. Spoken(r, k)
  BY <1>4, <1>7, <1>8 DEF Spoken
<1>10. QED
  BY <1>4, <1>9 DEF r, desired

LEMMA RegionIs ==
    ASSUME NEW k \in Nat, NEW e, e.scr \in Texts(k), NEW t \in Texts(k), NEW n \in 0..Len(e.scr)
    PROVE  \E r \in Texts(k) :
              /\ r = RegionShown(e, t, n) /\ Len(r) = IF n <= Len(t) THEN Len(t) ELSE n
              /\ \A i \in 1..Len(r) :
                    \/ i <= n /\ i \in 1..Len(e.scr) /\ r[i] = e.scr[i]
                    \/ i > n /\ i \in 1..Len(t) /\ r[i] = t[i]
  BY ShownIs DEF Texts

LEMMA TwoLong ==
    ASSUME NEW m \in Nat, m <= 2, 2 \in 1..m
    PROVE  m = 2
  OBVIOUS

LEMMA CutShown ==
    ASSUME NEW k \in Nat, NEW e, e.scr \in Texts(k), Spoken(e.scr, k), NEW n \in 0..Len(e.scr),
           NEW none \in Texts(k), Len(none) = 0
    PROVE  Spoken(RegionShown(e, none, n), k)
<1> DEFINE a == e.scr
<1>2. PICK r \in Texts(k) :
        /\ r = RegionShown(e, none, n) /\ Len(r) = IF n <= Len(none) THEN Len(none) ELSE n
        /\ \A i \in 1..Len(r) :
              \/ i <= n /\ i \in 1..Len(e.scr) /\ r[i] = e.scr[i]
              \/ i > n /\ i \in 1..Len(none) /\ r[i] = none[i]
  BY RegionIs
<1>3. /\ Len(a) \in Nat /\ Len(a) <= 2 /\ DOMAIN a = 1..Len(a) /\ DOMAIN r = 1..Len(r) /\ Len(r) \in Nat
  BY <1>2, TextIs DEF Spoken
<1>4. Len(r) = n /\ \A i \in 1..n : i \in 1..Len(a) /\ r[i] = a[i]
  BY <1>2, <1>3
<1>5. ASSUME Len(r) = 2 PROVE Len(a) = 2 /\ r[1] = a[1]
  <2>1. 1 \in 1..n /\ 2 \in 1..n
    BY <1>4, <1>5
  <2>2. 2 \in 1..Len(a) /\ r[1] = a[1]
    BY <1>4, <2>1
  <2>3. Len(a) = 2
    BY <1>3, <2>2, TwoLong
  <2>4. QED
    BY <2>2, <2>3
<1>6. Spoken(r, k)
  BY <1>3, <1>4, <1>5 DEF Spoken
<1>7. QED
  BY <1>2, <1>6

LEMMA LastShown ==
    ASSUME NEW k \in Nat, NEW e, e.scr \in Texts(k), NEW n \in 0..Len(e.scr), NEW t \in Texts(k)
    PROVE  (Spoken(e.scr, k) /\ Len(e.scr) = 2 /\ Len(t) = 1 /\ t[1] = Token({k}, "last"))
              => Spoken(RegionShown(e, t, n), k) /\ RegionShown(e, t, n) # <<>>
<1> DEFINE a == e.scr
<1>2. PICK r \in Texts(k) :
        /\ r = RegionShown(e, t, n) /\ Len(r) = IF n <= Len(t) THEN Len(t) ELSE n
        /\ \A i \in 1..Len(r) :
              \/ i <= n /\ i \in 1..Len(e.scr) /\ r[i] = e.scr[i]
              \/ i > n /\ i \in 1..Len(t) /\ r[i] = t[i]
  BY RegionIs
<1> SUFFICES ASSUME Spoken(e.scr, k), Len(e.scr) = 2, Len(t) = 1, t[1] = Token({k}, "last")
             PROVE  Spoken(RegionShown(e, t, n), k) /\ RegionShown(e, t, n) # <<>>
  OBVIOUS
<1>3. DOMAIN a = 1..2 /\ DOMAIN r = 1..Len(r) /\ Len(r) \in 1..2 /\ (Len(r) = 0 <=> r = <<>>)
  BY <1>2, TextIs
<1>4. ASSUME NEW i \in 1..Len(r)
      PROVE  (i \in 1..2 /\ r[i] = a[i]) \/ r[i] = Token({k}, "last")
  <2>1. \/ i \in 1..Len(e.scr) /\ r[i] = e.scr[i]
        \/ i \in 1..Len(t) /\ r[i] = t[i]
    BY <1>2, <1>4
  <2>2. (i \in 1..Len(t)) => i = 1
    OBVIOUS
  <2>3. QED
    BY <2>1, <2>2
<1>5. ASSUME NEW i \in 1..Len(r)
      PROVE  /\ r[i].of = {k}
             /\ \/ r[i].form \in {"word", "misheard"} /\ i = 1
                \/ r[i].form = "last"
  BY <1>3, <1>4, <1>5, TokensOf DEF Spoken
<1>6. Len(r) = 2 => r[1].form # "last"
  <2> SUFFICES ASSUME Len(r) = 2 PROVE r[1].form # "last"
    OBVIOUS
  <2>1. n = 2
    BY <1>2
  <2>2. r[1] = a[1]
    BY <1>2, <2>1
  <2>3. QED
    BY <2>2 DEF Spoken
<1>7. Spoken(r, k)
  BY <1>3, <1>5, <1>6 DEF Spoken
<1>8. QED
  BY <1>2, <1>3, <1>7

LEMMA NewLineShown ==
    ASSUME NEW k \in Nat, NEW e, e.scr \in Texts(k), Spoken(e.scr, k), NEW n \in 0..Len(e.scr)
    PROVE  Spoken(RegionShown(e, NewLine, n), k) \/ RegionShown(e, NewLine, n) = NewLine
<1> DEFINE a == e.scr
           r == RegionShown(e, NewLine, n)
           t == NewLine
<1>1. t \in Texts(k) /\ Len(t) = 1
  BY NewLineIs DEF NewLine
<1> HIDE DEF t
<1>2. /\ r \in Texts(k) /\ Len(r) = IF n <= Len(t) THEN Len(t) ELSE n
      /\ \A i \in 1..Len(r) :
            \/ i <= n /\ i \in 1..Len(e.scr) /\ r[i] = e.scr[i]
            \/ i > n /\ i \in 1..Len(t) /\ r[i] = t[i]
  BY <1>1, ShownIs DEF Texts, t
<1> HIDE DEF r
<1>3. /\ Len(a) \in Nat /\ Len(a) <= 2 /\ DOMAIN a = 1..Len(a) /\ DOMAIN r = 1..Len(r) /\ Len(r) \in Nat
  BY <1>2, TextIs DEF Spoken
<1>4. CASE n = 0
  <2>1. Len(r) = Len(t) /\ \A i \in 1..Len(r) : r[i] = t[i]
    BY <1>1, <1>2, <1>4
  <2>2. r = t
    BY <1>1, <1>2, <2>1, SeqEqual DEF Texts
  <2>3. QED
    BY <2>2 DEF r, t
<1>5. CASE n # 0
  <2>1. Len(r) = n /\ \A i \in 1..n : i \in 1..Len(a) /\ r[i] = a[i]
    BY <1>1, <1>2, <1>3, <1>5
  <2>2. ASSUME Len(r) = 2 PROVE Len(a) = 2 /\ r[1] = a[1]
    <3>1. 1 \in 1..n /\ 2 \in 1..n
      BY <2>1, <2>2
    <3>2. 2 \in 1..Len(a) /\ r[1] = a[1]
      BY <2>1, <3>1
    <3>3. Len(a) = 2
      BY <1>3, <3>2, TwoLong
    <3>4. QED
      BY <3>2, <3>3
  <2>3. Spoken(r, k)
    BY <1>3, <2>1, <2>2 DEF Spoken
  <2>4. QED
    BY <2>3 DEF r
<1>6. QED
  BY <1>4, <1>5

LEMMA NewLineIsTidy == Of(NewLine) = {} /\ \A o : Tidy(NewLine, o)
<1> DEFINE p == Token({}, "newline")
<1>1. p \in Vocabulary(0) /\ p.of = {} /\ p.form = "newline"
  BY TokenIs DEF Token
<1> HIDE DEF p
<1>2. Of(<<p>>) = {} /\ DOMAIN <<p>> = {1} /\ <<p>>[1] = p
  BY <1>1, OneToken
<1>3. \A o : Tidy(<<p>>, o)
  BY <1>1, <1>2 DEF Tidy, Neat, WholeFor
<1>4. QED
  BY <1>2, <1>3 DEF NewLine, p

-----------------------------------------------------------------------------
(* A typist whose device has not failed.                                   *)

Well(s, k) == TypistOK(s, k) /\ (s.fails = 0 => ~s.emitter.frozen)

LEMMA WellIs ==
    ASSUME NEW k \in Nat, NEW s, Well(s, k)
    PROVE  /\ TypistOK(s, k) /\ EmitterOK(s.emitter, Vocabulary(k)) /\ s.fails \in Nat
           /\ s.emitter.scr \in Texts(k) /\ s.emitter.prev \in Texts(k) /\ s.emitter.settled \in Texts(k)
           /\ s.pending.text \in Texts(k) /\ s.pending.cap \in Nat
           /\ Of(s.emitter.scr) \subseteq 1..k /\ Of(s.emitter.prev) \subseteq 1..k
           /\ Of(s.emitter.settled) \subseteq 1..k
           /\ s.fails = 0 => ~s.emitter.frozen
<1>1. TypistOK(s, k) /\ (s.fails = 0 => ~s.emitter.frozen)
  BY DEF Well
<1>2. EmitterOK(s.emitter, Vocabulary(k)) /\ s.fails \in 0..FailLimit
      /\ s.pending.text \in Texts(k) /\ s.pending.cap \in Nat
  BY <1>1, TypistIs
<1>3. s.fails \in Nat
  BY <1>2, OutputAssumption
<1>4. QED
  BY <1>1, <1>2, <1>3, EmitterTexts

LEMMA TypedWell ==
    ASSUME NEW k \in Nat, NEW s, Well(s, k), NEW text \in Texts(k), NEW cap \in Nat,
           NEW r \in Typed(s, text, cap)
    PROVE  /\ Well(r, k) /\ r.pending = NoText
           /\ r.fails = 0 =>
                 /\ s.fails = 0
                 /\ r.emitter.prev = s.emitter.prev /\ r.emitter.settled = s.emitter.settled
                 /\ \E n \in 0..Len(s.emitter.scr) : r.emitter.scr = RegionShown(s.emitter, text, n)
                 /\ Len(s.emitter.scr) <= cap => r.emitter.scr = text
<1> DEFINE mayFail == s.fails < FailLimit
<1>0. TypistOK(s, k) /\ EmitterOK(s.emitter, Vocabulary(k)) /\ s.fails \in Nat /\ (s.fails = 0 => ~s.emitter.frozen)
  BY WellIs
<1>7. TypistOK(r, k) /\ r.pending = NoText
  BY <1>0, TypedOK
<1>1. /\ TypistOK(r, k) /\ r.pending = NoText
      /\ TypistOK(s, k) /\ s.emitter \in EmitterOf(Vocabulary(k)) /\ s.fails \in Nat
      /\ s.fails = 0 => ~s.emitter.frozen
  BY <1>0, <1>7, EmitterTexts
<1>2. PICK e \in Synced(s.emitter, text, cap, mayFail) :
          r = [emitter |-> e, pending |-> NoText,
               fails |-> IF e.frozen /\ ~s.emitter.frozen THEN s.fails + 1 ELSE s.fails]
  BY DEF Typed
<1>3. r.emitter = e /\ r.fails = IF e.frozen /\ ~s.emitter.frozen THEN s.fails + 1 ELSE s.fails
  BY <1>2
<1>4. r.fails = 0 => s.fails = 0 /\ ~s.emitter.frozen /\ ~e.frozen
  BY <1>1, <1>3
<1>5. ASSUME r.fails = 0
      PROVE  /\ e.prev = s.emitter.prev /\ e.settled = s.emitter.settled
             /\ \E n \in 0..Len(s.emitter.scr) : e.scr = RegionShown(s.emitter, text, n)
             /\ Len(s.emitter.scr) <= cap => e.scr = text
  <2>1. ~s.emitter.frozen /\ ~e.frozen
    BY <1>4, <1>5
  <2>2. text \in Seq(Vocabulary(k))
    BY DEF Texts
  <2> HIDE DEF mayFail
  <2>3. QED
    BY <1>1, <2>1, <2>2, SyncedWell
<1>6. QED
  BY <1>1, <1>3, <1>4, <1>5 DEF Well

\* Only the two parts before the region count.
LEMMA ShowsOnly ==
    ASSUME NEW e, NEW f, f.settled = e.settled, f.prev = e.prev,
           NEW text, NEW W, NEW o, Shows(e, text, W, o)
    PROVE  Shows(f, text, W, o)
  BY DEF Shows

\* A text that is all shown.
LEMMA TypedShows ==
    ASSUME NEW k \in Nat, NEW s, Well(s, k), NEW text \in Texts(k), NEW cap \in Nat,
           NEW r \in Typed(s, text, cap), r.fails = 0, Len(s.emitter.scr) <= cap,
           NEW W, NEW o, Shows(s.emitter, text, W, o)
    PROVE  r.emitter.scr = text /\ Shows(r.emitter, r.emitter.scr, W, o)
<1>1. /\ r.emitter.scr = text
      /\ r.emitter.prev = s.emitter.prev /\ r.emitter.settled = s.emitter.settled
  BY TypedWell
<1>2. Shows(r.emitter, text, W, o)
  BY <1>1, ShowsOnly
<1>3. QED
  BY <1>1, <1>2

LEMMA RenderedWell ==
    ASSUME NEW k \in Nat, NEW s, Well(s, k), NEW r \in Rendered(s)
    PROVE  /\ Well(r, k) /\ r.pending = NoText
           /\ s.pending = NoText => r = s
           /\ r.fails = 0 =>
                 /\ s.fails = 0
                 /\ r.emitter.prev = s.emitter.prev /\ r.emitter.settled = s.emitter.settled
           /\ (r.fails = 0 /\ s.pending # NoText) =>
                 /\ \E n \in 0..Len(s.emitter.scr) : r.emitter.scr = RegionShown(s.emitter, s.pending.text, n)
                 /\ Len(s.emitter.scr) <= s.pending.cap => r.emitter.scr = s.pending.text
<1>1. CASE s.pending = NoText
  <2>1. r = s
    BY <1>1 DEF Rendered
  <2>2. QED
    BY <1>1, <2>1
<1>2. CASE s.pending # NoText
  <2>1. r \in Typed(s, s.pending.text, s.pending.cap)
    BY <1>2 DEF Rendered
  <2>2. s.pending.text \in Texts(k) /\ s.pending.cap \in Nat
    BY WellIs
  <2>3. QED
    BY <1>2, <2>1, <2>2, TypedWell
<1>3. QED
  BY <1>1, <1>2

-----------------------------------------------------------------------------
(* What is shown, or will be when the text published is rendered.          *)

\* What has been published of the utterance k.
Hears(p, k) == p = NoText \/ (Heard(p.text, k) /\ p.text # <<>>)

\* Either it is on the screen, or the last hypothesis of an utterance of which
\* nothing was decoded, or a text that is put back.
Caught(s, k, W, o) ==
    \/ s.pending = NoText /\ Shows(s.emitter, s.emitter.scr, W, o)
    \/ /\ s.pending # NoText /\ Hears(s.pending, k) /\ Heard(s.emitter.scr, k)
       /\ Shows(s.emitter, s.pending.text, W, o)
PutBack(s, W, o) ==
    /\ s.pending # NoText /\ s.pending.cap = TransformCap
    /\ Shows(s.emitter, s.pending.text, W, o)
ToShow(s, k, W, o) == Caught(s, k, W, o) \/ PutBack(s, W, o)

\* The open utterance k after the chunks ps: all that is needed is before it.
Listening(s, k, ps, W, o) ==
    /\ Shows(s.emitter, <<>>, W, o)
    /\ k \notin Of(s.emitter.settled) /\ k \notin Of(s.emitter.prev)
    /\ Heard(s.emitter.scr, k) /\ Hears(s.pending, k)
    /\ Neat(ps) /\ Plain(ps) /\ k \notin Of(ps) /\ Apart(s.emitter.settled, ps)

LEMMA HeardIs ==
    ASSUME NEW k \in Nat, NEW text \in Texts(k), Heard(text, k)
    PROVE  Of(text) \subseteq {k} /\ (text # <<>> => Of(text) = {k}) /\ (\A o : Tidy(text, o))
<1>1. Spoken(text, k)
  BY HeardIsSpoken
<1>2. QED
  BY <1>1, SpokenIs

\* Rendering what was heard.
LEMMA HeardRendered ==
    ASSUME NEW k \in Nat, NEW s, Well(s, k), Heard(s.emitter.scr, k), Hears(s.pending, k),
           NEW r \in Rendered(s), r.fails = 0
    PROVE  Heard(r.emitter.scr, k) /\ (s.pending # NoText => r.emitter.scr # <<>>)
<1>1. CASE s.pending = NoText
  BY <1>1, RenderedWell
<1>2. CASE s.pending # NoText
  <2>1. PICK n \in 0..Len(s.emitter.scr) : r.emitter.scr = RegionShown(s.emitter, s.pending.text, n)
    BY <1>2, RenderedWell
  <2>2. s.emitter.scr \in Texts(k) /\ s.pending.text \in Texts(k)
    BY WellIs
  <2>3. Heard(s.pending.text, k) /\ s.pending.text # <<>>
    BY <1>2 DEF Hears
  <2> DEFINE e == s.emitter
             text == s.pending.text
  <2> HIDE DEF e, text
  <2>4. Heard(RegionShown(e, text, n), k) /\ RegionShown(e, text, n) # <<>>
    BY <2>2, <2>3, HeardShown DEF e, text
  <2>5. QED
    BY <2>1, <2>4 DEF e, text
<1>3. QED
  BY <1>1, <1>2

LEMMA RendersCaught ==
    ASSUME NEW k \in Nat, NEW s, Well(s, k), NEW W, NEW o, Caught(s, k, W, o),
           NEW r \in Rendered(s), r.fails = 0
    PROVE  Shows(r.emitter, r.emitter.scr, W, o)
<1>1. CASE s.pending = NoText
  BY <1>1, RenderedWell DEF Caught
<1>2. CASE s.pending # NoText
  <2>1. /\ Hears(s.pending, k) /\ Heard(s.emitter.scr, k) /\ Shows(s.emitter, s.pending.text, W, o)
        /\ Heard(s.pending.text, k) /\ s.pending.text # <<>>
    BY <1>2 DEF Caught, Hears
  <2>2. Heard(r.emitter.scr, k) /\ r.emitter.scr # <<>>
    BY <1>2, <2>1, HeardRendered
  <2>3. r.emitter.scr \in Texts(k) /\ s.pending.text \in Texts(k)
    BY RenderedWell, WellIs
  <2>4. Of(r.emitter.scr) = {k} /\ \A p : Tidy(r.emitter.scr, p)
    BY <2>2, <2>3, HeardIs
  <2>5. Of(s.pending.text) = {k}
    BY <2>1, <2>3, HeardIs
  <2>6. r.emitter.prev = s.emitter.prev /\ r.emitter.settled = s.emitter.settled
    BY RenderedWell
  <2>7. QED
    BY <2>1, <2>4, <2>5, <2>6 DEF Shows, Apart
<1>3. QED
  BY <1>1, <1>2

LEMMA RendersToShow ==
    ASSUME NEW k \in Nat, NEW s, Well(s, k), NEW W, NEW o, ToShow(s, k, W, o),
           Len(s.emitter.scr) <= TransformCap, NEW r \in Rendered(s), r.fails = 0
    PROVE  Shows(r.emitter, r.emitter.scr, W, o)
<1>1. CASE Caught(s, k, W, o)
  BY <1>1, RendersCaught
<1>2. CASE PutBack(s, W, o)
  <2>1. /\ r.emitter.scr = s.pending.text
        /\ r.emitter.prev = s.emitter.prev /\ r.emitter.settled = s.emitter.settled
    BY <1>2, RenderedWell DEF PutBack
  <2>2. Shows(s.emitter, s.pending.text, W, o)
    BY <1>2 DEF PutBack
  <2>3. Shows(r.emitter, s.pending.text, W, o)
    BY <2>1, <2>2, ShowsOnly
  <2>4. QED
    BY <2>1, <2>3
<1>3. QED
  BY <1>1, <1>2 DEF ToShow

\* The words of the open utterance come after what is needed.
LEMMA SpokenShows ==
    ASSUME NEW k \in Nat, NEW e, EmitterOK(e, Vocabulary(k)), NEW W, NEW o, Shows(e, <<>>, W, o),
           k \notin Of(e.settled), k \notin Of(e.prev), NEW text \in Texts(k), Spoken(text, k),
           NEW V, V \subseteq W \cup Of(text), NEW p, p \subseteq o \cup {k}
    PROVE  Shows(e, text, V, p)
<1>1. e.settled \in Texts(k) /\ e.prev \in Texts(k)
  BY EmitterTexts
<1>2. p \cap Of(e.settled) \subseteq o /\ p \cap Of(e.prev) \subseteq o
  OBVIOUS
<1>3. Tidy(e.settled, o) /\ Tidy(e.prev, o) /\ Apart(e.settled, e.prev)
      /\ W \subseteq Of(e.settled) \cup Of(e.prev)
  BY NothingIsTidy DEF Shows
<1>4. Tidy(e.settled, p) /\ Tidy(e.prev, p)
  BY <1>1, <1>2, <1>3, TidyForLess
<1>5. Of(text) \subseteq {k} /\ Tidy(text, p)
  BY SpokenIs
<1>6. QED
  BY <1>3, <1>4, <1>5 DEF Shows, Apart

-----------------------------------------------------------------------------
(* The end of an utterance: what finalize() and the commands leave.        *)

\* What finalize() leaves: all of the final text, or less, of which nothing is
\* returned.
Ended(f, k) ==
    /\ Well(f.to, k)
    /\ f.to.fails = 0 =>
        \/ /\ f.final = Final(k) /\ f.left = {}
           /\ f.to.pending = NoText /\ Spoken(f.to.emitter.scr, k) /\ Len(f.to.emitter.scr) = 2
        \/ /\ f.final = <<>>
           /\ Heard(f.to.emitter.scr, k) /\ Hears(f.to.pending, k)
           /\ f.left \subseteq Of(f.to.emitter.scr) \cup Of(f.to.pending.text)

LEMMA FinalizedEnds ==
    ASSUME now \in Nat, now # 0, Well(Typist, now), Heard(emitter.scr, now), Hears(pending, now),
           NEW f \in Finalized
    PROVE  /\ Ended(f, now)
           /\ f.to.fails = 0 =>
                 /\ fails = 0
                 /\ f.to.emitter.prev = emitter.prev /\ f.to.emitter.settled = emitter.settled
<1> DEFINE none == <<>>
           last == Final(now)
<1>1. Typist.emitter = emitter /\ Typist.pending = pending /\ Typist.fails = fails
  BY DEF Typist
<1>2. /\ none \in Texts(now) /\ last \in Texts(now) /\ Heard(none, now) /\ LiveCap \in Nat
      /\ emitter.scr \in Texts(now)
  <2>1. Heard(none, now)
    BY DEF Heard
  <2>2. QED
    BY <1>1, <2>1, NothingIsText, FinalIs, OutputAssumption, WellIs
<1>3. \/ \E s \in Syncs(Typist, last) :
            f = [to |-> s, final |-> IF Shown(s) THEN last ELSE none, left |-> {}]
      \/ \E s \in Syncs(Typist, none) : f = [to |-> s, final |-> none, left |-> {}]
      \/ f = [to |-> Typist, final |-> none, left |-> Of(emitter.scr) \cup Of(pending.text)]
  BY DEF Finalized
<1>9. none = <<>>
  OBVIOUS
<1> HIDE DEF none, last
<1>4. CASE \E s \in Syncs(Typist, last) :
              f = [to |-> s, final |-> IF Shown(s) THEN last ELSE none, left |-> {}]
  <2>1. PICK s \in Syncs(Typist, last) :
            f = [to |-> s, final |-> IF Shown(s) THEN last ELSE none, left |-> {}]
    BY <1>4
  <2>2. s \in Typed(Typist, last, LiveCap)
    BY DEF Syncs
  <2>3. /\ Well(s, now) /\ s.pending = NoText
        /\ s.fails = 0 =>
              /\ Typist.fails = 0
              /\ s.emitter.prev = Typist.emitter.prev /\ s.emitter.settled = Typist.emitter.settled
              /\ \E n \in 0..Len(Typist.emitter.scr) : s.emitter.scr = RegionShown(Typist.emitter, last, n)
    BY <1>2, <2>2, TypedWell
  <2>4. f.to = s /\ f.left = {} /\ (s.fails = 0 => f.final = last)
    BY <2>1, <2>3 DEF Well, Shown
  <2>5. s.fails = 0 => Spoken(s.emitter.scr, now) /\ Len(s.emitter.scr) = 2
    <3> SUFFICES ASSUME s.fails = 0 PROVE Spoken(s.emitter.scr, now) /\ Len(s.emitter.scr) = 2
      OBVIOUS
    <3>1. PICK n \in 0..Len(emitter.scr) : s.emitter.scr = RegionShown(emitter, last, n)
      BY <1>1, <2>3
    <3>2. /\ Spoken(RegionShown(emitter, Final(now), n), now)
          /\ Len(RegionShown(emitter, Final(now), n)) = 2
      BY <1>2, FinalShown
    <3>3. QED
      BY <3>1, <3>2 DEF last
  <2>6. QED
    BY <1>1, <2>3, <2>4, <2>5 DEF Ended, last
<1>5. CASE \E s \in Syncs(Typist, none) : f = [to |-> s, final |-> none, left |-> {}]
  <2>1. PICK s \in Syncs(Typist, none) : f = [to |-> s, final |-> none, left |-> {}]
    BY <1>5
  <2>2. s \in Typed(Typist, none, LiveCap)
    BY DEF Syncs
  <2>3. /\ Well(s, now) /\ s.pending = NoText
        /\ s.fails = 0 =>
              /\ Typist.fails = 0
              /\ s.emitter.prev = Typist.emitter.prev /\ s.emitter.settled = Typist.emitter.settled
              /\ \E n \in 0..Len(Typist.emitter.scr) : s.emitter.scr = RegionShown(Typist.emitter, none, n)
    BY <1>2, <2>2, TypedWell
  <2>4. f.to = s /\ f.left = {} /\ f.final = none
    BY <2>1
  <2>5. s.fails = 0 => Heard(s.emitter.scr, now)
    <3> SUFFICES ASSUME s.fails = 0 PROVE Heard(s.emitter.scr, now)
      OBVIOUS
    <3>1. PICK n \in 0..Len(emitter.scr) : s.emitter.scr = RegionShown(emitter, none, n)
      BY <1>1, <2>3
    <3>2. Heard(RegionShown(emitter, none, n), now)
      BY <1>2, HeardShown
    <3>3. QED
      BY <3>1, <3>2
  <2>6. Hears(s.pending, now)
    BY <2>3 DEF Hears
  <2>7. QED
    BY <1>1, <1>9, <2>3, <2>4, <2>5, <2>6 DEF Ended
<1>6. CASE f = [to |-> Typist, final |-> none, left |-> Of(emitter.scr) \cup Of(pending.text)]
  <2>1. f.to = Typist /\ f.final = none /\ f.left = Of(emitter.scr) \cup Of(pending.text)
    BY <1>6
  <2>2. QED
    BY <1>1, <1>9, <2>1 DEF Ended
<1>7. QED
  BY <1>3, <1>4, <1>5, <1>6

\* What is needed afterwards is on the screen or about to be.
LEMMA EndedShows ==
    ASSUME NEW k \in Nat, k # 0, NEW f, Ended(f, k), f.to.fails = 0,
           NEW W, NEW o, Shows(f.to.emitter, <<>>, W, o),
           k \notin Of(f.to.emitter.settled), k \notin Of(f.to.emitter.prev),
           NEW V, V \subseteq W \cup Of(f.final) \cup f.left, NEW p, p \subseteq o \cup {k}
    PROVE  Caught(f.to, k, V, p)
<1> DEFINE s == f.to
<1>1. /\ Well(s, k) /\ EmitterOK(s.emitter, Vocabulary(k)) /\ s.emitter.scr \in Texts(k)
      /\ s.pending.text \in Texts(k)
  BY WellIs DEF Ended
<1>5. Len(s.emitter.scr) = 0 <=> s.emitter.scr = <<>>
  BY <1>1, TextIs
<1>2. CASE /\ f.final = Final(k) /\ f.left = {}
           /\ f.to.pending = NoText /\ Spoken(f.to.emitter.scr, k) /\ Len(f.to.emitter.scr) = 2
  <2>6. s.emitter.scr # <<>>
    BY <1>2, <1>5
  <2>1. s.emitter.scr # <<>> /\ Of(s.emitter.scr) = {k}
    BY <1>1, <1>2, <2>6, SpokenIs
  <2>2. Of(f.final) = {k}
    BY <1>2, FinalIs
  <2>3. V \subseteq W \cup Of(s.emitter.scr)
    BY <1>2, <2>1, <2>2
  <2>4. Shows(s.emitter, s.emitter.scr, V, p)
    BY <1>1, <1>2, <2>3, SpokenShows
  <2>5. QED
    BY <1>2, <2>4 DEF Caught
<1>3. CASE /\ f.final = <<>>
           /\ Heard(f.to.emitter.scr, k) /\ Hears(f.to.pending, k)
           /\ f.left \subseteq Of(f.to.emitter.scr) \cup Of(f.to.pending.text)
  <2>1. Of(f.final) = {}
    BY <1>3, NothingIsText
  <2>2. CASE s.pending = NoText
    <3>1. Of(s.pending.text) = {}
      BY <2>2, NoTextIs, NothingIsText
    <3>2. V \subseteq W \cup Of(s.emitter.scr)
      BY <1>3, <2>1, <3>1
    <3>3. Spoken(s.emitter.scr, k)
      BY <1>1, <1>3, HeardIsSpoken
    <3>4. Shows(s.emitter, s.emitter.scr, V, p)
      BY <1>1, <3>2, <3>3, SpokenShows
    <3>5. QED
      BY <2>2, <3>4 DEF Caught
  <2>3. CASE s.pending # NoText
    <3>1. Heard(s.pending.text, k) /\ s.pending.text # <<>>
      BY <1>3, <2>3 DEF Hears
    <3>2. Of(s.pending.text) = {k} /\ Of(s.emitter.scr) \subseteq {k}
      BY <1>1, <1>3, <3>1, HeardIs
    <3>3. V \subseteq W \cup Of(s.pending.text)
      BY <1>3, <2>1, <3>2
    <3>4. Spoken(s.pending.text, k)
      BY <1>1, <3>1, HeardIsSpoken
    <3>5. Shows(s.emitter, s.pending.text, V, p)
      BY <1>1, <3>3, <3>4, SpokenShows
    <3>6. QED
      BY <1>3, <2>3, <3>5 DEF Caught
  <2>4. QED
    BY <2>2, <2>3
<1>4. QED
  BY <1>2, <1>3 DEF Ended

-----------------------------------------------------------------------------
(* The voice commands.                                                     *)

\* A message scratched in part: what is left of it is not owed.
LEMMA CutTidy ==
    ASSUME NEW k \in Nat, NEW a \in Texts(k), NEW b \in Texts(k), Len(b) <= Len(a),
           \A i \in 1..Len(b) : b[i] = a[i], Neat(a), NEW o,
           \A i \in 1..Len(a) : a[i].form = "reply" => a[i].of \cap o = {}
    PROVE  Tidy(b, o) /\ Of(b) \subseteq Of(a)
<1>1. /\ Len(a) \in Nat /\ Len(b) \in Nat /\ DOMAIN a = 1..Len(a) /\ DOMAIN b = 1..Len(b)
      /\ \A i \in 1..Len(a) : a[i].of \subseteq Of(a)
  BY TextIs
<1>2. \A i \in 1..Len(b) : i \in 1..Len(a) /\ b[i] = a[i]
  BY <1>1
<1>3. Neat(b)
  BY <1>1, <1>2 DEF Neat
<1>4. WholeFor(b, o)
  BY <1>1, <1>2 DEF WholeFor
<1>5. ASSUME NEW u \in Of(b) PROVE u \in Of(a)
  <2>1. PICK i \in 1..Len(b) : u \in b[i].of
    BY OfIs
  <2>2. QED
    BY <1>1, <1>2, <2>1
<1>6. QED
  BY <1>3, <1>4, <1>5 DEF Tidy

LEMMA ScratchLeaves ==
    ASSUME NEW k \in Nat, NEW e, e.scr \in Texts(k), NEW n \in 0..Len(e.scr), Neat(e.scr), NEW o,
           \A i \in 1..Len(e.scr) : e.scr[i].form = "reply" => e.scr[i].of \cap o = {}
    PROVE  Tidy(RegionShown(e, <<>>, n), o) /\ Of(RegionShown(e, <<>>, n)) \subseteq Of(e.scr)
<1> DEFINE none == <<>>
           a == e.scr
<1>1. none \in Texts(k) /\ Len(none) = 0 /\ Len(a) \in Nat
  BY NothingIsText, TextIs
<1> HIDE DEF none
<1>2. PICK b \in Texts(k) :
        /\ b = RegionShown(e, none, n) /\ Len(b) = IF n <= Len(none) THEN Len(none) ELSE n
        /\ \A i \in 1..Len(b) :
              \/ i <= n /\ i \in 1..Len(e.scr) /\ b[i] = e.scr[i]
              \/ i > n /\ i \in 1..Len(none) /\ b[i] = none[i]
  BY <1>1, RegionIs
<1>3. Len(b) <= Len(a) /\ \A i \in 1..Len(b) : b[i] = a[i]
  BY <1>1, <1>2
<1>4. Tidy(b, o) /\ Of(b) \subseteq Of(a)
  BY <1>3, CutTidy
<1>5. QED
  BY <1>2, <1>4 DEF none

\* A barrier call, once what was published is rendered.
LEMMA EmitterCalled ==
    ASSUME NEW k \in Nat, NEW t, Well(t, k), NEW e, EmitterOK(e, Vocabulary(k)), t.fails = 0 => ~e.frozen
    PROVE  LET r == [t EXCEPT !.emitter = e]
           IN  Well(r, k) /\ r.emitter = e /\ r.pending = t.pending /\ r.fails = t.fails
<1> DEFINE r == [t EXCEPT !.emitter = e]
<1>1. TypistOK(t, k)
  BY WellIs
<1>2. TypistOK(r, k) /\ r.emitter = e /\ r.pending = t.pending
  BY <1>1, EmitterSet
<1>3. r.fails = t.fails
  BY <1>1 DEF TypistOK
<1>4. QED
  BY <1>2, <1>3 DEF Well

LEMMA BegunWell ==
    ASSUME NEW k \in Nat, NEW t, Well(t, k), NEW carry \in BOOLEAN, NEW r,
           r = [t EXCEPT !.emitter = Begun(t.emitter, carry)]
    PROVE  Well(r, k) /\ r.emitter = Begun(t.emitter, carry) /\ r.pending = t.pending /\ r.fails = t.fails
<1> DEFINE e == Begun(t.emitter, carry)
<1>1. EmitterOK(t.emitter, Vocabulary(k)) /\ t.emitter \in EmitterOf(Vocabulary(k))
  BY WellIs, EmitterTexts
<1>2. EmitterOK(e, Vocabulary(k))
  BY <1>1, BegunOK
<1>3. ~e.frozen
  BY <1>1 DEF Begun, EmitterOf
<1> HIDE DEF e
<1>4. r = [t EXCEPT !.emitter = e]
  BY DEF e
<1>6. LET u == [t EXCEPT !.emitter = e]
      IN  Well(u, k) /\ u.emitter = e /\ u.pending = t.pending /\ u.fails = t.fails
  BY <1>2, <1>3, EmitterCalled
<1>5. Well(r, k) /\ r.emitter = e /\ r.pending = t.pending /\ r.fails = t.fails
  BY <1>4, <1>6
<1>7. QED
  BY <1>5 DEF e

LEMMA MergedWell ==
    ASSUME NEW k \in Nat, NEW t, Well(t, k), NEW r, r = [t EXCEPT !.emitter = Merged(t.emitter)]
    PROVE  Well(r, k) /\ r.emitter = Merged(t.emitter) /\ r.pending = t.pending /\ r.fails = t.fails
<1> DEFINE e == Merged(t.emitter)
<1>1. EmitterOK(t.emitter, Vocabulary(k)) /\ (t.fails = 0 => ~t.emitter.frozen)
  BY WellIs
<1>2. EmitterOK(e, Vocabulary(k))
  BY <1>1, MergedOK
<1>3. t.fails = 0 => ~e.frozen
  BY <1>1, MergedIs
<1> HIDE DEF e
<1>4. r = [t EXCEPT !.emitter = e]
  BY DEF e
<1>6. LET u == [t EXCEPT !.emitter = e]
      IN  Well(u, k) /\ u.emitter = e /\ u.pending = t.pending /\ u.fails = t.fails
  BY <1>2, <1>3, EmitterCalled
<1>5. Well(r, k) /\ r.emitter = e /\ r.pending = t.pending /\ r.fails = t.fails
  BY <1>4, <1>6
<1>7. QED
  BY <1>5 DEF e

LEMMA DisownedWell ==
    ASSUME NEW k \in Nat, NEW t, Well(t, k), NEW r, r = [t EXCEPT !.emitter = Disowned(t.emitter)]
    PROVE  Well(r, k) /\ r.emitter = Disowned(t.emitter) /\ r.pending = t.pending /\ r.fails = t.fails
<1> DEFINE e == Disowned(t.emitter)
<1>1. /\ EmitterOK(t.emitter, Vocabulary(k)) /\ t.emitter \in EmitterOf(Vocabulary(k))
      /\ t.fails = 0 => ~t.emitter.frozen
  BY WellIs, EmitterTexts
<1>2. EmitterOK(e, Vocabulary(k))
  BY <1>1, DisownedOK
<1>3. t.fails = 0 => ~e.frozen
  BY <1>1 DEF Disowned, EmitterOf
<1> HIDE DEF e
<1>4. r = [t EXCEPT !.emitter = e]
  BY DEF e
<1>6. LET u == [t EXCEPT !.emitter = e]
      IN  Well(u, k) /\ u.emitter = e /\ u.pending = t.pending /\ u.fails = t.fails
  BY <1>2, <1>3, EmitterCalled
<1>5. Well(r, k) /\ r.emitter = e /\ r.pending = t.pending /\ r.fails = t.fails
  BY <1>4, <1>6
<1>7. QED
  BY <1>5 DEF e

\* The region after a command whose words are the open utterance's.
LEMMA CommandCut ==
    ASSUME NEW k \in Nat, k # 0, NEW s, Well(s, k), Spoken(s.emitter.scr, k),
           NEW r \in Syncs(s, <<>>), r.fails = 0,
           NEW W, NEW o, Shows(s.emitter, <<>>, W, o),
           k \notin Of(s.emitter.settled), k \notin Of(s.emitter.prev)
    PROVE  Well(r, k) /\ r.pending = NoText /\ Shows(r.emitter, r.emitter.scr, W, o)
<1> DEFINE none == <<>>
<1>1. none \in Texts(k) /\ LiveCap \in Nat /\ r \in Typed(s, none, LiveCap) /\ Len(none) = 0
  BY NothingIsText, OutputAssumption DEF Syncs
<1>5. Shows(s.emitter, none, W, o)
  OBVIOUS
<1> HIDE DEF none
<1>2. /\ Well(r, k) /\ r.pending = NoText
      /\ r.emitter.prev = s.emitter.prev /\ r.emitter.settled = s.emitter.settled
      /\ \E n \in 0..Len(s.emitter.scr) : r.emitter.scr = RegionShown(s.emitter, none, n)
  BY <1>1, TypedWell
<1>3. s.emitter.scr \in Texts(k) /\ r.emitter.scr \in Texts(k) /\ EmitterOK(r.emitter, Vocabulary(k))
  BY <1>2, WellIs
<1>4. Spoken(r.emitter.scr, k)
  BY <1>1, <1>2, <1>3, CutShown
<1>6. Shows(r.emitter, none, W, o)
  BY <1>2, <1>5, ShowsOnly
<1>7. W \subseteq W \cup Of(r.emitter.scr) /\ o \subseteq o \cup {k}
  OBVIOUS
<1>8. Shows(r.emitter, r.emitter.scr, W, o)
  BY <1>2, <1>3, <1>4, <1>6, <1>7, SpokenShows DEF none
<1>9. QED
  BY <1>2, <1>8

\* "scratch that": the previous message is joined and deleted with the command;
\* what the cap on backspaces leaves of it is not owed any more.
LEMMA ScratchShows ==
    ASSUME NEW k \in Nat, NEW s, Well(s, k), s.pending = NoText, Spoken(s.emitter.scr, k),
           NEW t \in Calls(s, Merged), NEW r \in Syncs(t, <<>>), r.fails = 0,
           NEW W, NEW o, Shows(s.emitter, <<>>, W, o),
           k \notin Of(s.emitter.settled), k \notin Of(s.emitter.prev)
    PROVE  /\ Well(r, k) /\ r.pending = NoText
           /\ Shows(r.emitter, r.emitter.scr, W \ Of(s.emitter.prev), o \ Of(s.emitter.prev))
<1> DEFINE none == <<>>
           e == s.emitter
           p == o \ Of(e.prev)
           V == W \ Of(e.prev)
<1>1. PICK u \in Rendered(s) : t = [u EXCEPT !.emitter = Merged(u.emitter)]
  BY DEF Calls
<1>2. u = s
  BY DEF Rendered
<1>3. Well(t, k) /\ t.emitter = Merged(e) /\ t.fails = s.fails
  BY <1>1, <1>2, MergedWell
<1>4. none \in Texts(k) /\ LiveCap \in Nat /\ r \in Typed(t, none, LiveCap) /\ Tidy(none, p) /\ Of(none) = {}
  BY NothingIsText, OutputAssumption, NothingIsTidy DEF Syncs
<1>14. Shows(e, none, W, o)
  OBVIOUS
<1>15. none = <<>>
  OBVIOUS
<1> HIDE DEF none, e
<1>5. /\ Well(r, k) /\ r.pending = NoText /\ t.fails = 0
      /\ r.emitter.prev = t.emitter.prev /\ r.emitter.settled = t.emitter.settled
      /\ \E n \in 0..Len(t.emitter.scr) : r.emitter.scr = RegionShown(t.emitter, none, n)
  BY <1>3, <1>4, TypedWell
<1>6. PICK n \in 0..Len(t.emitter.scr) : r.emitter.scr = RegionShown(t.emitter, none, n)
  BY <1>5
<1>7. /\ EmitterOK(e, Vocabulary(k)) /\ ~e.frozen
      /\ e.scr \in Texts(k) /\ e.prev \in Texts(k) /\ e.settled \in Texts(k) /\ t.emitter.scr \in Texts(k)
  BY <1>3, <1>5, WellIs DEF e
<1>8. /\ t.emitter.prev = none /\ t.emitter.scr = e.prev \o e.scr /\ t.emitter.settled = e.settled
      /\ Of(t.emitter.scr) = Of(e.prev) \cup Of(e.scr)
  BY <1>3, <1>7, <1>15, MergedIs
<1>9. Of(e.scr) \subseteq {k} /\ Plain(e.scr) /\ Neat(e.scr) /\ (\A x : Tidy(e.scr, x))
  BY <1>7, SpokenIs DEF e
<1>10. /\ Tidy(e.settled, o) /\ Tidy(e.prev, o) /\ Apart(e.settled, e.prev)
       /\ W \subseteq Of(e.settled) \cup Of(e.prev)
  BY <1>4, <1>14 DEF Shows
<1>11. Apart(e.prev, e.scr) /\ Apart(e.settled, e.scr)
  BY <1>9 DEF Apart, e
<1>12. Neat(t.emitter.scr)
  BY <1>7, <1>8, <1>9, <1>10, <1>11, TidyConcat DEF Tidy
<1>13. \A i \in 1..Len(t.emitter.scr) : t.emitter.scr[i].form = "reply" => t.emitter.scr[i].of \cap p = {}
  <2> SUFFICES ASSUME NEW i \in 1..Len(t.emitter.scr), t.emitter.scr[i].form = "reply"
               PROVE  t.emitter.scr[i].of \cap p = {}
    OBVIOUS
  <2>1. PICK c \in Texts(k) :
          /\ c = e.prev \o e.scr /\ Len(c) = Len(e.prev) + Len(e.scr)
          /\ \A j \in 1..Len(c) : \/ j \in 1..Len(e.prev) /\ c[j] = e.prev[j]
                                  \/ j - Len(e.prev) \in 1..Len(e.scr) /\ c[j] = e.scr[j - Len(e.prev)]
    <3> DEFINE a == e.prev
               b == e.scr
    <3>1. a \in Texts(k) /\ b \in Texts(k)
      BY <1>7
    <3> HIDE DEF a, b
    <3>2. PICK c \in Texts(k) :
            /\ c = a \o b /\ Len(c) = Len(a) + Len(b)
            /\ \A j \in 1..Len(c) : \/ j \in 1..Len(a) /\ c[j] = a[j]
                                    \/ j - Len(a) \in 1..Len(b) /\ c[j] = b[j - Len(a)]
            /\ \A j \in 1..Len(a) : j \in 1..Len(c) /\ c[j] = a[j]
            /\ \A j \in 1..Len(b) : Len(a) + j \in 1..Len(c) /\ c[Len(a) + j] = b[j]
      BY <3>1, ConcatIs, ZenonT(30)
    <3>3. QED
      BY <3>2 DEF a, b
  <2>2. CASE i \in 1..Len(e.prev) /\ t.emitter.scr[i] = e.prev[i]
    <3>1. e.prev[i].of \subseteq Of(e.prev)
      BY <1>7, <2>2, TextIs
    <3>2. QED
      BY <2>2, <3>1
  <2>3. CASE i - Len(e.prev) \in 1..Len(e.scr) /\ t.emitter.scr[i] = e.scr[i - Len(e.prev)]
    <3>1. DOMAIN e.scr = 1..Len(e.scr)
      BY <1>7, TextIs
    <3>2. FALSE
      BY <1>9, <2>3, <3>1 DEF Plain, IsReply
    <3>3. QED
      BY <3>2
  <2>4. QED
    BY <1>8, <2>1, <2>2, <2>3
<1>16. Tidy(r.emitter.scr, p) /\ Of(r.emitter.scr) \subseteq Of(t.emitter.scr)
  <2> DEFINE m == t.emitter
  <2>1. m.scr \in Texts(k) /\ n \in 0..Len(m.scr) /\ Neat(m.scr)
        /\ \A i \in 1..Len(m.scr) : m.scr[i].form = "reply" => m.scr[i].of \cap p = {}
    BY <1>6, <1>7, <1>12, <1>13
  <2> HIDE DEF m, p
  <2>2. Tidy(RegionShown(m, <<>>, n), p) /\ Of(RegionShown(m, <<>>, n)) \subseteq Of(m.scr)
    BY <2>1, ScratchLeaves
  <2>3. QED
    BY <1>6, <1>15, <2>2 DEF m
<1>17. Tidy(e.settled, p)
  BY <1>7, <1>10, TidyForLess
<1>18. V \subseteq Of(e.settled)
  BY <1>10
<1>19. Shows(r.emitter, r.emitter.scr, V, p)
  BY <1>4, <1>5, <1>8, <1>9, <1>10, <1>11, <1>16, <1>17, <1>18 DEF Shows, Apart
<1>20. QED
  BY <1>5, <1>19 DEF e

\* A key is pressed: the regions are forgotten, what is on the screen stays.
LEMMA KeyShows ==
    ASSUME NEW k \in Nat, NEW t, Well(t, k), t.pending = NoText, NEW r \in Calls(t, Disowned), r.fails = 0,
           NEW W, NEW o, Shows(t.emitter, t.emitter.scr, W, o)
    PROVE  Well(r, k) /\ r.pending = NoText /\ Shows(r.emitter, r.emitter.scr, W, o)
<1>1. PICK u \in Rendered(t) : r = [u EXCEPT !.emitter = Disowned(u.emitter)]
  BY DEF Calls
<1>2. u = t
  BY DEF Rendered
<1>3. Well(r, k) /\ r.emitter = Disowned(t.emitter) /\ r.pending = t.pending /\ r.fails = t.fails
  BY <1>1, <1>2, DisownedWell
<1>4. EmitterOK(t.emitter, Vocabulary(k)) /\ ~t.emitter.frozen
  BY <1>3, WellIs
<1>5. Shows(Disowned(t.emitter), Disowned(t.emitter).scr, W, o)
  BY <1>4, ShowsDisowned
<1>6. QED
  BY <1>3, <1>5

LEMMA NewLineLeaves ==
    ASSUME NEW k \in Nat, k # 0, NEW s, Well(s, k), Spoken(s.emitter.scr, k),
           NEW r \in Syncs(s, NewLine), r.fails = 0,
           NEW W, NEW o, Shows(s.emitter, <<>>, W, o),
           k \notin Of(s.emitter.settled), k \notin Of(s.emitter.prev)
    PROVE  Well(r, k) /\ r.pending = NoText /\ Shows(r.emitter, r.emitter.scr, W, o)
<1> DEFINE none == <<>>
           t == NewLine
<1>1. t \in Texts(k) /\ LiveCap \in Nat /\ r \in Typed(s, t, LiveCap)
  BY NewLineIs, OutputAssumption DEF Syncs
<1>2. Shows(s.emitter, none, W, o) /\ Of(none) = {} /\ Of(t) = {} /\ Tidy(t, o)
  BY NothingIsText, NewLineIsTidy
<1> HIDE DEF none, t
<1>3. /\ Well(r, k) /\ r.pending = NoText
      /\ r.emitter.prev = s.emitter.prev /\ r.emitter.settled = s.emitter.settled
      /\ \E n \in 0..Len(s.emitter.scr) : r.emitter.scr = RegionShown(s.emitter, t, n)
  BY <1>1, TypedWell
<1>4. s.emitter.scr \in Texts(k) /\ r.emitter.scr \in Texts(k) /\ EmitterOK(r.emitter, Vocabulary(k))
  BY <1>3, WellIs
<1>5. Spoken(r.emitter.scr, k) \/ r.emitter.scr = t
  BY <1>3, <1>4, NewLineShown DEF t
<1>6. Shows(r.emitter, none, W, o)
  BY <1>2, <1>3, ShowsOnly
<1>7. CASE Spoken(r.emitter.scr, k)
  <2>1. W \subseteq W \cup Of(r.emitter.scr) /\ o \subseteq o \cup {k}
    OBVIOUS
  <2>2. Shows(r.emitter, r.emitter.scr, W, o)
    BY <1>3, <1>4, <1>6, <1>7, <2>1, SpokenShows DEF none
  <2>3. QED
    BY <1>3, <2>2
<1>8. CASE r.emitter.scr = t
  BY <1>2, <1>3, <1>6, <1>8 DEF Shows, Apart
<1>9. QED
  BY <1>5, <1>7, <1>8

LEMMA CommandedShows ==
    ASSUME NEW k \in Nat, k # 0, NEW s, Well(s, k), s.pending = NoText, Spoken(s.emitter.scr, k),
           NEW action \in {"scratch", "newline", "key", "copy"}, NEW r \in Commanded(s, action), r.fails = 0,
           NEW W, NEW o, Shows(s.emitter, <<>>, W, o),
           k \notin Of(s.emitter.settled), k \notin Of(s.emitter.prev)
    PROVE  /\ Well(r, k) /\ r.pending = NoText
           /\ action # "scratch" => Shows(r.emitter, r.emitter.scr, W, o)
           /\ action = "scratch" =>
                 Shows(r.emitter, r.emitter.scr, W \ Of(s.emitter.prev), o \ Of(s.emitter.prev))
<1>1. CASE action = "scratch"
  <2>1. PICK t \in Calls(s, Merged) : r \in Syncs(t, <<>>)
    BY <1>1 DEF Commanded
  <2>2. QED
    BY <1>1, <2>1, ScratchShows
<1>2. CASE action = "newline"
  <2>1. r \in Syncs(s, NewLine)
    BY <1>2 DEF Commanded
  <2>2. QED
    BY <1>2, <2>1, NewLineLeaves
<1>3. CASE action = "key"
  <2>1. PICK t \in Syncs(s, <<>>) : r \in Calls(t, Disowned)
    BY <1>3 DEF Commanded
  <2>2. Well(t, k) /\ t.pending = NoText
    <3>1. <<>> \in Texts(k) /\ t \in Typed(s, <<>>, LiveCap) /\ LiveCap \in Nat
      BY NothingIsText, OutputAssumption DEF Syncs
    <3>2. QED
      BY <3>1, TypedWell
  <2>3. t.fails = 0
    <3>1. PICK u \in Rendered(t) : r = [u EXCEPT !.emitter = Disowned(u.emitter)]
      BY <2>1 DEF Calls
    <3>2. u = t
      BY <2>2 DEF Rendered
    <3>3. QED
      BY <2>2, <3>1, <3>2, DisownedWell
  <2>4. Shows(t.emitter, t.emitter.scr, W, o)
    BY <2>1, <2>3, CommandCut
  <2>5. QED
    BY <1>3, <2>1, <2>2, <2>4, KeyShows
<1>4. CASE action = "copy"
  <2>1. r \in Syncs(s, <<>>)
    BY <1>4 DEF Commanded
  <2>2. QED
    BY <1>4, <2>1, CommandCut
<1>5. QED
  BY <1>1, <1>2, <1>3, <1>4

\* "literally ...": the first word is dropped, the rest is the message.
LEMMA LiteralShows ==
    ASSUME NEW k \in Nat, k # 0, NEW s, Well(s, k), Spoken(s.emitter.scr, k),
           NEW r \in Syncs(s, Tail(Final(k))), r.fails = 0,
           NEW W, NEW o, Shows(s.emitter, <<>>, W, o),
           k \notin Of(s.emitter.settled), k \notin Of(s.emitter.prev),
           NEW V, V \subseteq W \cup {k}, NEW p, p \subseteq o \cup {k}
    PROVE  Len(s.emitter.scr) = 2 =>
              Well(r, k) /\ r.pending = NoText /\ Shows(r.emitter, r.emitter.scr, V, p)
<1> DEFINE none == <<>>
           x == Token({k}, "last")
           t == Tail(Final(k))
<1>1. t = <<x>> /\ x \in Vocabulary(k)
  <2>1. {k} \in SUBSET (1..k)
    OBVIOUS
  <2>2. QED
    BY <2>1, FinalIsSpoken, TokenIs
<1>10. /\ <<x>> \in Texts(k) /\ Len(<<x>>) = 1 /\ <<x>>[1] = x
  BY <1>1, OneToken
<1>2. Len(t) = 1 /\ t[1] = x
  BY <1>1, <1>10
<1>13. t \in Texts(k) /\ LiveCap \in Nat /\ r \in Typed(s, t, LiveCap)
  BY <1>1, <1>10, OutputAssumption DEF Syncs
<1>3. Shows(s.emitter, none, W, o)
  OBVIOUS
<1> HIDE DEF none, t
<1>4. /\ Well(r, k) /\ r.pending = NoText
      /\ r.emitter.prev = s.emitter.prev /\ r.emitter.settled = s.emitter.settled
      /\ \E n \in 0..Len(s.emitter.scr) : r.emitter.scr = RegionShown(s.emitter, t, n)
  BY <1>13, TypedWell
<1> SUFFICES ASSUME Len(s.emitter.scr) = 2
             PROVE  Well(r, k) /\ r.pending = NoText /\ Shows(r.emitter, r.emitter.scr, V, p)
  OBVIOUS
<1>5. s.emitter.scr \in Texts(k) /\ r.emitter.scr \in Texts(k) /\ EmitterOK(r.emitter, Vocabulary(k))
  BY <1>4, WellIs
<1>6. Spoken(r.emitter.scr, k) /\ r.emitter.scr # <<>>
  <2>1. PICK n \in 0..Len(s.emitter.scr) : r.emitter.scr = RegionShown(s.emitter, t, n)
    BY <1>4
  <2> DEFINE e == s.emitter
  <2>2. n \in 0..Len(e.scr) /\ e.scr \in Texts(k) /\ Spoken(e.scr, k) /\ Len(e.scr) = 2
    BY <1>5
  <2> HIDE DEF e
  <2>4. (Spoken(e.scr, k) /\ Len(e.scr) = 2 /\ Len(t) = 1 /\ t[1] = Token({k}, "last"))
           => Spoken(RegionShown(e, t, n), k) /\ RegionShown(e, t, n) # <<>>
    <3>1. e.scr \in Texts(k) /\ n \in 0..Len(e.scr) /\ t \in Texts(k)
      BY <1>13, <2>2
    <3>2. QED
      BY <3>1, LastShown
  <2>3. Spoken(RegionShown(e, t, n), k) /\ RegionShown(e, t, n) # <<>>
    BY <1>2, <2>2, <2>4
  <2>5. QED
    BY <2>1, <2>3 DEF e
<1>7. Of(r.emitter.scr) = {k}
  BY <1>5, <1>6, SpokenIs
<1>8. Shows(r.emitter, none, W, o)
  BY <1>3, <1>4, ShowsOnly
<1>9. V \subseteq W \cup Of(r.emitter.scr)
  BY <1>7
<1>11. Shows(r.emitter, r.emitter.scr, V, p)
  BY <1>4, <1>5, <1>6, <1>8, <1>9, SpokenShows DEF none
<1>12. QED
  BY <1>4, <1>11

-----------------------------------------------------------------------------
(* What the model answers.                                                 *)

LEMMA AnswerIs ==
    ASSUME NEW answer \in Answers
    PROVE  /\ Revises(answer) <=> (answer # "new" /\ answer # "same")
           /\ answer = "revise" => Revises(answer)
  BY DEF Answers, Revises

LEMMA BodyOf ==
    ASSUME NEW k \in Nat, NEW answer \in Answers, NEW c, c.original \in Texts(k),
           NEW region \in Texts(k)
    PROVE  /\ answer # "same" => \A o : Tidy(Body(answer, c, region), o)
           /\ answer = "same" => Body(answer, c, region) = c.original
           /\ Of(Body(answer, c, region)) =
                 IF Revises(answer) THEN Of(c.original) \cup Of(region) ELSE Of(c.original)
<1> DEFINE body == Body(answer, c, region)
           both == Of(c.original) \cup Of(region)
<1>1. Of(c.original) \in SUBSET (1..k) /\ both \in SUBSET (1..k)
  BY OfIs
<1> HIDE DEF both
<1>2. CASE answer = "new"
  <2>1. body = Reply(Of(c.original)) /\ ~Revises(answer)
    BY <1>2 DEF Body, Revises, Bare
  <2>2. QED
    BY <1>1, <1>2, <2>1, ReplyIsTidy, ReplyOf
<1>3. CASE answer = "same"
  <2>1. body = c.original /\ ~Revises(answer)
    BY <1>3 DEF Body, Revises, Bare
  <2>2. QED
    BY <1>3, <2>1
<1>4. CASE answer # "new" /\ answer # "same"
  <2>1. Revises(answer)
    BY <1>4, AnswerIs
  <2>2. body = Reply(both)
    BY <1>4, <2>1 DEF Body, Bare, Revises, both
  <2>3. Of(Reply(both)) = both /\ \A o : Tidy(Reply(both), o)
    BY <1>1, ReplyIsTidy, ReplyOf
  <2>4. QED
    BY <1>4, <2>1, <2>2, <2>3 DEF both
<1>5. QED
  BY <1>2, <1>3, <1>4

\* The marker of a revision.
LEMMA MarkerIsTidy == Of(Marker) = {} /\ \A o : Tidy(Marker, o)
<1> DEFINE p == Token({}, "marker")
           t == <<p>>
<1>1. DOMAIN t = {1} /\ t[1] = p /\ p.of = {} /\ p.form = "marker"
  BY TokensOf
<1> HIDE DEF t, p
<1>2. Of(t) = {}
  BY <1>1 DEF Of
<1>3. \A o : Tidy(t, o)
  BY <1>1 DEF Tidy, Neat, WholeFor
<1>4. QED
  BY <1>2, <1>3 DEF t, p, Marker

\* The first part of it that is shown.
LEMMA PartOfBody ==
    ASSUME NEW k \in Nat, NEW answer \in Answers \cup Bare, NEW c, c.original \in Texts(k), c.original # <<>>,
           NEW region \in Texts(k)
    PROVE  LET part == SubSeq(Body(answer, c, region), 1, 1)
           IN  /\ part \in Texts(k)
               /\ Of(part) \subseteq Of(c.original) \cup Of(region)
               /\ answer = "revise" => Of(part) = Of(c.original) \cup Of(region)
<1> DEFINE body == Body(answer, c, region)
           both == Of(c.original) \cup Of(region)
<1>1. Of(c.original) \in SUBSET (1..k) /\ both \in SUBSET (1..k)
  BY OfIs
<1>6. SubSeq(body, 1, 1) \in Texts(k)
  BY BodyIs
<1> HIDE DEF both
<1>2. CASE answer = "new"
  <2>1. body = Reply(Of(c.original))
    BY <1>2 DEF Body, Revises, Bare
  <2>2. Of(SubSeq(body, 1, 1)) = Of(c.original)
    BY <1>1, <2>1, ReplyOf
  <2>3. QED
    BY <1>2, <1>6, <2>2
<1>3. CASE answer = "same"
  <2>1. body = c.original
    BY <1>3 DEF Body, Revises, Bare
  <2> DEFINE a == c.original
             b == SubSeq(a, 1, 1)
  <2>2. a \in Texts(k) /\ Len(a) \in Nat /\ Len(a) # 0 /\ \A i \in 1..Len(a) : a[i].of \subseteq Of(a)
    <3>1. a \in Texts(k) /\ a # <<>>
      OBVIOUS
    <3>2. QED
      BY <3>1, TextIs
  <2>3. 0 \in 0..Len(a) /\ 1 \in 0..Len(a) /\ 1 \in 1..Len(a)
    BY <2>2
  <2>4. b \in Texts(k) /\ Len(b) = 1 /\ \A i \in 1..1 : b[i] = a[i]
    BY <2>2, <2>3, PartOf, 0 + 1 = 1 DEF Texts
  <2>8. a = c.original /\ b = SubSeq(c.original, 1, 1)
    OBVIOUS
  <2> HIDE DEF a, b
  <2>5. ASSUME NEW u \in Of(b) PROVE u \in Of(a)
    <3>1. PICK i \in 1..Len(b) : u \in b[i].of
      BY <2>4, OfIs
    <3>2. i \in 1..1 /\ i = 1
      BY <2>4
    <3>3. QED
      BY <2>2, <2>3, <2>4, <3>1, <3>2
  <2>6. Of(SubSeq(body, 1, 1)) \subseteq Of(c.original)
    BY <2>1, <2>5, <2>8
  <2>7. QED
    BY <1>3, <1>6, <2>6
<1>4. CASE answer # "new" /\ answer # "same" /\ answer \in Answers
  <2>1. Revises(answer)
    BY <1>4, AnswerIs
  <2>2. body = Reply(both)
    BY <1>4, <2>1 DEF Body, Bare, Revises, both
  <2>3. Of(SubSeq(Reply(both), 1, 1)) = both
    BY <1>1, ReplyOf
  <2>4. QED
    BY <1>6, <2>2, <2>3 DEF both
<1>5. CASE answer \in Bare
  <2>1. SubSeq(body, 1, 1) = Marker /\ answer # "revise"
    BY <1>5, BareBody, AnswersAre
  <2>2. QED
    BY <1>6, <2>1, MarkerIsTidy
<1>7. QED
  BY <1>2, <1>3, <1>4, <1>5

\* The whole reply may take the place of the region.
Replaces(e, c, region, answer, W, o) ==
    /\ Tidy(e.settled, o) /\ Tidy(e.prev, o) /\ Apart(e.settled, e.prev)
    /\ Apart(e.settled, c.original) /\ Apart(e.prev, c.original)
    /\ answer = "same" => Tidy(c.original, o)
    /\ Revises(answer) => Apart(e.settled, region) /\ Apart(e.prev, region)
    /\ W \subseteq Of(e.settled) \cup Of(e.prev) \cup Of(c.original)
                      \cup (IF Revises(answer) THEN Of(region) ELSE {})

LEMMA BodyShows ==
    ASSUME NEW k \in Nat, NEW answer \in Answers, NEW c, c.original \in Texts(k),
           NEW region \in Texts(k), NEW e, NEW W, NEW o, Replaces(e, c, region, answer, W, o)
    PROVE  Shows(e, Body(answer, c, region), W, o)
<1> DEFINE body == Body(answer, c, region)
<1>1. /\ answer # "same" => Tidy(body, o)
      /\ answer = "same" => body = c.original
      /\ Of(body) = IF Revises(answer) THEN Of(c.original) \cup Of(region) ELSE Of(c.original)
  BY BodyOf
<1> HIDE DEF body
<1>2. Tidy(body, o)
  BY <1>1 DEF Replaces
<1>3. Shows(e, body, W, o)
  BY <1>1, <1>2 DEF Shows, Replaces, Apart
<1>4. QED
  BY <1>3 DEF body

-----------------------------------------------------------------------------
(* Joining the previous region.                                            *)

\* What joining leaves.
Joins(s, wanted, m, k) ==
    /\ Well(m.to, k)
    /\ ~wanted => m.to = s /\ ~m.joined
    /\ wanted => \E t \in Rendered(s) :
          /\ Well(t, k) /\ t.fails = 0 /\ t.pending = NoText /\ m.to.pending = NoText
          /\ m.to.emitter = Merged(t.emitter)
          /\ m.to.emitter.settled = t.emitter.settled /\ m.to.emitter.prev = <<>>
          /\ m.to.emitter.scr = t.emitter.prev \o t.emitter.scr
          /\ Of(m.to.emitter.scr) = Of(t.emitter.prev) \cup Of(t.emitter.scr)
          /\ m.joined <=> t.emitter.prev # <<>>
          /\ ~m.joined => m.to = t

LEMMA MergesWell ==
    ASSUME NEW k \in Nat, NEW s, Well(s, k), NEW wanted, NEW m \in Merges(s, wanted), m.to.fails = 0
    PROVE  Joins(s, wanted, m, k)
<1>1. CASE wanted
  <2>1. PICK t \in Rendered(s) :
            m = [to |-> [t EXCEPT !.emitter = Merged(t.emitter)], joined |-> Mergeable(t.emitter)]
    BY <1>1 DEF Merges
  <2>2. Well(t, k) /\ t.pending = NoText
    BY RenderedWell
  <2> DEFINE r == [t EXCEPT !.emitter = Merged(t.emitter)]
  <2>3. Well(r, k) /\ r.emitter = Merged(t.emitter) /\ r.pending = t.pending /\ r.fails = t.fails
    BY <2>2, MergedWell
  <2>4. m.to = r /\ m.joined = Mergeable(t.emitter)
    BY <2>1
  <2> HIDE DEF r
  <2>5. EmitterOK(t.emitter, Vocabulary(k)) /\ ~t.emitter.frozen /\ t.fails = 0
    BY <2>2, <2>3, <2>4, WellIs
  <2> DEFINE e == t.emitter
  <2>6. /\ Merged(e).prev = <<>> /\ Merged(e).scr = e.prev \o e.scr /\ Merged(e).settled = e.settled
        /\ Of(Merged(e).scr) = Of(e.prev) \cup Of(e.scr)
        /\ Mergeable(e) <=> e.prev # <<>>
        /\ ~Mergeable(e) => Merged(e) = e
    BY <2>5, MergedIs
  <2>7. ~m.joined => m.to = t
    <3>1. ~Mergeable(t.emitter) => r = [t EXCEPT !.emitter = t.emitter]
      BY <2>6 DEF r
    <3>2. [t EXCEPT !.emitter = t.emitter] = t
      BY <2>2 DEF Well, TypistOK
    <3>3. QED
      BY <2>4, <3>1, <3>2
  <2>8. QED
    BY <1>1, <2>2, <2>3, <2>4, <2>5, <2>6, <2>7 DEF Joins
<1>2. CASE ~wanted
  <2>1. m = [to |-> s, joined |-> FALSE]
    BY <1>2 DEF Merges
  <2>2. QED
    BY <1>2, <2>1 DEF Joins
<1>3. QED
  BY <1>1, <1>2

-----------------------------------------------------------------------------
(* A transform in flight.                                                  *)

\* The text submitted is as good as the region: a chain's in the place of the
\* previous region too.
Original(e, c, W, o) ==
    /\ Plain(c.original) /\ Neat(c.original) /\ c.original # <<>>
    /\ Apart(e.settled, c.original)
    /\ c.mergeAll => W \subseteq Of(e.settled) \cup Of(c.original)
    /\ ~c.mergeAll => /\ Apart(e.prev, c.original)
                      /\ W \subseteq Of(e.settled) \cup Of(e.prev) \cup Of(c.original)

\* Nothing of the reply has been published.
Untouched(s, c, W, o) ==
    /\ s.pending = NoText /\ ~c.merged
    /\ Shows(s.emitter, s.emitter.scr, W, o) /\ Original(s.emitter, c, W, o)

\* A part of it has: what is needed is in the text to put back, and will be in
\* the whole reply, unless that is the marker alone; rep says whether there was a reply to revise.
HalfWay(s, c, rep, W, o) ==
    /\ c.state = "stream" /\ c.answer \in Answers \cup Bare
    /\ Shows(s.emitter, Restore(c), W, o)
    /\ Apart(s.emitter.settled, s.emitter.scr) /\ Apart(s.emitter.settled, s.pending.text)
    /\ Apart(s.emitter.settled, c.original)
    /\ s.pending # NoText => s.pending.cap = TransformCap
    /\ (c.merged \/ c.mergeAll \/ (SeenToRevise(c.answer) /\ rep)) => s.emitter.prev = <<>>
    /\ (c.merged /\ ~c.mergeAll) => SeenToRevise(c.answer)
    /\ (c.merged /\ ~c.mergeAll /\ c.answer = "revise") =>
          /\ W \subseteq Of(s.emitter.settled) \cup Of(c.original) \cup Of(s.emitter.scr)
          /\ s.pending # NoText =>
                W \subseteq Of(s.emitter.settled) \cup Of(c.original) \cup Of(s.pending.text)
    /\ ~(c.merged /\ ~c.mergeAll) => Original(s.emitter, c, W, o)
    /\ c.answer \in Bare => /\ s.pending = NoText => s.emitter.scr = Marker
                            /\ s.pending # NoText => s.pending.text = Marker

\* A rewrite of both regions is within the cap on backspaces.
FitsIn(s) ==
    /\ Len(s.emitter.prev) + Len(s.emitter.scr) <= TransformCap
    /\ Len(s.emitter.prev) + Len(s.pending.text) <= TransformCap

LEMMA BothFit == \A x, y, z, n \in Nat : (x + y <= n /\ x + z <= n) => y <= n /\ z <= n
  OBVIOUS

LEMMA FitsIs ==
    ASSUME NEW k \in Nat, NEW s, Well(s, k), FitsIn(s)
    PROVE  Len(s.emitter.scr) <= TransformCap /\ Len(s.pending.text) <= TransformCap
<1>1. Len(s.emitter.prev) \in Nat /\ Len(s.emitter.scr) \in Nat /\ Len(s.pending.text) \in Nat
  BY WellIs, TextIs
<1>2. QED
  BY <1>1, OutputAssumption, BothFit DEF FitsIn

\* What joining leaves before anything of the reply was published.
JoinsUntouched(s, wanted, m, k, W, o) ==
    /\ Well(m.to, k) /\ m.to.pending = NoText
    /\ Shows(m.to.emitter, m.to.emitter.scr, W, o)
    /\ m.to.emitter.settled = s.emitter.settled
    /\ Len(m.to.emitter.scr) <= TransformCap
    /\ m.joined => wanted /\ Of(m.to.emitter.scr) = Of(s.emitter.prev) \cup Of(s.emitter.scr)
                   /\ m.to.emitter.scr # <<>>
    /\ ~m.joined => m.to = s
    /\ wanted => m.to.emitter.prev = <<>>

LEMMA UntouchedMerges ==
    ASSUME NEW k \in Nat, NEW s, Well(s, k), s.pending = NoText, FitsIn(s),
           NEW W, NEW o, Shows(s.emitter, s.emitter.scr, W, o),
           NEW wanted, NEW m \in Merges(s, wanted), m.to.fails = 0
    PROVE  JoinsUntouched(s, wanted, m, k, W, o)
<1>1. /\ Well(m.to, k)
      /\ ~wanted => m.to = s /\ ~m.joined
      /\ wanted => \E t \in Rendered(s) :
            /\ Well(t, k) /\ t.fails = 0 /\ t.pending = NoText /\ m.to.pending = NoText
            /\ m.to.emitter = Merged(t.emitter)
            /\ m.to.emitter.settled = t.emitter.settled /\ m.to.emitter.prev = <<>>
            /\ m.to.emitter.scr = t.emitter.prev \o t.emitter.scr
            /\ Of(m.to.emitter.scr) = Of(t.emitter.prev) \cup Of(t.emitter.scr)
            /\ m.joined <=> t.emitter.prev # <<>>
            /\ ~m.joined => m.to = t
  <2>1. Joins(s, wanted, m, k)
    BY MergesWell
  <2>2. QED
    BY <2>1 DEF Joins
<1>2. CASE ~wanted
  BY <1>1, <1>2, FitsIs DEF JoinsUntouched
<1>3. CASE wanted
  <2>1. /\ s.fails = 0 /\ m.to.pending = NoText
        /\ m.to.emitter = Merged(s.emitter)
        /\ m.to.emitter.settled = s.emitter.settled /\ m.to.emitter.prev = <<>>
        /\ m.to.emitter.scr = s.emitter.prev \o s.emitter.scr
        /\ Of(m.to.emitter.scr) = Of(s.emitter.prev) \cup Of(s.emitter.scr)
        /\ m.joined <=> s.emitter.prev # <<>>
        /\ ~m.joined => m.to = s
    <3>1. Rendered(s) = {s}
      BY DEF Rendered
    <3>2. QED
      BY <1>1, <1>3, <3>1
  <2>2. EmitterOK(s.emitter, Vocabulary(k)) /\ ~s.emitter.frozen
        /\ s.emitter.prev \in Texts(k) /\ s.emitter.scr \in Texts(k)
    BY <2>1, WellIs
  <2>3. Shows(m.to.emitter, m.to.emitter.scr, W, o)
    BY <2>1, <2>2, ShowsMerged
  <2> DEFINE a == s.emitter.prev
             b == s.emitter.scr
  <2>4. a \in Texts(k) /\ b \in Texts(k) /\ Len(a) + Len(b) <= TransformCap
    BY <2>2 DEF FitsIn
  <2> HIDE DEF a, b
  <2>5. PICK x \in Texts(k) :
          /\ x = a \o b /\ Len(x) = Len(a) + Len(b)
          /\ \A i \in 1..Len(x) : \/ i \in 1..Len(a) /\ x[i] = a[i]
                                  \/ i - Len(a) \in 1..Len(b) /\ x[i] = b[i - Len(a)]
          /\ \A i \in 1..Len(a) : i \in 1..Len(x) /\ x[i] = a[i]
          /\ \A i \in 1..Len(b) : Len(a) + i \in 1..Len(x) /\ x[Len(a) + i] = b[i]
    BY <2>4, ConcatIs
  <2>6. a \o b \in Texts(k) /\ (b # <<>> \/ a # <<>> => a \o b # <<>>)
    BY <2>4, OfConcat
  <2>7. Len(m.to.emitter.scr) <= TransformCap /\ (m.joined => m.to.emitter.scr # <<>>)
    BY <2>1, <2>4, <2>5, <2>6 DEF a, b
  <2>8. QED
    BY <1>1, <1>3, <2>1, <2>3, <2>7 DEF JoinsUntouched
<1>4. QED
  BY <1>2, <1>3

\* All of the reply, of which nothing was shown before.
LEMMA UntouchedBody ==
    ASSUME NEW k \in Nat, NEW s, Well(s, k), FitsIn(s),
           NEW c, c.original \in Texts(k), NEW W, NEW o, Untouched(s, c, W, o),
           NEW answer \in Answers, NEW wanted, NEW m \in Merges(s, wanted), m.to.fails = 0,
           c.mergeAll => wanted, wanted => c.mergeAll \/ Revises(answer)
    PROVE  Shows(m.to.emitter, Body(answer, c, IF m.joined THEN m.to.emitter.scr ELSE c.original), W, o)
<1> DEFINE e == s.emitter
           f == m.to.emitter
           region == IF m.joined THEN f.scr ELSE c.original
<1>1. s.pending = NoText /\ Shows(e, e.scr, W, o) /\ Original(e, c, W, o)
  BY DEF Untouched
<1>2. /\ Well(m.to, k) /\ Shows(f, f.scr, W, o) /\ f.settled = e.settled
      /\ m.joined => wanted /\ Of(f.scr) = Of(e.prev) \cup Of(e.scr)
      /\ ~m.joined => f = e
      /\ wanted => f.prev = <<>>
  <2>1. s.pending = NoText /\ Shows(s.emitter, s.emitter.scr, W, o)
    BY DEF Untouched
  <2>2. JoinsUntouched(s, wanted, m, k, W, o)
    BY <2>1, UntouchedMerges
  <2>3. QED
    BY <2>2 DEF JoinsUntouched
<1>3. region \in Texts(k) /\ Tidy(c.original, o) /\ Of(<<>>) = {}
  BY <1>1, <1>2, WellIs, PlainIsWhole, NothingIsText DEF Original
<1>9. m.joined => region = f.scr
  OBVIOUS
<1>10. ~m.joined => region = c.original
  OBVIOUS
<1> HIDE DEF e, f, region
<1>4. Tidy(f.settled, o) /\ Tidy(f.prev, o) /\ Apart(f.settled, f.prev) /\ Apart(f.settled, c.original)
  BY <1>1, <1>2 DEF Shows, Original
<1>5. Apart(f.prev, c.original)
  <2>1. CASE wanted
    BY <1>2, <1>3, <2>1 DEF Apart
  <2>2. CASE ~wanted
    BY <1>1, <1>2, <2>2 DEF Original
  <2>3. QED
    BY <2>1, <2>2
<1>6. Apart(f.settled, region) /\ Apart(f.prev, region)
  BY <1>2, <1>4, <1>5, <1>9, <1>10 DEF Shows
<1>7. W \subseteq Of(f.settled) \cup Of(f.prev) \cup Of(c.original)
                 \cup (IF Revises(answer) THEN Of(region) ELSE {})
  <2>1. CASE c.mergeAll
    BY <1>1, <1>2, <2>1 DEF Original
  <2>2. CASE ~c.mergeAll /\ m.joined
    <3>1. Revises(answer)
      BY <1>2, <2>2
    <3>2. W \subseteq Of(f.settled) \cup Of(f.prev) \cup Of(f.scr)
      BY <1>2 DEF Shows
    <3>3. QED
      BY <1>9, <2>2, <3>1, <3>2
  <2>3. CASE ~c.mergeAll /\ ~m.joined
    BY <1>1, <1>2, <2>3 DEF Original
  <2>4. QED
    BY <2>1, <2>2, <2>3
<1>8. Replaces(f, c, region, answer, W, o)
  BY <1>3, <1>4, <1>5, <1>6, <1>7 DEF Replaces
<1>11. Shows(f, Body(answer, c, region), W, o)
  BY <1>3, <1>8, BodyShows
<1>12. QED
  BY <1>11 DEF f, region

\* What was published of a reply, rendered.
HalfRendered(s, r, k) ==
    /\ Well(r, k) /\ r.pending = NoText
    /\ r.emitter.prev = s.emitter.prev /\ r.emitter.settled = s.emitter.settled
    /\ Len(r.emitter.prev) + Len(r.emitter.scr) <= TransformCap
    /\ Apart(s.emitter.settled, r.emitter.scr)
    /\ s.pending = NoText => r = s
    /\ s.pending # NoText => r.emitter.scr = s.pending.text

LEMMA RendersHalf ==
    ASSUME NEW k \in Nat, NEW s, Well(s, k), FitsIn(s),
           NEW c, NEW rep, NEW W, NEW o, HalfWay(s, c, rep, W, o),
           NEW r \in Rendered(s), r.fails = 0
    PROVE  HalfRendered(s, r, k)
<1>1. CASE s.pending = NoText
  BY <1>1, RenderedWell DEF HalfWay, FitsIn, HalfRendered
<1>2. CASE s.pending # NoText
  <2>1. s.pending.cap = TransformCap /\ Apart(s.emitter.settled, s.pending.text)
    BY <1>2 DEF HalfWay
  <2>2. Len(s.emitter.scr) <= s.pending.cap
    BY <2>1, FitsIs
  <2>3. /\ Well(r, k) /\ r.pending = NoText /\ r.emitter.scr = s.pending.text
        /\ r.emitter.prev = s.emitter.prev /\ r.emitter.settled = s.emitter.settled
    BY <1>2, <2>2, RenderedWell
  <2>4. QED
    BY <1>2, <2>1, <2>3 DEF FitsIn, HalfRendered
<1>3. QED
  BY <1>1, <1>2

LEMMA HalfWayRendered ==
    ASSUME NEW k \in Nat, NEW s, Well(s, k), FitsIn(s),
           NEW c, NEW rep, NEW W, NEW o, HalfWay(s, c, rep, W, o),
           NEW r \in Rendered(s), r.fails = 0
    PROVE  HalfWay(r, c, rep, W, o)
<1> DEFINE e == s.emitter
           f == r.emitter
<1>1. /\ r.pending = NoText /\ f.prev = e.prev /\ f.settled = e.settled
      /\ Apart(e.settled, f.scr)
      /\ s.pending = NoText => r = s
      /\ s.pending # NoText => f.scr = s.pending.text
  BY RendersHalf DEF HalfRendered
<1>2. CASE s.pending = NoText
  BY <1>1, <1>2
<1>3. CASE s.pending # NoText
  <2>1. Of(r.pending.text) = {}
    BY <1>1, NoTextIs, NothingIsText
  <2> HIDE DEF e, f
  <2>2. Shows(e, Restore(c), W, o) => Shows(f, Restore(c), W, o)
    BY <1>1, ShowsOnly
  <2>3. Original(e, c, W, o) => Original(f, c, W, o)
    BY <1>1 DEF Original
  <2>4. QED
    BY <1>1, <1>3, <2>1, <2>2, <2>3 DEF HalfWay, Apart, e, f
<1>4. QED
  BY <1>2, <1>3

\* All of the reply, of which a part was shown.
LEMMA HalfWayBody ==
    ASSUME NEW k \in Nat, NEW s, Well(s, k), FitsIn(s),
           NEW c, c.original \in Texts(k), c.answer \in Answers,
           NEW rep, NEW W, NEW o, HalfWay(s, c, rep, W, o),
           NEW wanted, NEW m \in Merges(s, wanted), m.to.fails = 0,
           wanted <=> (~c.merged /\ (c.mergeAll \/ (Revises(c.answer) /\ rep)))
    PROVE  /\ Len(m.to.emitter.scr) <= TransformCap
           /\ Shows(m.to.emitter,
                    Body(c.answer, c, IF c.merged \/ m.joined THEN m.to.emitter.scr ELSE c.original), W, o)
<1> DEFINE e == s.emitter
           f == m.to.emitter
           region == IF c.merged \/ m.joined THEN f.scr ELSE c.original
<1>1. /\ Well(m.to, k)
      /\ ~wanted => m.to = s /\ ~m.joined
      /\ wanted => \E t \in Rendered(s) :
            /\ Well(t, k) /\ t.fails = 0 /\ t.pending = NoText /\ m.to.pending = NoText
            /\ m.to.emitter = Merged(t.emitter)
            /\ m.to.emitter.settled = t.emitter.settled /\ m.to.emitter.prev = <<>>
            /\ m.to.emitter.scr = t.emitter.prev \o t.emitter.scr
            /\ Of(m.to.emitter.scr) = Of(t.emitter.prev) \cup Of(t.emitter.scr)
            /\ m.joined <=> t.emitter.prev # <<>>
            /\ ~m.joined => m.to = t
  <2>1. Joins(s, wanted, m, k)
    BY MergesWell
  <2>2. QED
    BY <2>1 DEF Joins
<1>2. /\ c.answer \in Answers /\ Of(<<>>) = {} /\ (\A x : Tidy(<<>>, x))
      /\ Tidy(e.settled, o) /\ Tidy(e.prev, o) /\ Apart(e.settled, e.prev)
      /\ Apart(e.settled, e.scr) /\ Apart(e.settled, c.original)
      /\ (c.merged \/ c.mergeAll \/ (SeenToRevise(c.answer) /\ rep)) => e.prev = <<>>
      /\ (c.merged /\ ~c.mergeAll) =>
            /\ c.answer = "revise"
            /\ W \subseteq Of(e.settled) \cup Of(c.original) \cup Of(e.scr)
      /\ ~(c.merged /\ ~c.mergeAll) => Original(e, c, W, o)
  BY NothingIsTidy, AnswersAre DEF HalfWay, Shows
<1>3. Original(e, c, W, o) => Tidy(c.original, o)
  BY PlainIsWhole DEF Original
<1>4. region \in Texts(k)
  BY <1>1, WellIs
<1>5. c.merged \/ m.joined => region = f.scr
  OBVIOUS
<1>6. ~(c.merged \/ m.joined) => region = c.original
  OBVIOUS
<1>7. f = m.to.emitter /\ e = s.emitter
  OBVIOUS
<1> HIDE DEF e, f, region
<1>8. CASE ~wanted
  <2>1. f = e /\ ~m.joined /\ Len(f.scr) <= TransformCap
    BY <1>1, <1>7, <1>8, FitsIs
  <2>2. CASE c.merged
    <3>1. region = e.scr /\ e.prev = <<>>
      BY <1>2, <1>5, <2>1, <2>2
    <3>2. c.answer = "same" => Tidy(c.original, o)
      BY <1>2, <1>3
    <3>3. W \subseteq Of(e.settled) \cup Of(c.original) \cup (IF Revises(c.answer) THEN Of(region) ELSE {})
      <4>1. CASE c.mergeAll
        BY <1>2, <2>2, <4>1 DEF Original
      <4>2. CASE ~c.mergeAll
        BY <1>2, <2>2, <3>1, <4>2, AnswerIs
      <4>3. QED
        BY <4>1, <4>2
    <3>4. Replaces(e, c, region, c.answer, W, o)
      BY <1>2, <3>1, <3>2, <3>3 DEF Replaces, Apart
    <3>5. Shows(e, Body(c.answer, c, region), W, o)
      BY <1>2, <1>4, <3>4, BodyShows
    <3>6. QED
      BY <2>1, <3>5 DEF f, region
  <2>3. CASE ~c.merged
    <3>1. region = c.original /\ ~c.mergeAll /\ Original(e, c, W, o)
      BY <1>2, <1>6, <1>8, <2>1, <2>3
    <3>2. Replaces(e, c, region, c.answer, W, o)
      BY <1>2, <1>3, <3>1 DEF Replaces, Original
    <3>3. Shows(e, Body(c.answer, c, region), W, o)
      BY <1>2, <1>4, <3>2, BodyShows
    <3>4. QED
      BY <2>1, <3>3 DEF f, region
  <2>4. QED
    BY <2>2, <2>3
<1>9. CASE wanted
  <2>1. PICK t \in Rendered(s) :
          /\ Well(t, k) /\ t.fails = 0
          /\ f.settled = t.emitter.settled /\ f.prev = <<>>
          /\ f.scr = t.emitter.prev \o t.emitter.scr
          /\ Of(f.scr) = Of(t.emitter.prev) \cup Of(t.emitter.scr)
          /\ m.joined <=> t.emitter.prev # <<>>
    BY <1>1, <1>9 DEF f
  <2>2. /\ t.emitter.prev = e.prev /\ t.emitter.settled = e.settled
        /\ Len(t.emitter.prev) + Len(t.emitter.scr) <= TransformCap
        /\ Apart(e.settled, t.emitter.scr)
    <3>1. /\ t.emitter.prev = s.emitter.prev /\ t.emitter.settled = s.emitter.settled
          /\ Len(t.emitter.prev) + Len(t.emitter.scr) <= TransformCap
          /\ Apart(s.emitter.settled, t.emitter.scr)
      <4>1. HalfRendered(s, t, k)
        BY <2>1, RendersHalf
      <4>2. QED
        BY <4>1 DEF HalfRendered
    <3>2. QED
      BY <3>1 DEF e
  <2>3. ~c.merged /\ (c.mergeAll \/ Revises(c.answer)) /\ Original(e, c, W, o)
    BY <1>2, <1>9
  <2>4. Len(f.scr) <= TransformCap
    <3> DEFINE a == t.emitter.prev
               b == t.emitter.scr
    <3>1. a \in Texts(k) /\ b \in Texts(k) /\ Len(a) + Len(b) <= TransformCap
      BY <2>1, <2>2, WellIs
    <3> HIDE DEF a, b
    <3>2. PICK x \in Texts(k) :
            /\ x = a \o b /\ Len(x) = Len(a) + Len(b)
            /\ \A i \in 1..Len(x) : \/ i \in 1..Len(a) /\ x[i] = a[i]
                                    \/ i - Len(a) \in 1..Len(b) /\ x[i] = b[i - Len(a)]
            /\ \A i \in 1..Len(a) : i \in 1..Len(x) /\ x[i] = a[i]
            /\ \A i \in 1..Len(b) : Len(a) + i \in 1..Len(x) /\ x[Len(a) + i] = b[i]
      BY <3>1, ConcatIs
    <3>3. QED
      BY <2>1, <3>1, <3>2 DEF a, b
  <2>5. Apart(f.settled, f.scr)
    BY <1>2, <2>1, <2>2 DEF Apart
  <2>6. Apart(f.settled, region)
    BY <1>2, <1>5, <1>6, <2>1, <2>2, <2>5
  <2>7. W \subseteq Of(f.settled) \cup Of(c.original) \cup (IF Revises(c.answer) THEN Of(region) ELSE {})
    <3>1. CASE c.mergeAll
      BY <2>1, <2>2, <2>3, <3>1 DEF Original
    <3>2. CASE ~c.mergeAll
      <4>1. W \subseteq Of(e.settled) \cup Of(e.prev) \cup Of(c.original) /\ Revises(c.answer)
        BY <2>3, <3>2 DEF Original
      <4>2. CASE m.joined
        BY <1>5, <2>1, <2>2, <4>1, <4>2
      <4>3. CASE ~m.joined
        <5>1. Of(e.prev) = {}
          BY <1>2, <2>1, <2>2, <4>3
        <5>2. QED
          BY <2>1, <2>2, <4>1, <5>1
      <4>4. QED
        BY <4>2, <4>3
    <3>3. QED
      BY <3>1, <3>2
  <2>8. Replaces(f, c, region, c.answer, W, o)
    BY <1>2, <1>3, <2>1, <2>2, <2>3, <2>6, <2>7 DEF Replaces, Apart
  <2>9. Shows(f, Body(c.answer, c, region), W, o)
    BY <1>2, <1>4, <2>8, BodyShows
  <2>10. QED
    BY <2>4, <2>9 DEF f, region
<1>10. QED
  BY <1>8, <1>9

-----------------------------------------------------------------------------
(* The invariant: what is shown, or is about to be, is all that is needed. *)

\* W is what must be on the screen, o what is owed.
Sound(s, sp, k, ps, c, rep, W, o) ==
    /\ sp => Listening(s, k, ps, W, o)
    /\ (~sp /\ c = NoTransform) => ToShow(s, k, W, o)
    /\ (c # NoTransform /\ c.typed) => HalfWay(s, c, rep, W, o)
    /\ (c # NoTransform /\ ~c.typed) => Untouched(s, c, W, o)

Needed == (owed \cup stranded) \ excused

LoopInv ==
    /\ loop = "on" => ~cut
    /\ loop # "on" => ~speaking
    /\ (loop = "on" /\ ~speaking) => parts = <<>>
CoolInv == fails = 0 => ~emitter.frozen
ShownInv ==
    (fails = 0 /\ ~cut) => Sound(Typist, speaking, now, parts, transform, replied, Needed, owed)
SoundInv == LoopInv /\ CoolInv /\ ShownInv

\* While nothing went wrong, a rewrite of both regions is within the cap.
Fits == (fails = 0 /\ ~cut) => FitsIn(Typist)

LEMMA SoundHere ==
    ASSUME OutputInv, SoundInv
    PROVE  /\ Well(Typist, now) /\ now \in Nat
           /\ Typist.emitter = emitter /\ Typist.pending = pending /\ Typist.fails = fails
           /\ speaking \in BOOLEAN /\ (speaking => now # 0)
           /\ transform # NoTransform => ~speaking
           /\ TransformOK(transform, now)
           /\ (fails = 0 /\ ~cut) => Sound(Typist, speaking, now, parts, transform, replied, Needed, owed)
<1>1. Typist.emitter = emitter /\ Typist.pending = pending /\ Typist.fails = fails
  BY DEF Typist
<1>2. TypistOK(Typist, now) /\ now \in Nat /\ speaking \in BOOLEAN /\ (speaking => now # 0)
      /\ (transform # NoTransform => ~speaking) /\ TransformOK(transform, now)
  BY Here
<1>3. Well(Typist, now)
  BY <1>1, <1>2 DEF Well, SoundInv, CoolInv
<1>4. QED
  BY <1>1, <1>2, <1>3 DEF SoundInv, ShownInv

LEMMA SoundKept ==
    ASSUME NEW k \in Nat, NEW s, Well(s, k), Goes(s), LoopInv',
           (s.fails = 0 /\ ~cut') =>
              Sound(s, speaking', now', parts', transform', replied', Needed', owed')
    PROVE  SoundInv'
<1>1. s = [emitter |-> s.emitter, pending |-> s.pending, fails |-> s.fails]
  BY DEF Well, TypistOK
<1>2. Typist' = s /\ emitter' = s.emitter /\ fails' = s.fails
  BY <1>1 DEF Goes, Typist
<1>3. CoolInv'
  BY <1>2 DEF CoolInv, Well
<1>4. ShownInv'
  BY <1>2 DEF ShownInv
<1>5. QED
  BY <1>3, <1>4 DEF SoundInv

\* What cancel_pending leaves is to be shown.
LEMMA CancelledShows ==
    ASSUME NEW k \in Nat, NEW s, Well(s, k), NEW c, TransformOK(c, k), NEW rep, NEW W, NEW o
    PROVE  /\ Well(Cancelled(s, c), k)
           /\ Cancelled(s, c).emitter = s.emitter /\ Cancelled(s, c).fails = s.fails
           /\ c = NoTransform => Cancelled(s, c) = s
           /\ (c # NoTransform /\ ~c.typed /\ Untouched(s, c, W, o)) => ToShow(Cancelled(s, c), k, W, o)
           /\ (c # NoTransform /\ c.typed /\ HalfWay(s, c, rep, W, o)) => ToShow(Cancelled(s, c), k, W, o)
<1> DEFINE r == Cancelled(s, c)
           t == Restored(s, c)
<1>1. TypistOK(s, k) /\ TypistOK(r, k)
  BY CancelledOK DEF Well
<1>2. t.pending = [text |-> Restore(c), cap |-> TransformCap] /\ t.emitter = s.emitter /\ t.fails = s.fails
  BY <1>1 DEF Restored, Published, TypistOK
<1>3. /\ (c.state = "stream" /\ c.typed) => r = t
      /\ ~(c.state = "stream" /\ c.typed) => r = s
  BY DEF Cancelled
<1>4. c = NoTransform => r = s
  <2>1. NoTransform.state # "stream"
    BY DEF NoTransform
  <2>2. QED
    BY <1>3, <2>1
<1> HIDE DEF r, t
<1>5. r.emitter = s.emitter /\ r.fails = s.fails
  BY <1>2, <1>3
<1>6. Well(r, k)
  BY <1>1, <1>5 DEF Well
<1>7. (c # NoTransform /\ ~c.typed /\ Untouched(s, c, W, o)) => ToShow(r, k, W, o)
  BY <1>3 DEF Untouched, ToShow, Caught
<1>8. (c # NoTransform /\ c.typed /\ HalfWay(s, c, rep, W, o)) => ToShow(r, k, W, o)
  <2> SUFFICES ASSUME c # NoTransform, c.typed, HalfWay(s, c, rep, W, o) PROVE ToShow(r, k, W, o)
    OBVIOUS
  <2>1. c.state = "stream" /\ Shows(s.emitter, Restore(c), W, o)
    BY DEF HalfWay
  <2>2. r = t
    BY <1>3, <2>1
  <2>3. c.original # <<>>
    BY DEF TransformOK
  <2>4. Restore(c) # <<>>
    BY <2>3 DEF Restore
  <2>5. r.pending # NoText /\ r.pending.cap = TransformCap /\ r.pending.text = Restore(c)
    BY <1>2, <2>2, <2>4, NoTextIs
  <2>6. QED
    BY <1>5, <2>1, <2>5 DEF ToShow, PutBack
<1>9. QED
  BY <1>4, <1>5, <1>6, <1>7, <1>8 DEF r

\* Steps that do not touch the text.
LEMMA NothingTouched ==
    ASSUME OutputInv, SoundInv, UNCHANGED <<typing, utterance>>,
           UNCHANGED <<transform, replied, owed, stranded, excused, cut>>, LoopInv'
    PROVE  SoundInv'
<1>1. Typist' = Typist /\ Needed' = Needed
  BY DEF Typist, typing, Needed
<1>2. CoolInv'
  BY DEF SoundInv, CoolInv, typing
<1>3. ShownInv'
  BY <1>1 DEF SoundInv, ShownInv, typing, utterance
<1>4. QED
  BY <1>2, <1>3 DEF SoundInv

LEMMA ThreadSound ==
    ASSUME OutputInv, SoundInv, Prefetches \/ Transforms \/ Answered
    PROVE  SoundInv'
<1>1. /\ UNCHANGED <<typing, utterance>> /\ UNCHANGED <<transform, replied, owed, stranded, excused, cut>>
      /\ UNCHANGED loop
  BY DEF Prefetches, Transforms, Answered
<1>2. LoopInv'
  BY <1>1 DEF SoundInv, LoopInv, utterance
<1>3. QED
  BY <1>1, <1>2, NothingTouched

LEMMA FailsSound ==
    ASSUME OutputInv, SoundInv, Fails
    PROVE  SoundInv'
<1> DEFINE r == Cancelled(Typist, transform)
<1>1. /\ Goes(r) /\ transform' = NoTransform /\ transform.state # "none"
      /\ UNCHANGED <<speaking, now, parts, loop, replied, owed, stranded, excused, cut>>
  BY DEF Fails, utterance
<1>2. /\ Well(Typist, now) /\ now \in Nat /\ Typist.fails = fails /\ transform # NoTransform /\ ~speaking
      /\ TransformOK(transform, now)
      /\ (fails = 0 /\ ~cut) => Sound(Typist, speaking, now, parts, transform, replied, Needed, owed)
  BY <1>1, SoundHere, Here
<1>3. /\ Well(r, now) /\ r.fails = fails
      /\ (transform # NoTransform /\ ~transform.typed /\ Untouched(Typist, transform, Needed, owed))
            => ToShow(r, now, Needed, owed)
      /\ (transform # NoTransform /\ transform.typed /\ HalfWay(Typist, transform, replied, Needed, owed))
            => ToShow(r, now, Needed, owed)
  BY <1>2, CancelledShows
<1> HIDE DEF r
<1>4. (r.fails = 0 /\ ~cut') => ToShow(r, now, Needed, owed)
  BY <1>1, <1>2, <1>3 DEF Sound
<1>5. Needed' = Needed
  BY <1>1 DEF Needed
<1>6. (r.fails = 0 /\ ~cut') => Sound(r, speaking', now', parts', transform', replied', Needed', owed')
  BY <1>1, <1>2, <1>4, <1>5 DEF Sound
<1>7. LoopInv'
  BY <1>1 DEF SoundInv, LoopInv
<1>8. QED
  BY <1>1, <1>2, <1>3, <1>6, <1>7, SoundKept

LEMMA RenderSound ==
    ASSUME OutputInv, SoundInv, Fits, Render
    PROVE  SoundInv'
<1>1. PICK r \in Rendered(Typist) : Goes(r)
  BY DEF Render
<1>2. /\ pending # NoText
      /\ UNCHANGED <<speaking, now, parts, transform, loop, replied, owed, stranded, excused, cut>>
  BY DEF Render, utterance
<1>3. /\ Well(Typist, now) /\ now \in Nat /\ Typist.fails = fails /\ Typist.pending # NoText
      /\ (fails = 0 /\ ~cut) => Sound(Typist, speaking, now, parts, transform, replied, Needed, owed)
      /\ transform # NoTransform => ~speaking
  BY <1>2, SoundHere
<1>4. Well(r, now) /\ (r.fails = 0 => Typist.fails = 0) /\ r.pending = NoText
      /\ (r.fails = 0 => r.emitter.prev = Typist.emitter.prev /\ r.emitter.settled = Typist.emitter.settled)
  BY <1>3, RenderedWell
<1>5. Needed' = Needed
  BY <1>2 DEF Needed
<1>6. ASSUME r.fails = 0, ~cut'
      PROVE  Sound(r, speaking, now, parts, transform, replied, Needed, owed)
  <2>1. Sound(Typist, speaking, now, parts, transform, replied, Needed, owed) /\ FitsIn(Typist)
    BY <1>2, <1>3, <1>4, <1>6 DEF Fits
  <2>2. speaking => Listening(r, now, parts, Needed, owed)
    <3> SUFFICES ASSUME speaking PROVE Listening(r, now, parts, Needed, owed)
      OBVIOUS
    <3>1. Listening(Typist, now, parts, Needed, owed)
      BY <2>1 DEF Sound
    <3>2. Heard(Typist.emitter.scr, now) /\ Hears(Typist.pending, now) /\ Shows(Typist.emitter, <<>>, Needed, owed)
      BY <3>1 DEF Listening
    <3>3. Heard(r.emitter.scr, now)
      BY <1>3, <1>6, <3>2, HeardRendered
    <3>4. Shows(r.emitter, <<>>, Needed, owed)
      BY <1>4, <1>6, <3>2, ShowsOnly
    <3>5. QED
      BY <1>4, <1>6, <3>1, <3>3, <3>4 DEF Listening, Hears
  <2>3. (~speaking /\ transform = NoTransform) => ToShow(r, now, Needed, owed)
    <3> SUFFICES ASSUME ~speaking, transform = NoTransform PROVE ToShow(r, now, Needed, owed)
      OBVIOUS
    <3>1. ToShow(Typist, now, Needed, owed)
      BY <2>1 DEF Sound
    <3>2. Len(Typist.emitter.scr) <= TransformCap
      BY <1>3, <2>1, FitsIs
    <3>3. Shows(r.emitter, r.emitter.scr, Needed, owed)
      BY <1>3, <1>6, <3>1, <3>2, RendersToShow
    <3>4. QED
      BY <1>4, <3>3 DEF ToShow, Caught
  <2>4. (transform # NoTransform /\ transform.typed) => HalfWay(r, transform, replied, Needed, owed)
    <3> SUFFICES ASSUME transform # NoTransform, transform.typed
                 PROVE  HalfWay(r, transform, replied, Needed, owed)
      OBVIOUS
    <3>1. HalfWay(Typist, transform, replied, Needed, owed)
      BY <2>1 DEF Sound
    <3>2. QED
      BY <1>3, <1>6, <2>1, <3>1, HalfWayRendered
  <2>5. ~(transform # NoTransform /\ ~transform.typed)
    BY <1>3, <2>1 DEF Sound, Untouched
  <2>6. QED
    BY <2>2, <2>3, <2>4, <2>5 DEF Sound
<1>7. LoopInv'
  BY <1>2 DEF SoundInv, LoopInv
<1>8. (r.fails = 0 /\ ~cut') => Sound(r, speaking', now', parts', transform', replied', Needed', owed')
  BY <1>2, <1>5, <1>6
<1>9. QED
  BY <1>1, <1>3, <1>4, <1>7, <1>8, SoundKept

LEMMA CloseSound ==
    ASSUME OutputInv, SoundInv, Close
    PROVE  SoundInv'
<1>1. /\ loop = "closing" /\ loop' = "closed" /\ pending' = NoText /\ cut' = (cut \/ pending # NoText)
      /\ UNCHANGED <<emitter, fails, speaking, now, parts, transform, replied, owed, stranded, excused>>
  BY DEF Close, utterance
<1>2. LoopInv'
  BY <1>1 DEF SoundInv, LoopInv
<1>3. CoolInv'
  BY <1>1 DEF SoundInv, CoolInv
<1>4. ShownInv'
  <2>1. CASE pending = NoText
    <3>1. Typist' = Typist /\ Needed' = Needed
      BY <1>1, <2>1 DEF Typist, Needed
    <3>2. QED
      BY <1>1, <2>1, <3>1 DEF SoundInv, ShownInv
  <2>2. CASE pending # NoText
    BY <1>1, <2>2 DEF ShownInv
  <2>3. QED
    BY <2>1, <2>2
<1>5. QED
  BY <1>2, <1>3, <1>4 DEF SoundInv

LEMMA StopsSound ==
    ASSUME OutputInv, SoundInv, loop = "on", ~speaking, loop' = "draining",
           UNCHANGED <<mode, typing, utterance, llm, transform, replied, owed, stranded, excused, cut>>
    PROVE  SoundInv'
<1>1. LoopInv'
  BY DEF SoundInv, LoopInv, utterance
<1>2. UNCHANGED <<typing, utterance>> /\ UNCHANGED <<transform, replied, owed, stranded, excused, cut>>
  OBVIOUS
<1>3. QED
  BY <1>1, <1>2, NothingTouched

\* What publishing a text leaves.
IsPublished(r, s, text, cap, k) ==
    /\ Well(r, k) /\ r.emitter = s.emitter /\ r.fails = s.fails
    /\ r.pending.text = text /\ r.pending.cap = cap
    /\ text # <<>> => r.pending # NoText

LEMMA PublishedIs ==
    ASSUME NEW k \in Nat, NEW s, Well(s, k), NEW text \in Texts(k), NEW cap \in {0, LiveCap, TransformCap}
    PROVE  IsPublished(Published(s, text, cap), s, text, cap, k)
<1> DEFINE r == Published(s, text, cap)
<1>1. TypistOK(s, k) /\ TypistOK(r, k)
  BY PublishedOK DEF Well
<1>2. r.emitter = s.emitter /\ r.fails = s.fails /\ r.pending = [text |-> text, cap |-> cap]
  BY <1>1 DEF Published, TypistOK
<1> HIDE DEF r
<1>3. Well(r, k)
  BY <1>1, <1>2 DEF Well
<1>4. r.pending.text = text /\ r.pending.cap = cap
  BY <1>2
<1>5. text # <<>> => r.pending # NoText
  BY <1>4, NoTextIs
<1>6. IsPublished(r, s, text, cap, k)
  BY <1>2, <1>3, <1>4, <1>5 DEF IsPublished
<1>7. QED
  BY <1>6 DEF r

LEMMA HypothesisHeard ==
    ASSUME NEW k \in Nat, k # 0, NEW text \in Hypotheses(k)
    PROVE  text \in Texts(k) /\ Heard(text, k) /\ text # <<>>
<1>1. text \in Texts(k)
  BY HypothesisIs
<1>2. PICK u : text = <<u>> /\ u \in {Token({k}, "word"), Token({k}, "misheard")}
  BY DEF Hypotheses
<1>3. Len(<<u>>) = 1 /\ <<u>>[1] = u /\ <<u>> # <<>>
  OBVIOUS
<1>4. Heard(<<u>>, k) /\ <<u>> # <<>>
  BY <1>2, <1>3 DEF Heard
<1>5. QED
  BY <1>1, <1>2, <1>4

LEMMA HypothesisSound ==
    ASSUME OutputInv, SoundInv, Hypothesis
    PROVE  SoundInv'
<1>1. PICK text \in Hypotheses(now) : Goes(Published(Typist, text, LiveCap))
  BY DEF Hypothesis
<1>2. /\ speaking /\ UNCHANGED <<speaking, now, parts, transform, loop, replied, owed, stranded, excused, cut>>
  BY DEF Hypothesis, utterance
<1> DEFINE r == Published(Typist, text, LiveCap)
<1>3. /\ Well(Typist, now) /\ now \in Nat /\ now # 0 /\ Typist.fails = fails /\ transform = NoTransform
      /\ (fails = 0 /\ ~cut) => Sound(Typist, speaking, now, parts, transform, replied, Needed, owed)
  BY <1>2, SoundHere
<1>4. text \in Texts(now) /\ Heard(text, now) /\ text # <<>>
  BY <1>3, HypothesisHeard
<1>5. /\ Well(r, now) /\ r.emitter = Typist.emitter /\ r.fails = Typist.fails
      /\ r.pending.text = text
  <2>1. now \in Nat /\ Well(Typist, now) /\ text \in Texts(now)
    BY <1>3, <1>4
  <2>2. IsPublished(Published(Typist, text, LiveCap), Typist, text, LiveCap, now)
    BY <2>1, PublishedIs
  <2>3. QED
    BY <2>2 DEF IsPublished
<1>6. Goes(r)
  BY <1>1
<1> HIDE DEF r
<1>7. (r.fails = 0 /\ ~cut) => Listening(r, now, parts, Needed, owed)
  BY <1>2, <1>3, <1>4, <1>5 DEF Sound, Listening, Hears
<1>8. Needed' = Needed
  BY <1>2 DEF Needed
<1>9. (r.fails = 0 /\ ~cut') => Sound(r, speaking', now', parts', transform', replied', Needed', owed')
  BY <1>2, <1>3, <1>7, <1>8 DEF Sound
<1>10. LoopInv'
  BY <1>2 DEF SoundInv, LoopInv
<1>11. QED
  BY <1>3, <1>5, <1>6, <1>9, <1>10, SoundKept

\* A new region is begun: r, of t, which s left.
NewRegion(r, t, s, k, carry) ==
    /\ Well(r, k + 1) /\ r.pending = NoText /\ r.fails = t.fails
    /\ \A W, o : (r.fails = 0 /\ Shows(t.emitter, t.emitter.scr, W, o)) =>
          /\ Listening(r, k + 1, <<>>, W, o)
          /\ carry => r.emitter.settled = s.emitter.settled

LEMMA AdvancedListens ==
    ASSUME NEW k \in Nat, NEW s, Well(s, k), NEW carry \in BOOLEAN, NEW t \in Rendered(s),
           NEW r, r = [t EXCEPT !.emitter = Begun(t.emitter, carry)]
    PROVE  NewRegion(r, t, s, k, carry)
<1> DEFINE none == <<>>
<1>1. Well(t, k) /\ t.pending = NoText /\ (t.fails = 0 => t.emitter.settled = s.emitter.settled)
  BY RenderedWell
<1>2. Well(r, k) /\ r.emitter = Begun(t.emitter, carry) /\ r.pending = t.pending /\ r.fails = t.fails
  BY <1>1, BegunWell
<1>3. Well(r, k + 1)
  <2>1. k + 1 \in Nat /\ k <= k + 1
    OBVIOUS
  <2>2. TypistOK(r, k + 1)
    BY <1>2, <2>1, TypistGrows DEF Well
  <2>3. QED
    BY <1>2, <2>2 DEF Well
<1>4. k + 1 \notin 1..k
  OBVIOUS
<1>5. k + 1 \notin Of(r.emitter.settled) /\ k + 1 \notin Of(r.emitter.prev)
  BY <1>2, <1>4, WellIs
<1>6. Neat(none) /\ Plain(none) /\ Of(none) = {} /\ Len(none) = 0 /\ none = <<>>
  BY NothingIsTidy DEF Tidy
<1> HIDE DEF none
<1>7. ASSUME NEW W, NEW o, r.fails = 0, Shows(t.emitter, t.emitter.scr, W, o)
      PROVE  Listening(r, k + 1, none, W, o) /\ (carry => r.emitter.settled = s.emitter.settled)
  <2>1. EmitterOK(t.emitter, Vocabulary(k)) /\ ~t.emitter.frozen
    BY <1>1, <1>2, <1>7, WellIs
  <2>2. /\ Shows(Begun(t.emitter, carry), <<>>, W, o) /\ Begun(t.emitter, carry).scr = <<>>
        /\ carry => Begun(t.emitter, carry).settled = t.emitter.settled
    BY <1>7, <2>1, ShowsBegun
  <2>3. Shows(r.emitter, none, W, o) /\ r.emitter.scr = none
    BY <1>2, <1>6, <2>2
  <2>4. Heard(r.emitter.scr, k + 1)
    BY <1>6, <2>3 DEF Heard
  <2>5. Hears(r.pending, k + 1)
    BY <1>1, <1>2 DEF Hears
  <2>6. Listening(r, k + 1, none, W, o)
    BY <1>5, <1>6, <2>3, <2>4, <2>5 DEF Listening, Apart
  <2>7. QED
    BY <1>1, <1>2, <1>7, <2>2, <2>6
<1>8. QED
  BY <1>1, <1>2, <1>3, <1>6, <1>7 DEF NewRegion

LEMMA StartUtteranceSound ==
    ASSUME OutputInv, SoundInv, Fits, StartUtterance
    PROVE  SoundInv'
<1> DEFINE r == Cancelled(Typist, transform)
<1>1. PICK s : Goes(s) /\ \E t \in Rendered(r) : s = [t EXCEPT !.emitter = Begun(t.emitter, FALSE)]
  BY DEF StartUtterance, CancelledThenAdvanced, Calls, Fresh
<1>2. PICK t \in Rendered(r) : s = [t EXCEPT !.emitter = Begun(t.emitter, FALSE)]
  BY <1>1
<1>3. /\ ~speaking /\ speaking' = TRUE /\ now' = now + 1 /\ loop = "on" /\ loop' = "on"
      /\ transform' = NoTransform
      /\ UNCHANGED <<parts, replied, owed, stranded, excused, cut>>
  BY DEF StartUtterance, Dropped
<1>4. parts = <<>>
  BY <1>3 DEF SoundInv, LoopInv
<1>5. /\ Well(Typist, now) /\ now \in Nat /\ Typist.fails = fails /\ TransformOK(transform, now)
      /\ (fails = 0 /\ ~cut) => Sound(Typist, speaking, now, parts, transform, replied, Needed, owed)
  BY SoundHere
<1>6. /\ Well(r, now) /\ r.fails = Typist.fails /\ r.emitter = Typist.emitter
      /\ transform = NoTransform => r = Typist
      /\ (transform # NoTransform /\ ~transform.typed /\ Untouched(Typist, transform, Needed, owed))
            => ToShow(r, now, Needed, owed)
      /\ (transform # NoTransform /\ transform.typed /\ HalfWay(Typist, transform, replied, Needed, owed))
            => ToShow(r, now, Needed, owed)
  BY <1>5, CancelledShows
<1> HIDE DEF r
<1>7. (r.fails = 0 /\ ~cut) => ToShow(r, now, Needed, owed)
  BY <1>3, <1>5, <1>6 DEF Sound
<1>8. (r.fails = 0 /\ ~cut) => Len(r.emitter.scr) <= TransformCap
  <2> SUFFICES ASSUME r.fails = 0, ~cut PROVE Len(r.emitter.scr) <= TransformCap
    OBVIOUS
  <2>1. FitsIn(Typist)
    BY <1>5, <1>6 DEF Fits
  <2>2. Len(Typist.emitter.scr) <= TransformCap
    BY <1>5, <2>1, FitsIs
  <2>3. QED
    BY <1>6, <2>2
<1>9. t.fails = 0 => r.fails = 0
  BY <1>5, <1>6, RenderedWell
<1>10. (t.fails = 0 /\ ~cut) => Shows(t.emitter, t.emitter.scr, Needed, owed)
  <2> SUFFICES ASSUME t.fails = 0, ~cut PROVE Shows(t.emitter, t.emitter.scr, Needed, owed)
    OBVIOUS
  <2>1. ToShow(r, now, Needed, owed) /\ Len(r.emitter.scr) <= TransformCap
    BY <1>7, <1>8, <1>9
  <2>2. QED
    BY <1>5, <1>6, <2>1, RendersToShow
<1>11. /\ Well(s, now + 1) /\ s.fails = t.fails
       /\ \A W, o : (s.fails = 0 /\ Shows(t.emitter, t.emitter.scr, W, o)) =>
             Listening(s, now + 1, <<>>, W, o)
  <2>1. FALSE \in BOOLEAN
    OBVIOUS
  <2>2. QED
    <3>1. NewRegion(s, t, r, now, FALSE)
      BY <1>2, <1>5, <1>6, <2>1, AdvancedListens
    <3>2. QED
      BY <3>1 DEF NewRegion
<1>12. (s.fails = 0 /\ ~cut') => Listening(s, now', parts', Needed, owed)
  BY <1>3, <1>4, <1>10, <1>11
<1>13. Needed' = Needed
  BY <1>3 DEF Needed
<1>14. (s.fails = 0 /\ ~cut') => Sound(s, speaking', now', parts', transform', replied', Needed', owed')
  BY <1>3, <1>12, <1>13 DEF Sound
<1>15. LoopInv'
  BY <1>3 DEF SoundInv, LoopInv
<1>16. QED
  <2>1. now' \in Nat /\ Well(s, now')
    BY <1>3, <1>5, <1>11
  <2>2. QED
    BY <1>1, <1>14, <1>15, <2>1, SoundKept

-----------------------------------------------------------------------------
(* The end of an utterance.                                                *)

\* What finalize() leaves of an open utterance.
EndsWell(f) ==
    /\ Well(f.to, now)
    /\ f.to.fails = 0 =>
          /\ fails = 0 /\ ~cut /\ Ended(f, now)
          /\ f.to.emitter.prev = emitter.prev /\ f.to.emitter.settled = emitter.settled
          /\ Shows(f.to.emitter, <<>>, Needed, owed)
          /\ now \notin Of(f.to.emitter.settled) /\ now \notin Of(f.to.emitter.prev)
          /\ Neat(parts) /\ Plain(parts) /\ now \notin Of(parts) /\ Apart(f.to.emitter.settled, parts)
          /\ \A V, p : (V \subseteq Needed \cup Of(f.final) \cup f.left /\ p \subseteq owed \cup {now})
                          => Caught(f.to, now, V, p)

LEMMA UtteranceEndsWell ==
    ASSUME OutputInv, SoundInv, speaking, NEW f \in Finalized
    PROVE  EndsWell(f)
<1>1. /\ Well(Typist, now) /\ now \in Nat /\ now # 0
      /\ Typist.emitter = emitter /\ Typist.pending = pending /\ Typist.fails = fails
      /\ (fails = 0 /\ ~cut) => Sound(Typist, speaking, now, parts, transform, replied, Needed, owed)
      /\ ~cut
  BY SoundHere DEF SoundInv, LoopInv
<1>2. Final(now) \in Texts(now) /\ <<>> \in Texts(now)
  BY <1>1, FinalIs, NothingIsText
<1>3. Well(f.to, now) /\ (f.to.fails = 0 => fails = 0)
  <2>1. ASSUME NEW text \in Texts(now), NEW s \in Syncs(Typist, text)
        PROVE  Well(s, now) /\ (s.fails = 0 => fails = 0)
    <3>1. s \in Typed(Typist, text, LiveCap) /\ LiveCap \in Nat
      BY <2>1, OutputAssumption DEF Syncs
    <3>2. QED
      BY <1>1, <3>1, TypedWell
  <2>2. f.to \in Syncs(Typist, Final(now)) \/ f.to \in Syncs(Typist, <<>>) \/ f.to = Typist
    BY DEF Finalized
  <2>3. QED
    BY <1>1, <1>2, <2>1, <2>2
<1>4. ASSUME f.to.fails = 0
      PROVE  /\ fails = 0 /\ ~cut /\ Ended(f, now)
             /\ f.to.emitter.prev = emitter.prev /\ f.to.emitter.settled = emitter.settled
             /\ Listening(Typist, now, parts, Needed, owed)
  <2>1. fails = 0 /\ Listening(Typist, now, parts, Needed, owed)
    BY <1>1, <1>3, <1>4 DEF Sound
  <2>2. Heard(emitter.scr, now) /\ Hears(pending, now)
    BY <1>1, <2>1 DEF Listening
  <2>3. QED
    BY <1>1, <1>4, <2>1, <2>2, FinalizedEnds
<1>5. ASSUME f.to.fails = 0
      PROVE  /\ Shows(f.to.emitter, <<>>, Needed, owed)
             /\ now \notin Of(f.to.emitter.settled) /\ now \notin Of(f.to.emitter.prev)
             /\ Neat(parts) /\ Plain(parts) /\ now \notin Of(parts) /\ Apart(f.to.emitter.settled, parts)
  <2>1. /\ f.to.emitter.prev = emitter.prev /\ f.to.emitter.settled = emitter.settled
        /\ Listening(Typist, now, parts, Needed, owed)
    BY <1>4, <1>5
  <2>2. Shows(emitter, <<>>, Needed, owed)
    BY <1>1, <2>1 DEF Listening
  <2>3. Shows(f.to.emitter, <<>>, Needed, owed)
    BY <2>1, <2>2, ShowsOnly
  <2>4. QED
    BY <1>1, <2>1, <2>3 DEF Listening
<1>6. ASSUME f.to.fails = 0, NEW V, NEW p, V \subseteq Needed \cup Of(f.final) \cup f.left,
             p \subseteq owed \cup {now}
      PROVE  Caught(f.to, now, V, p)
  BY <1>1, <1>4, <1>5, <1>6, EndedShows
<1>7. QED
  BY <1>3, <1>4, <1>5, <1>6 DEF EndsWell

\* The parts of a chain.
LEMMA PartsGrow ==
    ASSUME NEW k \in Nat, k # 0, NEW ps \in Texts(k), Neat(ps), Plain(ps), k \notin Of(ps),
           NEW final, final = <<>> \/ final = Final(k)
    PROVE  /\ ps \o final \in Texts(k) /\ Neat(ps \o final) /\ Plain(ps \o final)
           /\ Of(ps \o final) = Of(ps) \cup Of(final) /\ Of(final) \subseteq {k}
           /\ final # <<>> => ps \o final # <<>> /\ Of(final) = {k}
<1>1. /\ final \in Texts(k) /\ Neat(final) /\ Plain(final) /\ Of(final) \subseteq {k}
      /\ final # <<>> => Of(final) = {k}
  <2>1. CASE final = <<>>
    BY <2>1, NothingIsTidy, NothingIsText DEF Tidy
  <2>2. CASE final = Final(k)
    <3>1. final \in Texts(k) /\ Spoken(final, k)
      BY <2>2, FinalIs, FinalIsSpoken
    <3>2. QED
      BY <3>1, SpokenIs
  <2>3. QED
    BY <2>1, <2>2
<1>2. Tidy(ps, {}) /\ Tidy(final, {}) /\ Apart(ps, final)
  BY <1>1, PlainIsWhole DEF Apart
<1>3. Tidy(ps \o final, {}) /\ Plain(ps \o final)
  BY <1>1, <1>2, TidyConcat
<1>4. ps \o final \in Texts(k) /\ Of(ps \o final) = Of(ps) \cup Of(final)
      /\ (final # <<>> \/ ps # <<>> => ps \o final # <<>>)
  BY <1>1, OfConcat
<1>5. QED
  BY <1>1, <1>3, <1>4 DEF Tidy

LEMMA RolloverSound ==
    ASSUME OutputInv, SoundInv, Rollover
    PROVE  SoundInv'
<1>1. PICK f \in Finalized :
        /\ \E s \in Calls(f.to, Carried) : Goes(s)
        /\ parts' = parts \o f.final /\ owed' = owed \cup Of(f.final) /\ stranded' = stranded \cup f.left
  BY DEF Rollover
<1>2. /\ speaking /\ speaking' = speaking /\ now' = now + 1 /\ loop = "on" /\ loop' = loop
      /\ UNCHANGED <<transform, replied, excused, cut>>
  BY DEF Rollover
<1>3. PICK s : Goes(s) /\ \E t \in Rendered(f.to) : s = [t EXCEPT !.emitter = Begun(t.emitter, TRUE)]
  BY <1>1 DEF Calls, Carried
<1>4. PICK t \in Rendered(f.to) : s = [t EXCEPT !.emitter = Begun(t.emitter, TRUE)]
  BY <1>3
<1>5. /\ now \in Nat /\ now # 0 /\ transform = NoTransform /\ parts \in Texts(now)
      /\ speaking \in BOOLEAN
  BY <1>2, Here
<1>6. EndsWell(f)
  BY <1>2, UtteranceEndsWell
<1>7. Well(f.to, now)
  BY <1>6 DEF EndsWell
<1>8. NewRegion(s, t, f.to, now, TRUE)
  <2>1. TRUE \in BOOLEAN
    OBVIOUS
  <2>2. QED
    BY <1>4, <1>5, <1>7, <2>1, AdvancedListens
<1>9. ASSUME s.fails = 0
      PROVE  Listening(s, now + 1, parts', Needed', owed')
  <2>1. t.fails = 0
    BY <1>8, <1>9 DEF NewRegion
  <2>2. f.to.fails = 0
    BY <1>5, <1>7, <2>1, RenderedWell
  <2>3. /\ Ended(f, now) /\ Neat(parts) /\ Plain(parts) /\ now \notin Of(parts)
        /\ now \notin Of(f.to.emitter.settled) /\ Apart(f.to.emitter.settled, parts)
        /\ \A V, p : (V \subseteq Needed \cup Of(f.final) \cup f.left /\ p \subseteq owed \cup {now})
                        => Caught(f.to, now, V, p)
    BY <1>6, <2>2 DEF EndsWell
  <2>4. f.final = <<>> \/ f.final = Final(now)
    BY <2>2, <2>3 DEF Ended
  <2>5. /\ parts' \in Texts(now) /\ Neat(parts') /\ Plain(parts')
        /\ Of(parts') = Of(parts) \cup Of(f.final) /\ Of(f.final) \subseteq {now}
    BY <1>1, <1>5, <2>3, <2>4, PartsGrow
  <2>6. Needed' \subseteq Needed \cup Of(f.final) \cup f.left /\ owed' \subseteq owed \cup {now}
    BY <1>1, <1>2, <2>5 DEF Needed
  <2>7. Caught(f.to, now, Needed', owed')
    BY <2>3, <2>6
  <2>8. Shows(t.emitter, t.emitter.scr, Needed', owed')
    BY <1>5, <1>7, <2>1, <2>7, RendersCaught
  <2>9. Listening(s, now + 1, <<>>, Needed', owed') /\ s.emitter.settled = f.to.emitter.settled
    BY <1>8, <1>9, <2>8 DEF NewRegion
  <2>10. Of(parts') \subseteq 1..now /\ now + 1 \notin 1..now
    BY <1>5, <2>5, OfIs
  <2>11. Apart(s.emitter.settled, parts')
    BY <2>3, <2>5, <2>9 DEF Apart
  <2>12. QED
    BY <2>5, <2>9, <2>10, <2>11 DEF Listening
<1>10. (s.fails = 0 /\ ~cut') => Sound(s, speaking', now', parts', transform', replied', Needed', owed')
  BY <1>2, <1>5, <1>9 DEF Sound
<1>11. LoopInv'
  BY <1>2 DEF SoundInv, LoopInv
<1>12. QED
  <2>1. now' \in Nat /\ Well(s, now')
    BY <1>2, <1>5, <1>8 DEF NewRegion
  <2>2. QED
    BY <1>3, <1>10, <1>11, <2>1, SoundKept

LEMMA DiesSound ==
    ASSUME OutputInv, SoundInv, Dies
    PROVE  SoundInv'
<1>1. /\ loop = "on" /\ loop' = "closing" /\ speaking' = FALSE /\ transform' = NoTransform
      /\ cut' = (transform # NoTransform /\ transform.typed)
      /\ UNCHANGED <<now, parts, replied, owed, stranded, excused>>
  BY DEF Dies
<1>2. /\ Well(Typist, now) /\ now \in Nat
      /\ Typist.fails = fails /\ TransformOK(transform, now) /\ ~cut
      /\ (fails = 0 /\ ~cut) => Sound(Typist, speaking, now, parts, transform, replied, Needed, owed)
  BY <1>1, SoundHere DEF SoundInv, LoopInv
<1>3. Needed' = Needed
  BY <1>1 DEF Needed
<1>4. LoopInv'
  BY <1>1 DEF LoopInv
<1>5. CASE speaking
  <2>1. PICK f \in Finalized : Goes(f.to)
    BY <1>5 DEF Dies
  <2>2. EndsWell(f)
    BY <1>5, UtteranceEndsWell
  <2>3. f.to.fails = 0 => Caught(f.to, now, Needed, owed)
    BY <2>2 DEF EndsWell
  <2>4. (f.to.fails = 0 /\ ~cut') =>
           Sound(f.to, speaking', now', parts', transform', replied', Needed', owed')
    BY <1>1, <1>3, <2>3 DEF Sound, ToShow
  <2>5. now \in Nat /\ Well(f.to, now)
    BY <2>2, SoundHere DEF EndsWell
  <2>6. QED
    BY <1>4, <2>1, <2>4, <2>5, SoundKept
<1>6. CASE ~speaking
  <2>1. Goes(Typist)
    BY <1>6 DEF Dies
  <2>2. (Typist.fails = 0 /\ ~cut') => ToShow(Typist, now, Needed, owed)
    BY <1>1, <1>2, <1>6 DEF Sound, Untouched, ToShow, Caught
  <2>3. (Typist.fails = 0 /\ ~cut') =>
           Sound(Typist, speaking', now', parts', transform', replied', Needed', owed')
    BY <1>1, <1>3, <2>2 DEF Sound
  <2>4. now \in Nat /\ Well(Typist, now)
    BY SoundHere
  <2>5. QED
    BY <1>4, <2>1, <2>3, <2>4, SoundKept
<1>7. QED
  BY <1>5, <1>6

\* No call makes a device failure undone.
LEMMA SyncsKeep ==
    ASSUME NEW k \in Nat, NEW s, Well(s, k), NEW text \in Texts(k), NEW r \in Syncs(s, text)
    PROVE  Well(r, k) /\ (r.fails = 0 => s.fails = 0)
<1>1. r \in Typed(s, text, LiveCap) /\ LiveCap \in Nat
  BY OutputAssumption DEF Syncs
<1>2. QED
  BY <1>1, TypedWell

LEMMA MethodsKeep ==
    ASSUME NEW k \in Nat, NEW s, Well(s, k), NEW r \in Calls(s, Merged) \cup Calls(s, Disowned)
    PROVE  Well(r, k) /\ (r.fails = 0 => s.fails = 0)
<1>1. PICK t \in Rendered(s) :
        r = [t EXCEPT !.emitter = Merged(t.emitter)] \/ r = [t EXCEPT !.emitter = Disowned(t.emitter)]
  BY DEF Calls
<1>2. Well(t, k) /\ (t.fails = 0 => s.fails = 0)
  BY RenderedWell
<1>3. Well(r, k) /\ r.fails = t.fails
  BY <1>1, <1>2, MergedWell, DisownedWell
<1>4. QED
  BY <1>2, <1>3

LEMMA CommandedKeeps ==
    ASSUME NEW k \in Nat, NEW s, Well(s, k), NEW action \in {"scratch", "newline", "key", "copy"},
           NEW r \in Commanded(s, action)
    PROVE  Well(r, k) /\ (r.fails = 0 => s.fails = 0)
<1>1. <<>> \in Texts(k) /\ NewLine \in Texts(k)
  BY NothingIsText, NewLineIs
<1>2. CASE action = "scratch"
  <2>1. PICK t \in Calls(s, Merged) : r \in Syncs(t, <<>>)
    BY <1>2 DEF Commanded
  <2>2. Well(t, k) /\ (t.fails = 0 => s.fails = 0)
    BY MethodsKeep
  <2>3. QED
    BY <1>1, <2>1, <2>2, SyncsKeep
<1>3. CASE action = "newline"
  <2>1. r \in Syncs(s, NewLine)
    BY <1>3 DEF Commanded
  <2>2. QED
    BY <1>1, <2>1, SyncsKeep
<1>4. CASE action = "key"
  <2>1. PICK t \in Syncs(s, <<>>) : r \in Calls(t, Disowned)
    BY <1>4 DEF Commanded
  <2>2. Well(t, k) /\ (t.fails = 0 => s.fails = 0)
    BY <1>1, SyncsKeep
  <2>3. QED
    BY <2>1, <2>2, MethodsKeep
<1>5. CASE action = "copy"
  <2>1. r \in Syncs(s, <<>>)
    BY <1>5 DEF Commanded
  <2>2. QED
    BY <1>1, <2>1, SyncsKeep
<1>6. QED
  BY <1>2, <1>3, <1>4, <1>5

LEMMA FinalOrNone ==
    ASSUME NEW f \in Finalized
    PROVE  f.final = <<>> \/ (f.final = Final(now) /\ f.left = {})
  BY DEF Finalized

LEMMA TwoIsSome ==
    ASSUME NEW k \in Nat, NEW a \in Texts(k)
    PROVE  Len(a) = 2 => a # <<>>
<1>1. Len(a) = 0 <=> a = <<>>
  BY TextIs
<1>2. QED
  BY <1>1

\* What was said, shown.
LEMMA SaidIs ==
    ASSUME OutputInv, SoundInv, speaking, NEW f \in Finalized, f.final # <<>>
    PROVE  /\ f.final = Final(now) /\ f.left = {} /\ Of(f.final) = {now}
           /\ f.to.fails = 0 =>
                 /\ f.to.pending = NoText
                 /\ Spoken(f.to.emitter.scr, now) /\ Len(f.to.emitter.scr) = 2
                 /\ Of(f.to.emitter.scr) = {now}
<1>1. EndsWell(f) /\ now \in Nat /\ now # 0
  BY UtteranceEndsWell, SoundHere
<1>2. f.final = Final(now) /\ f.left = {}
  BY FinalOrNone
<1>3. Final(now) \in Texts(now) /\ Spoken(Final(now), now)
  BY <1>1, FinalIs, FinalIsSpoken
<1>4. Of(f.final) = {now}
  BY <1>1, <1>2, <1>3, SpokenIs
<1>5. f.to.fails = 0 =>
         f.to.pending = NoText /\ Spoken(f.to.emitter.scr, now) /\ Len(f.to.emitter.scr) = 2
  BY <1>1 DEF EndsWell, Ended
<1>6. f.to.fails = 0 => Of(f.to.emitter.scr) = {now}
  <2> SUFFICES ASSUME f.to.fails = 0 PROVE Of(f.to.emitter.scr) = {now}
    OBVIOUS
  <2>1. f.to.emitter.scr \in Texts(now)
    BY <1>1, WellIs DEF EndsWell
  <2>2. f.to.emitter.scr # <<>>
    <3>1. Len(f.to.emitter.scr) = 2 => f.to.emitter.scr # <<>>
      BY <1>1, <2>1, TwoIsSome
    <3>2. QED
      BY <1>5, <3>1
  <2>3. QED
    BY <1>1, <1>5, <2>1, <2>2, SpokenIs
<1>7. QED
  BY <1>2, <1>4, <1>5, <1>6

\* Whatever the end of an utterance, nothing is open after it.
EndsOpen ==
    /\ speaking /\ speaking' = FALSE /\ parts' = <<>> /\ loop' \in {"on", "draining"}
    /\ UNCHANGED <<now, replied, cut>>

LEMMA NothingOpen ==
    ASSUME OutputInv, SoundInv, EndsOpen
    PROVE  LoopInv' /\ ~cut' /\ now \in Nat /\ now' = now /\ now # 0
<1>1. now \in Nat /\ now # 0 /\ speaking
  BY SoundHere DEF EndsOpen
<1>2. QED
  BY <1>1 DEF SoundInv, LoopInv, EndsOpen

LEMMA EndCaught ==
    ASSUME OutputInv, SoundInv, EndsOpen, NEW f \in Finalized, Goes(f.to), transform' = NoTransform,
           owed' = owed \cup Of(f.final), stranded' = stranded \cup f.left, excused' = excused
    PROVE  SoundInv'
<1>1. speaking /\ LoopInv' /\ ~cut' /\ now \in Nat /\ now' = now /\ now # 0
  BY NothingOpen DEF EndsOpen
<1>2. EndsWell(f)
  BY <1>1, UtteranceEndsWell
<1>3. Of(f.final) \subseteq {now}
  <2>1. f.final = <<>> => Of(f.final) = {}
    BY NothingIsText
  <2>2. f.final # <<>> => Of(f.final) = {now}
    BY <1>1, SaidIs
  <2>3. QED
    BY <2>1, <2>2
<1>4. Needed' \subseteq Needed \cup Of(f.final) \cup f.left /\ owed' \subseteq owed \cup {now}
  BY <1>3 DEF Needed
<1>5. f.to.fails = 0 => Caught(f.to, now, Needed', owed')
  BY <1>2, <1>4 DEF EndsWell
<1>6. (f.to.fails = 0 /\ ~cut') =>
         Sound(f.to, speaking', now', parts', transform', replied', Needed', owed')
  BY <1>1, <1>5 DEF Sound, ToShow, EndsOpen
<1>7. Well(f.to, now)
  BY <1>2 DEF EndsWell
<1>8. QED
  BY <1>1, <1>6, <1>7, SoundKept

LEMMA SubmittedIs ==
    ASSUME NEW text, NEW all \in BOOLEAN
    PROVE  LET c == Submitted(text, all)
           IN  /\ c # NoTransform /\ c.typed = FALSE /\ c.merged = FALSE
               /\ c.original = text /\ c.mergeAll = all
<1> DEFINE c == Submitted(text, all)
<1>1. /\ c.typed = FALSE /\ c.merged = FALSE /\ c.original = text /\ c.mergeAll = all
      /\ c.state = "stream" \/ c.state = "future"
  BY DEF Submitted
<1>2. NoTransform.state = "none"
  BY DEF NoTransform
<1>3. c # NoTransform
  BY <1>1, <1>2
<1>4. QED
  BY <1>1, <1>3

LEMMA EndSubmitted ==
    ASSUME OutputInv, SoundInv, EndsOpen, NEW f \in Finalized, f.final # <<>>, Goes(f.to),
           NEW said, said = parts \o f.final, NEW chained \in BOOLEAN, chained <=> parts # <<>>,
           transform' = Submitted(said, chained),
           owed' = owed \cup Of(f.final), stranded' = stranded,
           excused' = IF chained THEN excused \cup (Of(f.to.emitter.prev) \ Of(said)) ELSE excused
    PROVE  SoundInv'
<1>1. speaking /\ LoopInv' /\ ~cut' /\ now \in Nat /\ now' = now /\ now # 0
  BY NothingOpen DEF EndsOpen
<1>2. EndsWell(f) /\ parts \in Texts(now)
  BY <1>1, UtteranceEndsWell, Here
<1>3. /\ f.final = Final(now) /\ f.left = {} /\ Of(f.final) = {now}
      /\ f.to.fails = 0 => f.to.pending = NoText /\ Of(f.to.emitter.scr) = {now}
  BY <1>1, SaidIs
<1> DEFINE c == Submitted(said, chained)
<1>4. /\ c # NoTransform /\ c.typed = FALSE /\ c.merged = FALSE /\ c.original = said /\ c.mergeAll = chained
  BY SubmittedIs
<1>5. transform' = c
  OBVIOUS
<1> HIDE DEF c
<1>6. ASSUME f.to.fails = 0
      PROVE  Untouched(f.to, c, Needed', owed')
  <2> DEFINE e == f.to.emitter
  <2>1. /\ Neat(parts) /\ Plain(parts) /\ now \notin Of(parts) /\ Apart(e.settled, parts)
        /\ now \notin Of(e.settled) /\ now \notin Of(e.prev)
        /\ \A V, p : (V \subseteq Needed \cup Of(f.final) \cup f.left /\ p \subseteq owed \cup {now})
                        => Caught(f.to, now, V, p)
    BY <1>2, <1>6 DEF EndsWell
  <2>2. /\ said \in Texts(now) /\ Neat(said) /\ Plain(said) /\ said # <<>>
        /\ Of(said) = Of(parts) \cup {now}
    BY <1>1, <1>2, <1>3, <2>1, PartsGrow
  <2>3. Needed' \subseteq Needed \cup Of(f.final) \cup f.left /\ owed' \subseteq owed \cup {now}
    BY <1>3 DEF Needed
  <2>4. Shows(e, e.scr, Needed', owed')
    BY <1>3, <1>6, <2>1, <2>3 DEF Caught
  <2>5. Of(e.scr) = {now} /\ f.to.pending = NoText
    BY <1>3, <1>6
  <2> HIDE DEF e
  <2>6. Apart(e.settled, said)
    BY <2>1, <2>2 DEF Apart
  <2>7. Needed' \subseteq Of(e.settled) \cup Of(e.prev) \cup {now}
    BY <2>4, <2>5 DEF Shows
  <2>8. chained => Needed' \subseteq Of(e.settled) \cup Of(said)
    <3> SUFFICES ASSUME chained PROVE Needed' \subseteq Of(e.settled) \cup Of(said)
      OBVIOUS
    <3>1. excused' = excused \cup (Of(e.prev) \ Of(said))
      BY DEF e
    <3>2. QED
      BY <2>2, <2>7, <3>1 DEF Needed
  <2>9. ~chained => Apart(e.prev, said)
    <3> SUFFICES ASSUME ~chained PROVE Apart(e.prev, said)
      OBVIOUS
    <3>1. Of(parts) = {}
      BY NothingIsText
    <3>2. QED
      BY <2>1, <2>2, <3>1 DEF Apart, e
  <2>10. Original(e, c, Needed', owed')
    BY <1>4, <2>2, <2>6, <2>7, <2>8, <2>9 DEF Original
  <2>11. QED
    BY <1>4, <2>4, <2>5, <2>10 DEF Untouched, e
<1>7. (f.to.fails = 0 /\ ~cut') =>
         Sound(f.to, speaking', now', parts', transform', replied', Needed', owed')
  BY <1>1, <1>4, <1>5, <1>6 DEF Sound, EndsOpen
<1>8. Well(f.to, now)
  BY <1>2 DEF EndsWell
<1>9. QED
  BY <1>1, <1>7, <1>8, SoundKept

LEMMA EndCommanded ==
    ASSUME OutputInv, SoundInv, EndsOpen, NEW f \in Finalized, f.final # <<>>,
           NEW action \in {"scratch", "newline", "key", "copy"},
           NEW s \in Commanded(f.to, action), Goes(s), transform' = NoTransform,
           NEW back, back = IF action = "scratch" THEN Of(f.to.emitter.prev) ELSE {},
           owed' = owed \ back, stranded' = stranded \ back, excused' = excused
    PROVE  SoundInv'
<1>1. speaking /\ LoopInv' /\ ~cut' /\ now \in Nat /\ now' = now /\ now # 0
  BY NothingOpen DEF EndsOpen
<1>2. EndsWell(f)
  BY <1>1, UtteranceEndsWell
<1>3. Well(f.to, now)
  BY <1>2 DEF EndsWell
<1>4. Well(s, now) /\ (s.fails = 0 => f.to.fails = 0)
  BY <1>1, <1>3, CommandedKeeps
<1>5. /\ Needed' = Needed \ back /\ owed' = owed \ back
  BY DEF Needed
<1>6. ASSUME s.fails = 0
      PROVE  ToShow(s, now, Needed', owed')
  <2>1. f.to.pending = NoText /\ Spoken(f.to.emitter.scr, now)
    BY <1>1, <1>4, <1>6, SaidIs
  <2>2. /\ Shows(f.to.emitter, <<>>, Needed, owed)
        /\ now \notin Of(f.to.emitter.settled) /\ now \notin Of(f.to.emitter.prev)
    BY <1>2, <1>4, <1>6 DEF EndsWell
  <2>3. /\ s.pending = NoText
        /\ action # "scratch" => Shows(s.emitter, s.emitter.scr, Needed, owed)
        /\ action = "scratch" =>
              Shows(s.emitter, s.emitter.scr, Needed \ Of(f.to.emitter.prev), owed \ Of(f.to.emitter.prev))
    BY <1>1, <1>3, <1>6, <2>1, <2>2, CommandedShows, ZenonT(30)
  <2>4. Shows(s.emitter, s.emitter.scr, Needed', owed')
    <3>1. CASE action = "scratch"
      BY <1>5, <2>3, <3>1
    <3>2. CASE action # "scratch"
      <4>1. Needed' = Needed /\ owed' = owed
        BY <1>5, <3>2
      <4>2. QED
        BY <2>3, <3>2, <4>1
    <3>3. QED
      BY <3>1, <3>2
  <2>5. QED
    BY <2>3, <2>4 DEF ToShow, Caught
<1>7. (s.fails = 0 /\ ~cut') =>
         Sound(s, speaking', now', parts', transform', replied', Needed', owed')
  BY <1>1, <1>6 DEF Sound, EndsOpen
<1>8. QED
  BY <1>1, <1>4, <1>7, SoundKept

LEMMA EndLiteral ==
    ASSUME OutputInv, SoundInv, EndsOpen, NEW f \in Finalized, f.final # <<>>,
           NEW s \in Syncs(f.to, Tail(Final(now))), Goes(s), transform' = NoTransform,
           owed' = owed \cup {now}, stranded' = stranded, excused' = excused
    PROVE  SoundInv'
<1>1. speaking /\ LoopInv' /\ ~cut' /\ now \in Nat /\ now' = now /\ now # 0
  BY NothingOpen DEF EndsOpen
<1>2. EndsWell(f)
  BY <1>1, UtteranceEndsWell
<1>3. Well(f.to, now)
  BY <1>2 DEF EndsWell
<1>4. Tail(Final(now)) \in Texts(now)
  <2>1. Tail(Final(now)) = <<Token({now}, "last")>>
    BY <1>1, FinalIsSpoken
  <2>2. {now} \subseteq 1..now
    BY <1>1
  <2>3. Token({now}, "last") \in Vocabulary(now)
    BY <2>2, TokenIs
  <2>4. QED
    BY <1>1, <2>1, <2>3, OneToken
<1>5. Well(s, now) /\ (s.fails = 0 => f.to.fails = 0)
  BY <1>1, <1>3, <1>4, SyncsKeep
<1>6. ASSUME s.fails = 0
      PROVE  ToShow(s, now, Needed', owed')
  <2>1. Spoken(f.to.emitter.scr, now) /\ Len(f.to.emitter.scr) = 2
    BY <1>1, <1>5, <1>6, SaidIs
  <2>2. /\ Shows(f.to.emitter, <<>>, Needed, owed)
        /\ now \notin Of(f.to.emitter.settled) /\ now \notin Of(f.to.emitter.prev)
    BY <1>2, <1>5, <1>6 DEF EndsWell
  <2>3. Needed' \subseteq Needed \cup {now} /\ owed' \subseteq owed \cup {now}
    BY DEF Needed
  <2>6. Spoken(f.to.emitter.scr, now)
    BY <2>1
  <2>4. Len(f.to.emitter.scr) = 2 =>
           s.pending = NoText /\ Shows(s.emitter, s.emitter.scr, Needed', owed')
    BY <1>1, <1>3, <1>6, <2>2, <2>3, <2>6, LiteralShows
  <2>5. QED
    BY <2>1, <2>4 DEF ToShow, Caught
<1>7. (s.fails = 0 /\ ~cut') =>
         Sound(s, speaking', now', parts', transform', replied', Needed', owed')
  BY <1>1, <1>6 DEF Sound, EndsOpen
<1>8. QED
  BY <1>1, <1>5, <1>7, SoundKept

LEMMA EndUtteranceSound ==
    ASSUME OutputInv, SoundInv, speaking, NEW next \in {"on", "draining"}, EndUtterance(next)
    PROVE  SoundInv'
<1> DEFINE none == <<>>
           chained == parts # none
           Said(f) == IF f.final = none THEN none ELSE parts \o f.final
<1>1. EndsOpen
  BY DEF EndUtterance, EndsOpen
<1>2. now \in Nat /\ now # 0 /\ parts \in Texts(now)
  BY Here
<1>3. PICK f \in Finalized :
        \/ /\ Goes(f.to) /\ transform' = NoTransform
           /\ owed' = owed \cup Of(f.final) /\ stranded' = stranded \cup f.left /\ excused' = excused
        \/ /\ Said(f) # none
           /\ Goes(f.to) /\ transform' = Submitted(Said(f), chained)
           /\ owed' = owed \cup Of(f.final) /\ stranded' = stranded
           /\ excused' = IF chained THEN excused \cup (Of(f.to.emitter.prev) \ Of(Said(f))) ELSE excused
        \/ /\ Said(f) # none
           /\ \E action \in {"scratch", "newline", "key", "copy"} :
                 /\ \E s \in Commanded(f.to, action) : Goes(s)
                 /\ LET back == IF action = "scratch" THEN Of(f.to.emitter.prev) ELSE {}
                    IN  owed' = owed \ back /\ stranded' = stranded \ back
           /\ transform' = NoTransform /\ excused' = excused
        \/ /\ Said(f) # none /\ ~chained
           /\ \E s \in Syncs(f.to, Tail(Said(f))) : Goes(s)
           /\ transform' = NoTransform
           /\ owed' = owed \cup Of(Said(f)) /\ stranded' = stranded /\ excused' = excused
  BY DEF EndUtterance
<1> DEFINE said == Said(f)
<1>4. said # none => f.final # <<>> /\ said = parts \o f.final
  OBVIOUS
<1>5. (said # none /\ ~chained) => said = Final(now)
  <2> SUFFICES ASSUME said # none, ~chained PROVE said = Final(now)
    OBVIOUS
  <2>1. f.final = Final(now)
    BY <1>4, FinalOrNone
  <2>2. Final(now) \in Texts(now)
    BY <1>2, FinalIs
  <2>3. <<>> \o Final(now) = Final(now)
    BY <2>2 DEF Texts
  <2>4. QED
    BY <1>4, <2>1, <2>3
<1> HIDE DEF said, Said
<1>6. CASE /\ Goes(f.to) /\ transform' = NoTransform
           /\ owed' = owed \cup Of(f.final) /\ stranded' = stranded \cup f.left /\ excused' = excused
  BY <1>1, <1>6, EndCaught
<1>7. CASE /\ said # none
           /\ Goes(f.to) /\ transform' = Submitted(said, chained)
           /\ owed' = owed \cup Of(f.final) /\ stranded' = stranded
           /\ excused' = IF chained THEN excused \cup (Of(f.to.emitter.prev) \ Of(said)) ELSE excused
  <2>1. chained \in BOOLEAN /\ (chained <=> parts # <<>>)
    OBVIOUS
  <2> HIDE DEF chained
  <2>2. QED
    BY <1>1, <1>4, <1>7, <2>1, EndSubmitted
<1>8. CASE /\ said # none
           /\ \E action \in {"scratch", "newline", "key", "copy"} :
                 /\ \E s \in Commanded(f.to, action) : Goes(s)
                 /\ LET back == IF action = "scratch" THEN Of(f.to.emitter.prev) ELSE {}
                    IN  owed' = owed \ back /\ stranded' = stranded \ back
           /\ transform' = NoTransform /\ excused' = excused
  <2>1. PICK action \in {"scratch", "newline", "key", "copy"} :
            /\ \E s \in Commanded(f.to, action) : Goes(s)
            /\ LET back == IF action = "scratch" THEN Of(f.to.emitter.prev) ELSE {}
               IN  owed' = owed \ back /\ stranded' = stranded \ back
    BY <1>8
  <2>2. PICK s \in Commanded(f.to, action) : Goes(s)
    BY <2>1
  <2>3. QED
    BY <1>1, <1>4, <1>8, <2>1, <2>2, EndCommanded
<1>9. CASE /\ said # none /\ ~chained
           /\ \E s \in Syncs(f.to, Tail(said)) : Goes(s)
           /\ transform' = NoTransform
           /\ owed' = owed \cup Of(said) /\ stranded' = stranded /\ excused' = excused
  <2>1. PICK s \in Syncs(f.to, Tail(said)) : Goes(s)
    BY <1>9
  <2>2. said = Final(now) /\ f.final # <<>>
    BY <1>4, <1>5, <1>9
  <2>3. f.final = Final(now) /\ Of(f.final) = {now}
    BY <1>2, <2>2, SaidIs
  <2>4. s \in Syncs(f.to, Tail(Final(now))) /\ owed' = owed \cup {now}
    BY <1>9, <2>1, <2>2, <2>3
  <2>5. QED
    BY <1>1, <1>9, <2>1, <2>2, <2>4, EndLiteral
<1>10. QED
  BY <1>3, <1>6, <1>7, <1>8, <1>9 DEF said

-----------------------------------------------------------------------------
(* The end of a transform.                                                 *)

LEMMA MergesKeep ==
    ASSUME NEW k \in Nat, NEW s, Well(s, k), NEW wanted, NEW m \in Merges(s, wanted)
    PROVE  Well(m.to, k) /\ (m.to.fails = 0 => s.fails = 0)
<1>1. CASE wanted
  <2>1. PICK t \in Rendered(s) : m.to = [t EXCEPT !.emitter = Merged(t.emitter)]
    BY <1>1 DEF Merges
  <2>2. Well(t, k) /\ (t.fails = 0 => s.fails = 0)
    BY RenderedWell
  <2>3. Well(m.to, k) /\ m.to.fails = t.fails
    BY <2>1, <2>2, MergedWell
  <2>4. QED
    BY <2>2, <2>3
<1>2. CASE ~wanted
  BY <1>2 DEF Merges
<1>3. QED
  BY <1>1, <1>2

LEMMA TypedKeep ==
    ASSUME NEW k \in Nat, NEW s, Well(s, k), NEW text \in Texts(k), NEW r \in Typed(s, text, TransformCap)
    PROVE  Well(r, k) /\ r.pending = NoText /\ (r.fails = 0 => s.fails = 0)
<1>1. TransformCap \in Nat
  BY OutputAssumption
<1>2. QED
  BY <1>1, TypedWell

LEMMA TypedToShow ==
    ASSUME NEW k \in Nat, NEW s, Well(s, k), NEW text \in Texts(k), NEW r \in Typed(s, text, TransformCap),
           r.fails = 0, Len(s.emitter.scr) <= TransformCap, NEW W, NEW o, Shows(s.emitter, text, W, o)
    PROVE  ToShow(r, k, W, o)
<1>1. TransformCap \in Nat
  BY OutputAssumption
<1>2. r.pending = NoText
  BY TypedKeep
<1>3. Shows(r.emitter, r.emitter.scr, W, o)
  BY <1>1, TypedShows
<1>4. QED
  BY <1>2, <1>3 DEF ToShow, Caught

\* A transform is over, and its text is shown or about to be.
LEMMA TransformOver ==
    ASSUME OutputInv, SoundInv, ~speaking, UNCHANGED <<speaking, now, parts, cut, owed, stranded>>,
           loop' = loop \/ (loop # "on" /\ loop' # "on"), transform' = NoTransform,
           NEW s, Goes(s), Well(s, now), (s.fails = 0 /\ ~cut) => ToShow(s, now, Needed', owed)
    PROVE  SoundInv'
<1>1. LoopInv'
  BY DEF SoundInv, LoopInv
<1>2. now' = now /\ now \in Nat
  BY Here
<1>3. (s.fails = 0 /\ ~cut') =>
         Sound(s, speaking', now', parts', transform', replied', Needed', owed')
  BY DEF Sound
<1>4. QED
  BY <1>1, <1>2, <1>3, SoundKept

LEMMA DrainedSound ==
    ASSUME OutputInv, SoundInv, Fits, Drained
    PROVE  SoundInv'
<1>1. PICK s \in TakesBack(Typist, transform) : Goes(s)
  BY DEF Drained
<1>2. /\ loop = "draining" /\ loop' = "closing" /\ transform' = NoTransform
      /\ UNCHANGED <<speaking, now, parts, replied, owed, stranded, excused, cut>>
  BY DEF Drained, utterance
<1>3. /\ Well(Typist, now) /\ now \in Nat /\ Typist.fails = fails /\ TransformOK(transform, now)
      /\ (fails = 0 /\ ~cut) => Sound(Typist, speaking, now, parts, transform, replied, Needed, owed)
  BY SoundHere
<1>4. ~speaking
  BY <1>2 DEF SoundInv, LoopInv
<1>5. Needed' = Needed
  BY <1>2 DEF Needed
<1>6. CASE transform.state = "stream" /\ transform.typed
  <2>1. s \in Typed(Typist, Restore(transform), TransformCap)
    BY <1>1, <1>6 DEF TakesBack
  <2>2. Restore(transform) \in Texts(now) /\ transform # NoTransform
    BY <1>3, <1>6, TransformIs
  <2>3. Well(s, now) /\ (s.fails = 0 => Typist.fails = 0)
    BY <1>3, <2>1, <2>2, TypedKeep
  <2>4. (s.fails = 0 /\ ~cut) => ToShow(s, now, Needed, owed)
    <3> SUFFICES ASSUME s.fails = 0, ~cut PROVE ToShow(s, now, Needed, owed)
      OBVIOUS
    <3>1. HalfWay(Typist, transform, replied, Needed, owed)
      BY <1>3, <1>6, <2>2, <2>3 DEF Sound
    <3>2. Shows(Typist.emitter, Restore(transform), Needed, owed)
      BY <3>1 DEF HalfWay
    <3>5. FitsIn(Typist)
      BY <1>3, <2>3 DEF Fits
    <3>3. Len(Typist.emitter.scr) <= TransformCap
      BY <1>3, <3>5, FitsIs
    <3>4. QED
      BY <1>3, <2>1, <2>2, <3>2, <3>3, TypedToShow
  <2>5. QED
    BY <1>1, <1>2, <1>4, <1>5, <2>3, <2>4, TransformOver
<1>7. CASE ~(transform.state = "stream" /\ transform.typed)
  <2>1. s = Typist
    BY <1>1, <1>7 DEF TakesBack
  <2>2. (Typist.fails = 0 /\ ~cut) => ToShow(Typist, now, Needed, owed)
    BY <1>3, <1>4, <1>7 DEF Sound, HalfWay, Untouched, ToShow, Caught
  <2>3. QED
    BY <1>1, <1>2, <1>3, <1>4, <1>5, <2>1, <2>2, TransformOver
<1>8. QED
  BY <1>6, <1>7

\* What the reply to an untouched region leaves.
Replied(m, body, k, W, o) ==
    /\ ToShow(m.to, k, W, o)
    /\ \A r \in Typed(m.to, body, TransformCap) : r.fails = 0 => ToShow(r, k, W, o)

LEMMA UntouchedReplied ==
    ASSUME NEW k \in Nat, NEW s, Well(s, k), FitsIn(s),
           NEW c, c.original \in Texts(k), c.original # <<>>, NEW W, NEW o, Untouched(s, c, W, o),
           NEW answer \in Answers, NEW wanted, NEW m \in Merges(s, wanted), m.to.fails = 0,
           c.mergeAll => wanted, wanted => c.mergeAll \/ Revises(answer)
    PROVE  Replied(m, Body(answer, c, IF m.joined THEN m.to.emitter.scr ELSE c.original), k, W, o)
<1> DEFINE region == IF m.joined THEN m.to.emitter.scr ELSE c.original
           body == Body(answer, c, region)
<1>1. s.pending = NoText /\ Shows(s.emitter, s.emitter.scr, W, o)
  BY DEF Untouched
<1>2. JoinsUntouched(s, wanted, m, k, W, o)
  BY <1>1, UntouchedMerges
<1>3. Shows(m.to.emitter, body, W, o)
  BY UntouchedBody
<1>4. region \in Texts(k)
  BY <1>2, WellIs DEF JoinsUntouched
<1> HIDE DEF region
<1>5. body \in Texts(k)
  BY <1>4, BodyIs
<1> HIDE DEF body
<1>6. Well(m.to, k) /\ Len(m.to.emitter.scr) <= TransformCap /\ ToShow(m.to, k, W, o)
  BY <1>2 DEF JoinsUntouched, ToShow, Caught
<1>7. ASSUME NEW r \in Typed(m.to, body, TransformCap), r.fails = 0
      PROVE  ToShow(r, k, W, o)
  BY <1>3, <1>5, <1>6, <1>7, TypedToShow
<1>8. Replied(m, body, k, W, o)
  BY <1>6, <1>7 DEF Replied
<1>9. QED
  BY <1>8 DEF body, region

\* All that a reply leaves, once shown.
LEMMA ReplyShown ==
    ASSUME OutputInv, SoundInv, transform # NoTransform, NEW answer \in Answers,
           NEW wanted, NEW m \in Merges(Typist, wanted), NEW joined \in BOOLEAN, NEW there,
           NEW body, body = Body(answer, transform, IF joined THEN m.to.emitter.scr ELSE transform.original),
           IF there /\ body = transform.original
           THEN Goes(m.to)
           ELSE \E s \in Typed(m.to, body, TransformCap) : Goes(s),
           ~cut => Replied(m, body, now, Needed, owed)
                   \/ m.to.fails # 0
                   \/ (~there /\ Len(m.to.emitter.scr) <= TransformCap /\ Shows(m.to.emitter, body, Needed, owed))
    PROVE  \E s : Goes(s) /\ Well(s, now) /\ ((s.fails = 0 /\ ~cut) => ToShow(s, now, Needed, owed))
<1>1. Well(Typist, now) /\ now \in Nat /\ TransformOK(transform, now)
  BY SoundHere
<1>2. Well(m.to, now)
  BY <1>1, MergesKeep
<1>3. transform.original \in Texts(now) /\ transform.original # <<>>
  BY <1>1 DEF TransformOK
<1>4. body \in Texts(now)
  <2> DEFINE region == IF joined THEN m.to.emitter.scr ELSE transform.original
  <2>1. region \in Texts(now)
    BY <1>1, <1>2, <1>3, WellIs
  <2>2. body = Body(answer, transform, region)
    OBVIOUS
  <2> HIDE DEF region
  <2>3. QED
    BY <1>1, <1>3, <2>1, <2>2, BodyIs
<1>5. CASE there /\ body = transform.original
  <2>1. Goes(m.to) /\ ((m.to.fails = 0 /\ ~cut) => ToShow(m.to, now, Needed, owed))
    BY <1>5 DEF Replied
  <2>2. QED
    BY <1>2, <2>1
<1>6. CASE ~(there /\ body = transform.original)
  <2>1. PICK s \in Typed(m.to, body, TransformCap) : Goes(s)
    BY <1>6
  <2>2. Well(s, now) /\ (s.fails = 0 => m.to.fails = 0)
    BY <1>1, <1>2, <1>4, <2>1, TypedKeep
  <2>3. ASSUME s.fails = 0, ~cut PROVE ToShow(s, now, Needed, owed)
    <3>1. CASE Replied(m, body, now, Needed, owed)
      BY <2>1, <2>3, <3>1 DEF Replied
    <3>2. CASE Len(m.to.emitter.scr) <= TransformCap /\ Shows(m.to.emitter, body, Needed, owed)
      BY <1>1, <1>2, <1>4, <2>1, <2>3, <3>2, TypedToShow
    <3>3. QED
      BY <2>2, <2>3, <3>1, <3>2
  <2>4. QED
    BY <2>1, <2>2, <2>3
<1>7. QED
  BY <1>5, <1>6

LEMMA FinishSound ==
    ASSUME OutputInv, SoundInv, Fits, Finish
    PROVE  SoundInv'
<1> DEFINE c == transform
<1>1. PICK answer \in Answers :
        /\ c.typed => answer = c.answer
        /\ \E m \in Merges(Typist, JoinsPrevious(c, Revises(answer))) :
              LET body == Body(answer, c, IF c.merged \/ m.joined THEN m.to.emitter.scr ELSE c.original)
              IN  IF ~c.typed /\ body = c.original
                  THEN Goes(m.to)
                  ELSE \E s \in Typed(m.to, body, TransformCap) : Goes(s)
  BY DEF Finish
<1>2. /\ c.state = "stream" /\ transform' = NoTransform
      /\ UNCHANGED <<speaking, now, parts, loop, owed, stranded, excused, cut>>
  BY DEF Finish, utterance
<1> DEFINE wanted == JoinsPrevious(c, Revises(answer))
<1>3. PICK m \in Merges(Typist, wanted) :
        LET body == Body(answer, c, IF c.merged \/ m.joined THEN m.to.emitter.scr ELSE c.original)
        IN  IF ~c.typed /\ body = c.original
            THEN Goes(m.to)
            ELSE \E s \in Typed(m.to, body, TransformCap) : Goes(s)
  BY <1>1
<1>4. /\ Well(Typist, now) /\ now \in Nat /\ Typist.fails = fails /\ TransformOK(c, now)
      /\ (fails = 0 /\ ~cut) => Sound(Typist, speaking, now, parts, transform, replied, Needed, owed)
  BY SoundHere
<1>5. /\ c # NoTransform /\ ~speaking /\ c.original \in Texts(now) /\ c.original # <<>>
      /\ c.merged \in BOOLEAN /\ c.typed \in BOOLEAN
  BY <1>2, <1>4, Here, TransformIs
<1>6. m.joined \in BOOLEAN /\ (m.to.fails = 0 => Typist.fails = 0)
  <2>1. m.joined \in BOOLEAN
    BY <1>4, MergesOK DEF Well
  <2>2. QED
    BY <1>4, <2>1, MergesKeep
<1>7. wanted <=> (~c.merged /\ (c.mergeAll \/ (Revises(answer) /\ replied)))
  BY DEF JoinsPrevious
<1> HIDE DEF wanted
<1> DEFINE joined == c.merged \/ m.joined
           body == Body(answer, c, IF joined THEN m.to.emitter.scr ELSE c.original)
<1>8. ASSUME ~c.typed, ~cut, m.to.fails = 0
      PROVE  Replied(m, body, now, Needed, owed)
  <2>1. Untouched(Typist, c, Needed, owed)
    BY <1>4, <1>5, <1>6, <1>8 DEF Sound
  <2>2. ~c.merged
    BY <2>1 DEF Untouched
  <2>3. (c.mergeAll => wanted) /\ (wanted => c.mergeAll \/ Revises(answer))
    BY <1>7, <2>2
  <2>7. FitsIn(Typist)
    BY <1>4, <1>6, <1>8 DEF Fits
  <2>4. Replied(m, Body(answer, c, IF m.joined THEN m.to.emitter.scr ELSE c.original), now, Needed, owed)
    BY <1>4, <1>5, <1>8, <2>1, <2>3, <2>7, UntouchedReplied
  <2>5. joined <=> m.joined
    BY <2>2
  <2>6. QED
    BY <2>4, <2>5
<1>9. ASSUME c.typed, ~cut, m.to.fails = 0
      PROVE  Len(m.to.emitter.scr) <= TransformCap /\ Shows(m.to.emitter, body, Needed, owed)
  <2>1. HalfWay(Typist, c, replied, Needed, owed) /\ answer = c.answer
    BY <1>1, <1>4, <1>5, <1>6, <1>9 DEF Sound
  <2>2. wanted <=> (~c.merged /\ (c.mergeAll \/ (Revises(c.answer) /\ replied)))
    BY <1>7, <2>1
  <2>3. /\ Len(m.to.emitter.scr) <= TransformCap
        /\ Shows(m.to.emitter,
                 Body(c.answer, c, IF c.merged \/ m.joined THEN m.to.emitter.scr ELSE c.original), Needed, owed)
    <3>1. FitsIn(Typist)
      BY <1>4, <1>6, <1>9 DEF Fits
    <3>2. QED
      BY <1>4, <1>5, <1>9, <2>1, <2>2, <3>1, HalfWayBody
  <2>4. QED
    BY <2>1, <2>3
<1>10. IF ~c.typed /\ body = c.original
       THEN Goes(m.to)
       ELSE \E s \in Typed(m.to, body, TransformCap) : Goes(s)
  BY <1>3
<1>11. joined \in BOOLEAN /\ body = Body(answer, c, IF joined THEN m.to.emitter.scr ELSE c.original)
  BY <1>5, <1>6
<1> HIDE DEF body, joined
<1>12. PICK s : Goes(s) /\ Well(s, now) /\ ((s.fails = 0 /\ ~cut) => ToShow(s, now, Needed, owed))
  BY <1>5, <1>8, <1>9, <1>10, <1>11, ReplyShown
<1>13. Needed' = Needed
  BY <1>2 DEF Needed
<1>14. QED
  BY <1>2, <1>5, <1>12, <1>13, TransformOver

LEMMA ApplySound ==
    ASSUME OutputInv, SoundInv, Fits, Apply
    PROVE  SoundInv'
<1> DEFINE c == transform
<1>3. PICK answer \in Answers :
        \E m \in Merges(Typist, JoinsPrevious(c, Revises(answer))) :
           LET body == Body(answer, c, IF m.joined THEN m.to.emitter.scr ELSE c.original)
           IN  IF ~m.joined /\ body = c.original
               THEN Goes(m.to)
               ELSE \E s \in Typed(m.to, body, TransformCap) : Goes(s)
  BY DEF Apply
<1>1. PICK m \in Merges(Typist, JoinsPrevious(c, Revises(answer))) :
        LET body == Body(answer, c, IF m.joined THEN m.to.emitter.scr ELSE c.original)
        IN  IF ~m.joined /\ body = c.original
            THEN Goes(m.to)
            ELSE \E s \in Typed(m.to, body, TransformCap) : Goes(s)
  BY <1>3
<1>2. /\ c.state = "future" /\ transform' = NoTransform
      /\ UNCHANGED <<speaking, now, parts, loop, owed, stranded, excused, cut>>
  BY DEF Apply, utterance
<1> DEFINE wanted == JoinsPrevious(c, Revises(answer))
<1>4. /\ Well(Typist, now) /\ now \in Nat /\ Typist.fails = fails /\ TransformOK(c, now)
      /\ (fails = 0 /\ ~cut) => Sound(Typist, speaking, now, parts, transform, replied, Needed, owed)
  BY SoundHere
<1>5. /\ c # NoTransform /\ ~speaking /\ c.original \in Texts(now) /\ c.original # <<>>
      /\ c.merged \in BOOLEAN /\ c.typed \in BOOLEAN
  BY <1>2, <1>4, Here, TransformIs
<1>6. m \in Merges(Typist, wanted) /\ m.joined \in BOOLEAN /\ (m.to.fails = 0 => Typist.fails = 0)
  <2>1. m.joined \in BOOLEAN
    BY <1>4, MergesOK DEF Well
  <2>2. QED
    BY <1>4, <2>1, MergesKeep
<1>7. wanted <=> (~c.merged /\ (c.mergeAll \/ (Revises(answer) /\ replied)))
  BY DEF JoinsPrevious
<1> HIDE DEF wanted
<1> DEFINE body == Body(answer, c, IF m.joined THEN m.to.emitter.scr ELSE c.original)
<1>8. ASSUME ~cut, m.to.fails = 0
      PROVE  Replied(m, body, now, Needed, owed)
  <2>1. Untouched(Typist, c, Needed, owed)
    BY <1>2, <1>4, <1>5, <1>6, <1>8 DEF Sound, HalfWay
  <2>2. ~c.merged
    BY <2>1 DEF Untouched
  <2>3. (c.mergeAll => wanted) /\ (wanted => c.mergeAll \/ Revises(answer))
    BY <1>7, <2>2
  <2>4. FitsIn(Typist)
    BY <1>4, <1>6, <1>8 DEF Fits
  <2>5. QED
    BY <1>4, <1>5, <1>6, <1>8, <2>1, <2>3, <2>4, UntouchedReplied
<1>9. IF ~m.joined /\ body = c.original
      THEN Goes(m.to)
      ELSE \E s \in Typed(m.to, body, TransformCap) : Goes(s)
  BY <1>1
<1>10. body = Body(answer, c, IF m.joined THEN m.to.emitter.scr ELSE c.original)
  OBVIOUS
<1> HIDE DEF body
<1>11. PICK s : Goes(s) /\ Well(s, now) /\ ((s.fails = 0 /\ ~cut) => ToShow(s, now, Needed, owed))
  BY <1>5, <1>6, <1>8, <1>9, <1>10, ReplyShown
<1>12. Needed' = Needed
  BY <1>2 DEF Needed
<1>13. QED
  BY <1>2, <1>5, <1>11, <1>12, TransformOver

\* What is left of a part that was shown: the marker, where the words were.
LEMMA MarkerLeft ==
    ASSUME NEW k \in Nat, NEW s, Well(s, k), NEW c, c.answer \in Bare,
           NEW rep, NEW W, NEW o, HalfWay(s, c, rep, W, o)
    PROVE  ToShow(s, k, W \ Of(Restore(c)), o)
<1> DEFINE V == W \ Of(Restore(c))
<1>1. /\ Shows(s.emitter, Restore(c), W, o)
      /\ s.pending = NoText => s.emitter.scr = Marker
      /\ s.pending # NoText => s.pending.text = Marker /\ s.pending.cap = TransformCap
  BY DEF HalfWay
<1>2. Of(Marker) = {} /\ Tidy(Marker, o)
  BY MarkerIsTidy
<1>3. Shows(s.emitter, Marker, V, o)
  BY <1>1, <1>2 DEF Shows, Apart
<1>4. QED
  BY <1>1, <1>3 DEF ToShow, Caught, PutBack

LEMMA EmptyRevisionSound ==
    ASSUME OutputInv, SoundInv, Fits, EmptyRevision
    PROVE  SoundInv'
<1> DEFINE c == transform
           wanted == c.mergeAll /\ ~c.merged
<1>1. PICK m \in Merges(Typist, wanted) :
        IF c.state = "future" /\ m.joined
        THEN /\ \E s \in Typed(m.to, Marker, TransformCap) : Goes(s)
             /\ excused' = excused \cup Of(m.to.emitter.scr)
        ELSE /\ Goes(m.to)
             /\ excused' = IF c.typed THEN excused \cup Of(Restore(c)) ELSE excused
  BY DEF EmptyRevision
<1>2. /\ c.state # "none" /\ EndsBare(c) /\ transform' = NoTransform
      /\ UNCHANGED <<speaking, now, parts, loop, owed, stranded, cut>>
  BY DEF EmptyRevision, utterance
<1>3. /\ Well(Typist, now) /\ now \in Nat /\ Typist.fails = fails
      /\ (fails = 0 /\ ~cut) => Sound(Typist, speaking, now, parts, transform, replied, Needed, owed)
  BY SoundHere
<1>4. c # NoTransform /\ ~speaking
  BY <1>2, Here
<1>5. Well(m.to, now) /\ (m.to.fails = 0 => Typist.fails = 0)
  <2> HIDE DEF wanted
  <2>1. QED
    BY <1>3, MergesKeep
<1>6. ASSUME m.to.fails = 0, ~cut, ~c.typed
      PROVE  JoinsUntouched(Typist, wanted, m, now, Needed, owed)
  <2>1. Untouched(Typist, c, Needed, owed)
    BY <1>2, <1>3, <1>4, <1>5, <1>6 DEF Sound
  <2>2. Typist.pending = NoText /\ Shows(Typist.emitter, Typist.emitter.scr, Needed, owed)
    BY <2>1 DEF Untouched
  <2>3. FitsIn(Typist)
    BY <1>3, <1>5, <1>6 DEF Fits
  <2> HIDE DEF wanted
  <2>4. QED
    BY <1>3, <1>6, <2>2, <2>3, UntouchedMerges
<1>10. ASSUME m.to.fails = 0, ~cut, c.typed
       PROVE  c.state = "stream" /\ ToShow(m.to, now, Needed \ Of(Restore(c)), owed)
  <2>1. HalfWay(Typist, c, replied, Needed, owed) /\ c.answer \in Bare
    BY <1>2, <1>3, <1>4, <1>5, <1>10 DEF Sound, EndsBare
  <2>2. FitsIn(Typist)
    BY <1>3, <1>5, <1>10 DEF Fits
  <2> HIDE DEF c
  <2>3. c.state = "stream"
    BY <2>1 DEF HalfWay
  <2>4. HalfWay(m.to, c, replied, Needed, owed)
    <3>1. CASE ~wanted
      BY <2>1, <3>1 DEF Merges
    <3>2. CASE wanted
      <4>1. Typist.emitter.prev = <<>>
        BY <2>1, <3>2 DEF HalfWay
      <4> HIDE DEF wanted
      <4>2. Joins(Typist, wanted, m, now)
        BY <1>3, <1>10, MergesWell
      <4>3. PICK t \in Rendered(Typist) :
              t.fails = 0 /\ (m.joined <=> t.emitter.prev # <<>>) /\ (~m.joined => m.to = t)
        BY <3>2, <4>2 DEF Joins
      <4>4. HalfRendered(Typist, t, now)
        BY <1>3, <2>1, <2>2, <4>3, RendersHalf
      <4>5. m.to = t
        BY <4>1, <4>3, <4>4 DEF HalfRendered
      <4>6. QED
        BY <1>3, <2>1, <2>2, <4>3, <4>5, HalfWayRendered
    <3>3. QED
      BY <3>1, <3>2
  <2>5. QED
    BY <1>3, <1>5, <2>1, <2>3, <2>4, MarkerLeft
<1> HIDE DEF c, wanted
<1>7. CASE c.state = "future" /\ m.joined
  <2>1. PICK s \in Typed(m.to, Marker, TransformCap) : Goes(s)
    BY <1>1, <1>7
  <2>2. excused' = excused \cup Of(m.to.emitter.scr)
    BY <1>1, <1>7
  <2>3. Marker \in Texts(now)
    BY <1>3, NewLineIs
  <2>4. Of(Marker) = {} /\ \A o : Tidy(Marker, o)
    BY MarkerIsTidy
  <2>5. Well(s, now) /\ (s.fails = 0 => m.to.fails = 0)
    BY <1>3, <1>5, <2>1, <2>3, TypedKeep
  <2>6. ASSUME s.fails = 0, ~cut
        PROVE  ToShow(s, now, Needed', owed)
    <3>5. ~c.typed
      BY <1>7, <1>10, <2>5, <2>6
    <3>1. Len(m.to.emitter.scr) <= TransformCap /\ Shows(m.to.emitter, m.to.emitter.scr, Needed, owed)
      BY <1>6, <2>5, <2>6, <3>5 DEF JoinsUntouched
    <3>2. Needed' = Needed \ Of(m.to.emitter.scr)
      BY <1>2, <2>2 DEF Needed
    <3>3. Shows(m.to.emitter, Marker, Needed', owed)
      BY <2>4, <3>1, <3>2 DEF Shows, Apart
    <3>4. QED
      BY <1>3, <1>5, <2>1, <2>3, <2>6, <3>1, <3>3, TypedToShow
  <2>7. QED
    BY <1>2, <1>4, <2>1, <2>5, <2>6, TransformOver
<1>8. CASE ~(c.state = "future" /\ m.joined)
  <2>1. Goes(m.to) /\ excused' = IF c.typed THEN excused \cup Of(Restore(c)) ELSE excused
    BY <1>1, <1>8
  <2>2. Needed' = IF c.typed THEN Needed \ Of(Restore(c)) ELSE Needed
    BY <1>2, <2>1 DEF Needed
  <2>3. (m.to.fails = 0 /\ ~cut) => ToShow(m.to, now, Needed', owed)
    <3>1. (m.to.fails = 0 /\ ~cut /\ ~c.typed) => ToShow(m.to, now, Needed, owed)
      BY <1>6 DEF JoinsUntouched, ToShow, Caught
    <3>2. QED
      BY <1>10, <2>2, <3>1
  <2>4. QED
    BY <1>2, <1>4, <1>5, <2>1, <2>3, TransformOver
<1>9. QED
  BY <1>7, <1>8

-----------------------------------------------------------------------------
(* A part of the reply.                                                    *)

\* What is published of the reply is of the text submitted, and of the region.
PartlyShown(e, d, region, answer, rep, W, o) ==
    /\ d.state = "stream" /\ d.answer = answer
    /\ Shows(e, Restore(d), W, o)
    /\ Apart(e.settled, e.scr) /\ Apart(e.settled, d.original) /\ Apart(e.settled, region)
    /\ (d.merged \/ d.mergeAll \/ (SeenToRevise(answer) /\ rep)) => e.prev = <<>>
    /\ (d.merged /\ ~d.mergeAll) => SeenToRevise(answer)
    /\ (d.merged /\ ~d.mergeAll /\ answer = "revise") =>
          /\ W \subseteq Of(e.settled) \cup Of(d.original) \cup Of(e.scr)
          /\ W \subseteq Of(e.settled) \cup Of(d.original) \cup Of(region)
    /\ ~(d.merged /\ ~d.mergeAll) => Original(e, d, W, o)

LEMMA PartPublished ==
    ASSUME NEW k \in Nat, NEW answer \in Answers \cup Bare, NEW d, d.original \in Texts(k), d.original # <<>>,
           NEW region \in Texts(k), NEW r, r.pending.text = SubSeq(Body(answer, d, region), 1, 1),
           r.pending.cap = TransformCap,
           NEW rep, NEW W, NEW o, PartlyShown(r.emitter, d, region, answer, rep, W, o)
    PROVE  HalfWay(r, d, rep, W, o)
<1> DEFINE part == SubSeq(Body(answer, d, region), 1, 1)
           e == r.emitter
<1>1. /\ Of(part) \subseteq Of(d.original) \cup Of(region)
      /\ answer = "revise" => Of(part) = Of(d.original) \cup Of(region)
  BY PartOfBody
<1>2. r.pending.text = part
  OBVIOUS
<1>7. answer \in Bare => part = Marker
  BY BareBody
<1>8. Marker # NoText.text
  BY EmptySeq DEF NoText, Marker
<1> HIDE DEF part
<1>3. PartlyShown(e, d, region, answer, rep, W, o)
  OBVIOUS
<1> HIDE DEF e
<1>4. Apart(e.settled, part)
  BY <1>1, <1>3 DEF PartlyShown, Apart
<1>5. (d.merged /\ ~d.mergeAll /\ answer = "revise") =>
         W \subseteq Of(e.settled) \cup Of(d.original) \cup Of(part)
  BY <1>1, <1>3 DEF PartlyShown
<1>6. QED
  BY <1>2, <1>3, <1>4, <1>5, <1>7, <1>8 DEF PartlyShown, HalfWay, e

\* The transform goes on.
Continues(d, c, merged, answer, restore) ==
    /\ d.state = c.state /\ d.original = c.original /\ d.mergeAll = c.mergeAll
    /\ d.merged <=> merged
    /\ d.answer = answer /\ d.restore = restore

LEMMA UntouchedPart ==
    ASSUME NEW k \in Nat, NEW s, Well(s, k), FitsIn(s),
           NEW c, c.state = "stream", c.original \in Texts(k), NEW W, NEW o, Untouched(s, c, W, o),
           NEW answer \in Answers \cup Bare, NEW rep, NEW wanted, NEW m \in Merges(s, wanted), m.to.fails = 0,
           wanted <=> (c.mergeAll \/ (SeenToRevise(answer) /\ rep)),
           NEW region, region = IF m.joined THEN m.to.emitter.scr ELSE c.original,
           NEW d, Continues(d, c, m.joined, answer, region)
    PROVE  PartlyShown(m.to.emitter, d, region, answer, rep, W, o)
<1> DEFINE e == s.emitter
           f == m.to.emitter
<1>1. s.pending = NoText /\ Shows(s.emitter, s.emitter.scr, W, o) /\ Original(e, c, W, o)
  BY DEF Untouched
<1>2. JoinsUntouched(s, wanted, m, k, W, o)
  BY <1>1, UntouchedMerges
<1>3. /\ Shows(f, f.scr, W, o) /\ f.settled = e.settled
      /\ m.joined => wanted /\ f.scr # <<>>
      /\ ~m.joined => f = e
      /\ wanted => f.prev = <<>>
  BY <1>2 DEF JoinsUntouched
<1>4. /\ d.state = "stream" /\ d.original = c.original /\ d.mergeAll = c.mergeAll
      /\ d.merged <=> m.joined
      /\ d.answer = answer /\ d.restore = region
  BY DEF Continues
<1>5. /\ m.joined => region = f.scr
      /\ ~m.joined => region = c.original
  OBVIOUS
<1>6. (\A x : Tidy(<<>>, x)) /\ Of(<<>>) = {}
  BY NothingIsTidy
<1> HIDE DEF e, f
<1>7. region # <<>> /\ Restore(d) = region
  <2>1. region # <<>>
    BY <1>1, <1>3, <1>5 DEF Original
  <2>2. QED
    BY <1>4, <2>1 DEF Restore
<1>8. Apart(f.settled, f.scr) /\ Apart(f.settled, d.original) /\ Apart(f.settled, region)
  BY <1>1, <1>3, <1>4, <1>5 DEF Shows, Original
<1>9. Shows(f, region, W, o)
  <2>1. CASE m.joined
    BY <1>3, <1>5, <2>1
  <2>2. CASE ~m.joined
    <3>1. Tidy(c.original, o)
      BY <1>1, PlainIsWhole DEF Original
    <3>2. Apart(f.prev, c.original)
      <4>1. CASE c.mergeAll
        BY <1>3, <1>6, <4>1 DEF Apart
      <4>2. CASE ~c.mergeAll
        BY <1>1, <1>3, <2>2, <4>2 DEF Original
      <4>3. QED
        BY <4>1, <4>2
    <3>3. W \subseteq Of(f.settled) \cup Of(f.prev) \cup Of(c.original)
      BY <1>1, <1>3, <2>2 DEF Original
    <3>4. QED
      BY <1>3, <1>4, <1>5, <1>8, <2>2, <3>1, <3>2, <3>3 DEF Shows
  <2>3. QED
    BY <2>1, <2>2
<1>10. (d.merged \/ d.mergeAll \/ (SeenToRevise(answer) /\ rep)) => f.prev = <<>>
  BY <1>3, <1>4
<1>11. (d.merged /\ ~d.mergeAll) =>
          /\ SeenToRevise(answer)
          /\ W \subseteq Of(f.settled) \cup Of(d.original) \cup Of(f.scr)
          /\ W \subseteq Of(f.settled) \cup Of(d.original) \cup Of(region)
  <2> SUFFICES ASSUME d.merged, ~d.mergeAll
               PROVE  /\ SeenToRevise(answer)
                      /\ W \subseteq Of(f.settled) \cup Of(d.original) \cup Of(f.scr)
                      /\ W \subseteq Of(f.settled) \cup Of(d.original) \cup Of(region)
    OBVIOUS
  <2>1. m.joined /\ wanted /\ SeenToRevise(answer) /\ region = f.scr /\ f.prev = <<>>
    BY <1>3, <1>4, <1>5
  <2>2. W \subseteq Of(f.settled) \cup Of(f.prev) \cup Of(f.scr)
    BY <1>3 DEF Shows
  <2>3. QED
    BY <1>6, <2>1, <2>2
<1>12. ~(d.merged /\ ~d.mergeAll) => Original(f, d, W, o)
  <2>1. CASE c.mergeAll
    BY <1>1, <1>3, <1>4, <2>1 DEF Original
  <2>2. CASE ~c.mergeAll /\ ~m.joined
    BY <1>1, <1>3, <1>4, <2>2 DEF Original
  <2>3. QED
    BY <1>4, <2>1, <2>2
<1>13. PartlyShown(f, d, region, answer, rep, W, o)
  BY <1>4, <1>7, <1>8, <1>9, <1>10, <1>11, <1>12 DEF PartlyShown
<1>14. QED
  BY <1>13 DEF f

LEMMA RestoreIs ==
    ASSUME NEW c, NEW d, d.restore = c.restore, d.original = c.original
    PROVE  /\ Restore(d) = Restore(c)
           /\ Of(c.restore) \subseteq Of(Restore(c))
           /\ Of(Restore(c)) \subseteq Of(c.original) \cup Of(c.restore)
<1>1. Of(<<>>) = {}
  BY NothingIsText
<1>2. CASE c.restore = <<>>
  BY <1>1, <1>2 DEF Restore
<1>3. CASE c.restore # <<>>
  BY <1>3 DEF Restore
<1>4. QED
  BY <1>2, <1>3

\* A further part, and nothing to join.
LEMMA FurtherPart ==
    ASSUME NEW k \in Nat, NEW s, NEW c, NEW rep, NEW W, NEW o, HalfWay(s, c, rep, W, o),
           NEW d, Continues(d, c, c.merged, c.answer, c.restore)
    PROVE  PartlyShown(s.emitter, d, c.restore, c.answer, rep, W, o)
<1> DEFINE e == s.emitter
           region == c.restore
<1>1. /\ d.state = c.state /\ d.original = c.original /\ d.mergeAll = c.mergeAll
      /\ d.merged <=> c.merged
      /\ d.answer = c.answer /\ d.restore = region
  BY DEF Continues
<1>2. /\ Restore(d) = Restore(c) /\ Of(region) \subseteq Of(Restore(c))
      /\ Of(Restore(c)) \subseteq Of(c.original) \cup Of(region)
  BY <1>1, RestoreIs
<1>3. /\ c.state = "stream" /\ Shows(e, Restore(c), W, o)
      /\ Apart(e.settled, e.scr) /\ Apart(e.settled, c.original)
      /\ (c.merged \/ c.mergeAll \/ (SeenToRevise(c.answer) /\ rep)) => e.prev = <<>>
      /\ (c.merged /\ ~c.mergeAll) => SeenToRevise(c.answer)
      /\ (c.merged /\ ~c.mergeAll /\ c.answer = "revise") =>
            W \subseteq Of(e.settled) \cup Of(c.original) \cup Of(e.scr)
      /\ ~(c.merged /\ ~c.mergeAll) => Original(e, c, W, o)
  BY DEF HalfWay
<1>4. Of(<<>>) = {}
  BY NothingIsText
<1> HIDE DEF e, region
<1>5. Apart(e.settled, region)
  BY <1>2, <1>3 DEF Shows, Apart
<1>6. (c.merged /\ ~c.mergeAll) => W \subseteq Of(e.settled) \cup Of(c.original) \cup Of(region)
  BY <1>2, <1>3, <1>4 DEF Shows
<1>7. Original(e, c, W, o) => Original(e, d, W, o)
  BY <1>1 DEF Original
<1>8. PartlyShown(e, d, region, c.answer, rep, W, o)
  BY <1>1, <1>2, <1>3, <1>5, <1>6, <1>7 DEF PartlyShown
<1>9. QED
  BY <1>8 DEF e, region

\* A further part that should join the previous region: there is none.
LEMMA NothingToJoin ==
    ASSUME NEW k \in Nat, NEW s, Well(s, k), FitsIn(s),
           NEW c, c.original # <<>>, NEW rep, NEW W, NEW o, HalfWay(s, c, rep, W, o),
           ~c.merged, c.mergeAll \/ (SeenToRevise(c.answer) /\ rep),
           NEW wanted, wanted, NEW m \in Merges(s, wanted), m.to.fails = 0,
           NEW d, Continues(d, c, m.joined, c.answer, c.original)
    PROVE  ~m.joined /\ PartlyShown(m.to.emitter, d, c.original, c.answer, rep, W, o)
<1>1. Joins(s, wanted, m, k)
  BY MergesWell
<1>2. PICK t \in Rendered(s) :
        /\ Well(t, k) /\ t.fails = 0
        /\ m.joined <=> t.emitter.prev # <<>>
        /\ ~m.joined => m.to = t
  BY <1>1 DEF Joins
<1>3. HalfWay(t, c, rep, W, o)
  BY <1>2, HalfWayRendered
<1> DEFINE e == t.emitter
<1>4. /\ c.state = "stream" /\ e.prev = <<>> /\ Original(e, c, W, o)
      /\ Shows(e, Restore(c), W, o) /\ Apart(e.settled, e.scr) /\ Apart(e.settled, c.original)
  BY <1>3 DEF HalfWay
<1>5. ~m.joined /\ m.to = t
  BY <1>2, <1>4
<1>6. /\ d.state = c.state /\ d.original = c.original /\ d.mergeAll = c.mergeAll
      /\ ~d.merged
      /\ d.answer = c.answer /\ d.restore = c.original
  BY <1>5 DEF Continues
<1>7. Restore(d) = c.original
  BY <1>6 DEF Restore
<1>8. (\A x : Tidy(<<>>, x)) /\ Of(<<>>) = {}
  BY NothingIsTidy
<1>9. Tidy(c.original, o)
  BY <1>4, PlainIsWhole DEF Original
<1> HIDE DEF e
<1>10. Shows(e, c.original, W, o)
  <2>1. W \subseteq Of(e.settled) \cup Of(e.prev) \cup Of(c.original)
    BY <1>4 DEF Original
  <2>2. QED
    BY <1>4, <1>8, <1>9, <2>1 DEF Shows, Apart
<1>11. Original(e, d, W, o)
  BY <1>4, <1>6 DEF Original
<1>12. PartlyShown(e, d, c.original, c.answer, rep, W, o)
  BY <1>4, <1>6, <1>7, <1>10, <1>11 DEF PartlyShown
<1>13. QED
  BY <1>5, <1>12 DEF e

LEMMA ProgressSound ==
    ASSUME OutputInv, SoundInv, Fits, Progress
    PROVE  SoundInv'
<1> DEFINE c == transform
<1>1. /\ c.state = "stream" /\ c.state # "none" /\ c # NoTransform /\ ~speaking
      /\ UNCHANGED <<speaking, now, parts, loop, replied, owed, stranded, excused, cut>>
  BY Here DEF Progress, utterance
<1>2. PICK answer \in Answers \cup Bare :
          /\ c.typed => answer = c.answer
          /\ \E m \in Merges(Typist, JoinsPrevious(c, SeenToRevise(answer))) :
                LET wanted == JoinsPrevious(c, SeenToRevise(answer))
                    merged == c.merged \/ m.joined
                    restore == IF c.typed /\ ~wanted THEN c.restore
                               ELSE IF merged THEN m.to.emitter.scr ELSE c.original
                IN  /\ Goes(Published(m.to, SubSeq(Body(answer, c, restore), 1, 1), TransformCap))
                    /\ transform' = [c EXCEPT !.merged = merged, !.typed = TRUE,
                                              !.answer = answer, !.restore = restore]
  BY DEF Progress
<1> DEFINE wanted == JoinsPrevious(c, SeenToRevise(answer))
<1>3. PICK m \in Merges(Typist, wanted) :
          LET merged == c.merged \/ m.joined
              restore == IF c.typed /\ ~wanted THEN c.restore
                         ELSE IF merged THEN m.to.emitter.scr ELSE c.original
          IN  /\ Goes(Published(m.to, SubSeq(Body(answer, c, restore), 1, 1), TransformCap))
              /\ transform' = [c EXCEPT !.merged = merged, !.typed = TRUE,
                                        !.answer = answer, !.restore = restore]
  BY <1>2
<1> DEFINE merged == c.merged \/ m.joined
           restore == IF c.typed /\ ~wanted THEN c.restore
                      ELSE IF merged THEN m.to.emitter.scr ELSE c.original
           part == SubSeq(Body(answer, c, restore), 1, 1)
           s == Published(m.to, part, TransformCap)
           d == transform'
<1>4. /\ c \in [state: {"stream", "future"}, original: Texts(now), mergeAll: BOOLEAN, merged: BOOLEAN,
                typed: BOOLEAN, restore: Texts(now), answer: Answers \cup Bare \cup {"none"}]
      /\ c.original \in Texts(now) /\ c.original # <<>> /\ c.restore \in Texts(now) /\ c.merged \in BOOLEAN
  BY <1>1, Here, TransformIs
<1>5. /\ Well(Typist, now) /\ now \in Nat /\ Typist.fails = fails
      /\ (fails = 0 /\ ~cut) => Sound(Typist, speaking, now, parts, transform, replied, Needed, owed)
  BY SoundHere
<1>6. wanted <=> (~c.merged /\ (c.mergeAll \/ (SeenToRevise(answer) /\ replied)))
  BY DEF JoinsPrevious
<1>7. Goes(s) /\ d = [c EXCEPT !.merged = merged, !.typed = TRUE, !.answer = answer, !.restore = restore]
  BY <1>3
<1> HIDE DEF wanted, c
<1>8. Well(m.to, now) /\ (m.to.fails = 0 => Typist.fails = 0) /\ m.joined \in BOOLEAN
      /\ m.to.emitter.scr \in Texts(now)
  <2>1. Well(m.to, now) /\ (m.to.fails = 0 => Typist.fails = 0)
    BY <1>5, MergesKeep
  <2>2. m.joined \in BOOLEAN /\ m.to.emitter.scr \in Texts(now)
    BY <1>5, MergesOK DEF Well
  <2>3. QED
    BY <2>1, <2>2
<1>9. restore \in Texts(now) /\ merged \in BOOLEAN
  BY <1>4, <1>8
<1>10. c.typed /\ ~wanted => restore = c.restore
  OBVIOUS
<1>11. ~(c.typed /\ ~wanted) => restore = IF merged THEN m.to.emitter.scr ELSE c.original
  OBVIOUS
<1>12. merged <=> c.merged \/ m.joined
  OBVIOUS
<1> HIDE DEF merged, restore
<1>13. /\ d.state = "stream" /\ d.original = c.original /\ d.mergeAll = c.mergeAll
       /\ d.merged = merged /\ d.answer = answer /\ d.restore = restore /\ d.typed = TRUE
  BY <1>1, <1>4, <1>7, <1>9
<1>14. d # NoTransform
  <2>1. NoTransform.state = "none"
    BY DEF NoTransform
  <2>2. QED
    BY <1>13, <2>1
<1> HIDE DEF d
<1>15. part \in Texts(now) /\ part = SubSeq(Body(answer, d, restore), 1, 1)
  <2>1. Body(answer, c, restore) = Body(answer, d, restore)
    BY <1>13 DEF Body
  <2>2. SubSeq(Body(answer, c, restore), 1, 1) \in Texts(now)
    BY <1>4, <1>5, <1>9, BodyIs
  <2>3. QED
    BY <2>1, <2>2
<1> HIDE DEF part
<1>16. IsPublished(s, m.to, part, TransformCap, now)
  BY <1>5, <1>8, <1>15, PublishedIs
<1>17. /\ Well(s, now) /\ s.emitter = m.to.emitter /\ s.fails = m.to.fails
       /\ s.pending.text = part /\ s.pending.cap = TransformCap
  BY <1>16 DEF IsPublished
<1> HIDE DEF s
<1>18. ASSUME m.to.fails = 0, ~cut
       PROVE  PartlyShown(m.to.emitter, d, restore, answer, replied, Needed, owed)
  <2>4. FitsIn(Typist)
    BY <1>5, <1>8, <1>18 DEF Fits
  <2>1. CASE ~c.typed
    <3>1. Untouched(Typist, c, Needed, owed)
      BY <1>1, <1>5, <1>8, <1>18, <2>1 DEF Sound, c
    <3>2. ~c.merged
      BY <3>1 DEF Untouched
    <3>3. /\ wanted <=> (c.mergeAll \/ (SeenToRevise(answer) /\ replied))
          /\ restore = IF m.joined THEN m.to.emitter.scr ELSE c.original
          /\ Continues(d, c, m.joined, answer, restore)
      BY <1>1, <1>6, <1>11, <1>12, <1>13, <2>1, <3>2 DEF Continues
    <3>4. QED
      BY <1>1, <1>4, <1>5, <1>18, <2>4, <3>1, <3>3, UntouchedPart
  <2>2. CASE c.typed
    <3>1. HalfWay(Typist, c, replied, Needed, owed) /\ answer = c.answer
      BY <1>1, <1>2, <1>5, <1>8, <1>18, <2>2 DEF Sound, c
    <3>2. CASE ~wanted
      <4>1. m.to = Typist /\ ~m.joined
        BY <3>2 DEF Merges
      <4>2. restore = c.restore /\ Continues(d, c, c.merged, c.answer, c.restore)
        BY <1>1, <1>10, <1>12, <1>13, <2>2, <3>1, <3>2, <4>1 DEF Continues
      <4>3. PartlyShown(Typist.emitter, d, c.restore, c.answer, replied, Needed, owed)
        BY <1>5, <3>1, <4>2, FurtherPart
      <4>4. QED
        BY <3>1, <4>1, <4>2, <4>3
    <3>3. CASE wanted
      <4>1. ~c.merged /\ (c.mergeAll \/ (SeenToRevise(c.answer) /\ replied))
        BY <1>6, <3>1, <3>3
      <4>2. Joins(Typist, wanted, m, now)
        BY <1>5, <1>18, MergesWell
      <4>3. PICK t \in Rendered(Typist) :
              t.fails = 0 /\ (m.joined <=> t.emitter.prev # <<>>)
        BY <3>3, <4>2 DEF Joins
      <4>4. HalfWay(t, c, replied, Needed, owed)
        BY <1>5, <2>4, <3>1, <4>3, HalfWayRendered
      <4>5. ~m.joined
        BY <4>1, <4>3, <4>4 DEF HalfWay
      <4>6. restore = c.original /\ Continues(d, c, m.joined, c.answer, c.original)
        BY <1>1, <1>11, <1>12, <1>13, <3>1, <3>3, <4>1, <4>5 DEF Continues
      <4>7. PartlyShown(m.to.emitter, d, c.original, c.answer, replied, Needed, owed)
        BY <1>4, <1>5, <1>18, <2>4, <3>1, <3>3, <4>1, <4>6, NothingToJoin
      <4>8. QED
        BY <3>1, <4>6, <4>7
    <3>4. QED
      BY <3>2, <3>3
  <2>3. QED
    BY <2>1, <2>2
<1>19. (s.fails = 0 /\ ~cut) => HalfWay(s, d, replied, Needed, owed)
  <2> SUFFICES ASSUME s.fails = 0, ~cut PROVE HalfWay(s, d, replied, Needed, owed)
    OBVIOUS
  <2>1. PartlyShown(s.emitter, d, restore, answer, replied, Needed, owed)
    BY <1>17, <1>18
  <2>2. d.original \in Texts(now) /\ d.original # <<>>
    BY <1>4, <1>13
  <2>3. QED
    BY <1>5, <1>9, <1>15, <1>17, <2>1, <2>2, PartPublished
<1>20. Needed' = Needed
  BY <1>1 DEF Needed
<1>21. (s.fails = 0 /\ ~cut') =>
          Sound(s, speaking', now', parts', transform', replied', Needed', owed')
  BY <1>1, <1>13, <1>14, <1>19, <1>20 DEF Sound, d
<1>22. LoopInv'
  BY <1>1 DEF SoundInv, LoopInv
<1>23. QED
  BY <1>5, <1>7, <1>17, <1>21, <1>22, SoundKept

-----------------------------------------------------------------------------
(* All of it.                                                              *)

LEMMA InitSound == OutputInit => SoundInv
<1> SUFFICES ASSUME OutputInit PROVE SoundInv
  OBVIOUS
<1>1. /\ emitter = NewEmitter /\ pending = NoText /\ loop = "on" /\ speaking = FALSE /\ parts = <<>>
      /\ transform = NoTransform /\ fails = 0 /\ owed = {} /\ stranded = {} /\ excused = {} /\ cut = FALSE
  BY DEF OutputInit
<1> DEFINE none == <<>>
<1>2. emitter.scr = none /\ emitter.prev = none /\ emitter.settled = none /\ emitter.frozen = FALSE
  BY <1>1 DEF NewEmitter
<1>3. Of(none) = {} /\ \A o : Tidy(none, o)
  BY NothingIsTidy
<1> HIDE DEF none
<1>4. LoopInv /\ CoolInv
  BY <1>1, <1>2 DEF LoopInv, CoolInv
<1>5. Needed = {}
  BY <1>1 DEF Needed
<1>6. Typist.emitter = emitter /\ Typist.pending = pending
  BY DEF Typist
<1>7. Shows(emitter, emitter.scr, Needed, owed)
  BY <1>2, <1>3, <1>5 DEF Shows, Apart
<1>8. ToShow(Typist, now, Needed, owed)
  BY <1>1, <1>6, <1>7 DEF ToShow, Caught
<1>9. ShownInv
  BY <1>1, <1>8 DEF ShownInv, Sound
<1>10. QED
  BY <1>4, <1>9 DEF SoundInv

LEMMA NextSound == OutputInv /\ SoundInv /\ Fits /\ [OutputNext]_outputVars => SoundInv'
<1> SUFFICES ASSUME OutputInv, SoundInv, Fits, [OutputNext]_outputVars PROVE SoundInv'
  OBVIOUS
<1>1. CASE StartUtterance
  BY <1>1, StartUtteranceSound
<1>2. CASE Hypothesis
  BY <1>2, HypothesisSound
<1>3. CASE Rollover
  BY <1>3, RolloverSound
<1>4. CASE EndOfSpeech
  <2>1. speaking /\ EndUtterance("on")
    BY <1>4 DEF EndOfSpeech
  <2>2. QED
    BY <2>1, EndUtteranceSound
<1>5. CASE Progress
  BY <1>5, ProgressSound
<1>6. CASE Finish
  BY <1>6, FinishSound
<1>7. CASE Fails
  BY <1>7, FailsSound
<1>8. CASE EmptyRevision
  BY <1>8, EmptyRevisionSound
<1>9. CASE Apply
  BY <1>9, ApplySound
<1>10. CASE Prefetches \/ Transforms \/ Answered
  BY <1>10, ThreadSound
<1>11. CASE Render
  BY <1>11, RenderSound
<1>12. CASE Stop
  <2>1. CASE speaking /\ EndUtterance("draining")
    BY <2>1, EndUtteranceSound
  <2>2. CASE /\ ~speaking /\ loop' = "draining"
             /\ UNCHANGED <<mode, typing, utterance, llm, transform, replied, owed, stranded, excused, cut>>
    BY <1>12, <2>2, StopsSound DEF Stop
  <2>3. QED
    BY <1>12, <2>1, <2>2 DEF Stop
<1>13. CASE Drained
  BY <1>13, DrainedSound
<1>14. CASE Dies
  BY <1>14, DiesSound
<1>15. CASE Close
  BY <1>15, CloseSound
<1>16. CASE UNCHANGED outputVars
  <2>1. /\ UNCHANGED <<typing, utterance>> /\ UNCHANGED <<transform, replied, owed, stranded, excused, cut>>
        /\ loop' = loop
    BY <1>16 DEF outputVars
  <2>2. LoopInv'
    BY <2>1 DEF SoundInv, LoopInv, utterance
  <2>3. QED
    BY <2>1, <2>2, NothingTouched
<1>17. QED
  BY <1>1, <1>2, <1>3, <1>4, <1>5, <1>6, <1>7, <1>8, <1>9, <1>10, <1>11, <1>12, <1>13, <1>14, <1>15, <1>16
     DEF OutputNext

\* At rest everything is shown.
LEMMA RestShows ==
    ASSUME OutputInv, SoundInv, AtRest
    PROVE  /\ Needed \subseteq Of(emitter.screen)
           /\ Tidy(emitter.screen, owed)
<1>1. /\ Well(Typist, now) /\ now \in Nat /\ Typist.emitter = emitter /\ Typist.pending = pending
      /\ Typist.fails = fails
      /\ (fails = 0 /\ ~cut) => Sound(Typist, speaking, now, parts, transform, replied, Needed, owed)
  BY SoundHere
<1>2. ~speaking /\ transform = NoTransform /\ pending = NoText /\ fails = 0 /\ ~cut
  BY DEF AtRest, SoundInv, LoopInv
<1>3. Shows(emitter, emitter.scr, Needed, owed)
  BY <1>1, <1>2 DEF Sound, ToShow, Caught, PutBack
<1>4. EmitterOK(emitter, Vocabulary(now)) /\ ~emitter.frozen
  BY <1>1, <1>2, WellIs
<1>5. Shows(Disowned(emitter), Disowned(emitter).scr, Needed, owed)
  BY <1>1, <1>3, <1>4, ShowsDisowned
<1> DEFINE none == <<>>
           d == Disowned(emitter)
<1>6. d.settled = emitter.screen /\ d.prev = none /\ d.scr = none
  <2>1. emitter \in EmitterOf(Vocabulary(now))
    BY <1>4 DEF EmitterOK
  <2> HIDE DEF none
  <2>2. d = [emitter EXCEPT !.scr = none, !.prev = none, !.settled = emitter.screen]
    BY DEF Disowned, none
  <2>3. QED
    BY <2>1, <2>2 DEF EmitterOf
<1>7. Of(none) = {}
  BY NothingIsText
<1>8. Shows(d, d.scr, Needed, owed)
  BY <1>5
<1> HIDE DEF d, none
<1>9. QED
  BY <1>6, <1>7, <1>8 DEF Shows

LEMMA RestKeepsWords ==
    ASSUME OutputInv, SoundInv
    PROVE  WordsStay
  BY RestShows DEF WordsStay, Needed

LEMMA RestIsWhole ==
    ASSUME OutputInv, SoundInv
    PROVE  ReplacesWhole
<1>1. NoHalfReply
  BY RestShows DEF NoHalfReply, Whole, Tidy, WholeFor
<1>2. SaidOnce
  <2> SUFFICES ASSUME AtRest PROVE SaidOnce
    BY DEF SaidOnce
  <2>1. Neat(emitter.screen)
    BY RestShows DEF Tidy
  <2>2. QED
    BY <2>1 DEF SaidOnce, Neat, IsReply
<1>3. QED
  BY <1>1, <1>2 DEF ReplacesWhole

-----------------------------------------------------------------------------
(* How long the regions get.                                               *)

\* What is typed grows by at most two tokens an utterance: k utterances have
\* begun, and the current one has room for two tokens of its own.
Room(s, k) ==
    /\ Len(s.emitter.prev) + Len(s.emitter.scr) <= 2 * k
    /\ Len(s.emitter.prev) + Len(s.pending.text) <= 2 * k
    /\ k > 0 => Len(s.emitter.prev) <= 2 * (k - 1)
RoomFor(c, e, k) ==
    c # NoTransform =>
        /\ k > 0
        /\ Len(c.original) <= IF c.mergeAll THEN 2 * k ELSE 2
        /\ c.typed => Len(e.prev) + Len(Restore(c)) <= 2 * k
RoomInv == (fails = 0 /\ ~cut) =>
    /\ Room(Typist, now)
    /\ speaking => Len(parts) <= 2 * (now - 1)
    /\ RoomFor(transform, emitter, now)

LEMMA LengthsAre ==
    ASSUME NEW k \in Nat, NEW s, Well(s, k)
    PROVE  /\ Len(s.emitter.prev) \in Nat /\ Len(s.emitter.scr) \in Nat /\ Len(s.pending.text) \in Nat
           /\ s.pending = NoText => Len(s.pending.text) = 0
           /\ s.emitter.prev = <<>> => Len(s.emitter.prev) = 0
<1>1. s.emitter.prev \in Texts(k) /\ s.emitter.scr \in Texts(k) /\ s.pending.text \in Texts(k)
  BY WellIs
<1>2. Len(s.emitter.prev) \in Nat /\ Len(s.emitter.scr) \in Nat /\ Len(s.pending.text) \in Nat
  BY <1>1, TextIs
<1>3. s.pending = NoText => Len(s.pending.text) = 0
  BY DEF NoText
<1>4. s.emitter.prev = <<>> => Len(s.emitter.prev) = 0
  OBVIOUS
<1>5. QED
  BY <1>2, <1>3, <1>4

\* Typing a text for which there is room.
Roomy(r, k) == Well(r, k) /\ Room(r, k) /\ r.pending = NoText

LEMMA ShownRoom ==
    ASSUME NEW k \in Nat, NEW p \in Nat, NEW x \in Nat, NEW y \in Nat, NEW n \in 0..x, NEW z \in Nat,
           p + x <= 2 * k, p + y <= 2 * k, z = IF n <= y THEN y ELSE n
    PROVE  p + z <= 2 * k /\ p + 0 <= 2 * k
  OBVIOUS

LEMMA TypedRoom ==
    ASSUME NEW k \in Nat, NEW s, Well(s, k), Room(s, k), NEW text \in Texts(k), NEW cap \in Nat,
           Len(s.emitter.prev) + Len(text) <= 2 * k, NEW r \in Typed(s, text, cap), r.fails = 0
    PROVE  Roomy(r, k) /\ r.emitter.prev = s.emitter.prev
<1>1. /\ Well(r, k) /\ r.pending = NoText /\ r.emitter.prev = s.emitter.prev
      /\ \E n \in 0..Len(s.emitter.scr) : r.emitter.scr = RegionShown(s.emitter, text, n)
  BY TypedWell
<1>2. PICK n \in 0..Len(s.emitter.scr) : r.emitter.scr = RegionShown(s.emitter, text, n)
  BY <1>1
<1>3. s.emitter.scr \in Texts(k)
  BY WellIs
<1>4. \E q \in Texts(k) : q = RegionShown(s.emitter, text, n) /\ Len(q) = IF n <= Len(text) THEN Len(text) ELSE n
  BY <1>3, RegionIs
<1>5. Len(r.emitter.scr) = IF n <= Len(text) THEN Len(text) ELSE n
  BY <1>2, <1>4
<1>6. Len(s.emitter.prev) \in Nat /\ Len(s.emitter.scr) \in Nat
  BY LengthsAre
<1>7. Len(r.emitter.scr) \in Nat /\ Len(r.pending.text) = 0
  BY <1>1, LengthsAre
<1>8. Len(text) \in Nat
  BY TextIs
<1>9. Len(s.emitter.prev) + Len(s.emitter.scr) <= 2 * k
  BY DEF Room
<1>10. Len(s.emitter.prev) + Len(r.emitter.scr) <= 2 * k /\ Len(s.emitter.prev) + 0 <= 2 * k
  BY <1>5, <1>6, <1>7, <1>8, <1>9, ShownRoom
<1>11. Room(r, k)
  BY <1>1, <1>7, <1>10 DEF Room
<1>12. QED
  BY <1>1, <1>11 DEF Roomy

LEMMA RenderedRoom ==
    ASSUME NEW k \in Nat, NEW s, Well(s, k), Room(s, k), NEW r \in Rendered(s), r.fails = 0
    PROVE  Roomy(r, k) /\ r.emitter.prev = s.emitter.prev
<1>1. CASE s.pending = NoText
  <2>1. r = s
    BY <1>1 DEF Rendered
  <2>2. QED
    BY <1>1, <2>1 DEF Roomy
<1>2. CASE s.pending # NoText
  <2>1. r \in Typed(s, s.pending.text, s.pending.cap)
    BY <1>2 DEF Rendered
  <2>2. s.pending.text \in Texts(k) /\ s.pending.cap \in Nat
    BY WellIs
  <2>3. Len(s.emitter.prev) + Len(s.pending.text) <= 2 * k
    BY DEF Room
  <2>4. QED
    BY <2>1, <2>2, <2>3, TypedRoom
<1>3. QED
  BY <1>1, <1>2

LEMMA ConcatLength ==
    ASSUME NEW k \in Nat, NEW a \in Texts(k), NEW b \in Texts(k)
    PROVE  Len(a \o b) = Len(a) + Len(b) /\ Len(a \o b) \in Nat /\ Len(a) \in Nat /\ Len(b) \in Nat
<1>1. \E c \in Texts(k) : c = a \o b /\ Len(c) = Len(a) + Len(b)
  BY ConcatIs
<1>2. QED
  BY <1>1, TextIs

\* Little is typed yet.
LEMMA RoomOf ==
    ASSUME NEW k \in Nat, NEW r, NEW p \in Nat, NEW q \in Nat, Len(r.emitter.prev) = p, Len(r.emitter.scr) = q,
           Len(r.pending.text) = 0, p + q <= 2 * k, k > 0 => p <= 2 * (k - 1)
    PROVE  Room(r, k)
  BY DEF Room

LEMMA RoomSum ==
    ASSUME NEW k \in Nat, NEW a \in Nat, NEW b \in Nat, a + b <= 2 * k
    PROVE  /\ a + b \in Nat /\ 0 \in Nat /\ 0 + (a + b) <= 2 * k /\ (k > 0 => 0 <= 2 * (k - 1))
           /\ b <= 2 * k /\ a <= 2 * k
  OBVIOUS

LEMMA BegunRoom ==
    ASSUME NEW k \in Nat, NEW t, Roomy(t, k), t.fails = 0, NEW carry \in BOOLEAN,
           NEW r, r = [t EXCEPT !.emitter = Begun(t.emitter, carry)]
    PROVE  Room(r, k + 1)
<1> DEFINE none == <<>>
           p == IF carry THEN t.emitter.prev \o t.emitter.scr ELSE t.emitter.scr
<1>1. Well(t, k) /\ Room(t, k) /\ t.pending = NoText
  BY DEF Roomy
<1>2. r.emitter = Begun(t.emitter, carry) /\ r.pending = NoText /\ Well(r, k)
  BY <1>1, BegunWell
<1>3. ~t.emitter.frozen /\ t.emitter.prev \in Texts(k) /\ t.emitter.scr \in Texts(k)
      /\ t.emitter \in EmitterOf(Vocabulary(k))
  BY <1>1, WellIs, EmitterTexts
<1>4. r.emitter.prev = p /\ r.emitter.scr = none
  <2> HIDE DEF none
  <2>1. Begun(t.emitter, carry) =
           [t.emitter EXCEPT !.prev = p, !.scr = none, !.frozen = FALSE,
                             !.settled = IF carry THEN @ ELSE @ \o t.emitter.prev]
    BY <1>3 DEF Begun, none
  <2> HIDE DEF p
  <2>2. QED
    BY <1>2, <1>3, <2>1 DEF EmitterOf
<1>5. Len(t.emitter.prev) \in Nat /\ Len(t.emitter.scr) \in Nat
  BY <1>1, LengthsAre
<1>6. Len(p) <= 2 * k /\ Len(p) \in Nat
  <2>1. Len(t.emitter.prev) + Len(t.emitter.scr) <= 2 * k
    BY <1>1 DEF Room
  <2>2. CASE carry
    <3>1. /\ Len(t.emitter.prev \o t.emitter.scr) = Len(t.emitter.prev) + Len(t.emitter.scr)
          /\ Len(t.emitter.prev \o t.emitter.scr) \in Nat
      BY <1>3, ConcatLength
    <3>2. p = t.emitter.prev \o t.emitter.scr
      BY <2>2
    <3> HIDE DEF p
    <3>3. Len(p) = Len(t.emitter.prev) + Len(t.emitter.scr)
      BY <3>1, <3>2
    <3>4. QED
      BY <2>1, <3>1, <3>2, <3>3
  <2>3. CASE ~carry
    <3>1. p = t.emitter.scr
      BY <2>3
    <3> HIDE DEF p
    <3>2. QED
      BY <1>5, <2>1, <3>1, RoomSum
  <2>4. QED
    BY <2>2, <2>3
<1>7. Len(none) = 0
  OBVIOUS
<1>8. Len(r.pending.text) = 0
  BY <1>2, LengthsAre
<1> HIDE DEF none, p
<1>9. QED
  <2>1. Len(r.emitter.prev) = Len(p) /\ Len(r.emitter.scr) = 0
    BY <1>4, <1>7
  <2>2. k + 1 \in Nat /\ 0 \in Nat /\ Len(p) + 0 <= 2 * (k + 1) /\ Len(p) <= 2 * ((k + 1) - 1)
    BY <1>6
  <2>3. QED
    BY <1>6, <1>8, <2>1, <2>2, RoomOf

LEMMA MergedRoom ==
    ASSUME NEW k \in Nat, NEW t, Roomy(t, k), t.fails = 0,
           NEW r, r = [t EXCEPT !.emitter = Merged(t.emitter)]
    PROVE  Roomy(r, k) /\ r.emitter.prev = <<>> /\ Len(r.emitter.prev) = 0
<1> DEFINE none == <<>>
<1>1. Well(t, k) /\ Room(t, k) /\ t.pending = NoText
  BY DEF Roomy
<1>2. r.emitter = Merged(t.emitter) /\ r.pending = NoText /\ Well(r, k)
  BY <1>1, MergedWell
<1>3. ~t.emitter.frozen /\ t.emitter.prev \in Texts(k) /\ t.emitter.scr \in Texts(k)
      /\ EmitterOK(t.emitter, Vocabulary(k))
  BY <1>1, WellIs
<1>4. r.emitter.prev = none /\ r.emitter.scr = t.emitter.prev \o t.emitter.scr
  BY <1>2, <1>3, MergedIs
<1>5. Len(t.emitter.prev \o t.emitter.scr) = Len(t.emitter.prev) + Len(t.emitter.scr)
  BY <1>3, ConcatLength
<1>6. Len(t.emitter.prev) \in Nat /\ Len(t.emitter.scr) \in Nat
  BY <1>1, LengthsAre
<1>7. Len(none) = 0
  OBVIOUS
<1>8. Len(r.pending.text) = 0
  BY <1>2, LengthsAre
<1>9. Len(t.emitter.prev) + Len(t.emitter.scr) <= 2 * k
  BY <1>1 DEF Room
<1>10. r.emitter.prev = <<>>
  BY <1>4
<1> HIDE DEF none
<1>11. Room(r, k)
  <2> DEFINE n == Len(t.emitter.prev) + Len(t.emitter.scr)
  <2>1. Len(r.emitter.prev) = 0 /\ Len(r.emitter.scr) = n
    BY <1>4, <1>5, <1>7
  <2>2. n \in Nat /\ 0 \in Nat /\ 0 + n <= 2 * k /\ (k > 0 => 0 <= 2 * (k - 1))
    BY <1>6, <1>9, RoomSum
  <2> HIDE DEF n
  <2>3. QED
    BY <1>8, <2>1, <2>2, RoomOf
<1>12. QED
  BY <1>2, <1>4, <1>7, <1>10, <1>11 DEF Roomy

LEMMA DisownedRoom ==
    ASSUME NEW k \in Nat, NEW t, Roomy(t, k), NEW r, r = [t EXCEPT !.emitter = Disowned(t.emitter)]
    PROVE  Roomy(r, k)
<1> DEFINE none == <<>>
<1>1. Well(t, k) /\ Room(t, k) /\ t.pending = NoText
  BY DEF Roomy
<1>2. r.emitter = Disowned(t.emitter) /\ r.pending = NoText /\ Well(r, k)
  BY <1>1, DisownedWell
<1>3. t.emitter \in EmitterOf(Vocabulary(k))
  BY <1>1, WellIs, EmitterTexts
<1>4. r.emitter.prev = none /\ r.emitter.scr = none
  <2> HIDE DEF none
  <2>1. Disowned(t.emitter) = [t.emitter EXCEPT !.scr = none, !.prev = none, !.settled = t.emitter.screen]
    BY DEF Disowned, none
  <2>2. QED
    BY <1>2, <1>3, <2>1 DEF EmitterOf
<1>5. Len(none) = 0
  OBVIOUS
<1>6. Len(r.pending.text) = 0
  BY <1>2, LengthsAre
<1> HIDE DEF none
<1>7. Room(r, k)
  <2>1. Len(r.emitter.prev) = 0 /\ Len(r.emitter.scr) = 0
    BY <1>4, <1>5
  <2>2. 0 \in Nat /\ 0 + 0 <= 2 * k /\ (k > 0 => 0 <= 2 * (k - 1))
    OBVIOUS
  <2>3. QED
    BY <1>6, <2>1, <2>2, RoomOf
<1>8. QED
  BY <1>2, <1>7 DEF Roomy

\* A text published where there is room for it.
LEMMA PublishedRoom ==
    ASSUME NEW k \in Nat, NEW s, Room(s, k), NEW r, r.emitter = s.emitter,
           Len(s.emitter.prev) + Len(r.pending.text) <= 2 * k
    PROVE  Room(r, k)
  BY DEF Room

\* The current utterance has room for two tokens.
LEMMA RoomForTwo ==
    ASSUME NEW k \in Nat, k # 0, NEW s, Well(s, k), Room(s, k), NEW n \in 0..2
    PROVE  Len(s.emitter.prev) + n <= 2 * k
<1>1. Len(s.emitter.prev) \in Nat /\ Len(s.emitter.prev) <= 2 * (k - 1)
  BY LengthsAre DEF Room
<1>2. QED
  BY <1>1

LEMMA RoomKept ==
    ASSUME NEW k \in Nat, NEW s, Well(s, k), Goes(s),
           (s.fails = 0 /\ ~cut') =>
              /\ Room(s, now')
              /\ speaking' => Len(parts') <= 2 * (now' - 1)
              /\ RoomFor(transform', s.emitter, now')
    PROVE  RoomInv'
<1>1. s = [emitter |-> s.emitter, pending |-> s.pending, fails |-> s.fails]
  BY DEF Well, TypistOK
<1>2. Typist' = s /\ emitter' = s.emitter /\ fails' = s.fails
  BY <1>1 DEF Goes, Typist
<1>3. QED
  BY <1>2 DEF RoomInv

LEMMA CancelledRoom ==
    ASSUME NEW k \in Nat, NEW s, Well(s, k), Room(s, k), NEW c, TransformOK(c, k), RoomFor(c, s.emitter, k)
    PROVE  Room(Cancelled(s, c), k)
<1>1. CASE c.state = "stream" /\ c.typed
  <2>1. c # NoTransform /\ Restore(c) \in Texts(k)
    BY <1>1, TransformIs
  <2>2. Cancelled(s, c) = Published(s, Restore(c), TransformCap)
    BY <1>1 DEF Cancelled, Restored
  <2>3. TransformCap \in {0, LiveCap, TransformCap}
    OBVIOUS
  <2>4. IsPublished(Published(s, Restore(c), TransformCap), s, Restore(c), TransformCap, k)
    BY <2>1, <2>3, PublishedIs
  <2>5. Cancelled(s, c).emitter = s.emitter /\ Cancelled(s, c).pending.text = Restore(c)
    BY <2>2, <2>4 DEF IsPublished
  <2>6. Len(s.emitter.prev) + Len(Restore(c)) <= 2 * k
    BY <1>1, <2>1 DEF RoomFor
  <2>7. QED
    BY <2>5, <2>6, PublishedRoom
<1>2. CASE ~(c.state = "stream" /\ c.typed)
  BY <1>2 DEF Cancelled
<1>3. QED
  BY <1>1, <1>2

-----------------------------------------------------------------------------
(* Each action: its room.                                                  *)

LEMMA NothingMoreRoom ==
    ASSUME RoomInv, UNCHANGED <<typing, utterance>>, UNCHANGED <<transform, cut>>
    PROVE  RoomInv'
  BY DEF typing, utterance, RoomInv, Typist

\* What is left when no utterance is open and no transform is in flight.
LEMMA RoomLeft ==
    ASSUME NEW k \in Nat, k = now', NEW s, Well(s, k), Goes(s), ~speaking', transform' = NoTransform,
           (s.fails = 0 /\ ~cut') => Room(s, k)
    PROVE  RoomInv'
<1>1. RoomFor(transform', s.emitter, now')
  BY DEF RoomFor
<1>2. QED
  BY <1>1, RoomKept

LEMMA FailsRoom ==
    ASSUME OutputInv, SoundInv, RoomInv, Fails
    PROVE  RoomInv'
<1> DEFINE r == Cancelled(Typist, transform)
<1>1. Goes(r) /\ transform' = NoTransform /\ transform.state # "none" /\ UNCHANGED <<speaking, now, cut>>
  BY DEF Fails, utterance
<1>2. /\ Well(Typist, now) /\ now \in Nat /\ Typist.fails = fails /\ transform # NoTransform /\ ~speaking
      /\ TransformOK(transform, now) /\ Typist.emitter = emitter
  BY <1>1, SoundHere, Here
<1>3. Well(r, now) /\ r.fails = fails
  BY <1>2, CancelledShows
<1>4. (r.fails = 0 /\ ~cut') => Room(r, now)
  BY <1>1, <1>2, <1>3, CancelledRoom DEF RoomInv
<1> HIDE DEF r
<1>5. QED
  BY <1>1, <1>2, <1>3, <1>4, RoomLeft

LEMMA RenderRoom ==
    ASSUME OutputInv, SoundInv, RoomInv, Render
    PROVE  RoomInv'
<1>1. PICK r \in Rendered(Typist) : Goes(r)
  BY DEF Render
<1>2. UNCHANGED <<speaking, now, parts, transform, cut>>
  BY DEF Render, utterance
<1>3. Well(Typist, now) /\ now \in Nat /\ Typist.fails = fails /\ Typist.emitter = emitter
  BY SoundHere
<1>4. Well(r, now) /\ (r.fails = 0 => Typist.fails = 0)
  BY <1>3, RenderedWell
<1>5. ASSUME r.fails = 0, ~cut'
      PROVE  /\ Room(r, now')
             /\ speaking' => Len(parts') <= 2 * (now' - 1)
             /\ RoomFor(transform', r.emitter, now')
  <2>1. /\ Room(Typist, now) /\ RoomFor(transform, emitter, now)
        /\ speaking => Len(parts) <= 2 * (now - 1)
    BY <1>2, <1>3, <1>4, <1>5 DEF RoomInv
  <2>2. Roomy(r, now) /\ r.emitter.prev = emitter.prev
    BY <1>3, <1>5, <2>1, RenderedRoom
  <2>3. RoomFor(transform, r.emitter, now)
    BY <2>1, <2>2 DEF RoomFor
  <2>4. QED
    BY <1>2, <2>1, <2>2, <2>3 DEF Roomy
<1>6. QED
  BY <1>1, <1>3, <1>4, <1>5, RoomKept

LEMMA CloseRoom ==
    ASSUME OutputInv, SoundInv, RoomInv, Close
    PROVE  RoomInv'
<1>1. /\ pending' = NoText /\ cut' = (cut \/ pending # NoText) /\ loop = "closing"
      /\ UNCHANGED <<emitter, fails, speaking, now, parts, transform>>
  BY DEF Close, utterance
<1>2. Well(Typist, now) /\ now \in Nat /\ Typist.emitter = emitter /\ Typist.pending = pending
  BY SoundHere
<1>3. cut \in BOOLEAN
  BY Here
<1>4. ~cut' => pending' = pending /\ ~cut
  BY <1>1, <1>3
<1>5. Typist' = [emitter |-> emitter, pending |-> pending', fails |-> fails]
  BY <1>1 DEF Typist
<1>6. ~cut' => Typist' = Typist
  BY <1>4, <1>5 DEF Typist
<1>7. QED
  BY <1>1, <1>4, <1>6 DEF RoomInv

LEMMA AtMostTwo == \A n \in Nat : n <= 1 => n \in 0..2
  OBVIOUS

LEMMA HypothesisRoom ==
    ASSUME OutputInv, SoundInv, RoomInv, Hypothesis
    PROVE  RoomInv'
<1>1. PICK text \in Hypotheses(now) : Goes(Published(Typist, text, LiveCap))
  BY DEF Hypothesis
<1> DEFINE s == Published(Typist, text, LiveCap)
<1>2. speaking /\ UNCHANGED <<speaking, now, parts, transform, cut>>
  BY DEF Hypothesis, utterance
<1>3. Well(Typist, now) /\ now \in Nat /\ Typist.fails = fails /\ Typist.emitter = emitter /\ now # 0
  BY <1>2, SoundHere
<1>4. text \in Texts(now) /\ Heard(text, now)
  BY <1>3, HypothesisHeard
<1>5. LiveCap \in {0, LiveCap, TransformCap}
  OBVIOUS
<1>6. IsPublished(s, Typist, text, LiveCap, now)
  BY <1>3, <1>4, <1>5, PublishedIs
<1>7. Well(s, now) /\ s.emitter = emitter /\ s.fails = fails /\ s.pending.text = text
  BY <1>3, <1>6 DEF IsPublished
<1> HIDE DEF s
<1>8. Len(text) \in 0..2
  <2>1. Len(text) <= 1 /\ Len(text) \in Nat
    BY <1>3, <1>4, TextIs DEF Heard
  <2>2. QED
    BY <2>1, AtMostTwo
<1>9. ASSUME s.fails = 0, ~cut'
      PROVE  /\ Room(s, now')
             /\ speaking' => Len(parts') <= 2 * (now' - 1)
             /\ RoomFor(transform', s.emitter, now')
  <2>1. /\ Room(Typist, now) /\ RoomFor(transform, emitter, now)
        /\ speaking => Len(parts) <= 2 * (now - 1)
    BY <1>2, <1>7, <1>9 DEF RoomInv
  <2>2. Len(Typist.emitter.prev) + Len(text) <= 2 * now
    BY <1>3, <1>8, <2>1, RoomForTwo
  <2>3. Room(s, now)
    BY <1>3, <1>7, <2>1, <2>2, PublishedRoom
  <2>4. QED
    BY <1>2, <1>7, <2>1, <2>3
<1>10. QED
  BY <1>1, <1>3, <1>7, <1>9, RoomKept DEF s

LEMMA StartUtteranceRoom ==
    ASSUME OutputInv, SoundInv, RoomInv, StartUtterance
    PROVE  RoomInv'
<1> DEFINE r == Cancelled(Typist, transform)
<1>1. PICK s : Goes(s) /\ \E t \in Rendered(r) : s = [t EXCEPT !.emitter = Begun(t.emitter, FALSE)]
  BY DEF StartUtterance, CancelledThenAdvanced, Calls, Fresh
<1>2. PICK t \in Rendered(r) : s = [t EXCEPT !.emitter = Begun(t.emitter, FALSE)]
  BY <1>1
<1>3. /\ ~speaking /\ now' = now + 1 /\ loop = "on" /\ transform' = NoTransform
      /\ UNCHANGED <<parts, cut>>
  BY DEF StartUtterance, Dropped
<1>4. parts = <<>>
  BY <1>3 DEF SoundInv, LoopInv
<1>5. /\ Well(Typist, now) /\ now \in Nat /\ Typist.fails = fails /\ TransformOK(transform, now)
      /\ Typist.emitter = emitter
  BY SoundHere
<1>6. Well(r, now) /\ r.fails = fails
  BY <1>5, CancelledShows
<1>7. (r.fails = 0 /\ ~cut) => Room(r, now)
  BY <1>5, <1>6, CancelledRoom DEF RoomInv
<1> HIDE DEF r
<1>8. Well(t, now) /\ (t.fails = 0 => r.fails = 0)
  BY <1>5, <1>6, RenderedWell
<1>9. NewRegion(s, t, r, now, FALSE)
  <2>1. FALSE \in BOOLEAN
    OBVIOUS
  <2>2. QED
    BY <1>2, <1>5, <1>6, <2>1, AdvancedListens
<1>10. Well(s, now + 1) /\ s.fails = t.fails
  BY <1>9 DEF NewRegion
<1>11. ASSUME s.fails = 0, ~cut'
       PROVE  Room(s, now + 1)
  <2>1. r.fails = 0 /\ ~cut /\ t.fails = 0 /\ FALSE \in BOOLEAN
    BY <1>3, <1>8, <1>10, <1>11
  <2>2. Roomy(t, now)
    BY <1>5, <1>6, <1>7, <2>1, RenderedRoom
  <2>3. QED
    BY <1>2, <1>5, <2>1, <2>2, BegunRoom
<1>12. Len(parts) <= 2 * ((now + 1) - 1)
  <2>1. Len(parts) = 0
    BY <1>4
  <2>2. QED
    BY <1>5, <2>1
<1>13. RoomFor(transform', s.emitter, now')
  BY <1>3 DEF RoomFor
<1>14. (s.fails = 0 /\ ~cut') =>
          /\ Room(s, now')
          /\ speaking' => Len(parts') <= 2 * (now' - 1)
          /\ RoomFor(transform', s.emitter, now')
  BY <1>3, <1>11, <1>12, <1>13
<1>15. now + 1 \in Nat
  BY <1>5
<1>16. QED
  BY <1>1, <1>10, <1>14, <1>15, RoomKept

-----------------------------------------------------------------------------
(* The end of an utterance: its room.                                      *)

\* The texts of an utterance's end are of two tokens at most.
LEMMA FewTokens ==
    ASSUME NEW k \in Nat, k # 0
    PROVE  /\ Final(k) \in Texts(k) /\ Len(Final(k)) = 2 /\ Len(Final(k)) \in 0..2
           /\ Tail(Final(k)) \in Texts(k) /\ Len(Tail(Final(k))) \in 0..2
           /\ <<>> \in Texts(k) /\ Len(<<>>) \in 0..2
           /\ NewLine \in Texts(k) /\ Len(NewLine) \in 0..2
           /\ Marker \in Texts(k) /\ Len(Marker) \in 0..2
<1>1. Final(k) \in Texts(k) /\ Len(Final(k)) = 2
  BY FinalIs, FinalIsSpoken
<1>2. Tail(Final(k)) = <<Token({k}, "last")>> /\ Token({k}, "last") \in Vocabulary(k)
  BY FinalIsSpoken, TokenIs
<1>3. Tail(Final(k)) \in Texts(k) /\ Len(Tail(Final(k))) = 1
  BY <1>2, OneToken
<1>4. NewLine \in Texts(k) /\ Marker \in Texts(k) /\ <<>> \in Texts(k)
  BY NewLineIs, NothingIsText
<1>5. Len(NewLine) = 1 /\ Len(Marker) = 1 /\ Len(<<>>) = 0
  BY DEF NewLine, Marker
<1>6. QED
  BY <1>1, <1>3, <1>4, <1>5

\* A sync of a text of the open utterance.
LEMMA SyncsRoom ==
    ASSUME NEW k \in Nat, k # 0, NEW s, Well(s, k), Room(s, k),
           NEW text \in Texts(k), Len(text) \in 0..2, NEW r \in Syncs(s, text), r.fails = 0
    PROVE  Roomy(r, k) /\ r.emitter.prev = s.emitter.prev
<1>1. r \in Typed(s, text, LiveCap) /\ LiveCap \in Nat
  BY OutputAssumption DEF Syncs
<1>2. Len(s.emitter.prev) + Len(text) <= 2 * k
  BY RoomForTwo
<1>3. QED
  BY <1>1, <1>2, TypedRoom

LEMMA FinalizedRoom ==
    ASSUME OutputInv, SoundInv, RoomInv, speaking, NEW f \in Finalized, f.to.fails = 0
    PROVE  Room(f.to, now) /\ Len(parts) <= 2 * (now - 1) /\ now \in Nat /\ now # 0
<1>1. Well(Typist, now) /\ now \in Nat /\ now # 0 /\ Typist.fails = fails
  BY SoundHere
<1>2. EndsWell(f)
  BY UtteranceEndsWell
<1>3. fails = 0 /\ ~cut
  BY <1>2 DEF EndsWell
<1>4. Room(Typist, now) /\ Len(parts) <= 2 * (now - 1)
  BY <1>3 DEF RoomInv
<1>5. f.to \in Syncs(Typist, Final(now)) \/ f.to \in Syncs(Typist, <<>>) \/ f.to = Typist
  BY DEF Finalized
<1>6. CASE f.to \in Syncs(Typist, Final(now))
  <2>1. Final(now) \in Texts(now) /\ Len(Final(now)) \in 0..2
    BY <1>1, FewTokens
  <2>2. Roomy(f.to, now)
    BY <1>1, <1>4, <1>6, <2>1, SyncsRoom
  <2>3. QED
    BY <1>1, <1>4, <2>2 DEF Roomy
<1>7. CASE f.to \in Syncs(Typist, <<>>)
  <2>1. <<>> \in Texts(now) /\ Len(<<>>) \in 0..2
    BY <1>1, FewTokens
  <2>2. Roomy(f.to, now)
    BY <1>1, <1>4, <1>7, <2>1, SyncsRoom
  <2>3. QED
    BY <1>1, <1>4, <2>2 DEF Roomy
<1>8. QED
  BY <1>1, <1>4, <1>5, <1>6, <1>7

\* A chain grows by the two tokens of its chunk.
LEMMA ChainGrows ==
    ASSUME NEW k \in Nat, k # 0, NEW ps \in Texts(k), Len(ps) <= 2 * (k - 1),
           NEW final, final = <<>> \/ final = Final(k)
    PROVE  /\ Len(ps \o final) <= 2 * k /\ Len(ps \o final) <= 2 * ((k + 1) - 1)
           /\ (ps = <<>> /\ final # <<>>) => Len(ps \o final) <= 2
<1>1. final \in Texts(k) /\ Len(final) \in 0..2 /\ (final # <<>> => Len(final) = 2)
  BY FewTokens
<1>2. Len(ps \o final) = Len(ps) + Len(final) /\ Len(ps) \in Nat /\ Len(final) \in Nat
  BY <1>1, ConcatLength
<1> DEFINE x == Len(ps)
           y == Len(final)
           z == Len(ps \o final)
<1>3. z = x + y /\ x \in Nat /\ y \in 0..2 /\ x <= 2 * (k - 1)
  BY <1>1, <1>2
<1>4. ps = <<>> => x = 0
  OBVIOUS
<1>5. final # <<>> => y = 2
  BY <1>1
<1> HIDE DEF x, y, z
<1>6. z <= 2 * k /\ z <= 2 * ((k + 1) - 1) /\ (x = 0 /\ y = 2 => z <= 2)
  BY <1>3
<1>7. (ps = <<>> /\ final # <<>>) => z <= 2
  BY <1>4, <1>5, <1>6
<1>8. QED
  BY <1>6, <1>7 DEF z

LEMMA RolloverRoom ==
    ASSUME OutputInv, SoundInv, RoomInv, Rollover
    PROVE  RoomInv'
<1>1. PICK f \in Finalized : (\E s \in Calls(f.to, Carried) : Goes(s)) /\ parts' = parts \o f.final
  BY DEF Rollover
<1>2. speaking /\ speaking' = speaking /\ now' = now + 1 /\ UNCHANGED <<transform, cut>>
  BY DEF Rollover
<1>3. PICK s : Goes(s) /\ \E t \in Rendered(f.to) : s = [t EXCEPT !.emitter = Begun(t.emitter, TRUE)]
  BY <1>1 DEF Calls, Carried
<1>4. PICK t \in Rendered(f.to) : s = [t EXCEPT !.emitter = Begun(t.emitter, TRUE)]
  BY <1>3
<1>5. now \in Nat /\ now # 0 /\ transform = NoTransform /\ parts \in Texts(now)
  BY <1>2, Here
<1>6. EndsWell(f)
  BY <1>2, UtteranceEndsWell
<1>7. Well(f.to, now)
  BY <1>6 DEF EndsWell
<1>8. NewRegion(s, t, f.to, now, TRUE)
  <2>1. TRUE \in BOOLEAN
    OBVIOUS
  <2>2. QED
    BY <1>4, <1>5, <1>7, <2>1, AdvancedListens
<1>9. Well(s, now + 1) /\ s.fails = t.fails
  BY <1>8 DEF NewRegion
<1>10. ASSUME s.fails = 0
       PROVE  Room(s, now + 1) /\ Len(parts') <= 2 * ((now + 1) - 1)
  <2>1. t.fails = 0 /\ TRUE \in BOOLEAN
    BY <1>9, <1>10
  <2>2. f.to.fails = 0
    BY <1>5, <1>7, <2>1, RenderedWell
  <2>3. Room(f.to, now) /\ Len(parts) <= 2 * (now - 1)
    BY <1>2, <2>2, FinalizedRoom
  <2>4. Roomy(t, now)
    BY <1>5, <1>7, <2>1, <2>3, RenderedRoom
  <2>5. Room(s, now + 1)
    BY <1>4, <1>5, <2>1, <2>4, BegunRoom
  <2>6. f.final = <<>> \/ f.final = Final(now)
    BY FinalOrNone
  <2>7. Len(parts') <= 2 * ((now + 1) - 1)
    BY <1>1, <1>5, <2>3, <2>6, ChainGrows
  <2>8. QED
    BY <2>5, <2>7
<1>11. RoomFor(transform', s.emitter, now')
  BY <1>2, <1>5 DEF RoomFor
<1>12. (s.fails = 0 /\ ~cut') =>
          /\ Room(s, now')
          /\ speaking' => Len(parts') <= 2 * (now' - 1)
          /\ RoomFor(transform', s.emitter, now')
  BY <1>2, <1>10, <1>11
<1>13. now + 1 \in Nat
  BY <1>5
<1>14. QED
  BY <1>3, <1>9, <1>12, <1>13, RoomKept

LEMMA DiesRoom ==
    ASSUME OutputInv, SoundInv, RoomInv, Dies
    PROVE  RoomInv'
<1>1. loop = "on" /\ speaking' = FALSE /\ transform' = NoTransform /\ UNCHANGED <<now, parts>>
  BY DEF Dies
<1>2. Well(Typist, now) /\ now \in Nat /\ Typist.fails = fails /\ ~cut
  BY <1>1, SoundHere DEF SoundInv, LoopInv
<1>3. CASE speaking
  <2>1. PICK f \in Finalized : Goes(f.to)
    BY <1>3 DEF Dies
  <2>2. EndsWell(f)
    BY <1>3, UtteranceEndsWell
  <2>3. Well(f.to, now)
    BY <2>2 DEF EndsWell
  <2>4. (f.to.fails = 0 /\ ~cut') => Room(f.to, now)
    BY <1>3, FinalizedRoom
  <2>5. QED
    BY <1>1, <1>2, <2>1, <2>3, <2>4, RoomLeft
<1>4. CASE ~speaking
  <2>1. Goes(Typist)
    BY <1>4 DEF Dies
  <2>2. (Typist.fails = 0 /\ ~cut') => Room(Typist, now)
    BY <1>2 DEF RoomInv
  <2>3. QED
    BY <1>1, <1>2, <2>1, <2>2, RoomLeft
<1>5. QED
  BY <1>3, <1>4

LEMMA CommandedRoom ==
    ASSUME NEW k \in Nat, k # 0, NEW s, Well(s, k), Room(s, k),
           NEW action \in {"scratch", "newline", "key", "copy"}, NEW r \in Commanded(s, action), r.fails = 0
    PROVE  Room(r, k)
<1>1. /\ <<>> \in Texts(k) /\ Len(<<>>) \in 0..2
      /\ NewLine \in Texts(k) /\ Len(NewLine) \in 0..2
  BY FewTokens
<1>2. CASE action = "scratch"
  <2>1. PICK t \in Calls(s, Merged) : r \in Syncs(t, <<>>)
    BY <1>2 DEF Commanded
  <2>2. PICK q \in Rendered(s) : t = [q EXCEPT !.emitter = Merged(q.emitter)]
    BY DEF Calls
  <2>3. Well(t, k) /\ (t.fails = 0 => s.fails = 0)
    BY MethodsKeep
  <2>4. t.fails = 0
    BY <1>1, <2>1, <2>3, SyncsKeep
  <2>5. Well(q, k)
    BY RenderedWell
  <2>6. q.fails = 0
    BY <2>2, <2>4, <2>5, MergedWell
  <2>7. Roomy(q, k)
    BY <2>6, RenderedRoom
  <2>8. Roomy(t, k)
    BY <2>2, <2>6, <2>7, MergedRoom
  <2>9. Roomy(r, k)
    BY <1>1, <2>1, <2>8, SyncsRoom DEF Roomy
  <2>10. QED
    BY <2>9 DEF Roomy
<1>3. CASE action = "newline"
  <2>1. r \in Syncs(s, NewLine)
    BY <1>3 DEF Commanded
  <2>2. Roomy(r, k)
    BY <1>1, <2>1, SyncsRoom
  <2>3. QED
    BY <2>2 DEF Roomy
<1>4. CASE action = "key"
  <2>1. PICK t \in Syncs(s, <<>>) : r \in Calls(t, Disowned)
    BY <1>4 DEF Commanded
  <2>2. PICK q \in Rendered(t) : r = [q EXCEPT !.emitter = Disowned(q.emitter)]
    BY <2>1 DEF Calls
  <2>3. Well(t, k)
    BY <1>1, <2>1, SyncsKeep
  <2>4. Well(q, k) /\ (q.fails = 0 => t.fails = 0)
    BY <2>3, RenderedWell
  <2>5. q.fails = 0
    BY <2>2, <2>4, DisownedWell
  <2>6. Roomy(t, k)
    BY <1>1, <2>1, <2>4, <2>5, SyncsRoom
  <2>7. Roomy(q, k)
    BY <2>5, <2>6, RenderedRoom DEF Roomy
  <2>8. Roomy(r, k)
    BY <2>2, <2>7, DisownedRoom
  <2>9. QED
    BY <2>8 DEF Roomy
<1>5. CASE action = "copy"
  <2>1. r \in Syncs(s, <<>>)
    BY <1>5 DEF Commanded
  <2>2. Roomy(r, k)
    BY <1>1, <2>1, SyncsRoom
  <2>3. QED
    BY <2>2 DEF Roomy
<1>6. QED
  BY <1>2, <1>3, <1>4, <1>5

LEMMA EndUtteranceRoom ==
    ASSUME OutputInv, SoundInv, RoomInv, speaking, NEW next \in {"on", "draining"}, EndUtterance(next)
    PROVE  RoomInv'
<1> DEFINE none == <<>>
           chained == parts # none
           Said(f) == IF f.final = none THEN none ELSE parts \o f.final
<1>1. EndsOpen
  BY DEF EndUtterance, EndsOpen
<1>2. now \in Nat /\ now # 0 /\ parts \in Texts(now) /\ now' = now /\ ~speaking'
  BY <1>1, Here DEF EndsOpen
<1>3. PICK f \in Finalized :
        \/ Goes(f.to) /\ transform' = NoTransform
        \/ Said(f) # none /\ Goes(f.to) /\ transform' = Submitted(Said(f), chained)
        \/ /\ Said(f) # none
           /\ \E action \in {"scratch", "newline", "key", "copy"} : \E s \in Commanded(f.to, action) : Goes(s)
           /\ transform' = NoTransform
        \/ /\ Said(f) # none /\ ~chained
           /\ \E s \in Syncs(f.to, Tail(Said(f))) : Goes(s)
           /\ transform' = NoTransform
  BY DEF EndUtterance
<1> DEFINE said == Said(f)
<1>4. said # none => f.final # <<>> /\ said = parts \o f.final
  OBVIOUS
<1>5. (said # none /\ ~chained) => said = Final(now)
  <2> SUFFICES ASSUME said # none, ~chained PROVE said = Final(now)
    OBVIOUS
  <2>1. f.final = Final(now)
    BY <1>4, FinalOrNone
  <2>2. Final(now) \in Texts(now)
    BY <1>2, FinalIs
  <2>3. <<>> \o Final(now) = Final(now)
    BY <2>2 DEF Texts
  <2>4. QED
    BY <1>4, <2>1, <2>3
<1>6. EndsWell(f)
  BY UtteranceEndsWell
<1>7. Well(f.to, now)
  BY <1>6 DEF EndsWell
<1>8. f.to.fails = 0 => Room(f.to, now) /\ Len(parts) <= 2 * (now - 1)
  BY FinalizedRoom
<1>9. chained \in BOOLEAN /\ (chained <=> parts # <<>>)
  OBVIOUS
<1> HIDE DEF said, Said, chained
<1>10. CASE Goes(f.to) /\ transform' = NoTransform
  BY <1>2, <1>7, <1>8, <1>10, RoomLeft
<1>11. CASE said # none /\ Goes(f.to) /\ transform' = Submitted(said, chained)
  <2>1. /\ transform' # NoTransform /\ transform'.typed = FALSE
        /\ transform'.original = said /\ transform'.mergeAll = chained
    <3>1. LET c == Submitted(said, chained)
          IN  /\ c # NoTransform /\ c.typed = FALSE /\ c.merged = FALSE
              /\ c.original = said /\ c.mergeAll = chained
      BY <1>9, SubmittedIs
    <3>2. QED
      BY <1>11, <3>1
  <2>2. f.final = <<>> \/ f.final = Final(now)
    BY FinalOrNone
  <2>3. f.to.fails = 0 => (Len(said) <= 2 * now /\ (~chained => Len(said) <= 2))
    BY <1>2, <1>4, <1>8, <1>9, <1>11, <2>2, ChainGrows
  <2>4. now > 0
    BY <1>2
  <2>5. f.to.fails = 0 => RoomFor(transform', f.to.emitter, now)
    <3> SUFFICES ASSUME f.to.fails = 0 PROVE RoomFor(transform', f.to.emitter, now)
      OBVIOUS
    <3>1. Len(said) <= IF chained THEN 2 * now ELSE 2
      <4>1. CASE chained
        BY <2>3, <4>1
      <4>2. CASE ~chained
        BY <2>3, <4>2
      <4>3. QED
        BY <4>1, <4>2
    <3>2. QED
      BY <2>1, <2>4, <3>1 DEF RoomFor
  <2>6. (f.to.fails = 0 /\ ~cut') =>
           /\ Room(f.to, now')
           /\ speaking' => Len(parts') <= 2 * (now' - 1)
           /\ RoomFor(transform', f.to.emitter, now')
    BY <1>2, <1>8, <2>5
  <2>7. QED
    BY <1>2, <1>7, <1>11, <2>6, RoomKept
<1>12. CASE /\ said # none
            /\ \E action \in {"scratch", "newline", "key", "copy"} : \E s \in Commanded(f.to, action) : Goes(s)
            /\ transform' = NoTransform
  <2>1. PICK action \in {"scratch", "newline", "key", "copy"} : \E s \in Commanded(f.to, action) : Goes(s)
    BY <1>12
  <2>2. PICK s \in Commanded(f.to, action) : Goes(s)
    BY <2>1
  <2>3. Well(s, now) /\ (s.fails = 0 => f.to.fails = 0)
    BY <1>2, <1>7, CommandedKeeps
  <2>4. s.fails = 0 => Room(s, now)
    BY <1>2, <1>7, <1>8, <2>3, CommandedRoom
  <2>5. QED
    BY <1>2, <1>12, <2>2, <2>3, <2>4, RoomLeft
<1>13. CASE /\ said # none /\ ~chained
            /\ \E s \in Syncs(f.to, Tail(said)) : Goes(s)
            /\ transform' = NoTransform
  <2>1. said = Final(now)
    BY <1>5, <1>13
  <2>2. PICK s \in Syncs(f.to, Tail(Final(now))) : Goes(s)
    BY <1>13, <2>1
  <2>3. Tail(Final(now)) \in Texts(now) /\ Len(Tail(Final(now))) \in 0..2
    BY <1>2, FewTokens
  <2>4. Well(s, now) /\ (s.fails = 0 => f.to.fails = 0)
    BY <1>2, <1>7, <2>3, SyncsKeep
  <2>5. s.fails = 0 => Room(s, now)
    BY <1>2, <1>7, <1>8, <2>3, <2>4, SyncsRoom DEF Roomy
  <2>6. QED
    BY <1>2, <1>13, <2>2, <2>4, <2>5, RoomLeft
<1>14. QED
  BY <1>3, <1>10, <1>11, <1>12, <1>13 DEF said

LEMMA DrainedRoom ==
    ASSUME OutputInv, SoundInv, RoomInv, Drained
    PROVE  RoomInv'
<1>1. PICK s \in TakesBack(Typist, transform) : Goes(s)
  BY DEF Drained
<1>2. loop = "draining" /\ transform' = NoTransform /\ UNCHANGED <<speaking, now, cut>>
  BY DEF Drained, utterance
<1>3. /\ Well(Typist, now) /\ now \in Nat /\ Typist.fails = fails /\ TransformOK(transform, now)
      /\ Typist.emitter = emitter
  BY SoundHere
<1>4. ~speaking
  BY <1>2 DEF SoundInv, LoopInv
<1>5. CASE transform.state = "stream" /\ transform.typed
  <2>1. s \in Typed(Typist, Restore(transform), TransformCap)
    BY <1>1, <1>5 DEF TakesBack
  <2>2. Restore(transform) \in Texts(now) /\ transform # NoTransform
    BY <1>3, <1>5, TransformIs
  <2>3. Well(s, now) /\ (s.fails = 0 => Typist.fails = 0)
    BY <1>3, <2>1, <2>2, TypedKeep
  <2>4. (s.fails = 0 /\ ~cut') => Room(s, now)
    <3> SUFFICES ASSUME s.fails = 0, ~cut' PROVE Room(s, now)
      OBVIOUS
    <3>1. Room(Typist, now) /\ RoomFor(transform, emitter, now)
      BY <1>2, <1>3, <2>3 DEF RoomInv
    <3>2. Len(Typist.emitter.prev) + Len(Restore(transform)) <= 2 * now
      BY <1>3, <1>5, <2>2, <3>1 DEF RoomFor
    <3>3. TransformCap \in Nat
      BY OutputAssumption
    <3>4. Roomy(s, now)
      BY <1>3, <2>1, <2>2, <3>1, <3>2, <3>3, TypedRoom
    <3>5. QED
      BY <3>4 DEF Roomy
  <2>5. QED
    BY <1>1, <1>2, <1>3, <1>4, <2>3, <2>4, RoomLeft
<1>6. CASE ~(transform.state = "stream" /\ transform.typed)
  <2>1. s = Typist
    BY <1>1, <1>6 DEF TakesBack
  <2>2. (Typist.fails = 0 /\ ~cut') => Room(Typist, now)
    BY <1>2, <1>3 DEF RoomInv
  <2>3. QED
    BY <1>1, <1>2, <1>3, <1>4, <2>1, <2>2, RoomLeft
<1>7. QED
  BY <1>5, <1>6

-----------------------------------------------------------------------------
(* A transform: its room.                                                  *)

\* Joining leaves room, and no previous region.
JoinsRoom(s, wanted, m, k) ==
    /\ Well(m.to, k) /\ Room(m.to, k)
    /\ wanted => m.to.emitter.prev = <<>> /\ Len(m.to.emitter.prev) = 0
    /\ ~wanted => m.to = s /\ ~m.joined

LEMMA MergesRoom ==
    ASSUME NEW k \in Nat, NEW s, Well(s, k), Room(s, k),
           NEW wanted, NEW m \in Merges(s, wanted), m.to.fails = 0
    PROVE  JoinsRoom(s, wanted, m, k)
<1>1. CASE wanted
  <2>1. PICK t \in Rendered(s) : m.to = [t EXCEPT !.emitter = Merged(t.emitter)]
    BY <1>1 DEF Merges
  <2>2. Well(t, k)
    BY RenderedWell
  <2>3. t.fails = 0
    BY <2>1, <2>2, MergedWell
  <2>4. Roomy(t, k)
    BY <2>3, RenderedRoom
  <2>5. Roomy(m.to, k) /\ m.to.emitter.prev = <<>> /\ Len(m.to.emitter.prev) = 0
    BY <2>1, <2>3, <2>4, MergedRoom
  <2>6. QED
    BY <1>1, <2>5 DEF JoinsRoom, Roomy
<1>2. CASE ~wanted
  BY <1>2 DEF Merges, JoinsRoom
<1>3. QED
  BY <1>1, <1>2

\* There is room for the reply, or for the text it leaves as it is.
LEMMA BodyLength ==
    ASSUME NEW k \in Nat, NEW answer \in Answers, NEW c, NEW region
    PROVE  /\ answer # "same" => Len(Body(answer, c, region)) = 2
           /\ answer = "same" => Body(answer, c, region) = c.original
  BY DEF Answers, Body, Revises, Bare, Reply

LEMMA RoomForBody ==
    ASSUME NEW k \in Nat, NEW s, Well(s, k), Room(s, k), NEW c, RoomFor(c, s.emitter, k), c # NoTransform,
           c.original \in Texts(k), NEW wanted, NEW m, JoinsRoom(s, wanted, m, k),
           c.mergeAll \in BOOLEAN, c.mergeAll => m.to.emitter.prev = <<>>,
           NEW answer \in Answers, NEW region
    PROVE  Len(m.to.emitter.prev) + Len(Body(answer, c, region)) <= 2 * k
<1>1. k > 0 /\ k # 0 /\ Len(c.original) <= IF c.mergeAll THEN 2 * k ELSE 2
  BY DEF RoomFor
<1>2. Well(m.to, k) /\ Room(m.to, k)
  BY DEF JoinsRoom
<1>3. \A n \in 0..2 : Len(m.to.emitter.prev) + n <= 2 * k
  BY <1>1, <1>2, RoomForTwo
<1>4. Len(c.original) \in Nat /\ Len(m.to.emitter.prev) \in Nat
  BY <1>2, TextIs, LengthsAre
<1>5. c.mergeAll => Len(m.to.emitter.prev) = 0
  BY <1>2, LengthsAre
<1> DEFINE p == Len(m.to.emitter.prev)
           x == Len(c.original)
           y == Len(Body(answer, c, region))
<1>6. y = 2 \/ y = x
  BY BodyLength
<1>7. p \in Nat /\ x \in Nat /\ (c.mergeAll => p = 0 /\ x <= 2 * k) /\ (~c.mergeAll => x <= 2)
  BY <1>1, <1>4, <1>5
<1>8. \A n \in 0..2 : p + n <= 2 * k
  BY <1>3
<1> HIDE DEF p, x, y
<1>9. p + 2 <= 2 * k
  BY <1>8
<1>10. p + x <= 2 * k
  <2>1. CASE c.mergeAll
    BY <1>7, <2>1
  <2>2. CASE ~c.mergeAll
    BY <1>7, <1>8, <2>2
  <2>3. QED
    BY <2>1, <2>2
<1>11. p + y <= 2 * k
  BY <1>6, <1>9, <1>10
<1>12. QED
  BY <1>11 DEF p, y

\* The text of a chain is rewritten with its region joined.
LEMMA ChainJoined ==
    ASSUME OutputInv, SoundInv, RoomInv, transform # NoTransform, fails = 0, ~cut,
           NEW wanted, NEW m, JoinsRoom(Typist, wanted, m, now),
           (transform.mergeAll /\ ~transform.merged) => wanted
    PROVE  transform.mergeAll => m.to.emitter.prev = <<>>
<1>1. Typist.emitter = emitter /\ Sound(Typist, speaking, now, parts, transform, replied, Needed, owed)
  BY SoundHere
<1>2. transform.merged => emitter.prev = <<>>
  BY <1>1 DEF Sound, HalfWay, Untouched
<1>3. QED
  BY <1>1, <1>2 DEF JoinsRoom

LEMMA ReplyRoom ==
    ASSUME OutputInv, SoundInv, RoomInv, transform # NoTransform,
           NEW answer \in Answers, NEW wanted, NEW m \in Merges(Typist, wanted),
           (transform.mergeAll /\ ~transform.merged) => wanted,
           NEW region \in Texts(now), NEW asIs,
           IF asIs THEN Goes(m.to)
           ELSE \E s \in Typed(m.to, Body(answer, transform, region), TransformCap) : Goes(s),
           transform' = NoTransform, UNCHANGED <<speaking, now, cut>>
    PROVE  RoomInv'
<1> DEFINE c == transform
           body == Body(answer, c, region)
<1>1. /\ Well(Typist, now) /\ now \in Nat /\ Typist.fails = fails /\ TransformOK(c, now)
      /\ Typist.emitter = emitter /\ ~speaking
  BY SoundHere
<1>2. c.original \in Texts(now) /\ c.original # <<>> /\ c.mergeAll \in BOOLEAN
  BY <1>1 DEF TransformOK
<1>3. Well(m.to, now) /\ (m.to.fails = 0 => Typist.fails = 0)
  BY <1>1, MergesKeep
<1>4. body \in Texts(now)
  BY <1>1, <1>2, BodyIs
<1>5. ASSUME m.to.fails = 0, ~cut
      PROVE  Room(m.to, now) /\ Len(m.to.emitter.prev) + Len(body) <= 2 * now
  <2>1. fails = 0 /\ Room(Typist, now) /\ RoomFor(c, Typist.emitter, now)
    BY <1>1, <1>3, <1>5 DEF RoomInv
  <2>2. JoinsRoom(Typist, wanted, m, now)
    BY <1>1, <1>5, <2>1, MergesRoom
  <2>3. c.mergeAll => m.to.emitter.prev = <<>>
    BY <1>5, <2>1, <2>2, ChainJoined
  <2>4. Len(m.to.emitter.prev) + Len(body) <= 2 * now
    BY <1>1, <1>2, <2>1, <2>2, <2>3, RoomForBody
  <2>5. QED
    BY <2>2, <2>4 DEF JoinsRoom
<1>6. TransformCap \in Nat
  BY OutputAssumption
<1>7. IF asIs THEN Goes(m.to) ELSE \E s \in Typed(m.to, body, TransformCap) : Goes(s)
  OBVIOUS
<1> HIDE DEF body
<1>8. CASE asIs
  <2>1. Goes(m.to)
    BY <1>7, <1>8
  <2>2. QED
    BY <1>1, <1>3, <1>5, <2>1, RoomLeft
<1>9. CASE ~asIs
  <2>1. PICK s \in Typed(m.to, body, TransformCap) : Goes(s)
    BY <1>7, <1>9
  <2>2. Well(s, now) /\ (s.fails = 0 => m.to.fails = 0)
    BY <1>1, <1>3, <1>4, <2>1, TypedKeep
  <2>3. (s.fails = 0 /\ ~cut') => Room(s, now)
    <3> SUFFICES ASSUME s.fails = 0, ~cut' PROVE Room(s, now)
      OBVIOUS
    <3>1. Roomy(s, now)
      BY <1>1, <1>3, <1>4, <1>5, <1>6, <2>1, <2>2, TypedRoom
    <3>2. QED
      BY <3>1 DEF Roomy
  <2>4. QED
    BY <1>1, <2>1, <2>2, <2>3, RoomLeft
<1>10. QED
  BY <1>8, <1>9

LEMMA FinishRoom ==
    ASSUME OutputInv, SoundInv, RoomInv, Finish
    PROVE  RoomInv'
<1> DEFINE c == transform
<1>1. PICK answer \in Answers :
        \E m \in Merges(Typist, JoinsPrevious(c, Revises(answer))) :
           LET body == Body(answer, c, IF c.merged \/ m.joined THEN m.to.emitter.scr ELSE c.original)
           IN  IF ~c.typed /\ body = c.original
               THEN Goes(m.to)
               ELSE \E s \in Typed(m.to, body, TransformCap) : Goes(s)
  BY DEF Finish
<1>2. PICK m \in Merges(Typist, JoinsPrevious(c, Revises(answer))) :
        LET body == Body(answer, c, IF c.merged \/ m.joined THEN m.to.emitter.scr ELSE c.original)
        IN  IF ~c.typed /\ body = c.original
            THEN Goes(m.to)
            ELSE \E s \in Typed(m.to, body, TransformCap) : Goes(s)
  BY <1>1
<1>3. c.state = "stream" /\ transform' = NoTransform /\ UNCHANGED <<speaking, now, cut>>
  BY DEF Finish, utterance
<1> DEFINE wanted == JoinsPrevious(c, Revises(answer))
           region == IF c.merged \/ m.joined THEN m.to.emitter.scr ELSE c.original
           asIs == ~c.typed /\ Body(answer, c, region) = c.original
<1>4. Well(Typist, now) /\ now \in Nat /\ TransformOK(c, now)
  BY SoundHere
<1>5. c # NoTransform /\ c.original \in Texts(now)
  BY <1>3, <1>4, TransformIs
<1>6. (c.mergeAll /\ ~c.merged) => wanted
  BY DEF JoinsPrevious
<1>7. m.to.emitter.scr \in Texts(now)
  BY <1>4, MergesOK DEF Well
<1>8. region \in Texts(now)
  BY <1>5, <1>7
<1>9. IF asIs THEN Goes(m.to) ELSE \E s \in Typed(m.to, Body(answer, c, region), TransformCap) : Goes(s)
  BY <1>2
<1> HIDE DEF wanted, region, asIs
<1>10. m \in Merges(Typist, wanted)
  BY DEF wanted
<1>11. QED
  BY <1>3, <1>5, <1>6, <1>8, <1>9, <1>10, ReplyRoom

LEMMA ApplyRoom ==
    ASSUME OutputInv, SoundInv, RoomInv, Apply
    PROVE  RoomInv'
<1> DEFINE c == transform
<1>1. PICK answer \in Answers :
        \E m \in Merges(Typist, JoinsPrevious(c, Revises(answer))) :
           LET body == Body(answer, c, IF m.joined THEN m.to.emitter.scr ELSE c.original)
           IN  IF ~m.joined /\ body = c.original
               THEN Goes(m.to)
               ELSE \E s \in Typed(m.to, body, TransformCap) : Goes(s)
  BY DEF Apply
<1>2. PICK m \in Merges(Typist, JoinsPrevious(c, Revises(answer))) :
        LET body == Body(answer, c, IF m.joined THEN m.to.emitter.scr ELSE c.original)
        IN  IF ~m.joined /\ body = c.original
            THEN Goes(m.to)
            ELSE \E s \in Typed(m.to, body, TransformCap) : Goes(s)
  BY <1>1
<1>3. c.state = "future" /\ transform' = NoTransform /\ UNCHANGED <<speaking, now, cut>>
  BY DEF Apply, utterance
<1> DEFINE wanted == JoinsPrevious(c, Revises(answer))
           region == IF m.joined THEN m.to.emitter.scr ELSE c.original
           asIs == ~m.joined /\ Body(answer, c, region) = c.original
<1>4. Well(Typist, now) /\ now \in Nat /\ TransformOK(c, now)
  BY SoundHere
<1>5. c # NoTransform /\ c.original \in Texts(now)
  BY <1>3, <1>4, TransformIs
<1>6. (c.mergeAll /\ ~c.merged) => wanted
  BY DEF JoinsPrevious
<1>7. m.to.emitter.scr \in Texts(now)
  BY <1>4, MergesOK DEF Well
<1>8. region \in Texts(now)
  BY <1>5, <1>7
<1>9. IF asIs THEN Goes(m.to) ELSE \E s \in Typed(m.to, Body(answer, c, region), TransformCap) : Goes(s)
  BY <1>2
<1> HIDE DEF wanted, region, asIs
<1>10. m \in Merges(Typist, wanted)
  BY DEF wanted
<1>11. QED
  BY <1>3, <1>5, <1>6, <1>8, <1>9, <1>10, ReplyRoom

LEMMA EmptyRevisionRoom ==
    ASSUME OutputInv, SoundInv, RoomInv, EmptyRevision
    PROVE  RoomInv'
<1> DEFINE c == transform
           wanted == c.mergeAll /\ ~c.merged
<1>1. PICK m \in Merges(Typist, wanted) :
        IF c.state = "future" /\ m.joined
        THEN \E s \in Typed(m.to, Marker, TransformCap) : Goes(s)
        ELSE Goes(m.to)
  BY DEF EmptyRevision
<1> HIDE DEF wanted
<1>2. c.state # "none" /\ transform' = NoTransform /\ UNCHANGED <<speaking, now, cut>>
  BY DEF EmptyRevision, utterance
<1>3. Well(Typist, now) /\ now \in Nat /\ Typist.fails = fails /\ Typist.emitter = emitter
  BY SoundHere
<1>4. c # NoTransform /\ ~speaking
  BY <1>2, Here
<1>5. Well(m.to, now) /\ (m.to.fails = 0 => Typist.fails = 0)
  BY <1>3, MergesKeep
<1>6. ASSUME m.to.fails = 0, ~cut
      PROVE  Room(m.to, now) /\ now # 0
  <2>1. Room(Typist, now) /\ RoomFor(c, emitter, now)
    BY <1>3, <1>5, <1>6 DEF RoomInv
  <2>2. JoinsRoom(Typist, wanted, m, now)
    BY <1>3, <1>6, <2>1, MergesRoom
  <2>3. QED
    BY <1>3, <1>4, <2>1, <2>2 DEF JoinsRoom, RoomFor
<1>7. CASE c.state = "future" /\ m.joined
  <2>1. PICK s \in Typed(m.to, Marker, TransformCap) : Goes(s)
    BY <1>1, <1>7
  <2>2. TransformCap \in Nat /\ Marker \in Texts(now)
    BY <1>3, NewLineIs, OutputAssumption
  <2>3. Len(Marker) \in 0..2
    BY DEF Marker
  <2>4. Well(s, now) /\ (s.fails = 0 => m.to.fails = 0)
    BY <1>3, <1>5, <2>1, <2>2, TypedKeep
  <2>5. (s.fails = 0 /\ ~cut') => Room(s, now)
    <3> SUFFICES ASSUME s.fails = 0, ~cut' PROVE Room(s, now)
      OBVIOUS
    <3>1. Room(m.to, now) /\ now # 0
      BY <1>2, <1>6, <2>4
    <3>2. Len(m.to.emitter.prev) + Len(Marker) <= 2 * now
      BY <1>3, <1>5, <2>3, <3>1, RoomForTwo
    <3>3. Roomy(s, now)
      BY <1>3, <1>5, <2>1, <2>2, <3>1, <3>2, TypedRoom
    <3>4. QED
      BY <3>3 DEF Roomy
  <2>6. QED
    BY <1>2, <1>3, <1>4, <2>1, <2>4, <2>5, RoomLeft
<1>8. CASE ~(c.state = "future" /\ m.joined)
  <2>1. Goes(m.to)
    BY <1>1, <1>8
  <2>2. (m.to.fails = 0 /\ ~cut') => Room(m.to, now)
    BY <1>2, <1>6
  <2>3. QED
    BY <1>2, <1>3, <1>4, <1>5, <2>1, <2>2, RoomLeft
<1>9. QED
  BY <1>7, <1>8

LEMMA ProgressRoom ==
    ASSUME OutputInv, SoundInv, RoomInv, Progress
    PROVE  RoomInv'
<1> DEFINE c == transform
<1>1. /\ c.state = "stream" /\ c.state # "none" /\ c # NoTransform /\ ~speaking
      /\ UNCHANGED <<speaking, now, parts, cut>>
  BY Here DEF Progress, utterance
<1>2. PICK answer \in Answers \cup Bare :
          \E m \in Merges(Typist, JoinsPrevious(c, SeenToRevise(answer))) :
             LET wanted == JoinsPrevious(c, SeenToRevise(answer))
                 merged == c.merged \/ m.joined
                 restore == IF c.typed /\ ~wanted THEN c.restore
                            ELSE IF merged THEN m.to.emitter.scr ELSE c.original
             IN  /\ Goes(Published(m.to, SubSeq(Body(answer, c, restore), 1, 1), TransformCap))
                 /\ transform' = [c EXCEPT !.merged = merged, !.typed = TRUE,
                                           !.answer = answer, !.restore = restore]
  BY DEF Progress
<1> DEFINE wanted == JoinsPrevious(c, SeenToRevise(answer))
<1>3. PICK m \in Merges(Typist, wanted) :
          LET merged == c.merged \/ m.joined
              restore == IF c.typed /\ ~wanted THEN c.restore
                         ELSE IF merged THEN m.to.emitter.scr ELSE c.original
          IN  /\ Goes(Published(m.to, SubSeq(Body(answer, c, restore), 1, 1), TransformCap))
              /\ transform' = [c EXCEPT !.merged = merged, !.typed = TRUE,
                                        !.answer = answer, !.restore = restore]
  BY <1>2
<1> DEFINE merged == c.merged \/ m.joined
           restore == IF c.typed /\ ~wanted THEN c.restore
                      ELSE IF merged THEN m.to.emitter.scr ELSE c.original
           part == SubSeq(Body(answer, c, restore), 1, 1)
           s == Published(m.to, part, TransformCap)
           d == transform'
<1>4. /\ c \in [state: {"stream", "future"}, original: Texts(now), mergeAll: BOOLEAN, merged: BOOLEAN,
                typed: BOOLEAN, restore: Texts(now), answer: Answers \cup Bare \cup {"none"}]
      /\ c.original \in Texts(now) /\ c.original # <<>> /\ c.restore \in Texts(now) /\ c.merged \in BOOLEAN
      /\ c.mergeAll \in BOOLEAN
  BY <1>1, Here, TransformIs
<1>5. /\ Well(Typist, now) /\ now \in Nat /\ Typist.fails = fails /\ Typist.emitter = emitter
      /\ (fails = 0 /\ ~cut) => Sound(Typist, speaking, now, parts, transform, replied, Needed, owed)
  BY SoundHere
<1>6. wanted <=> (~c.merged /\ (c.mergeAll \/ (SeenToRevise(answer) /\ replied)))
  BY DEF JoinsPrevious
<1>7. Goes(s) /\ d = [c EXCEPT !.merged = merged, !.typed = TRUE, !.answer = answer, !.restore = restore]
  BY <1>3
<1> HIDE DEF wanted, c
<1>8. Well(m.to, now) /\ (m.to.fails = 0 => Typist.fails = 0) /\ m.to.emitter.scr \in Texts(now)
      /\ m.joined \in BOOLEAN
  <2>1. Well(m.to, now) /\ (m.to.fails = 0 => Typist.fails = 0)
    BY <1>5, MergesKeep
  <2>2. m.to.emitter.scr \in Texts(now) /\ m.joined \in BOOLEAN
    BY <1>5, MergesOK DEF Well
  <2>3. QED
    BY <2>1, <2>2
<1>9. restore \in Texts(now) /\ merged \in BOOLEAN
  BY <1>4, <1>8
<1>10. c.typed /\ ~wanted => restore = c.restore
  OBVIOUS
<1>11. ~(c.typed /\ ~wanted) => restore = IF merged THEN m.to.emitter.scr ELSE c.original
  OBVIOUS
<1>12. merged <=> c.merged \/ m.joined
  OBVIOUS
<1> HIDE DEF merged, restore
<1>13. /\ d.original = c.original /\ d.mergeAll = c.mergeAll /\ d.restore = restore /\ d.typed = TRUE
  BY <1>1, <1>4, <1>7, <1>9
<1>14. Restore(d) = IF restore = <<>> THEN c.original ELSE restore
  BY <1>13 DEF Restore
<1> HIDE DEF d
<1>15. part \in Texts(now) /\ Len(part) \in 0..2
  <2>1. part \in Texts(now) /\ Body(answer, c, restore) \in Texts(now)
    BY <1>4, <1>5, <1>9, BodyIs
  <2>2. Len(part) <= 1
    BY <2>1 DEF Texts
  <2>3. Len(part) \in Nat
    BY <1>5, <2>1, TextIs
  <2> HIDE DEF part
  <2>4. QED
    BY <2>1, <2>2, <2>3, AtMostTwo
<1> HIDE DEF part
<1>16. TransformCap \in {0, LiveCap, TransformCap}
  OBVIOUS
<1>17. IsPublished(s, m.to, part, TransformCap, now)
  BY <1>5, <1>8, <1>15, <1>16, PublishedIs
<1>18. Well(s, now) /\ s.emitter = m.to.emitter /\ s.fails = m.to.fails /\ s.pending.text = part
  BY <1>17 DEF IsPublished
<1> HIDE DEF s
<1>19. ASSUME m.to.fails = 0, ~cut
       PROVE  Room(s, now) /\ RoomFor(d, m.to.emitter, now)
  <2>1. Room(Typist, now) /\ RoomFor(c, emitter, now) /\ fails = 0
    BY <1>5, <1>8, <1>19 DEF RoomInv, c
  <2>2. now > 0 /\ now # 0 /\ Len(c.original) <= IF c.mergeAll THEN 2 * now ELSE 2
    BY <1>1, <1>5, <2>1 DEF RoomFor
  <2>3. JoinsRoom(Typist, wanted, m, now)
    BY <1>5, <1>19, <2>1, MergesRoom
  <2>4. Room(m.to, now)
    BY <2>3 DEF JoinsRoom
  <2>5. Len(m.to.emitter.prev) + Len(part) <= 2 * now
    BY <1>5, <1>8, <1>15, <2>2, <2>4, RoomForTwo
  <2>6. Room(s, now)
    BY <1>5, <1>18, <2>4, <2>5, PublishedRoom
  <2>7. (c.mergeAll /\ ~c.merged) => wanted
    BY <1>6
  <2>8. c.mergeAll => m.to.emitter.prev = <<>>
    BY <1>1, <1>19, <2>1, <2>3, <2>7, ChainJoined DEF c
  <2>9. Len(m.to.emitter.prev) + Len(c.original) <= 2 * now
    <3>1. "same" \in Answers
      BY DEF Answers
    <3>2. Body("same", c, restore) = c.original
      BY <1>5, <3>1, BodyLength
    <3>3. Len(m.to.emitter.prev) + Len(Body("same", c, restore)) <= 2 * now
      BY <1>1, <1>4, <1>5, <2>1, <2>3, <2>8, <3>1, RoomForBody
    <3>4. QED
      BY <3>2, <3>3
  <2>10. Len(m.to.emitter.prev) + Len(Restore(d)) <= 2 * now
    <3>1. CASE restore = <<>>
      BY <1>14, <2>9, <3>1
    <3>2. CASE restore # <<>> /\ c.typed /\ ~wanted
      <4>1. restore = c.restore /\ Restore(c) = c.restore /\ m.to = Typist
        BY <1>10, <2>3, <3>2 DEF Restore, JoinsRoom
      <4>2. Len(emitter.prev) + Len(Restore(c)) <= 2 * now
        BY <1>1, <2>1, <3>2 DEF RoomFor
      <4>3. QED
        BY <1>5, <1>14, <3>2, <4>1, <4>2
    <3>3. CASE restore # <<>> /\ ~(c.typed /\ ~wanted) /\ merged
      <4>1. Restore(d) = m.to.emitter.scr
        BY <1>11, <1>14, <3>3
      <4>2. QED
        BY <2>4, <4>1 DEF Room
    <3>4. CASE restore # <<>> /\ ~(c.typed /\ ~wanted) /\ ~merged
      <4>1. Restore(d) = c.original
        BY <1>11, <1>14, <3>4
      <4>2. QED
        BY <2>9, <4>1
    <3>5. QED
      BY <3>1, <3>2, <3>3, <3>4
  <2>11. RoomFor(d, m.to.emitter, now)
    BY <1>13, <2>2, <2>10 DEF RoomFor
  <2>12. QED
    BY <2>6, <2>11
<1>20. (s.fails = 0 /\ ~cut') =>
          /\ Room(s, now')
          /\ speaking' => Len(parts') <= 2 * (now' - 1)
          /\ RoomFor(transform', s.emitter, now')
  BY <1>1, <1>18, <1>19 DEF d
<1>21. QED
  BY <1>5, <1>7, <1>18, <1>20, RoomKept

-----------------------------------------------------------------------------
(* All of it: its room.                                                    *)

LEMMA InitRoom == OutputInit => RoomInv
<1> SUFFICES ASSUME OutputInit PROVE RoomInv
  OBVIOUS
<1>1. emitter = NewEmitter /\ pending = NoText /\ speaking = FALSE /\ now = 0 /\ transform = NoTransform
  BY DEF OutputInit
<1>2. Len(emitter.prev) = 0 /\ Len(emitter.scr) = 0 /\ Len(pending.text) = 0
  BY <1>1 DEF NewEmitter, NoText
<1>3. Typist.emitter = emitter /\ Typist.pending = pending
  BY DEF Typist
<1>4. Room(Typist, now)
  <2>1. now \in Nat /\ 0 \in Nat /\ 0 + 0 <= 2 * now /\ (now > 0 => 0 <= 2 * (now - 1))
    BY <1>1
  <2>2. /\ Len(Typist.emitter.prev) = 0 /\ Len(Typist.emitter.scr) = 0
        /\ Len(Typist.pending.text) = 0
    BY <1>2, <1>3
  <2>3. QED
    BY <2>1, <2>2, RoomOf
<1>5. QED
  BY <1>1, <1>4 DEF RoomInv, RoomFor

LEMMA NextRoom == OutputInv /\ SoundInv /\ RoomInv /\ [OutputNext]_outputVars => RoomInv'
<1> SUFFICES ASSUME OutputInv, SoundInv, RoomInv, [OutputNext]_outputVars PROVE RoomInv'
  OBVIOUS
<1>1. CASE StartUtterance
  BY <1>1, StartUtteranceRoom
<1>2. CASE Hypothesis
  BY <1>2, HypothesisRoom
<1>3. CASE Rollover
  BY <1>3, RolloverRoom
<1>4. CASE EndOfSpeech
  <2>1. speaking /\ EndUtterance("on")
    BY <1>4 DEF EndOfSpeech
  <2>2. QED
    BY <2>1, EndUtteranceRoom
<1>5. CASE Progress
  BY <1>5, ProgressRoom
<1>6. CASE Finish
  BY <1>6, FinishRoom
<1>7. CASE Fails
  BY <1>7, FailsRoom
<1>8. CASE EmptyRevision
  BY <1>8, EmptyRevisionRoom
<1>9. CASE Apply
  BY <1>9, ApplyRoom
<1>10. CASE Prefetches \/ Transforms \/ Answered
  BY <1>10, NothingMoreRoom DEF Prefetches, Transforms, Answered
<1>11. CASE Render
  BY <1>11, RenderRoom
<1>12. CASE Stop
  <2>1. CASE speaking /\ EndUtterance("draining")
    BY <2>1, EndUtteranceRoom
  <2>2. CASE ~speaking /\ UNCHANGED <<mode, typing, utterance, llm, transform, replied, owed, stranded, excused, cut>>
    BY <2>2, NothingMoreRoom
  <2>3. QED
    BY <1>12, <2>1, <2>2 DEF Stop
<1>13. CASE Drained
  BY <1>13, DrainedRoom
<1>14. CASE Dies
  BY <1>14, DiesRoom
<1>15. CASE Close
  BY <1>15, CloseRoom
<1>16. CASE UNCHANGED outputVars
  BY <1>16, NothingMoreRoom DEF outputVars
<1>17. QED
  BY <1>1, <1>2, <1>3, <1>4, <1>5, <1>6, <1>7, <1>8, <1>9, <1>10, <1>11, <1>12, <1>13, <1>14, <1>15, <1>16
     DEF OutputNext

LEMMA RoomEnough == \A a, b, k, n \in Nat : (a + b <= 2 * k /\ 2 * k <= n) => a + b <= n
  OBVIOUS

\* A cap for all that may be said is never met.
LEMMA RoomFits ==
    ASSUME 2 * UtteranceLimit <= TransformCap, OutputInv, SoundInv, RoomInv
    PROVE  Fits
<1>1. Well(Typist, now) /\ now \in 0..UtteranceLimit /\ now \in Nat
  BY SoundHere, Here
<1>2. UtteranceLimit \in Nat /\ TransformCap \in Nat
  BY OutputAssumption
<1>3. 2 * now <= TransformCap
  BY <1>1, <1>2
<1>4. /\ Len(Typist.emitter.prev) \in Nat /\ Len(Typist.emitter.scr) \in Nat
      /\ Len(Typist.pending.text) \in Nat
  BY <1>1, LengthsAre
<1>5. Room(Typist, now) => FitsIn(Typist)
  BY <1>1, <1>2, <1>3, <1>4, RoomEnough DEF Room, FitsIn
<1>6. QED
  BY <1>5 DEF Fits, RoomInv

LEMMA RoomInvariant ==
    ASSUME 2 * UtteranceLimit <= TransformCap
    PROVE  OutputSpec => [](OutputInv /\ SoundInv /\ RoomInv)
<1>1. OutputInit => OutputInv /\ SoundInv /\ RoomInv
  BY InitOutput, InitSound, InitRoom
<1>2. (OutputInv /\ SoundInv /\ RoomInv) /\ [OutputNext]_outputVars => (OutputInv /\ SoundInv /\ RoomInv)'
  <2>1. (OutputInv /\ SoundInv /\ RoomInv) => Fits
    BY RoomFits
  <2>2. QED
    BY <2>1, NextOutput, NextSound, NextRoom
<1>3. QED
  BY <1>1, <1>2, PTL DEF OutputSpec

-----------------------------------------------------------------------------
(* The theorems about whole messages.                                      *)

LEMMA SoundInvariant == OutputSpec /\ []Fits => [](OutputInv /\ SoundInv)
<1>1. OutputInit => OutputInv /\ SoundInv
  BY InitOutput, InitSound
<1>2. (OutputInv /\ SoundInv) /\ Fits /\ [OutputNext]_outputVars => (OutputInv /\ SoundInv)'
  BY NextOutput, NextSound
<1>3. QED
  BY <1>1, <1>2, PTL DEF OutputSpec

\* TransformCoordinator, CorrectingEmitter and the session loop, as long as the
\* regions a rewrite may have to take back, and the text published, are within
\* _TRANSFORM_MAX_BACKSPACES while nothing went wrong: whatever was said, rolled
\* over, cancelled, put back or answered, every utterance finalized is on the
\* screen when all is quiet, as it was or in a reply made of it, unless a command
\* took it back, it is in the region of a chain without being a chunk of it, or the
\* marker of a revision alone was shown in its place.
THEOREM WordsAreKeptWithin == OutputSpec /\ []Fits => []WordsStay
<1>1. OutputInv /\ SoundInv => WordsStay
  BY RestKeepsWords
<1>2. QED
  BY <1>1, SoundInvariant, PTL

\* TransformCoordinator._stream_progress, _stream_finish, _apply and
\* _restore_original, under the same condition: when all is quiet or over, no
\* reply on the screen is half of one, and nothing is there twice.
THEOREM RepliesAreWholeWithin == OutputSpec /\ []Fits => []ReplacesWhole
<1>1. OutputInv /\ SoundInv => ReplacesWhole
  BY RestIsWhole
<1>2. QED
  BY <1>1, SoundInvariant, PTL

\* The same without a condition on the run, for a cap that has room for all that
\* may be said: the regions never hold more than two tokens an utterance.  The
\* exceptions are the same: a command, a chain, the marker of a revision alone.
THEOREM WordsAreKept ==
    ASSUME 2 * UtteranceLimit <= TransformCap
    PROVE  OutputSpec => []WordsStay
<1>1. OutputInv /\ SoundInv => WordsStay
  BY RestKeepsWords
<1>2. OutputSpec => [](OutputInv /\ SoundInv /\ RoomInv)
  BY RoomInvariant
<1>3. QED
  BY <1>1, <1>2, PTL

\* A streamed reply that was cancelled, failed or ran out of the session's last
\* budget leaves no half-replaced message, and no message is there with its
\* transform, for any number of utterances and device failures.  A marker of a
\* revision left on the screen is no part of a reply.
THEOREM RepliesAreWhole ==
    ASSUME 2 * UtteranceLimit <= TransformCap
    PROVE  OutputSpec => []ReplacesWhole
<1>1. OutputInv /\ SoundInv => ReplacesWhole
  BY RestIsWhole
<1>2. OutputSpec => [](OutputInv /\ SoundInv /\ RoomInv)
  BY RoomInvariant
<1>3. QED
  BY <1>1, <1>2, PTL
=============================================================================
