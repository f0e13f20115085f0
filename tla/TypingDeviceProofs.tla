------------------------- MODULE TypingDeviceProofs -------------------------
(***************************************************************************)
(* Proofs about FocusTracker, VirtualKeyboard and TypingDevice: the cached *)
(* focus is the focused window, client and compositor agree on the shared  *)
(* codes, what lands of a call is the beginning of what was asked for, and *)
(* the clipboard comes back.                                               *)
(*                                                                         *)
(* The keys of a call are in three places: landed, in the queue, or left.  *)
(* Their concatenation is the call's plan until something breaks (OnWay),  *)
(* and the first two are its beginning after that (Broke).  The user's     *)
(* clipboard is held by the clipboard, the call, or one timer (ClipInv).   *)
(***************************************************************************)
EXTENDS TypingDevice, SequenceTheorems, WellFoundedInduction, TLAPS

-----------------------------------------------------------------------------
(* The focus cache.                                                        *)

FocusTypeOK ==
    /\ window \in Windows
    /\ link \in {"none", "up", "cut"}
    /\ stream \in Seq(Windows)
    /\ at \in {"connect", "store", "ask", "seed", "read", "gone"}

\* The newest unread event names the focused window; with none unread it is what
\* the request brought back, if that named one, or what is cached.
NewestIsFocused == link = "up" /\ stream # <<>> => stream[Len(stream)] = window
ReplyIsFocused ==
    link = "up" /\ stream = <<>> /\ at = "seed" /\ ~unseeded => reply = window
CacheIsFocused ==
    link = "up" /\ stream = <<>> /\ at = "read" /\ ~unseeded => focused = window

FocusInv ==
    /\ FocusTypeOK
    /\ NewestIsFocused
    /\ ReplyIsFocused
    /\ CacheIsFocused

LEMMA FocusStep == FocusInv /\ [FocusNext]_focusVars => FocusInv'
<1> SUFFICES ASSUME FocusInv, [FocusNext]_focusVars PROVE FocusInv'
  OBVIOUS
<1> USE DEF FocusInv, FocusTypeOK, NewestIsFocused, ReplyIsFocused, CacheIsFocused
<1>1. ASSUME NEW w \in Windows, FocusMoves(w) PROVE FocusInv'
  <2>1. CASE link = "up"
    BY <1>1, <2>1 DEF FocusMoves
  <2>2. CASE link # "up"
    BY <1>1, <2>2 DEF FocusMoves
  <2>3. QED
    BY <2>1, <2>2
<1>2. CASE LinkBreaks
  BY <1>2 DEF LinkBreaks
<1>3. CASE Connect
  BY <1>3 DEF Connect
<1>4. CASE StoreSocket
  BY <1>4 DEF StoreSocket, Refreshes
<1>5. CASE Ask
  BY <1>5 DEF Ask
<1>6. CASE Seed
  BY <1>6 DEF Seed
<1>7. CASE ReadEvent
  <2>1. stream \in Seq(Windows) /\ stream # <<>> /\ stream' = Tail(stream)
        /\ focused' = Head(stream)
    BY <1>7 DEF ReadEvent
  <2>2. CASE Len(stream) = 1
    <3>1. stream' = <<>> /\ focused' = stream[Len(stream)]
      BY <2>1, <2>2
    <3>2. QED
      BY <1>7, <2>1, <3>1 DEF ReadEvent
  <2>3. CASE Len(stream) # 1
    <3>0. Len(stream) \in Nat /\ Len(stream) # 0
      BY <2>1
    <3>1. stream' \in Seq(Windows) /\ Len(stream') = Len(stream) - 1
      BY <2>1, <3>0
    <3>2. stream'[Len(stream')] = stream[Len(stream)]
      BY <2>1, <2>3, <3>0, <3>1
    <3>3. stream' # <<>>
      BY <2>3, <3>0, <3>1
    <3>4. QED
      BY <1>7, <2>1, <3>1, <3>2, <3>3 DEF ReadEvent
  <2>4. QED
    BY <2>2, <2>3
<1>8. CASE Disconnect
  BY <1>8 DEF Disconnect
<1>9. CASE UNCHANGED focusVars
  BY <1>9 DEF focusVars
<1>10. QED
  BY <1>1, <1>2, <1>3, <1>4, <1>5, <1>6, <1>7, <1>8, <1>9 DEF FocusNext, FocusThread

LEMMA FocusInitially == FocusInit => FocusInv
  BY DEF FocusInit, FocusInv, FocusTypeOK, NewestIsFocused, ReplyIsFocused, CacheIsFocused

\* While the subscription is live, its events are read and the request after the
\* connect neither failed nor was answered with nothing, focused() names the
\* focused window.
THEOREM CacheIsTrustworthy == FocusSpec => []TrustedMeansCurrent
<1>1. FocusInv => TrustedMeansCurrent
  BY DEF FocusInv, CacheIsFocused, TrustedMeansCurrent
<1>2. QED
  BY <1>1, FocusInitially, FocusStep, PTL DEF FocusSpec

-----------------------------------------------------------------------------
(* Sequences.                                                              *)

LEMMA Smallest ==
    ASSUME NEW T \in SUBSET Nat, T # {}
    PROVE  \E n \in T : \A m \in T : n <= m
<1>1. PICK n \in T : \A m \in T : ~(<<m, n>> \in OpToRel(<, Nat))
  BY NatLessThanWellFounded, WFMin
<1>2. \A m \in T : ~(m < n)
  BY <1>1 DEF OpToRel
<1>3. QED
  BY <1>2

\* Induction over sequences, for sets instead of predicates.
LEMMA SeqInduction ==
    ASSUME NEW S, NEW T \in SUBSET Seq(S), <<>> \in T,
           \A s \in T, e \in S : Append(s, e) \in T
    PROVE  T = Seq(S)
<1> DEFINE Bad == {n \in Nat : \E s \in Seq(S) : s \notin T /\ Len(s) = n}
<1>1. SUFFICES ASSUME Bad # {} PROVE FALSE
  <2>1. SUFFICES ASSUME NEW s \in Seq(S), s \notin T PROVE FALSE
    OBVIOUS
  <2>2. Len(s) \in Bad
    BY <2>1, LenProperties
  <2>3. QED
    BY <1>1, <2>2
<1>2. PICK n \in Bad : \A m \in Bad : n <= m
  BY <1>1, Smallest
<1>3. PICK s \in Seq(S) : s \notin T /\ Len(s) = n
  BY <1>2
<1>4. s # <<>>
  BY <1>3
<1>5. PICK r \in Seq(S), e \in S : s = Append(r, e)
  BY <1>4, SequenceEmptyOrAppend
<1>6. Len(r) = n - 1 /\ Len(r) \in Nat
  BY <1>3, <1>5, AppendProperties, LenProperties
<1>7. r \in T
  <2>1. Len(r) \notin Bad
    BY <1>2, <1>6
  <2>2. QED
    BY <2>1, <1>6
<1>8. QED
  BY <1>3, <1>5, <1>7

\* The recursion of FlattenSeq.
Flattens(s, f) == f = [i \in 1..Len(s) |-> IF i = 1 THEN s[i] ELSE f[i - 1] \o s[i]]

LEMMA FlattensExists ==
    ASSUME NEW K
    PROVE  \A s \in Seq(Seq(K)) : \E f : Flattens(s, f) /\ \A i \in 1..Len(s) : f[i] \in Seq(K)
<1> DEFINE Good(s) == \E f : Flattens(s, f) /\ \A i \in 1..Len(s) : f[i] \in Seq(K)
           T == {s \in Seq(Seq(K)) : Good(s)}
<1>1. Good(<<>>)
  <2> DEFINE f == [i \in {} |-> <<>>]
  <2>1. 1..Len(<<>>) = {}
    OBVIOUS
  <2>2. Flattens(<<>>, f)
    BY <2>1 DEF Flattens
  <2>3. QED
    BY <2>1, <2>2
<1>2. ASSUME NEW s \in Seq(Seq(K)), Good(s), NEW e \in Seq(K)
      PROVE  Good(Append(s, e))
  <2>1. PICK f : Flattens(s, f) /\ \A i \in 1..Len(s) : f[i] \in Seq(K)
    BY <1>2
  <2> DEFINE n == Len(s)
             a == Append(s, e)
             last == IF n = 0 THEN e ELSE f[n] \o e
             g == [i \in 1..(n + 1) |-> IF i = n + 1 THEN last ELSE f[i]]
  <2>2. n \in Nat /\ Len(a) = n + 1 /\ a[n + 1] = e /\ \A i \in 1..n : a[i] = s[i]
    BY AppendProperties, LenProperties
  <2>3. \A i \in 1..n : f[i] = IF i = 1 THEN s[i] ELSE f[i - 1] \o s[i]
    BY <2>1 DEF Flattens
  <2>4. last \in Seq(K)
    BY <2>1, <2>2, ConcatProperties
  <2> HIDE DEF a, last
  <2>5. \A i \in 1..(n + 1) : g[i] = IF i = 1 THEN a[i] ELSE g[i - 1] \o a[i]
    <3>1. ASSUME NEW i \in 1..(n + 1), i # n + 1
          PROVE  g[i] = IF i = 1 THEN a[i] ELSE g[i - 1] \o a[i]
      <4>1. i \in 1..n /\ g[i] = f[i] /\ a[i] = s[i] /\ (i # 1 => g[i - 1] = f[i - 1])
        BY <3>1, <2>2
      <4>2. QED
        BY <4>1, <2>3
    <3>2. g[n + 1] = IF n + 1 = 1 THEN a[n + 1] ELSE g[(n + 1) - 1] \o a[n + 1]
      <4>1. g[n + 1] = last
        BY <2>2
      <4>2. CASE n = 0
        BY <4>1, <4>2, <2>2 DEF last
      <4>3. CASE n # 0
        <5>1. g[(n + 1) - 1] = f[n]
          BY <4>3, <2>2
        <5>2. QED
          BY <4>1, <4>3, <5>1, <2>2 DEF last
      <4>4. QED
        BY <4>2, <4>3
    <3>3. QED
      BY <3>1, <3>2
  <2>6. \A i \in 1..(n + 1) : g[i] \in Seq(K)
    BY <2>1, <2>2, <2>4
  <2>7. g = [i \in 1..Len(a) |-> IF i = 1 THEN a[i] ELSE g[i - 1] \o a[i]]
    <3>1. g = [i \in 1..(n + 1) |-> g[i]]
      OBVIOUS
    <3> HIDE DEF g
    <3>2. QED
      BY <3>1, <2>5, <2>2
  <2>8. Flattens(a, g)
    BY <2>7 DEF Flattens
  <2>9. QED
    <3> HIDE DEF g
    <3>1. QED
      BY <2>2, <2>6, <2>8 DEF a
<1>3. T = Seq(Seq(K))
  <2>1. T \in SUBSET Seq(Seq(K)) /\ <<>> \in T
    BY <1>1
  <2>2. \A s \in T, e \in Seq(K) : Append(s, e) \in T
    BY <1>2, AppendProperties
  <2> HIDE DEF T
  <2>3. QED
    BY <2>1, <2>2, SeqInduction
<1>4. QED
  BY <1>3

LEMMA FlattenIs ==
    ASSUME NEW K, NEW s \in Seq(Seq(K)), Len(s) # 0
    PROVE  \E f : Flattens(s, f) /\ FlattenSeq(s) = f[Len(s)]
<1> DEFINE g == CHOOSE f : f = [i \in 1..Len(s) |-> IF i = 1 THEN s[i] ELSE f[i - 1] \o s[i]]
<1>1. \E f : Flattens(s, f)
  BY FlattensExists
<1>2. Flattens(s, g)
  BY <1>1 DEF Flattens
<1>3. FlattenSeq(s) = g[Len(s)]
  BY DEF FlattenSeq
<1>4. QED
  BY <1>2, <1>3

LEMMA FlattenEmpty == FlattenSeq(<<>>) = <<>>
  BY DEF FlattenSeq

\* The recursions for a sequence and for its extension agree.
LEMMA FlattensAgree ==
    ASSUME NEW K, NEW s \in Seq(Seq(K)), NEW e \in Seq(K), NEW f, NEW g,
           Flattens(s, f), Flattens(Append(s, e), g)
    PROVE  \A i \in 1..Len(s) : g[i] = f[i]
<1> DEFINE n == Len(s)
           a == Append(s, e)
           Bad == {i \in 1..n : g[i] # f[i]}
<1>1. n \in Nat /\ Len(a) = n + 1 /\ \A i \in 1..n : a[i] = s[i]
  BY AppendProperties, LenProperties
<1> HIDE DEF a, n
<1>2. \A i \in 1..n : f[i] = IF i = 1 THEN s[i] ELSE f[i - 1] \o s[i]
  BY DEF Flattens, n
<1>3. \A i \in 1..n : g[i] = IF i = 1 THEN a[i] ELSE g[i - 1] \o a[i]
  <2>1. g = [i \in 1..(n + 1) |-> IF i = 1 THEN a[i] ELSE g[i - 1] \o a[i]]
    BY <1>1 DEF Flattens, a
  <2>2. \A i \in 1..n : i \in 1..(n + 1)
    BY <1>1
  <2>3. QED
    BY <2>1, <2>2
<1>4. SUFFICES ASSUME Bad # {} PROVE FALSE
  BY DEF n
<1>5. PICK i \in Bad : \A j \in Bad : i <= j
  <2>1. Bad \in SUBSET Nat
    BY <1>1
  <2> HIDE DEF Bad
  <2>2. QED
    BY <1>4, <2>1, Smallest
<1>6. CASE i = 1
  BY <1>1, <1>2, <1>3, <1>5, <1>6
<1>7. CASE i # 1
  <2>1. i - 1 \in 1..n /\ i \in 1..n /\ i - 1 < i
    BY <1>1, <1>5, <1>7
  <2>2. g[i - 1] = f[i - 1]
    BY <1>5, <2>1
  <2>3. g[i] = f[i]
    BY <1>1, <1>2, <1>3, <1>7, <2>1, <2>2
  <2>4. QED
    BY <1>5, <2>3
<1>8. QED
  BY <1>6, <1>7

LEMMA FlattenAppend ==
    ASSUME NEW K, NEW s \in Seq(Seq(K)), NEW e \in Seq(K)
    PROVE  FlattenSeq(Append(s, e)) = FlattenSeq(s) \o e
<1> DEFINE n == Len(s)
           a == Append(s, e)
<1>1. n \in Nat /\ a \in Seq(Seq(K)) /\ Len(a) = n + 1 /\ a[n + 1] = e
  BY AppendProperties, LenProperties
<1> HIDE DEF a
<1>2. PICK g : Flattens(a, g) /\ FlattenSeq(a) = g[n + 1]
  <2>1. Len(a) # 0
    BY <1>1
  <2>2. QED
    BY <1>1, <2>1, FlattenIs
<1>3. g[n + 1] = IF n + 1 = 1 THEN e ELSE g[(n + 1) - 1] \o e
  <2>1. n + 1 \in 1..Len(a)
    BY <1>1
  <2>2. g = [i \in 1..Len(a) |-> IF i = 1 THEN a[i] ELSE g[i - 1] \o a[i]]
    BY <1>2 DEF Flattens
  <2>3. QED
    BY <1>1, <2>1, <2>2
<1> USE DEF a
<1>4. CASE n = 0
  <2>1. s = <<>>
    BY <1>4
  <2>2. <<>> \o e = e
    BY ConcatEmptySeq
  <2>3. QED
    BY <1>1, <1>2, <1>3, <1>4, <2>1, <2>2, FlattenEmpty
<1>5. CASE n # 0
  <2>1. PICK f : Flattens(s, f) /\ FlattenSeq(s) = f[n]
    BY <1>5, FlattenIs
  <2>2. g[n] = f[n]
    BY <1>1, <1>2, <1>5, <2>1, FlattensAgree
  <2>3. (n + 1) - 1 = n /\ n + 1 # 1
    BY <1>1, <1>5
  <2>4. QED
    BY <1>2, <1>3, <2>1, <2>2, <2>3
<1>6. QED
  BY <1>4, <1>5

LEMMA FlattenType ==
    ASSUME NEW K
    PROVE  \A s \in Seq(Seq(K)) : FlattenSeq(s) \in Seq(K)
<1> DEFINE T == {s \in Seq(Seq(K)) : FlattenSeq(s) \in Seq(K)}
<1>1. T \in SUBSET Seq(Seq(K)) /\ <<>> \in T
  <2>1. <<>> \in Seq(Seq(K)) /\ <<>> \in Seq(K)
    BY EmptySeq
  <2>2. FlattenSeq(<<>>) \in Seq(K)
    BY <2>1, FlattenEmpty, Zenon
  <2>3. QED
    BY <2>1, <2>2
<1>2. ASSUME NEW s \in T, NEW e \in Seq(K) PROVE Append(s, e) \in T
  BY FlattenAppend, AppendProperties, ConcatProperties
<1> HIDE DEF T
<1>3. T = Seq(Seq(K))
  BY <1>1, <1>2, SeqInduction
<1>4. QED
  BY <1>3 DEF T

LEMMA FlattenConcat ==
    ASSUME NEW K, NEW s \in Seq(Seq(K))
    PROVE  \A t \in Seq(Seq(K)) : FlattenSeq(s \o t) = FlattenSeq(s) \o FlattenSeq(t)
<1> DEFINE T == {t \in Seq(Seq(K)) : FlattenSeq(s \o t) = FlattenSeq(s) \o FlattenSeq(t)}
<1>0. FlattenSeq(s) \in Seq(K)
  BY FlattenType
<1>1. T \in SUBSET Seq(Seq(K)) /\ <<>> \in T
  <2>1. s \o <<>> = s /\ FlattenSeq(s) \o <<>> = FlattenSeq(s)
    BY <1>0, ConcatEmptySeq
  <2>2. FlattenSeq(s \o <<>>) = FlattenSeq(s) \o FlattenSeq(<<>>)
    BY <2>1, FlattenEmpty, Zenon
  <2>3. <<>> \in Seq(Seq(K))
    BY EmptySeq
  <2>4. QED
    BY <2>2, <2>3, Zenon
<1>2. ASSUME NEW t \in T, NEW e \in Seq(K) PROVE Append(t, e) \in T
  <2>1. s \o t \in Seq(Seq(K)) /\ Append(t, e) \in Seq(Seq(K))
    BY ConcatProperties, AppendProperties
  <2>2. s \o Append(t, e) = Append(s \o t, e)
    <3>1. Append(t, e) = t \o <<e>> /\ Append(s \o t, e) = (s \o t) \o <<e>>
      BY <2>1, AppendIsConcat
    <3>2. <<e>> \in Seq(Seq(K))
      OBVIOUS
    <3>3. QED
      BY <3>1, <3>2, ConcatAssociative
  <2>3. FlattenSeq(s \o Append(t, e)) = (FlattenSeq(s) \o FlattenSeq(t)) \o e
    <3>1. FlattenSeq(Append(s \o t, e)) = FlattenSeq(s \o t) \o e
      BY <2>1, FlattenAppend, Zenon
    <3>2. FlattenSeq(s \o t) = FlattenSeq(s) \o FlattenSeq(t)
      BY DEF T
    <3>3. QED
      BY <2>2, <3>1, <3>2, Zenon
  <2>4. FlattenSeq(Append(t, e)) = FlattenSeq(t) \o e /\ FlattenSeq(t) \in Seq(K)
    BY FlattenAppend, FlattenType
  <2>5. FlattenSeq(s \o t) = FlattenSeq(s) \o FlattenSeq(t) /\ FlattenSeq(t) \in Seq(K)
    BY FlattenType
  <2>6. (FlattenSeq(s) \o FlattenSeq(t)) \o e = FlattenSeq(s) \o (FlattenSeq(t) \o e)
    BY <1>0, <2>5, ConcatAssociative
  <2>7. FlattenSeq(s \o Append(t, e)) = FlattenSeq(s) \o FlattenSeq(Append(t, e))
    BY <2>3, <2>4, <2>6, Zenon
  <2>8. QED
    BY <2>1, <2>7, Zenon
<1> HIDE DEF T
<1>3. T = Seq(Seq(K))
  BY <1>1, <1>2, SeqInduction
<1>4. QED
  BY <1>3 DEF T

LEMMA FlattenOne ==
    ASSUME NEW K, NEW e \in Seq(K)
    PROVE  FlattenSeq(<<e>>) = e
<1>1. <<e>> = Append(<<>>, e) /\ <<>> \in Seq(Seq(K))
  OBVIOUS
<1>2. <<>> \o e = e
  BY ConcatEmptySeq
<1>3. QED
  BY <1>1, <1>2, FlattenAppend, FlattenEmpty

\* A sequence is its head and its tail.
LEMMA HeadAndTail ==
    ASSUME NEW K, NEW s \in Seq(K), s # <<>>
    PROVE  s = <<Head(s)>> \o Tail(s)
<1> DEFINE h == <<Head(s)>>
<1>1. /\ h \in Seq(K) /\ Len(h) = 1 /\ h[1] = s[1]
      /\ Len(s) \in Nat /\ Len(s) # 0 /\ Head(s) = s[1] /\ Head(s) \in K
  BY HeadTailProperties
<1>2. /\ Tail(s) \in Seq(K) /\ Len(Tail(s)) = Len(s) - 1
      /\ \A i \in 1..Len(Tail(s)) : Tail(s)[i] = s[i + 1]
  BY HeadTailProperties
<1> HIDE DEF h
<1>3. /\ h \o Tail(s) \in Seq(K) /\ Len(h \o Tail(s)) = Len(h) + Len(Tail(s))
      /\ \A i \in 1..(Len(h) + Len(Tail(s))) :
            (h \o Tail(s))[i] = IF i <= Len(h) THEN h[i] ELSE Tail(s)[i - Len(h)]
  <2> DEFINE t == Tail(s)
  <2>1. h \in Seq(K) /\ t \in Seq(K)
    BY <1>1, <1>2
  <2> HIDE DEF t
  <2>2. /\ h \o t \in Seq(K) /\ Len(h \o t) = Len(h) + Len(t)
        /\ \A i \in 1..(Len(h) + Len(t)) : (h \o t)[i] = IF i <= Len(h) THEN h[i] ELSE t[i - Len(h)]
    BY <2>1, ConcatProperties
  <2>3. QED
    BY <2>2 DEF t
<1>4. Len(h \o Tail(s)) = Len(s)
  BY <1>1, <1>2, <1>3
<1>5. ASSUME NEW i \in 1..Len(s) PROVE (h \o Tail(s))[i] = s[i]
  <2>1. CASE i = 1
    BY <1>1, <1>2, <1>3, <2>1
  <2>2. CASE i # 1
    <3>1. i - 1 \in 1..Len(Tail(s)) /\ ~(i <= 1) /\ i \in 1..(Len(h) + Len(Tail(s)))
      BY <1>1, <1>2, <2>2
    <3>2. Tail(s)[i - 1] = s[i]
      BY <1>2, <3>1
    <3>3. QED
      BY <1>1, <1>3, <3>1, <3>2
  <2>3. QED
    BY <2>1, <2>2
<1>6. QED
  BY <1>3, <1>4, <1>5, SeqEqual DEF h

LEMMA FlattenFirst ==
    ASSUME NEW K, NEW s \in Seq(Seq(K)), s # <<>>
    PROVE  FlattenSeq(s) = Head(s) \o FlattenSeq(Tail(s))
<1>1. Head(s) \in Seq(K) /\ Tail(s) \in Seq(Seq(K)) /\ s = <<Head(s)>> \o Tail(s)
  BY HeadTailProperties, HeadAndTail
<1> DEFINE h == <<Head(s)>>
<1>2. h \in Seq(Seq(K))
  BY <1>1
<1>3. FlattenSeq(h) = Head(s)
  BY <1>1, FlattenOne
<1> HIDE DEF h
<1>4. FlattenSeq(h \o Tail(s)) = FlattenSeq(h) \o FlattenSeq(Tail(s))
  BY <1>1, <1>2, FlattenConcat
<1>5. QED
  BY <1>1, <1>3, <1>4, Zenon DEF h

\* Of the segments that are left to be typed, the first is done with, or loses its
\* first key.
LEMMA FlattenSkips ==
    ASSUME NEW K, NEW s \in Seq(Seq(K)), s # <<>>, Head(s) = <<>>
    PROVE  Tail(s) \in Seq(Seq(K)) /\ FlattenSeq(s) = FlattenSeq(Tail(s))
<1>1. Tail(s) \in Seq(Seq(K)) /\ FlattenSeq(Tail(s)) \in Seq(K)
  BY HeadTailProperties, FlattenType
<1>2. <<>> \o FlattenSeq(Tail(s)) = FlattenSeq(Tail(s))
  BY <1>1, ConcatEmptySeq
<1>3. FlattenSeq(s) = <<>> \o FlattenSeq(Tail(s))
  BY FlattenFirst
<1>4. QED
  BY <1>1, <1>2, <1>3, Zenon

LEMMA FlattenTakes ==
    ASSUME NEW K, NEW s \in Seq(Seq(K)), s # <<>>, Head(s) # <<>>
    PROVE  /\ Head(Head(s)) \in K
           /\ [s EXCEPT ![1] = Tail(@)] \in Seq(Seq(K)) \ {<<>>}
           /\ FlattenSeq(s) = <<Head(Head(s))>> \o FlattenSeq([s EXCEPT ![1] = Tail(@)])
<1> DEFINE h == Head(s)
           r == [s EXCEPT ![1] = Tail(h)]
<1>1. h \in Seq(K) /\ h # <<>> /\ s[1] = h /\ Len(s) \in Nat /\ 1 \in 1..Len(s)
  BY HeadTailProperties
<1>2. Tail(h) \in Seq(K) /\ Head(h) \in K /\ h = <<Head(h)>> \o Tail(h)
  BY <1>1, HeadTailProperties, HeadAndTail
<1>3. [s EXCEPT ![1] = Tail(@)] = r
  BY <1>1
<1>4. r \in Seq(Seq(K)) /\ Len(r) = Len(s)
      /\ \A i \in 1..Len(s) : r[i] = IF i = 1 THEN Tail(h) ELSE s[i]
  BY <1>1, <1>2, ExceptSeq
<1> HIDE DEF r, h
<1>5. r # <<>> /\ Head(r) = Tail(h)
  <2>1. Len(r) # 0 /\ r[1] = Tail(h)
    <3>1. Len(s) # 0
      BY <1>1
    <3>2. r[1] = Tail(h)
      BY <1>1, <1>4, Zenon
    <3>3. QED
      BY <1>4, <3>1, <3>2
  <2>2. QED
    BY <1>4, <2>1
<1>6. Tail(r) = Tail(s) /\ Tail(s) \in Seq(Seq(K))
  <2>1. Tail(r) \in Seq(Seq(K)) /\ Len(Tail(r)) = Len(s) - 1
        /\ \A i \in 1..(Len(s) - 1) : Tail(r)[i] = r[i + 1]
    BY <1>4, <1>5, HeadTailProperties
  <2>2. Tail(s) \in Seq(Seq(K)) /\ Len(Tail(s)) = Len(s) - 1
        /\ \A i \in 1..(Len(s) - 1) : Tail(s)[i] = s[i + 1]
    BY HeadTailProperties
  <2>3. \A i \in 1..(Len(s) - 1) : r[i + 1] = s[i + 1]
    BY <1>1, <1>4
  <2>4. QED
    BY <2>1, <2>2, <2>3, SeqEqual
<1>7. FlattenSeq(r) = Tail(h) \o FlattenSeq(Tail(s))
  BY <1>4, <1>5, <1>6, FlattenFirst
<1>8. FlattenSeq(s) = (<<Head(h)>> \o Tail(h)) \o FlattenSeq(Tail(s))
  BY <1>2, FlattenFirst, Zenon DEF h
<1>9. <<Head(h)>> \in Seq(K) /\ FlattenSeq(Tail(s)) \in Seq(K)
  <2>1. FlattenSeq(Tail(s)) \in Seq(K)
    BY <1>6, FlattenType
  <2>2. QED
    BY <1>2, <2>1
<1>10. FlattenSeq(s) = <<Head(h)>> \o FlattenSeq(r)
  <2>1. (<<Head(h)>> \o Tail(h)) \o FlattenSeq(Tail(s)) = <<Head(h)>> \o (Tail(h) \o FlattenSeq(Tail(s)))
    <3> DEFINE u == <<Head(h)>>
    <3> HIDE DEF u
    <3>1. (u \o Tail(h)) \o FlattenSeq(Tail(s)) = u \o (Tail(h) \o FlattenSeq(Tail(s)))
      BY <1>2, <1>9, ConcatAssociative DEF u
    <3>2. QED
      BY <3>1 DEF u
  <2>2. QED
    BY <1>7, <1>8, <2>1, Zenon
<1>11. QED
  BY <1>2, <1>3, <1>4, <1>5, <1>10, Zenon DEF h

-----------------------------------------------------------------------------
(* What the window makes of keys.                                          *)

Character == Key \ {"Ctrl+V"}

\* Keys, when the clipboard is t.
Effects(t, keys) == [i \in DOMAIN keys |-> IF keys[i] = "Ctrl+V" THEN t ELSE <<keys[i]>>]
Landing(t, keys) == FlattenSeq(Effects(t, keys))

LEMMA TypedIsLanding == \A keys : Typed(keys) = Landing(clip, keys)
  BY DEF Typed, Landing, Effects

LEMMA EffectsType ==
    ASSUME NEW t \in Seq(Key), NEW keys \in Seq(Key)
    PROVE  /\ Effects(t, keys) \in Seq(Seq(Key))
           /\ Len(Effects(t, keys)) = Len(keys)
           /\ \A i \in 1..Len(keys) :
                 Effects(t, keys)[i] = IF keys[i] = "Ctrl+V" THEN t ELSE <<keys[i]>>
<1>1. Len(keys) \in Nat /\ DOMAIN keys = 1..Len(keys) /\ \A i \in 1..Len(keys) : keys[i] \in Key
  BY LenProperties, ElementOfSeq
<1>2. \A i \in 1..Len(keys) : <<keys[i]>> \in Seq(Key)
  BY <1>1
<1>3. QED
  BY <1>1, <1>2 DEF Effects

LEMMA LandingType ==
    ASSUME NEW t \in Seq(Key), NEW keys \in Seq(Key)
    PROVE  Landing(t, keys) \in Seq(Key)
  BY EffectsType, FlattenType DEF Landing

LEMMA LandingConcat ==
    ASSUME NEW t \in Seq(Key), NEW a \in Seq(Key), NEW b \in Seq(Key)
    PROVE  Landing(t, a \o b) = Landing(t, a) \o Landing(t, b)
<1> DEFINE ea == Effects(t, a)
           eb == Effects(t, b)
           ec == Effects(t, a \o b)
<1>1. /\ a \o b \in Seq(Key) /\ Len(a \o b) = Len(a) + Len(b) /\ Len(a) \in Nat /\ Len(b) \in Nat
      /\ \A i \in 1..(Len(a) + Len(b)) : (a \o b)[i] = IF i <= Len(a) THEN a[i] ELSE b[i - Len(a)]
  BY ConcatProperties, LenProperties
<1>2. /\ ea \in Seq(Seq(Key)) /\ Len(ea) = Len(a)
      /\ \A i \in 1..Len(a) : ea[i] = IF a[i] = "Ctrl+V" THEN t ELSE <<a[i]>>
  BY EffectsType
<1>3. /\ eb \in Seq(Seq(Key)) /\ Len(eb) = Len(b)
      /\ \A i \in 1..Len(b) : eb[i] = IF b[i] = "Ctrl+V" THEN t ELSE <<b[i]>>
  BY EffectsType
<1>4. /\ ec \in Seq(Seq(Key)) /\ Len(ec) = Len(a \o b)
      /\ \A i \in 1..Len(a \o b) : ec[i] = IF (a \o b)[i] = "Ctrl+V" THEN t ELSE <<(a \o b)[i]>>
  BY <1>1, EffectsType
<1>5. /\ ea \o eb \in Seq(Seq(Key)) /\ Len(ea \o eb) = Len(ea) + Len(eb)
      /\ \A i \in 1..(Len(ea) + Len(eb)) :
            (ea \o eb)[i] = IF i <= Len(ea) THEN ea[i] ELSE eb[i - Len(ea)]
  <2>1. ea \in Seq(Seq(Key)) /\ eb \in Seq(Seq(Key))
    BY <1>2, <1>3
  <2> HIDE DEF ea, eb
  <2>2. QED
    BY <2>1, ConcatProperties
<1> HIDE DEF ea, eb, ec
<1>6. ASSUME NEW i \in 1..Len(ec) PROVE ec[i] = (ea \o eb)[i]
  <2>0. i \in 1..(Len(a) + Len(b))
    BY <1>1, <1>4
  <2>1. CASE i <= Len(a)
    <3>1. i \in 1..Len(a)
      BY <1>1, <2>0, <2>1
    <3>2. (ea \o eb)[i] = ea[i] /\ (a \o b)[i] = a[i]
      BY <1>1, <1>2, <1>3, <1>5, <2>0, <2>1
    <3>3. QED
      BY <1>1, <1>2, <1>4, <2>0, <3>1, <3>2
  <2>2. CASE ~(i <= Len(a))
    <3>1. i - Len(a) \in 1..Len(b)
      BY <1>1, <2>0, <2>2
    <3>2. (ea \o eb)[i] = eb[i - Len(a)] /\ (a \o b)[i] = b[i - Len(a)]
      BY <1>1, <1>2, <1>3, <1>5, <2>0, <2>2
    <3>3. QED
      BY <1>1, <1>3, <1>4, <2>0, <3>1, <3>2
  <2>3. QED
    BY <2>1, <2>2
<1>7. ec = ea \o eb
  <2>1. Len(ec) = Len(ea \o eb)
    BY <1>1, <1>2, <1>3, <1>4, <1>5
  <2>2. QED
    BY <1>4, <1>5, <1>6, <2>1, SeqEqual
<1>8. FlattenSeq(ea \o eb) = FlattenSeq(ea) \o FlattenSeq(eb)
  BY <1>2, <1>3, FlattenConcat
<1>9. QED
  BY <1>7, <1>8, Zenon DEF Landing, ea, eb, ec

LEMMA LandingEmpty ==
    ASSUME NEW t \in Seq(Key)
    PROVE  Landing(t, <<>>) = <<>>
<1>1. Effects(t, <<>>) = <<>>
  BY DEF Effects
<1>2. QED
  BY <1>1, FlattenEmpty, Zenon DEF Landing

LEMMA LandingOne ==
    ASSUME NEW t \in Seq(Key), NEW k \in Key
    PROVE  Landing(t, <<k>>) = IF k = "Ctrl+V" THEN t ELSE <<k>>
<1> DEFINE e == IF k = "Ctrl+V" THEN t ELSE <<k>>
<1>1. e \in Seq(Key)
  OBVIOUS
<1>2. Effects(t, <<k>>) = <<e>>
  BY DEF Effects
<1> HIDE DEF e
<1>3. QED
  BY <1>1, <1>2, FlattenOne, Zenon DEF Landing, e

\* Characters land as they are, whatever is on the clipboard.
LEMMA CharactersLand ==
    ASSUME NEW t \in Seq(Key)
    PROVE  \A keys \in Seq(Character) : Landing(t, keys) = keys
<1> DEFINE T == {keys \in Seq(Character) : Landing(t, keys) = keys}
<1>0. Character \subseteq Key /\ Seq(Character) \subseteq Seq(Key)
  BY SeqMonotonic DEF Character
<1>1. T \in SUBSET Seq(Character) /\ <<>> \in T
  BY LandingEmpty
<1>2. ASSUME NEW keys \in T, NEW k \in Character PROVE Append(keys, k) \in T
  <2>1. Append(keys, k) = keys \o <<k>> /\ Append(keys, k) \in Seq(Character)
    BY AppendProperties, AppendIsConcat
  <2>2. <<k>> \in Seq(Key) /\ keys \in Seq(Key) /\ k \in Key /\ k # "Ctrl+V"
    BY <1>0 DEF Character
  <2>3. Landing(t, keys \o <<k>>) = Landing(t, keys) \o Landing(t, <<k>>)
    BY <2>2, LandingConcat, Zenon
  <2>4. Landing(t, <<k>>) = <<k>> /\ Landing(t, keys) = keys
    BY <2>2, LandingOne
  <2>5. Landing(t, Append(keys, k)) = Append(keys, k)
    BY <2>1, <2>3, <2>4, Zenon
  <2>6. QED
    BY <2>1, <2>5
<1> HIDE DEF T
<1>3. T = Seq(Character)
  BY <1>1, <1>2, SeqInduction
<1>4. QED
  BY <1>3 DEF T

-----------------------------------------------------------------------------
(* Beginnings.                                                             *)

Begins(s, t) == \E rest \in Seq(Key) : t = s \o rest

LEMMA BeginsIsPrefix ==
    ASSUME NEW s \in Seq(Key), NEW t \in Seq(Key), Begins(s, t)
    PROVE  IsPrefix(s, t)
<1>1. PICK rest \in Seq(Key) : t = s \o rest
  BY DEF Begins
<1>2. Len(t) = Len(s) + Len(rest) /\ Len(s) \in Nat /\ Len(rest) \in Nat
      /\ \A i \in 1..(Len(s) + Len(rest)) : t[i] = IF i <= Len(s) THEN s[i] ELSE rest[i - Len(s)]
  BY <1>1, ConcatProperties, LenProperties
<1>3. SubSeq(s, 1, Len(s)) = s
  BY SubSeqFull
<1>4. SubSeq(t, 1, Len(s)) = s
  <2>1. \A i \in 1..Len(s) : t[i] = s[i] /\ t[i] \in Key
    BY <1>2, ElementOfSeq
  <2>2. /\ SubSeq(t, 1, Len(s)) \in Seq(Key)
        /\ Len(SubSeq(t, 1, Len(s))) = IF 1 <= Len(s) THEN Len(s) - 1 + 1 ELSE 0
        /\ \A i \in 1..(Len(s) - 1 + 1) : SubSeq(t, 1, Len(s))[i] = t[1 + i - 1]
    BY <1>2, <2>1, SubSeqProperties
  <2>3. Len(SubSeq(t, 1, Len(s))) = Len(s)
    BY <1>2, <2>2
  <2>4. \A i \in 1..Len(s) : SubSeq(t, 1, Len(s))[i] = s[i]
    BY <1>2, <2>1, <2>2
  <2>5. QED
    BY <2>2, <2>3, <2>4, SeqEqual
<1>5. QED
  BY <1>2, <1>3, <1>4 DEF IsPrefix

LEMMA BeginsShorter ==
    ASSUME NEW r \in Seq(Key), NEW s \in Seq(Key), NEW t \in Seq(Key), Begins(r \o s, t)
    PROVE  Begins(r, t)
<1>1. PICK rest \in Seq(Key) : t = (r \o s) \o rest
  BY DEF Begins
<1>2. t = r \o (s \o rest) /\ s \o rest \in Seq(Key)
  BY <1>1, ConcatAssociative, ConcatProperties
<1>3. QED
  BY <1>2 DEF Begins

LEMMA BeginsAtOnce ==
    ASSUME NEW t \in Seq(Key)
    PROVE  Begins(<<>>, t) /\ Begins(t, t)
<1>1. t = <<>> \o t /\ t = t \o <<>> /\ <<>> \in Seq(Key)
  BY ConcatEmptySeq
<1>2. QED
  BY <1>1, Zenon DEF Begins

\* What keys did when they landed is the beginning of what they all will do.
LEMMA LandingBegins ==
    ASSUME NEW t \in Seq(Key), NEW s \in Seq(Key), NEW k \in Seq(Key), Begins(s, k)
    PROVE  Begins(Landing(t, s), Landing(t, k))
<1>1. PICK rest \in Seq(Key) : k = s \o rest
  BY DEF Begins
<1>2. Landing(t, k) = Landing(t, s) \o Landing(t, rest)
  BY <1>1, LandingConcat
<1>3. QED
  BY <1>2, LandingType DEF Begins

-----------------------------------------------------------------------------
(* The keyboard's queue.                                                   *)

LEMMA Largest ==
    ASSUME NEW n \in Nat, NEW T \in SUBSET (1..n), T # {}
    PROVE  Max(T) \in T /\ \A j \in T : Max(T) >= j
<1> DEFINE U == {n - i : i \in T}
<1>1. U \in SUBSET Nat /\ U # {}
  <2>1. \A i \in T : n - i \in Nat
    OBVIOUS
  <2>2. QED
    BY <2>1
<1>2. PICK u \in U : \A m \in U : u <= m
  BY <1>1, Smallest
<1>3. PICK i \in T : u = n - i
  BY <1>2
<1>4. ASSUME NEW j \in T PROVE i >= j
  <2>1. n - i <= n - j
    BY <1>2, <1>3
  <2>2. i \in Nat /\ j \in Nat
    OBVIOUS
  <2>3. QED
    BY <2>1, <2>2
<1> HIDE DEF U
<1>5. \E x \in T : \A y \in T : x >= y
  BY <1>3, <1>4
<1>6. QED
  BY <1>5 DEF Max

LEMMA RequestIs ==
    /\ \A c \in Physical \cup DynCodes : [kind |-> "key", code |-> c] \in Request
    /\ \A m \in SUBSET Assigned : [kind |-> "keymap", syms |-> m] \in Request
    /\ \A r \in Request : /\ r.kind \in {"key", "keymap"}
                          /\ r.kind = "key" => r.code \in Physical \cup DynCodes
                          /\ r.kind = "keymap" => r.syms \in SUBSET Assigned
  BY DEF Request

\* The keymap in force after a request: its own, or the one before.
LEMMA MapStep ==
    ASSUME NEW k \in Keyboard, NEW n \in 1..Len(k.out)
    PROVE  MapAfter(k, n) = IF k.out[n].kind = "keymap" THEN k.out[n].syms
                            ELSE MapAfter(k, n - 1)
<1> DEFINE maps(m) == {i \in 1..m : k.out[i].kind = "keymap"}
<1>0. n \in Nat /\ n - 1 \in Nat
  BY DEF Keyboard
<1>1. CASE k.out[n].kind = "keymap"
  <2>1. n \in maps(n)
    BY <1>0, <1>1
  <2>2. Max(maps(n)) \in maps(n) /\ \A j \in maps(n) : Max(maps(n)) >= j
    BY <1>0, <2>1, Largest
  <2>3. Max(maps(n)) = n
    BY <1>0, <2>1, <2>2
  <2>4. QED
    BY <1>1, <2>1, <2>3 DEF MapAfter
<1>2. CASE k.out[n].kind # "keymap"
  <2>1. maps(n) = maps(n - 1)
    BY <1>0, <1>2
  <2>2. QED
    BY <1>2, <2>1 DEF MapAfter
<1>3. QED
  BY <1>1, <1>2

LEMMA MapAtFirst ==
    ASSUME NEW k \in Keyboard
    PROVE  MapAfter(k, 0) = k.map
<1>1. 1..0 = {}
  OBVIOUS
<1>2. QED
  BY <1>1 DEF MapAfter

LEMMA MapType ==
    ASSUME NEW k \in Keyboard, NEW n \in 0..Len(k.out)
    PROVE  MapAfter(k, n) \in SUBSET Assigned
<1> DEFINE maps == {i \in 1..n : k.out[i].kind = "keymap"}
<1>1. CASE maps = {}
  BY <1>1 DEF MapAfter, Keyboard
<1>2. CASE maps # {}
  <2>1. n \in Nat /\ k.out \in Seq(Request)
    BY DEF Keyboard
  <2>2. Max(maps) \in maps
    BY <1>2, <2>1, Largest
  <2>3. Max(maps) \in 1..Len(k.out)
    BY <2>1, <2>2
  <2>4. k.out[Max(maps)] \in Request
    BY <2>1, <2>3, ElementOfSeq
  <2>5. k.out[Max(maps)].syms \in SUBSET Assigned
    BY <2>2, <2>4, RequestIs
  <2>6. QED
    BY <1>2, <2>5 DEF MapAfter
<1>3. QED
  BY <1>1, <1>2

LEMMA ReadType ==
    ASSUME NEW m \in SUBSET Assigned, NEW c \in Physical \cup DynCodes
    PROVE  Read(m, c) \in Seq(Key)
<1>1. CASE c \in Physical
  BY <1>1 DEF Read, Key
<1>2. CASE c \notin Physical /\ \E a \in m : a.code = c
  <2>1. (CHOOSE a \in m : a.code = c) \in m
    BY <1>2
  <2>2. (CHOOSE a \in m : a.code = c).sym \in Key
    BY <2>1 DEF Assigned, Key
  <2>3. QED
    BY <1>2, <2>2 DEF Read
<1>3. CASE c \notin Physical /\ ~\E a \in m : a.code = c
  BY <1>3 DEF Read
<1>4. QED
  BY <1>1, <1>2, <1>3

\* What a request makes the compositor pass on.
Passed(k, i) ==
    IF k.out[i].kind = "key" THEN Read(MapAfter(k, i), k.out[i].code) ELSE <<>>
Readings(k, n) == [i \in 1..n |-> Passed(k, i)]

LEMMA KeysReadIs == \A k, n : KeysRead(k, n) = FlattenSeq(Readings(k, n))
  BY DEF KeysRead, Readings, Passed

LEMMA PassedType ==
    ASSUME NEW k \in Keyboard, NEW i \in 1..Len(k.out)
    PROVE  Passed(k, i) \in Seq(Key)
<1>1. k.out[i] \in Request /\ i \in 0..Len(k.out)
  BY ElementOfSeq DEF Keyboard
<1>2. MapAfter(k, i) \in SUBSET Assigned
  BY <1>1, MapType
<1>3. CASE k.out[i].kind = "key"
  BY <1>1, <1>2, <1>3, RequestIs, ReadType DEF Passed
<1>4. CASE k.out[i].kind # "key"
  BY <1>4 DEF Passed
<1>5. QED
  BY <1>3, <1>4

LEMMA ReadingsType ==
    ASSUME NEW k \in Keyboard, NEW n \in 0..Len(k.out)
    PROVE  /\ Readings(k, n) \in Seq(Seq(Key)) /\ Len(Readings(k, n)) = n
           /\ KeysRead(k, n) \in Seq(Key)
<1>1. n \in Nat /\ \A i \in 1..n : Passed(k, i) \in Seq(Key)
  BY PassedType DEF Keyboard
<1>2. Readings(k, n) \in Seq(Seq(Key)) /\ Len(Readings(k, n)) = n
  BY <1>1 DEF Readings
<1>3. QED
  BY <1>2, FlattenType, KeysReadIs

LEMMA KeysReadFirst ==
    ASSUME NEW k \in Keyboard
    PROVE  KeysRead(k, 0) = <<>>
<1>1. Len(k.out) \in Nat
  BY DEF Keyboard
<1>2. Readings(k, 0) \in Seq(Seq(Key)) /\ Len(Readings(k, 0)) = 0
  BY <1>1, ReadingsType
<1>3. Readings(k, 0) = <<>>
  BY <1>2
<1>4. QED
  BY <1>3, KeysReadIs, FlattenEmpty, Zenon

LEMMA KeysReadStep ==
    ASSUME NEW k \in Keyboard, NEW n \in 1..Len(k.out)
    PROVE  KeysRead(k, n) = KeysRead(k, n - 1) \o Passed(k, n)
<1>1. n \in Nat /\ n - 1 \in 0..Len(k.out) /\ n \in 0..Len(k.out)
  BY DEF Keyboard
<1>2. Readings(k, n - 1) \in Seq(Seq(Key)) /\ Len(Readings(k, n - 1)) = n - 1
  BY <1>1, ReadingsType
<1>3. Readings(k, n) \in Seq(Seq(Key)) /\ Len(Readings(k, n)) = n
  BY <1>1, ReadingsType
<1>4. Passed(k, n) \in Seq(Key)
  BY PassedType
<1>5. Readings(k, n) = Append(Readings(k, n - 1), Passed(k, n))
  <2> DEFINE r == Readings(k, n - 1)
             a == Append(r, Passed(k, n))
  <2>1. /\ a \in Seq(Seq(Key)) /\ Len(a) = n /\ a[n] = Passed(k, n)
        /\ \A i \in 1..(n - 1) : a[i] = r[i]
    <3>1. r \in Seq(Seq(Key)) /\ Len(r) = n - 1
      BY <1>2
    <3> HIDE DEF r
    <3>2. a \in Seq(Seq(Key)) /\ Len(a) = (n - 1) + 1 /\ a[(n - 1) + 1] = Passed(k, n)
          /\ \A i \in 1..(n - 1) : a[i] = r[i]
      BY <1>4, <3>1, AppendProperties
    <3>3. (n - 1) + 1 = n
      BY <1>1
    <3>4. QED
      BY <3>2, <3>3
  <2>2. \A i \in 1..(n - 1) : r[i] = Passed(k, i)
    BY DEF Readings
  <2>3. \A i \in 1..n : Readings(k, n)[i] = Passed(k, i)
    BY DEF Readings
  <2> HIDE DEF a, r
  <2>4. \A i \in 1..n : Readings(k, n)[i] = a[i]
    BY <1>1, <2>1, <2>2, <2>3
  <2>5. QED
    BY <1>3, <2>1, <2>4, SeqEqual DEF a, r
<1>6. FlattenSeq(Readings(k, n)) = FlattenSeq(Readings(k, n - 1)) \o Passed(k, n)
  <2>1. FlattenSeq(Append(Readings(k, n - 1), Passed(k, n)))
          = FlattenSeq(Readings(k, n - 1)) \o Passed(k, n)
    BY <1>2, <1>4, FlattenAppend
  <2>2. QED
    BY <1>5, <2>1, Zenon
<1>7. QED
  BY <1>6, KeysReadIs, Zenon

\* What the first requests do depends on nothing behind them.
LEMMA SameReading ==
    ASSUME NEW k \in Keyboard, NEW l \in Keyboard, k.map = l.map, NEW n \in Nat,
           \A i \in 1..n : k.out[i] = l.out[i]
    PROVE  MapAfter(k, n) = MapAfter(l, n) /\ KeysRead(k, n) = KeysRead(l, n)
<1>1. ASSUME NEW m \in 0..n PROVE MapAfter(k, m) = MapAfter(l, m)
  <2> DEFINE maps(q) == {i \in 1..m : q.out[i].kind = "keymap"}
  <2>1. maps(k) = maps(l)
    OBVIOUS
  <2>2. CASE maps(k) = {}
    BY <2>1, <2>2 DEF MapAfter
  <2>3. CASE maps(k) # {}
    <3>1. Max(maps(k)) \in maps(k)
      <4>1. m \in Nat /\ maps(k) \in SUBSET (1..m)
        OBVIOUS
      <4> HIDE DEF maps
      <4>2. QED
        BY <2>3, <4>1, Largest
    <3>2. k.out[Max(maps(k))] = l.out[Max(maps(l))]
      <4>1. Max(maps(k)) \in 1..n
        BY <3>1
      <4>2. QED
        BY <2>1, <4>1, Zenon
    <3>3. QED
      BY <2>1, <2>3, <3>2 DEF MapAfter
  <2>4. QED
    BY <2>2, <2>3
<1>2. \A i \in 1..n : Passed(k, i) = Passed(l, i)
  BY <1>1 DEF Passed
<1>3. Readings(k, n) = Readings(l, n)
  BY <1>2 DEF Readings
<1>4. KeysRead(k, n) = KeysRead(l, n)
  BY <1>3, KeysReadIs, Zenon
<1>5. QED
  BY <1>1, <1>4

\* The keys read before a break are the beginning of those that were queued.
LEMMA ReadsBeginning ==
    ASSUME NEW k \in Keyboard, NEW n \in 0..Len(k.out)
    PROVE  Begins(KeysRead(k, n), KeysRead(k, Len(k.out)))
<1> DEFINE L == Len(k.out)
           Bad == {d \in Nat : n + d <= L /\ ~Begins(KeysRead(k, n), KeysRead(k, n + d))}
<1>0. L \in Nat /\ n \in Nat /\ n <= L
  BY DEF Keyboard
<1> HIDE DEF L
<1>1. CASE Bad = {}
  <2>1. L - n \in Nat /\ n + (L - n) = L
    BY <1>0
  <2>2. L - n \notin Bad
    BY <1>1
  <2>3. QED
    BY <2>1, <2>2, <1>0 DEF L
<1>2. CASE Bad # {}
  <2>1. PICK d \in Bad : \A m \in Bad : d <= m
    BY <1>2, Smallest
  <2>2. d # 0
    <3>1. KeysRead(k, n) \in Seq(Key)
      BY ReadingsType
    <3>2. n + 0 = n
      BY <1>0
    <3>3. QED
      BY <2>1, <3>1, <3>2, BeginsAtOnce
  <2>3. d - 1 \in Nat /\ n + (d - 1) <= L /\ n + (d - 1) = (n + d) - 1
    BY <1>0, <2>1, <2>2
  <2>4. Begins(KeysRead(k, n), KeysRead(k, (n + d) - 1))
    BY <2>1, <2>3
  <2>5. n + d \in 1..L /\ (n + d) - 1 \in 0..L
    BY <1>0, <2>1, <2>2
  <2>6. KeysRead(k, n + d) = KeysRead(k, (n + d) - 1) \o Passed(k, n + d)
    BY <2>5, KeysReadStep DEF L
  <2>7. Passed(k, n + d) \in Seq(Key) /\ KeysRead(k, n) \in Seq(Key)
    BY <2>5, PassedType, ReadingsType DEF L
  <2>8. PICK rest \in Seq(Key) : KeysRead(k, (n + d) - 1) = KeysRead(k, n) \o rest
    BY <2>4 DEF Begins
  <2>9. KeysRead(k, n + d) = KeysRead(k, n) \o (rest \o Passed(k, n + d))
    <3>1. (KeysRead(k, n) \o rest) \o Passed(k, n + d) = KeysRead(k, n) \o (rest \o Passed(k, n + d))
      BY <2>7, ConcatAssociative
    <3>2. QED
      BY <2>6, <2>8, <3>1, Zenon
  <2>10. rest \o Passed(k, n + d) \in Seq(Key)
    BY <2>7, ConcatProperties
  <2>11. Begins(KeysRead(k, n), KeysRead(k, n + d))
    BY <2>9, <2>10, Zenon DEF Begins
  <2>12. QED
    BY <2>1, <2>11
<1>3. QED
  BY <1>1, <1>2

LEMMA QueuedIs ==
    ASSUME NEW k \in Keyboard, NEW r \in Request
    PROVE  LET q == Queued(k, r)
               n == Len(k.out)
           IN  /\ q \in Keyboard /\ q.syms = k.syms /\ q.map = k.map /\ q.live = k.live
               /\ n \in Nat /\ Len(q.out) = n + 1 /\ q.out[n + 1] = r
               /\ \A i \in 1..n : q.out[i] = k.out[i]
               /\ MapAfter(q, n + 1) = IF r.kind = "keymap" THEN r.syms ELSE MapAfter(k, n)
               /\ KeysRead(q, n + 1) =
                     KeysRead(k, n) \o (IF r.kind = "key" THEN Read(MapAfter(q, n + 1), r.code)
                                        ELSE <<>>)
<1> DEFINE q == Queued(k, r)
           n == Len(k.out)
<1>1. k.out \in Seq(Request) /\ n \in Nat
  BY DEF Keyboard
<1>2. q = [syms |-> k.syms, out |-> Append(k.out, r), map |-> k.map, live |-> k.live]
  <2>1. k = [syms |-> k.syms, out |-> k.out, map |-> k.map, live |-> k.live]
    BY DEF Keyboard
  <2>2. q = [k EXCEPT !.out = Append(k.out, r)]
    BY DEF Queued
  <2>3. QED
    BY <2>1, <2>2
<1>3. /\ Append(k.out, r) \in Seq(Request) /\ Len(Append(k.out, r)) = n + 1
      /\ Append(k.out, r)[n + 1] = r /\ \A i \in 1..n : Append(k.out, r)[i] = k.out[i]
  BY <1>1, AppendProperties
<1>4. q \in Keyboard
  BY <1>2, <1>3 DEF Keyboard
<1>5. /\ q.syms = k.syms /\ q.map = k.map /\ q.live = k.live
      /\ Len(q.out) = n + 1 /\ q.out[n + 1] = r /\ \A i \in 1..n : q.out[i] = k.out[i]
  BY <1>2, <1>3
<1> HIDE DEF q, n
<1>6. n + 1 \in 1..Len(q.out) /\ (n + 1) - 1 = n
  BY <1>1, <1>5
<1>7. MapAfter(q, n) = MapAfter(k, n) /\ KeysRead(q, n) = KeysRead(k, n)
  BY <1>1, <1>4, <1>5, SameReading
<1>8. MapAfter(q, n + 1) = IF q.out[n + 1].kind = "keymap" THEN q.out[n + 1].syms
                           ELSE MapAfter(q, (n + 1) - 1)
  BY <1>4, <1>6, MapStep
<1>9. KeysRead(q, n + 1) = KeysRead(q, (n + 1) - 1) \o Passed(q, n + 1)
  BY <1>4, <1>6, KeysReadStep
<1>10. MapAfter(q, n + 1) = IF r.kind = "keymap" THEN r.syms ELSE MapAfter(k, n)
  BY <1>5, <1>6, <1>7, <1>8
<1>11. KeysRead(q, n + 1) =
          KeysRead(k, n) \o (IF r.kind = "key" THEN Read(MapAfter(q, n + 1), r.code) ELSE <<>>)
  BY <1>5, <1>6, <1>7, <1>9 DEF Passed
<1>12. QED
  BY <1>1, <1>4, <1>5, <1>10, <1>11 DEF q, n

-----------------------------------------------------------------------------
(* The shared codes.                                                       *)

Apart(k) ==
    \A i, j \in DOMAIN k.syms :
        (k.syms[i].sym = k.syms[j].sym \/ k.syms[i].code = k.syms[j].code) => i = j

\* The code that moves to the back of the line.
LEMMA MovedBack ==
    ASSUME NEW A, NEW s \in Seq(A), NEW p \in 1..Len(s)
    PROVE  LET r == Append(RemoveAt(s, p), s[p])
           IN  /\ r \in Seq(A) /\ Len(r) = Len(s)
               /\ \A i \in 1..Len(s) :
                     r[i] = IF i < p THEN s[i] ELSE IF i < Len(s) THEN s[i + 1] ELSE s[p]
<1> DEFINE a == SubSeq(s, 1, p - 1)
           b == SubSeq(s, p + 1, Len(s))
           n == Len(s)
<1>0. n \in Nat /\ p \in 1..n /\ \A i \in 1..n : s[i] \in A
  BY LenProperties, ElementOfSeq
<1> HIDE DEF n
<1>1. a \in Seq(A) /\ Len(a) = p - 1 /\ \A i \in 1..(p - 1) : a[i] = s[i]
  <2>1. p - 1 \in Int /\ \A i \in 1..(p - 1) : s[i] \in A
    BY <1>0
  <2>2. /\ a \in Seq(A) /\ Len(a) = IF 1 <= p - 1 THEN p - 1 - 1 + 1 ELSE 0
        /\ \A i \in 1..(p - 1 - 1 + 1) : a[i] = s[1 + i - 1]
    BY <2>1, SubSeqProperties
  <2>3. QED
    BY <1>0, <2>2
<1>2. b \in Seq(A) /\ Len(b) = n - p /\ \A i \in 1..(n - p) : b[i] = s[p + i]
  <2>1. p + 1 \in Int /\ n \in Int /\ \A i \in (p + 1)..n : s[i] \in A
    BY <1>0
  <2>2. /\ SubSeq(s, p + 1, n) \in Seq(A)
        /\ Len(SubSeq(s, p + 1, n)) = IF p + 1 <= n THEN n - (p + 1) + 1 ELSE 0
        /\ \A i \in 1..(n - (p + 1) + 1) : SubSeq(s, p + 1, n)[i] = s[(p + 1) + i - 1]
    BY <2>1, SubSeqProperties
  <2>3. b = SubSeq(s, p + 1, n)
    BY DEF n
  <2> HIDE DEF b
  <2>4. QED
    BY <1>0, <2>2, <2>3
<1>3. RemoveAt(s, p) = a \o b
  BY DEF RemoveAt
<1> HIDE DEF a, b
<1>4. /\ a \o b \in Seq(A) /\ Len(a \o b) = n - 1
      /\ \A i \in 1..(n - 1) : (a \o b)[i] = IF i < p THEN s[i] ELSE s[i + 1]
  <2>1. /\ a \o b \in Seq(A) /\ Len(a \o b) = Len(a) + Len(b)
        /\ \A i \in 1..(Len(a) + Len(b)) :
              (a \o b)[i] = IF i <= Len(a) THEN a[i] ELSE b[i - Len(a)]
    BY <1>1, <1>2, ConcatProperties
  <2>2. Len(a) + Len(b) = n - 1
    BY <1>0, <1>1, <1>2
  <2>3. ASSUME NEW i \in 1..(n - 1) PROVE (a \o b)[i] = IF i < p THEN s[i] ELSE s[i + 1]
    <3>1. CASE i < p
      BY <1>0, <1>1, <2>1, <2>2, <3>1
    <3>2. CASE ~(i < p)
      <4>1. i - Len(a) \in 1..(n - p) /\ p + (i - Len(a)) = i + 1 /\ ~(i <= Len(a))
        BY <1>0, <1>1, <3>2
      <4>2. QED
        BY <1>2, <2>1, <2>2, <3>2, <4>1
    <3>3. QED
      BY <3>1, <3>2
  <2>4. QED
    BY <2>1, <2>2, <2>3
<1> DEFINE c == a \o b
           r == Append(c, s[p])
<1>5. c \in Seq(A) /\ Len(c) = n - 1 /\ s[p] \in A
  BY <1>0, <1>4
<1> HIDE DEF c
<1>6. r \in Seq(A) /\ Len(r) = Len(c) + 1 /\ r[Len(c) + 1] = s[p]
      /\ \A i \in 1..Len(c) : r[i] = c[i]
  BY <1>5, AppendProperties
<1> HIDE DEF r
<1>7. ASSUME NEW i \in 1..n
      PROVE  r[i] = IF i < p THEN s[i] ELSE IF i < n THEN s[i + 1] ELSE s[p]
  <2>1. CASE i < n
    <3>1. i \in 1..(n - 1) /\ i \in 1..Len(c)
      BY <1>0, <1>5, <2>1
    <3>2. r[i] = IF i < p THEN s[i] ELSE s[i + 1]
      BY <1>4, <1>6, <3>1 DEF c
    <3>3. QED
      BY <2>1, <3>2
  <2>2. CASE ~(i < n)
    <3>1. i = n /\ Len(c) + 1 = n /\ ~(i < p)
      BY <1>0, <1>5, <2>2
    <3>2. QED
      BY <1>6, <2>2, <3>1
  <2>3. QED
    BY <2>1, <2>2
<1>8. Len(r) = n
  BY <1>0, <1>5, <1>6
<1>9. QED
  BY <1>3, <1>6, <1>7, <1>8 DEF n, c, r

LEMMA PlaceIs ==
    ASSUME NEW k \in Keyboard, NEW key, HasCode(k, key), key \notin Physical
    PROVE  Place(k, key) \in 1..Len(k.syms) /\ k.syms[Place(k, key)].sym = key
<1>1. DOMAIN k.syms = 1..Len(k.syms)
  BY LenProperties DEF Keyboard
<1>2. \E i \in DOMAIN k.syms : k.syms[i].sym = key
  BY DEF HasCode
<1>3. QED
  BY <1>1, <1>2 DEF Place

LEMMA RefreshedIs ==
    ASSUME NEW k \in Keyboard, Apart(k), NEW key, HasCode(k, key)
    PROVE  LET q == Refreshed(k, key)
           IN  /\ q \in Keyboard /\ q.out = k.out /\ q.map = k.map /\ q.live = k.live
               /\ Apart(q) /\ ToSet(q.syms) = ToSet(k.syms)
<1>1. CASE key \in Physical
  BY <1>1 DEF Refreshed
<1>2. CASE key \notin Physical
  <2> DEFINE p == Place(k, key)
             s == k.syms
             n == Len(s)
             r == Append(RemoveAt(s, p), s[p])
             q == Refreshed(k, key)
  <2>1. s \in Seq(Assigned) /\ n \in Nat /\ DOMAIN s = 1..n /\ p \in 1..n
    BY <1>2, PlaceIs, LenProperties DEF Keyboard
  <2>2. q = [syms |-> r, out |-> k.out, map |-> k.map, live |-> k.live]
    BY <1>2 DEF Refreshed, Keyboard
  <2> HIDE DEF s, p, q
  <2>3. /\ r \in Seq(Assigned) /\ Len(r) = n
        /\ \A i \in 1..n : r[i] = IF i < p THEN s[i] ELSE IF i < n THEN s[i + 1] ELSE s[p]
    BY <2>1, MovedBack
  <2> HIDE DEF r, n
  <2>4. DOMAIN r = 1..n
    BY <2>3, LenProperties
  <2> DEFINE from(i) == IF i < p THEN i ELSE IF i < n THEN i + 1 ELSE p
  <2>5. /\ \A i \in 1..n : from(i) \in 1..n /\ r[i] = s[from(i)]
        /\ \A i, j \in 1..n : from(i) = from(j) => i = j
        /\ \A j \in 1..n : \E i \in 1..n : from(i) = j
    <3>1. \A i \in 1..n : from(i) \in 1..n /\ r[i] = s[from(i)]
      BY <2>1, <2>3
    <3>2. \A i, j \in 1..n : from(i) = from(j) => i = j
      BY <2>1
    <3>3. ASSUME NEW j \in 1..n PROVE \E i \in 1..n : from(i) = j
      <4>1. CASE j < p
        BY <2>1, <4>1
      <4>2. CASE j = p
        <5>1. n \in 1..n /\ from(n) = p
          BY <2>1
        <5>2. QED
          BY <4>2, <5>1
      <4>3. CASE j > p
        <5>1. j - 1 \in 1..n /\ from(j - 1) = j
          BY <2>1, <4>3
        <5>2. QED
          BY <5>1
      <4>4. QED
        BY <2>1, <4>1, <4>2, <4>3
    <3>4. QED
      BY <3>1, <3>2, <3>3
  <2> HIDE DEF from
  <2>6. {r[i] : i \in 1..n} = {s[i] : i \in 1..n}
    BY <2>5
  <2>7. \A i, j \in 1..n : (r[i].sym = r[j].sym \/ r[i].code = r[j].code) => i = j
    <3>1. \A i, j \in 1..n : (s[i].sym = s[j].sym \/ s[i].code = s[j].code) => i = j
      BY <2>1 DEF Apart, s
    <3>2. QED
      BY <2>5, <3>1
  <2>8. q \in Keyboard
    BY <2>2, <2>3 DEF Keyboard
  <2>9. Apart(q) /\ ToSet(q.syms) = ToSet(s)
    <3>1. q.syms = r
      BY <2>2
    <3>2. ToSet(r) = ToSet(s)
      BY <2>1, <2>4, <2>6 DEF ToSet
    <3>3. QED
      BY <2>4, <2>7, <3>1, <3>2 DEF Apart
  <2>10. QED
    BY <2>2, <2>8, <2>9 DEF q, s
<1>3. QED
  BY <1>1, <1>2

LEMMA AllocatedIs ==
    ASSUME NEW k \in Keyboard, Apart(k), NEW key \in Key, ~HasCode(k, key)
    PROVE  LET q == Allocated(k, key)
           IN  /\ q \in Keyboard /\ q.out = k.out /\ q.map = k.map /\ q.live = k.live
               /\ Apart(q)
<1> DEFINE s == k.syms
           n == Len(s)
           q == Allocated(k, key)
<1>1. s \in Seq(Assigned) /\ n \in Nat /\ DOMAIN s = 1..n /\ \A i \in 1..n : s[i] \in Assigned
  BY LenProperties, ElementOfSeq DEF Keyboard
<1>2. key \in Exotic /\ \A i \in 1..n : s[i].sym # key
  BY <1>1 DEF HasCode, Key
<1>3. k = [syms |-> s, out |-> k.out, map |-> k.map, live |-> k.live]
  BY DEF Keyboard
<1>4. \A i, j \in 1..n : (s[i].sym = s[j].sym \/ s[i].code = s[j].code) => i = j
  BY <1>1 DEF Apart
<1>5. Used(k) = {s[i].code : i \in 1..n}
  BY <1>1 DEF Used
<1>6. CASE DynCodes \subseteq Used(k)
  <2> DEFINE a == [sym |-> key, code |-> Head(s).code]
             r == Append(Tail(s), a)
  <2>1. n # 0
    <3>1. PICK c \in DynCodes : TRUE
      BY KeyAssumption
    <3>2. PICK i \in 1..n : s[i].code = c
      BY <1>5, <1>6, <3>1
    <3>3. QED
      BY <1>1, <3>2
  <2>2. q = [syms |-> r, out |-> k.out, map |-> k.map, live |-> k.live]
    <3>1. q = [k EXCEPT !.syms = r]
      BY <1>6, Zenon DEF Allocated
    <3> HIDE DEF q, r
    <3>2. QED
      BY <1>3, <3>1
  <2>3. Head(s) = s[1] /\ 1 \in 1..n /\ s # <<>>
    BY <1>1, <2>1
  <2>4. a \in Assigned /\ a.sym = key /\ a.code = s[1].code
    BY <1>1, <1>2, <2>3 DEF Assigned
  <2>5. Tail(s) \in Seq(Assigned) /\ Len(Tail(s)) = n - 1
        /\ \A i \in 1..(n - 1) : Tail(s)[i] = s[i + 1]
    BY <1>1, <2>3, HeadTailProperties
  <2> HIDE DEF a, s, n, q
  <2>6. r \in Seq(Assigned) /\ Len(r) = n /\ r[n] = a /\ \A i \in 1..(n - 1) : r[i] = s[i + 1]
    <3> DEFINE t == Tail(s)
    <3>1. t \in Seq(Assigned) /\ Len(t) = n - 1
      BY <2>5
    <3> HIDE DEF t
    <3>2. /\ Append(t, a) \in Seq(Assigned) /\ Len(Append(t, a)) = (n - 1) + 1
          /\ Append(t, a)[(n - 1) + 1] = a /\ \A i \in 1..(n - 1) : Append(t, a)[i] = t[i]
      BY <2>4, <3>1, AppendProperties
    <3>3. (n - 1) + 1 = n
      BY <1>1
    <3>4. QED
      BY <2>5, <3>2, <3>3 DEF t
  <2> HIDE DEF r
  <2>7. q \in Keyboard
    BY <2>2, <2>6 DEF Keyboard
  <2>8. ASSUME NEW i \in 1..n, NEW j \in 1..n, r[i].sym = r[j].sym \/ r[i].code = r[j].code
        PROVE  i = j
    <3>1. CASE i = n /\ j = n
      BY <3>1
    <3>2. CASE i # n /\ j # n
      <4>1. /\ i \in 1..(n - 1) /\ j \in 1..(n - 1) /\ i + 1 \in 1..n /\ j + 1 \in 1..n
            /\ (i + 1 = j + 1 => i = j)
        BY <1>1, <3>2
      <4>2. QED
        BY <1>4, <2>6, <2>8, <4>1
    <3>3. CASE i = n /\ j # n
      <4>1. j \in 1..(n - 1) /\ j + 1 \in 1..n /\ j + 1 # 1
        BY <1>1, <3>3
      <4>2. QED
        BY <1>2, <1>4, <2>3, <2>4, <2>6, <2>8, <3>3, <4>1
    <3>4. CASE i # n /\ j = n
      <4>1. i \in 1..(n - 1) /\ i + 1 \in 1..n /\ i + 1 # 1
        BY <1>1, <3>4
      <4>2. QED
        BY <1>2, <1>4, <2>3, <2>4, <2>6, <2>8, <3>4, <4>1
    <3>5. QED
      BY <3>1, <3>2, <3>3, <3>4
  <2>9. DOMAIN r = 1..n
    BY <2>6, LenProperties
  <2>10. Apart(q)
    BY <2>2, <2>8, <2>9 DEF Apart
  <2>11. QED
    BY <2>2, <2>7, <2>10 DEF q
<1>7. CASE ~(DynCodes \subseteq Used(k))
  <2> DEFINE free == CHOOSE c \in DynCodes \ Used(k) : TRUE
             a == [sym |-> key, code |-> free]
             r == Append(s, a)
  <2>1. free \in DynCodes /\ free \notin Used(k)
    BY <1>7
  <2>2. q = [syms |-> r, out |-> k.out, map |-> k.map, live |-> k.live]
    BY <1>3, <1>7 DEF Allocated
  <2> HIDE DEF free
  <2>3. a \in Assigned /\ a.sym = key /\ a.code = free
    BY <1>2, <2>1 DEF Assigned
  <2> HIDE DEF a, s, n, q
  <2>4. r \in Seq(Assigned) /\ Len(r) = n + 1 /\ r[n + 1] = a /\ \A i \in 1..n : r[i] = s[i]
    BY <1>1, <2>3, AppendProperties DEF n
  <2> HIDE DEF r
  <2>5. \A i \in 1..n : s[i].code # free
    BY <1>5, <2>1
  <2>6. ASSUME NEW i \in 1..(n + 1), NEW j \in 1..(n + 1),
               r[i].sym = r[j].sym \/ r[i].code = r[j].code
        PROVE  i = j
    <3>1. CASE i = n + 1 /\ j = n + 1
      BY <3>1
    <3>2. CASE i # n + 1 /\ j # n + 1
      <4>1. i \in 1..n /\ j \in 1..n
        BY <1>1, <3>2
      <4>2. QED
        BY <1>4, <2>4, <2>6, <4>1
    <3>3. CASE i = n + 1 /\ j # n + 1
      <4>1. j \in 1..n
        BY <1>1, <3>3
      <4>2. QED
        BY <1>2, <2>3, <2>4, <2>5, <2>6, <3>3, <4>1
    <3>4. CASE i # n + 1 /\ j = n + 1
      <4>1. i \in 1..n
        BY <1>1, <3>4
      <4>2. QED
        BY <1>2, <2>3, <2>4, <2>5, <2>6, <3>4, <4>1
    <3>5. QED
      BY <3>1, <3>2, <3>3, <3>4
  <2>7. DOMAIN r = 1..(n + 1)
    BY <2>4, LenProperties
  <2>8. q \in Keyboard
    BY <2>2, <2>4 DEF Keyboard
  <2>9. Apart(q)
    BY <2>2, <2>6, <2>7 DEF Apart
  <2>10. QED
    BY <2>2, <2>8, <2>9 DEF q
<1>8. QED
  BY <1>6, <1>7

\* Once the queue is read, client and compositor agree.
InSync(k) == k.live => MapAfter(k, Len(k.out)) = ToSet(k.syms)

LEMMA UploadedIs ==
    ASSUME NEW k \in Keyboard
    PROVE  LET q == Uploaded(k)
           IN  /\ q \in Keyboard /\ q.syms = k.syms /\ q.live = k.live
               /\ InSync(q) /\ q.out # <<>>
               /\ KeysRead(q, Len(q.out)) = KeysRead(k, Len(k.out))
               /\ (\A i \in DOMAIN k.out : k.out[i].kind = "keymap") =>
                      \A i \in DOMAIN q.out : q.out[i].kind = "keymap"
<1> DEFINE m == ToSet(k.syms)
           r == [kind |-> "keymap", syms |-> m]
           n == Len(k.out)
           q == Queued(k, r)
<1>0. Uploaded(k) = q
  BY DEF Uploaded
<1>1. m \in SUBSET Assigned
  <2>1. \A i \in DOMAIN k.syms : k.syms[i] \in Assigned
    BY LenProperties, ElementOfSeq DEF Keyboard
  <2>2. QED
    BY <2>1 DEF ToSet
<1> HIDE DEF m
<1>2. r \in Request /\ r.kind = "keymap" /\ r.syms = m
  BY <1>1, RequestIs
<1> HIDE DEF r
<1>3. /\ q \in Keyboard /\ q.syms = k.syms /\ q.map = k.map /\ q.live = k.live
      /\ n \in Nat /\ Len(q.out) = n + 1 /\ q.out[n + 1] = r
      /\ \A i \in 1..n : q.out[i] = k.out[i]
      /\ MapAfter(q, n + 1) = m
      /\ KeysRead(q, n + 1) = KeysRead(k, n) \o <<>>
  BY <1>2, QueuedIs
<1> HIDE DEF q
<1>4. KeysRead(k, n) \o <<>> = KeysRead(k, n)
  <2>1. n \in 0..Len(k.out)
    BY <1>3
  <2>2. KeysRead(k, n) \in Seq(Key)
    BY <2>1, ReadingsType
  <2>3. QED
    BY <2>2, ConcatEmptySeq
<1>5. InSync(q) /\ KeysRead(q, Len(q.out)) = KeysRead(k, n)
  BY <1>3, <1>4 DEF InSync, m
<1>6. q.out # <<>>
  BY <1>3
<1>7. ASSUME \A i \in DOMAIN k.out : k.out[i].kind = "keymap", NEW i \in DOMAIN q.out
      PROVE  q.out[i].kind = "keymap"
  <2>1. DOMAIN k.out = 1..n /\ DOMAIN q.out = 1..(n + 1)
    BY <1>3, LenProperties DEF Keyboard
  <2>2. QED
    BY <1>2, <1>3, <1>7, <2>1
<1>8. QED
  BY <1>0, <1>3, <1>5, <1>6, <1>7

\* A key with a code is read as that key.
LEMMA TappedIs ==
    ASSUME NEW k \in Keyboard, Apart(k), NEW key \in Key, HasCode(k, key)
    PROVE  LET q == Tapped(Refreshed(k, key), CodeOf(k, key))
           IN  /\ q \in Keyboard /\ q.live = k.live /\ Apart(q) /\ q.out # <<>>
               /\ InSync(k) => InSync(q)
               /\ (k.live /\ InSync(k)) =>
                     KeysRead(q, Len(q.out)) = KeysRead(k, Len(k.out)) \o <<key>>
<1> DEFINE f == Refreshed(k, key)
           c == CodeOf(k, key)
           r == [kind |-> "key", code |-> c]
           n == Len(k.out)
           q == Queued(f, r)
<1>0. Tapped(Refreshed(k, key), CodeOf(k, key)) = q
  BY DEF Tapped
<1>1. /\ f \in Keyboard /\ f.out = k.out /\ f.map = k.map /\ f.live = k.live
      /\ Apart(f) /\ ToSet(f.syms) = ToSet(k.syms)
  BY RefreshedIs
<1>2. /\ c \in Physical \cup DynCodes
      /\ key \in Physical => c = key
      /\ key \notin Physical =>
            c \notin Physical /\ \E a \in ToSet(k.syms) : a.code = c /\ a.sym = key
  <2>1. CASE key \in Physical
    BY <2>1 DEF CodeOf
  <2>2. CASE key \notin Physical
    <3> DEFINE p == Place(k, key)
    <3>1. p \in 1..Len(k.syms) /\ k.syms[p].sym = key
      BY <2>2, PlaceIs
    <3> HIDE DEF p
    <3>2. k.syms[p] \in Assigned /\ k.syms[p] \in ToSet(k.syms)
      BY <3>1, LenProperties, ElementOfSeq DEF Keyboard, ToSet
    <3>3. c = k.syms[p].code
      BY <2>2 DEF CodeOf, p
    <3>4. c \in DynCodes
      BY <3>2, <3>3 DEF Assigned
    <3>5. QED
      BY <2>2, <3>1, <3>2, <3>3, <3>4, KeyAssumption
  <2>3. QED
    BY <2>1, <2>2
<1> HIDE DEF f, c
<1>3. r \in Request /\ r.kind = "key" /\ r.code = c
  BY <1>2, RequestIs
<1> HIDE DEF r
<1>4. /\ q \in Keyboard /\ q.syms = f.syms /\ q.map = f.map /\ q.live = f.live
      /\ Len(f.out) \in Nat /\ Len(q.out) = Len(f.out) + 1
      /\ MapAfter(q, Len(f.out) + 1) = MapAfter(f, Len(f.out))
      /\ KeysRead(q, Len(f.out) + 1) =
            KeysRead(f, Len(f.out)) \o Read(MapAfter(q, Len(f.out) + 1), c)
  BY <1>1, <1>3, QueuedIs
<1> HIDE DEF q
<1>5. MapAfter(f, n) = MapAfter(k, n) /\ KeysRead(f, n) = KeysRead(k, n) /\ n \in Nat
  <2>1. n \in Nat
    BY <1>1, <1>4
  <2>2. QED
    BY <1>1, <2>1, SameReading
<1>6. /\ n = Len(f.out) /\ Len(q.out) = n + 1
      /\ MapAfter(q, n + 1) = MapAfter(k, n)
      /\ KeysRead(q, n + 1) = KeysRead(k, n) \o Read(MapAfter(k, n), c)
  BY <1>1, <1>4, <1>5
<1>7. InSync(k) => InSync(q)
  BY <1>1, <1>4, <1>6 DEF InSync
<1>8. Apart(q)
  BY <1>1, <1>4 DEF Apart
<1>9. ASSUME k.live, InSync(k) PROVE Read(MapAfter(k, n), c) = <<key>>
  <2>1. MapAfter(k, n) = ToSet(k.syms)
    BY <1>9 DEF InSync
  <2>2. CASE key \in Physical
    BY <1>2, <2>2 DEF Read
  <2>3. CASE key \notin Physical
    <3>1. PICK a \in ToSet(k.syms) : a.code = c /\ a.sym = key
      BY <1>2, <2>3
    <3>2. \A b \in ToSet(k.syms) : b.code = c => b = a
      BY <3>1 DEF Apart, ToSet
    <3>3. (CHOOSE b \in ToSet(k.syms) : b.code = c) = a
      BY <3>1, <3>2
    <3>4. QED
      BY <1>2, <2>1, <2>3, <3>1, <3>3 DEF Read
  <2>4. QED
    BY <2>2, <2>3
<1>10. q.out # <<>>
  BY <1>5, <1>6
<1>11. QED
  BY <1>0, <1>1, <1>4, <1>6, <1>7, <1>8, <1>9, <1>10

\* A queue without keys types nothing.
LEMMA NoKeysRead ==
    ASSUME NEW k \in Keyboard, \A i \in DOMAIN k.out : k.out[i].kind = "keymap",
           NEW n \in 0..Len(k.out)
    PROVE  KeysRead(k, n) = <<>>
<1> DEFINE L == Len(k.out)
           Bad == {m \in 0..L : KeysRead(k, m) # <<>>}
<1>1. L \in Nat /\ DOMAIN k.out = 1..L
  BY LenProperties DEF Keyboard
<1>2. SUFFICES ASSUME Bad # {} PROVE FALSE
  OBVIOUS
<1>3. PICK m \in Bad : \A j \in Bad : m <= j
  <2>1. Bad \in SUBSET Nat
    BY <1>1
  <2> HIDE DEF Bad
  <2>2. QED
    BY <1>2, <2>1, Smallest
<1>4. m # 0
  BY <1>3, KeysReadFirst
<1>5. m \in 1..L /\ m - 1 \in 0..L /\ ~(m <= m - 1)
  BY <1>1, <1>3, <1>4
<1>6. KeysRead(k, m - 1) = <<>>
  BY <1>3, <1>5
<1>7. Passed(k, m) = <<>>
  <2>1. k.out[m].kind = "keymap"
    BY <1>1, <1>5
  <2>2. QED
    BY <2>1 DEF Passed
<1>8. KeysRead(k, m) = KeysRead(k, m - 1) \o Passed(k, m)
  BY <1>5, KeysReadStep
<1>9. KeysRead(k, m) = <<>> \o <<>>
  BY <1>6, <1>7, <1>8, Zenon
<1>10. <<>> \o <<>> = <<>>
  BY ConcatEmptySeq, EmptySeq
<1>11. QED
  BY <1>3, <1>9, <1>10

\* What a flush may come to.
LEMMA FlushIs ==
    ASSUME NEW k \in Keyboard, Apart(k), InSync(k), NEW mayFail, NEW f \in Flushes(k, mayFail)
    PROVE  /\ f.kb \in Keyboard /\ Apart(f.kb) /\ InSync(f.kb) /\ f.kb.out = <<>>
           /\ f.raised \in BOOLEAN /\ (f.raised => ~f.kb.live)
           /\ f = [kb |-> f.kb, keys |-> f.keys, raised |-> f.raised, lost |-> f.lost]
           /\ \E n \in 0..Len(k.out) :
                 /\ f.keys = KeysRead(k, n)
                 /\ f.lost <=> n < Len(k.out)
                 /\ f.kb.live => k.live /\ n = Len(k.out)
                 /\ ~k.live => n = 0 /\ ~f.kb.live
<1> DEFINE all == Len(k.out)
<1>0. all \in Nat /\ k.live \in BOOLEAN /\ k.out \in Seq(Request)
      /\ k = [syms |-> k.syms, out |-> k.out, map |-> k.map, live |-> k.live]
  BY DEF Keyboard
<1>1. ASSUME NEW n \in 0..all, NEW live \in BOOLEAN, NEW raised \in BOOLEAN,
             f = Outcome(k, n, live, raised), raised => ~live,
             live => k.live /\ n = all, ~k.live => n = 0 /\ ~live
      PROVE  /\ f.kb \in Keyboard /\ Apart(f.kb) /\ InSync(f.kb) /\ f.kb.out = <<>>
             /\ f.raised = raised /\ f.kb.live = live
             /\ f = [kb |-> f.kb, keys |-> f.keys, raised |-> f.raised, lost |-> f.lost]
             /\ f.keys = KeysRead(k, n) /\ (f.lost <=> n < all)
  <2> DEFINE g == Flushed(k, n, live)
  <2>1. f.kb = g /\ f.raised = raised /\ f.keys = KeysRead(k, n) /\ f.lost = (n < all)
    BY <1>1 DEF Outcome
  <2>2. g = [syms |-> k.syms, out |-> <<>>, map |-> MapAfter(k, n), live |-> live]
    <3> DEFINE m == MapAfter(k, n)
    <3>1. g = [k EXCEPT !.out = <<>>, !.map = m, !.live = live]
      BY DEF Flushed
    <3> HIDE DEF m, g
    <3>2. g = [syms |-> k.syms, out |-> <<>>, map |-> m, live |-> live]
      BY <1>0, <3>1
    <3>3. QED
      BY <3>2 DEF m
  <2>3. MapAfter(k, n) \in SUBSET Assigned
    BY MapType
  <2> HIDE DEF g
  <2>4. g \in Keyboard /\ g.syms = k.syms /\ g.out = <<>> /\ g.live = live
        /\ g.map = MapAfter(k, n)
    BY <2>2, <2>3 DEF Keyboard
  <2>5. Apart(g)
    BY <2>4 DEF Apart
  <2>6. InSync(g)
    <3>1. Len(g.out) = 0
      BY <2>4
    <3>2. MapAfter(g, 0) = MapAfter(k, n)
      BY <2>4, MapAtFirst
    <3>3. QED
      BY <1>1, <2>4, <3>1, <3>2 DEF InSync
  <2>7. f = [kb |-> f.kb, keys |-> f.keys, raised |-> f.raised, lost |-> f.lost]
    <3> DEFINE x == KeysRead(k, n)
               y == Flushed(k, n, live)
               z == n < Len(k.out)
    <3>1. f = [kb |-> y, keys |-> x, raised |-> raised, lost |-> z]
      BY <1>1 DEF Outcome
    <3> HIDE DEF x, y, z
    <3>2. QED
      BY <3>1
  <2>8. QED
    BY <2>1, <2>4, <2>5, <2>6, <2>7
<1>2. CASE (k.live \/ all = 0) /\ f = Outcome(k, all, k.live, FALSE)
  <2>1. all \in 0..all
    BY <1>0
  <2>2. QED
    BY <1>0, <1>1, <1>2, <2>1
<1>3. CASE \E n \in IF k.live THEN 0..all ELSE {0}, raised \in BOOLEAN :
               f = Outcome(k, n, FALSE, raised)
  <2>1. PICK n \in IF k.live THEN 0..all ELSE {0} :
            \E raised \in BOOLEAN : f = Outcome(k, n, FALSE, raised)
    BY <1>3
  <2>2. PICK raised \in BOOLEAN : f = Outcome(k, n, FALSE, raised)
    BY <2>1
  <2>3. n \in 0..all /\ (~k.live => n = 0)
    BY <1>0, <2>1
  <2>4. QED
    BY <1>1, <2>2, <2>3
<1> DEFINE clean == IF k.live \/ all = 0 THEN {Outcome(k, all, k.live, FALSE)} ELSE {}
           reached == IF k.live THEN 0..all ELSE {0}
           Breaks(raised) == {Outcome(k, n, FALSE, raised) : n \in reached}
           broken == IF all > 0 /\ (mayFail \/ ~k.live) THEN Breaks(TRUE) \cup Breaks(FALSE) ELSE {}
<1>4. Flushes(k, mayFail) = clean \cup broken
  BY DEF Flushes
<1>5. CASE f \in clean
  BY <1>2, <1>5
<1>6. CASE f \in broken
  <2>1. f \in Breaks(TRUE) \/ f \in Breaks(FALSE)
    <3> HIDE DEF Breaks
    <3>1. QED
      BY <1>6
  <2>2. \E n \in reached, raised \in BOOLEAN : f = Outcome(k, n, FALSE, raised)
    <3>1. CASE f \in Breaks(TRUE)
      BY <3>1
    <3>2. CASE f \in Breaks(FALSE)
      BY <3>2
    <3>3. QED
      BY <2>1, <3>1, <3>2
  <2>3. QED
    BY <1>3, <2>2
<1>7. QED
  <2> HIDE DEF clean, broken
  <2>1. QED
    BY <1>4, <1>5, <1>6

-----------------------------------------------------------------------------
(* The call.                                                               *)

Call == [back: Nat, text: Seq(Character), pasting: BOOLEAN]

Wanted(c) == FlattenSeq(Plan(c))

LEMMA TextsAre == /\ Texts \subseteq Seq(Character) \ {<<>>}
                  /\ <<"Return">> \in Seq(Character) /\ <<>> \in Seq(Character)
                  /\ "BackSpace" \in Character
                  /\ Seq(Character) \subseteq Seq(Key)
                  /\ Physical \subseteq Key
                  /\ "Ctrl+V" \in Key
  BY DeviceAssumption, SeqMonotonic DEF Character, Key

LEMMA SegmentIs ==
    ASSUME NEW keys \in Seq(Key)
    PROVE  Segment(keys) \in Seq(Seq(Key)) /\ FlattenSeq(Segment(keys)) = keys
<1>1. CASE keys = <<>>
  BY <1>1, FlattenEmpty DEF Segment
<1>2. CASE keys # <<>>
  BY <1>2, FlattenOne DEF Segment
<1>3. QED
  BY <1>1, <1>2

\* The keystrokes of a call have the effect that was asked for.
LEMMA WantedIs ==
    ASSUME NEW c \in Call
    PROVE  /\ Plan(c) \in Seq(Seq(Key)) /\ Wanted(c) \in Seq(Key)
           /\ ~c.pasting => Wanted(c) \in Seq(Character)
           /\ Landing(c.text, Wanted(c)) = Backspaces(c.back) \o c.text
           /\ Backspaces(c.back) \o c.text \in Seq(Key)
<1> DEFINE a == Backspaces(c.back)
           b == IF c.pasting THEN <<"Ctrl+V">> ELSE c.text
<1>1. a \in Seq(Character) /\ a \in Seq(Key)
  <2>1. c.back \in Nat
    BY DEF Call
  <2>2. a \in Seq(Character)
    BY <2>1, TextsAre DEF Backspaces
  <2>3. QED
    BY <2>2, TextsAre
<1>2. c.text \in Seq(Character) /\ c.text \in Seq(Key) /\ b \in Seq(Key)
  BY TextsAre DEF Call
<1>3. Plan(c) = Segment(a) \o Segment(b)
  BY DEF Plan
<1>4. /\ Segment(a) \in Seq(Seq(Key)) /\ FlattenSeq(Segment(a)) = a
      /\ Segment(b) \in Seq(Seq(Key)) /\ FlattenSeq(Segment(b)) = b
  BY <1>1, <1>2, SegmentIs
<1> HIDE DEF a, b
<1>5. Plan(c) \in Seq(Seq(Key)) /\ Wanted(c) = a \o b
  <2>1. FlattenSeq(Segment(a) \o Segment(b)) = FlattenSeq(Segment(a)) \o FlattenSeq(Segment(b))
    BY <1>4, FlattenConcat
  <2>2. Segment(a) \o Segment(b) \in Seq(Seq(Key))
    BY <1>4, ConcatProperties
  <2>3. QED
    BY <1>3, <1>4, <2>1, <2>2, Zenon DEF Wanted
<1>6. a \o b \in Seq(Key) /\ a \o c.text \in Seq(Key)
  BY <1>1, <1>2, ConcatProperties
<1>7. ~c.pasting => b = c.text
  BY DEF b
<1>8. ~c.pasting => a \o b \in Seq(Character)
  BY <1>1, <1>2, <1>7, ConcatProperties
<1>9. Landing(c.text, b) = c.text
  <2>1. CASE c.pasting
    <3>1. b = <<"Ctrl+V">>
      BY <2>1 DEF b
    <3>2. QED
      BY <1>2, <3>1, TextsAre, LandingOne
  <2>2. CASE ~c.pasting
    BY <1>2, <1>7, <2>2, CharactersLand
  <2>3. QED
    BY <2>1, <2>2
<1>10. Landing(c.text, a \o b) = a \o c.text
  <2>1. Landing(c.text, a \o b) = Landing(c.text, a) \o Landing(c.text, b)
    BY <1>1, <1>2, LandingConcat
  <2>2. Landing(c.text, a) = a
    BY <1>1, <1>2, CharactersLand
  <2>3. QED
    BY <1>9, <2>1, <2>2, Zenon
<1>11. QED
  BY <1>5, <1>6, <1>8, <1>10 DEF a

\* The clipboard holds the text as long as Ctrl+V may still land; other calls
\* have no Ctrl+V.
LEMMA TypedInCall ==
    ASSUME NEW c \in Call, c.pasting => clip = c.text,
           NEW raw \in Seq(Key), NEW keys \in Seq(Key), Begins(raw \o keys, Wanted(c))
    PROVE  Typed(keys) = Landing(c.text, keys)
<1>1. CASE c.pasting
  BY <1>1, TypedIsLanding
<1>2. CASE ~c.pasting
  <2>1. PICK rest \in Seq(Key) : Wanted(c) = (raw \o keys) \o rest
    BY DEF Begins
  <2>2. Wanted(c) \in Seq(Character)
    BY <1>2, WantedIs
  <2>3. /\ raw \o keys \in Seq(Key) /\ Len(raw \o keys) = Len(raw) + Len(keys)
        /\ Len(raw) \in Nat /\ Len(keys) \in Nat /\ Len(rest) \in Nat
        /\ \A i \in 1..(Len(raw) + Len(keys)) :
              (raw \o keys)[i] = IF i <= Len(raw) THEN raw[i] ELSE keys[i - Len(raw)]
    BY ConcatProperties, LenProperties
  <2> DEFINE x == raw \o keys
  <2>4. /\ Len(Wanted(c)) = Len(x) + Len(rest)
        /\ \A i \in 1..(Len(x) + Len(rest)) :
              Wanted(c)[i] = IF i <= Len(x) THEN x[i] ELSE rest[i - Len(x)]
    <3>1. x \in Seq(Key) /\ Wanted(c) = x \o rest
      BY <2>1, <2>3
    <3> HIDE DEF x
    <3>2. /\ Len(x \o rest) = Len(x) + Len(rest)
          /\ \A i \in 1..(Len(x) + Len(rest)) :
                (x \o rest)[i] = IF i <= Len(x) THEN x[i] ELSE rest[i - Len(x)]
      BY <3>1, ConcatProperties
    <3>3. QED
      BY <3>1, <3>2, Zenon
  <2> HIDE DEF x
  <2>5. ASSUME NEW i \in 1..Len(keys) PROVE keys[i] # "Ctrl+V"
    <3> DEFINE j == Len(raw) + i
    <3>1. /\ j \in 1..(Len(raw) + Len(keys)) /\ ~(j <= Len(raw)) /\ j - Len(raw) = i
          /\ j <= Len(x) /\ j \in 1..(Len(x) + Len(rest)) /\ j \in 1..Len(Wanted(c))
      BY <2>3, <2>4 DEF x
    <3> HIDE DEF j
    <3>2. x[j] = keys[i]
      BY <2>3, <3>1 DEF x
    <3>3. Wanted(c)[j] = keys[i]
      BY <2>4, <3>1, <3>2
    <3>4. Wanted(c)[j] \in Character
      BY <2>2, <3>1, ElementOfSeq
    <3>5. QED
      BY <3>3, <3>4 DEF Character
  <2>6. DOMAIN keys = 1..Len(keys)
    BY LenProperties
  <2>7. Effects(clip, keys) = Effects(c.text, keys)
    BY <2>5, <2>6 DEF Effects
  <2>8. QED
    BY <2>7, TypedIsLanding, Zenon DEF Landing
<1>3. QED
  BY <1>1, <1>2

-----------------------------------------------------------------------------
(* A call on its way: raw are the keys that have landed.                   *)

\* With keyboard k, keys todo to be queued and l on the screen, nothing is missing
\* and nothing is there twice, unless the connection ended with keys in the queue.
OnWay(c, k, l, todo, lost) ==
    \E raw \in Seq(Key) :
        /\ l = Landing(c.text, raw)
        /\ k.live => (raw \o KeysRead(k, Len(k.out))) \o todo = Wanted(c)
        /\ ~k.live => Begins(raw, Wanted(c))
        /\ (~k.live /\ k.out = <<>> /\ ~lost) => raw \o todo = Wanted(c)

\* After an error the queue may still go out, up to anywhere.
Broke(c, k, l) ==
    \E raw \in Seq(Key) :
        /\ l = Landing(c.text, raw)
        /\ k.live => Begins(raw \o KeysRead(k, Len(k.out)), Wanted(c))
        /\ ~k.live => Begins(raw, Wanted(c))

LEMMA AllRead ==
    ASSUME NEW k \in Keyboard
    PROVE  Len(k.out) \in 0..Len(k.out) /\ KeysRead(k, Len(k.out)) \in Seq(Key)
           /\ (k.out = <<>> => KeysRead(k, Len(k.out)) = <<>>)
<1>1. Len(k.out) \in 0..Len(k.out)
  BY DEF Keyboard
<1>2. k.out = <<>> => Len(k.out) = 0
  OBVIOUS
<1>3. QED
  BY <1>1, <1>2, ReadingsType, KeysReadFirst

LEMMA FlushOnWay ==
    ASSUME NEW c \in Call, c.pasting => clip = c.text,
           NEW k \in Keyboard, Apart(k), InSync(k), NEW mayFail, NEW f \in Flushes(k, mayFail),
           NEW l, NEW todo \in Seq(Key), NEW lost, OnWay(c, k, l, todo, lost)
    PROVE  LET l2 == l \o Typed(f.keys)
           IN  OnWay(c, f.kb, l2, todo, lost \/ f.lost) /\ (~f.kb.live => Broke(c, f.kb, l2))
<1> DEFINE W == Wanted(c)
           all == Len(k.out)
           l2 == l \o Typed(f.keys)
<1>0. /\ W \in Seq(Key) /\ c.text \in Seq(Key) /\ all \in Nat /\ k.live \in BOOLEAN
      /\ KeysRead(k, all) \in Seq(Key)
  <2>1. W \in Seq(Key)
    BY WantedIs
  <2>2. c.text \in Seq(Key)
    BY TextsAre DEF Call
  <2>3. all \in Nat /\ k.live \in BOOLEAN /\ KeysRead(k, all) \in Seq(Key)
    BY AllRead DEF Keyboard
  <2>4. QED
    BY <2>1, <2>2, <2>3
<1>1. /\ f.kb \in Keyboard /\ f.kb.out = <<>>
  BY FlushIs
<1>2. PICK n \in 0..all : /\ f.keys = KeysRead(k, n)
                          /\ f.lost <=> n < all
                          /\ f.kb.live => k.live /\ n = all
                          /\ ~k.live => n = 0 /\ ~f.kb.live
  BY FlushIs
<1>3. f.keys \in Seq(Key)
  BY <1>2, ReadingsType
<1>4. PICK raw \in Seq(Key) :
        /\ l = Landing(c.text, raw)
        /\ k.live => (raw \o KeysRead(k, all)) \o todo = W
        /\ ~k.live => Begins(raw, W)
        /\ (~k.live /\ k.out = <<>> /\ ~lost) => raw \o todo = W
  BY DEF OnWay
<1> HIDE DEF W, all
<1> DEFINE now == raw \o f.keys
<1>5. now \in Seq(Key)
  BY <1>3, ConcatProperties
<1>6. Begins(now, W)
  <2>1. CASE k.live
    <3>1. PICK rest \in Seq(Key) : KeysRead(k, all) = f.keys \o rest
      BY <1>2, ReadsBeginning DEF Begins, all
    <3>2. raw \o KeysRead(k, all) = now \o rest
      <4> DEFINE g == f.keys
      <4>0. g \in Seq(Key)
        BY <1>3
      <4> HIDE DEF g
      <4>1. (raw \o g) \o rest = raw \o (g \o rest)
        BY <4>0, ConcatAssociative
      <4>2. QED
        BY <3>1, <4>1, Zenon DEF g
    <3>3. (now \o rest) \o todo = W
      BY <1>4, <2>1, <3>2, Zenon
    <3>4. (now \o rest) \o todo = now \o (rest \o todo)
      <4> HIDE DEF now
      <4>1. QED
        BY <1>5, ConcatAssociative
    <3>5. rest \o todo \in Seq(Key)
      BY ConcatProperties
    <3>6. QED
      BY <3>3, <3>4, <3>5, Zenon DEF Begins
  <2>2. CASE ~k.live
    <3>1. f.keys = <<>>
      BY <1>2, <2>2, KeysReadFirst
    <3>2. now = raw
      BY <3>1, ConcatEmptySeq
    <3>3. QED
      BY <1>4, <2>2, <3>2, Zenon
  <2>3. QED
    BY <2>1, <2>2
<1>7. l2 = Landing(c.text, now)
  <2>1. Typed(f.keys) = Landing(c.text, f.keys)
    BY <1>3, <1>6, TypedInCall DEF W
  <2>2. Landing(c.text, now) = Landing(c.text, raw) \o Landing(c.text, f.keys)
    BY <1>0, <1>3, LandingConcat
  <2>3. QED
    BY <1>4, <2>1, <2>2, Zenon
<1>8. KeysRead(f.kb, Len(f.kb.out)) = <<>>
  BY <1>1, AllRead
<1>9. now \o <<>> = now
  BY <1>5, ConcatEmptySeq
<1>10. ASSUME n = all PROVE k.live => now \o todo = W
  BY <1>2, <1>4, <1>10, Zenon
<1>11. ASSUME f.kb.live
       PROVE  (now \o KeysRead(f.kb, Len(f.kb.out))) \o todo = W
  <2>1. now \o todo = W
    BY <1>2, <1>10, <1>11
  <2>2. now \o KeysRead(f.kb, Len(f.kb.out)) = now
    BY <1>8, <1>9, Zenon
  <2>3. QED
    BY <2>1, <2>2, Zenon
<1>12. ASSUME ~f.kb.live, ~(lost \/ f.lost) PROVE now \o todo = W
  <2>1. n = all
    BY <1>0, <1>2, <1>12
  <2>2. CASE k.live
    BY <1>10, <2>1, <2>2
  <2>3. CASE ~k.live
    <3>1. all = 0 /\ f.keys = <<>>
      BY <1>2, <2>1, <2>3, KeysReadFirst
    <3>2. k.out = <<>>
      BY <3>1 DEF all, Keyboard
    <3>3. now = raw
      BY <3>1, ConcatEmptySeq
    <3>4. raw \o todo = W
      BY <1>4, <1>12, <2>3, <3>2
    <3>5. QED
      BY <3>3, <3>4, Zenon
  <2>4. QED
    BY <2>2, <2>3
<1> HIDE DEF now, l2
<1>13. OnWay(c, f.kb, l2, todo, lost \/ f.lost)
  BY <1>5, <1>6, <1>7, <1>11, <1>12 DEF OnWay, W
<1>14. ~f.kb.live => Broke(c, f.kb, l2)
  BY <1>5, <1>6, <1>7 DEF Broke, W
<1>15. QED
  BY <1>13, <1>14 DEF l2

\* A key that is tapped moves from what is to be queued to the queue.
LEMMA TapOnWay ==
    ASSUME NEW c \in Call, NEW k \in Keyboard, Apart(k), InSync(k),
           NEW key \in Key, HasCode(k, key), NEW l, NEW todo \in Seq(Key), NEW lost,
           OnWay(c, k, l, <<key>> \o todo, lost)
    PROVE  OnWay(c, Tapped(Refreshed(k, key), CodeOf(k, key)), l, todo, lost)
<1> DEFINE q == Tapped(Refreshed(k, key), CodeOf(k, key))
<1>1. /\ q \in Keyboard /\ q.live = k.live /\ q.out # <<>>
      /\ k.live => KeysRead(q, Len(q.out)) = KeysRead(k, Len(k.out)) \o <<key>>
  BY TappedIs
<1> HIDE DEF q
<1>2. PICK raw \in Seq(Key) :
        /\ l = Landing(c.text, raw)
        /\ k.live => (raw \o KeysRead(k, Len(k.out))) \o (<<key>> \o todo) = Wanted(c)
        /\ ~k.live => Begins(raw, Wanted(c))
  BY DEF OnWay
<1>3. ASSUME k.live
      PROVE  (raw \o KeysRead(q, Len(q.out))) \o todo = Wanted(c)
  <2> DEFINE r == KeysRead(k, Len(k.out))
             one == <<key>>
  <2>1. r \in Seq(Key) /\ one \in Seq(Key)
    BY AllRead
  <2> HIDE DEF r, one
  <2>2. raw \o (r \o one) = (raw \o r) \o one
    BY <2>1, ConcatAssociative
  <2>3. raw \o r \in Seq(Key)
    BY <2>1, ConcatProperties
  <2>4. ((raw \o r) \o one) \o todo = (raw \o r) \o (one \o todo)
    BY <2>1, <2>3, ConcatAssociative
  <2>5. KeysRead(q, Len(q.out)) = r \o one
    BY <1>1, <1>3 DEF r, one
  <2>6. (raw \o r) \o (one \o todo) = Wanted(c)
    BY <1>2, <1>3 DEF r, one
  <2>7. QED
    BY <2>2, <2>4, <2>5, <2>6, Zenon
<1>4. OnWay(c, q, l, todo, lost)
  BY <1>1, <1>2, <1>3 DEF OnWay
<1>5. QED
  BY <1>4 DEF q

\* A keymap in the queue does not stand in the way of keys.
LEMMA UploadOnWay ==
    ASSUME NEW c \in Call, NEW k \in Keyboard, Apart(k), NEW key \in Key, ~HasCode(k, key),
           NEW l, NEW todo \in Seq(Key), NEW lost, OnWay(c, k, l, todo, lost)
    PROVE  /\ OnWay(c, Uploaded(Allocated(k, key)), l, todo, lost)
           /\ Broke(c, Allocated(k, key), l)
<1> DEFINE a == Allocated(k, key)
           q == Uploaded(a)
<1>1. a \in Keyboard /\ a.out = k.out /\ a.map = k.map /\ a.live = k.live
  BY AllocatedIs
<1> HIDE DEF a
<1>2. q \in Keyboard /\ q.live = a.live /\ q.out # <<>>
      /\ KeysRead(q, Len(q.out)) = KeysRead(a, Len(a.out))
  BY <1>1, UploadedIs
<1> HIDE DEF q
<1>3. KeysRead(a, Len(a.out)) = KeysRead(k, Len(k.out))
  <2>1. Len(k.out) \in Nat
    BY DEF Keyboard
  <2>2. KeysRead(a, Len(k.out)) = KeysRead(k, Len(k.out))
    BY <1>1, <2>1, SameReading
  <2>3. QED
    BY <1>1, <2>2
<1>4. PICK raw \in Seq(Key) :
        /\ l = Landing(c.text, raw)
        /\ k.live => (raw \o KeysRead(k, Len(k.out))) \o todo = Wanted(c)
        /\ ~k.live => Begins(raw, Wanted(c))
  BY DEF OnWay
<1>5. OnWay(c, q, l, todo, lost)
  <2>1. k.live => (raw \o KeysRead(q, Len(q.out))) \o todo = Wanted(c)
    BY <1>2, <1>3, <1>4, Zenon
  <2>2. QED
    BY <1>1, <1>2, <1>4, <2>1 DEF OnWay
<1>6. Broke(c, a, l)
  <2>1. k.live => (raw \o KeysRead(a, Len(a.out))) \o todo = Wanted(c)
    BY <1>3, <1>4, Zenon
  <2>2. k.live => Begins(raw \o KeysRead(a, Len(a.out)), Wanted(c))
    BY <2>1, Zenon DEF Begins
  <2>3. QED
    BY <1>1, <1>4, <2>2 DEF Broke
<1>7. QED
  BY <1>5, <1>6 DEF a, q

Done(c) == Backspaces(c.back) \o c.text

\* What is on the screen is the beginning of what was asked for: on the way,
LEMMA BeginningOnWay ==
    ASSUME NEW c \in Call, NEW k \in Keyboard, NEW l, NEW todo \in Seq(Key),
           NEW lost, OnWay(c, k, l, todo, lost)
    PROVE  l \in Seq(Key) /\ Begins(l, Done(c))
<1>1. PICK raw \in Seq(Key) :
        /\ l = Landing(c.text, raw)
        /\ k.live => (raw \o KeysRead(k, Len(k.out))) \o todo = Wanted(c)
        /\ ~k.live => Begins(raw, Wanted(c))
  BY DEF OnWay
<1>2. Begins(raw, Wanted(c))
  <2>1. CASE k.live
    <3> DEFINE r == KeysRead(k, Len(k.out))
    <3>1. r \in Seq(Key)
      BY AllRead
    <3> HIDE DEF r
    <3>2. Wanted(c) = (raw \o r) \o todo
      BY <1>1, <2>1 DEF r
    <3>3. Begins(raw \o r, Wanted(c))
      BY <3>2 DEF Begins
    <3>4. QED
      BY <3>1, <3>3, WantedIs, BeginsShorter
  <2>2. QED
    BY <1>1, <2>1
<1>3. c.text \in Seq(Key) /\ Wanted(c) \in Seq(Key) /\ Landing(c.text, Wanted(c)) = Done(c)
  BY WantedIs, TextsAre DEF Call, Done
<1>4. Begins(Landing(c.text, raw), Landing(c.text, Wanted(c)))
  BY <1>2, <1>3, LandingBegins
<1>5. Landing(c.text, raw) \in Seq(Key)
  BY <1>3, LandingType
<1>6. QED
  BY <1>1, <1>3, <1>4, <1>5, Zenon

\* after an error, whatever still goes out,
LEMMA BeginningBroke ==
    ASSUME NEW c \in Call, c.pasting => clip = c.text, NEW k \in Keyboard, NEW l, Broke(c, k, l),
           NEW n \in IF k.live THEN 0..Len(k.out) ELSE {0}
    PROVE  /\ l \in Seq(Key) /\ Begins(l, Done(c))
           /\ l \o Typed(KeysRead(k, n)) \in Seq(Key)
           /\ Begins(l \o Typed(KeysRead(k, n)), Done(c))
<1>0. k.live \in BOOLEAN /\ n \in 0..Len(k.out)
  BY DEF Keyboard
<1>1. PICK raw \in Seq(Key) :
        /\ l = Landing(c.text, raw)
        /\ k.live => Begins(raw \o KeysRead(k, Len(k.out)), Wanted(c))
        /\ ~k.live => Begins(raw, Wanted(c))
  BY DEF Broke
<1> DEFINE g == KeysRead(k, n)
           now == raw \o g
<1>2. g \in Seq(Key) /\ now \in Seq(Key)
  BY <1>0, ReadingsType, ConcatProperties
<1>3. c.text \in Seq(Key) /\ Wanted(c) \in Seq(Key) /\ Landing(c.text, Wanted(c)) = Done(c)
  BY WantedIs, TextsAre DEF Call, Done
<1>4. Begins(now, Wanted(c))
  <2>1. CASE k.live
    <3>1. PICK rest \in Seq(Key) : KeysRead(k, Len(k.out)) = g \o rest
      BY <1>0, ReadsBeginning DEF Begins
    <3> HIDE DEF g
    <3>2. raw \o KeysRead(k, Len(k.out)) = now \o rest
      <4>1. (raw \o g) \o rest = raw \o (g \o rest)
        BY <1>2, ConcatAssociative
      <4>2. QED
        BY <3>1, <4>1, Zenon
    <3>3. Begins(now \o rest, Wanted(c))
      BY <1>1, <2>1, <3>2, Zenon
    <3> HIDE DEF now
    <3>4. QED
      BY <1>2, <1>3, <3>3, BeginsShorter
  <2>2. CASE ~k.live
    <3>1. g = <<>>
      BY <2>2, KeysReadFirst
    <3>2. now = raw
      BY <3>1, ConcatEmptySeq
    <3>3. QED
      BY <1>1, <2>2, <3>2, Zenon
  <2>3. QED
    BY <1>0, <2>1, <2>2
<1> HIDE DEF g
<1>5. Begins(raw, Wanted(c))
  BY <1>2, <1>3, <1>4, BeginsShorter
<1>6. Typed(g) = Landing(c.text, g)
  BY <1>2, <1>4, TypedInCall
<1>7. Landing(c.text, now) = Landing(c.text, raw) \o Landing(c.text, g)
  BY <1>2, <1>3, LandingConcat
<1>8. l \o Typed(g) = Landing(c.text, now)
  BY <1>1, <1>6, <1>7, Zenon
<1> HIDE DEF now
<1>9. /\ Begins(Landing(c.text, raw), Landing(c.text, Wanted(c)))
      /\ Begins(Landing(c.text, now), Landing(c.text, Wanted(c)))
  BY <1>2, <1>3, <1>4, <1>5, LandingBegins
<1>10. Landing(c.text, raw) \in Seq(Key) /\ Landing(c.text, now) \in Seq(Key)
  BY <1>2, <1>3, LandingType
<1>11. QED
  BY <1>1, <1>3, <1>8, <1>9, <1>10, Zenon DEF g

\* and in full when nothing is left.
LEMMA EndOfWay ==
    ASSUME NEW c \in Call, NEW k \in Keyboard, k.out = <<>>, NEW l, NEW lost, ~lost,
           OnWay(c, k, l, <<>>, lost)
    PROVE  l = Done(c)
<1>1. PICK raw \in Seq(Key) :
        /\ l = Landing(c.text, raw)
        /\ k.live => (raw \o KeysRead(k, Len(k.out))) \o <<>> = Wanted(c)
        /\ (~k.live /\ k.out = <<>> /\ ~lost) => raw \o <<>> = Wanted(c)
  BY DEF OnWay
<1>2. KeysRead(k, Len(k.out)) = <<>> /\ k.live \in BOOLEAN
  BY AllRead DEF Keyboard
<1>3. raw \o <<>> = raw
  BY ConcatEmptySeq
<1>4. (raw \o KeysRead(k, Len(k.out))) \o <<>> = raw
  BY <1>2, <1>3, Zenon
<1>5. raw = Wanted(c)
  <2>1. CASE k.live
    BY <1>1, <1>4, <2>1, Zenon
  <2>2. CASE ~k.live
    BY <1>1, <1>3, <2>2
  <2>3. QED
    BY <1>2, <2>1, <2>2
<1>6. QED
  BY <1>1, <1>5, WantedIs, Zenon DEF Done

LEMMA DrainedIs ==
    ASSUME NEW k \in Keyboard, Apart(k), InSync(k), NEW mayFail, NEW f \in Flushes(k, mayFail),
           NEW g \in Drained(f)
    PROVE  /\ g.kb = f.kb /\ g.keys = f.keys /\ g.lost = f.lost
           /\ g.raised \in BOOLEAN /\ (g.raised => ~g.kb.live)
<1>1. /\ f = [kb |-> f.kb, keys |-> f.keys, raised |-> f.raised, lost |-> f.lost]
      /\ f.raised \in BOOLEAN /\ (f.raised => ~f.kb.live) /\ f.kb.live \in BOOLEAN
  BY FlushIs DEF Keyboard
<1>2. CASE g = f
  BY <1>1, <1>2
<1>3. CASE ~f.kb.live /\ g = [f EXCEPT !.raised = TRUE]
  <2>1. g = [kb |-> f.kb, keys |-> f.keys, raised |-> TRUE, lost |-> f.lost]
    BY <1>1, <1>3
  <2>2. QED
    BY <1>3, <2>1
<1>4. QED
  BY <1>1, <1>2, <1>3 DEF Drained

-----------------------------------------------------------------------------
(* The invariant.                                                          *)

Stages == {"idle", "focus", "read clipboard", "write clipboard", "keyboard", "typing",
           "raised", "wtype"}

DeviceTypes ==
    /\ paced \in BOOLEAN /\ cached \in {"absent", "there", "unavailable"}
    /\ kb \in Keyboard /\ Apart(kb) /\ (pc # "raised" => InSync(kb))
    /\ pc \in Stages /\ call \in Call
    /\ pc \in {"focus", "read clipboard", "write clipboard"} =>
          call.text \in Texts /\ ~call.pasting
    /\ left \in Seq(Seq(Key)) /\ sent \in Nat /\ answer \in {"typed", "failed"}
    /\ clip \in Contents /\ kept \in Contents /\ previous \in Contents \cup {<<>>}
    /\ timers \in Seq(Contents)
    /\ fallback \in Windows \cup {NoWindow} /\ recent \in BOOLEAN
    /\ excused \subseteq {"lost", "clip", "overlap"}

\* The call that comes first to the clipboard finds no timer, and while it pastes
\* the clipboard is its own; all the time between, somebody holds what the user
\* had there, or what it was read as: the clipboard itself, the call, or one timer.
Pasting == call.pasting /\ pc \in {"keyboard", "typing", "raised", "wtype"}
ClipInv ==
    "overlap" \notin excused =>
        /\ (pc = "write clipboard" \/ Pasting) => timers = <<>>
        /\ Pasting => clip = call.text
        /\ "clip" \notin excused =>
              /\ pc = "write clipboard" => previous \in Decoded(kept)
              /\ Pasting => previous \in Decoded(kept)
              /\ ~Pasting => \/ timers = <<>> /\ clip \in Decoded(kept)
                             \/ \E c \in Decoded(kept) : timers = <<c>>

\* Between calls the queue is empty.
QueueInv ==
    /\ pc \notin {"typing", "raised"} => kb.out = <<>>
    /\ (pc = "typing" /\ left = <<>>) => kb.out = <<>>

\* What has landed, what is queued and what is left make up what was asked for.
Lost == "lost" \in excused
NoKeyYet == landed = <<>> /\ \A i \in DOMAIN kb.out : kb.out[i].kind = "keymap"
TypingInv ==
    "overlap" \notin excused =>
        /\ pc \in {"focus", "read clipboard", "write clipboard", "keyboard", "wtype"} =>
              landed = <<>>
        /\ pc = "typing" => OnWay(call, kb, landed, FlattenSeq(left), Lost)
        /\ pc = "raised" => Broke(call, kb, landed)
        /\ (pc \in {"typing", "raised"} /\ sent = 0) => NoKeyYet
        /\ pc = "idle" => landed \in Seq(Key) /\ Begins(landed, Done(call))
        /\ (pc = "idle" /\ answer = "typed" /\ ~Lost) => landed = Done(call)

DeviceInv == FocusInv /\ DeviceTypes /\ ClipInv /\ QueueInv /\ TypingInv

-----------------------------------------------------------------------------
(* Types and codes.                                                        *)

LEMMA NewKeyboardIs ==
    /\ NewKeyboard \in Keyboard /\ NewKeyboard.out = <<>> /\ NewKeyboard.live
    /\ Apart(NewKeyboard) /\ InSync(NewKeyboard)
<1>1. NewKeyboard \in Keyboard /\ NewKeyboard.out = <<>> /\ NewKeyboard.live
      /\ NewKeyboard.syms = <<>> /\ NewKeyboard.map = {}
  BY DEF NewKeyboard, Keyboard
<1>2. MapAfter(NewKeyboard, 0) = {}
  BY <1>1, MapAtFirst
<1>3. ToSet(NewKeyboard.syms) = {}
  BY <1>1 DEF ToSet
<1>4. QED
  BY <1>1, <1>2, <1>3 DEF Apart, InSync

LEMMA ContentsAre ==
    /\ <<>> \notin Contents
    /\ \A c \in Contents : Decoded(c) \subseteq Contents
<1>1. <<>> \notin Texts /\ User # <<>> /\ Garbled # <<>>
  BY TextsAre DEF User, Garbled
<1>2. QED
  BY <1>1 DEF Contents, Decoded

\* What is read of what was read is what the user had, or what it was read as.
LEMMA DecodedTwice ==
    ASSUME NEW c, NEW d \in Decoded(c), NEW e \in Decoded(d)
    PROVE  e \in Decoded(c)
  BY DEF Decoded

\* Sends after a flush or a method's end.
LEMMA SendsTypes ==
    ASSUME DeviceTypes, NEW k \in Keyboard, Apart(k), InSync(k), NEW mayFail,
           NEW f \in Flushes(k, mayFail), NEW g \in Drained(f), Sends(g)
    PROVE  /\ kb' \in Keyboard /\ Apart(kb') /\ InSync(kb') /\ kb'.out = <<>>
           /\ pc' \in {"typing", "raised"} /\ (pc' = "raised" => ~kb'.live)
           /\ excused' \subseteq {"lost", "clip", "overlap"}
           /\ excused' \ {"lost"} = excused \ {"lost"}
<1>1. /\ f.kb \in Keyboard /\ Apart(f.kb) /\ InSync(f.kb) /\ f.kb.out = <<>>
  BY FlushIs
<1>2. g.kb = f.kb /\ g.raised \in BOOLEAN /\ (g.raised => ~g.kb.live)
  BY DrainedIs
<1>3. kb' = f.kb /\ pc' = (IF g.raised THEN "raised" ELSE "typing")
  BY <1>2 DEF Sends
<1>4. excused' = excused \/ excused' = excused \cup {"lost"}
  BY DEF Sends
<1>5. QED
  BY <1>1, <1>2, <1>3, <1>4 DEF DeviceTypes

LEMMA FlushIsDrained == \A f : f \in Drained(f)
  BY DEF Drained

\* The flushes of the three steps that send.
LEMMA AllocateKeyIs ==
    ASSUME DeviceTypes, AllocateKey
    PROVE  LET key == Head(Head(left))
               new == Allocated(kb, key)
           IN  /\ key \in Key /\ ~HasCode(kb, key)
               /\ new \in Keyboard /\ Apart(new) /\ new.live = kb.live
               /\ new.out = kb.out /\ new.map = kb.map
               /\ Uploaded(new) \in Keyboard /\ Apart(Uploaded(new)) /\ InSync(Uploaded(new))
               /\ \/ \E f \in Flushes(Uploaded(new), MayFail) : f \in Drained(f) /\ Sends(f)
                  \/ kb' = new /\ pc' = "raised" /\ Fault /\ UNCHANGED <<landed, excused>>
<1> DEFINE key == Head(Head(left))
           new == Allocated(kb, key)
<1>1. /\ pc = "typing" /\ left # <<>> /\ Head(left) # <<>> /\ ~HasCode(kb, key)
      /\ \/ \E f \in Flushes(Uploaded(new), MayFail) : Sends(f)
         \/ kb' = new /\ pc' = "raised" /\ Fault /\ UNCHANGED <<landed, excused>>
  BY DEF AllocateKey
<1>2. key \in Key
  <2>1. Head(left) \in Seq(Key)
    BY <1>1, HeadTailProperties DEF DeviceTypes
  <2>2. QED
    BY <1>1, <2>1, HeadTailProperties
<1> HIDE DEF key
<1>3. new \in Keyboard /\ Apart(new) /\ new.live = kb.live /\ new.out = kb.out /\ new.map = kb.map
  BY <1>1, <1>2, AllocatedIs DEF DeviceTypes
<1> HIDE DEF new
<1>4. Uploaded(new) \in Keyboard /\ InSync(Uploaded(new)) /\ Uploaded(new).syms = new.syms
  BY <1>3, UploadedIs
<1>5. Apart(Uploaded(new))
  BY <1>3, <1>4 DEF Apart
<1>6. QED
  BY <1>1, <1>2, <1>3, <1>4, <1>5, FlushIsDrained DEF key, new

LEMMA TypeKeyIs ==
    ASSUME DeviceTypes, TypeKey
    PROVE  LET key == Head(Head(left))
               tapped == Tapped(Refreshed(kb, key), CodeOf(kb, key))
           IN  /\ key \in Key /\ HasCode(kb, key)
               /\ tapped \in Keyboard /\ Apart(tapped) /\ InSync(tapped)
               /\ left # <<>> /\ Head(left) # <<>>
               /\ left' \in Seq(Seq(Key)) \ {<<>>} /\ FlattenSeq(left) = <<key>> \o FlattenSeq(left')
               /\ \/ \E f \in Flushes(tapped, MayFail) : f \in Drained(f) /\ Sends(f)
                  \/ kb' = tapped /\ UNCHANGED <<pc, landed, excused, used>>
<1> DEFINE key == Head(Head(left))
           tapped == Tapped(Refreshed(kb, key), CodeOf(kb, key))
<1>1. /\ pc = "typing" /\ left # <<>> /\ Head(left) # <<>> /\ HasCode(kb, key)
      /\ \/ \E f \in Flushes(tapped, MayFail) : Sends(f)
         \/ kb' = tapped /\ UNCHANGED <<pc, landed, excused, used>>
      /\ left' = [left EXCEPT ![1] = Tail(@)]
  BY DEF TypeKey
<1>2. /\ key \in Key /\ left' \in Seq(Seq(Key)) \ {<<>>}
      /\ FlattenSeq(left) = <<key>> \o FlattenSeq(left')
  <2>1. left \in Seq(Seq(Key))
    BY DEF DeviceTypes
  <2>2. QED
    BY <1>1, <2>1, FlattenTakes, Zenon
<1> HIDE DEF key
<1>3. tapped \in Keyboard /\ Apart(tapped) /\ InSync(tapped)
  BY <1>1, <1>2, TappedIs DEF DeviceTypes
<1> HIDE DEF tapped
<1>4. QED
  BY <1>1, <1>2, <1>3, FlushIsDrained DEF key, tapped

LEMMA EndSegmentIs ==
    ASSUME DeviceTypes, EndSegment
    PROVE  /\ left' \in Seq(Seq(Key)) /\ FlattenSeq(left') = FlattenSeq(left)
           /\ \E f \in Flushes(kb, MayFail) : \E g \in Drained(f) : Sends(g)
<1>1. pc = "typing" /\ left # <<>> /\ Head(left) = <<>> /\ left' = Tail(left)
  BY DEF EndSegment
<1>2. left \in Seq(Seq(Key))
  BY DEF DeviceTypes
<1>3. left' \in Seq(Seq(Key)) /\ FlattenSeq(left') = FlattenSeq(left)
  BY <1>1, <1>2, FlattenSkips, Zenon
<1>4. QED
  BY <1>3 DEF EndSegment

LEMMA BeginTypes ==
    ASSUME DeviceTypes, QueueInv, NEW back \in Nat, NEW text \in Seq(Character),
           NEW first \in {"focus", "keyboard"}, first = "focus" => text \in Texts,
           Begin(back, text, first)
    PROVE  DeviceTypes'
<1>1. call' = [back |-> back, text |-> text, pasting |-> FALSE] /\ pc' = first
      /\ excused' = excused \ {"lost"} /\ pc = "idle"
  BY DEF Begin
<1>2. call' \in Call /\ call'.text = text /\ call'.pasting = FALSE
  BY <1>1 DEF Call
<1>3. UNCHANGED <<keyboardVars, clipVars, fallbackVars, paced, answer>>
  BY DEF Begin
<1>4. QED
  BY <1>1, <1>2, <1>3
     DEF DeviceTypes, keyboardVars, clipVars, fallbackVars, Apart, InSync, Stages

\* Every way to begin a call.
LEMMA BeginsAre ==
    ASSUME Rewrite \/ RewriteBulk \/ PressKey
    PROVE  \E back \in Nat, text \in Seq(Character), first \in {"focus", "keyboard"} :
              (first = "focus" => text \in Texts) /\ Begin(back, text, first)
<1>0. 0..1 \subseteq Nat
  OBVIOUS
<1>1. CASE Rewrite
  <2>1. PICK back \in 0..1, text \in Texts \cup {<<>>} : Begin(back, text, "keyboard")
    BY <1>1 DEF Rewrite
  <2>2. text \in Seq(Character)
    BY TextsAre
  <2>3. QED
    BY <1>0, <2>1, <2>2
<1>2. CASE RewriteBulk
  <2>1. PICK back \in 0..1, text \in Texts :
           Begin(back, text, IF Len(text) >= PasteMin THEN "focus" ELSE "keyboard")
    BY <1>2 DEF RewriteBulk
  <2>2. text \in Seq(Character)
    BY TextsAre
  <2>3. CASE Len(text) >= PasteMin
    BY <1>0, <2>1, <2>2, <2>3
  <2>4. CASE ~(Len(text) >= PasteMin)
    BY <1>0, <2>1, <2>2, <2>4
  <2>5. QED
    BY <2>3, <2>4
<1>3. CASE PressKey
  BY <1>3, TextsAre DEF PressKey
<1>4. QED
  BY <1>1, <1>2, <1>3

LEMMA ReturnTypes ==
    ASSUME DeviceTypes, NEW ans \in {"typed", "failed"}, Return(ans)
    PROVE  /\ pc' = "idle" /\ answer' = ans /\ left' \in Seq(Seq(Key)) /\ sent' \in Nat
           /\ clip' \in Contents /\ kept' \in Contents /\ previous' \in Contents \cup {<<>>}
           /\ timers' \in Seq(Contents)
<1>1. /\ pc' = "idle" /\ answer' = ans /\ timers' = Restored(ans)
      /\ previous' = <<>> /\ left' = <<>> /\ sent' = 0 /\ clip' = clip /\ kept' = kept
  BY DEF Return
<1>2. Restored(ans) \in Seq(Contents)
  <2>1. CASE call.pasting /\ previous # <<>>
    <3>1. previous \in Contents /\ timers \in Seq(Contents)
      BY <2>1 DEF DeviceTypes
    <3>2. QED
      BY <2>1, <3>1, AppendProperties DEF Restored
  <2>2. CASE ~(call.pasting /\ previous # <<>>)
    BY <2>2 DEF Restored, DeviceTypes
  <2>3. QED
    BY <2>1, <2>2
<1>3. left' \in Seq(Seq(Key)) /\ sent' \in Nat /\ previous' \in Contents \cup {<<>>}
  BY <1>1
<1>4. clip' \in Contents /\ kept' \in Contents /\ timers' \in Seq(Contents)
  BY <1>1, <1>2 DEF DeviceTypes
<1>5. QED
  BY <1>1, <1>3, <1>4

LEMMA TypesStep == DeviceInv /\ [DeviceNext]_vars => DeviceTypes'
<1> SUFFICES ASSUME DeviceInv, [DeviceNext]_vars PROVE DeviceTypes'
  OBVIOUS
<1> USE DEF keyboardVars, clipVars, callVars, fallbackVars
<1>0. FocusInv /\ DeviceTypes /\ QueueInv /\ TypingInv
  BY DEF DeviceInv
<1>a. DeviceTypes
  BY <1>0
<1>1. CASE Rewrite \/ RewriteBulk \/ PressKey
  BY <1>0, <1>1, BeginsAre, BeginTypes
<1>2. CASE SetClipboard
  <2>1. clip' \in Contents /\ kept' \in Contents /\ excused' \subseteq {"lost", "clip", "overlap"}
    BY <1>a, <1>2 DEF SetClipboard, Overlap, DeviceTypes, Contents
  <2>2. UNCHANGED <<keyboardVars, fallbackVars, paced, pc, call, answer, previous, timers>>
    BY <1>2 DEF SetClipboard
  <2>3. QED
    BY <1>a, <2>1, <2>2 DEF DeviceTypes, Apart, InSync
<1>3. CASE AskFocus
  <2>1. fallback' \in Windows \cup {NoWindow} /\ recent' \in BOOLEAN
    BY <1>0, <1>3 DEF AskFocus, DeviceTypes, FocusInv, FocusTypeOK
  <2>2. pc = "focus" /\ pc' \in {"read clipboard", "keyboard"}
    BY <1>3 DEF AskFocus
  <2>3. UNCHANGED <<keyboardVars, clipVars, paced, call, answer, excused>>
    BY <1>3 DEF AskFocus
  <2>4. QED
    BY <1>a, <2>1, <2>2, <2>3 DEF DeviceTypes, Apart, InSync, Stages
<1>4. CASE FallbackExpires
  <2>1. recent' \in BOOLEAN /\ UNCHANGED <<keyboardVars, clipVars, callVars, fallback>>
    BY <1>4 DEF FallbackExpires
  <2>2. QED
    BY <1>a, <2>1 DEF DeviceTypes, Apart, InSync
<1>5. CASE ReadClipboard
  <2>1. /\ previous' \in Contents \cup {<<>>} /\ excused' \subseteq {"lost", "clip", "overlap"}
        /\ pc = "read clipboard" /\ pc' = "write clipboard"
    BY <1>a, <1>5, ContentsAre DEF ReadClipboard, Overlap, DeviceTypes
  <2>2. UNCHANGED <<keyboardVars, fallbackVars, paced, call, answer, clip, timers, kept>>
    BY <1>5 DEF ReadClipboard
  <2>3. QED
    BY <1>a, <2>1, <2>2 DEF DeviceTypes, Apart, InSync, Stages
<1>6. CASE WriteClipboard
  <2>1. /\ pc = "write clipboard" /\ pc' = "keyboard" /\ call.text \in Texts /\ call \in Call
    BY <1>a, <1>6 DEF WriteClipboard, DeviceTypes
  <2>2. call' \in Call /\ clip' \in Contents
    <3>1. [call EXCEPT !.pasting = TRUE] \in Call
      BY <2>1 DEF Call
    <3>2. QED
      BY <1>a, <1>6, <2>1, <3>1 DEF WriteClipboard, DeviceTypes, Contents
  <2>3. /\ UNCHANGED <<keyboardVars, fallbackVars, paced, answer, previous, timers, kept>>
        /\ excused' \in {excused, excused \cup {"clip"}}
    BY <1>6 DEF WriteClipboard
  <2>4. QED
    BY <1>a, <2>1, <2>2, <2>3 DEF DeviceTypes, Apart, InSync, Stages
<1>7. CASE TimerFires
  <2>1. /\ timers # <<>> /\ timers' = Tail(timers) /\ clip' \in {clip, Head(timers)}
        /\ excused' \in {excused, excused \cup {"clip"}}
    BY <1>7 DEF TimerFires
  <2>2. timers' \in Seq(Contents) /\ clip' \in Contents
    <3>1. timers \in Seq(Contents) /\ clip \in Contents
      BY <1>a DEF DeviceTypes
    <3>2. Head(timers) \in Contents /\ Tail(timers) \in Seq(Contents)
      BY <2>1, <3>1, HeadTailProperties
    <3>3. QED
      BY <2>1, <3>1, <3>2
  <2>3. UNCHANGED <<keyboardVars, fallbackVars, paced, pc, call, answer, previous, kept>>
    BY <1>7 DEF TimerFires
  <2>4. QED
    BY <1>a, <2>1, <2>2, <2>3 DEF DeviceTypes, Apart, InSync
<1>8. CASE GetKeyboard
  <2>1. /\ pc = "keyboard" /\ pc' \in {"typing", "wtype"} /\ left' = Plan(call) /\ sent' = 0
        /\ cached' \in {"absent", "there", "unavailable"}
        /\ kb' = kb \/ kb' = NewKeyboard
    BY <1>a, <1>8 DEF GetKeyboard, DeviceTypes
  <2>2. kb' \in Keyboard /\ Apart(kb') /\ InSync(kb')
    BY <1>a, <2>1, NewKeyboardIs DEF DeviceTypes
  <2>3. left' \in Seq(Seq(Key))
    BY <1>a, <2>1, WantedIs DEF DeviceTypes
  <2>4. UNCHANGED <<clipVars, fallbackVars, paced, call, answer, excused>>
    BY <1>8 DEF GetKeyboard
  <2>5. QED
    BY <1>a, <2>1, <2>2, <2>3, <2>4 DEF DeviceTypes, Apart, InSync, Stages
<1>9. CASE AllocateKey
  <2>1. /\ kb' \in Keyboard /\ Apart(kb') /\ (pc' # "raised" => InSync(kb'))
        /\ pc' \in {"typing", "raised"} /\ excused' \subseteq {"lost", "clip", "overlap"}
    <3>1. CASE \E f \in Flushes(Uploaded(Allocated(kb, Head(Head(left)))), MayFail) :
                  f \in Drained(f) /\ Sends(f)
      BY <1>a, <1>9, <3>1, AllocateKeyIs, SendsTypes
    <3>2. CASE kb' = Allocated(kb, Head(Head(left))) /\ pc' = "raised" /\ UNCHANGED <<landed, excused>>
      BY <1>a, <1>9, <3>2, AllocateKeyIs DEF DeviceTypes
    <3>3. QED
      BY <1>a, <1>9, <3>1, <3>2, AllocateKeyIs
  <2>2. UNCHANGED <<clipVars, fallbackVars, paced, call, answer, cached, left, sent>>
    BY <1>9 DEF AllocateKey
  <2>3. QED
    BY <1>a, <2>1, <2>2 DEF DeviceTypes, Apart, InSync, Stages
<1>10. CASE TypeKey
  <2>1. /\ kb' \in Keyboard /\ Apart(kb') /\ InSync(kb')
        /\ pc' \in {"typing", "raised"} /\ excused' \subseteq {"lost", "clip", "overlap"}
        /\ left' \in Seq(Seq(Key))
    <3> DEFINE tapped == Tapped(Refreshed(kb, Head(Head(left))), CodeOf(kb, Head(Head(left))))
    <3>1. CASE \E f \in Flushes(tapped, MayFail) : f \in Drained(f) /\ Sends(f)
      BY <1>a, <1>10, <3>1, TypeKeyIs, SendsTypes
    <3>2. CASE kb' = tapped /\ UNCHANGED <<pc, landed, excused, used>>
      <4>1. pc = "typing"
        BY <1>10 DEF TypeKey
      <4>2. QED
        BY <1>a, <1>10, <3>2, <4>1, TypeKeyIs DEF DeviceTypes
    <3>3. QED
      BY <1>a, <1>10, <3>1, <3>2, TypeKeyIs
  <2>2. UNCHANGED <<clipVars, fallbackVars, paced, call, answer, cached>>
    BY <1>10 DEF TypeKey
  <2>3. sent' \in Nat
    BY <1>a, <1>10 DEF TypeKey, DeviceTypes
  <2>4. QED
    BY <1>a, <2>1, <2>2, <2>3 DEF DeviceTypes, Stages
<1>11. CASE EndSegment
  <2>1. /\ kb' \in Keyboard /\ Apart(kb') /\ InSync(kb')
        /\ pc' \in {"typing", "raised"} /\ excused' \subseteq {"lost", "clip", "overlap"}
    <3>1. PICK f \in Flushes(kb, MayFail) : \E g \in Drained(f) : Sends(g)
      BY <1>a, <1>11, EndSegmentIs
    <3>2. \/ pc = "typing"
      BY <1>11 DEF EndSegment
    <3>3. kb \in Keyboard /\ Apart(kb) /\ InSync(kb)
      BY <1>a, <3>2 DEF DeviceTypes
    <3>4. QED
      BY <1>a, <3>1, <3>3, SendsTypes
  <2>2. UNCHANGED <<clipVars, fallbackVars, paced, call, answer, cached, sent>>
    BY <1>11 DEF EndSegment
  <2>3. QED
    BY <1>a, <1>11, <2>1, <2>2, EndSegmentIs DEF DeviceTypes, Apart, InSync, Stages
<1>12. CASE AllTyped
  <2>1. Return("typed") /\ UNCHANGED <<fallbackVars, paced, cached, kb, call, excused>> /\ pc = "typing"
    BY <1>12 DEF AllTyped
  <2>2. QED
    BY <1>a, <2>1, ReturnTypes DEF DeviceTypes, Apart, InSync, Stages
<1>13. CASE VkbdFailed
  <2>1. /\ cached' = "absent" /\ kb' = NewKeyboard
        /\ UNCHANGED <<fallbackVars, paced, call, excused>>
        /\ \/ pc' = "wtype" /\ UNCHANGED <<clipVars, answer, left, sent>>
           \/ Return("failed")
    BY <1>13 DEF VkbdFailed
  <2>2. CASE pc' = "wtype" /\ UNCHANGED <<clipVars, answer, left, sent>>
    BY <1>a, <2>1, <2>2, NewKeyboardIs DEF DeviceTypes, Stages
  <2>3. CASE Return("failed")
    BY <1>a, <2>1, <2>3, NewKeyboardIs, ReturnTypes DEF DeviceTypes, Stages
  <2>4. QED
    BY <2>1, <2>2, <2>3
<1>14. CASE Wtype
  <2>1. /\ pc = "wtype" /\ UNCHANGED <<fallbackVars, paced, cached, kb, call, excused>>
        /\ Return("typed") \/ Return("failed")
    BY <1>14 DEF Wtype
  <2>2. QED
    BY <1>a, <2>1, ReturnTypes DEF DeviceTypes, Apart, InSync, Stages
<1>15. CASE Focus
  BY <1>a, <1>15 DEF Focus, DeviceTypes, Apart, InSync
<1>16. CASE UNCHANGED vars
  BY <1>a, <1>16 DEF vars, DeviceTypes, Apart, InSync
<1>17. QED
  BY <1>1, <1>2, <1>3, <1>4, <1>5, <1>6, <1>7, <1>8, <1>9, <1>10, <1>11, <1>12, <1>13, <1>14,
     <1>15, <1>16 DEF DeviceNext

\* The queue is flushed at the end of every method.
LEMMA QueueStep == DeviceInv /\ [DeviceNext]_vars => QueueInv'
<1> SUFFICES ASSUME DeviceInv, [DeviceNext]_vars PROVE QueueInv'
  OBVIOUS
<1> USE DEF keyboardVars, clipVars, callVars, fallbackVars
<1>0. DeviceTypes /\ QueueInv
  BY DEF DeviceInv
<1>1. CASE Rewrite \/ RewriteBulk \/ PressKey
  <2>1. PICK back \in Nat, text \in Seq(Character), first \in {"focus", "keyboard"} :
           Begin(back, text, first)
    BY <1>1, BeginsAre
  <2>2. pc = "idle" /\ pc' \in {"focus", "keyboard"} /\ kb' = kb
    BY <2>1 DEF Begin
  <2>3. QED
    BY <1>0, <2>2 DEF QueueInv
<1>2. CASE SetClipboard
  BY <1>0, <1>2 DEF SetClipboard, QueueInv
<1>3. CASE AskFocus \/ ReadClipboard \/ WriteClipboard
  <2>1. /\ pc \in {"focus", "read clipboard", "write clipboard"} /\ kb' = kb
        /\ pc' \in {"read clipboard", "write clipboard", "keyboard"}
    BY <1>3 DEF AskFocus, ReadClipboard, WriteClipboard
  <2>2. QED
    BY <1>0, <2>1 DEF QueueInv
<1>4. CASE FallbackExpires
  BY <1>0, <1>4 DEF FallbackExpires, QueueInv
<1>5. CASE TimerFires
  BY <1>0, <1>5 DEF TimerFires, QueueInv
<1>6. CASE GetKeyboard
  <2>1. pc = "keyboard" /\ (kb' = kb \/ kb' = NewKeyboard)
    BY <1>6 DEF GetKeyboard
  <2>2. QED
    BY <1>0, <2>1, NewKeyboardIs DEF QueueInv
<1>7. CASE AllocateKey
  <2>1. left # <<>> /\ left' = left
    BY <1>7 DEF AllocateKey
  <2>2. pc' \in {"typing", "raised"}
    BY <1>7 DEF AllocateKey, Sends
  <2>3. QED
    BY <2>1, <2>2 DEF QueueInv
<1>8. CASE TypeKey
  <2>1. left' # <<>>
    BY <1>0, <1>8, TypeKeyIs
  <2>2. pc' \in {"typing", "raised"}
    BY <1>8 DEF TypeKey, Sends
  <2>3. QED
    BY <2>1, <2>2 DEF QueueInv
<1>9. CASE EndSegment
  <2>1. PICK f \in Flushes(kb, MayFail) : \E g \in Drained(f) : Sends(g)
    BY <1>0, <1>9, EndSegmentIs
  <2>2. kb \in Keyboard /\ Apart(kb) /\ InSync(kb)
    BY <1>0, <1>9 DEF EndSegment, DeviceTypes
  <2>3. kb'.out = <<>>
    BY <1>0, <2>1, <2>2, SendsTypes
  <2>4. QED
    BY <2>3 DEF QueueInv
<1>10. CASE AllTyped
  BY <1>0, <1>10 DEF AllTyped, Return, QueueInv
<1>11. CASE VkbdFailed
  <2>1. kb' = NewKeyboard
    BY <1>11 DEF VkbdFailed
  <2>2. QED
    BY <2>1, NewKeyboardIs DEF QueueInv
<1>12. CASE Wtype
  <2>1. pc = "wtype" /\ pc' = "idle" /\ kb' = kb
    BY <1>12 DEF Wtype, Return
  <2>2. QED
    BY <1>0, <2>1 DEF QueueInv
<1>13. CASE Focus
  BY <1>0, <1>13 DEF Focus, QueueInv
<1>14. CASE UNCHANGED vars
  BY <1>0, <1>14 DEF vars, QueueInv
<1>15. QED
  BY <1>1, <1>2, <1>3, <1>4, <1>5, <1>6, <1>7, <1>8, <1>9, <1>10, <1>11, <1>12, <1>13, <1>14
     DEF DeviceNext

-----------------------------------------------------------------------------
(* The clipboard.                                                          *)

\* A call that returns hands what the user had to a timer.
LEMMA ReturnKeepsClip ==
    ASSUME DeviceTypes, ClipInv, NEW ans \in {"typed", "failed"}, Return(ans),
           pc \in {"keyboard", "typing", "raised", "wtype"}, excused' = excused, call' = call
    PROVE  ClipInv'
<1>1. SUFFICES ASSUME "overlap" \notin excused, "clip" \notin excused
               PROVE  \/ timers' = <<>> /\ clip' \in Decoded(kept')
                      \/ \E c \in Decoded(kept') : timers' = <<c>>
  BY DEF ClipInv, Return, Pasting
<1>2. /\ pc' = "idle" /\ clip' = clip /\ kept' = kept /\ timers' = Restored(ans)
  BY DEF Return
<1>3. CASE call.pasting
  <2>1. timers = <<>> /\ previous \in Decoded(kept) /\ previous # <<>>
    BY <1>1, <1>3, ContentsAre DEF ClipInv, Pasting, DeviceTypes
  <2>2. Restored(ans) = Append(<<>>, previous)
    BY <1>3, <2>1 DEF Restored
  <2>3. timers' = <<previous>> /\ previous \in Decoded(kept')
    BY <1>2, <2>1, <2>2
  <2>4. QED
    BY <2>3
<1>4. CASE ~call.pasting
  BY <1>1, <1>2, <1>4 DEF Restored, ClipInv, Pasting
<1>5. QED
  BY <1>3, <1>4

LEMMA ClipStep == DeviceInv /\ [DeviceNext]_vars => ClipInv'
<1> SUFFICES ASSUME DeviceInv, [DeviceNext]_vars PROVE ClipInv'
  OBVIOUS
<1> USE DEF keyboardVars, clipVars, callVars, fallbackVars
<1>0. DeviceTypes /\ ClipInv /\ QueueInv
  BY DEF DeviceInv
\* Steps that do not touch the clipboard, nor move between its stages.
<1>a. ASSUME UNCHANGED clipVars, call' = call, excused' \ {"lost"} = excused \ {"lost"},
             pc' # "write clipboard", pc # "write clipboard",
             pc \in {"keyboard", "typing", "raised", "wtype"}
             <=> pc' \in {"keyboard", "typing", "raised", "wtype"}
      PROVE  ClipInv'
  <2>1. ("overlap" \in excused' <=> "overlap" \in excused) /\ ("clip" \in excused' <=> "clip" \in excused)
    BY <1>a
  <2>2. Pasting' <=> Pasting
    BY <1>a DEF Pasting
  <2>3. QED
    BY <1>0, <1>a, <2>1, <2>2 DEF ClipInv
<1>1. CASE Rewrite \/ RewriteBulk \/ PressKey
  <2>1. PICK back \in Nat, text \in Seq(Character), first \in {"focus", "keyboard"} :
           Begin(back, text, first)
    BY <1>1, BeginsAre
  <2>2. /\ pc = "idle" /\ pc' # "write clipboard" /\ call'.pasting = FALSE
        /\ UNCHANGED clipVars /\ excused' = excused \ {"lost"}
    BY <2>1 DEF Begin
  <2>3. ~Pasting /\ ~Pasting'
    BY <2>2 DEF Pasting
  <2>4. QED
    BY <1>0, <2>2, <2>3 DEF ClipInv
<1>2. CASE SetClipboard
  <2>1. /\ pc = "idle" /\ pc' = pc /\ timers' = timers
        /\ \/ clip' = kept' /\ excused' = excused \cup Overlap
           \/ UNCHANGED <<clip, kept, previous, excused>>
    BY <1>2 DEF SetClipboard
  <2>2. ~Pasting /\ ~Pasting'
    BY <2>1 DEF Pasting
  <2>3. CASE clip' = kept' /\ excused' = excused \cup Overlap
    <3>1. "overlap" \notin excused' => timers = <<>>
      BY <2>3 DEF Overlap
    <3>2. clip' \in Decoded(kept')
      BY <2>3 DEF Decoded
    <3>3. QED
      BY <2>1, <2>2, <3>1, <3>2 DEF ClipInv
  <2>4. CASE UNCHANGED <<clip, kept, previous, excused>>
    BY <1>0, <2>1, <2>2, <2>4 DEF ClipInv
  <2>5. QED
    BY <2>1, <2>3, <2>4
<1>3. CASE AskFocus
  <2>1. /\ pc = "focus" /\ pc' \in {"read clipboard", "keyboard"} /\ UNCHANGED <<clipVars, call, excused>>
    BY <1>3 DEF AskFocus
  <2>2. ~Pasting /\ ~Pasting'
    BY <1>0, <2>1 DEF Pasting, DeviceTypes
  <2>3. QED
    BY <1>0, <2>1, <2>2 DEF ClipInv
<1>4. CASE FallbackExpires
  BY <1>0, <1>4 DEF FallbackExpires, ClipInv, Pasting
<1>5. CASE ReadClipboard
  <2>1. /\ pc = "read clipboard" /\ pc' = "write clipboard"
        /\ UNCHANGED <<clip, timers, kept>>
        /\ \/ previous' \in Decoded(clip) /\ excused' = excused \cup Overlap
           \/ excused' = excused \cup Overlap \cup {"clip"}
    BY <1>5 DEF ReadClipboard
  <2>2. ~Pasting /\ ~Pasting'
    BY <2>1 DEF Pasting
  <2>3. "overlap" \notin excused' => timers = <<>> /\ "overlap" \notin excused
    BY <2>1 DEF Overlap
  <2>4. "clip" \notin excused' => "clip" \notin excused /\ previous' \in Decoded(clip)
    BY <2>1
  <2>5. SUFFICES ASSUME "overlap" \notin excused' PROVE ClipInv'
    BY DEF ClipInv
  <2>6. "overlap" \notin excused /\ timers = <<>> /\ timers' = <<>>
    BY <2>1, <2>3, <2>5
  <2>7. "clip" \notin excused' => previous' \in Decoded(kept') /\ clip' \in Decoded(kept')
    <3>1. "clip" \notin excused => clip \in Decoded(kept)
      BY <1>0, <2>2, <2>6 DEF ClipInv
    <3>2. QED
      BY <2>1, <2>4, <3>1, DecodedTwice
  <2>8. QED
    BY <2>1, <2>2, <2>6, <2>7 DEF ClipInv
<1>6. CASE WriteClipboard
  <2>1. /\ pc = "write clipboard" /\ pc' = "keyboard"
        /\ UNCHANGED <<previous, timers, kept>>
        /\ \/ clip' = call.text /\ call' = [call EXCEPT !.pasting = TRUE] /\ excused' = excused
           \/ UNCHANGED <<clip, call, excused>>
           \/ clip' = call.text /\ excused' = excused \cup {"clip"} /\ UNCHANGED call
    BY <1>6 DEF WriteClipboard
  <2>2. ~Pasting /\ call \in Call /\ ~call.pasting
    BY <1>0, <2>1 DEF Pasting, DeviceTypes
  <2>3. CASE clip' = call.text /\ call' = [call EXCEPT !.pasting = TRUE] /\ excused' = excused
    <3>1. call'.text = call.text /\ call'.pasting
      BY <2>2, <2>3 DEF Call
    <3>2. QED
      BY <1>0, <2>1, <2>2, <2>3, <3>1 DEF ClipInv, Pasting
  <2>4. CASE UNCHANGED <<clip, call, excused>>
    BY <1>0, <2>1, <2>2, <2>4 DEF ClipInv, Pasting
  <2>5. CASE clip' = call.text /\ excused' = excused \cup {"clip"} /\ UNCHANGED call
    BY <1>0, <2>1, <2>2, <2>5 DEF ClipInv, Pasting
  <2>6. QED
    BY <2>1, <2>3, <2>4, <2>5
<1>7. CASE TimerFires
  <2>1. /\ timers # <<>> /\ timers' = Tail(timers) /\ UNCHANGED <<pc, call, previous, kept>>
        /\ \/ clip' = Head(timers) /\ excused' = excused
           \/ excused' = excused \cup {"clip"}
    BY <1>7 DEF TimerFires
  <2>2. SUFFICES ASSUME "overlap" \notin excused' PROVE ClipInv'
    BY DEF ClipInv
  <2>3. "overlap" \notin excused
    BY <2>1, <2>2
  <2>4. ~(pc = "write clipboard") /\ ~Pasting
    BY <1>0, <2>1, <2>3 DEF ClipInv
  <2>5. ~Pasting' /\ pc' # "write clipboard"
    BY <2>1, <2>4 DEF Pasting
  <2>6. "clip" \notin excused' => timers' = <<>> /\ clip' \in Decoded(kept')
    <3>1. SUFFICES ASSUME "clip" \notin excused' PROVE timers' = <<>> /\ clip' \in Decoded(kept')
      OBVIOUS
    <3>2. clip' = Head(timers) /\ "clip" \notin excused
      BY <2>1, <3>1
    <3>3. PICK c \in Decoded(kept) : timers = <<c>>
      BY <1>0, <2>1, <2>3, <2>4, <3>2 DEF ClipInv
    <3>4. QED
      BY <2>1, <3>2, <3>3
  <2>7. QED
    BY <2>5, <2>6 DEF ClipInv
<1>8. CASE GetKeyboard
  <2>1. /\ pc = "keyboard" /\ pc' \in {"typing", "wtype"} /\ UNCHANGED <<clipVars, call, excused>>
    BY <1>8 DEF GetKeyboard
  <2>2. QED
    BY <1>a, <2>1
<1>9. CASE AllocateKey
  <2>1. /\ pc = "typing" /\ pc' \in {"typing", "raised"} /\ UNCHANGED <<clipVars, call>>
        /\ excused' \in {excused, excused \cup {"lost"}}
    BY <1>9 DEF AllocateKey, Sends
  <2>2. QED
    BY <1>a, <2>1
<1>10. CASE TypeKey
  <2>1. /\ pc = "typing" /\ pc' \in {"typing", "raised"} /\ UNCHANGED <<clipVars, call>>
        /\ excused' \in {excused, excused \cup {"lost"}}
    BY <1>10 DEF TypeKey, Sends
  <2>2. QED
    BY <1>a, <2>1
<1>11. CASE EndSegment
  <2>1. /\ pc = "typing" /\ pc' \in {"typing", "raised"} /\ UNCHANGED <<clipVars, call>>
        /\ excused' \in {excused, excused \cup {"lost"}}
    BY <1>11 DEF EndSegment, Sends
  <2>2. QED
    BY <1>a, <2>1
<1>12. CASE AllTyped
  BY <1>0, <1>12, ReturnKeepsClip DEF AllTyped
<1>13. CASE VkbdFailed
  <2>1. /\ pc = "raised" /\ UNCHANGED <<call, excused>>
        /\ (pc' = "wtype" /\ UNCHANGED clipVars) \/ Return("failed")
    BY <1>13 DEF VkbdFailed
  <2>2. QED
    BY <1>0, <1>a, <2>1, ReturnKeepsClip
<1>14. CASE Wtype
  <2>1. /\ pc = "wtype" /\ UNCHANGED <<call, excused>>
        /\ Return("typed") \/ Return("failed")
    BY <1>14 DEF Wtype
  <2>2. QED
    BY <1>0, <2>1, ReturnKeepsClip
<1>15. CASE Focus
  BY <1>0, <1>15 DEF Focus, ClipInv, Pasting
<1>16. CASE UNCHANGED vars
  BY <1>0, <1>16 DEF vars, ClipInv, Pasting
<1>17. QED
  BY <1>1, <1>2, <1>3, <1>4, <1>5, <1>6, <1>7, <1>8, <1>9, <1>10, <1>11, <1>12, <1>13, <1>14,
     <1>15, <1>16 DEF DeviceNext

-----------------------------------------------------------------------------
(* What lands.                                                             *)

LEMMA OnWayLost ==
    ASSUME NEW c, NEW k, NEW l, NEW todo, NEW x, NEW y, x => y, OnWay(c, k, l, todo, x)
    PROVE  OnWay(c, k, l, todo, y)
<1>1. PICK raw \in Seq(Key) :
        /\ l = Landing(c.text, raw)
        /\ k.live => (raw \o KeysRead(k, Len(k.out))) \o todo = Wanted(c)
        /\ ~k.live => Begins(raw, Wanted(c))
        /\ (~k.live /\ k.out = <<>> /\ ~x) => raw \o todo = Wanted(c)
  BY Zenon DEF OnWay
<1>2. (~k.live /\ k.out = <<>> /\ ~y) => raw \o todo = Wanted(c)
  BY <1>1, Zenon
<1>3. QED
  BY <1>1, <1>2, Zenon DEF OnWay

LEMMA SendsOnWay ==
    ASSUME DeviceTypes, call.pasting => clip = call.text, call' = call,
           NEW k \in Keyboard, Apart(k), InSync(k), NEW mayFail,
           NEW f \in Flushes(k, mayFail), NEW g \in Drained(f), Sends(g),
           NEW todo \in Seq(Key), OnWay(call, k, landed, todo, Lost)
    PROVE  /\ pc' = "typing" => OnWay(call', kb', landed', todo, Lost')
           /\ pc' = "raised" => Broke(call', kb', landed')
<1> DEFINE l2 == landed \o Typed(f.keys)
<1>0. call \in Call
  BY DEF DeviceTypes
<1>1. OnWay(call, f.kb, l2, todo, Lost \/ f.lost) /\ (~f.kb.live => Broke(call, f.kb, l2))
  BY <1>0, FlushOnWay
<1>2. /\ g.kb = f.kb /\ g.keys = f.keys /\ g.lost = f.lost
      /\ g.raised \in BOOLEAN /\ (g.raised => ~g.kb.live)
  BY DrainedIs
<1>3. /\ kb' = f.kb /\ landed' = landed \o Typed(g.keys)
      /\ excused' = (IF g.lost /\ ~g.raised THEN excused \cup {"lost"} ELSE excused)
      /\ pc' = (IF g.raised THEN "raised" ELSE "typing")
  BY <1>2 DEF Sends
<1>4. landed' = l2
  BY <1>2, <1>3, Zenon
<1> HIDE DEF l2
<1>5. ASSUME pc' = "typing" PROVE OnWay(call', kb', landed', todo, Lost')
  <2>1. ~g.raised
    BY <1>3, <1>5
  <2>2. (Lost \/ f.lost) => Lost'
    BY <1>2, <1>3, <2>1 DEF Lost
  <2>3. OnWay(call, f.kb, l2, todo, Lost')
    BY <1>1, <2>2, OnWayLost, Zenon
  <2>4. QED
    BY <1>3, <1>4, <2>3, Zenon
<1>6. ASSUME pc' = "raised" PROVE Broke(call', kb', landed')
  <2>1. ~f.kb.live
    BY <1>2, <1>3, <1>6
  <2>2. QED
    BY <1>1, <1>3, <1>4, <2>1, Zenon
<1>7. QED
  BY <1>5, <1>6

LEMMA NothingTyped == Typed(<<>>) = <<>> /\ <<>> \o <<>> = <<>>
<1>1. <<>> \o <<>> = <<>>
  BY ConcatEmptySeq, EmptySeq
<1>2. Typed(<<>>) = FlattenSeq(<<>>)
  BY DEF Typed
<1>3. QED
  BY <1>1, <1>2, FlattenEmpty, Zenon

\* As long as only keymaps were queued no key was sent.
LEMMA SendsNoKey ==
    ASSUME landed = <<>>, NEW k \in Keyboard, \A i \in DOMAIN k.out : k.out[i].kind = "keymap",
           Apart(k), InSync(k), NEW mayFail,
           NEW f \in Flushes(k, mayFail), NEW g \in Drained(f), Sends(g)
    PROVE  NoKeyYet'
<1>1. PICK n \in 0..Len(k.out) : f.keys = KeysRead(k, n)
  BY FlushIs
<1>2. f.keys = <<>>
  BY <1>1, NoKeysRead
<1>3. g.keys = <<>> /\ g.kb = f.kb /\ f.kb.out = <<>>
  BY <1>2, DrainedIs, FlushIs
<1>4. landed' = landed \o Typed(g.keys) /\ kb' = g.kb
  BY DEF Sends
<1>5. landed' = <<>>
  BY <1>3, <1>4, NothingTyped, Zenon
<1>6. kb'.out = <<>>
  BY <1>3, <1>4
<1>7. QED
  BY <1>5, <1>6 DEF NoKeyYet

\* Steps that leave the call and its keys alone.
LEMMA TypingIdle ==
    ASSUME TypingInv, UNCHANGED <<call, landed, answer, sent, kb, left>>,
           "overlap" \notin excused' => "overlap" \notin excused,
           "lost" \in excused' <=> "lost" \in excused,
           \/ pc' = pc
           \/ {pc, pc'} \subseteq {"focus", "read clipboard", "write clipboard", "keyboard"}
    PROVE  TypingInv'
<1>1. Lost' <=> Lost
  BY DEF Lost
<1>2. NoKeyYet' <=> NoKeyYet
  BY DEF NoKeyYet
<1>3. OnWay(call, kb, landed, FlattenSeq(left), Lost)
      => OnWay(call', kb', landed', FlattenSeq(left'), Lost')
  <2>1. UNCHANGED <<call, kb, landed, left>>
    OBVIOUS
  <2>2. SUFFICES ASSUME OnWay(call, kb, landed, FlattenSeq(left), Lost)
                 PROVE  OnWay(call, kb, landed, FlattenSeq(left), Lost')
    BY <2>1
  <2>3. QED
    BY <1>1, <2>2, OnWayLost, Zenon
<1>4. Broke(call, kb, landed) => Broke(call', kb', landed')
  OBVIOUS
<1>5. Begins(landed, Done(call)) => Begins(landed', Done(call'))
  OBVIOUS
<1>6. landed = Done(call) => landed' = Done(call')
  OBVIOUS
<1> HIDE DEF OnWay, Broke, Begins, Done, Lost, NoKeyYet
<1>7. QED
  BY <1>1, <1>2, <1>3, <1>4, <1>5, <1>6 DEF TypingInv

\* A call ends,
LEMMA Ends ==
    ASSUME pc' = "idle", call' = call, landed' \in Seq(Key), Begins(landed', Done(call)),
           (answer' = "typed" /\ ~Lost') => landed' = Done(call)
    PROVE  TypingInv'
<1>1. Begins(landed', Done(call'))
  OBVIOUS
<1>2. (answer' = "typed" /\ ~Lost') => landed' = Done(call')
  OBVIOUS
<1> HIDE DEF OnWay, Broke, Begins, Done, Lost, NoKeyYet
<1>3. QED
  BY <1>1, <1>2 DEF TypingInv

\* goes on,
LEMMA GoesOn ==
    ASSUME pc' \in {"typing", "raised"}, call' = call,
           pc' = "typing" => OnWay(call', kb', landed', FlattenSeq(left'), Lost'),
           pc' = "raised" => Broke(call', kb', landed'),
           sent' = 0 => NoKeyYet'
    PROVE  TypingInv'
<1> HIDE DEF OnWay, Broke, Begins, Done, Lost, NoKeyYet
<1>1. QED
  BY DEF TypingInv

\* or has not begun to type.
LEMMA NotBegun ==
    ASSUME pc' \in {"focus", "read clipboard", "write clipboard", "keyboard", "wtype"},
           landed' = <<>>
    PROVE  TypingInv'
<1> HIDE DEF OnWay, Broke, Begins, Done, Lost, NoKeyYet
<1>1. QED
  BY DEF TypingInv

LEMMA NothingOnWay ==
    ASSUME NEW c \in Call, NEW k \in Keyboard, k.out = <<>>, NEW lost
    PROVE  OnWay(c, k, <<>>, Wanted(c), lost)
<1> DEFINE W == Wanted(c)
<1>1. W \in Seq(Key) /\ c.text \in Seq(Key) /\ <<>> \in Seq(Key)
  BY WantedIs, TextsAre DEF Call
<1>2. KeysRead(k, Len(k.out)) = <<>>
  BY AllRead
<1> HIDE DEF W
<1>3. Landing(c.text, <<>>) = <<>> /\ Begins(<<>>, W) /\ <<>> \o <<>> = <<>> /\ <<>> \o W = W
  BY <1>1, LandingEmpty, BeginsAtOnce, ConcatEmptySeq
<1>4. (<<>> \o KeysRead(k, Len(k.out))) \o W = W
  BY <1>2, <1>3, Zenon
<1>5. QED
  BY <1>1, <1>3, <1>4, Zenon DEF OnWay, W

LEMMA AllocateTypes ==
    ASSUME DeviceTypes, TypingInv, "overlap" \notin excused, AllocateKey,
           call.pasting => clip = call.text
    PROVE  TypingInv'
<1> DEFINE key == Head(Head(left))
           new == Allocated(kb, key)
           todo == FlattenSeq(left)
<1>1. /\ pc = "typing" /\ call' = call /\ left' = left /\ sent' = sent /\ kb \in Keyboard
      /\ Apart(kb) /\ todo \in Seq(Key) /\ call \in Call
  BY FlattenType DEF AllocateKey, DeviceTypes, callVars, clipVars
<1>2. /\ OnWay(call, kb, landed, todo, Lost) /\ (sent = 0 => NoKeyYet)
  BY <1>1 DEF TypingInv
<1>3. /\ key \in Key /\ ~HasCode(kb, key)
      /\ new \in Keyboard /\ Apart(new) /\ new.out = kb.out
      /\ Uploaded(new) \in Keyboard /\ Apart(Uploaded(new)) /\ InSync(Uploaded(new))
      /\ \/ \E f \in Flushes(Uploaded(new), MayFail) : f \in Drained(f) /\ Sends(f)
         \/ kb' = new /\ pc' = "raised" /\ UNCHANGED <<landed, excused>>
  BY AllocateKeyIs
<1> HIDE DEF todo, key
<1>4. OnWay(call, Uploaded(new), landed, todo, Lost) /\ Broke(call, new, landed)
  BY <1>1, <1>2, <1>3, UploadOnWay
<1>5. sent = 0 => /\ landed = <<>>
                  /\ \A i \in DOMAIN Uploaded(new).out : Uploaded(new).out[i].kind = "keymap"
  <2>1. SUFFICES ASSUME NoKeyYet
                 PROVE  \A i \in DOMAIN Uploaded(new).out : Uploaded(new).out[i].kind = "keymap"
    BY <1>2 DEF NoKeyYet
  <2> HIDE DEF new
  <2>2. Uploaded(new).out = Append(new.out, [kind |-> "keymap", syms |-> ToSet(new.syms)])
    BY <1>3 DEF Uploaded, Queued, Keyboard
  <2>3. \A i \in DOMAIN new.out : new.out[i].kind = "keymap"
    BY <1>3, <2>1 DEF NoKeyYet
  <2>4. new.out \in Seq(Request)
    BY <1>3 DEF Keyboard
  <2>5. QED
    BY <2>2, <2>3, <2>4
<1> HIDE DEF new
<1>6. CASE \E f \in Flushes(Uploaded(new), MayFail) : f \in Drained(f) /\ Sends(f)
  <2>1. PICK f \in Flushes(Uploaded(new), MayFail) : f \in Drained(f) /\ Sends(f)
    BY <1>6
  <2>2. /\ pc' = "typing" => OnWay(call', kb', landed', todo, Lost')
        /\ pc' = "raised" => Broke(call', kb', landed')
    BY <1>1, <1>3, <1>4, <2>1, SendsOnWay
  <2>3. pc' \in {"typing", "raised"}
    BY <2>1 DEF Sends
  <2>4. sent' = 0 => NoKeyYet'
    BY <1>1, <1>3, <1>5, <2>1, SendsNoKey
  <2>5. todo = FlattenSeq(left')
    BY <1>1 DEF todo
  <2>6. pc' = "typing" => OnWay(call', kb', landed', FlattenSeq(left'), Lost')
    BY <2>2, <2>5, Zenon
  <2>7. QED
    BY <1>1, <2>2, <2>3, <2>4, <2>6, GoesOn
<1>7. CASE kb' = new /\ pc' = "raised" /\ UNCHANGED <<landed, excused>>
  <2>1. Broke(call', kb', landed')
    BY <1>1, <1>4, <1>7
  <2>2. sent' = 0 => NoKeyYet'
    BY <1>1, <1>2, <1>3, <1>7 DEF NoKeyYet
  <2>3. QED
    BY <1>1, <1>7, <2>1, <2>2, GoesOn
<1>8. QED
  BY <1>3, <1>6, <1>7

LEMMA TypeKeyTypes ==
    ASSUME DeviceTypes, TypingInv, "overlap" \notin excused, TypeKey,
           call.pasting => clip = call.text
    PROVE  TypingInv'
<1> DEFINE key == Head(Head(left))
           tapped == Tapped(Refreshed(kb, key), CodeOf(kb, key))
           todo == FlattenSeq(left')
<1>1. /\ pc = "typing" /\ call' = call /\ sent' = sent + 1 /\ sent \in Nat /\ kb \in Keyboard
      /\ Apart(kb) /\ InSync(kb) /\ call \in Call
  BY DEF TypeKey, DeviceTypes, callVars, clipVars
<1>2. OnWay(call, kb, landed, FlattenSeq(left), Lost)
  BY <1>1 DEF TypingInv
<1>3. /\ key \in Key /\ HasCode(kb, key)
      /\ tapped \in Keyboard /\ Apart(tapped) /\ InSync(tapped)
      /\ left' \in Seq(Seq(Key)) /\ FlattenSeq(left) = <<key>> \o todo
      /\ \/ \E f \in Flushes(tapped, MayFail) : f \in Drained(f) /\ Sends(f)
         \/ kb' = tapped /\ UNCHANGED <<pc, landed, excused>>
  BY TypeKeyIs
<1>4. todo \in Seq(Key)
  BY <1>3, FlattenType
<1> HIDE DEF todo
<1>5. OnWay(call, kb, landed, <<key>> \o todo, Lost)
  BY <1>2, <1>3, Zenon
<1> HIDE DEF key
<1>6. OnWay(call, tapped, landed, todo, Lost)
  BY <1>1, <1>3, <1>4, <1>5, TapOnWay
<1>7. sent' # 0
  BY <1>1
<1> HIDE DEF tapped
<1>8. CASE \E f \in Flushes(tapped, MayFail) : f \in Drained(f) /\ Sends(f)
  <2>1. PICK f \in Flushes(tapped, MayFail) : f \in Drained(f) /\ Sends(f)
    BY <1>8
  <2>2. /\ pc' = "typing" => OnWay(call', kb', landed', todo, Lost')
        /\ pc' = "raised" => Broke(call', kb', landed')
    BY <1>1, <1>3, <1>4, <1>6, <2>1, SendsOnWay
  <2>3. pc' \in {"typing", "raised"}
    BY <2>1 DEF Sends
  <2>4. QED
    BY <1>1, <1>7, <2>2, <2>3, GoesOn DEF todo
<1>9. CASE kb' = tapped /\ UNCHANGED <<pc, landed, excused>>
  <2>1. Lost => Lost'
    BY <1>9 DEF Lost
  <2>2. OnWay(call, tapped, landed, todo, Lost')
    BY <1>6, <2>1, OnWayLost
  <2>3. OnWay(call', kb', landed', todo, Lost')
    BY <1>1, <1>9, <2>2, Zenon
  <2>4. QED
    BY <1>1, <1>7, <1>9, <2>3, GoesOn DEF todo
<1>10. QED
  BY <1>3, <1>8, <1>9

LEMMA EndSegmentTypes ==
    ASSUME DeviceTypes, TypingInv, "overlap" \notin excused, EndSegment,
           call.pasting => clip = call.text
    PROVE  TypingInv'
<1> DEFINE todo == FlattenSeq(left)
<1>1. /\ pc = "typing" /\ call' = call /\ sent' = sent /\ kb \in Keyboard
      /\ Apart(kb) /\ InSync(kb) /\ call \in Call /\ todo \in Seq(Key)
  BY FlattenType DEF EndSegment, DeviceTypes, callVars, clipVars
<1>2. OnWay(call, kb, landed, todo, Lost) /\ (sent = 0 => NoKeyYet)
  BY <1>1 DEF TypingInv
<1>3. FlattenSeq(left') = todo /\ \E f \in Flushes(kb, MayFail) : \E g \in Drained(f) : Sends(g)
  BY EndSegmentIs
<1> HIDE DEF todo
<1>4. PICK f \in Flushes(kb, MayFail) : \E g \in Drained(f) : Sends(g)
  BY <1>3
<1>5. PICK g \in Drained(f) : Sends(g)
  BY <1>4
<1>6. /\ pc' = "typing" => OnWay(call', kb', landed', todo, Lost')
      /\ pc' = "raised" => Broke(call', kb', landed')
  BY <1>1, <1>2, <1>5, SendsOnWay
<1>7. pc' \in {"typing", "raised"}
  BY <1>5 DEF Sends
<1>8. sent' = 0 => NoKeyYet'
  BY <1>1, <1>2, <1>5, SendsNoKey DEF NoKeyYet
<1>9. pc' = "typing" => OnWay(call', kb', landed', FlattenSeq(left'), Lost')
  BY <1>3, <1>6, Zenon
<1>10. QED
  BY <1>1, <1>6, <1>7, <1>8, <1>9, GoesOn

LEMMA AllTypedTypes ==
    ASSUME DeviceTypes, QueueInv, TypingInv, "overlap" \notin excused, AllTyped
    PROVE  TypingInv'
<1>1. /\ pc = "typing" /\ left = <<>> /\ pc' = "idle" /\ call' = call /\ kb \in Keyboard
      /\ call \in Call /\ landed' = landed /\ excused' = excused
  BY DEF AllTyped, Return, DeviceTypes
<1>2. kb.out = <<>>
  BY <1>1 DEF QueueInv
<1>3. FlattenSeq(left) = <<>> /\ <<>> \in Seq(Key)
  BY <1>1, FlattenEmpty
<1>4. OnWay(call, kb, landed, <<>>, Lost)
  <2>1. OnWay(call, kb, landed, FlattenSeq(left), Lost)
    BY <1>1 DEF TypingInv
  <2>2. QED
    BY <1>3, <2>1, Zenon
<1>5. landed \in Seq(Key) /\ Begins(landed, Done(call))
  BY <1>1, <1>3, <1>4, BeginningOnWay
<1>6. ASSUME ~Lost' PROVE landed = Done(call)
  <2>1. ~Lost
    BY <1>1, <1>6 DEF Lost
  <2>2. QED
    BY <1>1, <1>2, <1>4, <2>1, EndOfWay
<1>7. QED
  BY <1>1, <1>5, <1>6, Ends

LEMMA FailedTypes ==
    ASSUME DeviceTypes, TypingInv, "overlap" \notin excused, VkbdFailed,
           call.pasting => clip = call.text
    PROVE  TypingInv'
<1>1. /\ pc = "raised" /\ call' = call /\ kb \in Keyboard /\ Apart(kb) /\ call \in Call
      /\ excused' = excused
      /\ (sent = 0 /\ pc' = "wtype") \/ (pc' = "idle" /\ answer' = "failed")
  BY DEF VkbdFailed, Return, NothingSent, DeviceTypes
<1>2. PICK n \in IF kb.live THEN 0..Len(kb.out) ELSE {0} :
         landed' = landed \o Typed(KeysRead(kb, n))
  BY DEF VkbdFailed
<1>3. Broke(call, kb, landed) /\ (sent = 0 => NoKeyYet)
  BY <1>1 DEF TypingInv
<1>4. Begins(landed', Done(call)) /\ landed' \in Seq(Key)
  <2>1. /\ landed \in Seq(Key) /\ Begins(landed \o Typed(KeysRead(kb, n)), Done(call))
    BY <1>1, <1>2, <1>3, BeginningBroke
  <2>2. landed \o Typed(KeysRead(kb, n)) \in Seq(Key)
    BY <1>1, <1>2, <1>3, BeginningBroke
  <2>3. QED
    BY <1>2, <2>1, <2>2, Zenon
<1>5. CASE pc' = "idle" /\ answer' = "failed"
  BY <1>1, <1>4, <1>5, Ends
<1>6. CASE sent = 0 /\ pc' = "wtype"
  <2>1. landed = <<>> /\ \A i \in DOMAIN kb.out : kb.out[i].kind = "keymap"
    BY <1>3, <1>6 DEF NoKeyYet
  <2>2. n \in 0..Len(kb.out)
    BY <1>1, <1>2 DEF Keyboard
  <2>3. KeysRead(kb, n) = <<>>
    BY <1>1, <2>1, <2>2, NoKeysRead
  <2>4. landed' = <<>>
    BY <1>2, <2>1, <2>3, NothingTyped, Zenon
  <2>5. QED
    BY <1>6, <2>4, NotBegun
<1>7. QED
  BY <1>1, <1>5, <1>6

LEMMA SubSeqBegins ==
    ASSUME NEW t \in Seq(Key), NEW n \in 0..Len(t)
    PROVE  SubSeq(t, 1, n) \in Seq(Key) /\ Begins(SubSeq(t, 1, n), t)
<1> DEFINE a == SubSeq(t, 1, n)
           b == SubSeq(t, n + 1, Len(t))
<1>1. Len(t) \in Nat /\ n \in Nat /\ \A i \in 1..Len(t) : t[i] \in Key
  BY LenProperties, ElementOfSeq
<1>2. /\ a \in Seq(Key) /\ Len(a) = n /\ \A i \in 1..n : a[i] = t[i]
      /\ b \in Seq(Key) /\ Len(b) = Len(t) - n /\ \A i \in 1..(Len(t) - n) : b[i] = t[n + i]
  BY <1>1
<1> HIDE DEF a, b
<1>3. /\ a \o b \in Seq(Key) /\ Len(a \o b) = Len(t)
      /\ \A i \in 1..Len(t) : (a \o b)[i] = IF i <= n THEN a[i] ELSE b[i - n]
  BY <1>1, <1>2, ConcatProperties
<1>4. ASSUME NEW i \in 1..Len(t) PROVE (a \o b)[i] = t[i]
  <2>1. CASE i <= n
    BY <1>1, <1>2, <1>3, <2>1
  <2>2. CASE ~(i <= n)
    <3>1. i - n \in 1..(Len(t) - n) /\ n + (i - n) = i
      BY <1>1, <2>2
    <3>2. QED
      BY <1>2, <1>3, <2>2, <3>1
  <2>3. QED
    BY <2>1, <2>2
<1>5. a \o b = t
  BY <1>3, <1>4, SeqEqual
<1>6. QED
  BY <1>2, <1>5, Zenon DEF Begins, a

LEMMA WtypeTypes ==
    ASSUME DeviceTypes, TypingInv, "overlap" \notin excused, Wtype,
           call.pasting => clip = call.text
    PROVE  TypingInv'
<1> DEFINE W == Wanted(call)
<1>1. /\ pc = "wtype" /\ pc' = "idle" /\ call' = call /\ call \in Call
      /\ \/ landed' = landed \o Typed(W) /\ answer' = "typed"
         \/ answer' = "failed" /\ \E n \in 0..Len(W) : landed' = landed \o Typed(SubSeq(W, 1, n))
  BY DEF Wtype, Return, DeviceTypes, Wanted
<1>2. landed = <<>>
  BY <1>1 DEF TypingInv
<1>3. /\ W \in Seq(Key) /\ call.text \in Seq(Key) /\ <<>> \in Seq(Key)
      /\ Landing(call.text, W) = Done(call) /\ Done(call) \in Seq(Key)
  BY <1>1, WantedIs, TextsAre DEF Call, Done
<1>4. ASSUME NEW keys \in Seq(Key), Begins(keys, W)
      PROVE  /\ landed \o Typed(keys) = Landing(call.text, keys)
             /\ Landing(call.text, keys) \in Seq(Key)
             /\ Begins(Landing(call.text, keys), Done(call))
  <2>1. <<>> \o keys = keys
    BY <1>4, ConcatEmptySeq
  <2>2. Begins(<<>> \o keys, W)
    BY <1>4, <2>1, Zenon
  <2>3. Typed(keys) = Landing(call.text, keys)
    BY <1>1, <1>3, <1>4, <2>2, TypedInCall
  <2>4. Landing(call.text, keys) \in Seq(Key)
    BY <1>3, <1>4, LandingType
  <2>5. <<>> \o Landing(call.text, keys) = Landing(call.text, keys)
    BY <2>4, ConcatEmptySeq
  <2>6. Begins(Landing(call.text, keys), Landing(call.text, W))
    BY <1>3, <1>4, LandingBegins
  <2>7. QED
    BY <1>2, <1>3, <2>3, <2>4, <2>5, <2>6, Zenon
<1> HIDE DEF W
<1>5. CASE landed' = landed \o Typed(W) /\ answer' = "typed"
  <2>1. Begins(W, W)
    BY <1>3, BeginsAtOnce
  <2>2. landed' = Done(call) /\ landed' \in Seq(Key) /\ Begins(landed', Done(call))
    BY <1>3, <1>4, <1>5, <2>1, Zenon
  <2>3. QED
    BY <1>1, <2>2, Ends
<1>6. CASE answer' = "failed" /\ \E n \in 0..Len(W) : landed' = landed \o Typed(SubSeq(W, 1, n))
  <2>1. PICK n \in 0..Len(W) : landed' = landed \o Typed(SubSeq(W, 1, n))
    BY <1>6
  <2> DEFINE keys == SubSeq(W, 1, n)
  <2>2. keys \in Seq(Key) /\ Begins(keys, W)
    BY <1>3, SubSeqBegins
  <2>3. landed' \in Seq(Key) /\ Begins(landed', Done(call))
    BY <1>4, <2>1, <2>2, Zenon
  <2>4. QED
    BY <1>1, <1>6, <2>3, Ends
<1>7. QED
  BY <1>1, <1>5, <1>6

LEMMA TypingStep == DeviceInv /\ [DeviceNext]_vars => TypingInv'
<1> SUFFICES ASSUME DeviceInv, [DeviceNext]_vars PROVE TypingInv'
  OBVIOUS
<1>0. DeviceTypes /\ ClipInv /\ QueueInv /\ TypingInv
  BY DEF DeviceInv
<1>1. CASE Rewrite \/ RewriteBulk \/ PressKey
  <2>1. PICK back \in Nat, text \in Seq(Character), first \in {"focus", "keyboard"} :
           Begin(back, text, first)
    BY <1>1, BeginsAre
  <2>2. pc' \in {"focus", "keyboard"} /\ landed' = <<>>
    BY <2>1 DEF Begin
  <2>3. QED
    BY <2>2, NotBegun
<1>2. CASE SetClipboard
  <2>1. /\ UNCHANGED <<call, landed, answer, sent, kb, left, pc>>
        /\ excused' \in {excused, excused \cup Overlap}
    BY <1>2 DEF SetClipboard, keyboardVars
  <2>2. /\ "lost" \in excused' <=> "lost" \in excused
        /\ "overlap" \notin excused' => "overlap" \notin excused
    BY <2>1 DEF Overlap
  <2>3. QED
    BY <1>0, <2>1, <2>2, TypingIdle
<1>3. CASE AskFocus
  <2>1. /\ UNCHANGED <<call, landed, answer, sent, kb, left, excused>>
        /\ pc = "focus" /\ pc' \in {"read clipboard", "keyboard"}
    BY <1>3 DEF AskFocus, keyboardVars
  <2>2. QED
    BY <1>0, <2>1, TypingIdle
<1>4. CASE FallbackExpires \/ Focus \/ UNCHANGED vars
  <2>1. UNCHANGED <<call, landed, answer, sent, kb, left, excused, pc>>
    BY <1>4 DEF FallbackExpires, Focus, vars, keyboardVars, callVars
  <2>2. QED
    BY <1>0, <2>1, TypingIdle
<1>5. CASE ReadClipboard
  <2>1. /\ UNCHANGED <<call, landed, answer, sent, kb, left>>
        /\ pc = "read clipboard" /\ pc' = "write clipboard"
        /\ excused' \in {excused \cup Overlap, excused \cup Overlap \cup {"clip"}}
    BY <1>5 DEF ReadClipboard, keyboardVars
  <2>2. /\ "lost" \in excused' <=> "lost" \in excused
        /\ "overlap" \notin excused' => "overlap" \notin excused
    BY <2>1 DEF Overlap
  <2>3. QED
    BY <1>0, <2>1, <2>2, TypingIdle
<1>6. CASE WriteClipboard
  <2>1. /\ pc = "write clipboard" /\ pc' = "keyboard" /\ landed' = landed
        /\ excused' \in {excused, excused \cup {"clip"}}
    BY <1>6 DEF WriteClipboard
  <2>2. "overlap" \notin excused' => landed' = <<>>
    BY <1>0, <2>1 DEF TypingInv
  <2>3. CASE "overlap" \in excused'
    BY <2>3 DEF TypingInv
  <2>4. QED
    BY <2>1, <2>2, <2>3, NotBegun
<1>7. CASE TimerFires
  <2>1. /\ UNCHANGED <<call, landed, answer, sent, kb, left, pc>>
        /\ excused' \in {excused, excused \cup {"clip"}}
    BY <1>7 DEF TimerFires, keyboardVars
  <2>2. QED
    BY <1>0, <2>1, TypingIdle
<1> SUFFICES ASSUME "overlap" \notin excused' PROVE TypingInv'
  BY DEF TypingInv
<1>8. CASE GetKeyboard
  <2>1. /\ pc = "keyboard" /\ left' = Plan(call) /\ call' = call
        /\ landed' = landed /\ excused' = excused
        /\ pc' \in {"typing", "wtype"} /\ kb' \in {kb, NewKeyboard}
    BY <1>8 DEF GetKeyboard
  <2>2. call \in Call /\ landed = <<>> /\ kb' \in Keyboard /\ kb'.out = <<>>
    BY <1>0, <2>1, NewKeyboardIs DEF DeviceTypes, QueueInv, TypingInv
  <2>3. OnWay(call, kb', <<>>, Wanted(call), Lost')
    BY <2>2, NothingOnWay
  <2>4. OnWay(call', kb', landed', FlattenSeq(left'), Lost')
    BY <2>1, <2>2, <2>3, Zenon DEF Wanted
  <2>5. NoKeyYet'
    BY <2>1, <2>2 DEF NoKeyYet
  <2>6. CASE pc' = "typing"
    BY <2>1, <2>4, <2>5, <2>6, GoesOn
  <2>7. CASE pc' = "wtype"
    BY <2>1, <2>2, <2>7, NotBegun
  <2>8. QED
    BY <2>1, <2>6, <2>7
\* While a call types, the clipboard is its own if it pastes.
<1>a. ASSUME pc \in {"typing", "raised", "wtype"}, excused' \ {"lost"} = excused \ {"lost"}
      PROVE  "overlap" \notin excused /\ (call.pasting => clip = call.text)
  BY <1>0, <1>a DEF ClipInv, Pasting
<1>9. CASE AllocateKey
  <2>1. pc = "typing" /\ excused' \in {excused, excused \cup {"lost"}}
    BY <1>9 DEF AllocateKey, Sends
  <2>2. QED
    BY <1>0, <1>9, <1>a, <2>1, AllocateTypes
<1>10. CASE TypeKey
  <2>1. pc = "typing" /\ excused' \in {excused, excused \cup {"lost"}}
    BY <1>10 DEF TypeKey, Sends
  <2>2. QED
    BY <1>0, <1>10, <1>a, <2>1, TypeKeyTypes
<1>11. CASE EndSegment
  <2>1. pc = "typing" /\ excused' \in {excused, excused \cup {"lost"}}
    BY <1>11 DEF EndSegment, Sends
  <2>2. QED
    BY <1>0, <1>11, <1>a, <2>1, EndSegmentTypes
<1>12. CASE AllTyped
  <2>1. pc = "typing" /\ excused' = excused
    BY <1>12 DEF AllTyped
  <2>2. QED
    BY <1>0, <1>12, <1>a, <2>1, AllTypedTypes
<1>13. CASE VkbdFailed
  <2>1. pc = "raised" /\ excused' = excused
    BY <1>13 DEF VkbdFailed
  <2>2. QED
    BY <1>0, <1>13, <1>a, <2>1, FailedTypes
<1>14. CASE Wtype
  <2>1. pc = "wtype" /\ excused' = excused
    BY <1>14 DEF Wtype
  <2>2. QED
    BY <1>0, <1>14, <1>a, <2>1, WtypeTypes
<1>15. QED
  BY <1>1, <1>2, <1>3, <1>4, <1>5, <1>6, <1>7, <1>8, <1>9, <1>10, <1>11, <1>12, <1>13, <1>14
     DEF DeviceNext

-----------------------------------------------------------------------------
(* The theorems.                                                           *)

LEMMA DeviceInitially == Init => DeviceInv
<1> SUFFICES ASSUME Init PROVE DeviceInv
  OBVIOUS
<1>1. FocusInv
  BY FocusInitially DEF Init
<1>2. NoCall \in Call /\ ~NoCall.pasting
  BY TextsAre DEF NoCall, Call
<1>3. DeviceTypes
  <2>1. kb \in Keyboard /\ Apart(kb) /\ InSync(kb)
    BY NewKeyboardIs DEF Init
  <2>2. User \in Contents /\ timers \in Seq(Contents) /\ left \in Seq(Seq(Key))
    BY DEF Init, Contents
  <2>3. QED
    BY <1>2, <2>1, <2>2 DEF Init, DeviceTypes, Stages
<1>4. ClipInv
  BY <1>2 DEF Init, ClipInv, Pasting, Decoded
<1>5. QueueInv
  BY NewKeyboardIs DEF Init, QueueInv
<1>6. TypingInv
  <2>1. Done(NoCall) = <<>>
    <3>1. Backspaces(0) = <<>>
      <4>1. 1..0 = {}
        OBVIOUS
      <4>2. QED
        BY <4>1 DEF Backspaces
    <3>2. Done(NoCall) = <<>> \o <<>>
      BY <3>1 DEF Done, NoCall
    <3>3. QED
      BY <3>2, NothingTyped
  <2>2. <<>> \in Seq(Key) /\ Begins(<<>>, <<>>)
    BY BeginsAtOnce, EmptySeq
  <2>3. pc = "idle" /\ landed = <<>> /\ Done(call) = <<>>
    BY <2>1 DEF Init
  <2> HIDE DEF OnWay, Broke, Begins, Done, Lost, NoKeyYet
  <2>4. QED
    BY <2>2, <2>3 DEF TypingInv
<1>7. QED
  BY <1>1, <1>3, <1>4, <1>5, <1>6 DEF DeviceInv

LEMMA DeviceStep == DeviceInv /\ [DeviceNext]_vars => DeviceInv'
<1>1. DeviceInv /\ [DeviceNext]_vars => FocusInv'
  <2>1. SUFFICES ASSUME DeviceInv, [DeviceNext]_vars PROVE FocusInv'
    OBVIOUS
  <2>2. FocusInv
    BY <2>1 DEF DeviceInv
  <2>3. [FocusNext]_focusVars
    BY <2>1 DEF DeviceNext, vars, Rewrite, RewriteBulk, PressKey, Begin, SetClipboard, AskFocus,
       FallbackExpires, ReadClipboard, WriteClipboard, TimerFires, GetKeyboard, AllocateKey,
       TypeKey, EndSegment, AllTyped, VkbdFailed, Wtype, Focus
  <2>4. QED
    BY <2>2, <2>3, FocusStep
<1>2. QED
  BY <1>1, TypesStep, ClipStep, QueueStep, TypingStep DEF DeviceInv

LEMMA DeviceInvariant == DeviceSpec => []DeviceInv
  BY DeviceInitially, DeviceStep, PTL DEF DeviceSpec

\* The types of the device's state, that no two characters share a code, and that
\* the compositor, once it has read the queue, means by the codes what the client
\* means, for any number of codes and characters.
THEOREM DeviceTypeCorrect == DeviceSpec => []DeviceTypeOK
<1>1. DeviceInv => DeviceTypeOK
  <2>1. SUFFICES ASSUME DeviceTypes PROVE DeviceTypeOK
    BY DEF DeviceInv
  <2>2. kb \in Keyboard /\ Apart(kb) /\ (pc # "raised" => InSync(kb))
    BY <2>1 DEF DeviceTypes
  <2>3. QED
    BY <2>1, <2>2 DEF DeviceTypes, DeviceTypeOK, Keyboard, Apart, InSync, Stages
<1>2. QED
  BY <1>1, DeviceInvariant, PTL

\* What has landed of a call is the beginning of what was asked, and all of it
\* when the call is answered as typed, whatever the texts, the number of shared
\* codes, and the places where flushes and programs fail.
THEOREM TypesAsAsked == DeviceSpec => []TypesWhatItIsAsked
<1>1. DeviceInv => TypesWhatItIsAsked
  <2>1. SUFFICES ASSUME DeviceTypes, ClipInv, TypingInv, "overlap" \notin excused
                 PROVE  /\ IsPrefix(landed, Asked)
                        /\ (pc = "idle" /\ answer = "typed" /\ ~Lost) => landed = Asked
    BY DEF DeviceInv, TypesWhatItIsAsked, Lost
  <2>2. /\ call \in Call /\ Asked = Done(call) /\ Done(call) \in Seq(Key) /\ kb \in Keyboard
        /\ FlattenSeq(left) \in Seq(Key) /\ <<>> \in Seq(Key)
    <3>1. call \in Call /\ kb \in Keyboard /\ left \in Seq(Seq(Key))
      BY <2>1 DEF DeviceTypes
    <3>2. Asked = Done(call)
      BY DEF Asked, Done
    <3>3. FlattenSeq(left) \in Seq(Key)
      BY <3>1, FlattenType
    <3>4. Done(call) \in Seq(Key)
      BY <3>1, WantedIs DEF Done
    <3>5. QED
      BY <3>1, <3>2, <3>3, <3>4, EmptySeq
  <2>3. landed \in Seq(Key) /\ Begins(landed, Done(call))
    <3>1. CASE pc \in {"focus", "read clipboard", "write clipboard", "keyboard", "wtype"}
      <4>1. landed = <<>>
        BY <2>1, <3>1 DEF TypingInv
      <4>2. QED
        BY <2>2, <4>1, BeginsAtOnce
    <3>2. CASE pc = "typing"
      <4>1. OnWay(call, kb, landed, FlattenSeq(left), Lost)
        BY <2>1, <3>2 DEF TypingInv
      <4>2. QED
        BY <2>2, <4>1, BeginningOnWay
    <3>3. CASE pc = "raised"
      <4>1. Broke(call, kb, landed)
        BY <2>1, <3>3 DEF TypingInv
      <4>2. call.pasting => clip = call.text
        BY <2>1, <3>3 DEF ClipInv, Pasting
      <4>3. 0 \in IF kb.live THEN 0..Len(kb.out) ELSE {0}
        BY <2>2 DEF Keyboard
      <4>4. QED
        BY <2>2, <4>1, <4>2, <4>3, BeginningBroke
    <3>4. CASE pc = "idle"
      BY <2>1, <3>4 DEF TypingInv
    <3>5. QED
      BY <2>1, <3>1, <3>2, <3>3, <3>4 DEF DeviceTypes, Stages
  <2>4. IsPrefix(landed, Asked)
    BY <2>2, <2>3, BeginsIsPrefix
  <2>5. (pc = "idle" /\ answer = "typed" /\ ~Lost) => landed = Asked
    BY <2>1, <2>2 DEF TypingInv
  <2>6. QED
    BY <2>4, <2>5
<1>2. QED
  BY <1>1, DeviceInvariant, PTL

\* When no timer is left the user has the clipboard back, or what it was read as,
\* unless it could not be read, a wl-copy of the device failed after it took the
\* clipboard, or a second paste or copy came before the timer.
THEOREM ClipboardIsRestored == DeviceSpec => []ClipboardComesBack
<1>1. DeviceInv => ClipboardComesBack
  <2>1. SUFFICES ASSUME ClipInv, pc = "idle", timers = <<>>, excused \cap {"clip", "overlap"} = {}
                 PROVE  clip \in Decoded(kept)
    BY DEF DeviceInv, ClipboardComesBack
  <2>2. "clip" \notin excused /\ "overlap" \notin excused /\ ~Pasting
    BY <2>1 DEF Pasting
  <2>3. QED
    BY <2>1, <2>2 DEF ClipInv
<1>2. QED
  BY <1>1, DeviceInvariant, PTL

\* The device asks a cache that names the focused window, with the same exception.
THEOREM DeviceAsksTrusted == DeviceSpec => []TrustedMeansCurrent
<1>1. DeviceInv => TrustedMeansCurrent
  BY DEF DeviceInv, FocusInv, CacheIsFocused, TrustedMeansCurrent
<1>2. QED
  BY <1>1, DeviceInvariant, PTL
=============================================================================
