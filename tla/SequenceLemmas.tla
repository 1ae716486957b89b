---------------------------- MODULE SequenceLemmas ----------------------------
(***************************************************************************)
(* What the operators of SequencesExt that TopoApp is built from return.   *)
(* FlattenSeq is defined by recursion over the sequence, so facts about it *)
(* need an induction, which here is the search for a least counterexample. *)
(***************************************************************************)
EXTENDS SequencesExt, SequenceTheorems, WellFoundedInduction, TLAPS

Below == OpToRel(<, Nat)

LEMMA BelowIsLess == \A x, y \in Nat : <<y, x>> \in Below <=> y < x
BY DEF Below, OpToRel

(* A set of numbers that is not empty has a least element.                 *)
LEMMA LeastElement ==
    ASSUME NEW T \in SUBSET Nat, T # {}
    PROVE  \E x \in T : \A y \in T : x <= y
<1>1. IsWellFoundedOn(Below, Nat)
    BY NatLessThanWellFounded DEF Below
<1>2. PICK x \in T : \A y \in T : ~(<<y, x>> \in Below)
    BY <1>1, WFMin
<1>3. \A y \in T : ~(y < x)
    BY <1>2, BelowIsLess
<1>4. \A y \in T : x <= y
    BY <1>3
<1>. QED BY <1>4

LEMMA MinIsLeast ==
    ASSUME NEW T \in SUBSET Nat, T # {}
    PROVE  Min(T) \in T /\ \A y \in T : Min(T) <= y
BY LeastElement DEF Min

(* The set of the numbers that have a property, if 0 has it and each       *)
(* number hands it on.                                                     *)
LEMMA Reaches ==
    ASSUME NEW T, 0 \in T, \A n \in Nat : n \in T => n + 1 \in T
    PROVE  Nat \subseteq T
<1>1. SUFFICES ASSUME Nat \ T # {} PROVE FALSE
    OBVIOUS
<1>2. PICK x \in Nat \ T : \A y \in Nat \ T : x <= y
    BY <1>1, LeastElement
<1>3. x # 0 /\ x - 1 \in Nat
    BY <1>2
<1>4. x - 1 \in T
    BY <1>2, <1>3
<1>5. (x - 1) + 1 = x
    BY <1>2
<1>. QED BY <1>2, <1>3, <1>4, <1>5

-----------------------------------------------------------------------------
(* FlattenSeq, with the recursion as a function of its own.                *)

IsFlattening(f, seqs, n) ==
    f = [i \in 1 .. n |-> IF i = 1 THEN seqs[i] ELSE f[i - 1] \o seqs[i]]

LEMMA FlatteningExists ==
    ASSUME NEW seqs, NEW n \in Nat
    PROVE  \E f : IsFlattening(f, seqs, n)
<1> DEFINE T == {k \in Nat : \E f : IsFlattening(f, seqs, k)}
<1>1. 0 \in T
  <2>1. IsFlattening([i \in 1 .. 0 |-> i], seqs, 0)
      BY DEF IsFlattening
  <2>. QED BY <2>1
<1>2. ASSUME NEW k \in Nat, k \in T PROVE k + 1 \in T
  <2>1. PICK g : IsFlattening(g, seqs, k)
      BY <1>2
  <2> DEFINE f == [i \in 1 .. k + 1 |->
                     IF i <= k THEN g[i]
                     ELSE IF i = 1 THEN seqs[i] ELSE g[i - 1] \o seqs[i]]
  <2>2. \A i \in 1 .. k + 1 :
          f[i] = IF i = 1 THEN seqs[i] ELSE f[i - 1] \o seqs[i]
    <3>1. SUFFICES ASSUME NEW i \in 1 .. k + 1
                   PROVE  f[i] = IF i = 1 THEN seqs[i] ELSE f[i - 1] \o seqs[i]
        OBVIOUS
    <3>2. CASE i <= k
      <4>1. i \in 1 .. k
          BY <3>2
      <4>2. f[i] = g[i] /\ (i # 1 => f[i - 1] = g[i - 1])
          BY <3>2
      <4>3. g[i] = IF i = 1 THEN seqs[i] ELSE g[i - 1] \o seqs[i]
          BY <2>1, <4>1 DEF IsFlattening
      <4>. QED BY <4>2, <4>3
    <3>3. CASE i = k + 1
      <4>1. i # 1 => f[i - 1] = g[i - 1]
          BY <3>3
      <4>. QED BY <3>3, <4>1
    <3>. QED BY <3>2, <3>3
  <2>3. f = [i \in 1 .. k + 1 |-> IF i = 1 THEN seqs[i] ELSE f[i - 1] \o seqs[i]]
      BY <2>2
  <2>4. IsFlattening(f, seqs, k + 1)
      BY <2>3 DEF IsFlattening
  <2>. QED BY <2>4
<1>3. Nat \subseteq T
  <2> HIDE DEF T
  <2>. QED BY <1>1, <1>2, Reaches
<1>. QED BY <1>3

LEMMA FlattenSeqDefined ==
    ASSUME NEW seqs, Len(seqs) \in Nat \ {0}
    PROVE  \E f : /\ IsFlattening(f, seqs, Len(seqs))
                  /\ FlattenSeq(seqs) = f[Len(seqs)]
<1> DEFINE f == CHOOSE g : IsFlattening(g, seqs, Len(seqs))
<1>1. IsFlattening(f, seqs, Len(seqs))
    BY FlatteningExists
<1>2. FlattenSeq(seqs) = f[Len(seqs)]
    BY DEF FlattenSeq, IsFlattening
<1>. QED BY <1>1, <1>2

(* A flattened sequence of sequences over S is a sequence over S.          *)
LEMMA FlattenSeqType ==
    ASSUME NEW S, NEW seqs \in Seq(Seq(S))
    PROVE  FlattenSeq(seqs) \in Seq(S)
<1>1. CASE Len(seqs) = 0
  <2>1. seqs = <<>>
      BY <1>1, EmptySeq
  <2>2. FlattenSeq(seqs) = <<>>
      BY <1>1, <2>1 DEF FlattenSeq
  <2>. QED BY <2>2
<1>2. CASE Len(seqs) # 0
  <2>1. Len(seqs) \in Nat \ {0}
      BY <1>2, LenProperties
  <2>2. PICK f : /\ IsFlattening(f, seqs, Len(seqs))
                 /\ FlattenSeq(seqs) = f[Len(seqs)]
      BY <2>1, FlattenSeqDefined
  <2>3. \A i \in 1 .. Len(seqs) : seqs[i] \in Seq(S)
      BY ElementOfSeq
  <2> DEFINE T == {k \in Nat : k \in 1 .. Len(seqs) => f[k] \in Seq(S)}
  <2>4. 0 \in T
      OBVIOUS
  <2>5. ASSUME NEW k \in Nat, k \in T PROVE k + 1 \in T
    <3>1. SUFFICES ASSUME k + 1 \in 1 .. Len(seqs) PROVE f[k + 1] \in Seq(S)
        OBVIOUS
    <3>2. f[k + 1] = IF k + 1 = 1 THEN seqs[k + 1] ELSE f[k] \o seqs[k + 1]
      <4>1. \A i \in 1 .. Len(seqs) :
              f[i] = IF i = 1 THEN seqs[i] ELSE f[i - 1] \o seqs[i]
          BY <2>2 DEF IsFlattening
      <4>2. (k + 1) - 1 = k
          OBVIOUS
      <4>. QED BY <4>1, <4>2, <3>1
    <3>3. CASE k = 0
        BY <3>1, <3>2, <3>3, <2>3
    <3>4. CASE k # 0
      <4>1. f[k] \in Seq(S)
          BY <2>5, <3>1, <3>4, <2>1
      <4>. QED BY <4>1, <3>1, <3>2, <3>4, <2>3, ConcatProperties
    <3>. QED BY <3>3, <3>4
  <2>6. Nat \subseteq T
    <3> HIDE DEF T
    <3>. QED BY <2>4, <2>5, Reaches
  <2>. QED BY <2>1, <2>2, <2>6
<1>. QED BY <1>1, <1>2

-----------------------------------------------------------------------------
(* Prefixes.                                                               *)

LEMMA PrefixOfConcat ==
    ASSUME NEW S, NEW s \in Seq(S), NEW t \in Seq(S)
    PROVE  /\ IsPrefix(s, s \o t)
           /\ SubSeq(s \o t, Len(s) + 1, Len(s \o t)) = t
<1>1. /\ s \o t \in Seq(S) /\ Len(s \o t) = Len(s) + Len(t)
      /\ Len(s) \in Nat /\ Len(t) \in Nat
    BY ConcatProperties, LenProperties
<1>2. SubSeq(s \o t, 1, Len(s)) = SubSeq(s, 1, Len(s))
  <2>1. CASE Len(s) = 0
      BY <2>1, SubSeqEmpty
  <2>2. CASE Len(s) # 0
    <3>1. 1 \in 1 .. Len(s) /\ Len(s) \in 1 .. Len(s)
        BY <1>1, <2>2
    <3>. QED BY <3>1, SubSeqOfConcat1
  <2>. QED BY <2>1, <2>2
<1>3. SubSeq(s \o t, Len(s) + 1, Len(s \o t)) = t
  <2>1. CASE Len(t) = 0
    <3>1. Len(s \o t) < Len(s) + 1
        BY <1>1, <2>1
    <3>2. t = <<>>
        BY <2>1, EmptySeq
    <3>. QED BY <1>1, <3>1, <3>2, SubSeqEmpty
  <2>2. CASE Len(t) # 0
    <3>1. /\ Len(s) + 1 \in Len(s) + 1 .. Len(s) + Len(t)
          /\ Len(s \o t) \in Len(s) + 1 .. Len(s) + Len(t)
        BY <1>1, <2>2
    <3>2. SubSeq(s \o t, Len(s) + 1, Len(s \o t))
            = SubSeq(t, (Len(s) + 1) - Len(s), Len(s \o t) - Len(s))
        BY <3>1, SubSeqOfConcat2
    <3>3. (Len(s) + 1) - Len(s) = 1 /\ Len(s \o t) - Len(s) = Len(t)
        BY <1>1
    <3>. QED BY <3>2, <3>3, SubSeqFull
  <2>. QED BY <2>1, <2>2
<1>. QED BY <1>1, <1>2, <1>3 DEF IsPrefix

LEMMA PrefixSplits ==
    ASSUME NEW S, NEW s \in Seq(S), NEW t \in Seq(S), IsPrefix(s, t)
    PROVE  /\ SubSeq(t, Len(s) + 1, Len(t)) \in Seq(S)
           /\ t = s \o SubSeq(t, Len(s) + 1, Len(t))
<1>1. Len(s) \in Nat /\ Len(t) \in Nat /\ Len(s) <= Len(t)
    BY LenProperties DEF IsPrefix
<1>2. \A i \in Len(s) + 1 .. Len(t) : t[i] \in S
    BY <1>1, ElementOfSeq
<1>3. SubSeq(t, Len(s) + 1, Len(t)) \in Seq(S)
    BY <1>1, <1>2, SubSeqProperties
<1>4. /\ 1 \in 1 .. Len(t) + 1 /\ Len(s) \in 1 - 1 .. Len(t)
      /\ Len(t) \in Len(s) .. Len(t)
    BY <1>1
<1>5. SubSeq(t, 1, Len(s)) \o SubSeq(t, Len(s) + 1, Len(t)) = SubSeq(t, 1, Len(t))
    BY <1>4, ConcatAdjacentSubSeq
<1>6. SubSeq(t, 1, Len(s)) = s
    BY SubSeqFull DEF IsPrefix
<1>. QED BY <1>3, <1>5, <1>6, SubSeqFull

LEMMA PrefixIsPart ==
    ASSUME NEW S, NEW s \in Seq(S), NEW t \in Seq(S)
    PROVE  IsPrefix(s, t) <=> \E q \in Seq(S) : t = s \o q
<1>1. ASSUME IsPrefix(s, t) PROVE \E q \in Seq(S) : t = s \o q
  <2> DEFINE rest == SubSeq(t, Len(s) + 1, Len(t))
  <2>1. rest \in Seq(S) /\ t = s \o rest
      BY <1>1, PrefixSplits
  <2> HIDE DEF rest
  <2>. QED BY <2>1
<1>2. ASSUME NEW q \in Seq(S), t = s \o q PROVE IsPrefix(s, t)
    BY <1>2, PrefixOfConcat
<1>. QED BY <1>1, <1>2

LEMMA PrefixAntisymmetric ==
    ASSUME NEW S, NEW s \in Seq(S), NEW t \in Seq(S), IsPrefix(s, t), IsPrefix(t, s)
    PROVE  s = t
<1>1. Len(s) \in Nat /\ Len(t) \in Nat
    BY LenProperties
<1>2. Len(s) = Len(t)
    BY <1>1 DEF IsPrefix
<1>. QED BY <1>2, SubSeqFull DEF IsPrefix

(* Two prefixes of a sequence: one is a prefix of the other.               *)
LEMMA PrefixesCompare ==
    ASSUME NEW S, NEW s \in Seq(S), NEW t \in Seq(S), NEW u \in Seq(S),
           IsPrefix(s, u), IsPrefix(t, u)
    PROVE  IsPrefix(s, t) \/ IsPrefix(t, s)
<1>1. SUFFICES ASSUME NEW a \in Seq(S), NEW b \in Seq(S), IsPrefix(a, u), IsPrefix(b, u),
                      Len(a) <= Len(b)
               PROVE  IsPrefix(a, b)
  <2>1. Len(s) \in Nat /\ Len(t) \in Nat
      BY LenProperties
  <2>2. Len(s) <= Len(t) \/ Len(t) <= Len(s)
      BY <2>1
  <2>. QED BY <1>1, <2>2
<1>2. Len(a) \in Nat /\ Len(b) \in Nat /\ Len(u) \in Nat
    BY LenProperties
<1>3. PICK q \in Seq(S) : u = b \o q
    BY <1>1, PrefixIsPart
<1>4. SubSeq(u, 1, Len(a)) = SubSeq(b, 1, Len(a))
  <2>1. CASE Len(a) = 0
      BY <2>1, SubSeqEmpty
  <2>2. CASE Len(a) # 0
    <3>1. 1 \in 1 .. Len(b) /\ Len(a) \in 1 .. Len(b)
        BY <1>1, <1>2, <2>2
    <3>. QED BY <1>1, <1>3, <3>1, SubSeqOfConcat1
  <2>. QED BY <2>1, <2>2
<1>. QED BY <1>1, <1>4 DEF IsPrefix

-----------------------------------------------------------------------------
(* Sequences written out.                                                  *)

LEMMA OneElement ==
    ASSUME NEW a
    PROVE  <<a>> \in Seq({a}) /\ Range(<<a>>) = {a}
<1>1. <<a>> \in Seq({a}) /\ Len(<<a>>) = 1 /\ <<a>>[1] = a /\ 1 .. 1 = {1}
    OBVIOUS
<1>2. Range(<<a>>) = {<<a>>[i] : i \in {1}}
    BY <1>1, RangeEquality
<1>. QED BY <1>1, <1>2

LEMMA TwoElements ==
    ASSUME NEW a, NEW b
    PROVE  <<a, b>> \in Seq({a, b}) /\ Range(<<a, b>>) = {a, b}
<1>1. /\ <<a, b>> \in Seq({a, b}) /\ Len(<<a, b>>) = 2
      /\ <<a, b>>[1] = a /\ <<a, b>>[2] = b /\ 1 .. 2 = {1, 2}
    OBVIOUS
<1>2. Range(<<a, b>>) = {<<a, b>>[i] : i \in {1, 2}}
    BY <1>1, RangeEquality
<1>. QED BY <1>1, <1>2

LEMMA ThreeElements ==
    ASSUME NEW a, NEW b, NEW c
    PROVE  <<a, b, c>> \in Seq({a, b, c}) /\ Range(<<a, b, c>>) = {a, b, c}
<1>1. /\ <<a, b, c>> \in Seq({a, b, c}) /\ Len(<<a, b, c>>) = 3
      /\ <<a, b, c>>[1] = a /\ <<a, b, c>>[2] = b /\ <<a, b, c>>[3] = c
      /\ 1 .. 3 = {1, 2, 3}
    OBVIOUS
<1>2. Range(<<a, b, c>>) = {<<a, b, c>>[i] : i \in {1, 2, 3}}
    BY <1>1, RangeEquality
<1>. QED BY <1>1, <1>2

-----------------------------------------------------------------------------
(* The first element of a sequence that is in a set.                       *)

FirstIn(s, G, x) ==
    \E i \in 1 .. Len(s) : s[i] = x /\ x \in G /\ \A j \in 1 .. i - 1 : s[j] \notin G

LEMMA FirstOfConcat ==
    ASSUME NEW S, NEW a \in Seq(S), NEW b \in Seq(S), NEW G, NEW x,
           FirstIn(a \o b, G, x)
    PROVE  FirstIn(a, G, x) \/ (Range(a) \cap G = {} /\ FirstIn(b, G, x))
<1>1. /\ Len(a) \in Nat /\ Len(b) \in Nat /\ Len(a \o b) = Len(a) + Len(b)
      /\ \A i \in 1 .. Len(a) + Len(b) :
           (a \o b)[i] = IF i <= Len(a) THEN a[i] ELSE b[i - Len(a)]
    BY LenProperties, ConcatProperties
<1>2. PICK i \in 1 .. Len(a) + Len(b) :
        (a \o b)[i] = x /\ x \in G /\ \A j \in 1 .. i - 1 : (a \o b)[j] \notin G
    BY <1>1 DEF FirstIn
<1>3. \A j \in 1 .. Len(a) : (a \o b)[j] = a[j]
    BY <1>1
<1>4. \A j \in 1 .. Len(b) : (a \o b)[Len(a) + j] = b[j]
  <2>1. SUFFICES ASSUME NEW j \in 1 .. Len(b) PROVE (a \o b)[Len(a) + j] = b[j]
      OBVIOUS
  <2>2. /\ Len(a) + j \in 1 .. Len(a) + Len(b) /\ ~(Len(a) + j <= Len(a))
        /\ (Len(a) + j) - Len(a) = j
      BY <1>1
  <2>. QED BY <1>1, <2>2
<1>5. CASE i <= Len(a)
  <2>1. i \in 1 .. Len(a) /\ \A j \in 1 .. i - 1 : j \in 1 .. Len(a)
      BY <1>1, <1>5
  <2>. QED BY <1>2, <1>3, <2>1 DEF FirstIn
<1>6. CASE ~(i <= Len(a))
  <2>1. \A j \in 1 .. Len(a) : j \in 1 .. i - 1
      BY <1>1, <1>6
  <2>2. \A j \in 1 .. Len(a) : a[j] \notin G
      BY <1>2, <1>3, <2>1
  <2>3. Range(a) \cap G = {}
      BY <2>2, RangeEquality
  <2> DEFINE k == i - Len(a)
  <2>4. k \in 1 .. Len(b) /\ Len(a) + k = i
      BY <1>1, <1>6
  <2>5. \A j \in 1 .. k - 1 : Len(a) + j \in 1 .. i - 1 /\ j \in 1 .. Len(b)
      BY <1>1, <2>4
  <2> HIDE DEF k
  <2>6. b[k] = x /\ \A j \in 1 .. k - 1 : b[j] \notin G
      BY <1>2, <1>4, <2>4, <2>5
  <2>. QED BY <1>2, <2>3, <2>4, <2>6 DEF FirstIn
<1>. QED BY <1>5, <1>6

LEMMA RangeOfConcat ==
    ASSUME NEW S, NEW a \in Seq(S), NEW b \in Seq(S)
    PROVE  Range(a) \cup Range(b) \subseteq Range(a \o b)
<1>1. /\ Len(a) \in Nat /\ Len(b) \in Nat /\ Len(a \o b) = Len(a) + Len(b)
      /\ a \o b \in Seq(S)
      /\ \A i \in 1 .. Len(a) + Len(b) :
           (a \o b)[i] = IF i <= Len(a) THEN a[i] ELSE b[i - Len(a)]
    BY LenProperties, ConcatProperties
<1>2. Range(a \o b) = {(a \o b)[i] : i \in 1 .. Len(a) + Len(b)}
      /\ Range(a) = {a[i] : i \in 1 .. Len(a)} /\ Range(b) = {b[i] : i \in 1 .. Len(b)}
    BY <1>1, RangeEquality
<1>3. ASSUME NEW i \in 1 .. Len(a) PROVE a[i] \in Range(a \o b)
  <2>1. i \in 1 .. Len(a) + Len(b) /\ (a \o b)[i] = a[i]
      BY <1>1
  <2>. QED BY <1>2, <2>1
<1>4. ASSUME NEW i \in 1 .. Len(b) PROVE b[i] \in Range(a \o b)
  <2>1. /\ Len(a) + i \in 1 .. Len(a) + Len(b) /\ ~(Len(a) + i <= Len(a))
        /\ (Len(a) + i) - Len(a) = i
      BY <1>1
  <2>2. (a \o b)[Len(a) + i] = b[i]
      BY <1>1, <2>1
  <2>. QED BY <1>2, <2>1, <2>2
<1>. QED BY <1>2, <1>3, <1>4

(* A flattened sequence holds what its parts hold, and the first of its    *)
(* elements in G is the first one of the first part with one.              *)
LEMMA FlattenSeqParts ==
    ASSUME NEW S, NEW seqs \in Seq(Seq(S))
    PROVE  /\ \A i \in 1 .. Len(seqs) : Range(seqs[i]) \subseteq Range(FlattenSeq(seqs))
           /\ \A G, x : FirstIn(FlattenSeq(seqs), G, x) =>
                \E i \in 1 .. Len(seqs) :
                  /\ FirstIn(seqs[i], G, x)
                  /\ \A j \in 1 .. i - 1 : Range(seqs[j]) \cap G = {}
<1>1. CASE Len(seqs) = 0
  <2>1. seqs = <<>>
      BY <1>1, EmptySeq
  <2>2. FlattenSeq(seqs) = <<>> /\ Len(<<>>) = 0
      BY <1>1, <2>1 DEF FlattenSeq
  <2>3. \A G, x : ~FirstIn(FlattenSeq(seqs), G, x)
      BY <2>2 DEF FirstIn
  <2>4. 1 .. Len(seqs) = {}
      BY <1>1
  <2>. QED BY <2>3, <2>4
<1>2. CASE Len(seqs) # 0
  <2>1. Len(seqs) \in Nat \ {0}
      BY <1>2, LenProperties
  <2>2. PICK f : /\ IsFlattening(f, seqs, Len(seqs))
                 /\ FlattenSeq(seqs) = f[Len(seqs)]
      BY <2>1, FlattenSeqDefined
  <2>3. \A i \in 1 .. Len(seqs) : seqs[i] \in Seq(S)
      BY ElementOfSeq
  <2>4. \A i \in 1 .. Len(seqs) :
          f[i] = IF i = 1 THEN seqs[i] ELSE f[i - 1] \o seqs[i]
      BY <2>2 DEF IsFlattening
  <2> DEFINE Q(k) ==
        /\ f[k] \in Seq(S)
        /\ \A i \in 1 .. k : Range(seqs[i]) \subseteq Range(f[k])
        /\ \A G, x : FirstIn(f[k], G, x) =>
             \E i \in 1 .. k : /\ FirstIn(seqs[i], G, x)
                               /\ \A j \in 1 .. i - 1 : Range(seqs[j]) \cap G = {}
      T == {k \in Nat : k \in 1 .. Len(seqs) => Q(k)}
  <2>5. 0 \in T
      OBVIOUS
  <2>6. ASSUME NEW k \in Nat, k \in T PROVE k + 1 \in T
    <3>1. SUFFICES ASSUME k + 1 \in 1 .. Len(seqs) PROVE Q(k + 1)
        OBVIOUS
    <3>2. f[k + 1] = IF k + 1 = 1 THEN seqs[k + 1] ELSE f[k] \o seqs[k + 1]
      <4>1. (k + 1) - 1 = k
          OBVIOUS
      <4>. QED BY <2>4, <3>1, <4>1
    <3>3. seqs[k + 1] \in Seq(S)
        BY <2>3, <3>1
    <3>4. CASE k = 0
      <4>1. f[k + 1] = seqs[k + 1] /\ k + 1 = 1
          BY <3>2, <3>4
      <4>2. 1 .. k + 1 = {1} /\ 1 .. 1 - 1 = {}
          BY <3>4
      <4>. QED BY <3>3, <4>1, <4>2
    <3>5. CASE k # 0
      <4>1. k \in 1 .. Len(seqs)
          BY <2>1, <3>1, <3>5
      <4>2. Q(k)
          BY <2>6, <4>1
      <4>3. f[k + 1] = f[k] \o seqs[k + 1]
        <5>1. k + 1 # 1
            BY <3>5
        <5> HIDE DEF Q, T
        <5>. QED BY <3>2, <5>1
      <4>4. \A i \in 1 .. k + 1 : i \in 1 .. k \/ i = k + 1
          OBVIOUS
      <4>5. f[k + 1] \in Seq(S)
          BY <3>3, <4>2, <4>3, ConcatProperties
      <4>6. \A i \in 1 .. k + 1 : Range(seqs[i]) \subseteq Range(f[k + 1])
        <5>1. Range(f[k]) \cup Range(seqs[k + 1]) \subseteq Range(f[k + 1])
            BY <3>3, <4>2, <4>3, RangeOfConcat
        <5>. QED BY <4>2, <4>4, <5>1
      <4>7. ASSUME NEW G, NEW x, FirstIn(f[k + 1], G, x)
            PROVE  \E i \in 1 .. k + 1 :
                     /\ FirstIn(seqs[i], G, x)
                     /\ \A j \in 1 .. i - 1 : Range(seqs[j]) \cap G = {}
        <5>1. FirstIn(f[k], G, x)
              \/ (Range(f[k]) \cap G = {} /\ FirstIn(seqs[k + 1], G, x))
            BY <3>3, <4>2, <4>3, <4>7, FirstOfConcat
        <5>2. CASE FirstIn(f[k], G, x)
          <6>1. PICK i \in 1 .. k : /\ FirstIn(seqs[i], G, x)
                                    /\ \A j \in 1 .. i - 1 : Range(seqs[j]) \cap G = {}
              BY <4>2, <5>2
          <6>2. i \in 1 .. k + 1
              OBVIOUS
          <6>. QED BY <6>1, <6>2
        <5>3. CASE Range(f[k]) \cap G = {} /\ FirstIn(seqs[k + 1], G, x)
          <6>1. \A j \in 1 .. k : Range(seqs[j]) \cap G = {}
              BY <4>2, <5>3
          <6>2. (k + 1) - 1 = k /\ k + 1 \in 1 .. k + 1
              OBVIOUS
          <6>. QED BY <5>3, <6>1, <6>2
        <5>. QED BY <5>1, <5>2, <5>3
      <4>. QED BY <4>5, <4>6, <4>7
    <3>. QED BY <3>4, <3>5
  <2>7. Nat \subseteq T
    <3> HIDE DEF T
    <3>. QED BY <2>5, <2>6, Reaches
  <2>8. Q(Len(seqs))
    <3>1. Len(seqs) \in Nat /\ Len(seqs) \in 1 .. Len(seqs)
        BY <2>1
    <3>2. Len(seqs) \in T
        BY <3>1, <2>7
    <3> HIDE DEF Q
    <3>. QED BY <3>1, <3>2
  <2>. QED BY <2>2, <2>8
<1>. QED BY <1>1, <1>2

-----------------------------------------------------------------------------
(* Sequences that grow at their end.                                       *)

(* What holds of the empty sequence and is handed on when an element is    *)
(* added holds of every sequence.                                          *)
LEMMA AppendReaches ==
    ASSUME NEW S, NEW T, <<>> \in T,
           \A s \in Seq(S), e \in S : s \in T => Append(s, e) \in T
    PROVE  Seq(S) \subseteq T
<1> DEFINE N == {n \in Nat : \A s \in Seq(S) : Len(s) = n => s \in T}
<1>1. 0 \in N
    BY EmptySeq
<1>2. ASSUME NEW n \in Nat, n \in N PROVE n + 1 \in N
  <2>1. SUFFICES ASSUME NEW s \in Seq(S), Len(s) = n + 1 PROVE s \in T
      OBVIOUS
  <2>2. s # <<>>
      BY <2>1, EmptySeq
  <2>3. PICK t \in Seq(S), e \in S : s = Append(t, e)
      BY <2>2, SequenceEmptyOrAppend
  <2>4. Len(t) \in Nat /\ Len(s) = Len(t) + 1
      BY <2>3, AppendProperties, LenProperties
  <2>5. Len(t) = n
      BY <2>1, <2>4
  <2>6. t \in T
      BY <1>2, <2>5
  <2>. QED BY <2>3, <2>6
<1>3. Nat \subseteq N
  <2> HIDE DEF N
  <2>. QED BY <1>1, <1>2, Reaches
<1>. QED BY <1>3, LenProperties

LEMMA FrontLastOfAppend ==
    ASSUME NEW S, NEW s \in Seq(S), NEW e \in S
    PROVE  Front(Append(s, e)) = s /\ Last(Append(s, e)) = e
<1>1. /\ Len(Append(s, e)) = Len(s) + 1 /\ Len(s) \in Nat
      /\ Append(s, e)[Len(s) + 1] = e /\ Append(s, e) = s \o <<e>>
    BY AppendProperties, AppendIsConcat, LenProperties
<1>2. Front(Append(s, e)) = SubSeq(s \o <<e>>, 1, Len(s))
  <2>1. (Len(s) + 1) - 1 = Len(s)
      BY <1>1
  <2>. QED BY <1>1, <2>1 DEF Front
<1>3. SubSeq(s \o <<e>>, 1, Len(s)) = SubSeq(s, 1, Len(s))
  <2>1. CASE Len(s) = 0
      BY <2>1, SubSeqEmpty
  <2>2. CASE Len(s) # 0
    <3>1. 1 \in 1 .. Len(s) /\ Len(s) \in 1 .. Len(s) /\ <<e>> \in Seq(S)
        BY <1>1, <2>2
    <3>. QED BY <3>1, SubSeqOfConcat1
  <2>. QED BY <2>1, <2>2
<1>. QED BY <1>1, <1>2, <1>3, SubSeqFull DEF Last

LEMMA AppendToConcat ==
    ASSUME NEW S, NEW s \in Seq(S), NEW t \in Seq(S), NEW e \in S
    PROVE  s \o Append(t, e) = Append(s \o t, e)
<1>1. <<e>> \in Seq(S) /\ s \o t \in Seq(S)
    BY ConcatProperties
<1>. QED BY <1>1, AppendIsConcat, ConcatAssociative

LEMMA FlatteningsAgree ==
    ASSUME NEW a, NEW b, NEW f, NEW g, NEW m \in Nat, NEW n \in Nat, m <= n,
           IsFlattening(f, a, m), IsFlattening(g, b, n),
           \A i \in 1 .. m : a[i] = b[i]
    PROVE  \A i \in 1 .. m : f[i] = g[i]
<1> DEFINE T == {k \in Nat : k \in 1 .. m => f[k] = g[k]}
<1>1. 0 \in T
    OBVIOUS
<1>2. ASSUME NEW k \in Nat, k \in T PROVE k + 1 \in T
  <2>1. SUFFICES ASSUME k + 1 \in 1 .. m PROVE f[k + 1] = g[k + 1]
      OBVIOUS
  <2>2. k + 1 \in 1 .. n /\ (k + 1) - 1 = k
      BY <2>1
  <2>3. /\ f[k + 1] = IF k + 1 = 1 THEN a[k + 1] ELSE f[k] \o a[k + 1]
        /\ g[k + 1] = IF k + 1 = 1 THEN b[k + 1] ELSE g[k] \o b[k + 1]
    <3>1. \A i \in 1 .. m : f[i] = IF i = 1 THEN a[i] ELSE f[i - 1] \o a[i]
        BY DEF IsFlattening
    <3>2. \A i \in 1 .. n : g[i] = IF i = 1 THEN b[i] ELSE g[i - 1] \o b[i]
        BY DEF IsFlattening
    <3>. QED BY <2>1, <2>2, <3>1, <3>2
  <2>4. k + 1 # 1 => f[k] = g[k]
      BY <1>2, <2>1
  <2>. QED BY <2>1, <2>3, <2>4
<1>3. Nat \subseteq T
  <2> HIDE DEF T
  <2>. QED BY <1>1, <1>2, Reaches
<1>. QED BY <1>3

LEMMA FlattenEmpty == FlattenSeq(<<>>) = <<>>
<1>1. Len(<<>>) = 0
    OBVIOUS
<1>. QED BY <1>1 DEF FlattenSeq

LEMMA FlattenAppend ==
    ASSUME NEW S, NEW seqs \in Seq(Seq(S)), NEW s \in Seq(S)
    PROVE  FlattenSeq(Append(seqs, s)) = FlattenSeq(seqs) \o s
<1> DEFINE more == Append(seqs, s)
           n == Len(seqs)
<1>1. /\ more \in Seq(Seq(S)) /\ Len(more) = n + 1 /\ n \in Nat
      /\ \A i \in 1 .. n : more[i] = seqs[i]
      /\ more[n + 1] = s
    BY AppendProperties, LenProperties
<1> HIDE DEF more
<1>2. PICK g : IsFlattening(g, more, n + 1) /\ FlattenSeq(more) = g[n + 1]
    BY <1>1, FlattenSeqDefined
<1>3. g[n + 1] = IF n + 1 = 1 THEN s ELSE g[n] \o s
  <2>1. \A i \in 1 .. n + 1 : g[i] = IF i = 1 THEN more[i] ELSE g[i - 1] \o more[i]
      BY <1>2 DEF IsFlattening
  <2>2. n + 1 \in 1 .. n + 1 /\ (n + 1) - 1 = n
      BY <1>1
  <2>. QED BY <1>1, <2>1, <2>2
<1>4. CASE n = 0
  <2>1. seqs = <<>>
      BY <1>4, EmptySeq
  <2>2. FlattenSeq(seqs) = <<>>
      BY <2>1, FlattenEmpty
  <2>. QED BY <1>2, <1>3, <1>4, <2>2, ConcatEmptySeq DEF more
<1>5. CASE n # 0
  <2>1. n \in Nat \ {0}
      BY <1>1, <1>5
  <2>2. PICK f : IsFlattening(f, seqs, n) /\ FlattenSeq(seqs) = f[n]
      BY <2>1, FlattenSeqDefined
  <2>3. n <= n + 1 /\ n + 1 \in Nat /\ n \in 1 .. n /\ n + 1 # 1
      BY <2>1
  <2>4. f[n] = g[n]
    <3>1. \A i \in 1 .. n : seqs[i] = more[i]
        BY <1>1
    <3> HIDE DEF n
    <3> DEFINE k == n + 1
    <3>2. n \in Nat /\ k \in Nat /\ n <= k /\ IsFlattening(g, more, k)
        BY <1>1, <1>2, <2>3
    <3>3. IsFlattening(f, seqs, n)
        BY <2>2
    <3> HIDE DEF k
    <3>4. \A i \in 1 .. n : f[i] = g[i]
        BY <3>1, <3>2, <3>3, FlatteningsAgree
    <3>. QED BY <2>3, <3>4
  <2>. QED BY <1>2, <1>3, <2>2, <2>3, <2>4 DEF more
<1>. QED BY <1>4, <1>5


-----------------------------------------------------------------------------
(* Sequences given element by element, whatever their elements are.        *)

LEMMA ElementsDefine ==
    ASSUME NEW n \in Nat, NEW a, a = [i \in 1 .. n |-> a[i]]
    PROVE  a \in Seq({a[i] : i \in 1 .. n}) /\ Len(a) = n
<1> DEFINE S == {a[i] : i \in 1 .. n}
<1>1. \A i \in 1 .. n : a[i] \in S
    OBVIOUS
<1> HIDE DEF S
<1>2. a \in [1 .. n -> S]
    BY <1>1
<1>3. a \in Seq(S) /\ Len(a) = n
    BY <1>2
<1>. QED BY <1>3 DEF S

LEMMA ConcatElements ==
    ASSUME NEW m \in Nat, NEW a, a = [i \in 1 .. m |-> a[i]],
           NEW n \in Nat, NEW b, b = [i \in 1 .. n |-> b[i]]
    PROVE  /\ a \o b = [i \in 1 .. m + n |-> (a \o b)[i]] /\ Len(a \o b) = m + n
           /\ \A i \in 1 .. m : (a \o b)[i] = a[i]
           /\ \A i \in 1 .. n : (a \o b)[m + i] = b[i]
<1> DEFINE A == {a[i] : i \in 1 .. m}
           B == {b[i] : i \in 1 .. n}
           S == A \cup B
<1>1. a \in Seq(A) /\ Len(a) = m /\ b \in Seq(B) /\ Len(b) = n
    BY ElementsDefine
<1> HIDE DEF A, B
<1>2. a \in Seq(S) /\ b \in Seq(S)
    BY <1>1, SeqMonotonic
<1> HIDE DEF S
<1> DEFINE c == a \o b
<1>3. /\ c \in Seq(S) /\ Len(c) = m + n
      /\ \A i \in 1 .. m + n : c[i] = IF i <= m THEN a[i] ELSE b[i - m]
    BY <1>1, <1>2, ConcatProperties
<1> HIDE DEF c
<1>4. c = [i \in 1 .. m + n |-> c[i]]
    BY <1>3, LenProperties
<1>5. ASSUME NEW i \in 1 .. m PROVE c[i] = a[i]
  <2>1. i \in 1 .. m + n /\ i <= m
      OBVIOUS
  <2>. QED BY <1>3, <2>1
<1>6. ASSUME NEW i \in 1 .. n PROVE c[m + i] = b[i]
  <2> DEFINE k == m + i
  <2>1. k \in 1 .. m + n /\ ~(k <= m) /\ k - m = i
      OBVIOUS
  <2> HIDE DEF k
  <2>2. c[k] = b[i]
      BY <1>3, <2>1
  <2>. QED BY <2>2 DEF k
<1>. QED BY <1>3, <1>4, <1>5, <1>6 DEF c

LEMMA AppendElement ==
    ASSUME NEW n \in Nat, NEW x
    PROVE  Append([i \in 1 .. n |-> x[i]], x[n + 1]) = [i \in 1 .. n + 1 |-> x[i]]
<1> DEFINE a == [i \in 1 .. n |-> x[i]]
           b == [i \in 1 .. n + 1 |-> x[i]]
           S == {x[i] : i \in 1 .. n + 1}
           e == x[n + 1]
<1>1. /\ \A i \in 1 .. n + 1 : x[i] \in S
      /\ \A i \in 1 .. n : i \in 1 .. n + 1
      /\ n + 1 \in 1 .. n + 1
    OBVIOUS
<1>2. e \in S
    BY <1>1
<1> HIDE DEF S
<1>3. a \in [1 .. n -> S] /\ b \in [1 .. n + 1 -> S]
    BY <1>1
<1>4. a \in Seq(S) /\ Len(a) = n /\ b \in Seq(S) /\ Len(b) = n + 1
    BY <1>3
<1>5. (\A i \in 1 .. n : a[i] = x[i]) /\ (\A i \in 1 .. n + 1 : b[i] = x[i])
    OBVIOUS
<1>6. b[n + 1] = e
    BY <1>1, <1>5
<1> HIDE DEF a, b, e
<1>7. /\ Append(a, e) \in Seq(S) /\ Len(Append(a, e)) = n + 1
      /\ \A i \in 1 .. n : Append(a, e)[i] = a[i]
      /\ Append(a, e)[n + 1] = e
    BY <1>2, <1>4, AppendProperties
<1>8. ASSUME NEW i \in 1 .. n + 1 PROVE Append(a, e)[i] = b[i]
  <2>0. i \in 1 .. n \/ i = n + 1
      OBVIOUS
  <2>1. CASE i \in 1 .. n
    <3>1. Append(a, e)[i] = a[i]
        BY <1>7, <2>1
    <3>2. a[i] = x[i] /\ b[i] = x[i]
        BY <1>1, <1>5, <2>1
    <3>. QED BY <3>1, <3>2
  <2>2. CASE i = n + 1
      BY <1>6, <1>7, <2>2
  <2>. QED BY <2>0, <2>1, <2>2
<1>9. Append(a, e) = b
    BY <1>4, <1>7, <1>8, SeqEqual
<1>. QED BY <1>9 DEF a, b, e

-----------------------------------------------------------------------------
(* What is in a flattened sequence.                                        *)
LEMMA FlattenRange ==
    ASSUME NEW S, NEW seqs \in Seq(Seq(S))
    PROVE  /\ FlattenSeq(seqs) \in Seq(S)
           /\ Range(FlattenSeq(seqs)) = UNION {Range(seqs[i]) : i \in 1 .. Len(seqs)}
<1>1. FlattenSeq(seqs) \in Seq(S)
    BY FlattenSeqType
<1>2. ASSUME NEW x \in Range(FlattenSeq(seqs))
      PROVE  x \in UNION {Range(seqs[i]) : i \in 1 .. Len(seqs)}
  <2> DEFINE flat == FlattenSeq(seqs)
             At == {i \in 1 .. Len(flat) : flat[i] = x}
  <2>0. DOMAIN flat = 1 .. Len(flat) /\ Len(flat) \in Nat
      BY <1>1
  <2>1. At # {} /\ At \in SUBSET Nat
      BY <1>2, <2>0 DEF Range
  <2>2. PICK i \in At : \A j \in At : i <= j
      BY <2>1, LeastElement
  <2>3. \A j \in 1 .. i - 1 : flat[j] \notin {x}
      BY <2>0, <2>2
  <2>4. FirstIn(flat, {x}, x)
      BY <2>2, <2>3 DEF FirstIn
  <2>5. PICK k \in 1 .. Len(seqs) : FirstIn(seqs[k], {x}, x)
      BY <2>4, FlattenSeqParts
  <2>6. DOMAIN seqs[k] = 1 .. Len(seqs[k])
      BY <2>5
  <2>7. x \in Range(seqs[k])
      BY <2>5, <2>6 DEF FirstIn, Range
  <2>. QED BY <2>7
<1>3. ASSUME NEW x \in UNION {Range(seqs[i]) : i \in 1 .. Len(seqs)}
      PROVE  x \in Range(FlattenSeq(seqs))
    BY <1>3, FlattenSeqParts
<1>. QED BY <1>1, <1>2, <1>3

(* A sequence that is written as a function of its positions.              *)
LEMMA IsSequence ==
    ASSUME NEW S, NEW n \in Nat, NEW f, f = [i \in 1 .. n |-> f[i]],
           \A i \in 1 .. n : f[i] \in S
    PROVE  f \in Seq(S) /\ Len(f) = n /\ DOMAIN f = 1 .. n
OBVIOUS

LEMMA RangeIsEmpty ==
    ASSUME NEW S, NEW s \in Seq(S)
    PROVE  s # <<>> <=> Range(s) # {}
<1>1. DOMAIN s = 1 .. Len(s) /\ Len(s) \in Nat
    OBVIOUS
<1>2. CASE s = <<>>
    BY <1>1, <1>2 DEF Range
<1>3. CASE s # <<>>
  <2>1. Len(s) # 0
      BY <1>3, EmptySeq
  <2>2. 1 \in DOMAIN s
      BY <1>1, <2>1
  <2>. QED BY <1>3, <2>2 DEF Range
<1>. QED BY <1>2, <1>3

(* Exactly the elements of both.                                           *)
LEMMA ConcatRange ==
    ASSUME NEW S, NEW a \in Seq(S), NEW b \in Seq(S)
    PROVE  Range(a \o b) = Range(a) \cup Range(b)
<1>1. /\ Len(a) \in Nat /\ Len(b) \in Nat /\ Len(a \o b) = Len(a) + Len(b)
      /\ a \o b \in Seq(S)
      /\ \A i \in 1 .. Len(a) + Len(b) :
           (a \o b)[i] = IF i <= Len(a) THEN a[i] ELSE b[i - Len(a)]
    BY LenProperties, ConcatProperties
<1>2. ASSUME NEW x \in Range(a \o b) PROVE x \in Range(a) \cup Range(b)
  <2>1. PICK i \in 1 .. Len(a) + Len(b) : x = (a \o b)[i]
      BY <1>1, <1>2 DEF Range
  <2>2. CASE i <= Len(a)
    <3>1. i \in DOMAIN a /\ x = a[i]
        BY <1>1, <2>1, <2>2
    <3>. QED BY <3>1 DEF Range
  <2>3. CASE ~(i <= Len(a))
    <3>1. i - Len(a) \in DOMAIN b /\ x = b[i - Len(a)]
        BY <1>1, <2>1, <2>3
    <3>. QED BY <3>1 DEF Range
  <2>. QED BY <2>2, <2>3
<1>. QED BY <1>2, RangeOfConcat

=============================================================================
