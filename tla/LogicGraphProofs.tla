---------------------------- MODULE LogicGraphProofs ----------------------------
(***************************************************************************)
(* What a type, and a whole graph, becomes on its way through the text:    *)
(* lemmas about the operators of LogicGraph that TopoAppProofs rests on.   *)
(***************************************************************************)
EXTENDS LogicGraph, SequenceLemmas

(* Opaque below: the provers then take a name for a value like another.    *)
NoName == ""

-----------------------------------------------------------------------------
(* The two recursive functions, each as a function of its own: it exists,  *)
(* is determined by what it was run over, and takes one step per element.  *)

Split(parts, t) ==
    IF t = "," THEN Append(parts, <<>>)
    ELSE Append(Front(parts), Append(Last(parts), t))

IsSplitting(f, s, n) ==
    f = [i \in 0 .. n |-> IF i = 0 THEN << <<>> >> ELSE Split(f[i - 1], s[i])]

NothingRead == Graph("", <<>>, NoFlow)

IsReading(f, s, n) ==
    f = [i \in 0 .. n |-> IF i = 0 THEN NothingRead ELSE ReadDecl(f[i - 1], s[i])]

LEMMA SplittingExists ==
    ASSUME NEW s, NEW n \in Nat
    PROVE  \E f : IsSplitting(f, s, n)
<1> DEFINE T == {k \in Nat : \E f : IsSplitting(f, s, k)}
<1>1. 0 \in T
  <2> DEFINE f == [i \in 0 .. 0 |-> << <<>> >>]
  <2>1. \A i \in 0 .. 0 : i = 0
      OBVIOUS
  <2>2. f = [i \in 0 .. 0 |-> IF i = 0 THEN << <<>> >> ELSE Split(f[i - 1], s[i])]
      BY <2>1
  <2>3. IsSplitting(f, s, 0)
      BY <2>2 DEF IsSplitting
  <2>. QED BY <2>3
<1>2. ASSUME NEW k \in Nat, k \in T PROVE k + 1 \in T
  <2>1. PICK g : IsSplitting(g, s, k)
      BY <1>2
  <2> DEFINE f == [i \in 0 .. k + 1 |-> IF i <= k THEN g[i] ELSE Split(g[i - 1], s[i])]
  <2>2. ASSUME NEW i \in 0 .. k + 1
        PROVE  f[i] = IF i = 0 THEN << <<>> >> ELSE Split(f[i - 1], s[i])
    <3>1. CASE i <= k
      <4>1. i \in 0 .. k
          BY <3>1
      <4>2. f[i] = g[i] /\ (i # 0 => f[i - 1] = g[i - 1])
          BY <3>1
      <4>3. g[i] = IF i = 0 THEN << <<>> >> ELSE Split(g[i - 1], s[i])
          BY <2>1, <4>1 DEF IsSplitting
      <4>. QED BY <4>2, <4>3
    <3>2. CASE i = k + 1
      <4>1. f[i] = Split(g[i - 1], s[i]) /\ f[i - 1] = g[i - 1] /\ i # 0
          BY <3>2
      <4>. QED BY <4>1
    <3>. QED BY <3>1, <3>2
  <2>3. f = [i \in 0 .. k + 1 |-> IF i = 0 THEN << <<>> >> ELSE Split(f[i - 1], s[i])]
      BY <2>2
  <2>4. IsSplitting(f, s, k + 1)
      BY <2>3 DEF IsSplitting
  <2>. QED BY <2>4
<1>3. Nat \subseteq T
  <2> HIDE DEF T
  <2>. QED BY <1>1, <1>2, Reaches
<1>. QED BY <1>3

LEMMA SplittingsAgree ==
    ASSUME NEW a, NEW b, NEW f, NEW g, NEW m \in Nat, NEW n \in Nat, m <= n,
           IsSplitting(f, a, m), IsSplitting(g, b, n),
           \A i \in 1 .. m : a[i] = b[i]
    PROVE  \A i \in 0 .. m : f[i] = g[i]
<1> DEFINE T == {k \in Nat : k \in 0 .. m => f[k] = g[k]}
<1>1. /\ \A i \in 0 .. m : f[i] = IF i = 0 THEN << <<>> >> ELSE Split(f[i - 1], a[i])
      /\ \A i \in 0 .. n : g[i] = IF i = 0 THEN << <<>> >> ELSE Split(g[i - 1], b[i])
    BY DEF IsSplitting
<1>2. 0 \in T
    BY <1>1
<1>3. ASSUME NEW k \in Nat, k \in T PROVE k + 1 \in T
  <2>1. SUFFICES ASSUME k + 1 \in 0 .. m PROVE f[k + 1] = g[k + 1]
      OBVIOUS
  <2>2. /\ k + 1 \in 0 .. n /\ k + 1 \in 1 .. m /\ (k + 1) - 1 = k /\ k + 1 # 0
        /\ k \in 0 .. m
      BY <2>1
  <2>3. f[k + 1] = Split(f[k], a[k + 1]) /\ g[k + 1] = Split(g[k], b[k + 1])
      BY <1>1, <2>1, <2>2
  <2>. QED BY <1>3, <2>2, <2>3
<1>4. Nat \subseteq T
  <2> HIDE DEF T
  <2>. QED BY <1>2, <1>3, Reaches
<1>. QED BY <1>4

LEMMA SplitDefined ==
    ASSUME NEW s, Len(s) \in Nat
    PROVE  \E f : IsSplitting(f, s, Len(s)) /\ SplitAtCommas(s) = f[Len(s)]
<1> DEFINE f == CHOOSE g : IsSplitting(g, s, Len(s))
<1>1. IsSplitting(f, s, Len(s))
    BY SplittingExists
<1>2. SplitAtCommas(s) = f[Len(s)]
    BY DEF SplitAtCommas, IsSplitting, Split
<1> HIDE DEF f
<1>. QED BY <1>1, <1>2

LEMMA SplitEmpty == SplitAtCommas(<<>>) = << <<>> >>
<1>1. Len(<<>>) = 0
    OBVIOUS
<1>2. PICK f : IsSplitting(f, <<>>, 0) /\ SplitAtCommas(<<>>) = f[0]
    BY <1>1, SplitDefined
<1>. QED BY <1>2 DEF IsSplitting

LEMMA SplitAppend ==
    ASSUME NEW S, NEW s \in Seq(S), NEW t \in S
    PROVE  SplitAtCommas(Append(s, t)) = Split(SplitAtCommas(s), t)
<1> DEFINE more == Append(s, t)
           n == Len(s)
           k == n + 1
<1>1. /\ Len(more) = k /\ n \in Nat /\ \A i \in 1 .. n : s[i] = more[i] /\ more[k] = t
    BY AppendProperties, LenProperties
<1>2. PICK f : IsSplitting(f, s, n) /\ SplitAtCommas(s) = f[n]
    BY <1>1, SplitDefined
<1>3. n <= k /\ k \in Nat /\ n \in 0 .. n /\ k \in 0 .. k /\ k # 0 /\ k - 1 = n
    BY <1>1
<1> HIDE DEF more, k
<1>4. PICK g : IsSplitting(g, more, k) /\ SplitAtCommas(more) = g[k]
    BY <1>1, <1>3, SplitDefined
<1>5. g[k] = Split(g[n], t)
  <2>1. \A i \in 0 .. k : g[i] = IF i = 0 THEN << <<>> >> ELSE Split(g[i - 1], more[i])
      BY <1>4 DEF IsSplitting
  <2>2. more[k] = t
    <3>1. k = Len(s) + 1
        BY DEF k
    <3>. QED BY <3>1, AppendProperties DEF more
  <2>. QED BY <1>3, <2>1, <2>2
<1>6. f[n] = g[n]
  <2> HIDE DEF n
  <2>1. \A i \in 0 .. n : f[i] = g[i]
      BY <1>1, <1>2, <1>3, <1>4, SplittingsAgree
  <2>. QED BY <1>3, <2>1
<1>. QED BY <1>2, <1>4, <1>5, <1>6 DEF more


LEMMA ReadingExists ==
    ASSUME NEW s, NEW n \in Nat
    PROVE  \E f : IsReading(f, s, n)
<1> DEFINE T == {k \in Nat : \E f : IsReading(f, s, k)}
<1>1. 0 \in T
  <2> DEFINE f == [i \in 0 .. 0 |-> NothingRead]
  <2>1. \A i \in 0 .. 0 : i = 0
      OBVIOUS
  <2>2. f = [i \in 0 .. 0 |-> IF i = 0 THEN NothingRead ELSE ReadDecl(f[i - 1], s[i])]
      BY <2>1
  <2>3. IsReading(f, s, 0)
      BY <2>2 DEF IsReading
  <2>. QED BY <2>3
<1>2. ASSUME NEW k \in Nat, k \in T PROVE k + 1 \in T
  <2>1. PICK g : IsReading(g, s, k)
      BY <1>2
  <2> DEFINE f == [i \in 0 .. k + 1 |-> IF i <= k THEN g[i] ELSE ReadDecl(g[i - 1], s[i])]
  <2>2. ASSUME NEW i \in 0 .. k + 1
        PROVE  f[i] = IF i = 0 THEN NothingRead ELSE ReadDecl(f[i - 1], s[i])
    <3>1. CASE i <= k
      <4>1. i \in 0 .. k
          BY <3>1
      <4>2. f[i] = g[i] /\ (i # 0 => f[i - 1] = g[i - 1])
          BY <3>1
      <4>3. g[i] = IF i = 0 THEN NothingRead ELSE ReadDecl(g[i - 1], s[i])
          BY <2>1, <4>1 DEF IsReading
      <4>. QED BY <4>2, <4>3
    <3>2. CASE i = k + 1
      <4>1. f[i] = ReadDecl(g[i - 1], s[i]) /\ f[i - 1] = g[i - 1] /\ i # 0
          BY <3>2
      <4>. QED BY <4>1
    <3>. QED BY <3>1, <3>2
  <2>3. f = [i \in 0 .. k + 1 |-> IF i = 0 THEN NothingRead ELSE ReadDecl(f[i - 1], s[i])]
      BY <2>2
  <2>4. IsReading(f, s, k + 1)
      BY <2>3 DEF IsReading
  <2>. QED BY <2>4
<1>3. Nat \subseteq T
  <2> HIDE DEF T
  <2>. QED BY <1>1, <1>2, Reaches
<1>. QED BY <1>3

LEMMA ReadingsAgree ==
    ASSUME NEW a, NEW b, NEW f, NEW g, NEW m \in Nat, NEW n \in Nat, m <= n,
           IsReading(f, a, m), IsReading(g, b, n),
           \A i \in 1 .. m : a[i] = b[i]
    PROVE  \A i \in 0 .. m : f[i] = g[i]
<1> DEFINE T == {k \in Nat : k \in 0 .. m => f[k] = g[k]}
<1>1. /\ \A i \in 0 .. m : f[i] = IF i = 0 THEN NothingRead ELSE ReadDecl(f[i - 1], a[i])
      /\ \A i \in 0 .. n : g[i] = IF i = 0 THEN NothingRead ELSE ReadDecl(g[i - 1], b[i])
    BY DEF IsReading
<1>2. 0 \in T
    BY <1>1
<1>3. ASSUME NEW k \in Nat, k \in T PROVE k + 1 \in T
  <2>1. SUFFICES ASSUME k + 1 \in 0 .. m PROVE f[k + 1] = g[k + 1]
      OBVIOUS
  <2>2. /\ k + 1 \in 0 .. n /\ k + 1 \in 1 .. m /\ (k + 1) - 1 = k /\ k + 1 # 0
        /\ k \in 0 .. m
      BY <2>1
  <2>3. f[k + 1] = ReadDecl(f[k], a[k + 1]) /\ g[k + 1] = ReadDecl(g[k], b[k + 1])
      BY <1>1, <2>1, <2>2
  <2>. QED BY <1>3, <2>2, <2>3
<1>4. Nat \subseteq T
  <2> HIDE DEF T
  <2>. QED BY <1>2, <1>3, Reaches
<1>. QED BY <1>4

LEMMA ReadDefined ==
    ASSUME NEW s, Len(s) \in Nat
    PROVE  \E f : IsReading(f, s, Len(s)) /\ ReadTopo(s) = f[Len(s)]
<1> DEFINE f == CHOOSE g : IsReading(g, s, Len(s))
<1>1. IsReading(f, s, Len(s))
    BY ReadingExists
<1>2. ReadTopo(s) = f[Len(s)]
    BY DEF ReadTopo, IsReading, NothingRead
<1> HIDE DEF f
<1>. QED BY <1>1, <1>2

LEMMA ReadEmpty == ReadTopo(<<>>) = NothingRead
<1>1. Len(<<>>) = 0
    OBVIOUS
<1>2. PICK f : IsReading(f, <<>>, 0) /\ ReadTopo(<<>>) = f[0]
    BY <1>1, ReadDefined
<1>. QED BY <1>2 DEF IsReading

LEMMA ReadAppend ==
    ASSUME NEW S, NEW s \in Seq(S), NEW t \in S
    PROVE  ReadTopo(Append(s, t)) = ReadDecl(ReadTopo(s), t)
<1> DEFINE more == Append(s, t)
           n == Len(s)
           k == n + 1
<1>1. /\ Len(more) = k /\ n \in Nat /\ \A i \in 1 .. n : s[i] = more[i] /\ more[k] = t
    BY AppendProperties, LenProperties
<1>2. PICK f : IsReading(f, s, n) /\ ReadTopo(s) = f[n]
    BY <1>1, ReadDefined
<1>3. n <= k /\ k \in Nat /\ n \in 0 .. n /\ k \in 0 .. k /\ k # 0 /\ k - 1 = n
    BY <1>1
<1> HIDE DEF more, k
<1>4. PICK g : IsReading(g, more, k) /\ ReadTopo(more) = g[k]
    BY <1>1, <1>3, ReadDefined
<1>5. g[k] = ReadDecl(g[n], t)
  <2>1. \A i \in 0 .. k :
          g[i] = IF i = 0 THEN NothingRead ELSE ReadDecl(g[i - 1], more[i])
      BY <1>4 DEF IsReading
  <2>2. more[k] = t
    <3>1. k = Len(s) + 1
        BY DEF k
    <3>. QED BY <3>1, AppendProperties DEF more
  <2>. QED BY <1>3, <2>1, <2>2
<1>6. f[n] = g[n]
  <2> HIDE DEF n
  <2>1. \A i \in 0 .. n : f[i] = g[i]
      BY <1>1, <1>2, <1>3, <1>4, ReadingsAgree
  <2>. QED BY <1>3, <2>1
<1>. QED BY <1>2, <1>4, <1>5, <1>6 DEF more


-----------------------------------------------------------------------------
(* Texts and their parts.                                                  *)

(* The provers tell literals apart; the rest of a text is opaque to them.  *)
Comma == ","
Colon == ":"
Open == "record<"
Close == ">"

Token == STRING \cup {Comma, Colon, Open, Close}
Texts == Seq(Token)
Parts == Seq(Texts)

LEMMA Tokens ==
    /\ STRING \subseteq Token
    /\ Comma \in Token /\ Colon \in Token /\ Open \in Token /\ Close \in Token
    /\ Comma # Colon /\ Comma # Open /\ Comma # Close /\ Colon # Open
<1>1. Comma # Colon
    BY DEF Comma, Colon
<1>2. Comma # Open
    BY DEF Comma, Open
<1>3. Comma # Close
    BY DEF Comma, Close
<1>4. Colon # Open
    BY DEF Colon, Open
<1>. QED BY <1>1, <1>2, <1>3, <1>4 DEF Token

(* The library's facts about sequences, for texts and for their parts.     *)
LEMMA TextEmpty ==
    /\ <<>> \in Texts
    /\ \A u \in Texts : u \o <<>> = u /\ <<>> \o u = u
BY EmptySeq, ConcatEmptySeq DEF Texts

LEMMA TextOne ==
    ASSUME NEW t \in Token
    PROVE  <<t>> \in Texts /\ Append(<<>>, t) = <<t>>
BY DEF Texts

LEMMA TextAppend ==
    ASSUME NEW u \in Texts, NEW t \in Token
    PROVE  /\ Append(u, t) \in Texts
           /\ Append(u, t) = u \o <<t>>
           /\ Len(u) \in Nat /\ Len(Append(u, t)) = Len(u) + 1
           /\ \A i \in 1 .. Len(u) : Append(u, t)[i] = u[i]
           /\ Append(u, t)[Len(u) + 1] = t
<1>1. u \in Seq(Token)
    BY DEF Texts
<1>2. Append(u, t) \in Texts
    BY <1>1, AppendProperties DEF Texts
<1>3. Append(u, t) = u \o <<t>>
    BY <1>1, AppendIsConcat
<1>4. /\ Len(u) \in Nat /\ Len(Append(u, t)) = Len(u) + 1
      /\ Append(u, t)[Len(u) + 1] = t
    BY <1>1, AppendProperties, LenProperties
<1>5. \A i \in 1 .. Len(u) : Append(u, t)[i] = u[i]
    BY <1>1, AppendProperties, LenProperties
<1>. QED BY <1>2, <1>3, <1>4, <1>5

LEMMA TextConcat ==
    ASSUME NEW u \in Texts, NEW v \in Texts
    PROVE  /\ u \o v \in Texts
           /\ Len(u) \in Nat /\ Len(v) \in Nat /\ Len(u \o v) = Len(u) + Len(v)
           /\ \A i \in 1 .. Len(u) + Len(v) :
                (u \o v)[i] = IF i <= Len(u) THEN u[i] ELSE v[i - Len(u)]
<1>1. u \in Seq(Token) /\ v \in Seq(Token)
    BY DEF Texts
<1>2. u \o v \in Texts
    BY <1>1, ConcatProperties DEF Texts
<1>3. Len(u) \in Nat /\ Len(v) \in Nat /\ Len(u \o v) = Len(u) + Len(v)
    BY <1>1, ConcatProperties, LenProperties
<1>4. \A i \in 1 .. Len(u) + Len(v) :
        (u \o v)[i] = IF i <= Len(u) THEN u[i] ELSE v[i - Len(u)]
    BY <1>1, ConcatProperties
<1>. QED BY <1>2, <1>3, <1>4

LEMMA TextGrows ==
    ASSUME NEW u \in Texts, NEW v \in Texts, NEW t \in Token
    PROVE  u \o Append(v, t) = Append(u \o v, t)
BY AppendToConcat DEF Texts

LEMMA TextAssociative ==
    ASSUME NEW u \in Texts, NEW v \in Texts, NEW w \in Texts
    PROVE  (u \o v) \o w = u \o (v \o w)
BY ConcatAssociative DEF Texts

LEMMA TextReaches ==
    ASSUME NEW T, <<>> \in T,
           \A u \in Texts, t \in Token : u \in T => Append(u, t) \in T
    PROVE  Texts \subseteq T
BY AppendReaches DEF Texts

LEMMA TextEqual ==
    ASSUME NEW u \in Texts, NEW v \in Texts, Len(u) = Len(v),
           \A i \in 1 .. Len(u) : u[i] = v[i]
    PROVE  u = v
BY SeqEqual DEF Texts

LEMMA PartsEmpty ==
    /\ <<>> \in Parts
    /\ \A P \in Parts : P \o <<>> = P /\ <<>> \o P = P
BY EmptySeq, ConcatEmptySeq DEF Parts

LEMMA PartsOne ==
    ASSUME NEW q \in Texts
    PROVE  <<q>> \in Parts /\ Append(<<>>, q) = <<q>> /\ <<q>> # <<>>
BY DEF Parts

LEMMA PartsAppend ==
    ASSUME NEW P \in Parts, NEW q \in Texts
    PROVE  /\ Append(P, q) \in Parts /\ Append(P, q) # <<>>
           /\ Append(P, q) = P \o <<q>>
BY AppendProperties, AppendIsConcat DEF Parts

LEMMA LastOfParts ==
    ASSUME NEW P \in Parts, P # <<>>
    PROVE  \E F \in Parts, q \in Texts : P = Append(F, q)
<1>1. P = Append(Front(P), Last(P)) /\ Front(P) \in Seq(Texts) /\ Last(P) \in Texts
  <2>1. P \in Seq(Texts) /\ Len(P) \in Nat /\ Len(P) # 0
      BY LenProperties, EmptySeq DEF Parts
  <2>. QED BY <2>1 DEF Front, Last
<1>. QED BY <1>1 DEF Parts

LEMMA PartsConcat ==
    ASSUME NEW P \in Parts, NEW Q \in Parts
    PROVE  P \o Q \in Parts
BY ConcatProperties DEF Parts

LEMMA PartsGrow ==
    ASSUME NEW P \in Parts, NEW Q \in Parts, NEW q \in Texts
    PROVE  P \o Append(Q, q) = Append(P \o Q, q)
BY AppendToConcat DEF Parts

-----------------------------------------------------------------------------
(* What a text is split into.                                              *)

CommaFree == {s \in Texts : \A i \in 1 .. Len(s) : s[i] # Comma}

LEMMA SplitText ==
    ASSUME NEW u \in Texts, NEW t \in Token
    PROVE  SplitAtCommas(Append(u, t)) = Split(SplitAtCommas(u), t)
BY SplitAppend DEF Texts

LEMMA SplitStep ==
    ASSUME NEW F \in Parts, NEW q \in Texts, NEW t \in Token
    PROVE  Split(Append(F, q), t) = IF t = Comma THEN Append(Append(F, q), <<>>)
                                                 ELSE Append(F, Append(q, t))
<1>1. Front(Append(F, q)) = F /\ Last(Append(F, q)) = q
    BY FrontLastOfAppend DEF Parts
<1>. QED BY <1>1 DEF Split, Comma

LEMMA SplitSingle ==
    ASSUME NEW q \in Texts, NEW t \in Token
    PROVE  /\ t = Comma => Split(<<q>>, t) = <<q>> \o << <<>> >>
           /\ t # Comma => Split(<<q>>, t) = <<Append(q, t)>>
<1>1. Split(<<q>>, t) = Split(Append(<<>>, q), t)
    BY PartsOne
<1>2. t = Comma => Split(<<q>>, t) = Append(Append(<<>>, q), <<>>)
    BY <1>1, PartsEmpty, SplitStep
<1>3. Append(Append(<<>>, q), <<>>) = <<q>> \o << <<>> >>
  <2>1. Append(<<>>, q) = <<q>> /\ <<q>> \in Parts
      BY PartsOne
  <2>. QED BY <2>1, PartsAppend, TextEmpty
<1>4. t # Comma => Split(<<q>>, t) = Append(<<>>, Append(q, t))
    BY <1>1, PartsEmpty, SplitStep
<1>5. Append(<<>>, Append(q, t)) = <<Append(q, t)>>
    BY TextAppend, PartsOne
<1>. QED BY <1>2, <1>3, <1>4, <1>5

(* Only the last part changes.                                             *)
LEMMA SplitBehind ==
    ASSUME NEW A \in Parts, NEW R \in Parts, R # <<>>, NEW t \in Token
    PROVE  Split(A \o R, t) = A \o Split(R, t) /\ Split(R, t) \in Parts
<1>1. PICK F \in Parts, r \in Texts : R = Append(F, r)
    BY LastOfParts
<1>2. A \o R = Append(A \o F, r) /\ A \o F \in Parts
    BY <1>1, PartsGrow, PartsConcat
<1>3. Append(r, t) \in Texts /\ <<>> \in Texts
    BY TextAppend, TextEmpty
<1>4. CASE t = Comma
  <2>1. Split(R, t) = Append(R, <<>>)
      BY <1>1, <1>4, SplitStep
  <2>2. Split(A \o R, t) = Split(Append(A \o F, r), t)
      BY <1>2
  <2>3. Split(Append(A \o F, r), t) = Append(Append(A \o F, r), <<>>)
      BY <1>2, <1>4, SplitStep
  <2>4. Append(A \o R, <<>>) = A \o Append(R, <<>>)
      BY <1>3, PartsGrow
  <2>5. Append(R, <<>>) \in Parts
      BY <1>3, PartsAppend
  <2>. QED BY <1>2, <2>1, <2>2, <2>3, <2>4, <2>5
<1>5. CASE t # Comma
  <2>1. Split(R, t) = Append(F, Append(r, t))
      BY <1>1, <1>5, SplitStep
  <2>2. Split(A \o R, t) = Split(Append(A \o F, r), t)
      BY <1>2
  <2>3. Split(Append(A \o F, r), t) = Append(A \o F, Append(r, t))
      BY <1>2, <1>5, SplitStep
  <2>4. Append(A \o F, Append(r, t)) = A \o Append(F, Append(r, t))
      BY <1>3, PartsGrow
  <2>5. Append(F, Append(r, t)) \in Parts
      BY <1>3, PartsAppend
  <2>. QED BY <2>1, <2>2, <2>3, <2>4, <2>5
<1>. QED BY <1>4, <1>5

LEMMA SplitHasParts ==
    ASSUME NEW s \in Texts
    PROVE  \E F \in Parts, q \in Texts : SplitAtCommas(s) = Append(F, q)
<1> DEFINE Z == {u \in Texts : \E F \in Parts, q \in Texts :
                                  SplitAtCommas(u) = Append(F, q)}
<1>1. <<>> \in Z
    BY TextEmpty, PartsEmpty, PartsOne, SplitEmpty
<1>2. ASSUME NEW u \in Texts, NEW t \in Token, u \in Z PROVE Append(u, t) \in Z
  <2>1. PICK F \in Parts, q \in Texts : SplitAtCommas(u) = Append(F, q)
      BY <1>2
  <2>2. Append(u, t) \in Texts /\ Append(q, t) \in Texts /\ Append(F, q) \in Parts
      BY TextAppend, PartsAppend
  <2>3. SplitAtCommas(Append(u, t)) = Split(Append(F, q), t)
      BY <2>1, SplitText
  <2>4. \/ SplitAtCommas(Append(u, t)) = Append(Append(F, q), <<>>)
        \/ SplitAtCommas(Append(u, t)) = Append(F, Append(q, t))
      BY <2>3, SplitStep
  <2>. QED BY TextEmpty, <2>2, <2>4
<1>3. Texts \subseteq Z
  <2> HIDE DEF Z
  <2>. QED BY <1>1, <1>2, TextReaches
<1>. QED BY <1>3

LEMMA SplitType ==
    ASSUME NEW s \in Texts
    PROVE  SplitAtCommas(s) \in Parts /\ SplitAtCommas(s) # <<>>
BY SplitHasParts, PartsAppend

(* A text without a comma is its only part.                                *)
LEMMA SplitOne ==
    ASSUME NEW s \in CommaFree
    PROVE  SplitAtCommas(s) = <<s>>
<1> DEFINE Z == {u \in Texts : u \in CommaFree => SplitAtCommas(u) = <<u>>}
<1>1. <<>> \in Z
    BY SplitEmpty, TextEmpty
<1>2. ASSUME NEW u \in Texts, NEW t \in Token, u \in Z PROVE Append(u, t) \in Z
  <2>1. /\ Append(u, t) \in Texts /\ Len(Append(u, t)) = Len(u) + 1 /\ Len(u) \in Nat
        /\ \A i \in 1 .. Len(u) : Append(u, t)[i] = u[i]
        /\ Append(u, t)[Len(u) + 1] = t
      BY TextAppend
  <2>2. SUFFICES ASSUME Append(u, t) \in CommaFree
                 PROVE  SplitAtCommas(Append(u, t)) = <<Append(u, t)>>
      BY <2>1
  <2>3. t # Comma /\ u \in CommaFree
    <3>1. \A i \in 1 .. Len(u) + 1 : Append(u, t)[i] # Comma
        BY <2>1, <2>2 DEF CommaFree
    <3>2. Len(u) + 1 \in 1 .. Len(u) + 1 /\ \A i \in 1 .. Len(u) : i \in 1 .. Len(u) + 1
        BY <2>1
    <3>. QED BY <2>1, <3>1, <3>2 DEF CommaFree
  <2>4. SplitAtCommas(u) = Append(<<>>, u)
      BY <1>2, <2>3, PartsOne
  <2>5. SplitAtCommas(Append(u, t)) = Split(Append(<<>>, u), t)
      BY <2>4, SplitText
  <2>6. SplitAtCommas(Append(u, t)) = Append(<<>>, Append(u, t))
      BY <2>3, <2>5, PartsEmpty, SplitStep
  <2>. QED BY <2>1, <2>6, PartsOne
<1>3. Texts \subseteq Z
  <2> HIDE DEF Z
  <2>. QED BY <1>1, <1>2, TextReaches
<1>. QED BY <1>3 DEF CommaFree

(* A comma between two texts separates their parts.                        *)
LEMMA SplitTwo ==
    ASSUME NEW a \in Texts, NEW b \in Texts
    PROVE  SplitAtCommas(a \o (<<Comma>> \o b)) = SplitAtCommas(a) \o SplitAtCommas(b)
<1> DEFINE A == SplitAtCommas(a)
           Z == {u \in Texts : SplitAtCommas(a \o (<<Comma>> \o u)) = A \o SplitAtCommas(u)}
<1>1. A \in Parts
    BY SplitType
<1> HIDE DEF A
<1>2. <<>> \in Texts /\ <<Comma>> \in Texts
    BY Tokens, TextEmpty, TextOne
<1>3. <<>> \in Z
  <2>1. <<Comma>> \o <<>> = <<Comma>>
      BY <1>2, TextEmpty
  <2>2. a \o <<Comma>> = Append(a, Comma)
      BY Tokens, TextAppend
  <2>3. PICK F \in Parts, q \in Texts : A = Append(F, q)
      BY SplitHasParts DEF A
  <2>4. SplitAtCommas(Append(a, Comma)) = Split(Append(F, q), Comma)
      BY <2>3, Tokens, SplitText DEF A
  <2>5. Split(Append(F, q), Comma) = Append(A, <<>>)
      BY <2>3, Tokens, SplitStep
  <2>6. Append(A, <<>>) = A \o << <<>> >>
      BY <1>1, <1>2, PartsAppend
  <2>. QED BY <1>2, <2>1, <2>2, <2>4, <2>5, <2>6, SplitEmpty
<1>4. ASSUME NEW u \in Texts, NEW t \in Token, u \in Z PROVE Append(u, t) \in Z
  <2> DEFINE v == <<Comma>> \o u
             w == a \o v
  <2>1. w \in Texts /\ v \in Texts /\ Append(u, t) \in Texts
      BY <1>2, TextConcat, TextAppend
  <2>2. a \o (<<Comma>> \o Append(u, t)) = Append(w, t)
    <3>1. <<Comma>> \o Append(u, t) = Append(v, t)
        BY <1>2, TextGrows
    <3>. QED BY <2>1, <3>1, TextGrows
  <2>3. SplitAtCommas(u) \in Parts /\ SplitAtCommas(u) # <<>>
      BY SplitType
  <2> HIDE DEF v, w
  <2>4. SplitAtCommas(Append(w, t)) = Split(SplitAtCommas(w), t)
      BY <2>1, SplitText
  <2>5. SplitAtCommas(w) = A \o SplitAtCommas(u)
      BY <1>4 DEF w, v
  <2>6. Split(A \o SplitAtCommas(u), t) = A \o Split(SplitAtCommas(u), t)
      BY <1>1, <2>3, SplitBehind
  <2>7. SplitAtCommas(Append(u, t)) = Split(SplitAtCommas(u), t)
      BY SplitText
  <2>. QED BY <2>1, <2>2, <2>4, <2>5, <2>6, <2>7
<1>5. Texts \subseteq Z
  <2> HIDE DEF Z
  <2>. QED BY <1>3, <1>4, TextReaches
<1>. QED BY <1>5 DEF A

(* What stands before a text without a comma goes to its first part.       *)
LEMMA SplitPrefix ==
    ASSUME NEW x \in CommaFree, NEW s \in Texts
    PROVE  \E q \in Texts, R \in Parts :
             /\ SplitAtCommas(s) = <<q>> \o R
             /\ SplitAtCommas(x \o s) = <<x \o q>> \o R
<1> DEFINE Z == {u \in Texts : \E q \in Texts, R \in Parts :
                   /\ SplitAtCommas(u) = <<q>> \o R
                   /\ SplitAtCommas(x \o u) = <<x \o q>> \o R}
<1>1. x \in Texts /\ SplitAtCommas(x) = <<x>>
    BY SplitOne DEF CommaFree
<1>2. <<>> \in Z
  <2>1. /\ <<>> \in Texts /\ <<>> \in Parts /\ x \o <<>> = x
        /\ << <<>> >> \in Parts /\ <<x>> \in Parts
      BY <1>1, TextEmpty, PartsEmpty, PartsOne
  <2>2. << <<>> >> \o <<>> = << <<>> >> /\ <<x>> \o <<>> = <<x>>
      BY <2>1, PartsEmpty
  <2>. QED BY <1>1, <2>1, <2>2, SplitEmpty
<1>3. ASSUME NEW u \in Texts, NEW t \in Token, u \in Z PROVE Append(u, t) \in Z
  <2>1. PICK q \in Texts, R \in Parts :
               /\ SplitAtCommas(u) = <<q>> \o R
               /\ SplitAtCommas(x \o u) = <<x \o q>> \o R
      BY <1>3
  <2>2. /\ Append(u, t) \in Texts /\ x \o u \in Texts /\ x \o q \in Texts
        /\ x \o Append(u, t) = Append(x \o u, t)
        /\ <<q>> \in Parts /\ <<x \o q>> \in Parts
      BY <1>1, TextAppend, TextConcat, TextGrows, PartsOne
  <2>3. /\ SplitAtCommas(Append(u, t)) = Split(<<q>> \o R, t)
        /\ SplitAtCommas(x \o Append(u, t)) = Split(<<x \o q>> \o R, t)
      BY <2>1, <2>2, SplitText
  <2>4. CASE R = <<>>
    <3>1. /\ SplitAtCommas(Append(u, t)) = Split(<<q>>, t)
          /\ SplitAtCommas(x \o Append(u, t)) = Split(<<x \o q>>, t)
        BY <2>2, <2>3, <2>4, PartsEmpty
    <3>2. CASE t = Comma
      <4>1. Split(<<q>>, t) = <<q>> \o << <<>> >>
          BY <3>2, SplitSingle
      <4>2. Split(<<x \o q>>, t) = <<x \o q>> \o << <<>> >>
          BY <2>2, <3>2, SplitSingle
      <4>3. << <<>> >> \in Parts
          BY TextEmpty, PartsOne
      <4>. QED BY <2>2, <3>1, <4>1, <4>2, <4>3
    <3>3. CASE t # Comma
      <4>1. Split(<<q>>, t) = <<Append(q, t)>>
          BY <3>3, SplitSingle
      <4>2. Split(<<x \o q>>, t) = <<Append(x \o q, t)>>
          BY <2>2, <3>3, SplitSingle
      <4>3. /\ Append(q, t) \in Texts /\ Append(x \o q, t) = x \o Append(q, t)
            /\ x \o Append(q, t) \in Texts
          BY <1>1, TextAppend, TextGrows, TextConcat
      <4>4. <<Append(q, t)>> \in Parts /\ <<x \o Append(q, t)>> \in Parts
          BY <4>3, PartsOne
      <4>5. /\ SplitAtCommas(Append(u, t)) = <<Append(q, t)>> \o <<>>
            /\ SplitAtCommas(x \o Append(u, t)) = <<x \o Append(q, t)>> \o <<>>
          BY <3>1, <4>1, <4>2, <4>3, <4>4, PartsEmpty
      <4>. QED BY <2>2, <4>3, <4>5, PartsEmpty
    <3>. QED BY <3>2, <3>3
  <2>5. CASE R # <<>>
    <3>1. Split(<<q>> \o R, t) = <<q>> \o Split(R, t) /\ Split(R, t) \in Parts
        BY <2>2, <2>5, SplitBehind
    <3>2. Split(<<x \o q>> \o R, t) = <<x \o q>> \o Split(R, t)
        BY <2>2, <2>5, SplitBehind
    <3>. QED BY <2>2, <2>3, <3>1, <3>2
  <2>. QED BY <2>4, <2>5
<1>4. Texts \subseteq Z
  <2> HIDE DEF Z
  <2>. QED BY <1>2, <1>3, TextReaches
<1>. QED BY <1>4

-----------------------------------------------------------------------------
(* Joining parts with commas, and splitting what was joined.               *)

Separated(P) ==
    [i \in 1 .. Len(P) |-> (IF i = 1 THEN <<>> ELSE <<Comma>>) \o P[i]]

LEMMA JoinedIs == ASSUME NEW P PROVE Joined(P) = FlattenSeq(Separated(P))
BY DEF Joined, Separated, Comma

LEMMA PartsElement ==
    ASSUME NEW P \in Parts
    PROVE  Len(P) \in Nat /\ \A i \in 1 .. Len(P) : P[i] \in Texts
BY LenProperties, ElementOfSeq DEF Parts

LEMMA PartsLonger ==
    ASSUME NEW P \in Parts, NEW q \in Texts
    PROVE  /\ Len(Append(P, q)) = Len(P) + 1
           /\ \A i \in 1 .. Len(P) : Append(P, q)[i] = P[i]
           /\ Append(P, q)[Len(P) + 1] = q
BY AppendProperties, LenProperties DEF Parts

LEMMA PartsEqual ==
    ASSUME NEW P \in Parts, NEW Q \in Parts, Len(P) = Len(Q),
           \A i \in 1 .. Len(P) : P[i] = Q[i]
    PROVE  P = Q
BY SeqEqual DEF Parts

LEMMA FlattenParts ==
    ASSUME NEW P \in Parts, NEW q \in Texts
    PROVE  /\ FlattenSeq(P) \in Texts
           /\ FlattenSeq(Append(P, q)) = FlattenSeq(P) \o q
BY FlattenSeqType, FlattenAppend DEF Parts, Texts

LEMMA SeparatedType ==
    ASSUME NEW P \in Parts
    PROVE  Separated(P) \in Parts /\ Len(Separated(P)) = Len(P)
<1>1. \A i \in 1 .. Len(P) : <<>> \o P[i] \in Texts /\ <<Comma>> \o P[i] \in Texts
    BY PartsElement, TextEmpty, TextConcat, TextOne, Tokens
<1>2. Len(P) \in Nat
    BY PartsElement
<1>3. \A i \in 1 .. Len(P) : (IF i = 1 THEN <<>> ELSE <<Comma>>) \o P[i] \in Texts
    BY <1>1
<1>4. Separated(P) \in [1 .. Len(P) -> Texts]
    BY <1>3 DEF Separated
<1>5. \A f \in [1 .. Len(P) -> Texts] : f \in Seq(Texts) /\ Len(f) = Len(P)
    BY <1>2
<1>. QED BY <1>4, <1>5 DEF Parts

LEMMA SeparatedAppend ==
    ASSUME NEW P \in Parts, NEW q \in Texts
    PROVE  Separated(Append(P, q))
             = Append(Separated(P), (IF P = <<>> THEN <<>> ELSE <<Comma>>) \o q)
<1> DEFINE Q == Append(P, q)
           s == (IF P = <<>> THEN <<>> ELSE <<Comma>>) \o q
           n == Len(P)
<1>1. s \in Texts
    BY TextEmpty, TextConcat, TextOne, Tokens
<1>2. /\ Q \in Parts /\ Len(Q) = n + 1 /\ n \in Nat /\ Q[n + 1] = q
      /\ \A i \in 1 .. n : Q[i] = P[i]
    BY PartsAppend, PartsLonger, PartsElement
<1>3. Separated(P) \in Parts /\ Len(Separated(P)) = n
    BY SeparatedType
<1>4. Separated(Q) \in Parts /\ Len(Separated(Q)) = n + 1
    BY <1>2, SeparatedType
<1>5. (P = <<>>) <=> (n = 0)
    BY EmptySeq DEF Parts
<1> HIDE DEF Q
<1>6. Separated(Q)[n + 1] = s
  <2>1. Separated(Q)[n + 1] = (IF n + 1 = 1 THEN <<>> ELSE <<Comma>>) \o Q[n + 1]
      BY <1>2 DEF Separated
  <2>2. n + 1 = 1 <=> P = <<>>
      BY <1>2, <1>5
  <2>. QED BY <1>2, <2>1, <2>2
<1> HIDE DEF s, n
<1>7. ASSUME NEW i \in 1 .. n PROVE Separated(Q)[i] = Separated(P)[i]
  <2>1. i \in 1 .. n + 1
      BY <1>2
  <2>. QED BY <1>2, <2>1 DEF Separated, n
<1>8. /\ Append(Separated(P), s) \in Parts
      /\ Len(Append(Separated(P), s)) = n + 1
      /\ \A i \in 1 .. n : Append(Separated(P), s)[i] = Separated(P)[i]
      /\ Append(Separated(P), s)[n + 1] = s
    BY <1>1, <1>3, PartsAppend, PartsLonger
<1>9. \A i \in 1 .. n + 1 : i \in 1 .. n \/ i = n + 1
    BY <1>2
<1>10. \A i \in 1 .. n + 1 : Separated(Q)[i] = Append(Separated(P), s)[i]
    BY <1>6, <1>7, <1>8, <1>9
<1>11. Separated(Q) = Append(Separated(P), s)
    BY <1>4, <1>8, <1>10, PartsEqual
<1>. QED BY <1>11 DEF Q, s

LEMMA JoinedType ==
    ASSUME NEW P \in Parts
    PROVE  Joined(P) \in Texts
<1>1. Separated(P) \in Parts
    BY SeparatedType
<1>. QED BY <1>1, JoinedIs, FlattenParts, TextEmpty

LEMMA JoinedAppend ==
    ASSUME NEW P \in Parts, NEW q \in Texts
    PROVE  Joined(Append(P, q)) = IF P = <<>> THEN q
                                              ELSE Joined(P) \o (<<Comma>> \o q)
<1> DEFINE s == (IF P = <<>> THEN <<>> ELSE <<Comma>>) \o q
<1>1. s \in Texts /\ <<>> \o q = q
    BY TextEmpty, TextConcat, TextOne, Tokens
<1>2. Joined(Append(P, q)) = FlattenSeq(Append(Separated(P), s))
    BY JoinedIs, SeparatedAppend
<1>3. FlattenSeq(Append(Separated(P), s)) = FlattenSeq(Separated(P)) \o s
  <2> HIDE DEF s
  <2>. QED BY <1>1, SeparatedType, FlattenParts
<1>4. Joined(Append(P, q)) = Joined(P) \o s
    BY <1>2, <1>3, JoinedIs
<1>5. P = <<>> => Joined(P) = <<>>
  <2>1. Separated(<<>>) = <<>>
      BY DEF Separated
  <2>. QED BY <2>1, JoinedIs, FlattenEmpty
<1>6. CASE P = <<>>
    BY <1>1, <1>4, <1>5, <1>6
<1>7. CASE P # <<>>
    BY <1>4, <1>7
<1>. QED BY <1>6, <1>7

(* What was split is joined again.                                         *)
LEMMA JoinedSplit ==
    ASSUME NEW s \in Texts
    PROVE  Joined(SplitAtCommas(s)) = s
<1> DEFINE Z == {u \in Texts : Joined(SplitAtCommas(u)) = u}
<1>1. <<>> \in Z
  <2>1. SplitAtCommas(<<>>) = Append(<<>>, <<>>)
      BY SplitEmpty, TextEmpty, PartsOne
  <2>2. Joined(Append(<<>>, <<>>)) = <<>>
      BY TextEmpty, PartsEmpty, JoinedAppend
  <2>. QED BY <2>1, <2>2, TextEmpty
<1>2. ASSUME NEW u \in Texts, NEW t \in Token, u \in Z PROVE Append(u, t) \in Z
  <2>1. PICK F \in Parts, q \in Texts : SplitAtCommas(u) = Append(F, q)
      BY SplitHasParts
  <2>2. u = Joined(Append(F, q)) /\ Append(F, q) \in Parts /\ Append(F, q) # <<>>
      BY <1>2, <2>1, PartsAppend
  <2>3. SplitAtCommas(Append(u, t)) = Split(Append(F, q), t)
      BY <2>1, SplitText
  <2>4. Append(u, t) = u \o <<t>> /\ Append(u, t) \in Texts /\ <<t>> \in Texts
      BY TextAppend, TextOne
  <2>5. CASE t = Comma
    <3>1. SplitAtCommas(Append(u, t)) = Append(Append(F, q), <<>>)
        BY <2>3, <2>5, SplitStep
    <3>2. Joined(Append(Append(F, q), <<>>)) = u \o (<<Comma>> \o <<>>)
      <4>1. Joined(Append(Append(F, q), <<>>))
              = Joined(Append(F, q)) \o (<<Comma>> \o <<>>)
          BY <2>2, TextEmpty, JoinedAppend
      <4>. QED BY <2>2, <4>1
    <3>3. <<Comma>> \o <<>> = <<Comma>>
        BY <2>4, <2>5, TextEmpty
    <3>. QED BY <2>4, <2>5, <3>1, <3>2, <3>3
  <2>6. CASE t # Comma
    <3>1. SplitAtCommas(Append(u, t)) = Append(F, Append(q, t))
        BY <2>3, <2>6, SplitStep
    <3>2. Append(q, t) \in Texts /\ Append(q, t) = q \o <<t>>
        BY TextAppend
    <3>3. CASE F = <<>>
      <4>1. u = q
          BY <2>2, <3>3, JoinedAppend
      <4>2. Joined(Append(F, Append(q, t))) = Append(q, t)
          BY <3>2, <3>3, JoinedAppend
      <4>. QED BY <2>4, <3>1, <4>1, <4>2
    <3>4. CASE F # <<>>
      <4>1. u = Joined(F) \o (<<Comma>> \o q)
          BY <2>2, <3>4, JoinedAppend
      <4>2. Joined(Append(F, Append(q, t))) = Joined(F) \o (<<Comma>> \o Append(q, t))
          BY <3>2, <3>4, JoinedAppend
      <4>3. Joined(F) \in Texts /\ <<Comma>> \in Texts /\ <<Comma>> \o q \in Texts
          BY JoinedType, TextOne, Tokens, TextConcat
      <4>4. <<Comma>> \o Append(q, t) = Append(<<Comma>> \o q, t)
          BY <4>3, TextGrows
      <4>5. Joined(F) \o Append(<<Comma>> \o q, t) = Append(Joined(F) \o (<<Comma>> \o q), t)
          BY <4>3, TextGrows
      <4>. QED BY <2>4, <3>1, <4>1, <4>2, <4>4, <4>5
    <3>. QED BY <3>3, <3>4
  <2>. QED BY <2>5, <2>6
<1>3. Texts \subseteq Z
  <2> HIDE DEF Z
  <2>. QED BY <1>1, <1>2, TextReaches
<1>. QED BY <1>3

(* What was joined is split again, unless it had commas of its own.        *)
LEMMA SplitJoined ==
    ASSUME NEW P \in Seq(CommaFree), P # <<>>
    PROVE  SplitAtCommas(Joined(P)) = P
<1> DEFINE Z == {Q \in Seq(CommaFree) : Q # <<>> => SplitAtCommas(Joined(Q)) = Q}
<1>1. <<>> \in Z
    BY EmptySeq
<1>2. ASSUME NEW Q \in Seq(CommaFree), NEW q \in CommaFree, Q \in Z
      PROVE  Append(Q, q) \in Z
  <2>1. q \in Texts /\ Q \in Parts /\ Append(Q, q) \in Seq(CommaFree)
    <3>1. q \in Texts
        BY DEF CommaFree
    <3>2. Q \in Seq(Texts)
      <4>1. CommaFree \subseteq Texts
          BY DEF CommaFree
      <4>. QED BY <4>1
    <3>3. Append(Q, q) \in Seq(CommaFree)
        BY AppendProperties
    <3>. QED BY <3>1, <3>2, <3>3 DEF Parts
  <2>2. SplitAtCommas(q) = <<q>>
      BY SplitOne
  <2>3. CASE Q = <<>>
    <3>1. Joined(Append(Q, q)) = q
        BY <2>1, <2>3, JoinedAppend
    <3>2. Append(Q, q) = <<q>>
        BY <2>1, <2>3, PartsOne
    <3>. QED BY <2>1, <2>2, <3>1, <3>2
  <2>4. CASE Q # <<>>
    <3>1. Joined(Append(Q, q)) = Joined(Q) \o (<<Comma>> \o q)
        BY <2>1, <2>4, JoinedAppend
    <3>2. SplitAtCommas(Joined(Q) \o (<<Comma>> \o q))
            = SplitAtCommas(Joined(Q)) \o SplitAtCommas(q)
      <4>1. Joined(Q) \in Texts
          BY <2>1, JoinedType
      <4>. QED BY <2>1, <4>1, SplitTwo
    <3>3. Append(Q, q) = Q \o <<q>>
        BY <2>1, PartsAppend
    <3>. QED BY <1>2, <2>1, <2>2, <2>4, <3>1, <3>2, <3>3
  <2>. QED BY <2>3, <2>4
<1>3. Seq(CommaFree) \subseteq Z
  <2> HIDE DEF Z
  <2>. QED BY <1>1, <1>2, AppendReaches
<1>. QED BY <1>3

-----------------------------------------------------------------------------
(* The texts that are read as fields: every part is a name, a colon and a  *)
(* type.                                                                   *)

FieldParts == {p \in Texts : Len(p) >= 2 /\ p[1] # Colon /\ p[2] = Colon}
FieldTexts == {s \in Texts : SplitAtCommas(s) \in Seq(FieldParts)}

LEMMA FieldPart ==
    ASSUME NEW p \in Texts, Len(p) >= 2, p[1] # Colon, p[2] = Colon
    PROVE  p \in FieldParts
BY DEF FieldParts

LEMMA FieldTextOne ==
    ASSUME NEW p \in FieldParts, p \in CommaFree
    PROVE  p \in FieldTexts
<1>1. <<p>> \in Seq(FieldParts)
    OBVIOUS
<1>. QED BY <1>1, SplitOne DEF FieldTexts, FieldParts

LEMMA FieldTextTwo ==
    ASSUME NEW a \in FieldTexts, NEW b \in FieldTexts
    PROVE  a \o (<<Comma>> \o b) \in FieldTexts
<1>1. /\ a \in Texts /\ b \in Texts
      /\ SplitAtCommas(a) \in Seq(FieldParts) /\ SplitAtCommas(b) \in Seq(FieldParts)
    BY DEF FieldTexts
<1>2. a \o (<<Comma>> \o b) \in Texts
    BY <1>1, Tokens, TextOne, TextConcat
<1>3. SplitAtCommas(a) \o SplitAtCommas(b) \in Seq(FieldParts)
    BY <1>1, ConcatProperties
<1>. QED BY <1>1, <1>2, <1>3, SplitTwo DEF FieldTexts

LEMMA FieldTextJoined ==
    ASSUME NEW P \in Seq(FieldTexts), P # <<>>
    PROVE  Joined(P) \in FieldTexts
<1> DEFINE Z == {Q \in Seq(FieldTexts) : Q # <<>> => Joined(Q) \in FieldTexts}
<1>1. <<>> \in Z
    BY EmptySeq
<1>2. ASSUME NEW Q \in Seq(FieldTexts), NEW q \in FieldTexts, Q \in Z
      PROVE  Append(Q, q) \in Z
  <2>1. q \in Texts /\ Q \in Parts
    <3>1. FieldTexts \subseteq Texts
        BY DEF FieldTexts
    <3>2. Q \in Seq(Texts)
        BY <3>1
    <3>. QED BY <3>1, <3>2 DEF Parts
  <2>2. Append(Q, q) \in Seq(FieldTexts)
      BY AppendProperties
  <2>3. Joined(Append(Q, q)) = IF Q = <<>> THEN q ELSE Joined(Q) \o (<<Comma>> \o q)
      BY <2>1, JoinedAppend
  <2>. QED BY <1>2, <2>2, <2>3, FieldTextTwo
<1>3. Seq(FieldTexts) \subseteq Z
  <2> HIDE DEF Z
  <2>. QED BY <1>1, <1>2, AppendReaches
<1>. QED BY <1>3

LEMMA FieldTextPrefix ==
    ASSUME NEW x \in FieldParts, x \in CommaFree, NEW s \in FieldTexts
    PROVE  x \o s \in FieldTexts
<1>1. x \in Texts /\ s \in Texts /\ x \o s \in Texts
    BY TextConcat DEF FieldTexts, FieldParts
<1>2. PICK q \in Texts, R \in Parts :
        /\ SplitAtCommas(s) = <<q>> \o R
        /\ SplitAtCommas(x \o s) = <<x \o q>> \o R
    BY <1>1, SplitPrefix
<1>3. <<q>> \o R \in Seq(FieldParts)
    BY <1>2 DEF FieldTexts
<1>4. R \in Seq(FieldParts)
  <2>1. /\ R \in Seq(Texts) /\ <<q>> \in Seq(Texts) /\ Len(<<q>>) = 1 /\ Len(R) \in Nat
        /\ Len(<<q>> \o R) = 1 + Len(R)
        /\ \A i \in 1 .. 1 + Len(R) :
             (<<q>> \o R)[i] = IF i <= 1 THEN <<q>>[i] ELSE R[i - 1]
    <3>1. R \in Seq(Texts) /\ <<q>> \in Seq(Texts) /\ Len(<<q>>) = 1 /\ Len(R) \in Nat
        BY LenProperties DEF Parts
    <3>. QED BY <3>1, ConcatProperties
  <2>2. ASSUME NEW i \in 1 .. Len(R) PROVE R[i] \in FieldParts
    <3> DEFINE k == i + 1
    <3>1. k \in 1 .. 1 + Len(R) /\ ~(k <= 1) /\ k - 1 = i
        BY <2>1
    <3>2. (<<q>> \o R)[k] = R[i]
        BY <2>1, <3>1
    <3>3. (<<q>> \o R)[k] \in FieldParts
      <4> HIDE DEF k
      <4>. QED BY <1>3, <2>1, <3>1, ElementOfSeq
    <3>. QED BY <3>2, <3>3
  <2>3. R \in [1 .. Len(R) -> FieldParts]
      BY <2>1, <2>2, LenProperties
  <2>. QED BY <2>1, <2>3
<1>5. x \o q \in FieldParts
  <2>1. Len(x) >= 2 /\ x[1] # Colon /\ x[2] = Colon
      BY DEF FieldParts
  <2>2. /\ x \o q \in Texts /\ Len(x) \in Nat /\ Len(q) \in Nat
        /\ Len(x \o q) = Len(x) + Len(q)
        /\ \A i \in 1 .. Len(x) + Len(q) :
             (x \o q)[i] = IF i <= Len(x) THEN x[i] ELSE q[i - Len(x)]
      BY <1>1, TextConcat
  <2>3. (x \o q)[1] = x[1] /\ (x \o q)[2] = x[2] /\ Len(x \o q) >= 2
      BY <2>1, <2>2
  <2>. QED BY <2>1, <2>2, <2>3, FieldPart
<1>6. <<x \o q>> \in Seq(FieldParts)
    BY <1>5
<1>7. <<x \o q>> \o R \in Seq(FieldParts)
    BY <1>4, <1>6, ConcatProperties
<1>. QED BY <1>1, <1>2, <1>7 DEF FieldTexts

LEMMA FieldTextSuffix ==
    ASSUME NEW s \in FieldTexts, NEW t \in Token, t # Comma
    PROVE  Append(s, t) \in FieldTexts
<1>1. s \in Texts /\ Append(s, t) \in Texts /\ SplitAtCommas(s) \in Seq(FieldParts)
    BY TextAppend DEF FieldTexts
<1>2. PICK F \in Parts, q \in Texts : SplitAtCommas(s) = Append(F, q)
    BY <1>1, SplitHasParts
<1>3. SplitAtCommas(Append(s, t)) = Append(F, Append(q, t))
  <2>1. SplitAtCommas(Append(s, t)) = Split(Append(F, q), t)
      BY <1>1, <1>2, SplitText
  <2>2. Split(Append(F, q), t) = Append(F, Append(q, t))
      BY SplitStep
  <2>. QED BY <2>1, <2>2
<1>4. F \in Seq(FieldParts) /\ q \in FieldParts
  <2>1. /\ Len(F) \in Nat /\ Len(Append(F, q)) = Len(F) + 1
        /\ \A i \in 1 .. Len(F) : Append(F, q)[i] = F[i]
        /\ Append(F, q)[Len(F) + 1] = q
      BY PartsLonger, PartsElement
  <2>2. \A i \in 1 .. Len(F) + 1 : Append(F, q)[i] \in FieldParts
      BY <1>1, <1>2, <2>1, ElementOfSeq
  <2>3. \A i \in 1 .. Len(F) : i \in 1 .. Len(F) + 1
      BY <2>1
  <2>4. Len(F) + 1 \in 1 .. Len(F) + 1
      BY <2>1
  <2>5. F \in Seq(Texts)
      BY DEF Parts
  <2>6. F \in [1 .. Len(F) -> FieldParts]
      BY <2>1, <2>2, <2>3, <2>5, LenProperties
  <2>. QED BY <2>1, <2>2, <2>4, <2>6
<1>5. Append(q, t) \in FieldParts
  <2>1. q \in Texts /\ Len(q) >= 2 /\ q[1] # Colon /\ q[2] = Colon
      BY <1>4 DEF FieldParts
  <2>2. /\ Append(q, t) \in Texts /\ Len(Append(q, t)) = Len(q) + 1 /\ Len(q) \in Nat
        /\ \A i \in 1 .. Len(q) : Append(q, t)[i] = q[i]
      BY TextAppend
  <2>3. Append(q, t)[1] = q[1] /\ Append(q, t)[2] = q[2]
      BY <2>1, <2>2
  <2>4. Len(Append(q, t)) >= 2
      BY <2>1, <2>2
  <2>. QED BY <2>1, <2>2, <2>3, <2>4, FieldPart
<1>6. Append(F, Append(q, t)) \in Seq(FieldParts)
    BY <1>4, <1>5, AppendProperties
<1>. QED BY <1>1, <1>3, <1>6 DEF FieldTexts

(* A field is read at its first colon, and spelled as it was.              *)
LEMMA FieldOfPart ==
    ASSUME NEW p \in FieldParts
    PROVE  FieldOf(p) = <<p[1], [scalar |-> SubSeq(p, 3, Len(p)), record |-> <<>>]>>
<1>1. p \in Texts /\ Len(p) \in Nat /\ Len(p) >= 2 /\ p[1] # Colon /\ p[2] = Colon
    BY TextConcat, TextEmpty DEF FieldParts
<1> DEFINE I == {i \in 1 .. Len(p) : p[i] = Colon}
           colon == SelectInSeq(p, LAMBDA t : t = ":")
<1>2. colon = IF I # {} THEN Min(I) ELSE 0
    BY DEF SelectInSeq, Colon, Min
<1>3. 2 \in I /\ I \in SUBSET Nat /\ I # {}
    BY <1>1
<1>4. Min(I) \in I /\ \A y \in I : Min(I) <= y
  <2> HIDE DEF I
  <2>. QED BY <1>3, MinIsLeast
<1>5. Min(I) = 2
    BY <1>1, <1>3, <1>4
<1>6. colon = 2
    BY <1>2, <1>3, <1>5
<1>7. FieldOf(p) = <<p[1], [scalar |-> SubSeq(p, colon + 1, Len(p)), record |-> <<>>]>>
    BY DEF FieldOf
<1> HIDE DEF colon
<1>. QED BY <1>6, <1>7

LEMMA PartAgain ==
    ASSUME NEW p \in FieldParts
    PROVE  <<p[1], Colon>> \o SubSeq(p, 3, Len(p)) = p
<1>1. p \in Seq(Token) /\ Len(p) \in Nat /\ Len(p) >= 2 /\ p[1] # Colon /\ p[2] = Colon
    BY TextConcat, TextEmpty DEF FieldParts, Texts
<1> DEFINE r == SubSeq(p, 3, Len(p))
           x == <<p[1], Colon>>
<1>2. /\ r \in Seq(Token) /\ Len(r) = Len(p) - 2
      /\ \A i \in 1 .. Len(p) - 2 : r[i] = p[i + 2]
  <2>1. Len(p) \in Int /\ 3 \in Int /\ \A i \in 3 .. Len(p) : p[i] \in Token
      BY <1>1
  <2>2. r \in Seq(Token)
      BY <2>1, SubSeqProperties
  <2>3. Len(r) = IF 3 <= Len(p) THEN Len(p) - 3 + 1 ELSE 0
      BY <2>1, SubSeqProperties
  <2>4. \A i \in 1 .. Len(p) - 3 + 1 : r[i] = p[3 + i - 1]
      BY <2>1, SubSeqProperties
  <2> HIDE DEF r
  <2>5. Len(r) = Len(p) - 2
    <3>1. \A n \in Nat : n >= 2 => (IF 3 <= n THEN n - 3 + 1 ELSE 0) = n - 2
        OBVIOUS
    <3>2. Len(p) \in Nat /\ Len(p) >= 2
        BY <1>1
    <3>. QED BY <2>3, <3>1, <3>2
  <2>6. ASSUME NEW i \in 1 .. Len(p) - 2 PROVE r[i] = p[i + 2]
    <3>1. i \in 1 .. Len(p) - 3 + 1 /\ 3 + i - 1 = i + 2
        BY <1>1
    <3>. QED BY <2>4, <3>1
  <2>. QED BY <2>2, <2>5, <2>6
<1>3. x \in Seq(Token) /\ Len(x) = 2 /\ x[1] = p[1] /\ x[2] = Colon
  <2>1. p[1] \in Token
      BY <1>1
  <2>. QED BY <2>1, Tokens
<1> HIDE DEF r, x
<1>4. /\ x \o r \in Seq(Token) /\ Len(x \o r) = 2 + Len(r)
      /\ \A i \in 1 .. 2 + Len(r) : (x \o r)[i] = IF i <= 2 THEN x[i] ELSE r[i - 2]
  <2>1. /\ x \o r \in Seq(Token) /\ Len(x \o r) = Len(x) + Len(r)
        /\ \A i \in 1 .. Len(x) + Len(r) :
             (x \o r)[i] = IF i <= Len(x) THEN x[i] ELSE r[i - Len(x)]
    <3>1. x \in Texts /\ r \in Texts
        BY <1>2, <1>3 DEF Texts
    <3>. QED BY <3>1, TextConcat DEF Texts
  <2>. QED BY <1>3, <2>1
<1>5. ASSUME NEW i \in 1 .. Len(p) PROVE (x \o r)[i] = p[i]
  <2>1. i = 1 \/ i = 2 \/ (i > 2 /\ i - 2 \in 1 .. Len(p) - 2 /\ (i - 2) + 2 = i)
      BY <1>1
  <2>2. i \in 1 .. 2 + Len(r)
      BY <1>1, <1>2
  <2>3. (x \o r)[i] = IF i <= 2 THEN x[i] ELSE r[i - 2]
      BY <1>4, <2>2
  <2>4. CASE i > 2
    <3>1. r[i - 2] = p[(i - 2) + 2]
        BY <1>2, <2>1, <2>4
    <3>. QED BY <2>1, <2>3, <2>4, <3>1
  <2>5. CASE i = 1
      BY <1>3, <2>3, <2>5
  <2>6. CASE i = 2
      BY <1>1, <1>3, <2>3, <2>6
  <2>. QED BY <2>1, <2>4, <2>5, <2>6
<1>6. Len(x \o r) = Len(p)
    BY <1>1, <1>2, <1>4
<1>7. x \o r = p
    BY <1>1, <1>4, <1>5, <1>6, SeqEqual
<1>. QED BY <1>7 DEF x, r

-----------------------------------------------------------------------------
(* The spelling of a type, and the type that is parsed from it.            *)

RecordSpelling(m) == (<<Open>> \o m) \o <<Close>>

LEMMA RecordSpellingType ==
    ASSUME NEW m \in Texts
    PROVE  /\ RecordSpelling(m) \in Texts
           /\ RecordSpelling(m) = Append(<<Open>> \o m, Close)
           /\ Len(m) \in Nat /\ Len(RecordSpelling(m)) = Len(m) + 2
           /\ RecordSpelling(m)[1] = Open
           /\ \A i \in 1 .. Len(m) : RecordSpelling(m)[i + 1] = m[i]
           /\ RecordSpelling(m)[Len(m) + 2] = Close
<1> DEFINE a == <<Open>>
           b == a \o m
<1>1. a \in Texts /\ Len(a) = 1 /\ a[1] = Open
    BY Tokens, TextOne
<1> HIDE DEF a
<1>2. /\ b \in Texts /\ Len(m) \in Nat /\ Len(b) = 1 + Len(m)
      /\ \A i \in 1 .. 1 + Len(m) : b[i] = IF i <= 1 THEN a[i] ELSE m[i - 1]
  <2>1. /\ b \in Texts /\ Len(m) \in Nat /\ Len(b) = Len(a) + Len(m)
        /\ \A i \in 1 .. Len(a) + Len(m) : b[i] = IF i <= Len(a) THEN a[i] ELSE m[i - Len(a)]
      BY <1>1, TextConcat
  <2>. QED BY <1>1, <2>1
<1> HIDE DEF b
<1>3. /\ Append(b, Close) \in Texts /\ Append(b, Close) = b \o <<Close>>
      /\ Len(Append(b, Close)) = Len(b) + 1
      /\ \A i \in 1 .. Len(b) : Append(b, Close)[i] = b[i]
      /\ Append(b, Close)[Len(b) + 1] = Close
    BY <1>2, Tokens, TextAppend
<1>4. RecordSpelling(m) = Append(b, Close)
    BY <1>3 DEF RecordSpelling, a, b
<1>5. Append(b, Close)[1] = Open
  <2>1. 1 \in 1 .. Len(b) /\ 1 \in 1 .. 1 + Len(m)
      BY <1>2
  <2>. QED BY <1>1, <1>2, <1>3, <2>1
<1>6. ASSUME NEW i \in 1 .. Len(m) PROVE Append(b, Close)[i + 1] = m[i]
  <2> DEFINE k == i + 1
  <2>1. k \in 1 .. 1 + Len(m) /\ ~(k <= 1) /\ k - 1 = i
      BY <1>2
  <2> HIDE DEF k
  <2>2. Append(b, Close)[k] = m[i]
      BY <1>2, <1>3, <2>1
  <2>. QED BY <2>2 DEF k
<1>7. Len(b) + 1 = Len(m) + 2
    BY <1>2
<1>8. Append(b, Close)[Len(m) + 2] = Close /\ Len(Append(b, Close)) = Len(m) + 2
    BY <1>3, <1>7
<1>9. Append(b, Close) = Append(<<Open>> \o m, Close)
    BY DEF a, b
<1>. QED BY <1>2, <1>3, <1>4, <1>5, <1>6, <1>8, <1>9

LEMMA ParseRecord ==
    ASSUME NEW m \in Texts, m # <<>>
    PROVE  ParseType(RecordSpelling(m)) = RecordType(FieldsOf(m))
<1> DEFINE s == RecordSpelling(m)
<1>1. /\ s \in Texts /\ Len(m) \in Nat /\ Len(s) = Len(m) + 2
      /\ s[1] = Open /\ s[Len(m) + 2] = Close
      /\ \A i \in 1 .. Len(m) : s[i + 1] = m[i]
    BY RecordSpellingType
<1>2. m \in Seq(Token) /\ Len(m) > 0 /\ s \in Seq(Token)
    BY <1>1, EmptySeq DEF Texts
<1> HIDE DEF s
<1>3. SubSeq(s, 2, Len(s) - 1) = m
  <2> DEFINE k == Len(m) + 1
             r == SubSeq(s, 2, k)
  <2>1. k \in Int /\ 2 \in Int /\ (\A i \in 2 .. k : s[i] \in Token) /\ k = Len(s) - 1
      BY <1>1, <1>2
  <2>2. k - 2 + 1 = Len(m) /\ 2 <= k
      BY <1>1, <1>2
  <2> HIDE DEF k
  <2>3. /\ r \in Seq(Token)
        /\ Len(r) = IF 2 <= k THEN k - 2 + 1 ELSE 0
        /\ \A i \in 1 .. k - 2 + 1 : r[i] = s[2 + i - 1]
      BY <2>1, SubSeqProperties
  <2>4. ASSUME NEW i \in 1 .. Len(m) PROVE r[i] = m[i]
    <3>1. r[i] = s[2 + i - 1]
        BY <2>2, <2>3
    <3>2. 2 + i - 1 = i + 1
        OBVIOUS
    <3>. QED BY <1>1, <3>1, <3>2
  <2>5. Len(r) = Len(m)
      BY <2>2, <2>3
  <2> HIDE DEF r
  <2>6. r = m
      BY <1>2, <2>3, <2>4, <2>5, SeqEqual
  <2>. QED BY <2>1, <2>6 DEF r
<1>4. Len(s) > 2 /\ s[1] = "record<" /\ s[Len(s)] = ">"
    BY <1>1, <1>2 DEF Open, Close
<1>5. ParseType(s) = RecordType(FieldsOf(SubSeq(s, 2, Len(s) - 1)))
    BY <1>4 DEF ParseType
<1>. QED BY <1>3, <1>5 DEF s

LEMMA ParseShort ==
    ASSUME NEW s, Len(s) \in Nat, Len(s) <= 2
    PROVE  ParseType(s) = [scalar |-> s, record |-> <<>>]
<1>1. ~(Len(s) > 2)
    OBVIOUS
<1>. QED BY <1>1 DEF ParseType

(* No type that is parsed has a record in a record.                        *)
LEMMA ParsedIsFlat ==
    ASSUME NEW s
    PROVE  \A i \in DOMAIN ParseType(s).record : ParseType(s).record[i][2].record = <<>>
<1>1. CASE Len(s) > 2 /\ s[1] = "record<" /\ s[Len(s)] = ">"
  <2> DEFINE m == SubSeq(s, 2, Len(s) - 1)
             parts == SplitAtCommas(m)
  <2>1. ParseType(s).record = FieldsOf(m)
      BY <1>1 DEF ParseType, RecordType
  <2>2. FieldsOf(m) = [k \in 1 .. Len(parts) |-> FieldOf(parts[k])]
      BY DEF FieldsOf
  <2> HIDE DEF m, parts
  <2>3. \A p : FieldOf(p)[2].record = <<>>
      BY DEF FieldOf
  <2>. QED BY <2>1, <2>2, <2>3
<1>2. CASE ~(Len(s) > 2 /\ s[1] = "record<" /\ s[Len(s)] = ">")
  <2>1. ParseType(s).record = <<>>
      BY <1>2 DEF ParseType
  <2>. QED BY <2>1
<1>. QED BY <1>1, <1>2

(* The spelling of a record, given the spellings of its fields' types.     *)
TopoFields(t) ==
    [i \in 1 .. Len(t.record) |-> <<t.record[i][1], Colon>> \o FlatTopo(t.record[i][2])]
FlatFields(t) ==
    [i \in 1 .. Len(t.record) |-> <<t.record[i][1], Colon>> \o t.record[i][2].scalar]

LEMMA TopoIs ==
    ASSUME NEW t, Len(t.record) \in Nat, DOMAIN t.record = 1 .. Len(t.record)
    PROVE  /\ t.record = <<>> => Topo(t) = t.scalar /\ FlatTopo(t) = t.scalar
           /\ t.record # <<>> => /\ Topo(t) = RecordSpelling(Joined(TopoFields(t)))
                                 /\ FlatTopo(t) = RecordSpelling(Joined(FlatFields(t)))
<1>1. t.record = <<>> => Topo(t) = t.scalar /\ FlatTopo(t) = t.scalar
    BY DEF Topo, FlatTopo, Spelled
<1>2. ASSUME t.record # <<>> PROVE Topo(t) = RecordSpelling(Joined(TopoFields(t)))
  <2> DEFINE inner == [i \in DOMAIN t.record |-> FlatTopo(t.record[i][2])]
             P == [i \in 1 .. Len(t.record) |-> <<t.record[i][1], ":">> \o inner[i]]
  <2>1. Topo(t) = (<<"record<">> \o Joined(P)) \o <<">">>
      BY <1>2 DEF Topo, Spelled
  <2>2. P = TopoFields(t)
      BY DEF TopoFields, Colon
  <2> HIDE DEF P
  <2>. QED BY <2>1, <2>2 DEF RecordSpelling, Open, Close
<1>3. ASSUME t.record # <<>> PROVE FlatTopo(t) = RecordSpelling(Joined(FlatFields(t)))
  <2> DEFINE inner == [i \in DOMAIN t.record |-> t.record[i][2].scalar]
             P == [i \in 1 .. Len(t.record) |-> <<t.record[i][1], ":">> \o inner[i]]
  <2>1. FlatTopo(t) = (<<"record<">> \o Joined(P)) \o <<">">>
      BY <1>3 DEF FlatTopo, Spelled
  <2>2. P = FlatFields(t)
      BY DEF FlatFields, Colon
  <2> HIDE DEF P
  <2>. QED BY <2>1, <2>2 DEF RecordSpelling, Open, Close
<1>. QED BY <1>1, <1>2, <1>3

(* A record that was read spells the text it was read from.                *)
LEMMA SpelledAgain ==
    ASSUME NEW m \in FieldTexts
    PROVE  /\ m # <<>>
           /\ Topo(RecordType(FieldsOf(m))) = RecordSpelling(m)
<1> DEFINE P == SplitAtCommas(m)
           F == FieldsOf(m)
           n == Len(P)
<1>1. m \in Texts /\ P \in Seq(FieldParts) /\ P \in Parts /\ P # <<>> /\ Joined(P) = m
    BY SplitType, JoinedSplit DEF FieldTexts
<1>2. n \in Nat /\ n # 0 /\ \A i \in 1 .. n : P[i] \in FieldParts
    BY <1>1, EmptySeq, LenProperties, ElementOfSeq
<1>3. m # <<>>
  <2>1. SUFFICES ASSUME m = <<>> PROVE FALSE
      OBVIOUS
  <2>2. P = << <<>> >>
      BY <2>1, SplitEmpty
  <2>3. <<>> \in FieldParts
    <3>1. Len(P) = 1 /\ P[1] = <<>>
        BY <2>2
    <3>. QED BY <1>2, <3>1
  <2>. QED BY <2>3 DEF FieldParts
<1>4. F = [k \in 1 .. n |-> FieldOf(P[k])]
    BY DEF FieldsOf
<1> HIDE DEF P, F
<1>5. Len(F) = n /\ DOMAIN F = 1 .. n /\ F # <<>>
    BY <1>2, <1>4
<1> DEFINE t == RecordType(F)
<1>6. t.record = F
    BY DEF RecordType
<1>7. TopoFields(t) = P
  <2>1. ASSUME NEW i \in 1 .. n
        PROVE  <<F[i][1], Colon>> \o FlatTopo(F[i][2]) = P[i]
    <3> DEFINE d == [scalar |-> SubSeq(P[i], 3, Len(P[i])), record |-> <<>>]
    <3>1. F[i] = <<P[i][1], d>>
        BY <1>2, <1>4, FieldOfPart
    <3>2. FlatTopo(d) = SubSeq(P[i], 3, Len(P[i]))
        BY DEF FlatTopo, Spelled
    <3>3. <<P[i][1], Colon>> \o SubSeq(P[i], 3, Len(P[i])) = P[i]
        BY <1>2, PartAgain
    <3> HIDE DEF d
    <3>4. F[i][1] = P[i][1] /\ F[i][2] = d
        BY <3>1
    <3>. QED BY <3>2, <3>3, <3>4
  <2>2. TopoFields(t) = [i \in 1 .. n |-> <<F[i][1], Colon>> \o FlatTopo(F[i][2])]
      BY <1>5, <1>6 DEF TopoFields
  <2>3. TopoFields(t) = [i \in 1 .. n |-> P[i]]
      BY <2>1, <2>2
  <2>4. P = [i \in 1 .. n |-> P[i]]
      BY <1>1 DEF n
  <2>. QED BY <2>3, <2>4
<1>8. Topo(t) = RecordSpelling(Joined(TopoFields(t)))
  <2> HIDE DEF t
  <2>. QED BY <1>2, <1>5, <1>6, TopoIs
<1>. QED BY <1>1, <1>3, <1>7, <1>8 DEF F

-----------------------------------------------------------------------------
(* The types the reflection accepts.                                       *)

FieldNames == STRING \ {Comma, Colon}

LEMMA FieldName ==
    ASSUME NEW n \in FieldNames
    PROVE  n \in Token /\ n # Comma /\ n # Colon
BY Tokens DEF FieldNames

LEMMA RecordIs ==
    ASSUME NEW T, NEW t \in RecordDescriptors(T)
    PROVE  /\ t = RecordType(t.record) /\ t.scalar = <<>>
           /\ t.record \in Seq(FieldNames \X T)
<1>1. t \in [scalar : {<<>>}, record : Seq(FieldNames \X T)]
    BY DEF RecordDescriptors, FieldNames, Comma, Colon
<1>. QED BY <1>1 DEF RecordType

LEMMA ScalarIs ==
    ASSUME NEW t \in ScalarDescriptors
    PROVE  t = [scalar |-> t.scalar, record |-> <<>>] /\ t.scalar \in Seq(STRING)
BY DEF ScalarDescriptors

LEMMA FlatIs ==
    ASSUME NEW t \in FlatDescriptors
    PROVE  \/ t = [scalar |-> t.scalar, record |-> <<>>]
           \/ t = RecordType(t.record) /\ t.record \in Seq(FieldNames \X ScalarDescriptors)
<1>1. t \in ScalarDescriptors \/ t \in RecordDescriptors(ScalarDescriptors)
    BY DEF FlatDescriptors
<1>. QED BY <1>1, ScalarIs, RecordIs

LEMMA DescriptorIs ==
    ASSUME NEW t \in Descriptors
    PROVE  \/ t = [scalar |-> t.scalar, record |-> <<>>]
           \/ t = RecordType(t.record) /\ t.record \in Seq(FieldNames \X FlatDescriptors)
<1>1. \/ t \in ScalarDescriptors \/ t \in RecordDescriptors(ScalarDescriptors)
      \/ t \in RecordDescriptors(FlatDescriptors)
    BY DEF Descriptors, FlatDescriptors
<1>2. ASSUME t \in RecordDescriptors(ScalarDescriptors)
      PROVE  t.record \in Seq(FieldNames \X FlatDescriptors)
  <2>1. ScalarDescriptors \subseteq FlatDescriptors
      BY DEF FlatDescriptors
  <2>2. t.record \in Seq(FieldNames \X ScalarDescriptors)
      BY <1>2, RecordIs
  <2> DEFINE A == FieldNames \X ScalarDescriptors
             B == FieldNames \X FlatDescriptors
  <2>3. A \subseteq B
      BY <2>1
  <2>4. t.record \in Seq(A)
      BY <2>2
  <2> HIDE DEF A, B
  <2>5. t.record \in Seq(B)
      BY <2>3, <2>4
  <2>. QED BY <2>5 DEF B
<1>. QED BY <1>1, <1>2, ScalarIs, RecordIs

(* The fields of a sequence of pairs.                                      *)
LEMMA Fields ==
    ASSUME NEW N, NEW T, NEW f \in Seq(N \X T)
    PROVE  /\ Len(f) \in Nat /\ DOMAIN f = 1 .. Len(f)
           /\ \A i \in 1 .. Len(f) :
                f[i] = <<f[i][1], f[i][2]>> /\ f[i][1] \in N /\ f[i][2] \in T
<1> DEFINE U == N \X T
<1>1. f \in Seq(U)
    OBVIOUS
<1> HIDE DEF U
<1>2. Len(f) \in Nat /\ DOMAIN f = 1 .. Len(f) /\ \A i \in 1 .. Len(f) : f[i] \in U
    BY <1>1, LenProperties, ElementOfSeq
<1>3. \A u \in U : u = <<u[1], u[2]>> /\ u[1] \in N /\ u[2] \in T
    BY DEF U
<1>. QED BY <1>2, <1>3

LEMMA ScalarToken ==
    ASSUME NEW t \in ScalarDescriptors, IsScalar(t)
    PROVE  \E s \in Token : s # Comma /\ s # Colon /\ t = ScalarType(s)
<1>1. PICK s \in Scalars : t.scalar = <<s>>
    BY DEF IsScalar
<1>2. s # Comma /\ s # Colon
    BY DEF Scalars, Comma, Colon
<1>3. t = [scalar |-> <<s>>, record |-> <<>>] /\ <<s>> \in Seq(STRING)
    BY <1>1, ScalarIs
<1>4. s \in STRING
  <2>1. <<s>>[1] = s /\ 1 \in 1 .. Len(<<s>>)
      OBVIOUS
  <2>. QED BY <1>3, <2>1, ElementOfSeq
<1>. QED BY <1>2, <1>3, <1>4, Tokens DEF ScalarType

(* An accepted scalar among flat descriptors is a scalar descriptor.       *)
LEMMA FlatScalar ==
    ASSUME NEW t \in FlatDescriptors, IsScalar(t)
    PROVE  t \in ScalarDescriptors
<1>1. t \in ScalarDescriptors \/ t \in RecordDescriptors(ScalarDescriptors)
    BY DEF FlatDescriptors
<1>2. t.record = <<>> /\ \E s \in Scalars : t.scalar = <<s>>
    BY DEF IsScalar
<1>3. ASSUME t \in RecordDescriptors(ScalarDescriptors) PROVE FALSE
  <2>1. t.scalar = <<>>
      BY <1>3, RecordIs
  <2>2. \A s : <<s>> # <<>>
      OBVIOUS
  <2>. QED BY <1>2, <2>1, <2>2
<1>. QED BY <1>1, <1>3

LEMMA ThreeTokens ==
    ASSUME NEW a \in Token, NEW b \in Token, NEW c \in Token
    PROVE  /\ <<a, b>> \in Texts /\ <<a, b, c>> \in Texts
           /\ <<a, b>> \o <<c>> = <<a, b, c>>
           /\ SubSeq(<<a, b, c>>, 3, 3) = <<c>>
<1> DEFINE p == <<a, b, c>>
<1>1. /\ <<a, b>> \in Texts /\ p \in Texts
      /\ Len(p) = 3 /\ p[1] = a /\ p[2] = b /\ p[3] = c
    BY DEF Texts
<1>2. Append(<<a, b>>, c) = p
  <2> DEFINE u == <<a, b>>
  <2>1. u \in Texts /\ Len(u) = 2 /\ u[1] = a /\ u[2] = b
      BY <1>1
  <2> HIDE DEF u, p
  <2>2. /\ Append(u, c) \in Texts /\ Len(Append(u, c)) = 3
        /\ \A i \in 1 .. 2 : Append(u, c)[i] = u[i]
        /\ Append(u, c)[3] = c
    <3>1. /\ Append(u, c) \in Texts /\ Len(Append(u, c)) = Len(u) + 1
          /\ \A i \in 1 .. Len(u) : Append(u, c)[i] = u[i]
          /\ Append(u, c)[Len(u) + 1] = c
        BY <2>1, TextAppend
    <3>2. Len(u) + 1 = 3
        BY <2>1
    <3>. QED BY <2>1, <3>1, <3>2
  <2>3. \A i \in 1 .. 3 : i = 1 \/ i = 2 \/ i = 3
      OBVIOUS
  <2>4. \A i \in 1 .. 3 : Append(u, c)[i] = p[i]
      BY <1>1, <2>1, <2>2, <2>3
  <2>5. Append(u, c) = p
      BY <1>1, <2>2, <2>4, TextEqual
  <2>. QED BY <2>5 DEF u
<1>3. Append(<<a, b>>, c) = <<a, b>> \o <<c>>
    BY <1>1, TextAppend
<1> HIDE DEF p
<1>4. SubSeq(p, 3, 3) = <<c>>
  <2> DEFINE r == SubSeq(p, 3, 3)
  <2>1. \A i \in 3 .. 3 : p[i] \in Token
      BY <1>1
  <2>2. /\ r \in Seq(Token) /\ Len(r) = IF 3 <= 3 THEN 3 - 3 + 1 ELSE 0
        /\ \A i \in 1 .. 3 - 3 + 1 : r[i] = p[3 + i - 1]
      BY <2>1, SubSeqProperties
  <2> HIDE DEF r
  <2>3. r \in Seq(Token) /\ Len(r) = 1 /\ r[1] = c
      BY <1>1, <2>2
  <2>4. r = <<c>>
      BY <2>3
  <2>. QED BY <2>4 DEF r
<1>. QED BY <1>1, <1>2, <1>3, <1>4 DEF p

LEMMA ScalarField ==
    ASSUME NEW n \in FieldNames, NEW t \in ScalarDescriptors, IsScalar(t)
    PROVE  LET p == <<n, Colon>> \o t.scalar
           IN  /\ p \in FieldParts /\ p \in CommaFree /\ p \in FieldTexts
               /\ FieldOf(p) = <<n, t>>
<1>1. PICK s \in Token : s # Comma /\ s # Colon /\ t = ScalarType(s)
    BY ScalarToken
<1> DEFINE p == <<n, Colon, s>>
<1>2. n \in Token /\ n # Comma /\ n # Colon
    BY FieldName
<1>3. t.scalar = <<s>> /\ <<n, Colon>> \o <<s>> = p /\ SubSeq(p, 3, 3) = <<s>>
    BY <1>1, <1>2, Tokens, ThreeTokens DEF ScalarType
<1>4. p \in Texts /\ Len(p) = 3 /\ p[1] = n /\ p[2] = Colon /\ p[3] = s
    BY <1>2, Tokens, ThreeTokens
<1> HIDE DEF p
<1>5. p \in FieldParts
    BY <1>2, <1>4, FieldPart
<1>6. p \in CommaFree
  <2>1. \A i \in 1 .. 3 : i = 1 \/ i = 2 \/ i = 3
      OBVIOUS
  <2>2. \A i \in 1 .. Len(p) : p[i] # Comma
      BY <1>1, <1>2, <1>4, <2>1, Tokens
  <2>. QED BY <1>4, <2>2 DEF CommaFree
<1>7. p \in FieldTexts
    BY <1>5, <1>6, FieldTextOne
<1>8. FieldOf(p) = <<n, t>>
  <2>1. FieldOf(p) = <<n, [scalar |-> SubSeq(p, 3, 3), record |-> <<>>]>>
      BY <1>4, <1>5, FieldOfPart
  <2>. QED BY <1>1, <1>3, <2>1 DEF ScalarType
<1>. QED BY <1>3, <1>5, <1>6, <1>7, <1>8

LEMMA FieldPrefix ==
    ASSUME NEW n \in FieldNames
    PROVE  /\ <<n, Colon, Open>> \in FieldParts /\ <<n, Colon, Open>> \in CommaFree
           /\ <<n, Colon>> \in Texts
           /\ <<n, Colon>> \o <<Open>> = <<n, Colon, Open>>
<1> DEFINE p == <<n, Colon, Open>>
<1>1. n \in Token /\ n # Comma /\ n # Colon
    BY FieldName
<1>2. p \in Texts /\ Len(p) = 3 /\ p[1] = n /\ p[2] = Colon /\ p[3] = Open
    BY <1>1, Tokens, ThreeTokens
<1>3. <<n, Colon>> \in Texts /\ <<n, Colon>> \o <<Open>> = p
    BY <1>1, Tokens, ThreeTokens
<1> HIDE DEF p
<1>4. p \in FieldParts
    BY <1>1, <1>2, FieldPart
<1>5. p \in CommaFree
  <2>1. \A i \in 1 .. 3 : i = 1 \/ i = 2 \/ i = 3
      OBVIOUS
  <2>2. \A i \in 1 .. Len(p) : p[i] # Comma
      BY <1>1, <1>2, <2>1, Tokens
  <2>. QED BY <1>2, <2>2 DEF CommaFree
<1>. QED BY <1>3, <1>4, <1>5 DEF p

LEMMA RecordField ==
    ASSUME NEW n \in FieldNames, NEW m \in FieldTexts
    PROVE  <<n, Colon>> \o RecordSpelling(m) \in FieldTexts
<1> DEFINE a == <<n, Colon>>
           b == <<Open>>
           x == <<n, Colon, Open>>
<1>1. /\ a \in Texts /\ a \o b = x /\ x \in FieldParts /\ x \in CommaFree
      /\ b \in Texts /\ m \in Texts /\ Close \in Token /\ Close # Comma
    BY FieldPrefix, Tokens, TextOne DEF FieldTexts
<1> HIDE DEF a, b, x
<1>2. RecordSpelling(m) = Append(b \o m, Close) /\ b \o m \in Texts
    BY <1>1, RecordSpellingType, TextConcat DEF b
<1>3. a \o RecordSpelling(m) = Append(a \o (b \o m), Close)
    BY <1>1, <1>2, TextGrows
<1>4. a \o (b \o m) = x \o m
    BY <1>1, TextAssociative
<1>5. x \o m \in FieldTexts
    BY <1>1, FieldTextPrefix
<1>6. Append(x \o m, Close) \in FieldTexts
    BY <1>1, <1>5, FieldTextSuffix
<1>. QED BY <1>3, <1>4, <1>6 DEF a

LEMMA FieldTypeOf ==
    ASSUME NEW t, DOMAIN t.record = 1 .. Len(t.record), NEW i \in 1 .. Len(t.record)
    PROVE  t.record[i][2] \in FieldTypes(t)
BY DEF FieldTypes, Range

LEMMA FlatFieldText ==
    ASSUME NEW n \in FieldNames, NEW t \in FlatDescriptors, IsFlat(t)
    PROVE  <<n, Colon>> \o FlatTopo(t) \in FieldTexts
<1>1. CASE IsScalar(t)
  <2>1. t.record = <<>>
      BY <1>1 DEF IsScalar
  <2>2. FlatTopo(t) = t.scalar
      BY <2>1 DEF FlatTopo, Spelled
  <2>. QED BY <1>1, <2>2, FlatScalar, ScalarField
<1>2. CASE IsRecord(t) /\ \A s \in FieldTypes(t) : IsScalar(s)
  <2> DEFINE f == t.record
             P == FlatFields(t)
  <2>1. f # <<>>
      BY <1>2 DEF IsRecord
  <2>2. f \in Seq(FieldNames \X ScalarDescriptors)
    <3>1. t = [scalar |-> t.scalar, record |-> <<>>] => t.record = <<>>
        OBVIOUS
    <3>. QED BY <2>1, <3>1, FlatIs
  <2>3. /\ Len(f) \in Nat /\ DOMAIN f = 1 .. Len(f)
        /\ \A i \in 1 .. Len(f) : f[i][1] \in FieldNames /\ f[i][2] \in ScalarDescriptors
      BY <2>2, Fields
  <2>4. FlatTopo(t) = RecordSpelling(Joined(P))
      BY <2>1, <2>3, TopoIs
  <2>5. ASSUME NEW i \in 1 .. Len(f) PROVE P[i] \in FieldTexts
    <3>1. IsScalar(f[i][2])
        BY <1>2, <2>3, FieldTypeOf
    <3>2. P[i] = <<f[i][1], Colon>> \o f[i][2].scalar
        BY DEF FlatFields
    <3> HIDE DEF f
    <3>. QED BY <2>3, <3>1, <3>2, ScalarField
  <2>6. P \in Seq(FieldTexts) /\ P # <<>>
    <3>1. P = [i \in 1 .. Len(f) |-> P[i]]
        BY DEF FlatFields
    <3>2. Len(f) # 0
        BY <2>1, <2>2, EmptySeq
    <3> HIDE DEF P, f
    <3>3. P \in [1 .. Len(f) -> FieldTexts]
        BY <2>5, <3>1
    <3>4. P \in Seq(FieldTexts) /\ Len(P) = Len(f)
        BY <2>3, <3>3
    <3>5. P # <<>>
        BY <3>2, <3>4
    <3>. QED BY <3>4, <3>5
  <2>7. Joined(P) \in FieldTexts
    <3> HIDE DEF P
    <3>. QED BY <2>6, FieldTextJoined
  <2>. QED BY <2>4, <2>7, RecordField
<1>. QED BY <1>1, <1>2 DEF IsFlat

(* A record as the texts of its fields.                                    *)
LEMMA RecordFields ==
    ASSUME NEW t \in Descriptors, IsRecord(t), \A s \in FieldTypes(t) : IsFlat(s)
    PROVE  /\ t = RecordType(t.record) /\ t.record \in Seq(FieldNames \X FlatDescriptors)
           /\ t.record # <<>> /\ Len(t.record) \in Nat
           /\ DOMAIN t.record = 1 .. Len(t.record)
           /\ \A i \in 1 .. Len(t.record) :
                /\ t.record[i] = <<t.record[i][1], t.record[i][2]>>
                /\ t.record[i][1] \in FieldNames /\ t.record[i][2] \in FlatDescriptors
                /\ IsFlat(t.record[i][2])
           /\ Topo(t) = RecordSpelling(Joined(TopoFields(t)))
           /\ TopoFields(t) \in Seq(FieldTexts) /\ TopoFields(t) # <<>>
           /\ Joined(TopoFields(t)) \in FieldTexts
           /\ Len(TopoFields(t)) = Len(t.record)
<1> DEFINE f == t.record
           P == TopoFields(t)
<1>1. f # <<>>
    BY DEF IsRecord
<1>2. t = RecordType(t.record) /\ f \in Seq(FieldNames \X FlatDescriptors)
  <2>1. t = [scalar |-> t.scalar, record |-> <<>>] => t.record = <<>>
      OBVIOUS
  <2>. QED BY <1>1, <2>1, DescriptorIs
<1>3. /\ Len(f) \in Nat /\ DOMAIN f = 1 .. Len(f)
      /\ \A i \in 1 .. Len(f) :
           f[i] = <<f[i][1], f[i][2]>> /\ f[i][1] \in FieldNames /\ f[i][2] \in FlatDescriptors
    BY <1>2, Fields
<1>4. Topo(t) = RecordSpelling(Joined(P))
    BY <1>1, <1>3, TopoIs
<1>5. ASSUME NEW i \in 1 .. Len(f) PROVE P[i] \in FieldTexts /\ IsFlat(f[i][2])
  <2>1. IsFlat(f[i][2])
      BY <1>3, FieldTypeOf
  <2>2. P[i] = <<f[i][1], Colon>> \o FlatTopo(f[i][2])
      BY DEF TopoFields
  <2> HIDE DEF f
  <2>. QED BY <1>3, <2>1, <2>2, FlatFieldText
<1>6. P \in Seq(FieldTexts) /\ P # <<>> /\ Len(P) = Len(f)
  <2>1. P = [i \in 1 .. Len(f) |-> P[i]]
      BY DEF TopoFields
  <2>2. Len(f) # 0
      BY <1>1, <1>2, EmptySeq
  <2> HIDE DEF P, f
  <2>3. P \in [1 .. Len(f) -> FieldTexts]
      BY <1>5, <2>1
  <2>4. P \in Seq(FieldTexts) /\ Len(P) = Len(f)
      BY <1>3, <2>3
  <2>5. P # <<>>
      BY <2>2, <2>4
  <2>. QED BY <2>4, <2>5
<1>7. Joined(P) \in FieldTexts
  <2> HIDE DEF P
  <2>. QED BY <1>6, FieldTextJoined
<1>. QED BY <1>1, <1>2, <1>3, <1>4, <1>5, <1>6, <1>7

(* A type that goes through the text has the spelling it had; it is the    *)
(* type it was exactly if no record is a field of it.                      *)
Accepted(t) == t = NoType \/ (t \in Descriptors /\ ToTypeRefAccepts(t))

Unnested(t) == \A i \in DOMAIN t.record : t.record[i][2].record = <<>>

LEMMA NoTypeRead ==
    /\ Topo(NoType) = <<>> /\ ParseType(<<>>) = NoType /\ Unnested(NoType)
<1>1. NoType.record = <<>> /\ NoType.scalar = <<>>
    BY DEF NoType
<1>2. Topo(NoType) = <<>>
    BY <1>1 DEF Topo, Spelled
<1>3. Len(<<>>) = 0 /\ DOMAIN <<>> = {}
    OBVIOUS
<1>4. ParseType(<<>>) = NoType
    BY <1>3, ParseShort DEF NoType
<1>. QED BY <1>1, <1>2, <1>3, <1>4 DEF Unnested

LEMMA ScalarRead ==
    ASSUME NEW t \in Descriptors, IsScalar(t)
    PROVE  /\ Topo(t) = t.scalar /\ ParseType(t.scalar) = t /\ Unnested(t)
<1>1. t.record = <<>> /\ \E s : t.scalar = <<s>>
    BY DEF IsScalar
<1>2. t = [scalar |-> t.scalar, record |-> <<>>]
  <2>1. t = RecordType(t.record) => t.scalar = <<>>
    <3> DEFINE f == t.record
    <3>1. RecordType(f).scalar = <<>>
        BY DEF RecordType
    <3> HIDE DEF f
    <3>2. t = RecordType(f) => t.scalar = <<>>
        BY <3>1
    <3>. QED BY <3>2 DEF f
  <2>2. \A s : <<s>> # <<>>
      OBVIOUS
  <2>. QED BY <1>1, <2>1, <2>2, DescriptorIs
<1>3. Topo(t) = t.scalar
    BY <1>1 DEF Topo, Spelled
<1>4. Len(t.scalar) = 1
    BY <1>1
<1>5. ParseType(t.scalar) = [scalar |-> t.scalar, record |-> <<>>]
  <2> DEFINE s == t.scalar
  <2>1. Len(s) \in Nat /\ Len(s) <= 2
      BY <1>4
  <2> HIDE DEF s
  <2>2. ParseType(s) = [scalar |-> s, record |-> <<>>]
      BY <2>1, ParseShort
  <2>. QED BY <2>2 DEF s
<1>6. DOMAIN t.record = {}
    BY <1>1
<1>. QED BY <1>2, <1>3, <1>5, <1>6 DEF Unnested

(* Whatever type toTypeRef accepts, _parseType reads back one with the     *)
(* same spelling, and the same type unless it has a record in a record.    *)
THEOREM TypeRead ==
    ASSUME NEW t, Accepted(t)
    PROVE  /\ Topo(ParseType(Topo(t))) = Topo(t)
           /\ ParseType(Topo(t)) = t <=> Unnested(t)
<1>1. CASE t = NoType
    BY <1>1, NoTypeRead
<1>2. CASE t \in Descriptors /\ IsScalar(t)
    BY <1>2, ScalarRead
<1>3. CASE t \in Descriptors /\ IsRecord(t) /\ \A s \in FieldTypes(t) : IsFlat(s)
  <2> DEFINE f == t.record
             P == TopoFields(t)
             m == Joined(P)
  <2>1. /\ t = RecordType(t.record) /\ Len(f) \in Nat /\ DOMAIN f = 1 .. Len(f)
        /\ \A i \in 1 .. Len(f) :
             /\ f[i] = <<f[i][1], f[i][2]>>
             /\ f[i][1] \in FieldNames /\ f[i][2] \in FlatDescriptors /\ IsFlat(f[i][2])
      BY <1>3, RecordFields
  <2>2. /\ Topo(t) = RecordSpelling(m) /\ m \in FieldTexts
        /\ P \in Seq(FieldTexts) /\ P # <<>> /\ Len(P) = Len(f)
      BY <1>3, RecordFields
  <2>3. m \in Texts /\ m # <<>> /\ Topo(RecordType(FieldsOf(m))) = RecordSpelling(m)
    <3> HIDE DEF m
    <3>. QED BY <2>2, SpelledAgain DEF FieldTexts
  <2>4. ParseType(Topo(t)) = RecordType(FieldsOf(m))
    <3> HIDE DEF m
    <3>. QED BY <2>2, <2>3, ParseRecord
  <2>5. ASSUME Unnested(t) PROVE ParseType(Topo(t)) = t
    <3>1. ASSUME NEW i \in 1 .. Len(f) PROVE P[i] \in CommaFree /\ FieldOf(P[i]) = f[i]
      <4>1. f[i][2].record = <<>>
          BY <2>1, <2>5 DEF Unnested
      <4>2. P[i] = <<f[i][1], Colon>> \o FlatTopo(f[i][2])
          BY DEF TopoFields
      <4> DEFINE d == f[i][2]
                 n == f[i][1]
      <4>3. /\ d.record = <<>> /\ d \in FlatDescriptors /\ IsFlat(d) /\ n \in FieldNames
            /\ P[i] = <<n, Colon>> \o FlatTopo(d) /\ f[i] = <<n, d>>
          BY <2>1, <4>1, <4>2
      <4> HIDE DEF d, n, f, P
      <4>4. IsScalar(d)
          BY <4>3 DEF IsFlat, IsRecord
      <4>5. FlatTopo(d) = d.scalar
          BY <4>3 DEF FlatTopo, Spelled
      <4>6. P[i] = <<n, Colon>> \o d.scalar
          BY <4>3, <4>5
      <4>. QED BY <4>3, <4>4, <4>6, FlatScalar, ScalarField
    <3>2. P \in Seq(CommaFree)
      <4> HIDE DEF P, f
      <4>1. P \in [1 .. Len(P) -> CommaFree] /\ Len(P) \in Nat
          BY <2>2, <3>1, LenProperties
      <4>. QED BY <4>1
    <3>3. SplitAtCommas(m) = P
      <4> HIDE DEF P
      <4>. QED BY <2>2, <3>2, SplitJoined
    <3>4. FieldsOf(m) = [i \in 1 .. Len(P) |-> FieldOf(P[i])]
      <4> HIDE DEF P, m
      <4>. QED BY <3>3 DEF FieldsOf
    <3>5. FieldsOf(m) = [i \in 1 .. Len(f) |-> f[i]]
      <4> HIDE DEF P, m, f
      <4>. QED BY <2>2, <3>1, <3>4
    <3>6. f = [i \in 1 .. Len(f) |-> f[i]]
      <4>1. f \in Seq(FieldNames \X FlatDescriptors)
          BY <1>3, RecordFields
      <4> DEFINE U == FieldNames \X FlatDescriptors
      <4>2. f \in Seq(U)
          BY <4>1
      <4> HIDE DEF f, U
      <4>. QED BY <4>2
    <3>. QED BY <2>1, <2>4, <3>5, <3>6
  <2>6. ASSUME ParseType(Topo(t)) = t PROVE Unnested(t)
      BY <2>6, ParsedIsFlat DEF Unnested
  <2>. QED BY <2>2, <2>3, <2>4, <2>5, <2>6
<1>. QED BY <1>1, <1>2, <1>3 DEF Accepted, ToTypeRefAccepts

-----------------------------------------------------------------------------
(* The lines of a graph's text.                                            *)

Void == "void"

LEMMA VoidIsWord == NoName # Void /\ IsWord(Void) /\ IsWord(NoName)
<1>1. NoName # Void
    BY DEF NoName, Void
<1>2. IsWord(Void)
    BY LogicGraphAssumption DEF IsWord, Void
<1>3. IsWord(NoName)
    BY LogicGraphAssumption DEF IsWord, NoName
<1>. QED BY <1>1, <1>2, <1>3

NamespaceDecl(g) == Decl("namespace", g.namespace, <<>>, <<>>, NoName)
FlowDecl(g) == Decl("flow", g.flow.name, <<>>, <<>>, NoName)

LEMMA EmitIs ==
    ASSUME NEW g, NEW n \in Nat, Len(g.handlers) = n,
           NEW m \in Nat, Len(g.flow.edges) = m
    PROVE  LET text == EmitTopo(g)
           IN  /\ text[1] = NamespaceDecl(g)
               /\ \A k \in 1 .. n : text[1 + k] = HandlerDecl(g.handlers[k])
               /\ Len(text) = IF g.flow = NoFlow THEN 1 + n ELSE (1 + n) + (1 + m)
               /\ g.flow # NoFlow =>
                    /\ text[(1 + n) + 1] = FlowDecl(g)
                    /\ \A k \in 1 .. m : text[(1 + n) + (1 + k)] = EdgeDecl(g.flow.edges[k])
<1> DEFINE a == << NamespaceDecl(g) >>
           b == [i \in 1 .. n |-> HandlerDecl(g.handlers[i])]
           c == << FlowDecl(g) >>
           d == [i \in 1 .. m |-> EdgeDecl(g.flow.edges[i])]
           ab == a \o b
           cd == c \o d
<1>1. EmitTopo(g) = ab \o (IF g.flow = NoFlow THEN <<>> ELSE cd)
    BY DEF EmitTopo, NamespaceDecl, FlowDecl, NoName
<1>2. /\ a = [i \in 1 .. 1 |-> a[i]] /\ a[1] = NamespaceDecl(g)
      /\ c = [i \in 1 .. 1 |-> c[i]] /\ c[1] = FlowDecl(g)
    OBVIOUS
<1>3. /\ b = [i \in 1 .. n |-> b[i]]
      /\ \A i \in 1 .. n : b[i] = HandlerDecl(g.handlers[i])
      /\ d = [i \in 1 .. m |-> d[i]]
      /\ \A i \in 1 .. m : d[i] = EdgeDecl(g.flow.edges[i])
    OBVIOUS
<1> HIDE DEF a, b, c, d
<1>4. /\ ab = [i \in 1 .. 1 + n |-> ab[i]] /\ Len(ab) = 1 + n
      /\ ab[1] = a[1] /\ \A i \in 1 .. n : ab[1 + i] = b[i]
  <2>1. /\ ab = [i \in 1 .. 1 + n |-> ab[i]] /\ Len(ab) = 1 + n
        /\ \A i \in 1 .. 1 : ab[i] = a[i]
        /\ \A i \in 1 .. n : ab[1 + i] = b[i]
      BY <1>2, <1>3, ConcatElements
  <2> HIDE DEF ab
  <2>2. 1 \in 1 .. 1
      OBVIOUS
  <2>. QED BY <2>1, <2>2
<1>5. /\ cd = [i \in 1 .. 1 + m |-> cd[i]] /\ Len(cd) = 1 + m
      /\ cd[1] = c[1] /\ \A i \in 1 .. m : cd[1 + i] = d[i]
  <2>1. /\ cd = [i \in 1 .. 1 + m |-> cd[i]] /\ Len(cd) = 1 + m
        /\ \A i \in 1 .. 1 : cd[i] = c[i]
        /\ \A i \in 1 .. m : cd[1 + i] = d[i]
      BY <1>2, <1>3, ConcatElements
  <2> HIDE DEF cd
  <2>2. 1 \in 1 .. 1
      OBVIOUS
  <2>. QED BY <2>1, <2>2
<1> DEFINE p == 1 + n
           q == 1 + m
<1>6. p \in Nat /\ q \in Nat /\ 1 \in 1 .. p /\ 1 \in 1 .. q
      /\ (\A k \in 1 .. n : 1 + k \in 1 .. p) /\ (\A k \in 1 .. m : 1 + k \in 1 .. q)
    OBVIOUS
<1> HIDE DEF ab, cd
<1>7. CASE g.flow = NoFlow
  <2>1. ab \o <<>> = ab
    <3>1. ab \in Seq({ab[i] : i \in 1 .. p})
        BY <1>4, <1>6, ElementsDefine
    <3>. QED BY <3>1, ConcatEmptySeq
  <2>2. EmitTopo(g) = ab
      BY <1>1, <1>7, <2>1
  <2>. QED BY <1>2, <1>3, <1>4, <1>7, <2>2
<1>8. CASE g.flow # NoFlow
  <2> DEFINE t == ab \o cd
  <2>1. EmitTopo(g) = t
      BY <1>1, <1>8
  <2> HIDE DEF p, q
  <2>2. /\ Len(t) = p + q
        /\ \A i \in 1 .. p : t[i] = ab[i]
        /\ \A i \in 1 .. q : t[p + i] = cd[i]
    <3>1. ab = [i \in 1 .. p |-> ab[i]] /\ cd = [i \in 1 .. q |-> cd[i]]
        BY <1>4, <1>5 DEF p, q
    <3>. QED BY <1>6, <3>1, ConcatElements
  <2> HIDE DEF t
  <2>3. t[1] = NamespaceDecl(g)
      BY <1>2, <1>4, <1>6, <2>2
  <2>4. \A k \in 1 .. n : t[1 + k] = HandlerDecl(g.handlers[k])
      BY <1>3, <1>4, <1>6, <2>2
  <2>5. t[p + 1] = FlowDecl(g)
      BY <1>2, <1>5, <1>6, <2>2
  <2>6. \A k \in 1 .. m : t[p + (1 + k)] = EdgeDecl(g.flow.edges[k])
      BY <1>3, <1>5, <1>6, <2>2
  <2>. QED BY <1>8, <2>1, <2>2, <2>3, <2>4, <2>5, <2>6 DEF p, q
<1>. QED BY <1>7, <1>8

-----------------------------------------------------------------------------
(* What a line adds.                                                       *)

LEMMA ReadNamespace ==
    ASSUME NEW ns, NEW hs, NEW fl, NEW n, NEW i, NEW o, NEW t, IsWord(n)
    PROVE  ReadDecl(Graph(ns, hs, fl), Decl("namespace", n, i, o, t)) = Graph(n, hs, fl)
BY DEF ReadDecl, Decl, Graph

LEMMA ReadHandler ==
    ASSUME NEW ns, NEW hs, NEW fl, NEW n, NEW i, NEW o, NEW t, IsWord(n)
    PROVE  ReadDecl(Graph(ns, hs, fl), Decl("handler", n, i, o, t))
             = Graph(ns, Append(hs, Handler(n, ParseType(i), ParseType(o))), fl)
BY DEF ReadDecl, Decl, Graph

LEMMA ReadFlow ==
    ASSUME NEW ns, NEW hs, NEW fl, NEW n, NEW i, NEW o, NEW t, IsWord(n)
    PROVE  ReadDecl(Graph(ns, hs, fl), Decl("flow", n, i, o, t))
             = Graph(ns, hs, [name |-> n, edges |-> <<>>])
BY DEF ReadDecl, Decl, Graph

LEMMA ReadEdge ==
    ASSUME NEW ns, NEW hs, NEW fn, NEW es, NEW n, NEW i, NEW o, NEW t,
           IsWord(n), IsWord(t), fn # NoName
    PROVE  ReadDecl(Graph(ns, hs, [name |-> fn, edges |-> es]), Decl("edge", n, i, o, t))
             = Graph(ns, hs, [name |-> fn, edges |->
                 Append(es, Edge(n, IF t = Void THEN NoName ELSE t))])
<1> DEFINE fl == [name |-> fn, edges |-> es]
<1>1. fl # NoFlow
    BY DEF NoFlow, NoName
<1>2. fl.edges = es /\ fl.name = fn
    OBVIOUS
<1>3. ReadDecl(Graph(ns, hs, fl), Decl("edge", n, i, o, t))
        = [Graph(ns, hs, fl) EXCEPT !.flow.edges =
             Append(@, Edge(n, IF t = Void THEN NoName ELSE t))]
    BY <1>1 DEF ReadDecl, Decl, Graph, Void, NoName
<1>. QED BY <1>3 DEF Graph

(* Nothing that is read has a name that the read-back does not match, and  *)
(* no edge leads to void.                                                  *)
HasWords(ns, hs, fn) ==
    IsWord(ns) /\ IsWord(fn) /\ \E S : hs \in Seq(S) /\ \A h \in S : IsWord(h.name)
AvoidsVoid(es) == \E T : es \in Seq(T) /\ \A e \in T : e.target # Void

IsWordy(g) ==
    \E ns, hs, fn, es :
      /\ g = Graph(ns, hs, [name |-> fn, edges |-> es])
      /\ HasWords(ns, hs, fn) /\ AvoidsVoid(es)

LEMMA Wordy ==
    ASSUME NEW ns, NEW hs, NEW fn, NEW es, HasWords(ns, hs, fn), AvoidsVoid(es)
    PROVE  IsWordy(Graph(ns, hs, [name |-> fn, edges |-> es]))
BY DEF IsWordy

LEMMA NoEdges == AvoidsVoid(<<>>)
<1> DEFINE T == {}
<1>1. <<>> \in Seq(T) /\ \A e \in T : e.target # Void
    OBVIOUS
<1> HIDE DEF T
<1>. QED BY <1>1 DEF AvoidsVoid

LEMMA NothingIsWordy == IsWordy(NothingRead)
<1>1. NothingRead = Graph(NoName, <<>>, [name |-> NoName, edges |-> <<>>])
    BY DEF NothingRead, NoFlow, NoName
<1>2. HasWords(NoName, <<>>, NoName)
  <2> DEFINE S == {}
  <2>1. <<>> \in Seq(S) /\ \A h \in S : IsWord(h.name)
      OBVIOUS
  <2> HIDE DEF S
  <2>. QED BY <2>1, VoidIsWord DEF HasWords
<1>. QED BY <1>1, <1>2, NoEdges, Wordy

LEMMA WordyStep ==
    ASSUME NEW g, IsWordy(g), NEW d
    PROVE  IsWordy(ReadDecl(g, d))
<1>1. PICK ns, hs, fn, es :
        /\ g = Graph(ns, hs, [name |-> fn, edges |-> es])
        /\ HasWords(ns, hs, fn) /\ AvoidsVoid(es)
    BY DEF IsWordy
<1> DEFINE fl == [name |-> fn, edges |-> es]
<1>2. CASE d.node = "namespace" /\ IsWord(d.name)
  <2>1. ReadDecl(g, d) = Graph(d.name, hs, fl)
      BY <1>1, <1>2 DEF ReadDecl, Graph
  <2>2. HasWords(d.name, hs, fn)
      BY <1>1, <1>2 DEF HasWords
  <2>. QED BY <1>1, <2>1, <2>2, Wordy
<1>3. CASE d.node = "handler" /\ IsWord(d.name)
  <2>1. PICK S : hs \in Seq(S) /\ \A x \in S : IsWord(x.name)
      BY <1>1 DEF HasWords
  <2> DEFINE h == Handler(d.name, ParseType(d.in), ParseType(d.out))
             U == S \cup {h}
  <2>2. ReadDecl(g, d) = Graph(ns, Append(hs, h), fl)
      BY <1>1, <1>3 DEF ReadDecl, Graph
  <2>3. h.name = d.name
      BY DEF Handler
  <2> HIDE DEF h
  <2>4. S \subseteq U /\ h \in U /\ \A x \in U : IsWord(x.name)
      BY <1>3, <2>1, <2>3
  <2> HIDE DEF U
  <2>5. Append(hs, h) \in Seq(U)
      BY <2>1, <2>4, SeqMonotonic, AppendProperties
  <2>6. HasWords(ns, Append(hs, h), fn)
      BY <1>1, <2>4, <2>5 DEF HasWords
  <2>. QED BY <1>1, <2>2, <2>6, Wordy
<1>4. CASE d.node = "flow" /\ IsWord(d.name)
  <2>1. ReadDecl(g, d) = Graph(ns, hs, [name |-> d.name, edges |-> <<>>])
      BY <1>1, <1>4 DEF ReadDecl, Graph
  <2>2. HasWords(ns, hs, d.name)
      BY <1>1, <1>4 DEF HasWords
  <2>. QED BY <2>1, <2>2, NoEdges, Wordy
<1>5. CASE d.node = "edge" /\ IsWord(d.name) /\ IsWord(d.target) /\ g.flow # NoFlow
  <2>0. PICK T : es \in Seq(T) /\ \A x \in T : x.target # Void
      BY <1>1 DEF AvoidsVoid
  <2> DEFINE e == Edge(d.name, IF d.target = Void THEN NoName ELSE d.target)
             U == T \cup {e}
  <2>1. ReadDecl(g, d) = [g EXCEPT !.flow.edges = Append(@, e)]
      BY <1>5 DEF ReadDecl, Void, NoName
  <2>2. e.target # Void
      BY VoidIsWord DEF Edge
  <2> HIDE DEF e
  <2>3. ReadDecl(g, d) = Graph(ns, hs, [name |-> fn, edges |-> Append(es, e)])
      BY <1>1, <2>1 DEF Graph
  <2>4. T \subseteq U /\ e \in U /\ \A x \in U : x.target # Void
      BY <2>0, <2>2
  <2> HIDE DEF U
  <2>5. Append(es, e) \in Seq(U)
      BY <2>0, <2>4, SeqMonotonic, AppendProperties
  <2>6. AvoidsVoid(Append(es, e))
      BY <2>4, <2>5 DEF AvoidsVoid
  <2>. QED BY <1>1, <2>3, <2>6, Wordy
<1>6. \/ d.node = "namespace" /\ IsWord(d.name)
      \/ d.node = "handler" /\ IsWord(d.name)
      \/ d.node = "flow" /\ IsWord(d.name)
      \/ d.node = "edge" /\ IsWord(d.name) /\ IsWord(d.target) /\ g.flow # NoFlow
      \/ ReadDecl(g, d) = g
    BY DEF ReadDecl
<1>. QED BY <1>2, <1>3, <1>4, <1>5, <1>6

LEMMA ReadIsWordy ==
    ASSUME NEW text, Len(text) \in Nat
    PROVE  IsWordy(ReadTopo(text))
<1>1. PICK f : IsReading(f, text, Len(text)) /\ ReadTopo(text) = f[Len(text)]
    BY ReadDefined
<1> DEFINE n == Len(text)
           T == {k \in Nat : k \in 0 .. n => IsWordy(f[k])}
<1>2. \A i \in 0 .. n : f[i] = IF i = 0 THEN NothingRead ELSE ReadDecl(f[i - 1], text[i])
    BY <1>1 DEF IsReading
<1>3. 0 \in T
    BY <1>2, NothingIsWordy
<1>4. ASSUME NEW k \in Nat, k \in T PROVE k + 1 \in T
  <2>1. SUFFICES ASSUME k + 1 \in 0 .. n PROVE IsWordy(f[k + 1])
      OBVIOUS
  <2>2. k \in 0 .. n /\ k + 1 # 0 /\ (k + 1) - 1 = k
      BY <2>1
  <2>3. f[k + 1] = ReadDecl(f[k], text[k + 1])
      BY <1>2, <2>1, <2>2
  <2>. QED BY <1>4, <2>2, <2>3, WordyStep
<1>5. Nat \subseteq T
  <2> HIDE DEF T
  <2>. QED BY <1>3, <1>4, Reaches
<1>. QED BY <1>1, <1>5

-----------------------------------------------------------------------------
(* The graphs of programs, and what a legible one is read back as.         *)

AcceptedTypes == {t \in {NoType} \cup Descriptors : Accepted(t)}
GraphHandlers == [name : Names, in : AcceptedTypes, out : AcceptedTypes]
GraphEdges == [source : Names, target : Names \cup {NoName}]
GraphFlows == {NoFlow} \cup [name : Names, edges : Seq(GraphEdges)]

IsHandlerOf(g, name) == \E i \in 1 .. Len(g.handlers) : g.handlers[i].name = name

EndsDeclared(g) ==
    \A i \in 1 .. Len(g.flow.edges) :
      LET e == g.flow.edges[i]
      IN  IsHandlerOf(g, e.source) /\ (e.target = NoName \/ IsHandlerOf(g, e.target))

ProgramGraphs ==
    {g \in [namespace : Names, handlers : Seq(GraphHandlers), flow : GraphFlows] :
       EndsDeclared(g)}

Legible(g) ==
    /\ IsWord(g.namespace)
    /\ \A i \in 1 .. Len(g.handlers) : IsWord(g.handlers[i].name)
    /\ IsWord(g.flow.name)

HandlerRead(h) == Handler(h.name, ParseType(Topo(h.in)), ParseType(Topo(h.out)))
EdgeRead(e) == Edge(e.source, IF e.target = Void THEN NoName ELSE e.target)
FlowRead(fl) ==
    [name |-> fl.name, edges |-> [i \in 1 .. Len(fl.edges) |-> EdgeRead(fl.edges[i])]]
AllRead(handlers) == [i \in 1 .. Len(handlers) |-> HandlerRead(handlers[i])]
ReadBackOf(g) == Graph(g.namespace, AllRead(g.handlers), FlowRead(g.flow))

LEMMA NoFlowIs == NoFlow = [name |-> NoName, edges |-> <<>>]
BY DEF NoFlow, NoName

LEMMA NameIsSome == ASSUME NEW n \in Names PROVE n # NoName
BY LogicGraphAssumption DEF NoName

LEMMA ProgramGraph ==
    ASSUME NEW g \in ProgramGraphs
    PROVE  /\ g = Graph(g.namespace, g.handlers, g.flow)
           /\ g.handlers \in Seq(GraphHandlers)
           /\ Len(g.handlers) \in Nat /\ DOMAIN g.handlers = 1 .. Len(g.handlers)
           /\ \A i \in 1 .. Len(g.handlers) : g.handlers[i] \in GraphHandlers
           /\ g.flow = [name |-> g.flow.name, edges |-> g.flow.edges]
           /\ g.flow.edges \in Seq(GraphEdges)
           /\ Len(g.flow.edges) \in Nat /\ DOMAIN g.flow.edges = 1 .. Len(g.flow.edges)
           /\ \A i \in 1 .. Len(g.flow.edges) : g.flow.edges[i] \in GraphEdges
           /\ \/ g.flow = NoFlow /\ g.flow.name = NoName /\ g.flow.edges = <<>>
              \/ g.flow # NoFlow /\ g.flow.name # NoName
<1>1. /\ g \in [namespace : Names, handlers : Seq(GraphHandlers), flow : GraphFlows]
    BY DEF ProgramGraphs
<1>2. g.handlers \in Seq(GraphHandlers) /\ g.flow \in GraphFlows
    BY <1>1
<1>3. g = Graph(g.namespace, g.handlers, g.flow)
    BY <1>1 DEF Graph
<1> DEFINE hs == g.handlers
           fl == g.flow
<1> HIDE DEF hs, fl
<1>4. /\ Len(hs) \in Nat /\ DOMAIN hs = 1 .. Len(hs)
      /\ \A i \in 1 .. Len(hs) : hs[i] \in GraphHandlers
    BY <1>2, LenProperties, ElementOfSeq DEF hs
<1>5. CASE fl = NoFlow
  <2>1. fl.name = NoName /\ fl.edges = <<>> /\ fl = [name |-> fl.name, edges |-> fl.edges]
      BY <1>5, NoFlowIs
  <2>2. <<>> \in Seq(GraphEdges) /\ Len(<<>>) = 0 /\ DOMAIN <<>> = {} /\ 1 .. 0 = {}
      OBVIOUS
  <2>3. /\ fl.edges \in Seq(GraphEdges) /\ Len(fl.edges) = 0
        /\ DOMAIN fl.edges = 1 .. Len(fl.edges) /\ 1 .. Len(fl.edges) = {}
      BY <2>1, <2>2
  <2>. QED BY <1>2, <1>3, <1>4, <1>5, <2>1, <2>3 DEF hs, fl
<1>6. CASE fl # NoFlow
  <2>1. fl \in [name : Names, edges : Seq(GraphEdges)]
      BY <1>2, <1>6 DEF GraphFlows, fl
  <2>2. /\ fl = [name |-> fl.name, edges |-> fl.edges] /\ fl.edges \in Seq(GraphEdges)
        /\ fl.name # NoName
      BY <2>1, NameIsSome
  <2> DEFINE es == fl.edges
  <2>3. es \in Seq(GraphEdges)
      BY <2>2
  <2> HIDE DEF es
  <2>4. /\ Len(es) \in Nat /\ DOMAIN es = 1 .. Len(es)
        /\ \A i \in 1 .. Len(es) : es[i] \in GraphEdges
      BY <2>3, LenProperties, ElementOfSeq
  <2>. QED BY <1>2, <1>3, <1>4, <1>6, <2>2, <2>4 DEF hs, fl, es
<1>. QED BY <1>5, <1>6

LEMMA HandlersRead ==
    ASSUME NEW g \in ProgramGraphs, Legible(g), NEW text, NEW f, NEW n \in Nat,
           Len(g.handlers) = n, 1 + n <= Len(text), Len(text) \in Nat,
           IsReading(f, text, Len(text)),
           text[1] = NamespaceDecl(g),
           \A k \in 1 .. n : text[1 + k] = HandlerDecl(g.handlers[k])
    PROVE  f[1 + n] = Graph(g.namespace, AllRead(g.handlers), NoFlow)
<1> DEFINE R(k) == [i \in 1 .. k |-> HandlerRead(g.handlers[i])]
           T == {k \in Nat : k \in 0 .. n => f[1 + k] = Graph(g.namespace, R(k), NoFlow)}
<1>1. \A i \in 0 .. Len(text) :
        f[i] = IF i = 0 THEN NothingRead ELSE ReadDecl(f[i - 1], text[i])
    BY DEF IsReading
<1>2. 0 \in T
  <2>1. f[0] = NothingRead /\ f[1] = ReadDecl(f[0], text[1])
      BY <1>1
  <2>2. NothingRead = Graph(NoName, <<>>, NoFlow)
      BY DEF NothingRead, NoName
  <2>3. f[1] = Graph(g.namespace, <<>>, NoFlow)
    <3>1. IsWord(g.namespace)
        BY DEF Legible
    <3>. QED BY <2>1, <2>2, <3>1, ReadNamespace DEF NamespaceDecl
  <2>4. R(0) = <<>>
      OBVIOUS
  <2>. QED BY <2>3, <2>4
<1>3. ASSUME NEW k \in Nat, k \in T PROVE k + 1 \in T
  <2> DEFINE m == k + 1
  <2>1. SUFFICES ASSUME m \in 0 .. n PROVE f[1 + m] = Graph(g.namespace, R(m), NoFlow)
      OBVIOUS
  <2>2. /\ k \in 0 .. n /\ 1 + m \in 0 .. Len(text) /\ 1 + m # 0 /\ (1 + m) - 1 = 1 + k
        /\ m \in 1 .. n
      BY <2>1
  <2> DEFINE h == g.handlers[m]
  <2>3. f[1 + m] = ReadDecl(f[1 + k], HandlerDecl(h))
      BY <1>1, <2>2
  <2>4. f[1 + k] = Graph(g.namespace, R(k), NoFlow)
      BY <1>3, <2>2
  <2>5. IsWord(h.name)
      BY <2>2 DEF Legible
  <2> HIDE DEF h, R
  <2>6. f[1 + m] = Graph(g.namespace, Append(R(k), HandlerRead(h)), NoFlow)
    <3>1. HandlerDecl(h) = Decl("handler", h.name, Topo(h.in), Topo(h.out), NoName)
        BY DEF HandlerDecl, NoName
    <3> DEFINE hs == R(k)
               a == Topo(h.in)
               b == Topo(h.out)
               ns == g.namespace
    <3> HIDE DEF hs, a, b, ns
    <3>2. ReadDecl(Graph(ns, hs, NoFlow), Decl("handler", h.name, a, b, NoName))
          = Graph(ns, Append(hs, Handler(h.name, ParseType(a), ParseType(b))), NoFlow)
        BY <2>5, ReadHandler
    <3>3. f[1 + m] = ReadDecl(Graph(ns, hs, NoFlow), Decl("handler", h.name, a, b, NoName))
        BY <2>3, <2>4, <3>1 DEF hs, a, b, ns
    <3>. QED BY <3>2, <3>3 DEF HandlerRead, hs, a, b, ns
  <2>7. Append(R(k), HandlerRead(h)) = R(m)
    <3> DEFINE x == [i \in 1 .. m |-> HandlerRead(g.handlers[i])]
    <3>1. x[k + 1] = HandlerRead(h) /\ R(k) = [i \in 1 .. k |-> x[i]] /\ R(m) = x
        BY DEF R, h
    <3>2. x = [i \in 1 .. k + 1 |-> x[i]]
        OBVIOUS
    <3> HIDE DEF x
    <3>3. Append([i \in 1 .. k |-> x[i]], x[k + 1]) = [i \in 1 .. k + 1 |-> x[i]]
        BY AppendElement
    <3>. QED BY <3>1, <3>2, <3>3
  <2>. QED BY <2>6, <2>7
<1>4. Nat \subseteq T
  <2> HIDE DEF T
  <2>. QED BY <1>2, <1>3, Reaches
<1>5. f[1 + n] = Graph(g.namespace, R(n), NoFlow)
    BY <1>4
<1>6. R(n) = AllRead(g.handlers)
    BY DEF AllRead
<1>. QED BY <1>5, <1>6

LEMMA EdgesRead ==
    ASSUME NEW g \in ProgramGraphs, Legible(g), g.flow # NoFlow, NEW hs,
           NEW text, NEW f, NEW p \in Nat, NEW m \in Nat,
           Len(g.flow.edges) = m, p + (1 + m) = Len(text),
           IsReading(f, text, Len(text)),
           f[p] = Graph(g.namespace, hs, NoFlow),
           text[p + 1] = FlowDecl(g),
           \A k \in 1 .. m : text[p + (1 + k)] = EdgeDecl(g.flow.edges[k])
    PROVE  f[Len(text)] = Graph(g.namespace, hs, FlowRead(g.flow))
<1> DEFINE R(k) == [i \in 1 .. k |-> EdgeRead(g.flow.edges[i])]
           F(k) == Graph(g.namespace, hs, [name |-> g.flow.name, edges |-> R(k)])
           T == {k \in Nat : k \in 0 .. m => f[p + (1 + k)] = F(k)}
<1>1. \A i \in 0 .. Len(text) :
        f[i] = IF i = 0 THEN NothingRead ELSE ReadDecl(f[i - 1], text[i])
    BY DEF IsReading
<1>2. IsWord(g.flow.name) /\ g.flow.name # NoName
    BY ProgramGraph DEF Legible
<1>3. 0 \in T
  <2>1. p + 1 \in 0 .. Len(text) /\ p + 1 # 0 /\ (p + 1) - 1 = p /\ p + (1 + 0) = p + 1
      OBVIOUS
  <2>2. f[p + 1] = ReadDecl(f[p], FlowDecl(g))
      BY <1>1, <2>1
  <2>3. f[p + 1] = Graph(g.namespace, hs, [name |-> g.flow.name, edges |-> <<>>])
      BY <1>2, <2>2, ReadFlow DEF FlowDecl
  <2>4. R(0) = <<>>
      OBVIOUS
  <2>. QED BY <2>1, <2>3, <2>4
<1>4. ASSUME NEW k \in Nat, k \in T PROVE k + 1 \in T
  <2> DEFINE n == k + 1
             q == p + (1 + n)
  <2>1. SUFFICES ASSUME n \in 0 .. m PROVE f[q] = F(n)
      OBVIOUS
  <2>2. /\ k \in 0 .. m /\ q \in 0 .. Len(text) /\ q # 0 /\ q - 1 = p + (1 + k)
        /\ n \in 1 .. m
      BY <2>1
  <2> DEFINE e == g.flow.edges[n]
             t == IF e.target = NoName THEN Void ELSE e.target
  <2>3. f[q] = ReadDecl(f[p + (1 + k)], EdgeDecl(e))
      BY <1>1, <2>2
  <2>4. f[p + (1 + k)] = F(k)
      BY <1>4, <2>2
  <2>5. EdgeDecl(e) = Decl("edge", e.source, <<>>, <<>>, t)
      BY DEF EdgeDecl, NoName, Void
  <2>6. IsWord(e.source) /\ IsWord(t)
    <3>1. IsHandlerOf(g, e.source) /\ (e.target = NoName \/ IsHandlerOf(g, e.target))
        BY <2>2 DEF ProgramGraphs, EndsDeclared
    <3>2. \A name : IsHandlerOf(g, name) => IsWord(name)
        BY DEF IsHandlerOf, Legible
    <3>. QED BY <3>1, <3>2, VoidIsWord
  <2>7. (IF t = Void THEN NoName ELSE t) = IF e.target = Void THEN NoName ELSE e.target
      OBVIOUS
  <2> HIDE DEF e, t, R, q
  <2>8. f[q] = Graph(g.namespace, hs,
                 [name |-> g.flow.name,
                  edges |-> Append(R(k), Edge(e.source, IF t = Void THEN NoName ELSE t))])
      BY <1>2, <2>3, <2>4, <2>5, <2>6, ReadEdge
  <2>9. Append(R(k), EdgeRead(e)) = R(n)
    <3> DEFINE x == [i \in 1 .. n |-> EdgeRead(g.flow.edges[i])]
    <3>1. x[k + 1] = EdgeRead(e) /\ R(k) = [i \in 1 .. k |-> x[i]] /\ R(n) = x
        BY DEF R, e
    <3>2. x = [i \in 1 .. k + 1 |-> x[i]]
        OBVIOUS
    <3> HIDE DEF x
    <3>3. Append([i \in 1 .. k |-> x[i]], x[k + 1]) = [i \in 1 .. k + 1 |-> x[i]]
        BY AppendElement
    <3>. QED BY <3>1, <3>2, <3>3
  <2>. QED BY <2>7, <2>8, <2>9 DEF EdgeRead
<1>5. Nat \subseteq T
  <2> HIDE DEF T
  <2>. QED BY <1>3, <1>4, Reaches
<1>6. f[p + (1 + m)] = F(m)
    BY <1>5
<1>7. F(m) = Graph(g.namespace, hs, FlowRead(g.flow))
    BY DEF FlowRead
<1>. QED BY <1>6, <1>7

LEMMA LegibleRead ==
    ASSUME NEW g \in ProgramGraphs, Legible(g)
    PROVE  ReadTopo(EmitTopo(g)) = ReadBackOf(g)
<1> DEFINE text == EmitTopo(g)
           n == Len(g.handlers)
           m == Len(g.flow.edges)
           hs == AllRead(g.handlers)
<1>1. n \in Nat /\ m \in Nat
    BY ProgramGraph
<1>2. /\ text[1] = NamespaceDecl(g)
      /\ \A k \in 1 .. n : text[1 + k] = HandlerDecl(g.handlers[k])
      /\ Len(text) = IF g.flow = NoFlow THEN 1 + n ELSE (1 + n) + (1 + m)
      /\ g.flow # NoFlow =>
           /\ text[(1 + n) + 1] = FlowDecl(g)
           /\ \A k \in 1 .. m : text[(1 + n) + (1 + k)] = EdgeDecl(g.flow.edges[k])
    BY <1>1, EmitIs
<1> HIDE DEF text
<1>3. Len(text) \in Nat /\ 1 + n <= Len(text)
  <2> HIDE DEF n, m
  <2>1. Len(text) = 1 + n \/ Len(text) = (1 + n) + (1 + m)
      BY <1>2
  <2>. QED BY <1>1, <2>1
<1>4. PICK f : IsReading(f, text, Len(text)) /\ ReadTopo(text) = f[Len(text)]
    BY <1>3, ReadDefined
<1>5. f[1 + n] = Graph(g.namespace, hs, NoFlow)
  <2> HIDE DEF n
  <2>1. f[1 + n] = Graph(g.namespace, AllRead(g.handlers), NoFlow)
    <3>1. n = Len(g.handlers)
        BY DEF n
    <3>2. IsReading(f, text, Len(text))
        BY <1>4
    <3>3. text[1] = NamespaceDecl(g)
        BY <1>2
    <3>4. \A k \in 1 .. n : text[1 + k] = HandlerDecl(g.handlers[k])
        BY <1>2
    <3>5. n \in Nat
        BY <1>1
    <3>. QED BY <1>3, <3>1, <3>2, <3>3, <3>4, <3>5, HandlersRead
  <2>. QED BY <2>1
<1>6. CASE g.flow = NoFlow
  <2>1. ReadTopo(text) = Graph(g.namespace, hs, NoFlow)
      BY <1>2, <1>4, <1>5, <1>6
  <2>2. g.flow.name = NoName /\ g.flow.edges = <<>>
      BY <1>6, ProgramGraph
  <2>3. [i \in 1 .. Len(g.flow.edges) |-> EdgeRead(g.flow.edges[i])] = <<>>
    <3>1. Len(g.flow.edges) = 0
        BY <2>2
    <3>. QED BY <3>1
  <2>4. NoFlow = FlowRead(g.flow)
      BY <2>2, <2>3, NoFlowIs DEF FlowRead
  <2>. QED BY <2>1, <2>4 DEF ReadBackOf, text
<1>7. CASE g.flow # NoFlow
  <2> DEFINE p == 1 + n
  <2> HIDE DEF n, m, hs
  <2>1. /\ p \in Nat
        /\ p + (1 + m) = Len(text)
        /\ f[p] = Graph(g.namespace, hs, NoFlow)
        /\ text[p + 1] = FlowDecl(g)
        /\ \A k \in 1 .. m : text[p + (1 + k)] = EdgeDecl(g.flow.edges[k])
    <3>1. p \in Nat
        BY <1>1
    <3>2. p + (1 + m) = Len(text)
        BY <1>2, <1>7
    <3>3. f[p] = Graph(g.namespace, hs, NoFlow)
        BY <1>5
    <3>4. text[p + 1] = FlowDecl(g)
        BY <1>2, <1>7
    <3>5. \A k \in 1 .. m : text[p + (1 + k)] = EdgeDecl(g.flow.edges[k])
        BY <1>2, <1>7
    <3>. QED BY <3>1, <3>2, <3>3, <3>4, <3>5
  <2> HIDE DEF p
  <2>2. m = Len(g.flow.edges)
      BY DEF m
  <2>3. f[Len(text)] = Graph(g.namespace, hs, FlowRead(g.flow))
    <3>1. m \in Nat
        BY <1>1
    <3>2. IsReading(f, text, Len(text))
        BY <1>4
    <3>3. g.flow # NoFlow
        BY <1>7
    <3>4. f[p] = Graph(g.namespace, hs, NoFlow)
        BY <2>1
    <3>7. text[p + 1] = FlowDecl(g)
        BY <2>1
    <3>8. p + (1 + m) = Len(text)
        BY <2>1
    <3>9. Len(g.flow.edges) = m
        BY <2>2
    <3>5. \A k \in 1 .. m : text[p + (1 + k)] = EdgeDecl(g.flow.edges[k])
        BY <2>1
    <3>6. p \in Nat
        BY <2>1
    <3>. QED BY <3>1, <3>2, <3>3, <3>4, <3>5, <3>6, <3>7, <3>8, <3>9, EdgesRead
  <2>4. ReadBackOf(g) = Graph(g.namespace, hs, FlowRead(g.flow))
      BY DEF ReadBackOf, hs, n
  <2>. QED BY <1>4, <2>3, <2>4 DEF text
<1>. QED BY <1>6, <1>7

-----------------------------------------------------------------------------
(* What the two comparisons of a graph see of it.                          *)

TripleOf(h) == <<h.name, Topo(h.in), Topo(h.out)>>
Triples(g) == [i \in 1 .. Len(g.handlers) |-> TripleOf(g.handlers[i])]
EdgeDecls(g) == [i \in 1 .. Len(g.flow.edges) |-> EdgeDecl(g.flow.edges[i])]

LEMMA KeyIs ==
    ASSUME NEW g, NEW r
    PROVE  EquivalentTo(g, r) <=>
             /\ g.namespace = r.namespace /\ g.flow.name = r.flow.name
             /\ ToBag(Triples(g)) = ToBag(Triples(r))
             /\ ToBag(g.flow.edges) = ToBag(r.flow.edges)
<1>1. ASSUME NEW x
      PROVE  SemanticKey(x) = [namespace |-> x.namespace, flow |-> x.flow.name,
                               handlers |-> ToBag(Triples(x)),
                               edges |-> ToBag(x.flow.edges)]
    BY DEF SemanticKey, Triples, TripleOf
<1> DEFINE a == ToBag(Triples(g))
           b == ToBag(Triples(r))
           c == ToBag(g.flow.edges)
           d == ToBag(r.flow.edges)
<1>2. /\ SemanticKey(g) = [namespace |-> g.namespace, flow |-> g.flow.name,
                           handlers |-> a, edges |-> c]
      /\ SemanticKey(r) = [namespace |-> r.namespace, flow |-> r.flow.name,
                           handlers |-> b, edges |-> d]
    BY <1>1
<1> HIDE DEF a, b, c, d
<1>3. EquivalentTo(g, r) <=> /\ g.namespace = r.namespace /\ g.flow.name = r.flow.name
                             /\ a = b /\ c = d
    BY <1>2 DEF EquivalentTo
<1>. QED BY <1>3 DEF a, b, c, d

LEMMA SnapshotIs ==
    ASSUME NEW g, NEW r
    PROVE  Snapshot(g) = Snapshot(r) <=>
             /\ g.namespace = r.namespace /\ g.flow.name = r.flow.name
             /\ Triples(g) = Triples(r)
             /\ EdgeDecls(g) = EdgeDecls(r)
<1>1. ASSUME NEW x
      PROVE  Snapshot(x) = [namespace |-> x.namespace, handlers |-> Triples(x),
                            flow |-> x.flow.name, edges |-> EdgeDecls(x)]
    BY DEF Snapshot, Triples, TripleOf, EdgeDecls
<1> DEFINE a == Triples(g)
           b == Triples(r)
           c == EdgeDecls(g)
           d == EdgeDecls(r)
<1>2. /\ Snapshot(g) = [namespace |-> g.namespace, handlers |-> a,
                        flow |-> g.flow.name, edges |-> c]
      /\ Snapshot(r) = [namespace |-> r.namespace, handlers |-> b,
                        flow |-> r.flow.name, edges |-> d]
    BY <1>1
<1> HIDE DEF a, b, c, d
<1>3. Snapshot(g) = Snapshot(r) <=> /\ g.namespace = r.namespace /\ g.flow.name = r.flow.name
                                    /\ a = b /\ c = d
    BY <1>2
<1>. QED BY <1>3 DEF a, b, c, d

LEMMA EqualBags ==
    ASSUME NEW s, NEW t, ToBag(s) = ToBag(t)
    PROVE  Range(s) = Range(t)
<1>1. DOMAIN ToBag(s) = Range(s) /\ DOMAIN ToBag(t) = Range(t)
    BY DEF ToBag
<1>. QED BY <1>1

LEMMA EdgeDeclIs ==
    ASSUME NEW e
    PROVE  EdgeDecl(e) = Decl("edge", e.source, <<>>, <<>>,
                              IF e.target = NoName THEN Void ELSE e.target)
BY DEF EdgeDecl, NoName, Void

(* What was read shows only words, so a graph that looks like it is        *)
(* legible.                                                                *)
LEMMA WordsOnly ==
    ASSUME NEW g, NEW r, IsWordy(r),
           Len(g.handlers) \in Nat, DOMAIN g.handlers = 1 .. Len(g.handlers),
           g.namespace = r.namespace, g.flow.name = r.flow.name,
           Range(Triples(g)) = Range(Triples(r))
    PROVE  Legible(g)
<1>1. PICK ns, hs, fn, es :
        r = Graph(ns, hs, [name |-> fn, edges |-> es]) /\ HasWords(ns, hs, fn)
    BY DEF IsWordy
<1>2. r.namespace = ns /\ r.handlers = hs /\ r.flow.name = fn
    BY <1>1 DEF Graph
<1>3. PICK S : hs \in Seq(S) /\ \A x \in S : IsWord(x.name)
    BY <1>1 DEF HasWords
<1>4. IsWord(g.namespace) /\ IsWord(g.flow.name)
    BY <1>1, <1>2 DEF HasWords
<1>5. ASSUME NEW i \in 1 .. Len(g.handlers) PROVE IsWord(g.handlers[i].name)
  <2>1. Triples(g)[i] = TripleOf(g.handlers[i]) /\ i \in DOMAIN Triples(g)
      BY DEF Triples
  <2>2. TripleOf(g.handlers[i]) \in Range(Triples(r))
      BY <2>1 DEF Range
  <2>3. PICK j \in DOMAIN Triples(r) : TripleOf(g.handlers[i]) = Triples(r)[j]
      BY <2>2 DEF Range
  <2>4. j \in 1 .. Len(hs) /\ Triples(r)[j] = TripleOf(hs[j])
      BY <1>2, <2>3 DEF Triples
  <2>5. hs[j] \in S
      BY <1>3, <2>4, ElementOfSeq
  <2>6. g.handlers[i].name = hs[j].name
      BY <2>3, <2>4 DEF TripleOf
  <2>. QED BY <1>3, <2>5, <2>6
<1>. QED BY <1>4, <1>5 DEF Legible

NoVoidTarget(g) == \A i \in 1 .. Len(g.flow.edges) : g.flow.edges[i].target # Void

LEMMA NoVoidRead ==
    ASSUME NEW g, NEW r, IsWordy(r),
           DOMAIN g.flow.edges = 1 .. Len(g.flow.edges),
           Range(g.flow.edges) = Range(r.flow.edges)
    PROVE  NoVoidTarget(g)
<1>1. PICK ns, hs, fn, es :
        r = Graph(ns, hs, [name |-> fn, edges |-> es]) /\ AvoidsVoid(es)
    BY DEF IsWordy
<1>2. r.flow.edges = es
    BY <1>1 DEF Graph
<1>3. PICK T : es \in Seq(T) /\ \A e \in T : e.target # Void
    BY <1>1 DEF AvoidsVoid
<1> DEFINE gs == g.flow.edges
<1>4. ASSUME NEW i \in 1 .. Len(gs) PROVE gs[i].target # Void
  <2>1. gs[i] \in Range(es)
      BY <1>2 DEF Range
  <2>2. PICK j \in DOMAIN es : gs[i] = es[j]
      BY <2>1 DEF Range
  <2>3. es[j] \in T
      BY <1>3, <2>2, LenProperties, ElementOfSeq
  <2>. QED BY <1>3, <2>2, <2>3
<1>. QED BY <1>4 DEF NoVoidTarget

LEMMA HandlerReadIs ==
    ASSUME NEW h \in GraphHandlers
    PROVE  /\ TripleOf(HandlerRead(h)) = TripleOf(h)
           /\ HandlerRead(h) = h <=> Unnested(h.in) /\ Unnested(h.out)
<1>1. h = Handler(h.name, h.in, h.out) /\ Accepted(h.in) /\ Accepted(h.out)
    BY DEF GraphHandlers, Handler, AcceptedTypes
<1> DEFINE a == h.in
           b == h.out
           c == ParseType(Topo(a))
           d == ParseType(Topo(b))
<1>2. HandlerRead(h) = Handler(h.name, c, d)
    BY DEF HandlerRead
<1>3. Topo(c) = Topo(a) /\ (c = a <=> Unnested(a))
    BY <1>1, TypeRead
<1>4. Topo(d) = Topo(b) /\ (d = b <=> Unnested(b))
    BY <1>1, TypeRead
<1> HIDE DEF c, d
<1>5. TripleOf(Handler(h.name, c, d)) = TripleOf(h)
    BY <1>3, <1>4 DEF TripleOf, Handler
<1>6. Handler(h.name, c, d) = h <=> c = a /\ d = b
  <2> HIDE DEF a, b
  <2>1. h = Handler(h.name, a, b)
      BY <1>1 DEF a, b
  <2>2. Handler(h.name, c, d) = Handler(h.name, a, b) <=> c = a /\ d = b
      BY DEF Handler
  <2>. QED BY <2>1, <2>2
<1>. QED BY <1>2, <1>3, <1>4, <1>5, <1>6

LEMMA EdgeReadIs ==
    ASSUME NEW e \in GraphEdges
    PROVE  /\ EdgeDecl(EdgeRead(e)) = EdgeDecl(e)
           /\ e.target # Void => EdgeRead(e) = e
<1>1. e = Edge(e.source, e.target)
    BY DEF GraphEdges, Edge
<1>2. CASE e.target = Void
  <2>1. EdgeRead(e) = Edge(e.source, NoName)
      BY <1>2 DEF EdgeRead
  <2>2. Edge(e.source, NoName).source = e.source /\ Edge(e.source, NoName).target = NoName
      BY DEF Edge
  <2>. QED BY <1>2, <2>1, <2>2, EdgeDeclIs, VoidIsWord
<1>3. CASE e.target # Void
    BY <1>1, <1>3 DEF EdgeRead
<1>. QED BY <1>2, <1>3

AllUnnested(g) ==
    \A i \in 1 .. Len(g.handlers) :
      Unnested(g.handlers[i].in) /\ Unnested(g.handlers[i].out)

LEMMA ReadBackSeen ==
    ASSUME NEW g \in ProgramGraphs
    PROVE  LET r == ReadBackOf(g)
           IN  /\ r.namespace = g.namespace /\ r.flow.name = g.flow.name
               /\ Triples(r) = Triples(g) /\ EdgeDecls(r) = EdgeDecls(g)
               /\ NoVoidTarget(g) => r.flow.edges = g.flow.edges
               /\ r.flow.edges = g.flow.edges => (r = g <=> AllUnnested(g))
<1> DEFINE r == ReadBackOf(g)
           n == Len(g.handlers)
           m == Len(g.flow.edges)
           hs == [i \in 1 .. n |-> HandlerRead(g.handlers[i])]
           es == [i \in 1 .. m |-> EdgeRead(g.flow.edges[i])]
<1>1. r = Graph(g.namespace, hs, [name |-> g.flow.name, edges |-> es])
    BY DEF ReadBackOf, AllRead, FlowRead
<1>2. /\ n \in Nat /\ m \in Nat /\ DOMAIN g.handlers = 1 .. n /\ DOMAIN g.flow.edges = 1 .. m
      /\ \A i \in 1 .. n : g.handlers[i] \in GraphHandlers
      /\ \A i \in 1 .. m : g.flow.edges[i] \in GraphEdges
      /\ g = Graph(g.namespace, g.handlers, [name |-> g.flow.name, edges |-> g.flow.edges])
    BY ProgramGraph
<1>3. /\ \A i \in 1 .. n : hs[i] = HandlerRead(g.handlers[i])
      /\ \A i \in 1 .. m : es[i] = EdgeRead(g.flow.edges[i])
      /\ Len(hs) = n /\ Len(es) = m
    BY <1>2
<1>4. g.handlers = [i \in 1 .. n |-> g.handlers[i]] /\ g.flow.edges = [i \in 1 .. m |-> g.flow.edges[i]]
  <2>1. g.handlers \in Seq(GraphHandlers) /\ g.flow.edges \in Seq(GraphEdges)
      BY ProgramGraph
  <2> DEFINE x == g.handlers
             y == g.flow.edges
  <2> HIDE DEF x, y
  <2>2. x = [i \in 1 .. Len(x) |-> x[i]]
      BY <2>1 DEF x
  <2>3. y = [i \in 1 .. Len(y) |-> y[i]]
      BY <2>1 DEF y
  <2>. QED BY <2>2, <2>3 DEF x, y
<1>5. hs = g.handlers <=> AllUnnested(g)
  <2>1. hs = g.handlers <=> \A i \in 1 .. n : HandlerRead(g.handlers[i]) = g.handlers[i]
    <3> DEFINE x == g.handlers
    <3>1. x = [i \in 1 .. n |-> x[i]]
        BY <1>4
    <3> HIDE DEF x, n
    <3>2. [i \in 1 .. n |-> HandlerRead(x[i])] = x <=> \A i \in 1 .. n : HandlerRead(x[i]) = x[i]
        BY <3>1
    <3>. QED BY <3>2 DEF x
  <2> HIDE DEF hs
  <2>2. \A i \in 1 .. n : HandlerRead(g.handlers[i]) = g.handlers[i]
                            <=> Unnested(g.handlers[i].in) /\ Unnested(g.handlers[i].out)
      BY <1>2, HandlerReadIs
  <2>. QED BY <2>1, <2>2 DEF AllUnnested
<1>6. NoVoidTarget(g) => es = g.flow.edges
  <2>1. SUFFICES ASSUME NoVoidTarget(g) PROVE es = g.flow.edges
      OBVIOUS
  <2>2. \A i \in 1 .. m : EdgeRead(g.flow.edges[i]) = g.flow.edges[i]
      BY <1>2, <2>1, EdgeReadIs DEF NoVoidTarget
  <2> DEFINE x == g.flow.edges
  <2>3. x = [i \in 1 .. m |-> x[i]] /\ \A i \in 1 .. m : EdgeRead(x[i]) = x[i]
      BY <1>4, <2>2
  <2> HIDE DEF x, m
  <2>4. [i \in 1 .. m |-> EdgeRead(x[i])] = x
      BY <2>3
  <2>. QED BY <2>4 DEF x
<1> HIDE DEF hs, es
<1>7. /\ r.namespace = g.namespace /\ r.handlers = hs
      /\ r.flow.name = g.flow.name /\ r.flow.edges = es
    BY <1>1 DEF Graph
<1>8. Triples(r) = Triples(g)
  <2>1. \A i \in 1 .. n : TripleOf(hs[i]) = TripleOf(g.handlers[i])
      BY <1>2, <1>3, HandlerReadIs
  <2>2. Triples(r) = [i \in 1 .. n |-> TripleOf(hs[i])]
      BY <1>3, <1>7 DEF Triples
  <2>3. Triples(g) = [i \in 1 .. n |-> TripleOf(g.handlers[i])]
      BY DEF Triples
  <2>. QED BY <2>1, <2>2, <2>3
<1>9. EdgeDecls(r) = EdgeDecls(g)
  <2>1. \A i \in 1 .. m : EdgeDecl(es[i]) = EdgeDecl(g.flow.edges[i])
      BY <1>2, <1>3, EdgeReadIs
  <2>2. EdgeDecls(r) = [i \in 1 .. m |-> EdgeDecl(es[i])]
      BY <1>3, <1>7 DEF EdgeDecls
  <2>3. EdgeDecls(g) = [i \in 1 .. m |-> EdgeDecl(g.flow.edges[i])]
      BY DEF EdgeDecls
  <2>. QED BY <2>1, <2>2, <2>3
<1>10. ASSUME es = g.flow.edges PROVE r = g <=> hs = g.handlers
  <2> DEFINE a == g.handlers
             fl == [name |-> g.flow.name, edges |-> g.flow.edges]
             ns == g.namespace
  <2>1. r = Graph(ns, hs, fl) /\ g = Graph(ns, a, fl)
      BY <1>1, <1>2, <1>10
  <2> HIDE DEF a, fl, ns
  <2>2. Graph(ns, hs, fl) = Graph(ns, a, fl) <=> hs = a
      BY DEF Graph
  <2>3. r = g <=> hs = a
      BY <2>1, <2>2
  <2>. QED BY <2>3 DEF a
<1>. QED BY <1>5, <1>6, <1>7, <1>8, <1>9, <1>10

(* The round trip of a program's graph: readTopo(emitTopo(g)) has the same *)
(* semantic key exactly if g is legible and has no edge to void, the same  *)
(* snapshot exactly if g is legible, and with the same key it is g exactly *)
(* if no record of g is in a record.                                       *)
THEOREM RoundTripSeen ==
    ASSUME NEW g \in ProgramGraphs
    PROVE  LET r == ReadTopo(EmitTopo(g))
           IN  /\ EquivalentTo(g, r) <=> Legible(g) /\ NoVoidTarget(g)
               /\ Snapshot(g) = Snapshot(r) <=> Legible(g)
               /\ EquivalentTo(g, r) => (r = g <=> AllUnnested(g))
<1> DEFINE r == ReadTopo(EmitTopo(g))
           n == Len(g.handlers)
           m == Len(g.flow.edges)
<1>1. n \in Nat /\ m \in Nat /\ DOMAIN g.handlers = 1 .. n /\ DOMAIN g.flow.edges = 1 .. m
    BY ProgramGraph
<1>2. IsWordy(r)
  <2> DEFINE text == EmitTopo(g)
  <2>1. Len(text) = IF g.flow = NoFlow THEN 1 + n ELSE (1 + n) + (1 + m)
      BY <1>1, EmitIs
  <2> HIDE DEF text, n, m
  <2>2. Len(text) \in Nat
      BY <1>1, <2>1
  <2>. QED BY <2>2, ReadIsWordy DEF text
<1>3. Legible(g) => r = ReadBackOf(g)
    BY LegibleRead
<1> HIDE DEF r
<1>4. EquivalentTo(g, r) => Legible(g)
  <2>1. SUFFICES ASSUME EquivalentTo(g, r) PROVE Legible(g)
      OBVIOUS
  <2>2. /\ g.namespace = r.namespace /\ g.flow.name = r.flow.name
        /\ ToBag(Triples(g)) = ToBag(Triples(r))
      BY <2>1, KeyIs
  <2>3. Range(Triples(g)) = Range(Triples(r))
      BY <2>2, EqualBags
  <2>. QED BY <1>1, <1>2, <2>2, <2>3, WordsOnly
<1>5. EquivalentTo(g, r) => NoVoidTarget(g)
  <2>1. SUFFICES ASSUME EquivalentTo(g, r) PROVE NoVoidTarget(g)
      OBVIOUS
  <2>2. ToBag(g.flow.edges) = ToBag(r.flow.edges)
      BY <2>1, KeyIs
  <2>3. Range(g.flow.edges) = Range(r.flow.edges)
      BY <2>2, EqualBags
  <2>. QED BY <1>1, <1>2, <2>3, NoVoidRead
<1>6. Snapshot(g) = Snapshot(r) => Legible(g)
  <2>1. SUFFICES ASSUME Snapshot(g) = Snapshot(r) PROVE Legible(g)
      OBVIOUS
  <2>2. /\ g.namespace = r.namespace /\ g.flow.name = r.flow.name
        /\ Triples(g) = Triples(r)
      BY <2>1, SnapshotIs
  <2>. QED BY <1>1, <1>2, <2>2, WordsOnly
<1>7. ASSUME Legible(g)
      PROVE  /\ g.namespace = r.namespace /\ g.flow.name = r.flow.name
             /\ Triples(g) = Triples(r) /\ EdgeDecls(g) = EdgeDecls(r)
             /\ NoVoidTarget(g) => r.flow.edges = g.flow.edges
             /\ r.flow.edges = g.flow.edges => (r = g <=> AllUnnested(g))
    BY <1>3, <1>7, ReadBackSeen
<1>8. Legible(g) => Snapshot(g) = Snapshot(r)
    BY <1>7, SnapshotIs
<1>9. Legible(g) /\ NoVoidTarget(g) => EquivalentTo(g, r)
    BY <1>7, KeyIs
<1>10. EquivalentTo(g, r) => (r = g <=> AllUnnested(g))
    BY <1>4, <1>5, <1>7
<1>. QED BY <1>4, <1>5, <1>6, <1>8, <1>9, <1>10 DEF r

=============================================================================
