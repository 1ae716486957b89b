-------------------------- MODULE ProductConfigProofs --------------------------
(***************************************************************************)
(* Theorems about ProductConfig, for every set of processes and names,     *)
(* every layer, policy and document that the constants may hold.           *)
(***************************************************************************)
EXTENDS ProductConfig, SequenceLemmas, FiniteSetTheorems

-----------------------------------------------------------------------------
(* Nesting: what a layer's tree holds, and where it comes from.            *)

LEMMA VisibleLeaf ==
    ASSUME NEW l, IsLayer(l), NEW kq \in Visible(l)
    PROVE  /\ kq[1] \in DOMAIN l /\ kq[1] \in Keys
           /\ kq[2] \in DOMAIN l[kq[1]] /\ kq[2] \in Seq(Names)
           /\ kq[1] \o kq[2] \in Keys
           /\ l[kq[1]][kq[2]] \in Scalars
<1>1. PICK k \in DOMAIN l : kq \in {k} \X DOMAIN l[k]
    BY DEF Visible
<1>2. kq[1] = k /\ kq[2] \in DOMAIN l[k]
    BY <1>1
<1>3. k \in Keys /\ IsValue(l[k])
    BY DEF IsLayer
<1>4. kq[2] \in Seq(Names) /\ l[k][kq[2]] \in Scalars
    BY <1>2, <1>3 DEF IsValue
<1>5. k \o kq[2] \in Keys
  <2>1. k \in Seq(Names) /\ k # <<>>
      BY <1>3 DEF Keys
  <2>. QED BY <1>4, <2>1, ConcatProperties, ConcatEqualIffEmpty DEF Keys
<1>. QED BY <1>2, <1>3, <1>4, <1>5

LEMMA NestedPath ==
    ASSUME NEW l, NEW path \in DOMAIN Nested(l)
    PROVE  \E kq \in Visible(l) :
             path = kq[1] \o kq[2] /\ Nested(l)[path] = l[kq[1]][kq[2]]
<1>1. path \in {kq[1] \o kq[2] : kq \in Visible(l)}
    BY DEF Nested
<1> DEFINE leaf == CHOOSE kq \in Visible(l) : kq[1] \o kq[2] = path
<1>2. leaf \in Visible(l) /\ leaf[1] \o leaf[2] = path
    BY <1>1
<1>3. Nested(l)[path] = l[leaf[1]][leaf[2]]
    BY <1>1 DEF Nested
<1>. QED BY <1>2, <1>3

LEMMA NestedLeaf ==
    ASSUME NEW l, IsLayer(l), NEW path \in DOMAIN Nested(l)
    PROVE  \E k \in DOMAIN l, q \in Seq(Names) :
             q \in DOMAIN l[k] /\ path = k \o q /\ Nested(l)[path] = l[k][q]
<1>1. PICK kq \in Visible(l) :
        path = kq[1] \o kq[2] /\ Nested(l)[path] = l[kq[1]][kq[2]]
    BY NestedPath
<1> DEFINE k == kq[1]
           q == kq[2]
<1>2. k \in DOMAIN l /\ q \in Seq(Names) /\ q \in DOMAIN l[k]
    BY VisibleLeaf
<1>3. path = k \o q /\ Nested(l)[path] = l[k][q]
    BY <1>1
<1> HIDE DEF k, q
<1>. QED BY <1>2, <1>3

LEMMA NestedIsDocument ==
    ASSUME NEW l, IsLayer(l)
    PROVE  IsDocument(Nested(l))
<1>1. ASSUME NEW path \in DOMAIN Nested(l)
      PROVE  path \in Keys /\ Nested(l)[path] \in Scalars
  <2>1. PICK kq \in Visible(l) :
          path = kq[1] \o kq[2] /\ Nested(l)[path] = l[kq[1]][kq[2]]
      BY NestedPath
  <2>. QED BY <2>1, VisibleLeaf
<1>2. Nested(l) = [path \in DOMAIN Nested(l) |-> Nested(l)[path]]
  <2> DEFINE paths == {kq[1] \o kq[2] : kq \in Visible(l)}
             leaf(path) == CHOOSE kq \in Visible(l) : kq[1] \o kq[2] = path
             at(path) == l[leaf(path)[1]][leaf(path)[2]]
  <2>1. Nested(l) = [path \in paths |-> at(path)]
      BY DEF Nested
  <2> HIDE DEF paths, at
  <2>. QED BY <2>1
<1> DEFINE tree == Nested(l)
<1>3. tree \in [DOMAIN tree -> Scalars]
  <2> HIDE DEF tree
  <2>1. tree = [path \in DOMAIN tree |-> tree[path]]
      BY <1>2 DEF tree
  <2>2. \A path \in DOMAIN tree : tree[path] \in Scalars
      BY <1>1 DEF tree
  <2>. QED BY <2>1, <2>2
<1>. QED BY <1>1, <1>3 DEF IsDocument

LEMMA DocumentIsDocument ==
    ASSUME NEW l, IsLayer(l)
    PROVE  IsDocument(Document(l))
<1> DEFINE tree == Nested(l)
<1>1. IsDocument(tree)
    BY NestedIsDocument
<1>2. Document(l) = [path \in Emitted(tree) |-> ReadScalar(tree[path])]
    BY DEF Document
<1> HIDE DEF tree
<1>3. Emitted(tree) \subseteq DOMAIN tree
    BY DEF Emitted
<1>4. \A path \in Emitted(tree) : ReadScalar(tree[path]) \in Scalars
    BY <1>1, <1>3 DEF IsDocument, ReadScalar, Scalars
<1>5. DOMAIN Document(l) = Emitted(tree)
      /\ Document(l) \in [Emitted(tree) -> Scalars]
    BY <1>2, <1>4
<1>. QED BY <1>1, <1>3, <1>5 DEF IsDocument

(* The part of a tree below a key, as a value.                             *)
LEMMA PartBelow ==
    ASSUME NEW tree, IsDocument(tree), NEW k \in Keys, NEW path \in DOMAIN tree,
           IsPrefix(k, path)
    PROVE  LET q == SubSeq(path, Len(k) + 1, Len(path))
           IN  q \in Seq(Names) /\ path = k \o q
BY PrefixSplits DEF IsDocument, Keys

LEMMA AliasedIsLayer ==
    ASSUME NEW l, IsLayer(l), NEW S \in SUBSET DOMAIN l
    PROVE  IsLayer(Aliased(l, S))
<1> DEFINE tree == Nested(Restrict(l, S))
           part(k) == {SubSeq(path, Len(k) + 1, Len(path)) :
                         path \in {path \in DOMAIN tree : IsPrefix(k, path)}}
           value(k) == IF k \in S /\ IsRecord(l[k])
                       THEN [q \in part(k) |-> tree[k \o q]] ELSE l[k]
<1>1. IsDocument(tree)
  <2>1. IsLayer(Restrict(l, S))
    <3>1. DOMAIN Restrict(l, S) = S /\ \A k \in S : Restrict(l, S)[k] = l[k]
        BY DEF Restrict
    <3>2. Restrict(l, S) = [k \in S |-> Restrict(l, S)[k]]
        BY DEF Restrict
    <3>. QED BY <3>1, <3>2 DEF IsLayer
  <2>. QED BY <2>1, NestedIsDocument
<1> HIDE DEF tree
<1>2. ASSUME NEW k \in DOMAIN l PROVE IsValue(value(k))
  <2>1. CASE k \in S /\ IsRecord(l[k])
    <3>1. k \in Keys
        BY DEF IsLayer
    <3>2. \A q \in part(k) : q \in Seq(Names) /\ k \o q \in DOMAIN tree
        BY <1>1, <3>1, PartBelow
    <3>3. \A q \in part(k) : tree[k \o q] \in Scalars
        BY <1>1, <3>2 DEF IsDocument
    <3> HIDE DEF part
    <3>4. [q \in part(k) |-> tree[k \o q]] \in [part(k) -> Scalars]
        BY <3>3
    <3>5. part(k) \subseteq Seq(Names)
        BY <3>2
    <3>. QED BY <2>1, <3>4, <3>5 DEF IsValue
  <2>2. CASE ~(k \in S /\ IsRecord(l[k]))
      BY <2>2 DEF IsLayer
  <2>. QED BY <2>1, <2>2
<1>3. Aliased(l, S) = [k \in DOMAIN l |-> value(k)]
    BY DEF Aliased, tree
<1> HIDE DEF value
<1>4. DOMAIN l \subseteq Keys
    BY DEF IsLayer
<1> DEFINE m == [k \in DOMAIN l |-> value(k)]
<1>5. DOMAIN m = DOMAIN l /\ m = [k \in DOMAIN l |-> m[k]]
      /\ \A k \in DOMAIN l : m[k] = value(k)
    OBVIOUS
<1> HIDE DEF m
<1>6. IsLayer(m)
    BY <1>2, <1>4, <1>5 DEF IsLayer
<1>. QED BY <1>3, <1>6 DEF m

LEMMA AliasedKeeps ==
    ASSUME NEW l, NEW S, NEW k \in DOMAIN l, ~IsRecord(l[k])
    PROVE  Aliased(l, S)[k] = l[k]
BY DEF Aliased

LEMMA FlattenIsLayer ==
    ASSUME NEW d, IsDocument(d)
    PROVE  IsLayer(Flatten(d))
<1> DEFINE m == [k \in DOMAIN d |-> Scalar(d[k])]
<1>1. DOMAIN m = DOMAIN d /\ m = [k \in DOMAIN d |-> m[k]]
      /\ \A k \in DOMAIN d : m[k] = Scalar(d[k])
    OBVIOUS
<1>2. \A k \in DOMAIN d : d[k] \in Scalars
    BY DEF IsDocument
<1>3. ASSUME NEW s \in Scalars PROVE IsValue(Scalar(s))
  <2>1. <<>> \in Seq(Names)
      BY EmptySeq
  <2>. QED BY <2>1 DEF IsValue, Scalar
<1>4. DOMAIN d \subseteq Keys
    BY DEF IsDocument
<1>5. Flatten(d) = m
    BY DEF Flatten
<1> HIDE DEF m
<1>6. IsLayer(m)
    BY <1>1, <1>2, <1>3, <1>4 DEF IsLayer
<1>. QED BY <1>5, <1>6

LEMMA AssignIsLayer ==
    ASSUME NEW l, IsLayer(l), NEW k \in Keys, NEW v, IsValue(v)
    PROVE  IsLayer(Assign(l, k, v))
<1> DEFINE m == Assign(l, k, v)
<1>1. DOMAIN m = DOMAIN l \cup {k} /\ m = [k2 \in DOMAIN l \cup {k} |-> m[k2]]
      /\ \A k2 \in DOMAIN l \cup {k} : m[k2] = IF k2 = k THEN v ELSE l[k2]
    BY DEF Assign
<1> HIDE DEF m
<1>2. IsLayer(m)
    BY <1>1 DEF IsLayer
<1>. QED BY <1>2 DEF m

-----------------------------------------------------------------------------
(* Layers in which no key is below another: nesting hides nothing, and     *)
(* every leaf of the tree tells which key it belongs to.                   *)

Apart(l) == \A k, k2 \in DOMAIN l : ~IsStrictPrefix(k2, k)

LEMMA ApartOwner ==
    ASSUME NEW l, IsLayer(l), Apart(l), NEW k \in DOMAIN l, NEW q \in Seq(Names),
           NEW k2 \in DOMAIN l, NEW q2 \in Seq(Names),
           k \o q = k2 \o q2
    PROVE  k2 = k /\ q2 = q
<1>1. k \in Seq(Names) /\ k2 \in Seq(Names)
    BY DEF IsLayer, Keys
<1>2. k \o q \in Seq(Names)
    BY <1>1, ConcatProperties
<1>3. /\ IsPrefix(k, k \o q) /\ IsPrefix(k2, k2 \o q2)
      /\ q = SubSeq(k \o q, Len(k) + 1, Len(k \o q))
      /\ q2 = SubSeq(k2 \o q2, Len(k2) + 1, Len(k2 \o q2))
    BY <1>1, PrefixOfConcat
<1>4. IsPrefix(k, k2) \/ IsPrefix(k2, k)
    BY <1>1, <1>2, <1>3, PrefixesCompare
<1>5. k2 = k
    BY <1>4 DEF Apart, IsStrictPrefix
<1>. QED BY <1>3, <1>5

LEMMA ApartNested ==
    ASSUME NEW l, IsLayer(l), Apart(l), NEW k \in DOMAIN l, NEW q \in DOMAIN l[k]
    PROVE  k \o q \in DOMAIN Nested(l) /\ Nested(l)[k \o q] = l[k][q]
<1>1. ~Shadowed(l, k, q)
    BY DEF Shadowed, Apart
<1> DEFINE leaf == <<k, q>>
<1>2. leaf \in Visible(l)
    BY <1>1 DEF Visible
<1>3. k \o q \in DOMAIN Nested(l)
  <2>1. leaf[1] \o leaf[2] = k \o q
      OBVIOUS
  <2> HIDE DEF leaf
  <2>. QED BY <1>2, <2>1 DEF Nested
<1>4. PICK k2 \in DOMAIN l, q2 \in Seq(Names) :
        k \o q = k2 \o q2 /\ Nested(l)[k \o q] = l[k2][q2]
    BY <1>3, NestedLeaf
<1>5. q \in Seq(Names)
    BY DEF IsLayer, IsValue
<1>6. k2 = k /\ q2 = q
  <2>1. k \o q = k2 \o q2
      BY <1>4
  <2> HIDE DEF leaf
  <2>2. q2 \in Seq(Names) /\ k2 \in DOMAIN l
      OBVIOUS
  <2>3. q \in Seq(Names) /\ k \in DOMAIN l
      BY <1>5
  <2>. QED BY <2>1, <2>2, <2>3, ApartOwner, SMTT(30)
<1>. QED BY <1>3, <1>4, <1>6

(* Nesting such a layer leaves its records as they are.                    *)
LEMMA ApartAliased ==
    ASSUME NEW l, IsLayer(l), Apart(l)
    PROVE  Aliased(l, DOMAIN l) = l
<1> DEFINE tree == Nested(l)
           part(k) == {SubSeq(path, Len(k) + 1, Len(path)) :
                         path \in {path \in DOMAIN tree : IsPrefix(k, path)}}
           value(k) == IF k \in DOMAIN l /\ IsRecord(l[k])
                       THEN [q \in part(k) |-> tree[k \o q]] ELSE l[k]
<1>1. Restrict(l, DOMAIN l) = l
    BY DEF Restrict, IsLayer
<1>2. Aliased(l, DOMAIN l) = [k \in DOMAIN l |-> value(k)]
    BY <1>1 DEF Aliased
<1>3. ASSUME NEW k \in DOMAIN l PROVE value(k) = l[k]
  <2>1. k \in Seq(Names)
      BY DEF IsLayer, Keys
  <2>2. ASSUME NEW q \in DOMAIN l[k] PROVE q \in part(k) /\ tree[k \o q] = l[k][q]
    <3>1. q \in Seq(Names)
        BY DEF IsLayer, IsValue
    <3>2. k \o q \in DOMAIN tree /\ tree[k \o q] = l[k][q]
        BY ApartNested
    <3>3. IsPrefix(k, k \o q) /\ SubSeq(k \o q, Len(k) + 1, Len(k \o q)) = q
        BY <2>1, <3>1, PrefixOfConcat
    <3>. QED BY <3>2, <3>3
  <2>3. ASSUME NEW path \in DOMAIN tree, IsPrefix(k, path)
        PROVE  SubSeq(path, Len(k) + 1, Len(path)) \in DOMAIN l[k]
    <3>1. PICK k2 \in DOMAIN l, q2 \in Seq(Names) :
            q2 \in DOMAIN l[k2] /\ path = k2 \o q2
        BY NestedLeaf
    <3>2. k2 = k
      <4>1. k2 \in Seq(Names)
          BY DEF IsLayer, Keys
      <4>2. k2 \o q2 \in Seq(Names) /\ IsPrefix(k2, k2 \o q2)
          BY <4>1, ConcatProperties, PrefixOfConcat
      <4>3. IsPrefix(k, k2) \/ IsPrefix(k2, k)
          BY <2>1, <2>3, <3>1, <4>1, <4>2, PrefixesCompare
      <4>. QED BY <4>3 DEF Apart, IsStrictPrefix
    <3>3. SubSeq(path, Len(k) + 1, Len(path)) = q2
        BY <2>1, <3>1, <3>2, PrefixOfConcat
    <3>. QED BY <3>1, <3>2, <3>3
  <2>4. part(k) = DOMAIN l[k]
      BY <2>2, <2>3
  <2>5. l[k] = [q \in DOMAIN l[k] |-> l[k][q]]
      BY DEF IsLayer, IsValue
  <2>6. CASE IsRecord(l[k])
    <3> HIDE DEF part, tree
    <3>1. value(k) = [q \in part(k) |-> tree[k \o q]]
        BY <2>6
    <3>2. [q \in part(k) |-> tree[k \o q]] = [q \in DOMAIN l[k] |-> l[k][q]]
        BY <2>2, <2>4
    <3>. QED BY <2>5, <3>1, <3>2
  <2>7. CASE ~IsRecord(l[k])
      BY <2>7
  <2>. QED BY <2>6, <2>7
<1>4. l = [k \in DOMAIN l |-> l[k]]
    BY DEF IsLayer
<1> HIDE DEF value
<1>5. [k \in DOMAIN l |-> value(k)] = [k \in DOMAIN l |-> l[k]]
    BY <1>3
<1>. QED BY <1>2, <1>4, <1>5

-----------------------------------------------------------------------------
(* Writing a layer that round-trips, and reading it back.                  *)

LEMMA RoundTripsIsApart ==
    ASSUME NEW l, RoundTrips(l)
    PROVE  Apart(l)
BY DEF RoundTrips, Apart

LEMMA ScalarValue ==
    ASSUME NEW v, IsValue(v), ~IsRecord(v)
    PROVE  v = Scalar(v[<<>>]) /\ <<>> \in DOMAIN v /\ v[<<>>] \in Scalars
<1>1. DOMAIN v = {<<>>}
    BY DEF IsRecord
<1>2. v \in [{<<>>} -> Scalars]
    BY <1>1 DEF IsValue
<1>. QED BY <1>1, <1>2 DEF Scalar

(* The tree of such a layer has its keys for paths.                        *)
LEMMA RoundTripsTree ==
    ASSUME NEW l, IsLayer(l), RoundTrips(l)
    PROVE  /\ DOMAIN Nested(l) = DOMAIN l
           /\ \A k \in DOMAIN l : Nested(l)[k] = l[k][<<>>]
           /\ Emitted(Nested(l)) = DOMAIN l
           /\ Splits(l)
<1>1. Apart(l)
    BY RoundTripsIsApart
<1>2. ASSUME NEW k \in DOMAIN l
      PROVE  /\ DOMAIN l[k] = {<<>>} /\ k \in Seq(Names) /\ k \o <<>> = k
             /\ k \in DOMAIN Nested(l) /\ Nested(l)[k] = l[k][<<>>]
  <2>1. DOMAIN l[k] = {<<>>}
      BY DEF RoundTrips, IsRecord
  <2>2. k \in Seq(Names) /\ k \o <<>> = k
    <3>1. k \in Seq(Names)
        BY DEF IsLayer, Keys
    <3>. QED BY <3>1, ConcatEmptySeq
  <2>3. k \o <<>> \in DOMAIN Nested(l) /\ Nested(l)[k \o <<>>] = l[k][<<>>]
    <3>1. <<>> \in DOMAIN l[k]
        BY <2>1
    <3>. QED BY <1>1, <3>1, ApartNested
  <2>. QED BY <2>1, <2>2, <2>3
<1>3. ASSUME NEW path \in DOMAIN Nested(l) PROVE path \in DOMAIN l
  <2>1. PICK k \in DOMAIN l, q \in Seq(Names) :
          q \in DOMAIN l[k] /\ path = k \o q /\ Nested(l)[path] = l[k][q]
      BY NestedLeaf
  <2>2. q = <<>>
      BY <1>2, <2>1
  <2>. QED BY <1>2, <2>1, <2>2
<1>4. DOMAIN Nested(l) = DOMAIN l
    BY <1>2, <1>3
<1>5. Emitted(Nested(l)) = DOMAIN l
    BY <1>1, <1>4 DEF Emitted, Apart
<1>6. Splits(l)
    BY <1>1, <1>4 DEF Splits, Blocked, Apart
<1>. QED BY <1>2, <1>4, <1>5, <1>6

LEMMA RoundTripsLoads ==
    ASSUME NEW l, IsLayer(l), RoundTrips(l)
    PROVE  Flatten(Document(l)) = l
<1> DEFINE tree == Nested(l)
           d == Document(l)
<1>1. d = [path \in Emitted(tree) |-> ReadScalar(tree[path])]
    BY DEF Document
<1>2. Emitted(tree) = DOMAIN l /\ \A k \in DOMAIN l : tree[k] = l[k][<<>>]
    BY RoundTripsTree
<1> HIDE DEF tree, d
<1>3. DOMAIN d = DOMAIN l /\ \A k \in DOMAIN l : d[k] = ReadScalar(l[k][<<>>])
    BY <1>1, <1>2
<1>4. ASSUME NEW k \in DOMAIN l PROVE Scalar(d[k]) = l[k]
  <2>1. l[k] = Scalar(l[k][<<>>]) /\ l[k][<<>>] # "big"
    <3>1. IsValue(l[k]) /\ ~IsRecord(l[k]) /\ l[k] # Scalar("big")
        BY DEF IsLayer, RoundTrips
    <3>2. l[k] = Scalar(l[k][<<>>])
        BY <3>1, ScalarValue
    <3>. QED BY <3>1, <3>2
  <2>2. d[k] = l[k][<<>>]
      BY <1>3, <2>1 DEF ReadScalar
  <2>. QED BY <2>1, <2>2
<1>5. Flatten(d) = [k \in DOMAIN l |-> Scalar(d[k])]
    BY <1>3 DEF Flatten
<1>6. [k \in DOMAIN l |-> Scalar(d[k])] = [k \in DOMAIN l |-> l[k]]
    BY <1>4
<1>7. l = [k \in DOMAIN l |-> l[k]]
    BY DEF IsLayer
<1>. QED BY <1>5, <1>6, <1>7 DEF d

LEMMA RoundTripsEmits ==
    ASSUME NEW l, IsLayer(l), RoundTrips(l), \A k \in DOMAIN l : Bridged(l[k])
    PROVE  Emits(l)
<1>1. \A k \in DOMAIN l : l[k][<<>>] # "date"
    BY ScalarValue DEF IsLayer, RoundTrips, Bridged
<1>2. \A path \in Emitted(Nested(l)) : Nested(l)[path] # "date"
    BY <1>1, RoundTripsTree
<1>. QED BY <1>2 DEF Emits

(* What is read is free of what does not round-trip, and no key is below   *)
(* another: only the leaves of the tree are written.                       *)
LEMMA LoadedRoundTrips ==
    ASSUME NEW l, IsLayer(l)
    PROVE  RoundTrips(Flatten(Document(l)))
<1> DEFINE tree == Nested(l)
           d == Document(l)
           m == Flatten(d)
<1>1. IsDocument(tree)
    BY NestedIsDocument
<1>2. d = [path \in Emitted(tree) |-> ReadScalar(tree[path])]
    BY DEF Document
<1> HIDE DEF tree
<1>3. /\ DOMAIN d = Emitted(tree) /\ Emitted(tree) \subseteq DOMAIN tree
      /\ \A path \in DOMAIN d : d[path] = ReadScalar(tree[path])
    BY <1>2 DEF Emitted
<1> HIDE DEF d
<1>4. DOMAIN m = DOMAIN d /\ \A k \in DOMAIN d : m[k] = Scalar(d[k])
    BY DEF Flatten
<1>5. \A k, k2 \in DOMAIN d : ~IsStrictPrefix(k2, k)
    BY <1>3 DEF Emitted
<1>6. \A k \in DOMAIN d : d[k] # "big"
    BY <1>3 DEF ReadScalar
<1> HIDE DEF m
<1>7. ASSUME NEW k \in DOMAIN m PROVE m[k] # Scalar("big") /\ ~IsRecord(m[k])
  <2>1. m[k] = Scalar(d[k]) /\ d[k] # "big"
      BY <1>4, <1>6
  <2>2. Scalar(d[k])[<<>>] = d[k] /\ Scalar("big")[<<>>] = "big"
        /\ DOMAIN Scalar(d[k]) = {<<>>}
      BY DEF Scalar
  <2>. QED BY <2>1, <2>2 DEF IsRecord
<1>8. RoundTrips(m)
    BY <1>4, <1>5, <1>7 DEF RoundTrips
<1>. QED BY <1>8 DEF m, d

(* The layer in memory, after it was nested to be written, is what the     *)
(* text holds for exactly the layers that round-trip.                      *)
LEMMA SavedLoads ==
    ASSUME NEW l, IsLayer(l)
    PROVE  Flatten(Document(l)) = Aliased(l, DOMAIN l)
             <=> RoundTrips(Aliased(l, DOMAIN l))
<1> DEFINE m == Aliased(l, DOMAIN l)
<1>1. ASSUME RoundTrips(m) PROVE Flatten(Document(l)) = m
  <2>1. DOMAIN m = DOMAIN l
      BY DEF Aliased
  <2>2. Apart(l)
      BY <1>1, <2>1, RoundTripsIsApart DEF Apart
  <2>3. m = l
      BY <2>2, ApartAliased
  <2>. QED BY <1>1, <2>3, RoundTripsLoads
<1>2. ASSUME Flatten(Document(l)) = m PROVE RoundTrips(m)
    BY <1>2, LoadedRoundTrips
<1>. QED BY <1>1, <1>2

-----------------------------------------------------------------------------
(* The invariant: the types, and that the document a process is writing is *)
(* the one its layer in memory was nested for.                             *)

Typed ==
    /\ live \in [Procs -> BOOLEAN]
    /\ ext = [p \in Procs |-> ext[p]] /\ \A p \in Procs : IsLayer(ext[p])
    /\ inl = [p \in Procs |-> inl[p]] /\ \A p \in Procs : IsLayer(inl[p])
    /\ policies = [p \in Procs |-> policies[p]]
    /\ \A p \in Procs : IsPolicies(policies[p])
    /\ file.state \in {"text", "absent", "garbled"}
    /\ IsDocument(file.doc)

\* d is the text of a layer that nesting turned into m.
TextOf(d, m) ==
    \E l : IsLayer(l) /\ d = Document(l) /\ m = Aliased(l, DOMAIN l)

WritingInv ==
    /\ writing = [p \in Procs |-> writing[p]]
    /\ \A p \in Procs : \A d \in writing[p] : live[p] /\ TextOf(d, ext[p])

IInv == Typed /\ WritingInv

LEMMA NothingIsDocument == IsDocument(NoDocument) /\ IsLayer(NoDocument)
<1> DEFINE e == NoDocument
<1>1. DOMAIN e = {} /\ e = [q \in {} |-> e[q]] /\ e \in [{} -> Scalars]
    BY DEF NoDocument
<1> HIDE DEF e
<1>2. IsDocument(e) /\ IsLayer(e)
    BY <1>1 DEF IsDocument, IsLayer
<1>. QED BY <1>2 DEF e

LEMMA TextOfIsDocument ==
    ASSUME NEW d, NEW m, TextOf(d, m)
    PROVE  IsDocument(d) /\ (Flatten(d) = m <=> RoundTrips(m))
BY DocumentIsDocument, SavedLoads DEF TextOf

LEMMA TornIsDocument ==
    ASSUME Typed, NEW d, IsDocument(d), NEW f \in Torn(d)
    PROVE  f.state \in {"text", "absent", "garbled"} /\ IsDocument(f.doc)
<1>1. CASE f = file
    BY <1>1 DEF Typed
<1>2. CASE f = Garbled
    BY <1>2, NothingIsDocument DEF Garbled
<1>3. ASSUME NEW S \in SUBSET DOMAIN d, f = Text(Restrict(d, S))
      PROVE  f.state = "text" /\ IsDocument(f.doc)
  <2> DEFINE e == Restrict(d, S)
  <2>1. DOMAIN e = S /\ e \in [S -> Scalars]
      BY DEF Restrict, IsDocument
  <2>2. DOMAIN d \subseteq Keys
      BY DEF IsDocument
  <2>3. f.state = "text" /\ f.doc = e
      BY <1>3 DEF Text
  <2> HIDE DEF e
  <2>4. IsDocument(e)
      BY <2>1, <2>2 DEF IsDocument
  <2>. QED BY <2>3, <2>4
<1>. QED BY <1>1, <1>2, <1>3 DEF Torn

LEMMA InitInv == ASSUME Init PROVE IInv
<1>1. live \in [Procs -> BOOLEAN]
    BY DEF Init
<1>2. \A p \in Procs : ext[p] = NoDocument /\ inl[p] = BuiltIn /\ policies[p] = Policies
                       /\ writing[p] = {}
    BY DEF Init
<1>3. /\ ext = [p \in Procs |-> ext[p]] /\ inl = [p \in Procs |-> inl[p]]
      /\ policies = [p \in Procs |-> policies[p]]
      /\ writing = [p \in Procs |-> writing[p]]
    BY DEF Init
<1>4. file.state = "absent" /\ file.doc = NoDocument
    BY DEF Init, Absent
<1>. QED BY <1>1, <1>2, <1>3, <1>4, NothingIsDocument, ConfigAssumption
         DEF IInv, Typed, WritingInv

(* A step of p leaves what the other processes hold.                       *)
Own(p, var, new) == new = [var EXCEPT ![p] = new[p]]

LEMMA OwnGives ==
    ASSUME NEW p \in Procs, NEW var, var = [r \in Procs |-> var[r]], NEW new, Own(p, var, new)
    PROVE  /\ new = [r \in Procs |-> new[r]]
           /\ \A r \in Procs \ {p} : new[r] = var[r]
BY DEF Own

(* One case for every step that only p's own variables and the file are    *)
(* touched by.                                                             *)
LEMMA StepKeeps ==
    ASSUME IInv, NEW p \in Procs,
           live' \in [Procs -> BOOLEAN],
           \A r \in Procs \ {p} : live'[r] = live[r],
           Own(p, ext, ext'), IsLayer(ext'[p]),
           Own(p, inl, inl'), IsLayer(inl'[p]),
           Own(p, policies, policies'), IsPolicies(policies'[p]),
           Own(p, writing, writing'),
           \A d \in writing'[p] : live'[p] /\ TextOf(d, ext'[p]),
           file'.state \in {"text", "absent", "garbled"}, IsDocument(file'.doc)
    PROVE  IInv'
<1>1. /\ ext = [r \in Procs |-> ext[r]] /\ inl = [r \in Procs |-> inl[r]]
      /\ policies = [r \in Procs |-> policies[r]]
      /\ writing = [r \in Procs |-> writing[r]]
    BY DEF IInv, Typed, WritingInv
<1>2. /\ ext' = [r \in Procs |-> ext'[r]] /\ inl' = [r \in Procs |-> inl'[r]]
      /\ policies' = [r \in Procs |-> policies'[r]]
      /\ writing' = [r \in Procs |-> writing'[r]]
    BY <1>1, OwnGives
<1>3. \A r \in Procs \ {p} : /\ ext'[r] = ext[r] /\ inl'[r] = inl[r]
                             /\ policies'[r] = policies[r]
                             /\ writing'[r] = writing[r]
    BY <1>1, OwnGives
<1>4. \A r \in Procs : IsLayer(ext'[r]) /\ IsLayer(inl'[r]) /\ IsPolicies(policies'[r])
    BY <1>3 DEF IInv, Typed
<1>5. \A r \in Procs : \A d \in writing'[r] : live'[r] /\ TextOf(d, ext'[r])
    BY <1>3 DEF IInv, WritingInv
<1>6. Typed'
    BY <1>2, <1>4 DEF Typed
<1>7. WritingInv'
    BY <1>2, <1>5 DEF WritingInv, TextOf
<1>. QED BY <1>6, <1>7 DEF IInv

LEMMA OwnExcept ==
    ASSUME NEW p \in Procs, NEW var, var = [r \in Procs |-> var[r]], NEW v
    PROVE  LET new == [var EXCEPT ![p] = v]
           IN  new[p] = v /\ Own(p, var, new) /\ Own(p, var, var)
BY DEF Own

-----------------------------------------------------------------------------
(* Each operation keeps the invariant.                                     *)

(* What the invariant says of one process.                                 *)
LEMMA InvAt ==
    ASSUME IInv, NEW p \in Procs
    PROVE  /\ IsLayer(ext[p]) /\ IsLayer(inl[p]) /\ IsPolicies(policies[p])
           /\ \A d \in writing[p] : live[p] /\ TextOf(d, ext[p]) /\ IsDocument(d)
           /\ Own(p, ext, ext) /\ Own(p, inl, inl) /\ Own(p, policies, policies)
           /\ Own(p, writing, writing)
           /\ file.state \in {"text", "absent", "garbled"} /\ IsDocument(file.doc)
           /\ live \in [Procs -> BOOLEAN]
<1>1. /\ IsLayer(ext[p]) /\ IsLayer(inl[p]) /\ IsPolicies(policies[p])
      /\ file.state \in {"text", "absent", "garbled"} /\ IsDocument(file.doc)
      /\ live \in [Procs -> BOOLEAN]
    BY DEF IInv, Typed
<1>2. \A d \in writing[p] : live[p] /\ TextOf(d, ext[p]) /\ IsDocument(d)
    BY TextOfIsDocument DEF IInv, WritingInv
<1>3. Own(p, ext, ext) /\ Own(p, inl, inl) /\ Own(p, policies, policies)
      /\ Own(p, writing, writing)
    BY OwnExcept DEF IInv, Typed, WritingInv
<1>. QED BY <1>1, <1>2, <1>3

LEMMA ExceptAt ==
    ASSUME IInv, NEW p \in Procs, NEW v
    PROVE  /\ LET new == [ext EXCEPT ![p] = v] IN new[p] = v /\ Own(p, ext, new)
           /\ LET new == [inl EXCEPT ![p] = v] IN new[p] = v /\ Own(p, inl, new)
           /\ LET new == [policies EXCEPT ![p] = v] IN new[p] = v /\ Own(p, policies, new)
           /\ LET new == [writing EXCEPT ![p] = v] IN new[p] = v /\ Own(p, writing, new)
<1>1. /\ ext = [r \in Procs |-> ext[r]] /\ inl = [r \in Procs |-> inl[r]]
      /\ policies = [r \in Procs |-> policies[r]]
      /\ writing = [r \in Procs |-> writing[r]]
    BY DEF IInv, Typed, WritingInv
<1>. QED BY <1>1, OwnExcept

LEMMA OpenKeeps == ASSUME IInv, NEW p \in Procs, Open(p) PROVE IInv'
<1>1. live' \in [Procs -> BOOLEAN] /\ live'[p] /\ \A r \in Procs \ {p} : live'[r] = live[r]
    BY DEF Open, IInv, Typed
<1>2. ext'[p] = Flatten(file.doc) /\ Own(p, ext, ext')
    BY ExceptAt DEF Open, Load
<1>3. IsLayer(ext'[p])
    BY <1>2, FlattenIsLayer, InvAt
<1>4. writing[p] = {}
    BY InvAt DEF Open
<1>5. UNCHANGED <<inl, policies, writing, file>>
    BY DEF Open
<1>. QED BY <1>1, <1>2, <1>3, <1>4, <1>5, InvAt, StepKeeps

(* The layers a set may leave in memory.                                   *)
LEMMA SetGives ==
    ASSUME IInv, NEW p \in Procs, NEW w \in Writes[p], NEW level,
           Set(p, w[1], w[2], level)
    PROVE  LET l == Assign(ext[p], w[1], w[2])
           IN  /\ IsLayer(l)
               /\ live[p] /\ writing[p] = {} /\ UNCHANGED <<live, inl, policies>>
               /\ \/ UNCHANGED <<ext, writing, file>>
                  \/ /\ Accepts(p, w[1], w[2], level)
                     /\ \E S \in SUBSET DOMAIN l : ext' = [ext EXCEPT ![p] = Aliased(l, S)]
                     /\ UNCHANGED <<writing, file>>
                  \/ /\ Accepts(p, w[1], w[2], level)
                     /\ ext' = [ext EXCEPT ![p] = Aliased(l, DOMAIN l)]
                     /\ writing' = [writing EXCEPT ![p] = {Document(l)}]
                     /\ file' = Truncated
<1> DEFINE l == Assign(ext[p], w[1], w[2])
<1>1. IsLayer(l)
    BY InvAt, AssignIsLayer, ConfigAssumption
<1>2. live[p] /\ writing[p] = {} /\ UNCHANGED <<live, inl, policies>>
    BY DEF Set, Idle
<1>3. \/ Refuse(p, w[1], w[2], level)
      \/ /\ Accepts(p, w[1], w[2], level)
         /\ SplitThrows(p, l) \/ EmitThrows(p, l) \/ OpenFile(p, l)
    BY DEF Set
<1> HIDE DEF l
<1>4. CASE Refuse(p, w[1], w[2], level)
    BY <1>1, <1>2, <1>4 DEF Refuse, l
<1>5. CASE Accepts(p, w[1], w[2], level) /\ SplitThrows(p, l)
  <2>1. PICK S \in SetBeforeThrow(l) : ext' = [ext EXCEPT ![p] = Aliased(l, S)]
      BY <1>5 DEF SplitThrows
  <2>2. S \in SUBSET DOMAIN l
      BY DEF SetBeforeThrow
  <2>3. UNCHANGED <<writing, file>>
      BY <1>5 DEF SplitThrows
  <2>. QED BY <1>1, <1>2, <1>5, <2>1, <2>2, <2>3 DEF l
<1>6. CASE Accepts(p, w[1], w[2], level) /\ EmitThrows(p, l)
  <2>1. ext' = [ext EXCEPT ![p] = Aliased(l, DOMAIN l)] /\ UNCHANGED <<writing, file>>
      BY <1>6 DEF EmitThrows
  <2>2. DOMAIN l \in SUBSET DOMAIN l
      OBVIOUS
  <2>. QED BY <1>1, <1>2, <1>6, <2>1, <2>2 DEF l
<1>7. CASE Accepts(p, w[1], w[2], level) /\ OpenFile(p, l)
  <2>1. /\ ext' = [ext EXCEPT ![p] = Aliased(l, DOMAIN l)]
        /\ \/ writing' = [writing EXCEPT ![p] = {Document(l)}] /\ file' = Truncated
           \/ UNCHANGED <<writing, file>>
      BY <1>7 DEF OpenFile
  <2>2. DOMAIN l \in SUBSET DOMAIN l
      OBVIOUS
  <2>. QED BY <1>1, <1>2, <1>7, <2>1, <2>2 DEF l
<1>. QED BY <1>3, <1>4, <1>5, <1>6, <1>7

LEMMA SetKeeps ==
    ASSUME IInv, NEW p \in Procs, NEW w \in Writes[p], NEW level,
           Set(p, w[1], w[2], level)
    PROVE  IInv'
<1> DEFINE l == Assign(ext[p], w[1], w[2])
<1>1. /\ IsLayer(l) /\ live[p] /\ writing[p] = {} /\ UNCHANGED <<live, inl, policies>>
      /\ \/ UNCHANGED <<ext, writing, file>>
         \/ /\ \E S \in SUBSET DOMAIN l : ext' = [ext EXCEPT ![p] = Aliased(l, S)]
            /\ UNCHANGED <<writing, file>>
         \/ /\ ext' = [ext EXCEPT ![p] = Aliased(l, DOMAIN l)]
            /\ writing' = [writing EXCEPT ![p] = {Document(l)}]
            /\ file' = Truncated
    BY SetGives
<1> HIDE DEF l
<1>2. live' \in [Procs -> BOOLEAN] /\ live'[p] /\ \A r \in Procs \ {p} : live'[r] = live[r]
    BY <1>1, InvAt
<1>3. CASE UNCHANGED <<ext, writing, file>>
    BY <1>1, <1>2, <1>3, InvAt, StepKeeps
<1>4. ASSUME NEW S \in SUBSET DOMAIN l, ext' = [ext EXCEPT ![p] = Aliased(l, S)],
             UNCHANGED <<writing, file>>
      PROVE  IInv'
  <2>1. ext'[p] = Aliased(l, S) /\ Own(p, ext, ext')
      BY <1>4, ExceptAt
  <2>2. IsLayer(ext'[p])
      BY <1>1, <2>1, AliasedIsLayer
  <2>. QED BY <1>1, <1>2, <1>4, <2>1, <2>2, InvAt, StepKeeps
<1>5. ASSUME ext' = [ext EXCEPT ![p] = Aliased(l, DOMAIN l)],
             writing' = [writing EXCEPT ![p] = {Document(l)}], file' = Truncated
      PROVE  IInv'
  <2>1. ext'[p] = Aliased(l, DOMAIN l) /\ Own(p, ext, ext')
      BY <1>5, ExceptAt
  <2>2. writing'[p] = {Document(l)} /\ Own(p, writing, writing')
      BY <1>5, ExceptAt
  <2>3. DOMAIN l \in SUBSET DOMAIN l
      OBVIOUS
  <2>4. IsLayer(ext'[p])
      BY <1>1, <2>1, <2>3, AliasedIsLayer
  <2>5. TextOf(Document(l), ext'[p])
      BY <1>1, <2>1 DEF TextOf
  <2>6. file'.state = "text" /\ IsDocument(file'.doc)
      BY <1>5, NothingIsDocument DEF Truncated, Text
  <2>. QED BY <1>1, <1>2, <2>1, <2>2, <2>4, <2>5, <2>6, InvAt, StepKeeps
<1>. QED BY <1>1, <1>3, <1>4, <1>5

(* A write ends, well or not; a process ends in the middle of one.         *)
LEMMA WriteEnds ==
    ASSUME IInv, NEW p \in Procs, FinishWrite(p) \/ FailWrite(p)
    PROVE  IInv'
<1>1. PICK d \in writing[p] : file' = Text(d) \/ file' = Garbled \/ file' \in Torn(d)
    BY DEF FinishWrite, FailWrite
<1>2. file'.state \in {"text", "absent", "garbled"} /\ IsDocument(file'.doc)
  <2>1. IsDocument(d) /\ Typed
      BY InvAt DEF IInv
  <2>2. CASE file' = Text(d)
      BY <2>1, <2>2 DEF Text
  <2>3. CASE file' = Garbled
      BY <2>3, NothingIsDocument DEF Garbled
  <2>4. CASE file' \in Torn(d)
      BY <2>1, <2>4, TornIsDocument
  <2>. QED BY <1>1, <2>2, <2>3, <2>4
<1>3. writing'[p] = {} /\ Own(p, writing, writing') /\ UNCHANGED <<live, ext, inl, policies>>
    BY ExceptAt DEF FinishWrite, FailWrite
<1>. QED BY <1>2, <1>3, InvAt, StepKeeps

LEMMA StopKeeps == ASSUME IInv, NEW p \in Procs, Stop(p) PROVE IInv'
<1>1. file'.state \in {"text", "absent", "garbled"} /\ IsDocument(file'.doc)
  <2>1. CASE writing[p] = {}
      BY <2>1, InvAt DEF Stop
  <2>2. CASE writing[p] # {}
    <3>1. PICK d \in writing[p] : file' \in Torn(d)
        BY <2>2 DEF Stop
    <3>2. IsDocument(d) /\ Typed
        BY InvAt DEF IInv
    <3>. QED BY <3>1, <3>2, TornIsDocument
  <2>. QED BY <2>1, <2>2
<1>2. live' \in [Procs -> BOOLEAN] /\ \A r \in Procs \ {p} : live'[r] = live[r]
    BY InvAt DEF Stop
<1>3. /\ ext'[p] = NoDocument /\ Own(p, ext, ext')
      /\ inl'[p] = BuiltIn /\ Own(p, inl, inl')
      /\ policies'[p] = Policies /\ Own(p, policies, policies')
      /\ writing'[p] = {} /\ Own(p, writing, writing')
    BY ExceptAt DEF Stop
<1>. QED BY <1>1, <1>2, <1>3, NothingIsDocument, ConfigAssumption, StepKeeps

LEMMA DeclareKeeps ==
    ASSUME IInv, NEW p \in Procs, NEW kp \in Declarations[p], Declare(p, kp[1], kp[2])
    PROVE  IInv'
<1> DEFINE m == Assign(policies[p], kp[1], kp[2])
<1>1. policies'[p] = m /\ Own(p, policies, policies')
    BY ExceptAt DEF Declare
<1>2. /\ DOMAIN m = DOMAIN policies[p] \cup {kp[1]}
      /\ m = [k \in DOMAIN policies[p] \cup {kp[1]} |-> m[k]]
      /\ \A k \in DOMAIN m : m[k] = IF k = kp[1] THEN kp[2] ELSE policies[p][k]
    BY DEF Assign
<1> HIDE DEF m
<1>3. IsPolicies(m)
  <2>1. IsPolicies(policies[p]) /\ kp[2] \in Policy
      BY InvAt, ConfigAssumption
  <2>2. IsFiniteSet(DOMAIN m)
      BY <1>2, <2>1, FS_AddElement DEF IsPolicies
  <2>3. \A k \in DOMAIN m : m[k] \in Policy
      BY <1>2, <2>1 DEF IsPolicies
  <2>. QED BY <1>2, <2>2, <2>3 DEF IsPolicies
<1>4. UNCHANGED <<live, ext, inl, writing, file>>
    BY DEF Declare
<1>. QED BY <1>1, <1>3, <1>4, InvAt, StepKeeps

LEMMA InlinedKeeps ==
    ASSUME IInv, NEW p \in Procs,
           RestoreInlined(p) \/ \E d \in Blocks[p] : DeclareInlined(p, d)
    PROVE  IInv'
<1>1. /\ IsLayer(inl'[p]) /\ Own(p, inl, inl')
      /\ UNCHANGED <<live, ext, policies, writing, file>>
  <2>1. CASE RestoreInlined(p)
    <3>1. PICK S \in SUBSET DOMAIN inl[p] : inl' = [inl EXCEPT ![p] = Aliased(inl[p], S)]
        BY <2>1 DEF RestoreInlined, SetBeforeThrow
    <3>2. inl'[p] = Aliased(inl[p], S) /\ Own(p, inl, inl')
        BY <3>1, ExceptAt
    <3>3. IsLayer(inl'[p])
        BY <3>2, InvAt, AliasedIsLayer
    <3>. QED BY <2>1, <3>2, <3>3 DEF RestoreInlined
  <2>2. ASSUME NEW d \in Blocks[p], DeclareInlined(p, d)
        PROVE  /\ IsLayer(inl'[p]) /\ Own(p, inl, inl')
               /\ UNCHANGED <<live, ext, policies, writing, file>>
    <3>1. inl'[p] = Flatten(d) /\ Own(p, inl, inl')
        BY <2>2, ExceptAt DEF DeclareInlined
    <3>2. IsLayer(inl'[p])
        BY <3>1, FlattenIsLayer, ConfigAssumption
    <3>. QED BY <2>2, <3>1, <3>2 DEF DeclareInlined
  <2>. QED BY <2>1, <2>2
<1>. QED BY <1>1, InvAt, StepKeeps

LEMMA EditKeeps == ASSUME IInv, NEW d \in Edits, Edit(d) PROVE IInv'
<1>1. file'.state = "text" /\ IsDocument(file'.doc)
    BY ConfigAssumption DEF Edit, Text
<1>2. UNCHANGED <<live, ext, inl, policies, writing>>
    BY DEF Edit
<1>. QED BY <1>1, <1>2 DEF IInv, Typed, WritingInv, TextOf

LEMMA NextInv == ASSUME IInv, [Next]_vars PROVE IInv'
<1>1. CASE UNCHANGED vars
    BY <1>1 DEF vars, IInv, Typed, WritingInv, TextOf
<1>2. ASSUME NEW p \in Procs,
             \/ Open(p) \/ FinishWrite(p) \/ FailWrite(p) \/ Stop(p) \/ RestoreInlined(p)
             \/ \E d \in Blocks[p] : DeclareInlined(p, d)
      PROVE  IInv'
    BY <1>2, OpenKeeps, WriteEnds, StopKeeps, InlinedKeeps
<1>3. ASSUME NEW p \in Procs, NEW w \in Writes[p], NEW level \in Levels[p],
             Set(p, w[1], w[2], level)
      PROVE  IInv'
    BY <1>3, SetKeeps
<1>4. ASSUME NEW p \in Procs, NEW kp \in Declarations[p], Declare(p, kp[1], kp[2])
      PROVE  IInv'
    BY <1>4, DeclareKeeps
<1>5. ASSUME NEW d \in Edits, Edit(d) PROVE IInv'
    BY <1>5, EditKeeps
<1>. QED BY <1>1, <1>2, <1>3, <1>4, <1>5 DEF Next

(* Every reachable state has layers, policies and documents in their       *)
(* variables, and what a process is writing is what its layer was nested   *)
(* for (_config_model.mjs, config.mjs).                                    *)
THEOREM Invariance == Spec => []IInv
<1>1. Init => IInv
    BY InitInv
<1>2. IInv /\ [Next]_vars => IInv'
    BY NextInv
<1>. QED BY <1>1, <1>2, PTL DEF Spec

-----------------------------------------------------------------------------
(* The properties.                                                         *)

LEMMA InvType == ASSUME IInv PROVE TypeOK
BY InvAt DEF TypeOK, IInv, Typed

(* The variables have their types.                                         *)
THEOREM TypeCorrect == Spec => []TypeOK
<1>1. IInv => TypeOK
    BY InvType
<1>. QED BY <1>1, Invariance, PTL

LEMMA InvEmbedded == ASSUME IInv PROVE EmbeddedIsRecoverable
BY InvAt, RoundTripsTree, RoundTripsEmits, RoundTripsLoads DEF EmbeddedIsRecoverable

(* The text restoreInlinedToml returns decodes to the embedded layer it    *)
(* was made of, when that holds no records, Dates, big integers or keys    *)
(* below keys (config.mjs, restoreInlinedToml).                            *)
THEOREM EmbeddedRecovered == Spec => []EmbeddedIsRecoverable
<1>1. IInv => EmbeddedIsRecoverable
    BY InvEmbedded
<1>. QED BY <1>1, Invariance, PTL

(* A finite set of numbers has a greatest.                                 *)
LEMMA Greatest ==
    ASSUME NEW T \in SUBSET Nat, IsFiniteSet(T), T # {}
    PROVE  \E top \in T : \A other \in T : other <= top
<1> DEFINE Has(U) == \E top \in U : \A other \in U : other <= top
           Good == {n \in Nat : \A U \in SUBSET Nat :
                      IsFiniteSet(U) /\ Cardinality(U) = n /\ U # {} => Has(U)}
<1>1. 0 \in Good
    BY FS_EmptySet
<1>2. ASSUME NEW n \in Nat, n \in Good PROVE n + 1 \in Good
  <2>1. SUFFICES ASSUME NEW U \in SUBSET Nat, IsFiniteSet(U), Cardinality(U) = n + 1
                 PROVE  U # {} => Has(U)
      OBVIOUS
  <2>2. SUFFICES ASSUME NEW x \in U PROVE Has(U)
      OBVIOUS
  <2>3. IsFiniteSet(U \ {x}) /\ Cardinality(U \ {x}) = n
    <3> HIDE DEF Good, Has
    <3>1. IsFiniteSet(U \ {x}) /\ Cardinality(U \ {x}) = Cardinality(U) - 1
        BY <2>1, FS_RemoveElement
    <3>2. (n + 1) - 1 = n
        OBVIOUS
    <3>. QED BY <2>1, <3>1, <3>2
  <2>4. CASE U \ {x} = {}
      BY <2>4
  <2>5. CASE U \ {x} # {}
    <3>1. PICK top \in U \ {x} : \A other \in U \ {x} : other <= top
        BY <1>2, <2>3, <2>5
    <3>2. CASE x <= top
        BY <3>1, <3>2
    <3>3. CASE top <= x
      <4>1. \A other \in U : other <= x
          BY <3>1, <3>3
      <4>. QED BY <4>1
    <3>. QED BY <3>1, <3>2, <3>3
  <2>. QED BY <2>4, <2>5
<1>3. Nat \subseteq Good
  <2> HIDE DEF Good
  <2>. QED BY <1>1, <1>2, Reaches
<1>4. Cardinality(T) \in Nat
    BY FS_CardinalityType
<1>5. Cardinality(T) \in Good
    BY <1>3, <1>4
<1>. QED BY <1>5

(* The levels that items ask for are finitely many, so one is the highest. *)
LEMMA HighestLevel ==
    ASSUME IInv, NEW p \in Procs
    PROVE  \A k \in AllKeys(p) : MaxReadLevel(p) >= PolicyOf(p, k).readLevel
<1> DEFINE declared == DOMAIN policies[p]
           level == [k \in declared |-> policies[p][k].readLevel]
           asked == {level[k] : k \in declared}
           levels == {0} \cup {PolicyOf(p, k).readLevel : k \in AllKeys(p)}
<1>1. IsFiniteSet(declared) /\ \A k \in declared : policies[p][k].readLevel \in Nat
    BY InvAt DEF IsPolicies, Policy
<1>2. IsFiniteSet(asked)
  <2>1. level \in Surjection(declared, asked)
      BY DEF Surjection
  <2> HIDE DEF level, asked
  <2>. QED BY <1>1, <2>1, FS_Surjection
<1>3. levels \subseteq asked \cup {0}
    BY DEF PolicyOf, DefaultPolicy
<1>4. asked \subseteq Nat
    BY <1>1
<1>5. IsFiniteSet(asked \cup {0})
    BY <1>2, FS_AddElement
<1>6. IsFiniteSet(levels) /\ levels \in SUBSET Nat /\ levels # {}
  <2>1. 0 \in levels
      OBVIOUS
  <2> HIDE DEF levels, asked
  <2>2. levels \in SUBSET (asked \cup {0})
      BY <1>3
  <2>3. IsFiniteSet(levels)
      BY <1>5, <2>2, FS_Subset
  <2>. QED BY <1>4, <2>1, <2>2, <2>3
<1>7. MaxReadLevel(p) = CHOOSE top \in levels : \A other \in levels : other <= top
    BY DEF MaxReadLevel
<1>8. \A k \in AllKeys(p) : PolicyOf(p, k).readLevel \in levels
    OBVIOUS
<1> HIDE DEF levels
<1>9. MaxReadLevel(p) \in levels /\ \A other \in levels : other <= MaxReadLevel(p)
    BY <1>6, <1>7, Greatest
<1>. QED BY <1>6, <1>8, <1>9

LEMMA InvBrowse == ASSUME IInv PROVE BrowseIsComplete
<1> SUFFICES ASSUME NEW p \in Procs
             PROVE  {row.key : row \in Browse(p, {}, MaxReadLevel(p))} = AllKeys(p)
    BY DEF BrowseIsComplete
<1>1. Query(p, {}, MaxReadLevel(p)) = AllKeys(p)
    BY HighestLevel DEF Query
<1> DEFINE row(k) ==
             [key |-> k, effective |-> Resolve(p, k).value, layer |-> Resolve(p, k).layer,
              hasDefault |-> k \in DOMAIN inl[p],
              requiredWriteLevel |-> RequiredLevel(p, k),
              requiredReadLevel |-> PolicyOf(p, k).readLevel]
<1>2. \A k : row(k).key = k
    OBVIOUS
<1>3. Browse(p, {}, MaxReadLevel(p)) = {row(k) : k \in AllKeys(p)}
    BY <1>1 DEF Browse
<1> HIDE DEF row
<1>. QED BY <1>2, <1>3

(* Whatever is declared, embedded, injected or read from a file, at the    *)
(* highest level a browse leaves no key of any layer out                   *)
(* (_config_model.mjs, maxReadLevel and browse).                           *)
THEOREM BrowseComplete == Spec => []BrowseIsComplete
<1>1. IInv => BrowseIsComplete
    BY InvBrowse
<1>. QED BY <1>1, Invariance, PTL

(* What a process whose write nobody disturbed has saved is what the next  *)
(* one loads, for exactly the layers that round-trip (config.mjs:22-24).   *)
THEOREM SavesLoad == Spec => SavedIsLoaded
<1>1. ASSUME IInv, [Next]_vars
      PROVE  [\A p \in Procs : FinishWrite(p) /\ file = Truncated
                => (Load(file') = ext'[p] <=> RoundTrips(ext[p]))]_vars
  <2>1. SUFFICES ASSUME NEW p \in Procs, FinishWrite(p), file = Truncated
                 PROVE  Load(file') = ext'[p] <=> RoundTrips(ext[p])
      OBVIOUS
  <2>2. PICK d \in writing[p] : file' = Text(d)
      BY <2>1 DEF FinishWrite
  <2>3. TextOf(d, ext[p])
      BY <1>1, InvAt
  <2>4. ext'[p] = ext[p]
      BY <2>1 DEF FinishWrite
  <2>5. Load(file') = Flatten(d)
      BY <2>2 DEF Load, Text
  <2>. QED BY <2>3, <2>4, <2>5, TextOfIsDocument
<1>. QED BY <1>1, Invariance, PTL DEF Spec, SavedIsLoaded

(* Only a set that presents the level an item's impact asks for changes    *)
(* its value, unless that is a record (_config_model.mjs:450-455).         *)
LEMMA ChangeIsDeliberate ==
    ASSUME IInv, Next, NEW p \in Procs, NEW k \in DOMAIN ext[p],
           ~IsRecord(ext[p][k]), Changes(p, k)
    PROVE  Deliberate(p, k)
<1>1. live[p] /\ live'[p] /\ ext'[p][k] # ext[p][k]
    BY DEF Changes
<1>2. ASSUME NEW r \in Procs,
             \/ Open(r) \/ FinishWrite(r) \/ FailWrite(r) \/ Stop(r) \/ RestoreInlined(r)
             \/ \E d \in Blocks[r] : DeclareInlined(r, d)
             \/ \E kp \in Declarations[r] : Declare(r, kp[1], kp[2])
      PROVE  FALSE
  <2>1. CASE Open(r)
    <3>1. r # p
        BY <1>1, <2>1 DEF Open
    <3>2. Own(r, ext, ext')
        BY <2>1, ExceptAt DEF Open
    <3>3. ext'[p] = ext[p]
        BY <3>1, <3>2, OwnGives DEF IInv, Typed
    <3>. QED BY <1>1, <3>3
  <2>2. CASE Stop(r)
    <3>1. r # p
        BY <1>1, <2>2, InvAt DEF Stop
    <3>2. Own(r, ext, ext')
        BY <2>2, ExceptAt DEF Stop
    <3>3. ext'[p] = ext[p]
        BY <3>1, <3>2, OwnGives DEF IInv, Typed
    <3>. QED BY <1>1, <3>3
  <2>3. CASE \/ FinishWrite(r) \/ FailWrite(r) \/ RestoreInlined(r)
             \/ \E d \in Blocks[r] : DeclareInlined(r, d)
             \/ \E kp \in Declarations[r] : Declare(r, kp[1], kp[2])
      BY <1>1, <2>3 DEF FinishWrite, FailWrite, RestoreInlined, DeclareInlined, Declare
  <2>. QED BY <1>2, <2>1, <2>2, <2>3
<1>3. ASSUME NEW r \in Procs, NEW w \in Writes[r], NEW level \in Levels[r],
             Set(r, w[1], w[2], level)
      PROVE  Deliberate(p, k)
  <2> DEFINE l == Assign(ext[r], w[1], w[2])
  <2>1. PICK S \in SUBSET DOMAIN l : ext' = [ext EXCEPT ![r] = Aliased(l, S)]
    <3>1. ext' # ext
        BY <1>1
    <3>2. DOMAIN l \in SUBSET DOMAIN l
        OBVIOUS
    <3>. QED BY <1>3, <3>1, <3>2, SetGives
  <2>2. Accepts(r, w[1], w[2], level)
    <3>1. ext' # ext
        BY <1>1
    <3>. QED BY <1>3, <3>1, SetGives
  <2>3. ext'[r] = Aliased(l, S) /\ Own(r, ext, ext')
      BY <2>1, ExceptAt
  <2>4. r = p
    <3>1. SUFFICES ASSUME r # p PROVE FALSE
        OBVIOUS
    <3>2. ext'[p] = ext[p]
        BY <2>3, <3>1, OwnGives DEF IInv, Typed
    <3>. QED BY <1>1, <3>2
  <2>5. w[1] = k
    <3>1. SUFFICES ASSUME w[1] # k PROVE FALSE
        OBVIOUS
    <3>2. k \in DOMAIN l /\ l[k] = ext[p][k]
        BY <2>4, <3>1 DEF Assign
    <3> HIDE DEF l
    <3>3. Aliased(l, S)[k] = l[k]
        BY <3>2, AliasedKeeps
    <3>. QED BY <1>1, <2>3, <2>4, <3>2, <3>3
  <2>6. level >= RequiredLevel(p, k)
      BY <2>2, <2>4, <2>5 DEF Accepts
  <2>7. Set(p, k, w[2], level) /\ w \in Writes[p] /\ level \in Levels[p]
      BY <1>3, <2>4, <2>5
  <2>. QED BY <2>5, <2>6, <2>7 DEF Deliberate
<1>4. ASSUME NEW d \in Edits, Edit(d) PROVE FALSE
    BY <1>1, <1>4 DEF Edit
<1>. QED BY <1>2, <1>3, <1>4 DEF Next

(* A guarded scalar of a running process changes only by a set of that     *)
(* very item with the credential level its impact asks for                 *)
(* (_config_model.mjs, authorizeWrite).                                    *)
THEOREM GuardsHold == Spec => GuardHolds
<1>1. ASSUME IInv, [Next]_vars
      PROVE  [\A p \in Procs : \A k \in (IF live[p] THEN DOMAIN ext[p] ELSE {}) :
                RequiredLevel(p, k) > 0 /\ ~IsRecord(ext[p][k]) /\ Changes(p, k)
                  => Deliberate(p, k)]_vars
    BY <1>1, ChangeIsDeliberate
<1>. QED BY <1>1, Invariance, PTL DEF Spec, GuardHolds

=============================================================================
