--------------------------- MODULE PipelineProofs ---------------------------
(***************************************************************************)
(* Theorems about Pipeline, for any FIRs, plans, exclusions, trust weights *)
(* and bounds.  What the recursive assembly of the evidence yields is      *)
(* shown by the least-number principle, and that the ranking loses nothing *)
(* by counting.                                                            *)
(***************************************************************************)
EXTENDS Pipeline, FiniteSetTheorems, NaturalsInduction, TLAPS

-----------------------------------------------------------------------------
(* Numbers and lists                                                       *)

\* Every set of numbers has a least one: the segments 0 .. n are well-founded.
LEMMA Least ==
  ASSUME NEW T, T \subseteq Nat, T # {}
  PROVE  \E n \in T : \A m \in T : n <= m
<1> DEFINE Segments == {0 .. n : n \in T}
           R == StrictSubsetOrdering(Nat)
<1>1. ASSUME NEW n \in Nat PROVE 0 .. n \in FiniteSubsetsOf(Nat)
  BY FS_Interval DEF FiniteSubsetsOf
<1>2. Segments \subseteq FiniteSubsetsOf(Nat) /\ Segments # {}
  BY <1>1
<1>3. PICK s \in Segments : \A t \in Segments : ~ (<<t, s>> \in R)
  <2> HIDE DEF Segments, R
  <2>1. IsWellFoundedOn(R, FiniteSubsetsOf(Nat))
    BY FS_StrictSubsetOrderingWellFounded DEF R
  <2>2. QED
    BY <1>2, <2>1, WFMin
<1>4. PICK n \in T : s = 0 .. n
  BY <1>3
<1>5. ASSUME NEW m \in T, m < n PROVE FALSE
  <2>1. 0 .. m \subseteq 0 .. n /\ n \in 0 .. n /\ n \notin 0 .. m
    BY <1>5
  <2>2. <<0 .. m, 0 .. n>> \in R
    BY <2>1 DEF StrictSubsetOrdering
  <2>3. QED
    BY <1>3, <1>4, <2>2
<1>6. QED
  BY <1>5

LEMMA SegmentSize ==
  ASSUME NEW N \in Nat
  PROVE  IsFiniteSet(1 .. N) /\ Cardinality(1 .. N) = N
  BY FS_Interval

\* SetToSeq lists every element of a finite set.
LEMMA Listed ==
  ASSUME NEW S, IsFiniteSet(S)
  PROVE  /\ Cardinality(S) \in Nat
         /\ SetToSeq(S) \in [1 .. Cardinality(S) -> S]
         /\ \A x \in S : \E n \in 1 .. Cardinality(S) : SetToSeq(S)[n] = x
<1> DEFINE N == Cardinality(S)
<1>1. N \in Nat /\ ExistsBijection(1 .. N, S)
  BY FS_CardinalityType
<1>2. \E f \in [1 .. N -> S] : IsInjective(f)
  BY <1>1 DEF ExistsBijection, Bijection, Injection
<1>3. SetToSeq(S) \in [1 .. N -> S] /\ IsInjective(SetToSeq(S))
  BY <1>2 DEF SetToSeq
<1>4. SetToSeq(S) \in Injection(1 .. N, S)
  BY <1>3 DEF Injection
<1>5. Cardinality(1 .. N) = N
  BY <1>1, SegmentSize
<1>6. SetToSeq(S) \in Surjection(1 .. N, S)
  BY <1>4, <1>5, FS_Injection
<1>7. QED
  BY <1>1, <1>3, <1>6 DEF Surjection

-----------------------------------------------------------------------------
(* The assembly of the evidence                                            *)

\* An item before it is scored: nothing excludes it, and a graph hit brought the
\* accused with it, also into an item that another source had found.
RawItem == {i \in Item : i.excluded = FALSE /\ ("graph" \in i.sources => i.accused = TRUE)}

LEMMA NewItemRaw ==
  ASSUME NEW f \in Fir, NEW source \in Sources, NEW text \in BOOLEAN
  PROVE  NewItem(f, source, text) \in RawItem /\ NewItem(f, source, text).fir = f
<1>1. PICK graph \in BOOLEAN, sql \in BOOLEAN :
        /\ graph = (source = "graph") /\ sql = (source = "sql")
        /\ "graph" \in {source} => graph = TRUE
  BY Zenon
<1>2. NewItem(f, source, text) =
        [fir |-> f, sources |-> {source}, accused |-> graph, dated |-> sql, text |-> text,
         tier |-> "unscored", score |-> 0, excluded |-> FALSE]
  BY <1>1, Zenon DEF NewItem
<1>3. 0 \in Scores
  BY DEF Scores
<1>4. QED
  BY <1>1, <1>2, <1>3 DEF RawItem, Item, Tiers, Sources

LEMMA AppendedRaw ==
  ASSUME NEW s \in Seq(RawItem), NEW F \in SUBSET Fir, NEW source \in Sources,
         NEW text \in BOOLEAN
  PROVE  /\ Appended(s, F, source, text) \in Seq(RawItem)
         /\ FirsOf(s) \cup F \subseteq FirsOf(Appended(s, F, source, text))
<1> DEFINE hits == SetToSeq(F)
           new == [n \in DOMAIN hits |-> NewItem(hits[n], source, text)]
<1>1. /\ Cardinality(F) \in Nat /\ hits \in [1 .. Cardinality(F) -> F]
      /\ \A f \in F : \E n \in 1 .. Cardinality(F) : hits[n] = f
  BY FirAssumption, FS_Subset, Listed
<1> HIDE DEF hits
<1>2. new \in [1 .. Cardinality(F) -> RawItem]
  BY <1>1, NewItemRaw
<1>3. \A f \in F : \E n \in DOMAIN new : new[n].fir = f
  BY <1>1, NewItemRaw
<1> HIDE DEF new
<1>4. new \in Seq(RawItem) /\ Len(new) = Cardinality(F)
  BY <1>1, <1>2
<1>5. s \o new \in Seq(RawItem)
  BY <1>4
<1>6. ASSUME NEW f \in FirsOf(s) PROVE f \in FirsOf(s \o new)
  <2>1. PICK n \in 1 .. Len(s) : s[n].fir = f
    BY DEF FirsOf
  <2>2. n \in DOMAIN (s \o new) /\ (s \o new)[n] = s[n]
    BY <1>4
  <2>3. QED
    BY <2>1, <2>2 DEF FirsOf
<1>7. ASSUME NEW f \in F PROVE f \in FirsOf(s \o new)
  <2>1. PICK n \in 1 .. Len(new) : new[n].fir = f
    BY <1>3, <1>4
  <2>2. Len(s) + n \in DOMAIN (s \o new) /\ (s \o new)[Len(s) + n] = new[n]
    BY <1>4
  <2>3. QED
    BY <2>1, <2>2 DEF FirsOf
<1>8. Appended(s, F, source, text) = s \o new
  BY DEF Appended, hits, new
<1>9. QED
  BY <1>5, <1>6, <1>7, <1>8

LEMMA WithGraphRaw ==
  ASSUME NEW i \in RawItem
  PROVE  /\ [i EXCEPT !.sources = @ \cup {"graph"}, !.accused = TRUE] \in RawItem
         /\ [i EXCEPT !.sources = @ \cup {"graph"}, !.accused = TRUE].fir = i.fir
<1> DEFINE k == [i EXCEPT !.sources = @ \cup {"graph"}]
           j == [i EXCEPT !.sources = @ \cup {"graph"}, !.accused = TRUE]
<1>1. i \in Item /\ i.excluded = FALSE
  BY DEF RawItem
<1>2. k \in Item
  <2>1. i.sources \cup {"graph"} \in SUBSET Sources
    BY <1>1 DEF Item, Sources
  <2>2. ASSUME NEW S \in SUBSET Sources PROVE [i EXCEPT !.sources = S] \in Item
    BY <1>1 DEF Item
  <2>3. QED
    BY <2>1, <2>2
<1>3. ASSUME NEW b \in BOOLEAN PROVE [k EXCEPT !.accused = b] \in Item
  <2> HIDE DEF k
  <2>1. QED
    BY <1>2 DEF Item
<1>4. j = [k EXCEPT !.accused = TRUE]
  BY <1>1 DEF Item
<1>5. j.accused = TRUE /\ j.excluded = i.excluded /\ j.fir = i.fir
  BY <1>1 DEF Item
<1>6. j \in Item
  <2> HIDE DEF j, k
  <2>1. QED
    BY <1>3, <1>4
<1> HIDE DEF j
<1>7. j \in RawItem
  BY <1>1, <1>5, <1>6 DEF RawItem
<1>8. QED
  BY <1>5, <1>7 DEF j

LEMMA MergedRaw ==
  ASSUME NEW s \in Seq(RawItem), NEW F \in SUBSET Fir
  PROVE  Merged(s, F) \in Seq(RawItem) /\ FirsOf(s) \cup F \subseteq FirsOf(Merged(s, F))
<1> DEFINE First(f) == CHOOSE n \in DOMAIN s :
                         s[n].fir = f /\ \A m \in 1 .. n - 1 : s[m].fir # f
           Met == [n \in DOMAIN s |->
                     IF s[n].fir \in F /\ n = First(s[n].fir)
                     THEN [s[n] EXCEPT !.sources = @ \cup {"graph"}, !.accused = TRUE]
                     ELSE s[n]]
<1>1. Merged(s, F) = Appended(Met, F \ FirsOf(s), "graph", FALSE)
  BY DEF Merged
<1> HIDE DEF First
<1>2. \A n \in DOMAIN s : s[n] \in RawItem
  OBVIOUS
<1>3. ASSUME NEW n \in DOMAIN s PROVE Met[n] \in RawItem /\ Met[n].fir = s[n].fir
  <2>1. CASE s[n].fir \in F /\ n = First(s[n].fir)
    <3>1. Met[n] = [s[n] EXCEPT !.sources = @ \cup {"graph"}, !.accused = TRUE]
      BY <2>1
    <3>2. QED
      BY <1>2, <3>1, WithGraphRaw
  <2>2. CASE ~ (s[n].fir \in F /\ n = First(s[n].fir))
    BY <1>2, <2>2
  <2>3. QED
    BY <2>1, <2>2
<1>4. Met = [n \in 1 .. Len(s) |-> Met[n]]
  OBVIOUS
<1> HIDE DEF Met
<1>a. Met \in Seq(RawItem) /\ DOMAIN Met = DOMAIN s
  <2>1. DOMAIN s = 1 .. Len(s) /\ Len(s) \in Nat
    OBVIOUS
  <2>2. Met \in [1 .. Len(s) -> RawItem]
    BY <1>3, <1>4, <2>1
  <2>3. QED
    BY <2>1, <2>2
<1>5. FirsOf(Met) = FirsOf(s)
  BY <1>3, <1>a DEF FirsOf
<1>6. QED
  BY <1>1, <1>5, <1>a, AppendedRaw DEF Sources

LEMMA AddedRaw ==
  ASSUME NEW s \in Seq(RawItem), NEW F \in SUBSET Fir, NEW source \in Sources,
         NEW text \in BOOLEAN
  PROVE  /\ Added(s, F, source, text) \in Seq(RawItem)
         /\ FirsOf(s) \cup F \subseteq FirsOf(Added(s, F, source, text))
<1>1. CASE source = "graph"
  BY <1>1, MergedRaw DEF Added
<1>2. CASE source = "rag"
  BY <1>2, AppendedRaw DEF Added
<1>3. CASE source = "sql"
  BY <1>3, AppendedRaw DEF Added
<1>4. QED
  BY <1>1, <1>2, <1>3 DEF Sources


\* g[n] is the evidence when the results of the first n steps have been added.
Stages(g, k, p, results, text) ==
  g = [n \in 0 .. k |->
         IF n = 0 THEN << >> ELSE Added(g[n - 1], results[n], p[n], text)]

\* The recursion in Assembled has a solution.
LEMMA StagesExist ==
  ASSUME NEW p \in Seq(Sources), NEW results, NEW text
  PROVE  \E g : Stages(g, Len(p), p, results, text)
<1> DEFINE Bad == {k \in 0 .. Len(p) : ~ \E g : Stages(g, k, p, results, text)}
<1>a. Len(p) \in 0 .. Len(p)
  OBVIOUS
<1>1. SUFFICES ASSUME Bad # {} PROVE FALSE
  BY <1>a, Zenon
<1>2. PICK k \in Bad : \A m \in Bad : k <= m
  <2>1. Bad \subseteq Nat
    OBVIOUS
  <2> HIDE DEF Bad
  <2>2. QED
    BY <1>1, <2>1, Least
<1>3. CASE k = 0
  <2>1. Stages([n \in 0 .. 0 |-> << >>], 0, p, results, text)
    BY DEF Stages
  <2>2. QED
    BY <1>3, <2>1
<1>4. CASE k # 0
  <2>1. k - 1 \in 0 .. Len(p) /\ k - 1 \notin Bad /\ k \in Nat
    <3>1. k \in 0 .. Len(p)
      OBVIOUS
    <3> HIDE DEF Bad
    <3>2. QED
      BY <1>2, <1>4, <3>1
  <2>2. PICK h : Stages(h, k - 1, p, results, text)
    BY <2>1
  <2> DEFINE g == [n \in 0 .. k |->
                     IF n = k THEN Added(h[k - 1], results[k], p[k], text) ELSE h[n]]
  <2>3. ASSUME NEW n \in 0 .. k
        PROVE  g[n] = IF n = 0 THEN << >> ELSE Added(g[n - 1], results[n], p[n], text)
    <3>1. CASE n = k
      BY <1>4, <2>1, <3>1
    <3>2. CASE n # k
      <4>1. n \in 0 .. k - 1
        BY <2>1, <3>2
      <4>2. h[n] = IF n = 0 THEN << >> ELSE Added(h[n - 1], results[n], p[n], text)
        BY <2>2, <4>1 DEF Stages
      <4>3. g[n] = h[n] /\ (n # 0 => g[n - 1] = h[n - 1])
        BY <2>1, <4>1
      <4>4. QED
        BY <4>2, <4>3
    <3>3. QED
      BY <3>1, <3>2
  <2>4. Stages(g, k, p, results, text)
    <3>1. g = [n \in 0 .. k |-> g[n]]
      OBVIOUS
    <3> HIDE DEF g
    <3>2. QED
      BY <2>3, <3>1 DEF Stages
  <2> HIDE DEF g
  <2>5. QED
    BY <1>2, <2>4
<1>5. QED
  BY <1>3, <1>4

\* What is assembled is not scored yet, and it holds every FIR that a source found.
LEMMA AssembledRaw ==
  ASSUME NEW p \in Seq(Sources), NEW results \in [DOMAIN p -> SUBSET Fir],
         NEW text \in BOOLEAN
  PROVE  /\ Assembled(p, results, text) \in Seq(RawItem)
         /\ UNION {results[n] : n \in DOMAIN p} \subseteq FirsOf(Assembled(p, results, text))
<1> DEFINE upTo == CHOOSE g : Stages(g, Len(p), p, results, text)
           Good(n) == /\ upTo[n] \in Seq(RawItem)
                      /\ \A m \in 1 .. n : results[m] \subseteq FirsOf(upTo[n])
           Bad == {n \in 0 .. Len(p) : ~ Good(n)}
<1>1. Assembled(p, results, text) = upTo[Len(p)]
  BY Zenon DEF Assembled, Stages
<1>2. Stages(upTo, Len(p), p, results, text)
  BY StagesExist
<1>3. /\ upTo[0] = << >>
      /\ \A n \in 1 .. Len(p) : upTo[n] = Added(upTo[n - 1], results[n], p[n], text)
  <2> HIDE DEF upTo
  <2>1. QED
    BY <1>2 DEF Stages
<1> HIDE DEF upTo
<1>4. ASSUME Bad # {} PROVE FALSE
  <2>1. PICK n \in Bad : \A m \in Bad : n <= m
    <3>1. Bad \subseteq Nat
      OBVIOUS
    <3> HIDE DEF Bad
    <3>2. QED
      BY <1>4, <3>1, Least
  <2>2. CASE n = 0
    <3>1. << >> \in Seq(RawItem) /\ 1 .. 0 = {}
      OBVIOUS
    <3>2. Good(0)
      BY <1>3, <3>1
    <3>3. QED
      BY <2>1, <2>2, <3>2
  <2>3. CASE n # 0
    <3>1. n \in 1 .. Len(p) /\ n - 1 \in 0 .. Len(p) /\ n - 1 \notin Bad
      BY <2>1, <2>3
    <3>2. Good(n - 1)
      BY <3>1
    <3>3. upTo[n] = Added(upTo[n - 1], results[n], p[n], text)
      BY <1>3, <3>1
    <3>4. /\ upTo[n] \in Seq(RawItem)
          /\ FirsOf(upTo[n - 1]) \cup results[n] \subseteq FirsOf(upTo[n])
      BY <3>1, <3>2, <3>3, AddedRaw
    <3>5. \A m \in 1 .. n : m = n \/ m \in 1 .. n - 1
      BY <3>1
    <3>6. Good(n)
      BY <3>2, <3>4, <3>5
    <3>7. QED
      BY <2>1, <3>6
  <2>4. QED
    BY <2>2, <2>3
<1>5. Good(Len(p))
  BY <1>4
<1>6. QED
  BY <1>1, <1>5


-----------------------------------------------------------------------------
(* The ranking                                                             *)

Before(s, n) ==
  {m \in DOMAIN s : s[m].score > s[n].score \/ (s[m].score = s[n].score /\ m <= n)}

LEMMA ScoresAreNatural ==
  \A x \in Scores : x \in Nat
  BY DEF Scores

LEMMA ScoresAreNumbers ==
  ASSUME NEW s \in Seq(Item), NEW n \in DOMAIN s
  PROVE  n \in Nat /\ s[n] \in Item /\ s[n].score \in Nat
<1>1. n \in Nat /\ s[n] \in Item
  OBVIOUS
<1>2. s[n].score \in Scores
  BY <1>1 DEF Item
<1>3. QED
  BY <1>1, <1>2, ScoresAreNatural

LEMMA PlaceIsIn ==
  ASSUME NEW s \in Seq(Item), NEW n \in DOMAIN s
  PROVE  /\ IsFiniteSet(Before(s, n)) /\ Place(s, n) = Cardinality(Before(s, n))
         /\ Place(s, n) \in 1 .. Len(s)
<1>1. DOMAIN s = 1 .. Len(s) /\ Len(s) \in Nat
  OBVIOUS
<1>2. IsFiniteSet(DOMAIN s) /\ Cardinality(DOMAIN s) = Len(s)
  <2>1. IsFiniteSet(1 .. Len(s)) /\ Cardinality(1 .. Len(s)) = Len(s)
    BY <1>1, SegmentSize
  <2>2. QED
    BY <1>1, <2>1
<1>3. Before(s, n) \in SUBSET DOMAIN s /\ n \in Before(s, n)
  BY ScoresAreNumbers DEF Before
<1>4. IsFiniteSet(Before(s, n)) /\ Cardinality(Before(s, n)) <= Len(s)
  BY <1>2, <1>3, FS_Subset
<1>5. Cardinality(Before(s, n)) \in Nat /\ Cardinality(Before(s, n)) # 0
  BY <1>3, <1>4, FS_CardinalityType, FS_EmptySet
<1>6. Place(s, n) = Cardinality(Before(s, n))
  BY DEF Place, Before
<1>7. QED
  BY <1>1, <1>4, <1>5, <1>6

\* Of two items, the one that comes before the other has the smaller place.
LEMMA PlaceGrows ==
  ASSUME NEW s \in Seq(Item), NEW m \in DOMAIN s, NEW n \in DOMAIN s, m # n,
         m \in Before(s, n)
  PROVE  Place(s, m) < Place(s, n)
<1>1. \A k \in DOMAIN s : k \in Nat /\ s[k].score \in Nat
  BY ScoresAreNumbers
<1>2. Before(s, m) \subseteq Before(s, n)
  BY <1>1 DEF Before
<1>3. n \in Before(s, n) /\ n \notin Before(s, m)
  BY <1>1 DEF Before
<1>4. Cardinality(Before(s, m)) <= Cardinality(Before(s, n))
      /\ Cardinality(Before(s, m)) # Cardinality(Before(s, n))
  BY <1>2, <1>3, FS_Subset, PlaceIsIn
<1>5. QED
  BY <1>4, PlaceIsIn

LEMMA OneIsBefore ==
  ASSUME NEW s \in Seq(Item), NEW m \in DOMAIN s, NEW n \in DOMAIN s
  PROVE  m \in Before(s, n) \/ n \in Before(s, m)
  BY ScoresAreNumbers DEF Before

\* Every place is taken by exactly one item.
LEMMA Placed ==
  ASSUME NEW s \in Seq(Item)
  PROVE  /\ \A m, n \in DOMAIN s : Place(s, m) = Place(s, n) => m = n
         /\ \A k \in DOMAIN s : \E n \in DOMAIN s : Place(s, n) = k
<1> DEFINE place == [n \in DOMAIN s |-> Place(s, n)]
<1>1. DOMAIN s = 1 .. Len(s) /\ Len(s) \in Nat
  OBVIOUS
<1>2. \A n \in DOMAIN s : Place(s, n) \in 1 .. Len(s)
  BY PlaceIsIn
<1>3. ASSUME NEW m \in DOMAIN s, NEW n \in DOMAIN s, Place(s, m) = Place(s, n), m # n
      PROVE  FALSE
  <2>1. Place(s, m) < Place(s, n) \/ Place(s, n) < Place(s, m)
    BY <1>3, OneIsBefore, PlaceGrows
  <2>2. QED
    BY <1>2, <1>3, <2>1
<1>4. place \in Injection(1 .. Len(s), 1 .. Len(s))
  BY <1>1, <1>2, <1>3 DEF Injection, IsInjective
<1>5. place \in Surjection(1 .. Len(s), 1 .. Len(s))
  <2> HIDE DEF place
  <2>1. IsFiniteSet(1 .. Len(s))
    BY <1>1, SegmentSize
  <2>2. QED
    BY <1>4, <2>1, FS_Injection
<1>6. ASSUME NEW k \in DOMAIN s PROVE \E n \in DOMAIN s : Place(s, n) = k
  <2>1. \A t \in 1 .. Len(s) : \E n \in 1 .. Len(s) : place[n] = t
    <3> HIDE DEF place
    <3>1. QED
      BY <1>5 DEF Surjection
  <2>2. QED
    BY <1>1, <2>1
<1>7. QED
  BY <1>3, <1>6

\* The ranking is a permutation of the evidence, by descending score.
LEMMA RankedPermutes ==
  ASSUME NEW S \in SUBSET Item, NEW s \in Seq(S)
  PROVE  /\ Ranked(s) \in Seq(S)
         /\ \A n \in DOMAIN s : \E k \in DOMAIN Ranked(s) : Ranked(s)[k] = s[n]
         /\ \A k \in DOMAIN Ranked(s) : \E n \in DOMAIN s : Ranked(s)[k] = s[n]
         /\ \A k, l \in DOMAIN Ranked(s) :
              k < l => Ranked(s)[l].score <= Ranked(s)[k].score
<1> DEFINE At(k) == CHOOSE n \in DOMAIN s : Place(s, n) = k
<1>1. DOMAIN s = 1 .. Len(s) /\ Len(s) \in Nat /\ s \in Seq(Item)
  OBVIOUS
<1>2. Ranked(s) = [k \in DOMAIN s |-> s[At(k)]]
  BY DEF Ranked
<1>3. \A k \in DOMAIN s : At(k) \in DOMAIN s /\ Place(s, At(k)) = k
  BY <1>1, Placed
<1> HIDE DEF At
<1>4. Ranked(s) \in Seq(S) /\ DOMAIN Ranked(s) = DOMAIN s
  <2>1. Ranked(s) \in [1 .. Len(s) -> S]
    BY <1>1, <1>2, <1>3
  <2>2. QED
    BY <1>1, <2>1
<1>5. ASSUME NEW n \in DOMAIN s PROVE \E k \in DOMAIN Ranked(s) : Ranked(s)[k] = s[n]
  <2>1. Place(s, n) \in DOMAIN s
    BY <1>1, PlaceIsIn
  <2>2. At(Place(s, n)) = n
    BY <1>1, <1>3, <2>1, Placed
  <2>3. QED
    BY <1>2, <1>4, <2>1, <2>2
<1>6. ASSUME NEW k \in DOMAIN s, NEW l \in DOMAIN s, k < l
      PROVE  Ranked(s)[l].score <= Ranked(s)[k].score
  <2>1. At(k) \in DOMAIN s /\ At(l) \in DOMAIN s
    BY <1>3
  <2>2. s[At(k)].score \in Nat /\ s[At(l)].score \in Nat
    BY <1>1, <2>1, ScoresAreNumbers
  <2>3. CASE At(k) \in Before(s, At(l))
    BY <1>2, <2>1, <2>2, <2>3 DEF Before
  <2>4. CASE At(l) \in Before(s, At(k))
    <3>1. At(l) # At(k)
      BY <1>1, <1>3, <1>6
    <3>2. Place(s, At(l)) < Place(s, At(k))
      BY <1>1, <2>1, <2>4, <3>1, PlaceGrows
    <3>3. QED
      BY <1>1, <1>3, <1>6, <3>2
  <2>5. QED
    BY <1>1, <2>1, <2>3, <2>4, OneIsBefore
<1>7. QED
  BY <1>2, <1>3, <1>4, <1>5, <1>6


-----------------------------------------------------------------------------
(* The scores                                                              *)

\* The scores of items that are not excluded, and of those that are.
Upper == 625 .. 7920
Lower == 0 .. 396

LEMMA UpperAre ==
  \A n \in Nat : n \in Upper <=> 625 <= n /\ n <= 7920
  BY DEF Upper

LEMMA LowerIsLower ==
  /\ \A u \in Upper : u \in Nat /\ u \in Scores /\ (u * 5 + 50) \div 100 \in Lower
  /\ \A l \in Lower : l \in Nat /\ l \in Scores
  /\ \A u \in Upper, l \in Lower : l < u
<1>1. ASSUME NEW u \in Upper PROVE u \in Nat
  BY DEF Upper
<1>2. ASSUME NEW u \in Upper PROVE u \in Scores
  BY DEF Upper, Scores
<1>3. ASSUME NEW u \in Upper PROVE (u * 5 + 50) \div 100 \in Lower
  BY DEF Upper, Lower
<1>4. ASSUME NEW l \in Lower PROVE l \in Nat /\ l \in Scores
  BY DEF Lower, Scores
<1>5. ASSUME NEW u \in Upper, NEW l \in Lower PROVE l < u
  BY DEF Upper, Lower
<1>6. QED
  BY <1>1, <1>2, <1>3, <1>4, <1>5

\* The weighted sum of the scores of an item, before the trust in its source.
LEMMA BaseBounds ==
  ASSUME NEW i \in Item
  PROVE  Base(i) \in Nat /\ 4155 <= Base(i) /\ Base(i) <= 8000
<1>1. Convergence(i) \in {55, 65, 75, 100}
  BY DEF Convergence
<1>2. Strength(i) \in {27, 30, 45, 50}
  <2>1. (30 * 90) \div 100 = 27 /\ (50 * 90) \div 100 = 45
    OBVIOUS
  <2>2. QED
    BY <2>1 DEF Strength
<1>3. RecencyOf(i) \in {40, 50, 60, 80, 100}
  <2>1. i.fir \in Fir
    BY DEF Item
  <2>2. QED
    BY <2>1, RecencyAssumption DEF RecencyOf
<1>4. QED
  BY <1>1, <1>2, <1>3 DEF Base

LEMMA FinalBounds ==
  ASSUME NEW b \in Nat, NEW t \in 30 .. 99, 4155 <= b, b <= 8000
  PROVE  /\ (b * t) \div 100 \in Nat
         /\ 1246 <= (b * t) \div 100 /\ (b * t) \div 100 <= 7920
<1>1. 4155 * 30 <= b * 30 /\ b * 99 <= 8000 * 99
  OBVIOUS
<1>2. b * 30 <= b * t /\ b * t <= b * 99
  OBVIOUS
<1>3. b * t \in Nat /\ 124650 <= b * t /\ b * t <= 792000
  BY <1>1, <1>2
<1>4. QED
  BY <1>3

\* However low the trust and whatever was rejected, at least 0.0625 is left.
LEMMA PenalisedBounds ==
  ASSUME NEW final \in Nat, 1246 <= final, final <= 7920, NEW penalty \in BOOLEAN
  PROVE  Penalised(Rounded(final), penalty) \in Upper
<1>1. Rounded(final) \in Nat /\ 1250 <= Rounded(final) /\ Rounded(final) <= 7920
  BY DEF Rounded
<1>2. CASE penalty
  BY <1>1, <1>2, UpperAre DEF Penalised
<1>3. CASE ~ penalty
  BY <1>1, <1>3, UpperAre DEF Penalised
<1>4. QED
  BY <1>2, <1>3


LEMMA TiersAre ==
  ASSUME NEW final, NEW flagged, NEW score
  PROVE  TierAfter(AssignTier(final, flagged), score) \in Tiers
<1>1. AssignTier(final, flagged) \in Tiers
  BY DEF AssignTier, Tiers
<1>2. "low" \in Tiers
  BY DEF Tiers
<1>3. QED
  BY <1>1, <1>2 DEF TierAfter

\* Scoring leaves an item what it is, with a score from 0.0625 to 0.792.
LEMMA ScoredBounds ==
  ASSUME NEW i \in RawItem, NEW trust \in 30 .. 99, NEW penalty \in BOOLEAN
  PROVE  /\ Scored(i, trust, penalty) \in RawItem
         /\ Scored(i, trust, penalty).score \in Upper
         /\ Scored(i, trust, penalty).fir = i.fir
         /\ Scored(i, trust, penalty).sources = i.sources
<1> DEFINE final == (Base(i) * trust) \div 100
           score == Penalised(Rounded(final), penalty)
           tier == TierAfter(AssignTier(final, Flagged(i)), score)
           k == [i EXCEPT !.tier = tier]
           j == [i EXCEPT !.tier = tier, !.score = score]
<1>1. i \in Item /\ i.excluded = FALSE /\ ("graph" \in i.sources => i.accused = TRUE)
  BY DEF RawItem
<1>2. tier \in Tiers
  BY TiersAre
<1>3. final \in Nat /\ 1246 <= final /\ final <= 7920
  BY <1>1, BaseBounds, FinalBounds
<1>4. score \in Upper
  <2> HIDE DEF final
  <2>1. QED
    BY <1>3, PenalisedBounds
<1>5. Scored(i, trust, penalty) = j
  BY DEF Scored
<1> HIDE DEF final, score, tier
<1>6. score \in Scores
  BY <1>4, LowerIsLower
<1>7. k \in Item
  BY <1>1, <1>2 DEF Item
<1>8. j = [k EXCEPT !.score = score]
  BY <1>1 DEF Item
<1>9. /\ j.accused = i.accused /\ j.excluded = i.excluded /\ j.fir = i.fir
      /\ j.sources = i.sources /\ j.score = score
  BY <1>1 DEF Item
<1>10. j \in Item
  <2> HIDE DEF j, k
  <2>1. QED
    BY <1>6, <1>7, <1>8 DEF Item
<1> HIDE DEF j
<1>11. j \in RawItem
  BY <1>1, <1>9, <1>10 DEF RawItem
<1>12. QED
  BY <1>4, <1>5, <1>9, <1>11

Marked(i, v) == [i EXCEPT !.excluded = TRUE, !.score = v]

LEMMA MarkedItem ==
  ASSUME NEW i \in Item, NEW v \in Scores
  PROVE  /\ Marked(i, v) \in Item /\ Marked(i, v).excluded = TRUE
         /\ Marked(i, v).score = v /\ Marked(i, v).fir = i.fir
<1> DEFINE k == [i EXCEPT !.excluded = TRUE]
<1>1. ASSUME NEW b \in BOOLEAN PROVE [i EXCEPT !.excluded = b] \in Item
  BY DEF Item
<1>2. k = [i EXCEPT !.excluded = TRUE]
  OBVIOUS
<1>3. Marked(i, v) = [k EXCEPT !.score = v]
  BY DEF Item, Marked
<1> HIDE DEF k
<1>4. k \in Item
  BY <1>1, <1>2
<1>5. Marked(i, v) \in Item
  BY <1>3, <1>4 DEF Item
<1>6. QED
  BY <1>5 DEF Item, Marked

\* Demotion marks what a picked exclusion applies to, and leaves it less than any
\* other item has.
LEMMA DemotedBounds ==
  ASSUME NEW i \in RawItem, i.score \in Upper, NEW pick \in SUBSET Exclusion
  PROVE  /\ Demoted(i, pick) \in Item
         /\ Demoted(i, pick).fir = i.fir
         /\ Demoted(i, pick).excluded => Demoted(i, pick).score \in Lower
         /\ ~ Demoted(i, pick).excluded => Demoted(i, pick).score \in Upper
         /\ Demoted(i, pick).excluded => \E x \in pick : About[x][1] = i.fir
         /\ \A x \in pick : RuledOut(x, Demoted(i, pick)) => Demoted(i, pick).excluded
<1> DEFINE applies == i.accused /\ \E x \in pick : Applies(x, i)
           low == (i.score * 5 + 50) \div 100
           j == [i EXCEPT !.excluded = TRUE, !.score = (@ * 5 + 50) \div 100]
<1>1. i \in Item /\ i.excluded = FALSE /\ ("graph" \in i.sources => i.accused = TRUE)
  BY DEF RawItem
<1>2. CASE ~ applies
  <2>1. Demoted(i, pick) = i
    BY <1>2 DEF Demoted
  <2>2. ASSUME NEW x \in pick, RuledOut(x, i) PROVE FALSE
    <3>1. Applies(x, i)
      BY <2>2 DEF RuledOut, Applies
    <3>2. i.accused
      BY <1>1, <2>2 DEF RuledOut
    <3>3. QED
      BY <1>2, <3>1, <3>2
  <2>3. QED
    BY <1>1, <2>1, <2>2
<1>3. CASE applies
  <2>1. Demoted(i, pick) = j
    BY <1>3 DEF Demoted
  <2>2. PICK x \in pick : About[x][1] = i.fir
    BY <1>3 DEF Applies
  <2>3. low \in Lower
    BY LowerIsLower
  <2>4. j = Marked(i, low)
    BY DEF Marked
  <2> HIDE DEF low, j
  <2>5. low \in Scores
    BY <2>3, LowerIsLower
  <2>6. j \in Item /\ j.excluded = TRUE /\ j.score = low /\ j.fir = i.fir
    BY <1>1, <2>4, <2>5, MarkedItem
  <2>7. QED
    BY <2>1, <2>2, <2>3, <2>6
<1> HIDE DEF applies
<1>4. QED
  BY <1>2, <1>3

-----------------------------------------------------------------------------
(* The invariant                                                           *)

Unranked == {"translate_evidence_node", "confidence_scoring"}

\* What a query saw of the exclusions bounds what is active now.
Watched == known \subseteq Active /\ (node \in Nodes => Active \subseteq ever)

Routed == node = "follow_up_guard_node" => intent \notin Retrieving

\* Before the ranking the evidence is unscored and complete.
Gathered ==
  /\ node \in Unranked => items \in Seq(RawItem) /\ found \subseteq FirsOf(items)
  /\ node \notin Unranked \cup Answering => found = {}

Sunken(s) == \A m, n \in DOMAIN s : m < n /\ s[m].excluded => s[n].excluded

\* The saved evidence is ranked too: a follow-up shows it as it is.
Ordered == Sunken(prior) /\ (node \in Answering => Sunken(items))

PipelineInv ==
  /\ TypeOK /\ Watched /\ Routed /\ Gathered /\ Ordered
  /\ SoleRuledOutDemoted /\ ReversedForgotten /\ NothingDropped


LEMMA InvInit == Init => PipelineInv
<1> SUFFICES ASSUME Init PROVE PipelineInv
  OBVIOUS
<1>1. TypeOK
  BY BoundsAssumption DEF Init, TypeOK, Resting, Item
<1>2. Watched /\ Routed
  BY DEF Init, Watched, Routed, Active, Nodes, Replies
<1>3. Gathered /\ Ordered
  BY DEF Init, Gathered, Ordered, Sunken, Unranked, Answering
<1>4. SoleRuledOutDemoted /\ ReversedForgotten /\ NothingDropped
  BY DEF Init, SoleRuledOutDemoted, ReversedForgotten, NothingDropped, Fresh, Answering
<1>5. QED
  BY <1>1, <1>2, <1>3, <1>4 DEF PipelineInv

\* What officers do to the exclusions leaves the query as it is.
LEMMA OfficerInv ==
  ASSUME PipelineInv, NEW x \in Exclusion,
         CheckExclusion(x) \/ WriteExclusion(x) \/ ReverseExclusion(x)
  PROVE  PipelineInv'
<1> USE DEF PipelineInv
<1>1. UNCHANGED <<node, intent, plan, items, prior, found, counters>>
  BY DEF CheckExclusion, WriteExclusion, ReverseExclusion
<1>2. /\ edges' \in [Exclusion -> {"none", "checked", "active", "reversed"}]
      /\ known' \subseteq known /\ ever \subseteq ever' /\ ever' \subseteq ever \cup {x}
  BY DEF CheckExclusion, WriteExclusion, ReverseExclusion, TypeOK
<1>3. TypeOK'
  BY <1>1, <1>2 DEF TypeOK, counters
<1>4. Watched'
  <2>1. CASE CheckExclusion(x)
    BY <2>1 DEF CheckExclusion, Watched, Active, TypeOK
  <2>2. CASE WriteExclusion(x)
    BY <2>2 DEF WriteExclusion, Watched, Active, TypeOK
  <2>3. CASE ReverseExclusion(x)
    BY <2>3 DEF ReverseExclusion, Watched, Active, TypeOK
  <2>4. QED
    BY <2>1, <2>2, <2>3
<1>5. Routed' /\ Gathered' /\ Ordered' /\ NothingDropped'
  BY <1>1 DEF Routed, Gathered, Ordered, Sunken, NothingDropped, FirsOf
<1>6. SoleRuledOutDemoted'
  BY <1>1, <1>2 DEF SoleRuledOutDemoted, Fresh, RuledOut, SamePair
<1>7. ReversedForgotten'
  BY <1>1, <1>2 DEF ReversedForgotten, Fresh
<1>8. QED
  BY <1>3, <1>4, <1>5, <1>6, <1>7

\* A step to a node before the retrieval.
LEMMA EarlyInv ==
  ASSUME PipelineInv, TypeOK', Watched', Routed',
         node \notin Unranked \cup Answering, node' \notin Unranked \cup Answering,
         found' \in {found, {}}, prior' = prior
  PROVE  PipelineInv'
<1> USE DEF PipelineInv
<1>1. Gathered'
  BY DEF Gathered
<1>2. Ordered'
  BY DEF Ordered, Sunken
<1>3. SoleRuledOutDemoted' /\ ReversedForgotten' /\ NothingDropped'
  BY DEF SoleRuledOutDemoted, ReversedForgotten, NothingDropped, Fresh, Unranked
<1>4. QED
  BY <1>1, <1>2, <1>3

LEMMA SubmitInv == ASSUME PipelineInv, Submit PROVE PipelineInv'
<1> USE DEF PipelineInv
<1>1. TypeOK'
  BY BoundsAssumption DEF Submit, TypeOK, Active, Nodes
<1>2. Watched' /\ Routed'
  BY DEF Submit, Watched, Routed, Active
<1>3. node \notin Unranked \cup Answering /\ node' \notin Unranked \cup Answering
  BY DEF Submit, Resting, Unranked, Answering
<1>4. QED
  BY <1>1, <1>2, <1>3, EarlyInv DEF Submit

LEMMA UnderstandInv == ASSUME PipelineInv, Understand PROVE PipelineInv'
<1> USE DEF PipelineInv
<1>1. PICK i \in Intents :
        /\ i \in Retrieving => retrievals < RetrievalsMax
        /\ intent' = i /\ node' = Route(i)
        /\ retrievals' = retrievals + (IF i \in Retrieving THEN 1 ELSE 0)
  BY DEF Understand
<1>2. /\ node' \in Replies \cup {"follow_up_guard_node", "resolve_coreference_node",
                                 "resolving_entities"}
      /\ node' = "follow_up_guard_node" => i = "follow_up"
  BY <1>1 DEF Route, Replies
<1>3. TypeOK'
  <2>1. node' \in Nodes /\ intent' \in Intents
    BY <1>1, <1>2 DEF Nodes
  <2>2. retrievals' \in 0 .. RetrievalsMax
    BY <1>1, BoundsAssumption DEF TypeOK
  <2>3. QED
    BY <2>1, <2>2 DEF TypeOK, Understand, exclusionVars
<1>4. Watched'
  BY <1>2 DEF Understand, Watched, Active, exclusionVars, Nodes
<1>5. Routed'
  BY <1>1, <1>2 DEF Routed, Retrieving
<1>6. node \notin Unranked \cup Answering /\ node' \notin Unranked \cup Answering
  BY <1>2 DEF Understand, Unranked, Answering, Replies
<1>7. QED
  BY <1>3, <1>4, <1>5, <1>6, EarlyInv DEF Understand

LEMMA MakePlanInv == ASSUME PipelineInv, MakePlan PROVE PipelineInv'
<1> USE DEF PipelineInv
<1>1. TypeOK'
  BY DEF MakePlan, TypeOK, exclusionVars, counters, Nodes
<1>2. Watched' /\ Routed'
  BY DEF MakePlan, Watched, Routed, Active, exclusionVars, Nodes
<1>3. node \notin Unranked \cup Answering /\ node' \notin Unranked \cup Answering
  BY DEF MakePlan, Unranked, Answering
<1>4. QED
  BY <1>1, <1>2, <1>3, EarlyInv DEF MakePlan


LEMMA StaticReplyInv == ASSUME PipelineInv, StaticReply PROVE PipelineInv'
<1> USE DEF PipelineInv
<1>1. /\ node \in Nodes /\ node \notin Unranked \cup Answering
      /\ node' = "END" /\ items' = << >>
      /\ UNCHANGED <<intent, plan, prior, exclusionVars, found, counters>>
  BY DEF StaticReply, Nodes, Unranked, Answering, Replies
<1>2. TypeOK'
  BY <1>1 DEF TypeOK, exclusionVars, counters, Nodes
<1>3. Watched' /\ Routed'
  BY <1>1 DEF Watched, Routed, Active, exclusionVars, Nodes
<1>4. found' = {}
  BY <1>1 DEF Gathered
<1>5. Gathered' /\ NothingDropped'
  BY <1>1, <1>4 DEF Gathered, NothingDropped, Unranked
<1>6. Ordered'
  BY <1>1 DEF Ordered, Sunken
<1>7. SoleRuledOutDemoted' /\ ReversedForgotten'
  BY <1>1 DEF SoleRuledOutDemoted, ReversedForgotten
<1>8. QED
  BY <1>2, <1>3, <1>5, <1>6, <1>7

LEMMA RestoredItem ==
  ASSUME NEW i \in Item
  PROVE  Restored(i) \in Item /\ Restored(i).excluded = i.excluded
<1> DEFINE k == [i EXCEPT !.accused = FALSE]
<1>1. ASSUME NEW b \in BOOLEAN PROVE [i EXCEPT !.accused = b] \in Item
  BY DEF Item
<1>2. k = [i EXCEPT !.accused = FALSE]
  OBVIOUS
<1>3. Restored(i) = [k EXCEPT !.dated = FALSE]
  BY DEF Item, Restored
<1>4. Restored(i).excluded = i.excluded
  BY DEF Item, Restored
<1> HIDE DEF k
<1>5. k \in Item
  BY <1>1, <1>2
<1>6. ASSUME NEW b \in BOOLEAN PROVE [k EXCEPT !.dated = b] \in Item
  BY <1>5 DEF Item
<1>7. Restored(i) \in Item
  BY <1>3, <1>6
<1>8. QED
  BY <1>4, <1>7

LEMMA FollowUpGuardInv == ASSUME PipelineInv, FollowUpGuard PROVE PipelineInv'
<1> USE DEF PipelineInv
<1>1. /\ node = "follow_up_guard_node" /\ node' \in {"END", "set_synthesis_mode"}
      /\ items' = [n \in DOMAIN prior |-> Restored(prior[n])]
      /\ UNCHANGED <<intent, plan, prior, exclusionVars, found, counters>>
  BY DEF FollowUpGuard
<1>2. \A n \in DOMAIN prior : prior[n] \in Item
  BY DEF TypeOK
<1>3. /\ DOMAIN items' = DOMAIN prior
      /\ \A n \in DOMAIN prior : items'[n] \in Item /\ items'[n].excluded = prior[n].excluded
  BY <1>1, <1>2, RestoredItem
<1>4. items' \in Seq(Item)
  <2>1. DOMAIN prior = 1 .. Len(prior) /\ Len(prior) \in Nat
    BY DEF TypeOK
  <2>2. items' = [n \in 1 .. Len(prior) |-> items'[n]]
    BY <1>1, <2>1
  <2>3. items' \in [1 .. Len(prior) -> Item]
    BY <1>3, <2>1, <2>2
  <2>4. QED
    BY <2>1, <2>3
<1>5. TypeOK'
  BY <1>1, <1>4 DEF TypeOK, exclusionVars, counters, Nodes
<1>6. Watched' /\ Routed'
  BY <1>1 DEF Watched, Routed, Active, exclusionVars, Nodes
<1>7. found' = {}
  BY <1>1 DEF Gathered, Unranked, Answering
<1>8. Gathered' /\ NothingDropped'
  BY <1>1, <1>7 DEF Gathered, NothingDropped, Unranked
<1>9. Ordered'
  BY <1>1, <1>3 DEF Ordered, Sunken
<1>10. ~ Fresh'
  BY <1>1 DEF Fresh, Routed
<1>11. SoleRuledOutDemoted' /\ ReversedForgotten'
  BY <1>10 DEF SoleRuledOutDemoted, ReversedForgotten
<1>12. QED
  BY <1>5, <1>6, <1>8, <1>9, <1>11

LEMMA PassOnInv == ASSUME PipelineInv, PassOn PROVE PipelineInv'
<1> USE DEF PipelineInv
<1>1. UNCHANGED <<intent, plan, items, prior, edges, known, ever, found, counters>>
  BY DEF PassOn, exclusionVars
<1>2. /\ node \in Nodes /\ node' \in Nodes /\ node' # "follow_up_guard_node"
      /\ node \in Unranked <=> node' \in Unranked
      /\ node \in Answering <=> node' \in Answering
  BY DEF PassOn, Edges, Nodes, Unranked, Answering
<1>3. TypeOK'
  BY <1>1, <1>2 DEF TypeOK, counters
<1>4. Watched' /\ Routed'
  BY <1>1, <1>2 DEF Watched, Routed, Active
<1>5. Gathered' /\ Ordered' /\ NothingDropped'
  BY <1>1, <1>2 DEF Gathered, Ordered, Sunken, NothingDropped, FirsOf, Unranked
<1>6. SoleRuledOutDemoted' /\ ReversedForgotten'
  BY <1>1, <1>2 DEF SoleRuledOutDemoted, ReversedForgotten, Fresh, RuledOut
<1>7. QED
  BY <1>3, <1>4, <1>5, <1>6

LEMMA RetrieveInv == ASSUME PipelineInv, Retrieve PROVE PipelineInv'
<1> USE DEF PipelineInv
<1>1. PICK results \in [DOMAIN plan -> SUBSET Fir], text \in BOOLEAN :
        /\ items' = Assembled(plan, results, text)
        /\ found' = UNION {results[n] : n \in DOMAIN plan}
  BY DEF Retrieve
<1>2. /\ node = "retrieving_evidence" /\ node' \in Unranked
      /\ UNCHANGED <<intent, plan, prior, edges, known, ever, counters>>
  BY DEF Retrieve, Unranked, exclusionVars
<1>3. plan \in Seq(Sources)
  BY PlanAssumption DEF TypeOK
<1>4. items' \in Seq(RawItem) /\ found' \subseteq FirsOf(items')
  BY <1>1, <1>3, AssembledRaw
<1>5. found' \subseteq Fir
  BY <1>1
<1>6. items' \in Seq(Item)
  <2>1. RawItem \subseteq Item
    BY DEF RawItem
  <2>2. QED
    BY <1>4, <2>1
<1>7. TypeOK'
  BY <1>2, <1>5, <1>6 DEF TypeOK, Unranked, Nodes, counters
<1>8. Watched' /\ Routed'
  BY <1>2 DEF Watched, Routed, Active, Unranked, Nodes
<1>9. node' \notin Answering
  BY <1>2 DEF Unranked, Answering
<1>10. Gathered' /\ NothingDropped'
  <2>1. (found \subseteq FirsOf(items))'
    BY <1>4
  <2>2. QED
    BY <1>2, <1>4, <2>1 DEF Gathered, NothingDropped
<1>11. Ordered'
  BY <1>2, <1>9 DEF Ordered, Sunken
<1>12. SoleRuledOutDemoted' /\ ReversedForgotten'
  BY <1>9 DEF SoleRuledOutDemoted, ReversedForgotten, Fresh
<1>13. QED
  BY <1>7, <1>8, <1>10, <1>11, <1>12


LEMMA PicksCover ==
  ASSUME NEW pick \in Picks
  PROVE  pick \subseteq Active /\ \A x \in Active : \E y \in pick : SamePair(x, y)
<1>1. pick \subseteq Active
  BY DEF Picks, Lookup, Active
<1>2. ASSUME NEW x \in Active PROVE \E y \in pick : SamePair(x, y)
  <2>1. Cardinality({y \in pick : SamePair(x, y)}) = 1
    BY <1>2 DEF Picks, Lookup, Active
  <2>2. {y \in pick : SamePair(x, y)} # {}
    BY <2>1, FS_EmptySet
  <2>3. QED
    BY <2>2
<1>3. QED
  BY <1>1, <1>2

\* What the confidence engine and the demotion make of an item, before the ranking.
Examined(i, j, pick) ==
  /\ j \in Item /\ j.fir = i.fir
  /\ j.excluded => j.score \in Lower
  /\ ~ j.excluded => j.score \in Upper
  /\ j.excluded => \E x \in pick : About[x][1] = j.fir
  /\ \A x \in pick : RuledOut(x, j) => j.excluded

LEMMA ExaminedItem ==
  ASSUME NEW i \in RawItem, NEW trust \in 30 .. 99, NEW penalty \in BOOLEAN,
         NEW pick \in SUBSET Exclusion
  PROVE  Examined(i, Demoted(Scored(i, trust, penalty), pick), pick)
<1> DEFINE k == Scored(i, trust, penalty)
<1>1. k \in RawItem /\ k.score \in Upper /\ k.fir = i.fir
  BY ScoredBounds
<1> HIDE DEF k
<1>2. QED
  BY <1>1, DemotedBounds DEF Examined, k

LEMMA ScoreIs ==
  ASSUME Score, items \in Seq(RawItem)
  PROVE  \E t \in Seq(Item), pick \in Picks :
           /\ items' = Ranked(t) /\ DOMAIN t = DOMAIN items
           /\ \A n \in DOMAIN items : Examined(items[n], t[n], pick)
<1>1. PICK trust \in [DOMAIN items -> Trust], penalised \in SUBSET (DOMAIN items),
           pick \in Picks :
        items' = Ranked([n \in DOMAIN items |->
                   Demoted(Scored(items[n], trust[n], n \in penalised), pick)])
  BY Zenon DEF Score
<1> DEFINE t == [n \in DOMAIN items |->
                   Demoted(Scored(items[n], trust[n], n \in penalised), pick)]
<1>2. pick \in SUBSET Exclusion
  BY PicksCover DEF Active
<1>3. ASSUME NEW n \in DOMAIN items PROVE Examined(items[n], t[n], pick)
  <2>1. items[n] \in RawItem
    OBVIOUS
  <2>2. trust[n] \in 30 .. 99
    BY TrustAssumption
  <2>3. PICK penalty \in BOOLEAN : penalty = (n \in penalised)
    <3>1. (n \in penalised) \in BOOLEAN
      OBVIOUS
    <3>2. QED
      BY <3>1, Zenon
  <2>4. t[n] = Demoted(Scored(items[n], trust[n], n \in penalised), pick)
    BY Zenon
  <2>5. t[n] = Demoted(Scored(items[n], trust[n], penalty), pick)
    BY <2>3, <2>4, Zenon
  <2> HIDE DEF t
  <2>6. QED
    BY <1>2, <2>1, <2>2, <2>5, ExaminedItem
<1>4. t = [n \in DOMAIN items |-> t[n]]
  BY Zenon
<1>5. items' = Ranked(t)
  BY <1>1, Zenon
<1> HIDE DEF t
<1>6. t \in Seq(Item) /\ DOMAIN t = DOMAIN items
  <2>1. DOMAIN items = 1 .. Len(items) /\ Len(items) \in Nat
    OBVIOUS
  <2>2. \A n \in DOMAIN items : t[n] \in Item
    BY <1>3 DEF Examined
  <2>3. t \in [1 .. Len(items) -> Item]
    BY <1>4, <2>1, <2>2
  <2>4. QED
    BY <2>1, <2>3
<1>7. QED
  BY <1>3, <1>5, <1>6

LEMMA ScoreInv == ASSUME PipelineInv, Score PROVE PipelineInv'
<1> USE DEF PipelineInv
<1>1. /\ node = "confidence_scoring" /\ node' = "building_visualization"
      /\ UNCHANGED <<intent, plan, prior, edges, known, ever, found, counters>>
  BY DEF Score, exclusionVars
<1>2. items \in Seq(RawItem) /\ found \subseteq FirsOf(items)
  BY <1>1 DEF Gathered, Unranked
<1>3. PICK t \in Seq(Item), pick \in Picks :
        /\ items' = Ranked(t) /\ DOMAIN t = DOMAIN items
        /\ \A n \in DOMAIN items : Examined(items[n], t[n], pick)
  BY <1>2, ScoreIs
<1>4. /\ items' \in Seq(Item)
      /\ \A n \in DOMAIN t : \E k \in DOMAIN items' : items'[k] = t[n]
      /\ \A k \in DOMAIN items' : \E n \in DOMAIN t : items'[k] = t[n]
      /\ \A k, l \in DOMAIN items' : k < l => items'[l].score <= items'[k].score
  BY <1>3, RankedPermutes
<1>5. \A k \in DOMAIN items' : \E n \in DOMAIN items : Examined(items[n], items'[k], pick)
  BY <1>3, <1>4
<1>6. TypeOK'
  BY <1>1, <1>4 DEF TypeOK, Nodes, counters
<1>7. Watched' /\ Routed'
  BY <1>1 DEF Watched, Routed, Active, Nodes
<1>8. Gathered'
  BY <1>1 DEF Gathered, Unranked, Answering
<1>9. Ordered'
  <2>1. ASSUME NEW m \in DOMAIN items', NEW n \in DOMAIN items', m < n, items'[m].excluded,
               ~ items'[n].excluded
        PROVE  FALSE
    <3>1. items'[m].score \in Lower /\ items'[n].score \in Upper
      BY <1>5, <2>1 DEF Examined
    <3>2. items'[n].score <= items'[m].score
      BY <1>4, <2>1
    <3>3. items'[m].score < items'[n].score
      BY <3>1, LowerIsLower
    <3>4. items'[m].score \in Nat /\ items'[n].score \in Nat
      BY <3>1, LowerIsLower
    <3>5. QED
      BY <3>2, <3>3, <3>4
  <2>2. QED
    BY <1>1, <2>1 DEF Ordered, Sunken
<1>10. NothingDropped'
  <2>1. ASSUME NEW f \in found PROVE \E k \in DOMAIN items' : items'[k].fir = f
    <3>1. PICK n \in DOMAIN items : items[n].fir = f
      BY <1>2 DEF FirsOf
    <3>2. t[n].fir = f
      BY <1>3, <3>1 DEF Examined
    <3>3. QED
      BY <1>3, <1>4, <3>1, <3>2
  <2>2. (found \subseteq FirsOf(items))'
    BY <1>1, <2>1 DEF FirsOf
  <2>3. QED
    BY <2>2 DEF NothingDropped
<1>11. SoleRuledOutDemoted'
  <2>1. ASSUME NEW k \in DOMAIN items', NEW x \in known, RuledOut(x, items'[k]),
               \A y \in ever \ {x} : ~ SamePair(x, y)
        PROVE  items'[k].excluded
    <3>1. x \in Active /\ Active \subseteq ever
      BY <1>1 DEF Watched, Nodes
    <3>2. PICK y \in pick : SamePair(x, y)
      BY <3>1, PicksCover
    <3>3. y \in ever
      BY <3>1, PicksCover
    <3>4. y = x
      BY <2>1, <3>2, <3>3
    <3>5. QED
      BY <1>5, <2>1, <3>4 DEF Examined
  <2>2. QED
    BY <1>1, <2>1 DEF SoleRuledOutDemoted, RuledOut, SamePair
<1>12. ReversedForgotten'
  <2>1. pick \subseteq ever
    BY <1>1, PicksCover DEF Watched, Nodes
  <2>2. ASSUME NEW k \in DOMAIN items', items'[k].excluded
        PROVE  \E x \in ever : About[x][1] = items'[k].fir
    BY <1>5, <2>1, <2>2 DEF Examined
  <2>3. QED
    BY <1>1, <2>2 DEF ReversedForgotten
<1>13. QED
  BY <1>6, <1>7, <1>8, <1>9, <1>10, <1>11, <1>12


\* The end of a query, in "done" or "failed", with the context it leaves.
LEMMA RestInv ==
  ASSUME PipelineInv, node' \in Resting, RunOver, UNCHANGED <<edges, counters>>,
         prior' \in Seq(Item), Sunken(prior')
  PROVE  PipelineInv'
<1> USE DEF PipelineInv
<1>1. node' \notin Nodes /\ node' \notin Unranked \cup Answering
  BY DEF Resting, Nodes, Replies, Unranked, Answering
<1>2. TypeOK'
  BY DEF TypeOK, RunOver, counters
<1>3. Watched' /\ Routed'
  BY <1>1 DEF Watched, Routed, RunOver, Retrieving, Nodes
<1>4. Gathered' /\ NothingDropped' /\ SoleRuledOutDemoted' /\ ReversedForgotten'
  BY <1>1 DEF Gathered, NothingDropped, SoleRuledOutDemoted, ReversedForgotten, Fresh,
     RunOver, Unranked
<1>5. Ordered'
  BY <1>1 DEF Ordered, Sunken
<1>6. QED
  BY <1>2, <1>3, <1>4, <1>5

LEMMA ContextRanked ==
  ASSUME PipelineInv, node = "END"
  PROVE  Context \in Seq(Item) /\ Sunken(Context)
  BY DEF PipelineInv, Context, TypeOK, Ordered, Answering

LEMMA SaveInv == ASSUME PipelineInv, Save PROVE PipelineInv'
<1>1. node = "END" /\ node' \in Resting /\ prior' = Context
  BY DEF Save, Resting
<1>2. prior' \in Seq(Item) /\ Sunken(prior')
  BY <1>1, ContextRanked
<1>3. QED
  BY <1>1, <1>2, RestInv DEF Save

LEMMA FailInv == ASSUME PipelineInv, Fail PROVE PipelineInv'
<1>1. node' \in Resting /\ (prior' = prior \/ (node = "END" /\ prior' = Context))
  BY DEF Fail, Resting
<1>2. prior \in Seq(Item) /\ Sunken(prior)
  BY DEF PipelineInv, TypeOK, Ordered
<1>3. prior' \in Seq(Item) /\ Sunken(prior')
  BY <1>1, <1>2, ContextRanked
<1>4. QED
  BY <1>1, <1>3, RestInv DEF Fail

LEMMA StutterInv == ASSUME PipelineInv, UNCHANGED vars PROVE PipelineInv'
<1> USE DEF PipelineInv, vars, exclusionVars, counters
<1>1. TypeOK' /\ Watched' /\ Routed'
  BY DEF TypeOK, Watched, Routed, Active
<1>2. Gathered' /\ Ordered' /\ NothingDropped'
  BY DEF Gathered, Ordered, Sunken, NothingDropped, FirsOf
<1>3. SoleRuledOutDemoted' /\ ReversedForgotten'
  BY DEF SoleRuledOutDemoted, ReversedForgotten, Fresh, RuledOut
<1>4. QED
  BY <1>1, <1>2, <1>3

THEOREM PipelineInvariant == Spec => []PipelineInv
<1>1. PipelineInv /\ [Next]_vars => PipelineInv'
  <2> SUFFICES ASSUME PipelineInv, [Next]_vars PROVE PipelineInv'
    OBVIOUS
  <2>1. CASE Submit \/ Fail
    BY <2>1, SubmitInv, FailInv
  <2>2. CASE Understand \/ StaticReply \/ FollowUpGuard
    BY <2>2, UnderstandInv, StaticReplyInv, FollowUpGuardInv
  <2>3. CASE PassOn \/ MakePlan \/ Retrieve
    BY <2>3, PassOnInv, MakePlanInv, RetrieveInv
  <2>4. CASE Score \/ Save
    BY <2>4, ScoreInv, SaveInv
  <2>5. CASE \E x \in Exclusion : CheckExclusion(x) \/ WriteExclusion(x) \/ ReverseExclusion(x)
    BY <2>5, OfficerInv
  <2>6. CASE UNCHANGED vars
    BY <2>6, StutterInv
  <2>7. QED
    BY <2>1, <2>2, <2>3, <2>4, <2>5, <2>6 DEF Next, Step
<1>2. QED
  BY <1>1, InvInit, PTL DEF Spec

-----------------------------------------------------------------------------
(* The theorems                                                            *)

\* Evidence, scores, tiers and exclusions are type-correct whatever the sources
\* return: no score leaves 0 .. 1 (compute_confidence, run_confidence_engine).
THEOREM TypeCorrect == Spec => []TypeOK
<1>1. PipelineInv => TypeOK
  BY DEF PipelineInv
<1>2. QED
  BY <1>1, PipelineInvariant, PTL

\* For any evidence, any trust from its floor to its ceiling and any rejections, no
\* excluded link ranks above one that is not (apply_exclusion_demotion, rank), in the
\* answer and in its follow-ups.
THEOREM ExcludedSinkHolds == Spec => []ExcludedSink
<1>1. PipelineInv => ExcludedSink
  BY DEF PipelineInv, Ordered, Sunken, ExcludedSink
<1>2. QED
  BY <1>1, PipelineInvariant, PTL

\* An accused whom one officer ruled out before the query and nobody else excluded is
\* marked at every graph link (add_graph_results, get_active_exclusions_bulk).
THEOREM SoleRuledOutDemotedHolds == Spec => []SoleRuledOutDemoted
<1>1. PipelineInv => SoleRuledOutDemoted
  BY DEF PipelineInv
<1>2. QED
  BY <1>1, PipelineInvariant, PTL

\* What a fresh answer marks excluded had an active exclusion in the query: a
\* reversed one (reverse_exclusion) has no effect.
THEOREM ReversedForgottenHolds == Spec => []ReversedForgotten
<1>1. PipelineInv => ReversedForgotten
  BY DEF PipelineInv
<1>2. QED
  BY <1>1, PipelineInvariant, PTL

\* For any plan and any results, no FIR that a source found is lost on the way to the
\* answer (execute_retrieval, run_confidence_engine, rank).
THEOREM NothingDroppedHolds == Spec => []NothingDropped
<1>1. PipelineInv => NothingDropped
  BY DEF PipelineInv
<1>2. QED
  BY <1>1, PipelineInvariant, PTL


=============================================================================
