-------------------------- MODULE Algorithms_proofs --------------------------
(***************************************************************************)
(* Proofs about the pure algorithms, for inputs of any size and over any   *)
(* ids, texts and values: sorting, the case expander, the coverage policy, *)
(* the path and the body of a request, the inventory and its selections,   *)
(* the headers of a session, the containment of bodies, the artifact of a  *)
(* report, and redaction.                                                  *)
(***************************************************************************)
EXTENDS AlgorithmProperties, CaseExpander, SequenceTheorems, FiniteSetTheorems,
        TLAPS

-----------------------------------------------------------------------------
(* Ascending order.                                                        *)

LEMMA BelowIsSmaller ==
    ASSUME NEW S \in SUBSET Nat, IsFiniteSet(S), NEW n \in S
    PROVE  /\ Cardinality(Below(S, n)) \in 0..(Cardinality(S) - 1)
           /\ \A m \in S : m < n =>
                 Cardinality(Below(S, m)) < Cardinality(Below(S, n))
<1>1. \A T \in SUBSET S : IsFiniteSet(T) /\ Cardinality(T) \in Nat
  BY FS_Subset, FS_CardinalityType
<1>2. ASSUME NEW T \in SUBSET S, NEW U \in SUBSET T, U # T
      PROVE  Cardinality(U) < Cardinality(T)
  <2>1. IsFiniteSet(T) /\ Cardinality(T) \in Nat /\ Cardinality(U) \in Nat
    BY <1>1
  <2>2. Cardinality(U) <= Cardinality(T) /\ Cardinality(T) # Cardinality(U)
    BY <1>2, <2>1, FS_Subset
  <2>3. QED BY <2>1, <2>2
<1>3. /\ Below(S, n) \in SUBSET S
      /\ n \notin Below(S, n)
  BY DEF Below
<1>4. Cardinality(Below(S, n)) < Cardinality(S)
  BY <1>2, <1>3
<1>5. Cardinality(Below(S, n)) \in Nat /\ Cardinality(S) \in Nat
  BY <1>1, <1>3
<1>6. ASSUME NEW m \in S, m < n
      PROVE  Cardinality(Below(S, m)) < Cardinality(Below(S, n))
  <2>1. m \in Below(S, n) /\ m \notin Below(S, m)
    BY <1>6 DEF Below
  <2>2. ASSUME NEW k \in Below(S, m) PROVE k \in Below(S, n)
    <3>1. k \in S /\ k \in Nat /\ m \in Nat /\ n \in Nat /\ k < m
      BY DEF Below
    <3>2. k < n
      BY <1>6, <3>1
    <3>3. QED BY <3>1, <3>2 DEF Below
  <2>3. Below(S, m) \in SUBSET Below(S, n) /\ Below(S, m) # Below(S, n)
    BY <2>1, <2>2
  <2>4. QED BY <1>2, <1>3, <2>3
<1>7. QED BY <1>4, <1>5, <1>6

\* Ascending(S) has each number of S once, each below the next.
LEMMA AscendingSorts ==
    ASSUME NEW S \in SUBSET Nat, IsFiniteSet(S)
    PROVE  /\ Cardinality(S) \in Nat
           /\ Ascending(S) \in [1..Cardinality(S) -> S]
           /\ \A n \in S : \E i \in 1..Cardinality(S) : Ascending(S)[i] = n
           /\ \A i, j \in 1..Cardinality(S) :
                 i < j => Ascending(S)[i] < Ascending(S)[j]
<1> DEFINE size == Cardinality(S)
           rank == [n \in S |-> Cardinality(Below(S, n)) + 1]
<1>1. size \in Nat
  BY FS_CardinalityType
<1>2. rank \in Injection(S, 1..size)
  <2>1. \A n \in S : rank[n] \in 1..size
    BY <1>1, BelowIsSmaller
  <2>2. ASSUME NEW m \in S, NEW n \in S, rank[m] = rank[n] PROVE m = n
    <3>1. Cardinality(Below(S, m)) = Cardinality(Below(S, n))
      <4>1. /\ Cardinality(Below(S, m)) \in Nat
            /\ Cardinality(Below(S, n)) \in Nat
        BY BelowIsSmaller
      <4>2. QED BY <2>2, <4>1
    <3>2. ~(m < n) /\ ~(n < m)
      BY <3>1, BelowIsSmaller
    <3>3. QED BY <3>2
  <2>3. QED BY <2>1, <2>2 DEF Injection, IsInjective
<1>3. rank \in Surjection(S, 1..size)
  <2>1. IsFiniteSet(1..size) /\ Cardinality(1..size) = size
    BY <1>1, FS_Interval
  <2>2. QED BY <1>2, <2>1, FS_Injection
<1>4. \A i \in 1..size : /\ Ascending(S)[i] \in S
                         /\ Cardinality(Below(S, Ascending(S)[i])) = i - 1
  <2>1. ASSUME NEW i \in 1..size
        PROVE  \E n \in S : Cardinality(Below(S, n)) = i - 1
    <3>1. PICK n \in S : rank[n] = i
      BY <1>3 DEF Surjection
    <3>2. Cardinality(Below(S, n)) \in Nat
      BY BelowIsSmaller
    <3>3. QED BY <3>1, <3>2
  <2>2. QED BY <2>1 DEF Ascending
<1>5. ASSUME NEW n \in S PROVE \E i \in 1..size : Ascending(S)[i] = n
  <2>1. /\ rank[n] \in 1..size
        /\ Cardinality(Below(S, n)) \in Nat
    BY <1>1, BelowIsSmaller
  <2> DEFINE other == Ascending(S)[rank[n]]
  <2>2. other \in S /\ Cardinality(Below(S, other)) = Cardinality(Below(S, n))
    BY <1>4, <2>1
  <2>3. rank[other] = rank[n]
    BY <2>2
  <2>4. other = n
    BY <1>2, <2>2, <2>3 DEF Injection, IsInjective
  <2>5. QED BY <2>1, <2>4
<1>6. ASSUME NEW i \in 1..size, NEW j \in 1..size, i < j
      PROVE  Ascending(S)[i] < Ascending(S)[j]
  <2>1. PICK m \in S, n \in S : m = Ascending(S)[i] /\ n = Ascending(S)[j]
    BY <1>4
  <2>2. /\ Cardinality(Below(S, m)) = i - 1
        /\ Cardinality(Below(S, n)) = j - 1
    BY <1>4, <2>1
  <2>3. m # n /\ ~(n < m)
    BY <1>6, <2>2, BelowIsSmaller
  <2>4. QED BY <2>1, <2>3
<1>7. QED BY <1>1, <1>4, <1>5, <1>6 DEF Ascending

LEMMA FiniteImage ==
    ASSUME NEW S, NEW T, NEW f \in [S -> T], IsFiniteSet(S),
           \A y \in T : \E x \in S : f[x] = y
    PROVE  IsFiniteSet(T)
<1>1. f \in Surjection(S, T)
  BY DEF Surjection
<1>2. QED BY <1>1, FS_Surjection

\* A filter keeps what is at the positions it selects, each once.
LEMMA ElementsAtSelects ==
    ASSUME NEW seq, NEW positions \in SUBSET Nat, IsFiniteSet(positions)
    PROVE  /\ Cardinality(positions) \in Nat
           /\ DOMAIN ElementsAt(seq, positions) = 1..Cardinality(positions)
           /\ \A i \in 1..Cardinality(positions) :
                 /\ Ascending(positions)[i] \in positions
                 /\ ElementsAt(seq, positions)[i] =
                       seq[Ascending(positions)[i]]
           /\ ToSet(ElementsAt(seq, positions)) = {seq[p] : p \in positions}
<1>1. /\ Cardinality(positions) \in Nat
      /\ Ascending(positions) \in [1..Cardinality(positions) -> positions]
      /\ \A p \in positions :
            \E i \in 1..Cardinality(positions) : Ascending(positions)[i] = p
  BY AscendingSorts
<1>2. /\ DOMAIN ElementsAt(seq, positions) = 1..Cardinality(positions)
      /\ \A i \in 1..Cardinality(positions) :
            ElementsAt(seq, positions)[i] = seq[Ascending(positions)[i]]
  BY <1>1 DEF ElementsAt
<1>3. ToSet(ElementsAt(seq, positions)) = {seq[p] : p \in positions}
  <2>1. ASSUME NEW x \in ToSet(ElementsAt(seq, positions))
        PROVE  x \in {seq[p] : p \in positions}
    <3>1. PICK i \in 1..Cardinality(positions) :
             x = ElementsAt(seq, positions)[i]
      BY <1>2, <2>1 DEF ToSet
    <3>2. Ascending(positions)[i] \in positions
      BY <1>1
    <3>3. QED BY <1>2, <3>1, <3>2
  <2>2. ASSUME NEW p \in positions
        PROVE  seq[p] \in ToSet(ElementsAt(seq, positions))
    <3>1. PICK i \in 1..Cardinality(positions) : Ascending(positions)[i] = p
      BY <1>1
    <3>2. ElementsAt(seq, positions)[i] = seq[p]
      BY <1>2, <3>1
    <3>3. QED BY <1>2, <3>2 DEF ToSet
  <2>3. QED BY <2>1, <2>2
<1>4. QED BY <1>1, <1>2, <1>3

-----------------------------------------------------------------------------
(* The case expander.                                                      *)

LEMMA ElementsGathered ==
    ASSUME NEW seq, NEW positions \in SUBSET Nat, IsFiniteSet(positions)
    PROVE  /\ DOMAIN ElementsAt(seq, positions) = 1..Cardinality(positions)
           /\ ToSet(ElementsAt(seq, positions)) = {seq[p] : p \in positions}
BY ElementsAtSelects

LEMMA PositionsFinite ==
    ASSUME NEW expansions, IsFiniteSet(DOMAIN expansions),
           \A i \in DOMAIN expansions : IsFiniteSet(DOMAIN expansions[i])
    PROVE  IsFiniteSet(CasesOf(expansions))
<1> DEFINE row == [i \in DOMAIN expansions |-> {i} \X DOMAIN expansions[i]]
           rows == {row[i] : i \in DOMAIN expansions}
<1>1. /\ row \in [DOMAIN expansions -> rows]
      /\ \A y \in rows : \E i \in DOMAIN expansions : row[i] = y
  OBVIOUS
<1>2. IsFiniteSet(rows)
  <2> HIDE DEF row, rows
  <2> QED BY <1>1, FiniteImage
<1>3. \A i \in DOMAIN expansions : IsFiniteSet(row[i])
  BY FS_Singleton, FS_Product
<1>4. IsFiniteSet(Position(expansions))
  <2>1. \A T \in rows : IsFiniteSet(T)
    BY <1>3
  <2>2. Position(expansions) = UNION rows
    BY DEF Position
  <2> HIDE DEF rows
  <2>3. IsFiniteSet(UNION rows)
    BY <1>2, <2>1, FS_UNION
  <2>4. QED BY <2>2, <2>3
<1> DEFINE at == [p \in Position(expansions) |-> CaseAt(expansions, p)]
<1>5. at \in [Position(expansions) -> CasesOf(expansions)]
  BY DEF CasesOf
<1>6. \A c \in CasesOf(expansions) : \E p \in Position(expansions) : at[p] = c
  BY DEF CasesOf
<1> HIDE DEF at
<1>7. QED BY <1>4, <1>5, <1>6, FiniteImage

\* The expander gives the cases of all the invariants, in the strict order of
\* their ids.
LEMMA ExpandSorts ==
    ASSUME NEW expansions, IsFiniteSet(CasesOf(expansions)),
           \A case \in CasesOf(expansions) : case.id \in Nat,
           ~Collides(expansions)
    PROVE  /\ Expand(expansions) \in Seq(CasesOf(expansions))
           /\ ToSet(Expand(expansions)) = CasesOf(expansions)
           /\ \A i, j \in DOMAIN Expand(expansions) :
                 i < j => Expand(expansions)[i].id < Expand(expansions)[j].id
<1> DEFINE cases == CasesOf(expansions)
           idOf  == [case \in cases |-> case.id]
           ids   == {case.id : case \in cases}
           size  == Cardinality(ids)
<1>1. ASSUME NEW c \in cases, NEW d \in cases, c.id = d.id PROVE c = d
  BY <1>1 DEF CasesOf, Collides
<1>2. IsFiniteSet(ids) /\ ids \in SUBSET Nat
  <2>1. /\ idOf \in [cases -> ids]
        /\ \A id \in ids : \E case \in cases : idOf[case] = id
    OBVIOUS
  <2>2. IsFiniteSet(ids)
    <3> HIDE DEF idOf, ids
    <3> QED BY <2>1, FiniteImage
  <2>3. QED BY <2>1, <2>2
<1>3. /\ size \in Nat
      /\ Ascending(ids) \in [1..size -> ids]
      /\ \A id \in ids : \E i \in 1..size : Ascending(ids)[i] = id
      /\ \A i, j \in 1..size :
            i < j => Ascending(ids)[i] < Ascending(ids)[j]
  <2> HIDE DEF ids
  <2> QED BY <1>2, AscendingSorts
<1>4. \A id \in ids : ById(cases, id) \in cases /\ ById(cases, id).id = id
  BY DEF ById
<1>5. /\ DOMAIN Expand(expansions) = 1..size
      /\ \A i \in 1..size :
            Expand(expansions)[i] = ById(cases, Ascending(ids)[i])
  BY <1>3 DEF Expand
<1>6. \A i \in 1..size : /\ Expand(expansions)[i] \in cases
                         /\ Expand(expansions)[i].id = Ascending(ids)[i]
  BY <1>3, <1>4, <1>5
<1>7. Expand(expansions) \in Seq(cases)
  <2>1. Expand(expansions) = [i \in 1..size |-> Expand(expansions)[i]]
    BY <1>3 DEF Expand
  <2>2. Expand(expansions) \in [1..size -> cases]
    BY <1>6, <2>1
  <2>3. QED BY <1>3, <2>2, SeqDef
<1>8. ASSUME NEW c \in cases PROVE c \in ToSet(Expand(expansions))
  <2>1. PICK i \in 1..size : Ascending(ids)[i] = c.id
    BY <1>3
  <2>2. Expand(expansions)[i] = c
    BY <1>1, <1>6, <2>1
  <2>3. QED BY <1>5, <2>2 DEF ToSet
<1>9. ToSet(Expand(expansions)) = cases
  BY <1>5, <1>6, <1>8 DEF ToSet
<1>10. ASSUME NEW i \in 1..size, NEW j \in 1..size, i < j
       PROVE  Expand(expansions)[i].id < Expand(expansions)[j].id
  BY <1>3, <1>6, <1>10
<1>11. QED
  <2> HIDE DEF size
  <2> QED BY <1>5, <1>7, <1>9, <1>10

\* What is expanded stays as it is when it is expanded again.
LEMMA ExpandAgain ==
    ASSUME NEW expansions, IsFiniteSet(CasesOf(expansions)),
           \A case \in CasesOf(expansions) : case.id \in Nat,
           ~Collides(expansions)
    PROVE  LET cases == Expand(expansions)
               again == [i \in DOMAIN cases |-> <<cases[i]>>]
           IN  ~Collides(again) /\ Expand(again) = cases
<1> DEFINE cases == Expand(expansions)
           again == [i \in DOMAIN cases |-> <<cases[i]>>]
<1>1. /\ cases \in Seq(CasesOf(expansions))
      /\ ToSet(cases) = CasesOf(expansions)
      /\ \A i, j \in DOMAIN cases : i < j => cases[i].id < cases[j].id
  BY ExpandSorts
<1>2. CasesOf(again) = CasesOf(expansions)
  <2> HIDE DEF cases
  <2>1. \A p \in Position(again) :
           p[1] \in DOMAIN cases /\ CaseAt(again, p) = cases[p[1]]
    BY DEF Position, CaseAt
  <2>2. ASSUME NEW i \in DOMAIN cases PROVE cases[i] \in CasesOf(again)
    <3>1. <<i, 1>> \in Position(again)
      BY DEF Position
    <3>2. CaseAt(again, <<i, 1>>) = cases[i]
      BY DEF CaseAt
    <3>3. QED BY <3>1, <3>2 DEF CasesOf
  <2>3. CasesOf(again) = ToSet(cases)
    BY <2>1, <2>2 DEF CasesOf, ToSet
  <2>4. QED BY <1>1, <2>3
<1>3. ~Collides(again)
  <2> HIDE DEF cases
  <2>1. SUFFICES ASSUME NEW p \in Position(again), NEW q \in Position(again),
                        CaseAt(again, p).id = CaseAt(again, q).id
                 PROVE  p = q
    BY DEF Collides
  <2>2. PICK i \in DOMAIN cases, j \in DOMAIN cases :
           p = <<i, 1>> /\ q = <<j, 1>>
    BY DEF Position
  <2>3. cases[i].id = cases[j].id
    BY <2>1, <2>2 DEF CaseAt
  <2>4. /\ i \in Nat /\ j \in Nat /\ cases[i].id \in Nat
        /\ ~(i < j) /\ ~(j < i)
    BY <1>1, <2>3
  <2>5. QED BY <2>2, <2>4
<1>4. Expand(again) = cases
  BY <1>2 DEF Expand
<1>5. QED BY <1>3, <1>4

-----------------------------------------------------------------------------
(* The coverage policy.                                                    *)

\* What the catalog and the declarations of a suite consist of.
CatalogOperations(Id, Security, Target) ==
    [id: Id, security: Security, target: Target]

Classifications(Id, Security) ==
    [operationId: Id, mode: {"public"}]
    \cup [operationId: Id, mode: {"authenticated", "protocol"},
          security: Security]
    \cup [operationId: Id, mode: {"excluded"}, rationale: {"blank", "given"}]

\* Where ids tell the entries apart, the one that is kept of an id is the one.
LEMMA FoundOperation ==
    ASSUME NEW S, NEW catalog \in Seq(S), NEW i \in DOMAIN catalog,
           \A k \in DOMAIN catalog : catalog[k].id = catalog[i].id => k = i
    PROVE  Operation(catalog, catalog[i].id) = catalog[i]
<1> DEFINE found == {k \in 1..Len(catalog) : catalog[k].id = catalog[i].id}
<1>1. found = {i} /\ i \in Nat
  OBVIOUS
<1>2. Min(found) = i
  BY <1>1 DEF Min
<1>3. SelectInSeq(catalog, LAMBDA operation : operation.id = catalog[i].id) = i
  BY <1>1, <1>2 DEF SelectInSeq
<1>4. QED BY <1>3 DEF Operation

LEMMA FoundClassification ==
    ASSUME NEW S, NEW classifications \in Seq(S),
           NEW i \in DOMAIN classifications,
           \A k \in DOMAIN classifications :
              classifications[k].operationId = classifications[i].operationId
              => k = i
    PROVE  Classification(classifications, classifications[i].operationId) =
              classifications[i]
<1> DEFINE id == classifications[i].operationId
           found == {k \in 1..Len(classifications) :
                        classifications[k].operationId = id}
<1>1. found = {i} /\ i \in Nat
  OBVIOUS
<1>2. Min(found) = i
  BY <1>1 DEF Min
<1>3. SelectInSeq(classifications, LAMBDA entry : entry.operationId = id) = i
  BY <1>1, <1>2 DEF SelectInSeq
<1>4. QED BY <1>3 DEF Classification

\* As many ids as entries: no two entries have the same.
LEMMA DistinctIds ==
    ASSUME NEW n \in Nat, NEW T, NEW idOf \in [1..n -> T],
           \A id \in T : \E i \in 1..n : idOf[i] = id
    PROVE  /\ IsFiniteSet(T)
           /\ Cardinality(T) = n <=> idOf \in Injection(1..n, T)
<1> DEFINE places == 1..n
<1>1. IsFiniteSet(places) /\ Cardinality(places) = n
  BY FS_Interval
<1>2. idOf \in [places -> T] /\ \A id \in T : \E i \in places : idOf[i] = id
  OBVIOUS
<1> HIDE DEF places
<1>3. idOf \in Surjection(places, T)
  BY <1>2 DEF Surjection
<1>4. /\ IsFiniteSet(T)
      /\ Cardinality(T) = Cardinality(places) <=> idOf \in Injection(places, T)
  BY <1>1, <1>3, FS_Surjection
<1>5. QED BY <1>1, <1>4 DEF places

LEMMA CatalogDistinct ==
    ASSUME NEW S, NEW catalog \in Seq(S)
    PROVE  Cardinality(CatalogIds(catalog)) = Len(catalog) <=>
              \A i, j \in DOMAIN catalog : catalog[i].id = catalog[j].id => i = j
<1>0. PICK n \in Nat : n = Len(catalog) /\ DOMAIN catalog = 1..n
  OBVIOUS
<1> DEFINE idOf == [i \in 1..n |-> catalog[i].id]
<1>1. /\ idOf \in [1..n -> CatalogIds(catalog)]
      /\ \A id \in CatalogIds(catalog) : \E i \in 1..n : idOf[i] = id
      /\ \A i, j \in 1..n :
            idOf[i] = idOf[j] <=> catalog[i].id = catalog[j].id
  BY <1>0 DEF CatalogIds
<1> HIDE DEF idOf
<1>2. Cardinality(CatalogIds(catalog)) = n <=>
         idOf \in Injection(1..n, CatalogIds(catalog))
  BY <1>1, DistinctIds
<1>3. QED BY <1>0, <1>1, <1>2 DEF Injection, IsInjective

LEMMA ClassifiedDistinct ==
    ASSUME NEW S, NEW classifications \in Seq(S)
    PROVE  Cardinality(ClassifiedIds(classifications)) = Len(classifications)
           <=> \A i, j \in DOMAIN classifications :
                  classifications[i].operationId =
                     classifications[j].operationId => i = j
<1>0. PICK n \in Nat : n = Len(classifications) /\ DOMAIN classifications = 1..n
  OBVIOUS
<1> DEFINE entries == 1..n
           idOf == [i \in entries |-> classifications[i].operationId]
<1>1. /\ idOf \in [entries -> ClassifiedIds(classifications)]
      /\ \A id \in ClassifiedIds(classifications) :
            \E i \in entries : idOf[i] = id
      /\ \A i, j \in entries :
            idOf[i] = idOf[j] <=> classifications[i].operationId =
                                     classifications[j].operationId
  BY <1>0 DEF ClassifiedIds
<1> HIDE DEF idOf
<1>2. Cardinality(ClassifiedIds(classifications)) = n <=>
         idOf \in Injection(1..n, ClassifiedIds(classifications))
  BY <1>1, DistinctIds
<1>3. QED BY <1>0, <1>1, <1>2 DEF Injection, IsInjective

\* Asking of each entry whether an earlier one has its id is asking them all.
LEMMA EarlierOrLater ==
    ASSUME NEW n \in Nat, NEW idOf
    PROVE  (\A j \in 1..n : \A k \in 1..(j - 1) : idOf[k] # idOf[j]) <=>
           (\A i, j \in 1..n : idOf[i] = idOf[j] => i = j)
<1>1. ASSUME \A j \in 1..n : \A k \in 1..(j - 1) : idOf[k] # idOf[j],
             NEW i \in 1..n, NEW j \in 1..n, i # j
      PROVE  idOf[i] # idOf[j]
  <2>1. CASE i < j
    <3>1. i \in 1..(j - 1)
      BY <2>1
    <3>2. QED BY <1>1, <3>1
  <2>2. CASE j < i
    <3>1. j \in 1..(i - 1)
      BY <2>2
    <3>2. QED BY <1>1, <3>1
  <2>3. QED BY <1>1, <2>1, <2>2
<1>2. ASSUME \A i, j \in 1..n : idOf[i] = idOf[j] => i = j,
             NEW j \in 1..n, NEW k \in 1..(j - 1)
      PROVE  idOf[k] # idOf[j]
  <2>1. k \in 1..n /\ k # j
    OBVIOUS
  <2>2. QED BY <1>2, <2>1
<1>3. QED BY <1>1, <1>2

LEMMA NoDuplicates ==
    ASSUME NEW S, NEW catalog \in Seq(S), NEW T, NEW classifications \in Seq(T)
    PROVE  /\ DuplicateOperations(catalog) = {} <=>
                 \A i, j \in DOMAIN catalog :
                    catalog[i].id = catalog[j].id => i = j
           /\ DuplicateClassifications(classifications) = {} <=>
                 \A i, j \in DOMAIN classifications :
                    classifications[i].operationId =
                       classifications[j].operationId => i = j
<1> DEFINE operations == DOMAIN catalog
           entries == DOMAIN classifications
           idOf == [i \in operations |-> catalog[i].id]
           declaredId == [i \in entries |-> classifications[i].operationId]
<1>1. /\ operations = 1..Len(catalog) /\ Len(catalog) \in Nat
      /\ entries = 1..Len(classifications) /\ Len(classifications) \in Nat
  OBVIOUS
<1>2. /\ \A j \in operations : \A k \in 1..(j - 1) : k \in operations
      /\ \A j \in entries : \A k \in 1..(j - 1) : k \in entries
  BY <1>1
<1>3. DuplicateOperations(catalog) = {} <=>
         \A j \in operations : \A k \in 1..(j - 1) : idOf[k] # idOf[j]
  BY <1>2 DEF DuplicateOperations
<1>4. DuplicateClassifications(classifications) = {} <=>
         \A j \in entries : \A k \in 1..(j - 1) : declaredId[k] # declaredId[j]
  BY <1>2 DEF DuplicateClassifications
<1>5. /\ DuplicateOperations(catalog) = {} <=>
            \A i, j \in operations : idOf[i] = idOf[j] => i = j
      /\ DuplicateClassifications(classifications) = {} <=>
            \A i, j \in entries : declaredId[i] = declaredId[j] => i = j
  <2> HIDE DEF idOf, declaredId, operations, entries
  <2> QED BY <1>1, <1>3, <1>4, EarlierOrLater
<1>6. QED BY <1>5

\* What Covers asks of an operation and its classification.
Agrees(operation, declared, cases) ==
    LET own == {case \in cases : case.operation = operation.id}
    IN  /\ \A case \in own : case.target = operation.target
        /\ CASE declared.mode = "public"   -> operation.security = "public"
             [] declared.mode = "excluded" -> declared.rationale # "blank"
             [] OTHER -> declared.security = operation.security /\ own # {}

\* What the policy asks of them.
Unproblematic(operation, declared, cases) ==
    /\ \A mode \in DeclaredSecurity(declared) : mode = operation.security
    /\ ~(declared.mode = "excluded" /\ declared.rationale = "blank")
    /\ ~(/\ NeedsCase(declared)
         /\ \A case \in cases : case.operation # operation.id)
    /\ ~Misdirected(cases, operation)

LEMMA PairDecided ==
    ASSUME NEW Id, NEW Security, NEW declared \in Classifications(Id, Security),
           NEW operation, NEW cases
    PROVE  Unproblematic(operation, declared, cases) <=>
              Agrees(operation, declared, cases)
<1> DEFINE own == {case \in cases : case.operation = operation.id}
<1>1. ~Misdirected(cases, operation) <=>
         \A case \in own : case.target = operation.target
  BY DEF Misdirected
<1>2. declared.mode \in {"public", "authenticated", "protocol", "excluded"}
  BY DEF Classifications
<1>3. own # {} <=> ~\A case \in cases : case.operation # operation.id
  OBVIOUS
<1>4. CASE declared.mode = "public"
  BY <1>1, <1>4 DEF Unproblematic, Agrees, DeclaredSecurity, NeedsCase
<1>5. CASE declared.mode = "excluded"
  BY <1>1, <1>5 DEF Unproblematic, Agrees, DeclaredSecurity, NeedsCase
<1>6. CASE declared.mode \in {"authenticated", "protocol"}
  BY <1>1, <1>3, <1>6 DEF Unproblematic, Agrees, DeclaredSecurity, NeedsCase
<1>7. QED BY <1>2, <1>4, <1>5, <1>6

Distinct(catalog) ==
    \A i, j \in DOMAIN catalog : catalog[i].id = catalog[j].id => i = j

DistinctEntries(classifications) ==
    \A i, j \in DOMAIN classifications :
       classifications[i].operationId = classifications[j].operationId => i = j

\* Every operation with its classification.
AllAgree(catalog, classifications, cases) ==
    \A i \in DOMAIN catalog, j \in DOMAIN classifications :
       classifications[j].operationId = catalog[i].id =>
          Agrees(catalog[i], classifications[j], cases)

LEMMA ValidDecided ==
    ASSUME NEW Id, NEW Security, NEW Target,
           NEW catalog \in Seq(CatalogOperations(Id, Security, Target)),
           NEW classifications \in Seq(Classifications(Id, Security)),
           NEW cases
    PROVE  Valid(catalog, classifications, cases) <=>
              /\ Distinct(catalog)
              /\ DistinctEntries(classifications)
              /\ CatalogIds(catalog) = ClassifiedIds(classifications)
              /\ AllAgree(catalog, classifications, cases)
<1> DEFINE known == CatalogIds(catalog) \cap ClassifiedIds(classifications)
           operation(id) == Operation(catalog, id)
           declared(id) == Classification(classifications, id)
<1>1. Valid(catalog, classifications, cases) <=>
         /\ DuplicateOperations(catalog) = {}
         /\ DuplicateClassifications(classifications) = {}
         /\ CatalogIds(catalog) \ ClassifiedIds(classifications) = {}
         /\ ClassifiedIds(classifications) \ CatalogIds(catalog) = {}
         /\ \A id \in known :
               /\ ~\E mode \in DeclaredSecurity(declared(id)) :
                      mode # operation(id).security
               /\ ~(/\ declared(id).mode = "excluded"
                    /\ declared(id).rationale = "blank")
               /\ ~(/\ NeedsCase(declared(id))
                    /\ \A case \in cases : case.operation # id)
               /\ ~Misdirected(cases, operation(id))
  <2> DEFINE missing == CatalogIds(catalog) \ ClassifiedIds(classifications)
             stale == ClassifiedIds(classifications) \ CatalogIds(catalog)
             conflict == {id \in known :
                             \E mode \in DeclaredSecurity(declared(id)) :
                                mode # operation(id).security}
             blank == {id \in known : /\ declared(id).mode = "excluded"
                                      /\ declared(id).rationale = "blank"}
             caseless == {id \in known :
                             /\ NeedsCase(declared(id))
                             /\ \A case \in cases : case.operation # id}
             astray == {id \in known : Misdirected(cases, operation(id))}
             Of(kind, ids) == {kind} \X ids
  <2>1. Problems(catalog, classifications, cases) =
           Of("duplicate operation ID", DuplicateOperations(catalog))
           \cup Of("duplicate classification",
                   DuplicateClassifications(classifications))
           \cup Of("missing classification", missing)
           \cup Of("stale classification", stale)
           \cup Of("security mode conflict", conflict)
           \cup Of("empty exclusion rationale", blank)
           \cup Of("operation without authorization case", caseless)
           \cup Of("case target mismatch", astray)
    BY DEF Problems
  <2>2. \A kind, ids : Of(kind, ids) = {} <=> ids = {}
    <3>1. ASSUME NEW kind, NEW ids, NEW id \in ids
          PROVE  <<kind, id>> \in Of(kind, ids)
      OBVIOUS
    <3>2. \A kind : Of(kind, {}) = {}
      OBVIOUS
    <3>3. QED BY <3>1, <3>2
  <2>3. /\ conflict = {} /\ blank = {} /\ caseless = {} /\ astray = {} <=>
           \A id \in known :
              /\ ~\E mode \in DeclaredSecurity(declared(id)) :
                     mode # operation(id).security
              /\ ~(/\ declared(id).mode = "excluded"
                   /\ declared(id).rationale = "blank")
              /\ ~(/\ NeedsCase(declared(id))
                   /\ \A case \in cases : case.operation # id)
              /\ ~Misdirected(cases, operation(id))
    OBVIOUS
  <2> HIDE DEF Of, missing, stale, conflict, blank, caseless, astray
  <2>4. Valid(catalog, classifications, cases) <=>
           /\ DuplicateOperations(catalog) = {}
           /\ DuplicateClassifications(classifications) = {}
           /\ missing = {} /\ stale = {}
           /\ conflict = {} /\ blank = {} /\ caseless = {} /\ astray = {}
    <3>1. Problems(catalog, classifications, cases) = {} <=>
             /\ Of("duplicate operation ID", DuplicateOperations(catalog)) = {}
             /\ Of("duplicate classification",
                   DuplicateClassifications(classifications)) = {}
             /\ Of("missing classification", missing) = {}
             /\ Of("stale classification", stale) = {}
             /\ Of("security mode conflict", conflict) = {}
             /\ Of("empty exclusion rationale", blank) = {}
             /\ Of("operation without authorization case", caseless) = {}
             /\ Of("case target mismatch", astray) = {}
      BY <2>1
    <3>2. QED BY <3>1, <2>2, Zenon DEF Valid
  <2>5. QED BY <2>3, <2>4 DEF missing, stale
<1>2. /\ DuplicateOperations(catalog) = {} <=> Distinct(catalog)
      /\ DuplicateClassifications(classifications) = {} <=>
            DistinctEntries(classifications)
  BY NoDuplicates DEF Distinct, DistinctEntries
<1>3. ASSUME Distinct(catalog), DistinctEntries(classifications),
             NEW i \in DOMAIN catalog, NEW j \in DOMAIN classifications,
             classifications[j].operationId = catalog[i].id
      PROVE  /\ catalog[i].id \in known
             /\ operation(catalog[i].id) = catalog[i]
             /\ declared(catalog[i].id) = classifications[j]
             /\ classifications[j] \in Classifications(Id, Security)
  BY <1>3, FoundOperation, FoundClassification
     DEF Distinct, DistinctEntries, CatalogIds, ClassifiedIds
<1>4. ASSUME NEW id \in known
      PROVE  \E i \in DOMAIN catalog, j \in DOMAIN classifications :
                /\ id = catalog[i].id
                /\ classifications[j].operationId = catalog[i].id
  BY DEF CatalogIds, ClassifiedIds
<1>5. ASSUME Distinct(catalog), DistinctEntries(classifications)
      PROVE  (\A id \in known :
                 /\ ~\E mode \in DeclaredSecurity(declared(id)) :
                        mode # operation(id).security
                 /\ ~(/\ declared(id).mode = "excluded"
                      /\ declared(id).rationale = "blank")
                 /\ ~(/\ NeedsCase(declared(id))
                      /\ \A case \in cases : case.operation # id)
                 /\ ~Misdirected(cases, operation(id)))
             <=> AllAgree(catalog, classifications, cases)
  <2>1. ASSUME NEW i \in DOMAIN catalog, NEW j \in DOMAIN classifications,
               classifications[j].operationId = catalog[i].id
        PROVE  LET id == catalog[i].id IN
               (/\ ~\E mode \in DeclaredSecurity(declared(id)) :
                      mode # operation(id).security
                /\ ~(/\ declared(id).mode = "excluded"
                     /\ declared(id).rationale = "blank")
                /\ ~(/\ NeedsCase(declared(id))
                     /\ \A case \in cases : case.operation # id)
                /\ ~Misdirected(cases, operation(id)))
               <=> Agrees(catalog[i], classifications[j], cases)
    <3>1. Unproblematic(catalog[i], classifications[j], cases) <=>
             Agrees(catalog[i], classifications[j], cases)
      BY <1>3, <1>5, <2>1, PairDecided
    <3>2. /\ operation(catalog[i].id) = catalog[i]
          /\ declared(catalog[i].id) = classifications[j]
      BY <1>3, <1>5, <2>1
    <3>3. QED BY <3>1, <3>2 DEF Unproblematic
  <2>2. QED BY <1>3, <1>4, <1>5, <2>1 DEF AllAgree
<1>6. QED BY <1>1, <1>2, <1>5

\* The j-th classification is the only one of the i-th operation, and agrees.
Partners(catalog, classifications, cases, i, j) ==
    /\ classifications[j].operationId = catalog[i].id
    /\ \A k \in DOMAIN classifications \ {j} :
          classifications[k].operationId # catalog[i].id
    /\ Agrees(catalog[i], classifications[j], cases)

\* Where operations and classifications are paired, as many as there are of
\* each, no classification is left over.
LEMMA CoversDecided ==
    ASSUME NEW Id, NEW Security, NEW Target,
           NEW catalog \in Seq(CatalogOperations(Id, Security, Target)),
           NEW classifications \in Seq(Classifications(Id, Security)),
           NEW cases
    PROVE  Covers(catalog, classifications, cases) <=>
              /\ Distinct(catalog)
              /\ DistinctEntries(classifications)
              /\ CatalogIds(catalog) = ClassifiedIds(classifications)
              /\ AllAgree(catalog, classifications, cases)
<1>1. PICK n \in Nat, m \in Nat :
         /\ n = Len(catalog) /\ DOMAIN catalog = 1..n
         /\ m = Len(classifications) /\ DOMAIN classifications = 1..m
  OBVIOUS
<1>2. Cardinality(CatalogIds(catalog)) = n <=> Distinct(catalog)
  BY <1>1, CatalogDistinct DEF Distinct
<1>3. Cardinality(ClassifiedIds(classifications)) = m <=>
         DistinctEntries(classifications)
  BY <1>1, ClassifiedDistinct DEF DistinctEntries
<1>4. Covers(catalog, classifications, cases) <=>
         /\ Distinct(catalog)
         /\ n = m
         /\ \A i \in 1..n :
               \E j \in 1..m : Partners(catalog, classifications, cases, i, j)
  <2>1. Covers(catalog, classifications, cases) <=>
           /\ Cardinality(CatalogIds(catalog)) = n
           /\ n = m
           /\ \A i \in 1..n :
                 \E j \in 1..m : Partners(catalog, classifications, cases, i, j)
    BY <1>1, Zenon DEF Covers, Partners, Agrees
  <2>2. QED BY <1>2, <2>1, Zenon
<1>5. ASSUME Distinct(catalog), DistinctEntries(classifications),
             CatalogIds(catalog) = ClassifiedIds(classifications),
             AllAgree(catalog, classifications, cases)
      PROVE  /\ n = m
             /\ \A i \in 1..n :
                  \E j \in 1..m : Partners(catalog, classifications, cases, i, j)
  <2>1. n = m
    BY <1>2, <1>3, <1>5
  <2>2. ASSUME NEW i \in 1..n
        PROVE  \E j \in 1..m : Partners(catalog, classifications, cases, i, j)
    <3>1. PICK j \in 1..m : classifications[j].operationId = catalog[i].id
      BY <1>1, <1>5 DEF CatalogIds, ClassifiedIds
    <3>2. Partners(catalog, classifications, cases, i, j)
      BY <1>1, <1>5, <3>1 DEF Partners, DistinctEntries, AllAgree
    <3>3. QED BY <3>2
  <2>3. QED BY <2>1, <2>2
<1>6. ASSUME Distinct(catalog), n = m,
             \A i \in 1..n :
                \E j \in 1..m : Partners(catalog, classifications, cases, i, j)
      PROVE  /\ DistinctEntries(classifications)
             /\ CatalogIds(catalog) = ClassifiedIds(classifications)
             /\ AllAgree(catalog, classifications, cases)
  <2>1. \A i \in 1..n, j \in 1..m :
           Partners(catalog, classifications, cases, i, j) =>
              /\ classifications[j].operationId = catalog[i].id
              /\ \A k \in 1..m : classifications[k].operationId = catalog[i].id
                                 => k = j
              /\ Agrees(catalog[i], classifications[j], cases)
    BY <1>1 DEF Partners
  <2> DEFINE partner ==
                [i \in 1..n |-> CHOOSE j \in 1..m :
                                   Partners(catalog, classifications, cases, i, j)]
  <2>2. \A i \in 1..n :
           /\ partner[i] \in 1..m
           /\ Partners(catalog, classifications, cases, i, partner[i])
    BY <1>6
  <2>3. partner \in Injection(1..n, 1..m)
    <3>1. partner \in [1..n -> 1..m]
      BY <2>2
    <3> HIDE DEF partner
    <3>2. ASSUME NEW i \in 1..n, NEW k \in 1..n, partner[i] = partner[k]
          PROVE  i = k
      <4>1. /\ classifications[partner[i]].operationId = catalog[i].id
            /\ classifications[partner[k]].operationId = catalog[k].id
        BY <2>1, <2>2
      <4>2. catalog[i].id = catalog[k].id
        BY <3>2, <4>1
      <4>3. QED BY <1>1, <1>6, <4>2 DEF Distinct
    <3>3. QED BY <3>1, <3>2 DEF Injection, IsInjective
  <2>4. \A j \in 1..m : \E i \in 1..n : partner[i] = j
    <3>1. /\ IsFiniteSet(1..m)
          /\ Cardinality(1..n) = n /\ Cardinality(1..m) = m
      BY FS_Interval
    <3>2. partner \in Surjection(1..n, 1..m)
      BY <1>6, <2>3, <3>1, FS_Injection
    <3>3. QED BY <3>2 DEF Surjection
  <2> HIDE DEF partner
  <2>5. ASSUME NEW j \in 1..m
        PROVE  \E i \in 1..n : Partners(catalog, classifications, cases, i, j)
    <3>1. PICK i \in 1..n : partner[i] = j
      BY <2>4
    <3>2. QED BY <2>2, <3>1
  <2>6. DistinctEntries(classifications)
    <3>1. ASSUME NEW j \in 1..m, NEW k \in 1..m,
                 classifications[j].operationId = classifications[k].operationId
          PROVE  j = k
      <4>1. PICK i \in 1..n : Partners(catalog, classifications, cases, i, j)
        BY <2>5
      <4>2. QED BY <2>1, <3>1, <4>1
    <3>2. QED BY <1>1, <3>1 DEF DistinctEntries
  <2>7. CatalogIds(catalog) = ClassifiedIds(classifications)
    <3>1. ASSUME NEW i \in 1..n
          PROVE  catalog[i].id \in ClassifiedIds(classifications)
      BY <1>1, <2>1, <2>2 DEF ClassifiedIds
    <3>2. ASSUME NEW j \in 1..m
          PROVE  classifications[j].operationId \in CatalogIds(catalog)
      <4>1. PICK i \in 1..n : Partners(catalog, classifications, cases, i, j)
        BY <2>5
      <4>2. classifications[j].operationId = catalog[i].id
        BY <2>1, <4>1
      <4>3. QED BY <1>1, <4>2 DEF CatalogIds
    <3>3. CatalogIds(catalog) \subseteq ClassifiedIds(classifications)
      BY <1>1, <3>1 DEF CatalogIds
    <3>4. ClassifiedIds(classifications) \subseteq CatalogIds(catalog)
      BY <1>1, <3>2 DEF ClassifiedIds
    <3>5. QED BY <3>3, <3>4
  <2>8. AllAgree(catalog, classifications, cases)
    <3>1. ASSUME NEW i \in 1..n, NEW j \in 1..m,
                 classifications[j].operationId = catalog[i].id
          PROVE  Agrees(catalog[i], classifications[j], cases)
      <4>1. j = partner[i]
        BY <2>1, <2>2, <3>1
      <4>2. QED BY <2>1, <2>2, <4>1
    <3>2. QED BY <1>1, <3>1 DEF AllAgree
  <2>9. QED BY <2>6, <2>7, <2>8
<1>7. QED BY <1>4, <1>5, <1>6

\* validate() accepts exactly the complete and current coverage, whatever the
\* catalog, its classifications and the cases of the suite are.
THEOREM CoverageIsDecided ==
    ASSUME NEW Id, NEW Security, NEW Target, NEW Cases,
           input \in [catalog: Seq(CatalogOperations(Id, Security, Target)),
                      classifications: Seq(Classifications(Id, Security)),
                      cases: Cases]
    PROVE  AcceptsCompleteCoverage
BY ValidDecided, CoversDecided DEF AcceptsCompleteCoverage

-----------------------------------------------------------------------------
(* The path of a request.                                                  *)

\* The paths of a declaration: a segment has at most one placeholder.
Paths(Name) ==
    Seq([typed: SUBSET Name,
         matched: {{}} \cup {{name} : name \in Name}])

\* Its parameters, if it has any: each gives a text or undefined, or throws.
Parameters(Char) ==
    [by: {"literal", "callback", "throwing callback"},
     value: {{}} \cup {{text} : text \in Seq(Char)}]

ParameterRecords(Name, Char) ==
    {{}} \cup {{supplied} :
                  supplied \in UNION {[names -> Parameters(Char)] :
                                         names \in SUBSET Name}}

\* What a placeholder is replaced by is a text.
LEMMA ParameterGivesText ==
    ASSUME NEW Name, NEW Char,
           NEW params \in ParameterRecords(Name, Char), NEW name
    PROVE  TextOf(Parameter(params, name)) \in Seq(Char \cup {"u", "o"})
<1> DEFINE Texts == Seq(Char \cup {"u", "o"})
<1>1. \A text \in Seq(Char) : text \in Texts
  OBVIOUS
<1>2. UndefinedText \in Texts /\ InheritedText \in Texts
  BY DEF UndefinedText, InheritedText
<1>3. ASSUME NEW text \in Texts, NEW by
      PROVE  TextOf([by |-> by, value |-> {text}]) \in Texts
  BY DEF TextOf
<1>4. CASE \E supplied \in params : name \in DOMAIN supplied
  <2>1. PICK supplied : /\ params = {supplied}
                        /\ name \in DOMAIN supplied
                        /\ supplied[name] \in Parameters(Char)
    BY <1>4 DEF ParameterRecords
  <2>2. Parameter(params, name) = supplied[name]
    BY <2>1, <1>4 DEF Parameter
  <2>3. \/ supplied[name].value = {}
        \/ \E text \in Seq(Char) : supplied[name].value = {text}
    BY <2>1 DEF Parameters
  <2>4. QED BY <1>1, <1>2, <2>2, <2>3 DEF TextOf
<1>5. CASE ~\E supplied \in params : name \in DOMAIN supplied
  BY <1>2, <1>5 DEF Parameter, Callback, TextOf
<1>6. QED BY <1>4, <1>5

\* encodeURIComponent keeps the characters, and leaves no separator bare.
LEMMA EncodedDecodes ==
    ASSUME NEW Char, NEW text \in Seq(Char)
    PROVE  /\ DOMAIN Encoded(text) = DOMAIN text
           /\ \A j \in DOMAIN text :
                 Encoded(text)[j].char = "/" => Encoded(text)[j].escaped
           /\ [j \in DOMAIN Encoded(text) |-> Encoded(text)[j].char] = text
<1>1. DOMAIN Encoded(text) = DOMAIN text
  BY DEF Encoded
<1>2. \A j \in DOMAIN text :
         /\ Encoded(text)[j].char = text[j]
         /\ Encoded(text)[j].char = "/" => Encoded(text)[j].escaped
  BY DEF Encoded, Unreserved
<1>3. text = [j \in DOMAIN text |-> text[j]]
  OBVIOUS
<1> HIDE DEF Encoded
<1>4. [j \in DOMAIN Encoded(text) |-> Encoded(text)[j].char] = text
  BY <1>1, <1>2, <1>3
<1>5. QED BY <1>1, <1>2, <1>4

\* resolvePath accepts the parameters a path asks for and no others, and no
\* parameter it writes into a path adds a segment to it, whatever the names,
\* the characters and the length of the path are.
THEOREM PathIsResolved ==
    ASSUME NEW Name, NEW Char,
           input \in [path: Paths(Name), params: ParameterRecords(Name, Char)]
    PROVE  ResolvedAsDeclared
<1> DEFINE path == input.path
           params == input.params
           resolved == ResolvePath(path, params)
           Gives(name) == params # {} /\ ~Refused(Parameter(params, name))
<1>1. path \in Paths(Name) /\ params \in ParameterRecords(Name, Char)
  OBVIOUS
<1>2. params = {} \/ \E supplied : params = {supplied}
  BY <1>1 DEF ParameterRecords
<1> HIDE DEF path, params
<1>3. Missing(path, params) = {} <=>
         \A name \in ExpectedNames(path) :
            params # {} /\ name \in SuppliedNames(params) \cup Inherited
  BY <1>2 DEF Missing, SuppliedNames
<1>4. Unused(path, params) = {} <=>
         SuppliedNames(params) \subseteq ExpectedNames(path)
  BY <1>2 DEF Unused, SuppliedNames
<1>5. Builds(path, params) <=>
         /\ \A name \in ExpectedNames(path) :
               /\ name \in SuppliedNames(params) \cup Inherited
               /\ Gives(name)
         /\ SuppliedNames(params) \subseteq ExpectedNames(path)
  BY <1>3, <1>4 DEF Builds
<1>6. ASSUME NEW i \in DOMAIN path
      PROVE  /\ Cardinality(resolved[i]) = Cardinality(path[i].matched)
             /\ \A value \in resolved[i] :
                   /\ \A j \in DOMAIN value :
                         value[j].char = "/" => value[j].escaped
                   /\ \E name \in path[i].matched :
                         [j \in DOMAIN value |-> value[j].char] =
                            TextOf(Parameter(params, name))
  <2>1. resolved[i] = {Encoded(TextOf(Parameter(params, name))) :
                          name \in path[i].matched}
    BY DEF ResolvePath
  <2>2. \/ path[i].matched = {}
        \/ \E name : path[i].matched = {name}
    <3> DEFINE Segments == [typed: SUBSET Name,
                            matched: {{}} \cup {{name} : name \in Name}]
    <3>1. path \in Seq(Segments)
      BY <1>1 DEF Paths
    <3>2. path[i] \in Segments
      <4> HIDE DEF Segments
      <4>1. QED BY <1>6, <3>1
    <3>3. path[i].matched \in {{}} \cup {{name} : name \in Name}
      BY <3>2
    <3>4. QED BY <3>3
  <2> HIDE DEF resolved
  <2>3. Cardinality(resolved[i]) = Cardinality(path[i].matched)
    <3>1. CASE path[i].matched = {}
      BY <2>1, <3>1
    <3>2. ASSUME NEW name, path[i].matched = {name}
          PROVE  Cardinality(resolved[i]) = Cardinality(path[i].matched)
      <4>1. resolved[i] = {Encoded(TextOf(Parameter(params, name)))}
        BY <2>1, <3>2
      <4>2. QED BY <3>2, <4>1, FS_Singleton
    <3>3. QED BY <2>2, <3>1, <3>2
  <2>4. ASSUME NEW value \in resolved[i]
        PROVE  /\ \A j \in DOMAIN value :
                     value[j].char = "/" => value[j].escaped
               /\ \E name \in path[i].matched :
                     [j \in DOMAIN value |-> value[j].char] =
                        TextOf(Parameter(params, name))
    <3>1. PICK name \in path[i].matched :
             value = Encoded(TextOf(Parameter(params, name)))
      BY <2>1, <2>4
    <3> DEFINE text == TextOf(Parameter(params, name))
    <3>2. text \in Seq(Char \cup {"u", "o"})
      BY <1>1, ParameterGivesText
    <3> HIDE DEF text
    <3>3. /\ DOMAIN value = DOMAIN text
          /\ \A j \in DOMAIN text : value[j].char = "/" => value[j].escaped
          /\ [j \in DOMAIN value |-> value[j].char] = text
      BY <3>1, <3>2, EncodedDecodes DEF text
    <3>4. QED BY <3>3 DEF text
  <2>5. QED BY <2>3, <2>4
<1>7. QED BY <1>5, <1>6 DEF ResolvedAsDeclared, path, params

-----------------------------------------------------------------------------
(* A body and its echo.                                                    *)

\* What JSON.parse makes of a text is never a string of that text.
LEMMA ParsedDiffers ==
    ASSUME NEW text \in Text
    PROVE  /\ Parsed(text) # {StringValue(text)}
           /\ Parsed(text) = {} <=> text.parses = {}
<1>1. Parsed(Empty) = {} /\ Parsed(Word) = {}
  BY DEF Parsed, Empty, Word
<1>2. Parsed(Quoted) = {StringValue(Word)}
  BY DEF Parsed, Quoted
<1>3. Parsed(Object) = {DocumentValue("object")}
  BY DEF Parsed, Object
<1>4. StringValue(Word) # StringValue(Quoted)
  <2>1. StringValue(Word).text.name # StringValue(Quoted).text.name
    BY DEF StringValue, Word, Quoted
  <2>2. QED BY <2>1
<1>5. DocumentValue("object") # StringValue(Object)
  <2>1. DocumentValue("object").type # StringValue(Object).type
    BY DEF StringValue, DocumentValue
  <2>2. QED BY <2>1
<1>6. /\ Empty.parses = {} /\ Word.parses = {}
      /\ Quoted.parses # {} /\ Object.parses # {}
  BY DEF Empty, Word, Quoted, Object
<1>7. CASE text \in {Empty, Word}
  BY <1>1, <1>6, <1>7
<1>8. CASE text = Quoted
  BY <1>2, <1>4, <1>6, <1>8
<1>9. CASE text = Object
  BY <1>3, <1>5, <1>6, <1>9
<1>10. QED BY <1>7, <1>8, <1>9 DEF Text

\* Which bodies a case may expect back from a target that echoes them, for
\* every method and every declared content type.
THEOREM EchoesAreDecided ==
    ASSUME NEW Method, NEW Type,
           input \in [method: Method,
                      body: {{}} \cup {{value} : value \in Value},
                      contentType: {{}} \cup {{type} : type \in Type}]
    PROVE  BodySurvivesEcho
<1> DEFINE body == input.body
           declared == input.contentType
           sent == RequestBody(body)
           type == SentContentType(body, declared)
           text == IF sent = {} THEN Empty ELSE CHOOSE t \in sent : TRUE
           read == ResponseBody(text, type)
           survives ==
              \/ body = {}
              \/ \E value \in body :
                    \/ value.type = "document" /\ IsJson(type)
                    \/ /\ value.type = "string"
                       /\ value.text # Empty
                       /\ IsJson(declared) => value.text.parses = {}
<1> SUFFICES ASSUME Sendable(input.method, body)
             PROVE  read = body <=> survives
  BY DEF BodySurvivesEcho
<1>1. body = {} \/ \E value \in Value : body = {value}
  <2>1. body \in {{}} \cup {{value} : value \in Value}
    OBVIOUS
  <2> HIDE DEF body
  <2>2. QED BY <2>1
<1>2. Unserializable \notin body
  BY DEF Sendable
<1> HIDE DEF body, declared
<1>3. CASE body = {}
  BY <1>3 DEF RequestBody, ResponseBody
<1>4. ASSUME NEW string \in Text, body = {StringValue(string)}
      PROVE  read = body <=> survives
  <2>1. /\ StringValue(string).type = "string"
        /\ StringValue(string).text = string
    BY DEF StringValue
  <2>2. sent = {string}
    BY <1>4, <2>1 DEF RequestBody
  <2>3. text = string
    BY <2>2
  <2>4. IsJson(type) <=> IsJson(declared)
    BY <1>4, <2>1 DEF SentContentType, IsJson, IsString
  <2>5. survives <=> /\ string # Empty
                     /\ IsJson(declared) => string.parses = {}
    BY <1>4, <2>1
  <2> HIDE DEF text, type, survives
  <2>6. read = IF string = Empty THEN {}
               ELSE IF IsJson(type) /\ Parsed(string) # {} THEN Parsed(string)
               ELSE body
    BY <1>4, <2>3 DEF ResponseBody
  <2>7. QED BY <1>4, <2>4, <2>5, <2>6, ParsedDiffers
<1>5. CASE body = {DocumentValue("object")}
  <2>1. DocumentValue("object").type = "document"
    BY DEF DocumentValue
  <2>2. sent = {Object}
    BY <1>5, <2>1 DEF RequestBody, Stringified
  <2>3. text = Object
    BY <2>2
  <2>4. survives <=> IsJson(type)
    BY <1>5, <2>1
  <2>5. Object # Empty /\ Parsed(Object) = {DocumentValue("object")}
    <3>1. Object.name # Empty.name
      BY DEF Object, Empty
    <3>2. QED BY <3>1 DEF Parsed, Object
  <2>6. DocumentValue("object") # StringValue(Object)
    <3>1. DocumentValue("object").type # StringValue(Object).type
      BY DEF StringValue, DocumentValue
    <3>2. QED BY <3>1
  <2> HIDE DEF text, type, survives
  <2>7. read = IF IsJson(type) THEN body ELSE {StringValue(Object)}
    BY <1>5, <2>3, <2>5 DEF ResponseBody
  <2>8. QED BY <1>5, <2>4, <2>6, <2>7
<1>6. CASE body = {Unrepresented}
  <2>1. Unrepresented.type = "unrepresented"
    BY DEF Unrepresented
  <2>2. sent = {}
    BY <1>6, <2>1 DEF RequestBody, Stringified
  <2>3. ~survives
    BY <1>6, <2>1
  <2>4. read = {}
    BY <2>2 DEF ResponseBody
  <2>5. QED BY <1>6, <2>3, <2>4
<1>7. CASE body = {Instance}
  <2>1. Instance.type = "instance"
    BY DEF Instance
  <2>2. sent = {Quoted}
    BY <1>7, <2>1 DEF RequestBody, Stringified
  <2>3. text = Quoted
    BY <2>2
  <2>4. ~survives
    BY <1>7, <2>1
  <2>5. \A other : StringValue(other) # Instance
    <3>1. \A other : StringValue(other).type = "string"
      BY DEF StringValue
    <3>2. QED BY <2>1, <3>1
  <2> HIDE DEF text, type, survives
  <2>6. Parsed(Quoted) = {StringValue(Word)}
    BY DEF Parsed, Quoted
  <2>7. \/ read = {}
        \/ \E other : read = {StringValue(other)}
    BY <2>3, <2>6 DEF ResponseBody
  <2>8. QED BY <1>7, <2>4, <2>5, <2>7
<1>8. QED BY <1>1, <1>2, <1>3, <1>4, <1>5, <1>6, <1>7 DEF Value

-----------------------------------------------------------------------------
(* The concatenation of sequences.                                         *)

LEMMA LeastOf ==
    ASSUME NEW n \in Nat, NEW S \in SUBSET (1..n), S # {}
    PROVE  \E k \in S : \A m \in S : k <= m
<1>1. S \in SUBSET Nat /\ IsFiniteSet(S)
  <2>1. IsFiniteSet(1..n)
    BY FS_Interval
  <2>2. IsFiniteSet(S)
    BY <2>1, FS_Subset
  <2>3. QED BY <2>2
<1>2. /\ Cardinality(S) \in Nat
      /\ \A m \in S : \E i \in 1..Cardinality(S) : Ascending(S)[i] = m
      /\ \A i, j \in 1..Cardinality(S) :
            i < j => Ascending(S)[i] < Ascending(S)[j]
      /\ Ascending(S) \in [1..Cardinality(S) -> S]
  BY <1>1, AscendingSorts
<1>3. PICK m \in S : TRUE
  OBVIOUS
<1>4. PICK i \in 1..Cardinality(S) : Ascending(S)[i] = m
  BY <1>2
<1>5. 1 \in 1..Cardinality(S) /\ Ascending(S)[1] \in S
  BY <1>2, <1>4
<1>6. ASSUME NEW other \in S PROVE Ascending(S)[1] <= other
  <2>1. PICK j \in 1..Cardinality(S) : Ascending(S)[j] = other
    BY <1>2
  <2>2. j = 1 \/ 1 < j
    BY <1>2
  <2>3. Ascending(S)[1] \in Nat /\ other \in Nat
    BY <1>1, <1>5, <1>6
  <2>4. CASE j = 1
    BY <2>1, <2>3, <2>4
  <2>5. CASE 1 < j
    <3>1. Ascending(S)[1] < Ascending(S)[j]
      BY <1>2, <1>5, <2>5
    <3>2. QED BY <2>1, <2>3, <3>1
  <2>6. QED BY <2>2, <2>4, <2>5
<1>7. QED BY <1>5, <1>6

\* The recursive function of FlattenSeq, on the first n sequences.
Flattens(f, seqs, n) ==
    f = [i \in 1..n |-> IF i = 1 THEN seqs[i] ELSE f[i - 1] \o seqs[i]]

Elements(seqs, n) == UNION {ToSet(seqs[i]) : i \in 1..n}

LEMMA FlattenExists ==
    ASSUME NEW seqs, NEW n \in Nat
    PROVE  \E f : Flattens(f, seqs, n)
<1> DEFINE without == {k \in 1..n : ~\E f : Flattens(f, seqs, k)}
<1>1. \E f : Flattens(f, seqs, 0)
  <2>1. Flattens([i \in 1..0 |-> 0], seqs, 0)
    BY DEF Flattens
  <2>2. QED BY <2>1
<1>2. SUFFICES ASSUME without # {} PROVE FALSE
  BY <1>1
<1>3. PICK k \in without : \A m \in without : k <= m
  <2>1. without \in SUBSET (1..n)
    OBVIOUS
  <2> HIDE DEF without
  <2>2. QED BY <1>2, <2>1, LeastOf
<1>4. PICK f : Flattens(f, seqs, k - 1)
  <2>1. CASE k = 1
    BY <1>1, <2>1
  <2>2. CASE k # 1
    <3>1. k - 1 \in 1..n /\ ~(k <= k - 1)
      BY <1>3, <2>2
    <3>2. k - 1 \notin without
      BY <1>3, <3>1
    <3>3. QED BY <3>1, <3>2
  <2>3. QED BY <2>1, <2>2
<1>5. k \in 1..n
  OBVIOUS
<1> DEFINE g == [i \in 1..k |->
                    IF i < k THEN f[i]
                    ELSE IF k = 1 THEN seqs[k] ELSE f[k - 1] \o seqs[k]]
<1>6. ASSUME NEW i \in 1..k
      PROVE  g[i] = IF i = 1 THEN seqs[i] ELSE g[i - 1] \o seqs[i]
  <2>1. CASE i = k
    <3>1. CASE k = 1
      BY <2>1, <3>1
    <3>2. CASE k # 1
      <4>1. k - 1 \in 1..k /\ k - 1 < k
        BY <1>5, <3>2
      <4>2. g[k - 1] = f[k - 1]
        BY <4>1
      <4>3. g[k] = f[k - 1] \o seqs[k]
        <5>1. k \in 1..k /\ ~(k < k)
          BY <1>5
        <5>2. QED BY <3>2, <5>1, Zenon
      <4> HIDE DEF g
      <4>4. QED BY <2>1, <3>2, <4>2, <4>3
    <3>3. QED BY <3>1, <3>2
  <2>2. CASE i # k
    <3>1. i \in 1..(k - 1) /\ i < k
      BY <1>5, <1>6, <2>2
    <3>2. f[i] = IF i = 1 THEN seqs[i] ELSE f[i - 1] \o seqs[i]
      BY <1>4, <3>1 DEF Flattens
    <3>3. i # 1 => i - 1 \in 1..k /\ i - 1 < k
      BY <1>5, <1>6, <2>2
    <3>4. QED BY <3>1, <3>2, <3>3
  <2>3. QED BY <2>1, <2>2
<1>7. Flattens(g, seqs, k)
  <2>1. g = [i \in 1..k |-> g[i]]
    OBVIOUS
  <2> HIDE DEF g
  <2>2. QED BY <1>6, <2>1 DEF Flattens
<1>8. QED BY <1>7

LEMMA ToSetConcat ==
    ASSUME NEW S, NEW s \in Seq(S), NEW t \in Seq(S)
    PROVE  ToSet(s \o t) = ToSet(s) \cup ToSet(t)
<1>1. PICK m \in Nat, n \in Nat :
         /\ m = Len(s) /\ DOMAIN s = 1..m
         /\ n = Len(t) /\ DOMAIN t = 1..n
  OBVIOUS
<1>2. /\ DOMAIN (s \o t) = 1..(m + n)
      /\ \A i \in 1..(m + n) :
            (s \o t)[i] = IF i <= m THEN s[i] ELSE t[i - m]
  BY <1>1
<1>3. ASSUME NEW x \in ToSet(s \o t) PROVE x \in ToSet(s) \cup ToSet(t)
  <2>1. PICK i \in 1..(m + n) : x = (s \o t)[i]
    BY <1>2, <1>3 DEF ToSet
  <2>2. CASE i <= m
    BY <1>1, <1>2, <2>1, <2>2 DEF ToSet
  <2>3. CASE ~(i <= m)
    <3>1. i - m \in 1..n
      BY <2>3
    <3>2. QED BY <1>1, <1>2, <2>1, <2>3, <3>1 DEF ToSet
  <2>4. QED BY <2>2, <2>3
<1>4. ASSUME NEW x \in ToSet(s) PROVE x \in ToSet(s \o t)
  <2>1. PICK i \in 1..m : x = s[i]
    BY <1>1, <1>4 DEF ToSet
  <2>2. i \in 1..(m + n) /\ i <= m
    OBVIOUS
  <2>3. x = (s \o t)[i]
    BY <1>2, <2>1, <2>2
  <2>4. QED BY <1>2, <2>2, <2>3 DEF ToSet
<1>5. ASSUME NEW x \in ToSet(t) PROVE x \in ToSet(s \o t)
  <2>1. PICK i \in 1..n : x = t[i]
    BY <1>1, <1>5 DEF ToSet
  <2>2. m + i \in 1..(m + n) /\ ~(m + i <= m) /\ (m + i) - m = i
    OBVIOUS
  <2>3. x = (s \o t)[m + i]
    BY <1>2, <2>1, <2>2
  <2>4. QED BY <1>2, <2>2, <2>3 DEF ToSet
<1>6. QED BY <1>3, <1>4, <1>5

\* The concatenation has the elements of all the sequences and no others.
LEMMA FlattenGathers ==
    ASSUME NEW S, NEW seqs \in Seq(Seq(S))
    PROVE  /\ FlattenSeq(seqs) \in Seq(S)
           /\ ToSet(FlattenSeq(seqs)) =
                 UNION {ToSet(seqs[i]) : i \in DOMAIN seqs}
<1>1. PICK n \in Nat : n = Len(seqs) /\ DOMAIN seqs = 1..n
  OBVIOUS
<1>2. CASE n = 0
  <2>1. seqs = <<>>
    BY <1>1, <1>2
  <2>2. FlattenSeq(seqs) = <<>>
    BY <2>1 DEF FlattenSeq
  <2>3. \A i : i \notin DOMAIN seqs
    BY <1>1, <1>2
  <2>4. ToSet(seqs) = {} /\ UNION {ToSet(seqs[i]) : i \in DOMAIN seqs} = {}
    BY <2>3 DEF ToSet
  <2>5. <<>> \in Seq(S)
    BY EmptySeq
  <2>6. ToSet(FlattenSeq(seqs)) = {}
    BY <2>1, <2>2, <2>4, Zenon
  <2>7. QED BY <2>2, <2>4, <2>5, <2>6
<1>3. CASE n # 0
  <2> DEFINE flatten == CHOOSE f : Flattens(f, seqs, n)
  <2>1. FlattenSeq(seqs) = flatten[n]
    BY <1>1, <1>3 DEF FlattenSeq, Flattens
  <2>2. Flattens(flatten, seqs, n)
    BY FlattenExists
  <2> HIDE DEF flatten
  <2>3. \A i \in 1..n :
           flatten[i] = IF i = 1 THEN seqs[i] ELSE flatten[i - 1] \o seqs[i]
    BY <2>2 DEF Flattens
  <2> DEFINE Gathers(i) ==
                /\ flatten[i] \in Seq(S)
                /\ ToSet(flatten[i]) = Elements(seqs, i)
             failing == {i \in 1..n : ~Gathers(i)}
  <2>4. SUFFICES ASSUME failing # {} PROVE FALSE
    <3>1. SUFFICES ASSUME failing = {} PROVE Gathers(n)
      BY <1>1, <2>1, Zenon DEF Elements
    <3>2. n \in 1..n
      BY <1>3
    <3> HIDE DEF Gathers
    <3>3. QED BY <3>1, <3>2
  <2>5. PICK i \in 1..n : ~Gathers(i) /\ \A m \in 1..n : ~Gathers(m) => i <= m
    <3>1. failing \in SUBSET (1..n)
      OBVIOUS
    <3>2. PICK k \in failing : \A m \in failing : k <= m
      <4> HIDE DEF failing
      <4>1. QED BY <2>4, <3>1, LeastOf
    <3>3. QED BY <3>2
  <2>6. seqs[i] \in Seq(S)
    BY <1>1
  <2>7. CASE i = 1
    <3>1. Elements(seqs, 1) = ToSet(seqs[1])
      BY DEF Elements
    <3>2. QED BY <2>3, <2>5, <2>6, <2>7, <3>1
  <2>8. CASE i # 1
    <3>1. i - 1 \in 1..n /\ ~(i <= i - 1)
      BY <2>8
    <3>2. Gathers(i - 1)
      BY <2>5, <3>1
    <3>3. flatten[i] = flatten[i - 1] \o seqs[i]
      BY <2>3, <2>8
    <3>4. ToSet(flatten[i - 1] \o seqs[i]) =
             ToSet(flatten[i - 1]) \cup ToSet(seqs[i])
      BY <2>6, <3>2, ToSetConcat
    <3>5. Elements(seqs, i) = Elements(seqs, i - 1) \cup ToSet(seqs[i])
      <4>1. \A j : j \in 1..i <=> j \in 1..(i - 1) \/ j = i
        BY <2>8
      <4>2. ASSUME NEW x PROVE
               (\E j \in 1..i : x \in ToSet(seqs[j])) <=>
                  \/ \E j \in 1..(i - 1) : x \in ToSet(seqs[j])
                  \/ x \in ToSet(seqs[i])
        BY <4>1, Zenon
      <4>3. \A m, x : x \in Elements(seqs, m) <=>
                         \E j \in 1..m : x \in ToSet(seqs[j])
        BY Zenon DEF Elements
      <4>4. QED BY <4>2, <4>3
    <3>6. flatten[i] \in Seq(S)
      BY <2>6, <3>2, <3>3, ConcatProperties
    <3>7. QED BY <2>5, <3>2, <3>3, <3>4, <3>5, <3>6
  <2>9. QED BY <2>7, <2>8
<1>4. QED BY <1>2, <1>3

-----------------------------------------------------------------------------
(* The inventory of a document.                                            *)

\* The documents: a path item has some of the methods that OpenAPI has.
Items(Path, Id, Tag) ==
    [path: Path, parameterized: BOOLEAN,
     methods: UNION {[methods -> [operationId: Id, tags: SUBSET Tag]] :
                        methods \in SUBSET (ToSet(SupportedMethods)
                                            \cup {"options", "trace"})}]

ListedOperations(Path, Id, Tag) ==
    [operationId: Id, method: ToSet(SupportedMethods), path: Path,
     parameterized: BOOLEAN, tags: SUBSET Tag]

LEMMA ItemIsListed ==
    ASSUME NEW Path, NEW Id, NEW Tag, NEW item \in Items(Path, Id, Tag)
    PROVE  /\ OperationsOf(item) \in Seq(ListedOperations(Path, Id, Tag))
           /\ {<<operation.path, operation.method>> :
                  operation \in ToSet(OperationsOf(item))} =
                 {item.path} \X (DOMAIN item.methods \ {"options", "trace"})
<1> DEFINE positions == {i \in DOMAIN SupportedMethods :
                            SupportedMethods[i] \in DOMAIN item.methods}
           present == ElementsAt(SupportedMethods, positions)
           size == Cardinality(positions)
           entry(method) == [operationId   |-> item.methods[method].operationId,
                             method        |-> method,
                             path          |-> item.path,
                             parameterized |-> item.parameterized,
                             tags          |-> item.methods[method].tags]
<1>1. DOMAIN SupportedMethods = 1..6
  BY DEF SupportedMethods
<1>2. positions \in SUBSET Nat /\ IsFiniteSet(positions)
  <2>1. \A i \in positions : i \in 1..6
    BY <1>1, Zenon
  <2> HIDE DEF positions
  <2>2. IsFiniteSet(1..6)
    <3>1. PICK n \in Int : n = 6
      OBVIOUS
    <3>2. IsFiniteSet(1..n)
      BY FS_Interval
    <3>3. QED BY <3>1, <3>2
  <2>3. IsFiniteSet(positions)
    BY <2>1, <2>2, FS_Subset
  <2>4. QED BY <2>1, <2>3
<1>3. /\ size \in Nat
      /\ DOMAIN present = 1..size
      /\ ToSet(present) = {SupportedMethods[p] : p \in positions}
  <2> HIDE DEF positions
  <2>1. QED BY <1>2, ElementsAtSelects
<1>4. /\ item.path \in Path
      /\ item.parameterized \in BOOLEAN
      /\ DOMAIN item.methods \subseteq
            ToSet(SupportedMethods) \cup {"options", "trace"}
      /\ \A method \in DOMAIN item.methods :
            item.methods[method] \in [operationId: Id, tags: SUBSET Tag]
  BY DEF Items
<1>5. ToSet(present) = DOMAIN item.methods \ {"options", "trace"}
  <2>1. "options" \notin ToSet(SupportedMethods)
        /\ "trace" \notin ToSet(SupportedMethods)
    BY <1>1 DEF ToSet, SupportedMethods
  <2>2. ToSet(present) = ToSet(SupportedMethods) \cap DOMAIN item.methods
    BY <1>3 DEF ToSet
  <2> HIDE DEF present
  <2>3. QED BY <1>4, <2>1, <2>2
<1>6. OperationsOf(item) = [i \in 1..size |-> entry(present[i])]
  BY <1>3 DEF OperationsOf
<1>7. \A i \in 1..size : present[i] \in ToSet(present)
  BY <1>3 DEF ToSet
<1> HIDE DEF positions, present, size
<1>8. \A i \in 1..size : entry(present[i]) \in ListedOperations(Path, Id, Tag)
  <2>1. ASSUME NEW i \in 1..size
        PROVE  entry(present[i]) \in ListedOperations(Path, Id, Tag)
    <3>1. present[i] \in DOMAIN item.methods
          /\ present[i] \in ToSet(SupportedMethods)
      BY <1>4, <1>5, <1>7
    <3>2. item.methods[present[i]] \in [operationId: Id, tags: SUBSET Tag]
      BY <1>4, <3>1
    <3>3. QED BY <1>4, <3>1, <3>2 DEF ListedOperations
  <2>2. QED BY <2>1
<1>9. OperationsOf(item) \in Seq(ListedOperations(Path, Id, Tag))
  <2> HIDE DEF entry
  <2>1. OperationsOf(item) \in [1..size -> ListedOperations(Path, Id, Tag)]
    BY <1>6, <1>8
  <2>2. QED BY <1>3, <2>1, SeqDef
<1>10. {<<operation.path, operation.method>> :
           operation \in ToSet(OperationsOf(item))} =
          {item.path} \X ToSet(present)
  <2>1. \A m : entry(m).path = item.path /\ entry(m).method = m
    OBVIOUS
  <2> HIDE DEF entry
  <2>2. ASSUME NEW operation \in ToSet(OperationsOf(item))
        PROVE  <<operation.path, operation.method>> \in
                  {item.path} \X ToSet(present)
    <3>1. PICK i \in 1..size : operation = entry(present[i])
      BY <1>6, <2>2 DEF ToSet
    <3>2. QED BY <1>7, <2>1, <3>1
  <2>3. ASSUME NEW m \in ToSet(present)
        PROVE  \E operation \in ToSet(OperationsOf(item)) :
                  operation.path = item.path /\ operation.method = m
    <3>1. PICK i \in 1..size : m = present[i]
      BY <1>3, <2>3 DEF ToSet
    <3>2. entry(m) \in ToSet(OperationsOf(item))
      BY <1>6, <3>1 DEF ToSet
    <3>3. QED BY <2>1, <3>2
  <2>4. QED BY <2>2, <2>3
<1>11. QED BY <1>5, <1>9, <1>10

LEMMA DocumentIsListed ==
    ASSUME NEW Path, NEW Id, NEW Tag,
           NEW document \in Seq(Items(Path, Id, Tag))
    PROVE  /\ FromOpenApi(document) \in Seq(ListedOperations(Path, Id, Tag))
           /\ ToSet(FromOpenApi(document)) =
                 UNION {ToSet(OperationsOf(document[d])) :
                           d \in DOMAIN document}
<1>1. PICK n \in Nat : n = Len(document) /\ DOMAIN document = 1..n
  OBVIOUS
<1> DEFINE lists == [d \in 1..n |-> OperationsOf(document[d])]
<1>2. \A d \in 1..n : OperationsOf(document[d]) \in
                         Seq(ListedOperations(Path, Id, Tag))
  BY <1>1, ItemIsListed
<1>3. lists \in Seq(Seq(ListedOperations(Path, Id, Tag)))
  <2>1. lists \in [1..n -> Seq(ListedOperations(Path, Id, Tag))]
    BY <1>2
  <2> HIDE DEF lists
  <2>2. QED BY <2>1, SeqDef
<1>4. FromOpenApi(document) = FlattenSeq(lists)
  BY <1>1 DEF FromOpenApi
<1>5. /\ DOMAIN lists = 1..n
      /\ \A d \in 1..n : lists[d] = OperationsOf(document[d])
  OBVIOUS
<1> HIDE DEF lists
<1>6. /\ FlattenSeq(lists) \in Seq(ListedOperations(Path, Id, Tag))
      /\ ToSet(FlattenSeq(lists)) = UNION {ToSet(lists[d]) : d \in DOMAIN lists}
  BY <1>3, FlattenGathers
<1>7. UNION {ToSet(lists[d]) : d \in DOMAIN lists} =
         UNION {ToSet(OperationsOf(document[d])) : d \in DOMAIN document}
  BY <1>1, <1>5
<1>8. QED BY <1>4, <1>6, <1>7

LEMMA InventoryDistinct ==
    ASSUME NEW S, NEW inventory \in Seq(S)
    PROVE  Cardinality(OperationIds(inventory)) = Len(inventory) <=>
              \A i, j \in DOMAIN inventory :
                 inventory[i].operationId = inventory[j].operationId => i = j
<1>0. PICK n \in Nat : n = Len(inventory) /\ DOMAIN inventory = 1..n
  OBVIOUS
<1> DEFINE idOf == [i \in 1..n |-> inventory[i].operationId]
<1>1. /\ idOf \in [1..n -> OperationIds(inventory)]
      /\ \A id \in OperationIds(inventory) : \E i \in 1..n : idOf[i] = id
      /\ \A i, j \in 1..n :
            idOf[i] = idOf[j] <=>
               inventory[i].operationId = inventory[j].operationId
  BY <1>0 DEF OperationIds
<1> HIDE DEF idOf
<1>2. Cardinality(OperationIds(inventory)) = n <=>
         idOf \in Injection(1..n, OperationIds(inventory))
  BY <1>1, DistinctIds
<1>3. QED BY <1>0, <1>1, <1>2 DEF Injection, IsInjective

\* An accepted document is inventoried completely and without collisions, with
\* any number of path items, over any paths, ids and tags.
THEOREM InventoryIsComplete ==
    ASSUME NEW Path, NEW Id, NEW Tag, NEW Selection,
           input \in [document: Seq(Items(Path, Id, Tag)), selection: Selection]
    PROVE  InventoryComplete
<1> DEFINE document == input.document
           inventory == FromOpenApi(document)
           pairs(item) == {item.path} \X
                             (DOMAIN item.methods \ {"options", "trace"})
<1>1. document \in Seq(Items(Path, Id, Tag))
  OBVIOUS
<1> HIDE DEF document
<1>2. /\ inventory \in Seq(ListedOperations(Path, Id, Tag))
      /\ ToSet(inventory) = UNION {ToSet(OperationsOf(document[d])) :
                                      d \in DOMAIN document}
  BY <1>1, DocumentIsListed
<1>3. \A d \in DOMAIN document :
         {<<operation.path, operation.method>> :
             operation \in ToSet(OperationsOf(document[d]))} =
            pairs(document[d])
  <2>1. \A d \in DOMAIN document : document[d] \in Items(Path, Id, Tag)
    BY <1>1
  <2>2. QED BY <2>1, ItemIsListed
<1> HIDE DEF inventory
<1>4. {<<inventory[i].path, inventory[i].method>> : i \in DOMAIN inventory} =
         {<<operation.path, operation.method>> : operation \in ToSet(inventory)}
  BY DEF ToSet
<1>5. {<<operation.path, operation.method>> : operation \in ToSet(inventory)} =
         UNION {pairs(document[d]) : d \in DOMAIN document}
  <2> HIDE DEF pairs
  <2>1. ASSUME NEW operation \in ToSet(inventory)
        PROVE  \E d \in DOMAIN document :
                  <<operation.path, operation.method>> \in pairs(document[d])
    <3>1. PICK d \in DOMAIN document :
             operation \in ToSet(OperationsOf(document[d]))
      BY <1>2, <2>1
    <3>2. QED BY <1>3, <3>1
  <2>2. ASSUME NEW d \in DOMAIN document, NEW pair \in pairs(document[d])
        PROVE  \E operation \in ToSet(inventory) :
                  pair = <<operation.path, operation.method>>
    <3>1. PICK operation \in ToSet(OperationsOf(document[d])) :
             pair = <<operation.path, operation.method>>
      BY <1>3, <2>2
    <3>2. operation \in ToSet(inventory)
      BY <1>2, <3>1
    <3>3. QED BY <3>1, <3>2
  <2>3. QED BY <2>1, <2>2
<1>6. Accepted(document) =>
         Cardinality(OperationIds(inventory)) = Len(inventory)
  BY <1>2, InventoryDistinct DEF Accepted, inventory
<1>7. QED BY <1>4, <1>5, <1>6 DEF InventoryComplete, document, inventory

-----------------------------------------------------------------------------
(* The selections from an inventory.                                       *)

Selections(Id, Tag) ==
    [by: {"all"}] \cup [by: {"ids"}, ids: Seq(Id)]
    \cup [by: {"tags"}, tags: SUBSET Tag]

WantedById(inventory, ids) ==
    {i \in DOMAIN inventory : Contains(ids, inventory[i].operationId)}

\* Ids that are all known select, wherever and as often as they are named, one
\* operation each.
LEMMA IdsSelect ==
    ASSUME NEW Id, NEW S, NEW inventory \in Seq(S), NEW ids \in Seq(Id),
           \A i, j \in DOMAIN inventory :
              inventory[i].operationId = inventory[j].operationId => i = j,
           \A i \in DOMAIN ids : ids[i] \in OperationIds(inventory)
    PROVE  /\ SelectById(inventory, ids) =
                 [i \in 1..Cardinality(WantedById(inventory, ids)) |->
                     SelectById(inventory, ids)[i]]
           /\ Cardinality(WantedById(inventory, ids)) \in Nat
           /\ ToSet(SelectById(inventory, ids)) =
                 {inventory[i] : i \in WantedById(inventory, ids)}
           /\ SelectById(inventory, ids) = <<>> => ids = <<>>
<1> DEFINE firsts == {i \in DOMAIN ids : \A j \in 1..(i - 1) : ids[j] # ids[i]}
           named  == ElementsAt(ids, firsts)
           size   == Cardinality(firsts)
           wanted == WantedById(inventory, ids)
           place  == [i \in firsts |-> CHOOSE w \in DOMAIN inventory :
                                          inventory[w].operationId = ids[i]]
<1>1. PICK n \in Nat, m \in Nat :
         /\ n = Len(inventory) /\ DOMAIN inventory = 1..n
         /\ m = Len(ids) /\ DOMAIN ids = 1..m
  OBVIOUS
<1>2. \A i \in firsts : i \in 1..m
  BY <1>1, Zenon
<1>3. firsts \in SUBSET Nat /\ IsFiniteSet(firsts)
  <2> HIDE DEF firsts
  <2>1. IsFiniteSet(1..m)
    BY FS_Interval
  <2>2. IsFiniteSet(firsts)
    BY <1>2, <2>1, FS_Subset
  <2>3. QED BY <1>2, <2>2
<1>4. \A i \in firsts : /\ place[i] \in DOMAIN inventory
                        /\ inventory[place[i]].operationId = ids[i]
                        /\ place[i] \in wanted
  <2>1. ASSUME NEW i \in firsts
        PROVE  /\ place[i] \in DOMAIN inventory
               /\ inventory[place[i]].operationId = ids[i]
    <3>1. \E w \in DOMAIN inventory : inventory[w].operationId = ids[i]
      BY <1>1, <1>2 DEF OperationIds
    <3>2. QED BY <3>1
  <2> HIDE DEF place
  <2>2. QED BY <1>1, <1>2, <2>1 DEF WantedById, Contains
<1>5. \A w \in wanted : \E i \in firsts : place[i] = w
  <2>1. ASSUME NEW w \in wanted PROVE \E i \in firsts : place[i] = w
    <3> DEFINE namings == {i \in 1..m : ids[i] = inventory[w].operationId}
    <3>1. namings \in SUBSET (1..m) /\ namings # {} /\ w \in DOMAIN inventory
      BY <1>1, <2>1 DEF WantedById, Contains
    <3>2. PICK i \in namings : \A j \in namings : i <= j
      <4> HIDE DEF namings
      <4>1. QED BY <3>1, LeastOf
    <3>3. i \in 1..m /\ ids[i] = inventory[w].operationId
      OBVIOUS
    <3>4. \A j \in 1..(i - 1) : ids[j] # ids[i]
      <4>1. ASSUME NEW j \in 1..(i - 1), ids[j] = ids[i] PROVE FALSE
        <5>1. j \in 1..m /\ ~(i <= j)
          BY <3>3
        <5>2. QED BY <3>2, <3>3, <4>1, <5>1
      <4>2. QED BY <4>1
    <3>5. i \in firsts
      BY <1>1, <3>3, <3>4
    <3> HIDE DEF firsts, place
    <3>6. place[i] = w
      BY <1>4, <3>1, <3>3, <3>5
    <3>7. QED BY <3>5, <3>6
  <2>2. QED BY <2>1
<1>6. \A i, j \in firsts : ids[i] = ids[j] => i = j
  <2>1. ASSUME NEW i \in firsts, NEW j \in firsts, ids[i] = ids[j], i < j
        PROVE  FALSE
    <3>1. i \in 1..(j - 1)
      BY <1>2, <2>1
    <3>2. QED BY <2>1, <3>1
  <2>2. \A i \in firsts : i \in Nat
    BY <1>2
  <2> HIDE DEF firsts
  <2>3. QED BY <2>1, <2>2
<1>7. place \in Injection(firsts, wanted) /\ place \in Surjection(firsts, wanted)
  <2>1. place \in [firsts -> wanted]
    BY <1>4
  <2> HIDE DEF place, firsts, wanted
  <2>2. \A i, j \in firsts : place[i] = place[j] => i = j
    BY <1>4, <1>6
  <2>3. QED BY <1>5, <2>1, <2>2 DEF Injection, IsInjective, Surjection
<1>8. Cardinality(wanted) = size /\ size \in Nat
  <2> HIDE DEF place, firsts, wanted
  <2>1. QED BY <1>3, <1>7, FS_Surjection, FS_CardinalityType
<1>9. /\ DOMAIN named = 1..size
      /\ ToSet(named) = {ids[i] : i \in firsts}
  <2> HIDE DEF firsts
  <2>1. QED BY <1>3, ElementsGathered
<1>10. SelectById(inventory, ids) =
          [i \in 1..size |-> WithId(inventory, named[i])]
  BY <1>9 DEF SelectById
<1>11. \A i \in firsts : WithId(inventory, ids[i]) = inventory[place[i]]
  BY DEF WithId
<1>12. ToSet(SelectById(inventory, ids)) = {inventory[w] : w \in wanted}
  <2> HIDE DEF firsts, place, wanted, size, named
  <2>1. ASSUME NEW x \in ToSet(SelectById(inventory, ids))
        PROVE  \E w \in wanted : x = inventory[w]
    <3>1. PICK k \in 1..size : x = WithId(inventory, named[k])
      BY <1>10, <2>1 DEF ToSet
    <3>2. named[k] \in ToSet(named)
      BY <1>9 DEF ToSet
    <3>3. PICK i \in firsts : named[k] = ids[i]
      BY <1>9, <3>2
    <3>4. QED BY <1>4, <1>11, <3>1, <3>3
  <2>2. ASSUME NEW w \in wanted
        PROVE  inventory[w] \in ToSet(SelectById(inventory, ids))
    <3>1. PICK i \in firsts : place[i] = w
      BY <1>5
    <3>2. ids[i] \in ToSet(named)
      BY <1>9
    <3>3. PICK k \in 1..size : named[k] = ids[i]
      BY <1>9, <3>2 DEF ToSet
    <3>4. SelectById(inventory, ids)[k] = inventory[w]
      BY <1>10, <1>11, <3>1, <3>3
    <3>5. DOMAIN SelectById(inventory, ids) = 1..size
      BY <1>10
    <3>6. QED BY <3>4, <3>5 DEF ToSet
  <2>3. QED BY <2>1, <2>2
<1>13. ASSUME SelectById(inventory, ids) = <<>> PROVE ids = <<>>
  <2>1. DOMAIN SelectById(inventory, ids) = 1..size
    BY <1>10
  <2>2. size = 0
    <3> HIDE DEF size
    <3>1. QED BY <1>8, <1>13, <2>1
  <2>3. 1 \notin firsts
    <3> HIDE DEF firsts
    <3>1. \A i \in firsts : FALSE
      BY <1>3, <2>2, FS_EmptySet
    <3>2. QED BY <3>1
  <2>4. 1 \notin 1..m
    BY <1>1, <2>3
  <2>5. m = 0
    BY <2>4
  <2>6. QED BY <1>1, <2>5
<1>14. QED
  <2> HIDE DEF size, wanted, place, firsts
  <2>1. SelectById(inventory, ids) =
           [i \in 1..size |-> SelectById(inventory, ids)[i]]
    BY <1>10
  <2>2. QED BY <1>8, <1>12, <1>13, <2>1 DEF wanted

WantedByTag(inventory, tags) ==
    {i \in DOMAIN inventory : inventory[i].tags \cap tags # {}}

LEMMA TagsSelect ==
    ASSUME NEW S, NEW inventory \in Seq(S),
           NEW tags \in SUBSET KnownTags(inventory)
    PROVE  /\ SelectByTag(inventory, tags) =
                 [i \in 1..Cardinality(WantedByTag(inventory, tags)) |->
                     SelectByTag(inventory, tags)[i]]
           /\ Cardinality(WantedByTag(inventory, tags)) \in Nat
           /\ ToSet(SelectByTag(inventory, tags)) =
                 {inventory[i] : i \in WantedByTag(inventory, tags)}
           /\ SelectByTag(inventory, tags) = <<>> => tags = {}
<1> DEFINE wanted == WantedByTag(inventory, tags)
<1>1. PICK n \in Nat : n = Len(inventory) /\ DOMAIN inventory = 1..n
  OBVIOUS
<1>2. wanted \in SUBSET Nat /\ IsFiniteSet(wanted)
  <2>1. \A i \in wanted : i \in 1..n
    BY <1>1, Zenon DEF WantedByTag
  <2> HIDE DEF wanted
  <2>2. IsFiniteSet(1..n)
    BY FS_Interval
  <2>3. IsFiniteSet(wanted)
    BY <2>1, <2>2, FS_Subset
  <2>4. QED BY <2>1, <2>3
<1>3. SelectByTag(inventory, tags) = ElementsAt(inventory, wanted)
  BY DEF SelectByTag, WantedByTag
<1>4. ASSUME tags # {} PROVE wanted # {}
  <2>1. PICK tag \in tags, i \in DOMAIN inventory : tag \in inventory[i].tags
    BY <1>4 DEF KnownTags
  <2>2. i \in wanted
    BY <2>1 DEF WantedByTag
  <2>3. QED BY <2>2
<1> HIDE DEF wanted
<1>5. /\ Cardinality(wanted) \in Nat
      /\ DOMAIN SelectByTag(inventory, tags) = 1..Cardinality(wanted)
      /\ ToSet(SelectByTag(inventory, tags)) = {inventory[i] : i \in wanted}
  BY <1>2, <1>3, ElementsAtSelects
<1>6. ASSUME SelectByTag(inventory, tags) = <<>> PROVE tags = {}
  <2>1. Cardinality(wanted) = 0
    BY <1>5, <1>6
  <2>2. QED BY <1>2, <1>4, <2>1, FS_EmptySet
<1>7. SelectByTag(inventory, tags) =
         [i \in 1..Cardinality(wanted) |-> SelectByTag(inventory, tags)[i]]
  BY <1>3, <1>5 DEF ElementsAt
<1>8. QED BY <1>5, <1>6, <1>7 DEF wanted

\* A rule gets the operations it asks for, each once, from any inventory of an
\* accepted document and for any selection.
THEOREM SelectionIsExact ==
    ASSUME NEW Path, NEW Id, NEW Tag,
           input \in [document: Seq(Items(Path, Id, Tag)),
                      selection: Selections(Id, Tag)]
    PROVE  SelectionExact
<1> DEFINE inventory == FromOpenApi(input.document)
           selection == input.selection
           selected  == Selected(inventory, selection)
           wanted ==
               {i \in DOMAIN inventory :
                   CASE selection.by = "all"  -> TRUE
                     [] selection.by = "ids"  ->
                           Contains(selection.ids, inventory[i].operationId)
                     [] selection.by = "tags" ->
                           \E tag \in selection.tags : tag \in inventory[i].tags}
           reason == CASE selection.by = "all"  -> inventory = <<>>
                       [] selection.by = "ids"  -> selection.ids = <<>>
                       [] selection.by = "tags" -> selection.tags = {}
<1> SUFFICES ASSUME Accepted(input.document), Selectable(inventory, selection)
             PROVE  /\ ToSet(selected) = {inventory[i] : i \in wanted}
                    /\ Len(selected) = Cardinality(wanted)
                    /\ \A operation \in ToSet(selected) : ~operation.parameterized
                    /\ selected = <<>> => reason
  BY DEF SelectionExact
<1>1. inventory \in Seq(ListedOperations(Path, Id, Tag))
  BY DocumentIsListed
<1>2. \A i, j \in DOMAIN inventory :
         inventory[i].operationId = inventory[j].operationId => i = j
  BY DEF Accepted
<1>3. selection \in Selections(Id, Tag)
  OBVIOUS
<1>4. \A operation \in ToSet(selected) : ~operation.parameterized
  BY DEF Selectable, ToSet
<1> HIDE DEF inventory, selection
<1>5. SUFFICES /\ ToSet(selected) = {inventory[i] : i \in wanted}
               /\ \E n \in Nat : /\ selected = [i \in 1..n |-> selected[i]]
                                 /\ Cardinality(wanted) = n
               /\ selected = <<>> => reason
  <2> HIDE DEF selected, wanted, reason
  <2>1. ASSUME NEW n \in Nat, selected = [i \in 1..n |-> selected[i]]
        PROVE  Len(selected) = n
    <3>1. selected \in [1..n -> ToSet(selected)]
      BY <2>1 DEF ToSet
    <3>2. selected \in Seq(ToSet(selected))
      BY <3>1, SeqDef
    <3>3. DOMAIN selected = 1..n
      BY <3>1
    <3>4. QED BY <3>2, <3>3
  <2>2. QED BY <1>4, <2>1
<1>6. PICK n \in Nat : n = Len(inventory) /\ DOMAIN inventory = 1..n
  BY <1>1
<1>7. CASE selection.by = "all"
  <2>1. selected = inventory
    BY <1>7 DEF Selected
  <2>2. wanted = 1..n
    BY <1>6, <1>7
  <2>3. Cardinality(1..n) = n
    BY FS_Interval
  <2>4. inventory = [i \in 1..n |-> inventory[i]]
    BY <1>1, <1>6
  <2>5. reason <=> inventory = <<>>
    BY <1>7
  <2>6. ToSet(inventory) = {inventory[i] : i \in 1..n}
    BY <1>6 DEF ToSet
  <2> HIDE DEF selected, wanted, reason
  <2>7. QED BY <2>1, <2>2, <2>3, <2>4, <2>5, <2>6
<1>8. CASE selection.by = "ids"
  <2>1. selection.ids \in Seq(Id)
    BY <1>3, <1>8 DEF Selections
  <2>2. \A i \in DOMAIN selection.ids :
           selection.ids[i] \in OperationIds(inventory)
    BY <1>8 DEF Selectable, inventory, selection
  <2>3. selected = SelectById(inventory, selection.ids)
    BY <1>8 DEF Selected
  <2>4. wanted = WantedById(inventory, selection.ids)
    BY <1>8 DEF WantedById
  <2>5. reason <=> selection.ids = <<>>
    BY <1>8
  <2> HIDE DEF selected, wanted, reason
  <2>6. /\ selected = [i \in 1..Cardinality(wanted) |-> selected[i]]
        /\ Cardinality(wanted) \in Nat
        /\ ToSet(selected) = {inventory[i] : i \in wanted}
        /\ selected = <<>> => selection.ids = <<>>
    <3>1. PICK ids \in Seq(Id) : ids = selection.ids
      BY <2>1
    <3>2. \A i \in DOMAIN ids : ids[i] \in OperationIds(inventory)
      BY <2>2, <3>1
    <3>3. PICK indices, list : /\ indices = WantedById(inventory, ids)
                               /\ list = SelectById(inventory, ids)
      OBVIOUS
    <3>4. /\ list = [i \in 1..Cardinality(indices) |-> list[i]]
          /\ Cardinality(indices) \in Nat
          /\ ToSet(list) = {inventory[i] : i \in indices}
          /\ list = <<>> => ids = <<>>
      BY <1>1, <1>2, <3>2, <3>3, IdsSelect
    <3>5. indices = wanted /\ list = selected
      BY <2>3, <2>4, <3>1, <3>3
    <3>6. QED BY <3>1, <3>4, <3>5, Zenon
  <2>7. QED BY <2>5, <2>6
<1>9. CASE selection.by = "tags"
  <2>1. selection.tags \subseteq KnownTags(inventory)
    BY <1>9 DEF Selectable, inventory, selection
  <2>2. selected = SelectByTag(inventory, selection.tags)
    BY <1>9 DEF Selected
  <2>3. wanted = {i \in DOMAIN inventory :
                     inventory[i].tags \cap selection.tags # {}}
    BY <1>9
  <2>4. reason <=> selection.tags = {}
    BY <1>9
  <2> HIDE DEF selected, wanted, reason
  <2>5. /\ selected = [i \in 1..Cardinality(wanted) |-> selected[i]]
        /\ Cardinality(wanted) \in Nat
        /\ ToSet(selected) = {inventory[i] : i \in wanted}
        /\ selected = <<>> => selection.tags = {}
    <3>1. PICK tags \in SUBSET KnownTags(inventory) : tags = selection.tags
      BY <2>1
    <3>2. PICK indices, list :
             /\ indices = WantedByTag(inventory, tags)
             /\ list = SelectByTag(inventory, tags)
      OBVIOUS
    <3>3. /\ list = [i \in 1..Cardinality(indices) |-> list[i]]
          /\ Cardinality(indices) \in Nat
          /\ ToSet(list) = {inventory[i] : i \in indices}
          /\ list = <<>> => tags = {}
      BY <1>1, <3>2, TagsSelect
    <3>4. indices = wanted /\ list = selected
      BY <2>2, <2>3, <3>1, <3>2 DEF WantedByTag
    <3>5. QED BY <3>1, <3>3, <3>4, Zenon
  <2>6. QED BY <2>4, <2>5
<1>10. selection.by \in {"all", "ids", "tags"}
  BY <1>3 DEF Selections
<1>11. QED BY <1>7, <1>8, <1>9, <1>10

-----------------------------------------------------------------------------
(* The headers of a session.                                               *)

\* The properties that header records have.
Headers(Known, Spelling, Part) ==
    [name: Known \cup {"cookie"}, spelling: Spelling \cup {"Cookie"},
     value: Seq(Part)]

LEMMA IntervalSize ==
    ASSUME NEW m \in Nat
    PROVE  IsFiniteSet(1..m) /\ Cardinality(1..m) = m
BY FS_Interval

\* An ascending enumeration of a set is the one that Ascending gives.
LEMMA AscendingIs ==
    ASSUME NEW S \in SUBSET Nat, IsFiniteSet(S), NEW n \in Nat,
           NEW a \in [1..n -> S],
           \A x \in S : \E i \in 1..n : a[i] = x,
           \A i, j \in 1..n : i < j => a[i] < a[j]
    PROVE  Cardinality(S) = n /\ \A i \in 1..n : Ascending(S)[i] = a[i]
<1>1. ASSUME NEW m \in 0..n, NEW T \in SUBSET S,
             \A x \in S : x \in T <=> \E i \in 1..m : a[i] = x
      PROVE  Cardinality(T) = m
  <2>1. PICK places : places = 1..m
    OBVIOUS
  <2>2. IsFiniteSet(places) /\ Cardinality(places) = m
    BY <2>1, IntervalSize
  <2>3. places \in SUBSET (1..n)
    BY <2>1
  <2>4. PICK f : f = [i \in places |-> a[i]]
    OBVIOUS
  <2>5. f \in [places -> T]
    BY <1>1, <2>1, <2>3, <2>4
  <2>6. f \in Surjection(places, T)
    BY <1>1, <2>1, <2>4, <2>5 DEF Surjection
  <2>7. ASSUME NEW i \in places, NEW j \in places, f[i] = f[j] PROVE i = j
    <3>1. a[i] = a[j] /\ i \in 1..n /\ j \in 1..n /\ a[i] \in Nat
      BY <2>3, <2>4, <2>7
    <3>2. ~(i < j) /\ ~(j < i)
      BY <3>1
    <3>3. QED BY <3>1, <3>2
  <2>8. f \in Injection(places, T)
    BY <2>5, <2>7 DEF Injection, IsInjective
  <2>9. QED BY <2>2, <2>6, <2>8, FS_Surjection
<1>2. Cardinality(S) = n
  <2>1. n \in 0..n
    OBVIOUS
  <2>2. \A x \in S : x \in S <=> \E i \in 1..n : a[i] = x
    OBVIOUS
  <2>3. QED BY <1>1, <2>1, <2>2
<1>3. ASSUME NEW i \in 1..n
      PROVE  Cardinality(Below(S, a[i])) = i - 1
  <2>1. PICK m \in 0..n : m = i - 1
    OBVIOUS
  <2>2. Below(S, a[i]) \in SUBSET S
    BY DEF Below
  <2>3. ASSUME NEW x \in S
        PROVE  x \in Below(S, a[i]) <=> \E k \in 1..m : a[k] = x
    <3>1. PICK j \in 1..n : a[j] = x
      OBVIOUS
    <3>2. a[i] \in Nat /\ a[j] \in Nat
      OBVIOUS
    <3>3. CASE j < i
      <4>1. j \in 1..m /\ a[j] < a[i]
        BY <2>1, <3>3
      <4>2. QED BY <3>1, <4>1 DEF Below
    <3>4. CASE ~(j < i)
      <4>1. ~(a[j] < a[i])
        BY <3>2, <3>4
      <4>2. ASSUME NEW k \in 1..m PROVE a[k] # x
        <5>1. k \in 1..n /\ k < i
          BY <2>1
        <5>2. a[k] < a[i] /\ a[k] \in Nat
          BY <5>1
        <5>3. QED BY <3>1, <4>1, <5>2
      <4>3. QED BY <3>1, <4>1, <4>2 DEF Below
    <3>5. QED BY <3>3, <3>4
  <2>4. QED BY <1>1, <2>1, <2>2, <2>3
<1>4. ASSUME NEW i \in 1..n PROVE Ascending(S)[i] = a[i]
  <2>1. Ascending(S)[i] = CHOOSE x \in S : Cardinality(Below(S, x)) = i - 1
    BY <1>2 DEF Ascending
  <2>2. ASSUME NEW x \in S, Cardinality(Below(S, x)) = i - 1
        PROVE  x = a[i]
    <3>1. PICK j \in 1..n : a[j] = x
      OBVIOUS
    <3>2. Cardinality(Below(S, x)) = j - 1
      BY <1>3, <3>1
    <3>3. i = j
      BY <2>2, <3>2
    <3>4. QED BY <3>1, <3>3
  <2>3. a[i] \in S /\ Cardinality(Below(S, a[i])) = i - 1
    BY <1>3
  <2>4. QED BY <2>1, <2>2, <2>3
<1>5. QED BY <1>2, <1>4

LEMMA FlattenFew ==
    ASSUME NEW S, NEW seqs \in Seq(S), Len(seqs) \in {0, 1}
    PROVE  FlattenSeq(seqs) = IF seqs = <<>> THEN <<>> ELSE seqs[1]
<1>1. CASE Len(seqs) = 0
  BY <1>1 DEF FlattenSeq
<1>2. CASE Len(seqs) = 1
  <2> DEFINE flatten == CHOOSE f : Flattens(f, seqs, 1)
  <2>1. FlattenSeq(seqs) = flatten[1]
    BY <1>2 DEF FlattenSeq, Flattens
  <2>2. Flattens(flatten, seqs, 1)
    BY FlattenExists
  <2> HIDE DEF flatten
  <2>3. flatten[1] = seqs[1]
    BY <2>2 DEF Flattens
  <2>4. seqs # <<>>
    BY <1>2
  <2>5. QED BY <2>1, <2>3, <2>4
<1>3. QED BY <1>1, <1>2

\* Where a record has the properties of a name.
Places(record, name) == {i \in DOMAIN record : record[i].name = name}

LEMMA PlacesAre ==
    ASSUME NEW S, NEW record \in Seq(S), NEW name
    PROVE  /\ Places(record, name) \in SUBSET (1..Len(record))
           /\ Places(record, name) \in SUBSET Nat
           /\ IsFiniteSet(Places(record, name))
<1>1. Len(record) \in Nat /\ DOMAIN record = 1..Len(record)
  OBVIOUS
<1>2. Places(record, name) \in SUBSET (1..Len(record))
  BY <1>1 DEF Places
<1>3. IsFiniteSet(1..Len(record))
  BY <1>1, IntervalSize
<1>4. QED BY <1>2, <1>3, FS_Subset

LEMMA NamedIs ==
    ASSUME NEW S, NEW record \in Seq(S), NEW name
    PROVE  /\ Named(record, name) \in Seq(S)
           /\ Len(Named(record, name)) = Cardinality(Places(record, name))
           /\ Len(Named(record, name)) \in Nat
           /\ ToSet(Named(record, name)) =
                 {record[i] : i \in Places(record, name)}
           /\ \A i \in 1..Len(Named(record, name)) :
                 /\ Ascending(Places(record, name))[i] \in Places(record, name)
                 /\ Named(record, name)[i] =
                       record[Ascending(Places(record, name))[i]]
<1>1. PICK places \in SUBSET Nat :
         /\ places = Places(record, name) /\ IsFiniteSet(places)
         /\ places \in SUBSET (DOMAIN record)
  <2>1. Places(record, name) \in SUBSET (DOMAIN record)
    BY DEF Places
  <2>2. QED BY <2>1, PlacesAre
<1>2. PICK named : named = Named(record, name)
  OBVIOUS
<1>3. PICK n \in Nat : n = Cardinality(places)
  BY <1>1, AscendingSorts
<1>4. named = ElementsAt(record, places)
  BY <1>1, <1>2 DEF Named, Places
<1>5. /\ DOMAIN named = 1..n
      /\ \A i \in 1..n : /\ Ascending(places)[i] \in places
                         /\ named[i] = record[Ascending(places)[i]]
      /\ ToSet(named) = {record[p] : p \in places}
  BY <1>1, <1>3, <1>4, ElementsAtSelects
<1>6. named = [i \in DOMAIN named |-> named[i]]
  BY <1>4 DEF ElementsAt
<1>7. \A i \in 1..n : named[i] \in S
  BY <1>1, <1>5
<1>8. named \in [1..n -> S]
  BY <1>5, <1>6, <1>7
<1>9. named \in Seq(S)
  BY <1>8, SeqDef
<1>10. Len(named) = n
  BY <1>5, <1>9
<1>11. QED BY <1>1, <1>2, <1>3, <1>5, <1>9, <1>10

\* The places from which the properties of a name that another record has have
\* come, one after the other.
Moves(record, other, name, from, place) ==
    /\ from \in SUBSET Places(record, name)
    /\ place \in [from -> Places(other, name)]
    /\ \A j \in Places(other, name) : \E i \in from : place[i] = j
    /\ \A i, j \in from : i < j => place[i] < place[j]
    /\ \A i \in from : other[place[i]] = record[i]

LEMMA NamedMoves ==
    ASSUME NEW S, NEW record \in Seq(S), NEW other \in Seq(S), NEW name,
           NEW from, NEW place, Moves(record, other, name, from, place)
    PROVE  /\ Len(Named(other, name)) = Cardinality(from)
           /\ from = Places(record, name) =>
                 Named(other, name) = Named(record, name)
<1>1. PICK before, after : /\ before = Places(record, name)
                           /\ after = Places(other, name)
  OBVIOUS
<1>2. /\ before \in SUBSET Nat /\ IsFiniteSet(before)
      /\ after \in SUBSET Nat /\ IsFiniteSet(after)
  <2>1. Places(record, name) \in SUBSET Nat /\ IsFiniteSet(Places(record, name))
    BY PlacesAre
  <2>2. Places(other, name) \in SUBSET Nat /\ IsFiniteSet(Places(other, name))
    BY PlacesAre
  <2>3. QED BY <1>1, <2>1, <2>2
<1>3. /\ from \in SUBSET before /\ place \in [from -> after]
      /\ \A j \in after : \E i \in from : place[i] = j
      /\ \A i, j \in from : i < j => place[i] < place[j]
      /\ \A i \in from : other[place[i]] = record[i]
  BY <1>1 DEF Moves
<1>4. from \in SUBSET Nat /\ IsFiniteSet(from)
  BY <1>2, <1>3, FS_Subset
<1>5. PICK n, a : n = Cardinality(from) /\ a = Ascending(from)
  OBVIOUS
<1>6. /\ n \in Nat /\ a \in [1..n -> from]
      /\ \A x \in from : \E i \in 1..n : a[i] = x
      /\ \A i, j \in 1..n : i < j => a[i] < a[j]
  BY <1>4, <1>5, AscendingSorts
<1>7. PICK b : b = [i \in 1..n |-> place[a[i]]]
  OBVIOUS
<1>8. b \in [1..n -> after]
  BY <1>3, <1>6, <1>7
<1>9. ASSUME NEW x \in after PROVE \E i \in 1..n : b[i] = x
  <2>1. PICK p \in from : place[p] = x
    BY <1>3
  <2>2. PICK i \in 1..n : a[i] = p
    BY <1>6
  <2>3. QED BY <1>7, <2>1, <2>2
<1>10. ASSUME NEW i \in 1..n, NEW j \in 1..n, i < j PROVE b[i] < b[j]
  <2>1. a[i] \in from /\ a[j] \in from /\ a[i] < a[j]
    BY <1>6, <1>10
  <2>2. place[a[i]] < place[a[j]]
    BY <1>3, <2>1
  <2>3. QED BY <1>7, <2>2
<1>11. Cardinality(after) = n /\ \A i \in 1..n : Ascending(after)[i] = b[i]
  BY <1>2, <1>6, <1>8, <1>9, <1>10, AscendingIs
<1>12. PICK ones, others : /\ ones = Named(record, name)
                           /\ others = Named(other, name)
  OBVIOUS
<1>13. /\ others \in Seq(S) /\ Len(others) = n
       /\ \A i \in 1..n : others[i] = other[Ascending(after)[i]]
  BY <1>1, <1>11, <1>12, NamedIs
<1>14. CASE from = before
  <2>1. /\ ones \in Seq(S) /\ Len(ones) = n
        /\ \A i \in 1..n : ones[i] = record[a[i]]
    BY <1>1, <1>5, <1>12, <1>14, NamedIs
  <2>2. ASSUME NEW i \in 1..n PROVE others[i] = ones[i]
    <3>1. a[i] \in from
      BY <1>6
    <3>2. others[i] = other[place[a[i]]]
      BY <1>7, <1>11, <1>13
    <3>3. QED BY <1>3, <2>1, <3>1, <3>2
  <2>3. others = ones
    BY <1>13, <2>1, <2>2, SeqEqual
  <2>4. QED BY <1>1, <1>5, <1>12, <1>13, <2>3
<1>15. CASE from # before
  BY <1>1, <1>5, <1>12, <1>13, <1>15
<1>16. QED BY <1>14, <1>15

LEMMA RemoveAtSkips ==
    ASSUME NEW S, NEW seq \in Seq(S), NEW k \in DOMAIN seq
    PROVE  /\ RemoveAt(seq, k) \in Seq(S)
           /\ Len(RemoveAt(seq, k)) = Len(seq) - 1
           /\ \A i \in 1..(Len(seq) - 1) :
                 RemoveAt(seq, k)[i] = seq[IF i < k THEN i ELSE i + 1]
<1>1. PICK n \in Nat : n = Len(seq) /\ DOMAIN seq = 1..n
  OBVIOUS
<1>2. k \in 1..n
  BY <1>1
<1> DEFINE before == SubSeq(seq, 1, k - 1)
           after  == SubSeq(seq, k + 1, n)
<1>3. /\ before \in Seq(S)
      /\ Len(before) = k - 1
      /\ \A i \in 1..(k - 1) : before[i] = seq[i]
  BY <1>1, <1>2
<1>4. /\ after \in Seq(S)
      /\ Len(after) = n - k
      /\ \A i \in 1..(n - k) : after[i] = seq[k + i]
  BY <1>1, <1>2
<1>5. RemoveAt(seq, k) = before \o after
  BY <1>1 DEF RemoveAt
<1> HIDE DEF before, after
<1>6. /\ before \o after \in Seq(S)
      /\ Len(before \o after) = n - 1
      /\ \A i \in 1..(n - 1) :
            (before \o after)[i] = IF i < k THEN before[i]
                                   ELSE after[i - (k - 1)]
  <2>1. /\ before \o after \in Seq(S)
        /\ Len(before \o after) = Len(before) + Len(after)
        /\ \A i \in 1..(Len(before) + Len(after)) :
              (before \o after)[i] = IF i <= Len(before) THEN before[i]
                                     ELSE after[i - Len(before)]
    BY <1>3, <1>4, ConcatProperties
  <2>2. Len(before) + Len(after) = n - 1
    BY <1>2, <1>3, <1>4
  <2>3. ASSUME NEW i \in 1..(n - 1)
        PROVE  (before \o after)[i] = IF i < k THEN before[i]
                                      ELSE after[i - (k - 1)]
    <3>1. i <= k - 1 <=> i < k
      BY <1>2
    <3>2. Len(before) = k - 1 /\ i \in 1..(Len(before) + Len(after))
      BY <1>3, <2>2
    <3>3. QED BY <2>1, <3>1, <3>2
  <2>4. QED BY <2>1, <2>2, <2>3
<1>7. ASSUME NEW i \in 1..(n - 1)
      PROVE  (before \o after)[i] = seq[IF i < k THEN i ELSE i + 1]
  <2>1. CASE i < k
    <3>1. i \in 1..(k - 1)
      BY <1>2, <2>1
    <3>2. QED BY <1>3, <1>6, <2>1, <3>1
  <2>2. CASE ~(i < k)
    <3>1. i - (k - 1) \in 1..(n - k) /\ k + (i - (k - 1)) = i + 1
      BY <1>2, <2>2
    <3>2. after[i - (k - 1)] = seq[i + 1]
      BY <1>4, <3>1
    <3>3. QED BY <1>6, <2>2, <3>2
  <2>3. QED BY <2>1, <2>2
<1>8. QED BY <1>1, <1>5, <1>6, <1>7

\* Where headers[name] is searched for, in any spelling.
Existing(record, name) == SelectInSeq(record, LAMBDA h : h.name = name)

LEMMA ExistingFinds ==
    ASSUME NEW S, NEW record \in Seq(S), NEW name
    PROVE  IF Named(record, name) = <<>>
           THEN Existing(record, name) = 0 /\ Places(record, name) = {}
           ELSE /\ Existing(record, name) \in Places(record, name)
                /\ Existing(record, name) # 0
                /\ record[Existing(record, name)] = Named(record, name)[1]
<1>1. PICK found \in SUBSET Nat :
         /\ found = Places(record, name) /\ IsFiniteSet(found)
         /\ found \in SUBSET (1..Len(record))
  BY PlacesAre
<1>2. PICK n \in Nat : n = Cardinality(found)
  BY <1>1, AscendingSorts
<1>3. PICK named \in Seq(S) :
         /\ named = Named(record, name) /\ Len(named) = n
         /\ \A i \in 1..n : named[i] = record[Ascending(found)[i]]
  BY <1>1, <1>2, NamedIs
<1>4. Existing(record, name) = IF found # {} THEN Min(found) ELSE 0
  <2>1. Len(record) \in Nat /\ DOMAIN record = 1..Len(record)
    OBVIOUS
  <2>2. found = {k \in 1..Len(record) : record[k].name = name}
    BY <1>1, <2>1 DEF Places
  <2>3. QED BY <2>2 DEF Existing, SelectInSeq
<1>5. n = 0 <=> found = {}
  BY <1>1, <1>2, FS_EmptySet
<1>6. named = <<>> <=> n = 0
  BY <1>3
<1>7. CASE found = {}
  BY <1>1, <1>3, <1>4, <1>5, <1>6, <1>7
<1>8. CASE found # {}
  <2>1. /\ Ascending(found) \in [1..n -> found]
        /\ \A m \in found : \E i \in 1..n : Ascending(found)[i] = m
        /\ \A i, j \in 1..n : i < j => Ascending(found)[i] < Ascending(found)[j]
    BY <1>1, <1>2, AscendingSorts
  <2>2. PICK first : first = Ascending(found)[1]
    OBVIOUS
  <2>3. 1 \in 1..n
    <3>1. n # 0
      BY <1>5, <1>8
    <3>2. QED BY <3>1
  <2>4. first \in found /\ first # 0
    BY <1>1, <2>1, <2>2, <2>3
  <2>5. ASSUME NEW m \in found PROVE first <= m
    <3>1. PICK i \in 1..n : Ascending(found)[i] = m
      BY <2>1
    <3>2. CASE i = 1
      BY <1>1, <2>2, <3>1, <3>2
    <3>3. CASE i # 1
      <4>1. 1 < i
        BY <3>3
      <4>2. first < m
        BY <2>1, <2>2, <2>3, <3>1, <4>1
      <4>3. first \in Nat /\ m \in Nat
        BY <1>1, <2>4
      <4>4. QED BY <4>2, <4>3
    <3>4. QED BY <3>2, <3>3
  <2>6. \A m \in found : (\A k \in found : m <= k) => m = first
    BY <1>1, <2>4, <2>5
  <2>7. Min(found) = first
    BY <2>4, <2>5, <2>6 DEF Min
  <2>8. QED BY <1>1, <1>3, <1>4, <1>5, <1>6, <1>8, <2>2, <2>3, <2>4, <2>7
<1>9. QED BY <1>7, <1>8

\* A record without one of its properties.
LEMMA RemovedFrom ==
    ASSUME NEW S, NEW record \in Seq(S), NEW k \in DOMAIN record, NEW name
    PROVE  LET rest == RemoveAt(record, k)
           IN  /\ rest \in Seq(S)
               /\ record[k].name = name =>
                     Len(Named(rest, name)) = Len(Named(record, name)) - 1
               /\ record[k].name # name =>
                     Named(rest, name) = Named(record, name)
<1>1. PICK n \in Nat : n = Len(record) /\ DOMAIN record = 1..n
  OBVIOUS
<1>2. PICK rest : rest = RemoveAt(record, k)
  OBVIOUS
<1>3. /\ rest \in Seq(S) /\ Len(rest) = n - 1
      /\ \A i \in 1..(n - 1) : rest[i] = record[IF i < k THEN i ELSE i + 1]
  BY <1>1, <1>2, RemoveAtSkips
<1>4. k \in 1..n /\ DOMAIN rest = 1..(n - 1)
  BY <1>1, <1>3
<1>5. PICK from, place :
         /\ from = Places(record, name) \ {k}
         /\ place = [i \in from |-> IF i < k THEN i ELSE i - 1]
  OBVIOUS
<1>6. \A i \in from : i \in 1..n /\ i # k /\ record[i].name = name
  BY <1>1, <1>5 DEF Places
<1>7. ASSUME NEW i \in from
      PROVE  /\ place[i] \in 1..(n - 1)
             /\ rest[place[i]] = record[i]
             /\ place[i] \in Places(rest, name)
  <2>1. i \in 1..n /\ i # k /\ record[i].name = name
    BY <1>6
  <2>2. CASE i < k
    <3>1. place[i] = i /\ i \in 1..(n - 1)
      BY <1>4, <1>5, <2>1, <2>2
    <3>2. QED BY <1>3, <1>4, <2>1, <2>2, <3>1 DEF Places
  <2>3. CASE ~(i < k)
    <3>1. /\ place[i] = i - 1 /\ i - 1 \in 1..(n - 1)
          /\ ~(i - 1 < k) /\ (i - 1) + 1 = i
      BY <1>4, <1>5, <2>1, <2>3
    <3>2. rest[i - 1] = record[i]
      BY <1>3, <3>1
    <3>3. QED BY <1>4, <2>1, <3>1, <3>2 DEF Places
  <2>4. QED BY <2>2, <2>3
<1>8. ASSUME NEW j \in Places(rest, name) PROVE \E i \in from : place[i] = j
  <2>1. j \in 1..(n - 1) /\ rest[j].name = name
    BY <1>4 DEF Places
  <2>2. PICK i : i = IF j < k THEN j ELSE j + 1
    OBVIOUS
  <2>3. i \in 1..n /\ i # k /\ (i < k <=> j < k)
    BY <1>4, <2>1, <2>2
  <2>4. record[i].name = name
    BY <1>3, <2>1, <2>2
  <2>5. i \in from
    BY <1>1, <1>5, <2>3, <2>4 DEF Places
  <2>6. place[i] = IF i < k THEN i ELSE i - 1
    BY <1>5, <2>5
  <2>7. place[i] = j
    BY <1>4, <2>1, <2>2, <2>3, <2>6
  <2>8. QED BY <2>5, <2>7
<1>9. ASSUME NEW i \in from, NEW j \in from, i < j PROVE place[i] < place[j]
  <2>1. i \in 1..n /\ i # k /\ j \in 1..n /\ j # k
    BY <1>6
  <2>2. /\ place[i] = IF i < k THEN i ELSE i - 1
        /\ place[j] = IF j < k THEN j ELSE j - 1
    BY <1>5
  <2>3. QED BY <1>4, <1>9, <2>1, <2>2
<1>10. Moves(record, rest, name, from, place)
  <2>1. from \in SUBSET Places(record, name)
    BY <1>5
  <2>2. place \in [from -> Places(rest, name)]
    BY <1>5, <1>7
  <2>3. QED BY <1>7, <1>8, <1>9, <2>1, <2>2 DEF Moves
<1>11. /\ Len(Named(rest, name)) = Cardinality(from)
       /\ from = Places(record, name) => Named(rest, name) = Named(record, name)
  BY <1>3, <1>10, NamedMoves
<1>12. record[k].name # name => from = Places(record, name)
  BY <1>5 DEF Places
<1>13. record[k].name = name =>
          Cardinality(from) = Len(Named(record, name)) - 1
  <2>1. ASSUME record[k].name = name PROVE k \in Places(record, name)
    BY <2>1 DEF Places
  <2>2. IsFiniteSet(Places(record, name))
    BY PlacesAre
  <2>3. Len(Named(record, name)) = Cardinality(Places(record, name))
    BY NamedIs
  <2>4. QED BY <1>5, <2>1, <2>2, <2>3, FS_RemoveElement
<1>14. QED BY <1>2, <1>3, <1>11, <1>12, <1>13

\* A record in which a property is assigned.
LEMMA Assigned ==
    ASSUME NEW S, NEW record \in Seq(S), NEW header \in S, NEW name
    PROVE  LET all == Assign(record, header)
           IN  /\ all \in Seq(S)
               /\ name # header.name => Named(all, name) = Named(record, name)
               /\ name = header.name =>
                     /\ header \in ToSet(Named(all, name))
                     /\ Len(Named(all, name)) <= Len(Named(record, name)) + 1
<1>1. PICK n \in Nat : n = Len(record) /\ DOMAIN record = 1..n
  OBVIOUS
<1>2. PICK at, all :
         /\ at = SelectInSeq(record, LAMBDA h : /\ h.name = header.name
                                                /\ h.spelling = header.spelling)
         /\ all = Assign(record, header)
  OBVIOUS
<1>3. all = IF at = 0 THEN Append(record, header)
            ELSE ReplaceAt(record, at, header)
  BY <1>2 DEF Assign
<1>4. PICK places, after : /\ places = Places(record, name)
                           /\ after = Places(all, name)
  OBVIOUS
<1>5. /\ places \in SUBSET (1..n) /\ IsFiniteSet(places)
      /\ Len(Named(record, name)) = Cardinality(places)
      /\ Cardinality(places) \in Nat
  BY <1>1, <1>4, PlacesAre, NamedIs, FS_CardinalityType
<1>6. PICK place : place = [i \in places |-> i]
  OBVIOUS
<1>7. ASSUME all \in Seq(S), after = places,
             \A i \in places : all[i] = record[i]
      PROVE  Named(all, name) = Named(record, name)
  <2>1. Moves(record, all, name, places, place)
    BY <1>4, <1>6, <1>7 DEF Moves
  <2>2. QED BY <1>4, <1>7, <2>1, NamedMoves
<1>8. CASE at = 0
  <2>1. /\ all \in Seq(S) /\ DOMAIN all = 1..(n + 1)
        /\ \A i \in 1..n : all[i] = record[i]
        /\ all[n + 1] = header
    <3>1. all = Append(record, header)
      BY <1>3, <1>8
    <3>2. all \in Seq(S) /\ Len(all) = n + 1
      BY <1>1, <3>1, AppendProperties
    <3>3. (\A i \in 1..n : all[i] = record[i]) /\ all[n + 1] = header
      BY <1>1, <3>1, AppendProperties
    <3>4. QED BY <3>2, <3>3
  <2>2. CASE name # header.name
    <3>1. after = places
      BY <1>1, <1>4, <2>1, <2>2 DEF Places
    <3>2. \A i \in places : all[i] = record[i]
      BY <1>5, <2>1
    <3>3. QED BY <1>2, <1>7, <2>1, <2>2, <3>1, <3>2
  <2>3. CASE name = header.name
    <3>1. after = places \cup {n + 1}
      BY <1>1, <1>4, <2>1, <2>3 DEF Places
    <3>2. Cardinality(after) <= Cardinality(places) + 1
      <4>1. n + 1 \notin places
        BY <1>5
      <4>2. Cardinality(after) = Cardinality(places) + 1
        BY <1>5, <3>1, <4>1, FS_AddElement
      <4>3. QED BY <1>5, <4>2
    <3>3. /\ Len(Named(all, name)) = Cardinality(after)
          /\ ToSet(Named(all, name)) = {all[i] : i \in after}
      <4>1. all \in Seq(S)
        BY <2>1
      <4>2. QED BY <1>4, <4>1, NamedIs
    <3>4. header \in ToSet(Named(all, name))
      BY <2>1, <3>1, <3>3
    <3>5. QED BY <1>2, <1>5, <2>1, <2>3, <3>2, <3>3, <3>4
  <2>4. QED BY <2>2, <2>3
<1>9. CASE at # 0
  <2>1. at \in 1..n /\ record[at].name = header.name
    <3> DEFINE found == {k \in 1..Len(record) :
                            /\ record[k].name = header.name
                            /\ record[k].spelling = header.spelling}
    <3>1. at = IF found # {} THEN Min(found) ELSE 0
      BY <1>2 DEF SelectInSeq
    <3>2. found # {} /\ found \in SUBSET (1..n)
      BY <1>1, <1>9, <3>1
    <3>3. \A k \in found : k \in 1..n /\ record[k].name = header.name
      BY <1>1
    <3> HIDE DEF found
    <3>4. PICK k \in found : \A m \in found : k <= m
      BY <3>2, LeastOf
    <3>5. at \in found
      BY <3>1, <3>2, <3>4 DEF Min
    <3>6. QED BY <3>3, <3>5
  <2>2. /\ all \in Seq(S) /\ DOMAIN all = 1..n
        /\ \A i \in 1..n : all[i] = IF i = at THEN header ELSE record[i]
    <3>1. all = [record EXCEPT ![at] = header]
      BY <1>3, <1>9 DEF ReplaceAt
    <3>2. all \in [1..n -> S]
      BY <1>1, <2>1, <3>1
    <3>3. all \in Seq(S)
      BY <3>2, SeqDef
    <3>4. QED BY <1>1, <2>1, <3>1, <3>3
  <2>3. after = places
    <3>1. \A i \in 1..n : all[i].name = record[i].name
      BY <2>1, <2>2
    <3>2. QED BY <1>1, <1>4, <2>2, <3>1 DEF Places
  <2>4. CASE name # header.name
    <3>1. \A i \in places : all[i] = record[i]
      <4>1. \A i \in places : i \in 1..n /\ record[i].name = name
        BY <1>1, <1>4 DEF Places
      <4>2. QED BY <2>1, <2>2, <2>4, <4>1
    <3>2. QED BY <1>2, <1>7, <2>2, <2>3, <2>4, <3>1
  <2>5. CASE name = header.name
    <3>1. /\ Len(Named(all, name)) = Cardinality(after)
          /\ ToSet(Named(all, name)) = {all[i] : i \in after}
      BY <1>4, <2>2, NamedIs
    <3>2. at \in after /\ all[at] = header
      BY <1>1, <1>4, <2>1, <2>2, <2>3, <2>5 DEF Places
    <3>3. QED BY <1>2, <1>5, <2>2, <2>3, <2>5, <3>1, <3>2
  <2>6. QED BY <2>4, <2>5
<1>10. QED BY <1>8, <1>9

\* No more properties of a name than there were, or than one.
NoMore(left, given) == Len(left) <= 1 \/ Len(left) <= Len(given)

\* set has header, no more of its name than record, and what record has of
\* other names as it was.
HasSet(set, S, record, header) ==
    /\ set \in Seq(S)
    /\ header \in ToSet(Named(set, header.name))
    /\ NoMore(Named(set, header.name), Named(record, header.name))
    /\ \A name : name # header.name => Named(set, name) = Named(record, name)

\* That is what setHeader returns.
LEMMA SetHeaderSets ==
    ASSUME NEW S, NEW record \in Seq(S), NEW header \in S
    PROVE  HasSet(SetHeader(record, header), S, record, header)
<1>1. PICK at, rest, set :
         /\ at = Existing(record, header.name)
         /\ rest = IF at = 0 THEN record ELSE RemoveAt(record, at)
         /\ set = SetHeader(record, header)
  OBVIOUS
<1>2. set = Assign(rest, header)
  BY <1>1 DEF SetHeader, Existing
<1>3. PICK given, count : /\ given = Named(record, header.name)
                          /\ count = Len(given) /\ count \in Nat
  BY NamedIs
<1>4. given \in Seq(S)
  BY <1>3, NamedIs
<1>5. /\ rest \in Seq(S)
      /\ \A name : name # header.name => Named(rest, name) = Named(record, name)
      /\ Len(Named(rest, header.name)) = IF count = 0 THEN 0 ELSE count - 1
  <2>1. CASE given = <<>>
    <3>1. at = 0
      BY <1>1, <1>3, <2>1, ExistingFinds
    <3>2. rest = record /\ count = 0
      BY <1>1, <1>3, <2>1, <3>1
    <3>3. QED BY <1>3, <3>2
  <2>2. CASE given # <<>>
    <3>1. at \in Places(record, header.name) /\ at # 0
      BY <1>1, <1>3, <2>2, ExistingFinds
    <3>2. at \in DOMAIN record /\ record[at].name = header.name
      BY <3>1 DEF Places
    <3>3. rest = RemoveAt(record, at) /\ count # 0
      BY <1>1, <1>3, <1>4, <2>2, <3>1
    <3>4. ASSUME NEW name
          PROVE  /\ rest \in Seq(S)
                 /\ record[at].name = name =>
                       Len(Named(rest, name)) = Len(Named(record, name)) - 1
                 /\ record[at].name # name =>
                       Named(rest, name) = Named(record, name)
      BY <3>2, <3>3, RemovedFrom
    <3>5. QED BY <1>3, <3>2, <3>3, <3>4
  <2>3. QED BY <2>1, <2>2
<1>6. ASSUME NEW name
      PROVE  /\ set \in Seq(S)
             /\ name # header.name => Named(set, name) = Named(rest, name)
             /\ name = header.name =>
                   /\ header \in ToSet(Named(set, name))
                   /\ Len(Named(set, name)) <= Len(Named(rest, name)) + 1
  BY <1>2, <1>5, Assigned
<1>7. NoMore(Named(set, header.name), given)
  <2>1. PICK left : left = Len(Named(set, header.name)) /\ left \in Nat
    BY <1>6, NamedIs
  <2>2. left <= (IF count = 0 THEN 0 ELSE count - 1) + 1
    BY <1>5, <1>6, <2>1
  <2>3. left <= 1 \/ left <= count
    BY <1>3, <2>1, <2>2
  <2>4. QED BY <1>3, <2>1, <2>3 DEF NoMore
<1>8. QED BY <1>1, <1>3, <1>5, <1>6, <1>7 DEF HasSet

\* Of a name that a record has once or not at all, that property is sent.
LEMMA SentOfFew ==
    ASSUME NEW Known, NEW Spelling, NEW Part,
           NEW record \in Seq(Headers(Known, Spelling, Part)),
           NEW name, Len(Named(record, name)) <= 1
    PROVE  /\ Sent(record, name) = IF Named(record, name) = <<>> THEN <<>>
                                   ELSE Named(record, name)[1].value
           /\ Sent(record, name) \in Seq(Part)
           /\ \A header \in ToSet(Named(record, name)) :
                 Sent(record, name) = header.value
<1>1. PICK S, V : S = Headers(Known, Spelling, Part) /\ V = Seq(Part)
  OBVIOUS
<1>2. PICK named : named = Named(record, name)
  OBVIOUS
<1>3. named \in Seq(S) /\ Len(named) \in {0, 1}
  <2>1. named \in Seq(S) /\ Len(named) \in Nat
    BY <1>1, <1>2, NamedIs
  <2>2. Len(named) <= 1
    BY <1>2
  <2>3. PICK m \in Nat : m = Len(named)
    BY <2>1
  <2>4. m = 0 \/ m = 1
    BY <2>2, <2>3
  <2>5. QED BY <2>1, <2>3, <2>4
<1>4. PICK values : values = [k \in DOMAIN named |-> named[k].value]
  OBVIOUS
<1>5. Sent(record, name) = FlattenSeq(values)
  BY <1>2, <1>4 DEF Sent
<1>6. \A header \in S : header.value \in V
  BY <1>1 DEF Headers
<1>7. PICK n \in Nat : n = Len(named) /\ DOMAIN named = 1..n
  BY <1>3
<1>8. values \in [1..n -> V]
  BY <1>3, <1>4, <1>6, <1>7
<1>9. values \in Seq(V)
  BY <1>8, SeqDef
<1>10. Len(values) = n /\ DOMAIN values = 1..n
  BY <1>7, <1>8, <1>9
<1>11. Sent(record, name) = IF values = <<>> THEN <<>> ELSE values[1]
  BY <1>3, <1>5, <1>7, <1>9, <1>10, FlattenFew
<1>12. CASE n = 0
  <2>1. named = <<>> /\ values = <<>>
    BY <1>3, <1>7, <1>9, <1>10, <1>12
  <2>2. Sent(record, name) = <<>> /\ <<>> \in Seq(Part)
    BY <1>11, <2>1, EmptySeq
  <2>3. ToSet(named) = {}
    BY <1>7, <1>12 DEF ToSet
  <2>4. QED BY <1>2, <2>1, <2>2, <2>3
<1>13. CASE n # 0
  <2>1. n = 1 /\ 1 \in 1..n
    BY <1>3, <1>7, <1>13
  <2>2. named # <<>> /\ values # <<>>
    <3>1. Len(named) # 0 /\ Len(values) # 0
      BY <1>7, <1>10, <1>13
    <3>2. QED BY <3>1
  <2>3. values[1] = named[1].value /\ values[1] \in V
    BY <1>4, <1>7, <1>8, <2>1
  <2>4. ToSet(named) = {named[1]}
    BY <1>7, <2>1 DEF ToSet
  <2>5. QED BY <1>1, <1>2, <1>11, <2>2, <2>3, <2>4
<1>14. QED BY <1>12, <1>13

\* The recursive function of WithHeaders, on the first n headers of a session.
Merges(f, headers, session, n) ==
    f = [i \in 0..n |-> IF i = 0 THEN headers
                        ELSE SetHeader(f[i - 1], session[i])]

LEMMA MergeExists ==
    ASSUME NEW headers, NEW session, NEW n \in Nat
    PROVE  \E f : Merges(f, headers, session, n)
<1> DEFINE without == {k \in 1..n : ~\E f : Merges(f, headers, session, k)}
<1>1. \E f : Merges(f, headers, session, 0)
  <2>1. Merges([i \in 0..0 |-> headers], headers, session, 0)
    BY DEF Merges
  <2>2. QED BY <2>1
<1>2. SUFFICES ASSUME without # {} PROVE FALSE
  BY <1>1
<1>3. PICK k \in without : \A m \in without : k <= m
  <2>1. without \in SUBSET (1..n)
    OBVIOUS
  <2> HIDE DEF without
  <2>2. QED BY <1>2, <2>1, LeastOf
<1>4. PICK f : Merges(f, headers, session, k - 1)
  <2>1. CASE k = 1
    BY <1>1, <2>1
  <2>2. CASE k # 1
    <3>1. k - 1 \in 1..n /\ ~(k <= k - 1)
      BY <1>3, <2>2
    <3>2. k - 1 \notin without
      BY <1>3, <3>1
    <3>3. QED BY <3>1, <3>2
  <2>3. QED BY <2>1, <2>2
<1>5. k \in 1..n
  OBVIOUS
<1> DEFINE g == [i \in 0..k |->
                    IF i < k THEN f[i] ELSE SetHeader(f[k - 1], session[k])]
<1>6. ASSUME NEW i \in 0..k
      PROVE  g[i] = IF i = 0 THEN headers ELSE SetHeader(g[i - 1], session[i])
  <2>1. CASE i = k
    <3>1. k - 1 \in 0..k /\ k - 1 < k /\ k \in 0..k /\ ~(k < k) /\ k # 0
      BY <1>5
    <3>2. g[k - 1] = f[k - 1] /\ g[k] = SetHeader(f[k - 1], session[k])
      BY <3>1, Zenon
    <3> HIDE DEF g
    <3>3. QED BY <2>1, <3>1, <3>2
  <2>2. CASE i # k
    <3>1. i \in 0..(k - 1) /\ i < k
      BY <1>5, <1>6, <2>2
    <3>2. f[i] = IF i = 0 THEN headers ELSE SetHeader(f[i - 1], session[i])
      BY <1>4, <3>1 DEF Merges
    <3>3. g[i] = f[i]
      BY <3>1
    <3>4. CASE i = 0
      BY <3>2, <3>3, <3>4
    <3>5. CASE i # 0
      <4>1. i - 1 \in 0..k /\ i - 1 < k
        BY <1>5, <1>6, <2>2, <3>5
      <4>2. g[i - 1] = f[i - 1]
        BY <4>1
      <4> HIDE DEF g
      <4>3. QED BY <3>2, <3>3, <3>5, <4>2
    <3>6. QED BY <3>4, <3>5
  <2>3. QED BY <2>1, <2>2
<1>7. Merges(g, headers, session, k)
  <2>1. g = [i \in 0..k |-> g[i]]
    OBVIOUS
  <2> HIDE DEF g
  <2>2. QED BY <1>6, <2>1 DEF Merges
<1>8. QED BY <1>7

\* The record after the first n headers of the session are set: the last of a
\* name is among what there is of it, no more of it than the request had, and
\* what they do not name is as it was.
MergedTo(record, headers, session, n, name) ==
    /\ (\A i \in 1..n : session[i].name # name) =>
          Named(record, name) = Named(headers, name)
    /\ \A i \in 1..n :
          /\ session[i].name = name
          /\ \A j \in (i + 1)..n : session[j].name # name
          => session[i] \in ToSet(Named(record, name))
    /\ NoMore(Named(record, name), Named(headers, name))

LEMMA HeadersMerge ==
    ASSUME NEW S, NEW headers \in Seq(S), NEW session \in Seq(S)
    PROVE  /\ WithHeaders(headers, session) \in Seq(S)
           /\ \A name : MergedTo(WithHeaders(headers, session), headers,
                                 session, Len(session), name)
<1>1. PICK n \in Nat : n = Len(session) /\ DOMAIN session = 1..n
  OBVIOUS
<1>2. \A i \in 1..n : session[i] \in S
  BY <1>1
<1>3. PICK f : /\ Merges(f, headers, session, n)
               /\ WithHeaders(headers, session) = f[n]
  <2> DEFINE merged == CHOOSE f : Merges(f, headers, session, n)
  <2>1. Merges(merged, headers, session, n)
    BY MergeExists
  <2>2. WithHeaders(headers, session) = merged[n]
    BY <1>1 DEF WithHeaders, Merges
  <2> HIDE DEF merged
  <2>3. QED BY <2>1, <2>2
<1>4. /\ f[0] = headers
      /\ \A k \in 1..n : f[k] = SetHeader(f[k - 1], session[k])
  <2>1. \A i \in 0..n : f[i] = IF i = 0 THEN headers
                               ELSE SetHeader(f[i - 1], session[i])
    BY <1>3 DEF Merges
  <2>2. 0 \in 0..n /\ \A k \in 1..n : k \in 0..n /\ k # 0
    OBVIOUS
  <2>3. QED BY <2>1, <2>2
<1> DEFINE Merged(k) == /\ f[k] \in Seq(S)
                        /\ \A name : MergedTo(f[k], headers, session, k, name)
           unmerged == {k \in 1..n : ~Merged(k)}
<1>5. Merged(0)
  <2>1. ASSUME NEW name PROVE NoMore(Named(headers, name), Named(headers, name))
    BY NamedIs DEF NoMore
  <2>2. QED BY <1>4, <2>1 DEF MergedTo
<1>6. ASSUME NEW k \in 1..n, Merged(k - 1) PROVE Merged(k)
  <2>1. PICK record, header, set :
           /\ record = f[k - 1] /\ record \in Seq(S)
           /\ header = session[k] /\ header \in S
           /\ set = SetHeader(record, header)
    BY <1>2, <1>6
  <2>2. /\ f[k] = set /\ set \in Seq(S)
        /\ header \in ToSet(Named(set, header.name))
        /\ NoMore(Named(set, header.name), Named(record, header.name))
        /\ \A name : name # header.name =>
                        Named(set, name) = Named(record, name)
    <3>1. f[k] = set
      BY <1>4, <2>1
    <3>2. record \in Seq(S) /\ header \in S /\ set = SetHeader(record, header)
      BY <2>1
    <3>3. HasSet(SetHeader(record, header), S, record, header)
      BY <3>2, SetHeaderSets
    <3>4. QED BY <3>1, <3>2, <3>3 DEF HasSet
  <2>3. ASSUME NEW name PROVE MergedTo(set, headers, session, k, name)
    <3>1. MergedTo(record, headers, session, k - 1, name)
      BY <1>6, <2>1
    <3>2. /\ \A i \in 1..(k - 1) : i \in 1..k
          /\ \A i \in 1..k : i # k => i \in 1..(k - 1) /\ k \in (i + 1)..k
          /\ \A i \in 1..(k - 1) : (i + 1)..(k - 1) \subseteq (i + 1)..k
          /\ k \in 1..k
      OBVIOUS
    <3>3. CASE name = header.name
      <4>1. NoMore(Named(set, name), Named(headers, name))
        <5>1. PICK left, there, given :
                 /\ left = Len(Named(set, name)) /\ left \in Nat
                 /\ there = Len(Named(record, name)) /\ there \in Nat
                 /\ given = Len(Named(headers, name)) /\ given \in Nat
          <6>1. Len(Named(set, name)) \in Nat
            BY <2>2, NamedIs
          <6>2. Len(Named(record, name)) \in Nat
            BY <2>1, NamedIs
          <6>3. Len(Named(headers, name)) \in Nat
            BY NamedIs
          <6>4. QED BY <6>1, <6>2, <6>3
        <5>2. /\ left <= 1 \/ left <= there
              /\ there <= 1 \/ there <= given
          BY <2>2, <3>1, <3>3, <5>1 DEF MergedTo, NoMore
        <5>3. left <= 1 \/ left <= given
          BY <5>1, <5>2
        <5>4. QED BY <5>1, <5>3 DEF NoMore
      <4>2. ASSUME NEW i \in 1..k, session[i].name = name,
                   \A j \in (i + 1)..k : session[j].name # name
            PROVE  session[i] \in ToSet(Named(set, name))
        <5>1. i = k
          BY <2>1, <3>2, <3>3, <4>2
        <5>2. QED BY <2>1, <2>2, <3>3, <5>1
      <4>3. ~\A i \in 1..k : session[i].name # name
        BY <2>1, <3>2, <3>3
      <4>4. QED BY <4>1, <4>2, <4>3 DEF MergedTo
    <3>4. CASE name # header.name
      <4>1. Named(set, name) = Named(record, name)
        BY <2>2, <3>4
      <4>2. ASSUME NEW i \in 1..k, session[i].name = name,
                   \A j \in (i + 1)..k : session[j].name # name
            PROVE  session[i] \in ToSet(Named(record, name))
        <5>1. i \in 1..(k - 1)
          BY <2>1, <3>2, <3>4, <4>2
        <5>2. \A j \in (i + 1)..(k - 1) : session[j].name # name
          BY <3>2, <4>2, <5>1
        <5>3. QED BY <3>1, <4>2, <5>1, <5>2 DEF MergedTo
      <4>3. (\A i \in 1..k : session[i].name # name) =>
               Named(record, name) = Named(headers, name)
        BY <3>1, <3>2 DEF MergedTo
      <4>4. NoMore(Named(record, name), Named(headers, name))
        BY <3>1 DEF MergedTo
      <4>5. QED BY <4>1, <4>2, <4>3, <4>4 DEF MergedTo
    <3>5. QED BY <3>3, <3>4
  <2>4. QED BY <2>2, <2>3
<1>7. unmerged = {}
  <2>1. SUFFICES ASSUME unmerged # {} PROVE FALSE
    OBVIOUS
  <2>2. unmerged \in SUBSET (1..n)
    OBVIOUS
  <2>3. PICK k \in unmerged : \A m \in unmerged : k <= m
    <3> HIDE DEF unmerged
    <3> QED BY <2>1, <2>2, LeastOf
  <2>4. k \in 1..n /\ ~Merged(k)
    OBVIOUS
  <2>5. Merged(k - 1)
    <3>1. CASE k = 1
      BY <1>5, <3>1
    <3>2. CASE k # 1
      <4>1. k - 1 \in 1..n /\ ~(k <= k - 1)
        BY <2>4, <3>2
      <4>2. k - 1 \notin unmerged
        <5> HIDE DEF unmerged
        <5> QED BY <2>3, <4>1
      <4>3. QED BY <4>1, <4>2
    <3>3. QED BY <3>1, <3>2
  <2> HIDE DEF Merged
  <2>6. QED BY <1>6, <2>4, <2>5
<1>8. Merged(n)
  <2>1. CASE n = 0
    BY <1>5, <2>1
  <2>2. CASE n # 0
    BY <1>7, <2>2
  <2>3. QED BY <2>1, <2>2
<1>9. QED BY <1>1, <1>3, <1>8

\* The last header of a name that a session has.
LEMMA LastIs ==
    ASSUME NEW S, NEW session \in Seq(S), NEW name,
           Named(session, name) # <<>>
    PROVE  \E i \in 1..Len(session) :
              /\ Last(Named(session, name)) = session[i]
              /\ session[i].name = name
              /\ \A j \in (i + 1)..Len(session) : session[j].name # name
<1>1. PICK places \in SUBSET Nat :
         /\ places = Places(session, name) /\ IsFiniteSet(places)
         /\ places \in SUBSET (1..Len(session))
  BY PlacesAre
<1>2. PICK n, named : n = Cardinality(places) /\ named = Named(session, name)
  OBVIOUS
<1>3. /\ n \in Nat
      /\ Ascending(places) \in [1..n -> places]
      /\ \A m \in places : \E i \in 1..n : Ascending(places)[i] = m
      /\ \A i, j \in 1..n : i < j => Ascending(places)[i] < Ascending(places)[j]
  BY <1>1, <1>2, AscendingSorts
<1>4. /\ named \in Seq(S) /\ Len(named) = n
      /\ \A i \in 1..n : named[i] = session[Ascending(places)[i]]
  BY <1>1, <1>2, NamedIs
<1>5. n \in 1..n
  BY <1>2, <1>3, <1>4
<1>6. PICK last : last = Ascending(places)[n]
  OBVIOUS
<1>7. last \in places /\ last \in 1..Len(session)
  BY <1>1, <1>3, <1>5, <1>6
<1>8. Last(named) = session[last]
  BY <1>4, <1>5, <1>6 DEF Last
<1>9. session[last].name = name
  BY <1>1, <1>7 DEF Places
<1>10. ASSUME NEW j \in (last + 1)..Len(session) PROVE session[j].name # name
  <2>1. SUFFICES ASSUME session[j].name = name PROVE FALSE
    OBVIOUS
  <2>2. DOMAIN session = 1..Len(session) /\ Len(session) \in Nat
    OBVIOUS
  <2>3. j \in 1..Len(session) /\ last < j /\ j \in Nat /\ last \in Nat
    BY <1>7, <2>2
  <2>4. j \in places
    BY <1>1, <2>1, <2>2, <2>3 DEF Places
  <2>5. PICK i \in 1..n : Ascending(places)[i] = j
    BY <1>3, <2>4
  <2>6. i = n \/ i < n
    BY <1>3
  <2>7. CASE i = n
    BY <1>6, <2>3, <2>5, <2>7
  <2>8. CASE i < n
    <3>1. j < last
      BY <1>3, <1>5, <1>6, <2>5, <2>8
    <3>2. QED BY <2>3, <3>1
  <2>9. QED BY <2>6, <2>7, <2>8
<1>11. QED BY <1>2, <1>7, <1>8, <1>9, <1>10

HasCookies(all, S, headers, cookies, name) ==
    LET own == IF name = "cookie" THEN cookies ELSE <<>>
    IN  /\ all \in Seq(S)
        /\ own = <<>> => Named(all, name) = Named(headers, name)
        /\ NoMore(Named(all, name), Named(headers, name))
        /\ Len(Named(headers, name)) <= 1 =>
              Sent(all, name) = Sent(headers, name) \o own

LEMMA CookiesFollow ==
    ASSUME NEW Known, NEW Spelling, NEW Part,
           NEW headers \in Seq(Headers(Known, Spelling, Part)),
           NEW cookies \in Seq(Part), NEW name
    PROVE  HasCookies(WithCookies(headers, cookies),
                      Headers(Known, Spelling, Part), headers, cookies, name)
<1>1. PICK S : S = Headers(Known, Spelling, Part)
  OBVIOUS
<1>2. PICK all, own, named :
         /\ all = WithCookies(headers, cookies)
         /\ own = IF name = "cookie" THEN cookies ELSE <<>>
         /\ named = Named(headers, name)
  OBVIOUS
<1>3. named \in Seq(S) /\ Len(named) \in Nat
  BY <1>1, <1>2, NamedIs
<1>4. Len(named) <= 1 => /\ Sent(headers, name) \in Seq(Part)
                         /\ Sent(headers, name) \o <<>> = Sent(headers, name)
  BY <1>2, SentOfFew, ConcatEmptySeq
<1>5. ASSUME Named(all, name) = named, own = <<>>
      PROVE  /\ NoMore(Named(all, name), named)
             /\ Len(named) <= 1 =>
                   Sent(all, name) = Sent(headers, name) \o own
  <2>1. Sent(all, name) = Sent(headers, name)
    BY <1>2, <1>5, Zenon DEF Sent
  <2>2. NoMore(named, named)
    BY <1>3 DEF NoMore
  <2>3. QED BY <1>4, <1>5, <2>1, <2>2
<1>6. CASE cookies = <<>>
  <2>1. all = headers /\ own = <<>>
    BY <1>2, <1>6 DEF WithCookies
  <2>2. QED BY <1>1, <1>2, <1>5, <2>1 DEF HasCookies
<1>7. CASE cookies # <<>>
  <2>1. PICK cookie, first, value, header :
           /\ cookie = Named(headers, "cookie")
           /\ first = Existing(headers, "cookie")
           /\ value = IF first = 0 THEN cookies
                      ELSE headers[first].value \o cookies
           /\ header = Header("cookie", "Cookie", value)
    OBVIOUS
  <2>2. all = SetHeader(headers, header)
    BY <1>2, <1>7, <2>1 DEF WithCookies, Existing
  <2>3. \A property \in S : property.value \in Seq(Part)
    BY <1>1 DEF Headers
  <2>4. IF cookie = <<>> THEN first = 0
        ELSE first \in DOMAIN headers /\ first # 0 /\ headers[first] = cookie[1]
    <3>1. IF cookie = <<>>
          THEN first = 0 /\ Places(headers, "cookie") = {}
          ELSE /\ first \in Places(headers, "cookie")
               /\ first # 0
               /\ headers[first] = cookie[1]
      BY <1>1, <2>1, ExistingFinds
    <3>2. QED BY <3>1 DEF Places
  <2>5. value \in Seq(Part)
    <3>1. CASE cookie = <<>>
      BY <2>1, <2>4, <3>1
    <3>2. CASE cookie # <<>>
      <4>1. headers[first] \in S
        BY <1>1, <2>4, <3>2
      <4>2. headers[first].value \in Seq(Part)
        BY <2>3, <4>1
      <4>3. QED BY <2>1, <2>4, <3>2, <4>2, ConcatProperties
    <3>3. QED BY <3>1, <3>2
  <2>6. header \in S /\ header.name = "cookie" /\ header.value = value
    BY <1>1, <2>1, <2>5 DEF Header, Headers
  <2>7. /\ all \in Seq(S)
        /\ header \in ToSet(Named(all, "cookie"))
        /\ NoMore(Named(all, "cookie"), cookie)
        /\ name # "cookie" => Named(all, name) = named
    <3>1. headers \in Seq(S)
      BY <1>1
    <3>2. HasSet(SetHeader(headers, header), S, headers, header)
      BY <2>6, <3>1, SetHeaderSets
    <3>3. QED BY <1>2, <2>1, <2>2, <2>6, <3>2 DEF HasSet
  <2>8. CASE name # "cookie"
    BY <1>1, <1>2, <1>5, <2>7, <2>8 DEF HasCookies
  <2>9. CASE name = "cookie"
    <3>1. own = cookies /\ named = cookie
      BY <1>2, <2>1, <2>9
    <3>2. ASSUME Len(cookie) <= 1 PROVE Sent(all, name) = Sent(headers, name) \o own
      <4>1. Len(Named(all, "cookie")) \in Nat
        BY <2>7, NamedIs
      <4>2. Len(Named(all, "cookie")) <= 1
        BY <1>3, <2>7, <3>1, <3>2, <4>1 DEF NoMore
      <4>3. all \in Seq(Headers(Known, Spelling, Part))
        BY <1>1, <2>7
      <4>4. Sent(all, "cookie") = value
        BY <2>6, <2>7, <4>2, <4>3, SentOfFew
      <4>5. Sent(headers, "cookie") = IF cookie = <<>> THEN <<>>
                                      ELSE cookie[1].value
        BY <2>1, <3>2, SentOfFew
      <4>6. <<>> \o cookies = cookies
        BY ConcatEmptySeq
      <4>7. value = Sent(headers, "cookie") \o cookies
        BY <2>1, <2>4, <4>5, <4>6
      <4>8. QED BY <2>9, <3>1, <4>4, <4>7
    <3>3. own # <<>>
      BY <1>7, <3>1
    <3>4. QED BY <1>1, <1>2, <2>7, <2>9, <3>1, <3>2, <3>3 DEF HasCookies
  <2>10. QED BY <2>8, <2>9
<1>8. QED BY <1>6, <1>7 DEF HasCookies

\* What is sent of a request under a session, whatever headers both have and
\* in whatever spellings: of a name that the request has at most once the
\* session's last header, else the request's, and the session's cookies after
\* it; of any name the session's header and no more than there were; and what
\* the session does not name as it was.
THEOREM SessionIsMerged ==
    ASSUME NEW Known, NEW Spelling, NEW Part,
           Asks("session") =>
              input \in [headers: Seq(Headers(Known, Spelling, Part)),
                         session: [headers: Seq(Headers(Known, Spelling, Part)),
                                   cookies: Seq(Part)]]
    PROVE  SentAsMerged
<1> SUFFICES ASSUME Asks("session") PROVE SentAsMerged
  BY DEF SentAsMerged
<1>1. PICK S : S = Headers(Known, Spelling, Part)
  OBVIOUS
<1>2. PICK headers \in Seq(S), session \in Seq(S), cookies \in Seq(Part) :
         /\ headers = input.headers
         /\ session = input.session.headers
         /\ cookies = input.session.cookies
  BY <1>1
<1>3. PICK set, merged : /\ set = WithHeaders(headers, session)
                         /\ merged = WithCookies(set, cookies)
  OBVIOUS
<1>4. ApplySession(input.headers, input.session) = merged
  BY <1>2, <1>3 DEF ApplySession
<1>5. /\ set \in Seq(S)
      /\ \A name : MergedTo(set, headers, session, Len(session), name)
  BY <1>3, HeadersMerge
<1>6. ASSUME NEW name
      PROVE  LET given    == Named(headers, name)
                 supplied == Named(session, name)
                 left     == Named(merged, name)
                 own      == IF name = "cookie" THEN cookies ELSE <<>>
             IN  /\ Len(given) <= 1 =>
                       Sent(merged, name) =
                          (IF supplied = <<>> THEN Sent(headers, name)
                           ELSE Last(supplied).value) \o own
                 /\ own = <<>> =>
                       IF supplied = <<>> THEN left = given
                       ELSE Last(supplied) \in ToSet(left)
                 /\ Len(left) <= 1 \/ Len(left) <= Len(given)
  <2>1. PICK given, supplied, there, left, own :
           /\ given = Named(headers, name) /\ supplied = Named(session, name)
           /\ there = Named(set, name) /\ left = Named(merged, name)
           /\ own = IF name = "cookie" THEN cookies ELSE <<>>
    OBVIOUS
  <2>2. /\ given \in Seq(S) /\ Len(given) \in Nat
        /\ there \in Seq(S) /\ Len(there) \in Nat
    BY <1>5, <2>1, NamedIs
  <2>3. /\ merged \in Seq(S)
        /\ own = <<>> => left = there
        /\ NoMore(left, there)
        /\ Len(there) <= 1 => Sent(merged, name) = Sent(set, name) \o own
    <3>1. set \in Seq(Headers(Known, Spelling, Part))
      BY <1>1, <1>5
    <3>2. merged = WithCookies(set, cookies)
      BY <1>3
    <3>3. HasCookies(WithCookies(set, cookies), Headers(Known, Spelling, Part),
                     set, cookies, name)
      BY <3>1, CookiesFollow
    <3>4. QED BY <1>1, <2>1, <3>2, <3>3 DEF HasCookies
  <2>4. NoMore(there, given)
    BY <1>5, <2>1 DEF MergedTo
  <2>5. supplied = <<>> => there = given
    <3>1. ASSUME supplied = <<>>
          PROVE  \A i \in 1..Len(session) : session[i].name # name
      <4>1. Places(session, name) = {}
        BY <2>1, <3>1, ExistingFinds
      <4>2. DOMAIN session = 1..Len(session)
        OBVIOUS
      <4>3. QED BY <4>1, <4>2 DEF Places
    <3>2. QED BY <1>5, <2>1, <3>1 DEF MergedTo
  <2>6. supplied # <<>> => Last(supplied) \in ToSet(there)
    <3>1. ASSUME supplied # <<>>
          PROVE  \E i \in 1..Len(session) :
                    /\ Last(supplied) = session[i]
                    /\ session[i].name = name
                    /\ \A j \in (i + 1)..Len(session) : session[j].name # name
      BY <2>1, <3>1, LastIs
    <3>2. QED BY <1>5, <2>1, <3>1 DEF MergedTo
  <2>7. ASSUME Len(given) <= 1
        PROVE  Sent(merged, name) =
                  (IF supplied = <<>> THEN Sent(headers, name)
                   ELSE Last(supplied).value) \o own
    <3>1. Len(there) <= 1
      BY <2>2, <2>4, <2>7 DEF NoMore
    <3>2. CASE supplied = <<>>
      <4>1. Sent(set, name) = Sent(headers, name)
        BY <2>1, <2>5, <3>2, Zenon DEF Sent
      <4>2. QED BY <2>3, <3>1, <3>2, <4>1
    <3>3. CASE supplied # <<>>
      <4>1. set \in Seq(Headers(Known, Spelling, Part))
        BY <1>1, <1>5
      <4>2. Sent(set, name) = Last(supplied).value
        BY <2>1, <2>6, <3>1, <3>3, <4>1, SentOfFew
      <4>3. QED BY <2>3, <3>1, <3>3, <4>2
    <3>4. QED BY <3>2, <3>3
  <2>8. Len(left) <= 1 \/ Len(left) <= Len(given)
    <3>1. PICK most : most = Len(left) /\ most \in Nat
      BY <2>1, <2>3, NamedIs
    <3>2. /\ most <= 1 \/ most <= Len(there)
          /\ Len(there) <= 1 \/ Len(there) <= Len(given)
      BY <2>3, <2>4, <3>1 DEF NoMore
    <3>3. most <= 1 \/ most <= Len(given)
      BY <2>2, <3>1, <3>2
    <3>4. QED BY <3>1, <3>3
  <2>9. QED BY <2>1, <2>3, <2>5, <2>6, <2>7, <2>8
<1>7. QED BY <1>2, <1>4, <1>6 DEF SentAsMerged

-----------------------------------------------------------------------------
(* The order of reports.                                                   *)

\* A strict order of values, some of which may be neither before nor after
\* one another.
WeakOrder(less, V) ==
    /\ \A x \in V : <<x, x>> \notin less
    /\ \A x, y, z \in V :
          <<x, y>> \in less => <<x, z>> \in less \/ <<z, y>> \in less
    /\ \A x, y, z \in V :
          <<x, y>> \in less /\ <<y, z>> \in less => <<x, z>> \in less

\* The positions 1..n compare as their keys do.
Compares(n, before, less, key) ==
    \A i, j \in 1..n : <<i, j>> \in before <=> <<key[i], key[j]>> \in less

OneToOne(n, f) == \A i, j \in 1..n : f[i] = f[j] => i = j

\* No key is before one of a lower position.
Rising(n, less, key) ==
    \A i, j \in 1..n : i < j => <<key[j], key[i]>> \notin less

\* The keys in the order that has at k the position order[k].
Placed(n, order, key) == [k \in 1..n |-> key[order[k]]]

\* The other list has the values of this one, at positions that are exchanged
\* by going there and coming back.
Rearranged(n, one, other) ==
    \E there, back \in [1..n -> 1..n] :
        /\ \A i \in 1..n : back[there[i]] = i /\ there[back[i]] = i
        /\ \A i \in 1..n : one[i] = other[there[i]]

\* An order has each position once, and no key before a lower one.
Sorts(n, less, key, order) ==
    /\ order \in [1..n -> 1..n]
    /\ \A i \in 1..n : \E k \in 1..n : order[k] = i
    /\ OneToOne(n, order)
    /\ Rising(n, less, Placed(n, order, key))

LEMMA StableOrders ==
    ASSUME NEW n \in Nat, NEW V, NEW less, WeakOrder(less, V),
           NEW key \in [1..n -> V], NEW before, Compares(n, before, less, key)
    PROVE  Sorts(n, less, key, StableOrder(n, before))
<1>1. PICK order : order = StableOrder(n, before)
  OBVIOUS
<1>2. PICK I : /\ I = 1..n
               /\ IsFiniteSet(I) /\ Cardinality(I) = n
               /\ \A i \in I : i \in Nat
  BY IntervalSize
<1>3. \A T \in SUBSET I : IsFiniteSet(T) /\ Cardinality(T) \in Nat
  BY <1>2, FS_Subset, FS_CardinalityType
<1>4. \A T \in SUBSET I : \A U \in SUBSET T :
         U # T => Cardinality(U) < Cardinality(T)
  <2>1. ASSUME NEW T \in SUBSET I, NEW U \in SUBSET T, U # T
        PROVE  Cardinality(U) < Cardinality(T)
    <3>1. IsFiniteSet(T) /\ Cardinality(T) \in Nat /\ Cardinality(U) \in Nat
      BY <1>3
    <3>2. Cardinality(U) <= Cardinality(T) /\ Cardinality(T) # Cardinality(U)
      BY <2>1, <3>1, FS_Subset
    <3>3. QED BY <3>1, <3>2
  <2>2. QED BY <2>1
<1>5. PICK ahead : ahead = [i \in I |-> {j \in I :
                                \/ <<j, i>> \in before
                                \/ <<i, j>> \notin before /\ j < i}]
  OBVIOUS
<1>6. /\ \A i \in I : ahead[i] \in SUBSET I /\ i \notin ahead[i]
      /\ \A i, j \in I :
            j \in ahead[i] <=> \/ <<key[j], key[i]>> \in less
                               \/ <<key[i], key[j]>> \notin less /\ j < i
  <2>1. \A i, j \in I :
            j \in ahead[i] <=> \/ <<key[j], key[i]>> \in less
                               \/ <<key[i], key[j]>> \notin less /\ j < i
    BY <1>2, <1>5 DEF Compares
  <2>2. ASSUME NEW i \in I PROVE i \notin ahead[i]
    <3>1. key[i] \in V /\ i \in Nat
      BY <1>2
    <3>2. <<key[i], key[i]>> \notin less
      BY <3>1 DEF WeakOrder
    <3>3. QED BY <2>1, <3>1, <3>2
  <2>3. \A i \in I : ahead[i] \in SUBSET I
    BY <1>5
  <2>4. QED BY <2>1, <2>2, <2>3
<1>7. PICK size : size = [i \in I |-> Cardinality(ahead[i])]
  OBVIOUS
<1>8. ASSUME NEW i \in I PROVE size[i] \in 0..(n - 1)
  <2>1. Cardinality(ahead[i]) < Cardinality(I) /\ Cardinality(ahead[i]) \in Nat
    BY <1>3, <1>4, <1>6
  <2>2. QED BY <1>2, <1>7, <2>1
<1>9. ASSUME NEW i \in I, NEW j \in I, i \in ahead[j]
      PROVE  size[i] < size[j]
  <2>1. ASSUME NEW k \in ahead[i] PROVE k \in ahead[j]
    <3>1. /\ k \in I /\ i \in Nat /\ j \in Nat /\ k \in Nat
          /\ key[i] \in V /\ key[j] \in V /\ key[k] \in V
      BY <1>2, <1>6
    <3>2. /\ \/ <<key[k], key[i]>> \in less
             \/ <<key[i], key[k]>> \notin less /\ k < i
          /\ \/ <<key[i], key[j]>> \in less
             \/ <<key[j], key[i]>> \notin less /\ i < j
      BY <1>6, <1>9, <2>1, <3>1
    <3>3. \/ <<key[k], key[j]>> \in less
          \/ <<key[j], key[k]>> \notin less /\ k < j
      BY <3>1, <3>2 DEF WeakOrder
    <3>4. QED BY <1>6, <3>1, <3>3
  <2>2. ahead[i] \in SUBSET ahead[j] /\ ahead[i] # ahead[j]
    BY <1>6, <1>9, <2>1
  <2>3. Cardinality(ahead[i]) < Cardinality(ahead[j])
    BY <1>4, <1>6, <2>2
  <2>4. QED BY <1>7, <2>3
<1>10. \A i, j \in I : i # j => size[i] # size[j]
  <2>1. ASSUME NEW i \in I, NEW j \in I, i # j PROVE size[i] # size[j]
    <3>1. i \in ahead[j] \/ j \in ahead[i]
      <4>1. i < j \/ j < i
        BY <1>2, <2>1
      <4>2. i \in ahead[j] <=>
               \/ <<key[i], key[j]>> \in less
               \/ <<key[j], key[i]>> \notin less /\ i < j
        BY <1>6
      <4>3. j \in ahead[i] <=>
               \/ <<key[j], key[i]>> \in less
               \/ <<key[i], key[j]>> \notin less /\ j < i
        BY <1>6
      <4>4. QED BY <4>1, <4>2, <4>3
    <3>2. size[i] < size[j] \/ size[j] < size[i]
      BY <1>9, <3>1
    <3>3. size[i] \in Nat /\ size[j] \in Nat
      BY <1>8
    <3>4. QED BY <3>2, <3>3
  <2>2. QED BY <2>1
<1>11. \A k \in I : \E i \in I : size[i] = k - 1
  <2> DEFINE rank == [i \in I |-> size[i] + 1]
  <2>1. rank \in Injection(I, I)
    <3>1. \A i \in I : size[i] + 1 \in I
      BY <1>2, <1>8
    <3>2. \A i \in I : size[i] \in Nat
      BY <1>8
    <3>3. \A i, j \in I : rank[i] = rank[j] => i = j
      BY <1>10, <3>2
    <3>4. QED BY <3>1, <3>3 DEF Injection, IsInjective
  <2>2. \A i \in I : rank[i] = size[i] + 1 /\ size[i] \in Nat
    BY <1>8
  <2> HIDE DEF rank
  <2>3. rank \in Surjection(I, I)
    BY <1>2, <2>1, FS_Injection
  <2>4. ASSUME NEW k \in I PROVE \E i \in I : size[i] = k - 1
    <3>1. PICK i \in I : rank[i] = k
      BY <2>3 DEF Surjection
    <3>2. size[i] + 1 = k /\ size[i] \in Nat
      BY <2>2, <3>1
    <3>3. QED BY <3>2
  <2>5. QED BY <2>4
<1>12. /\ order \in [I -> I]
       /\ \A k \in I : size[order[k]] = k - 1
  <2> DEFINE count(i) == Cardinality({j \in 1..n :
                                \/ <<j, i>> \in before
                                \/ <<i, j>> \notin before /\ j < i})
  <2>1. order = [k \in 1..n |-> CHOOSE i \in 1..n : count(i) = k - 1]
    BY <1>1 DEF StableOrder
  <2>2. \A i \in I : count(i) = size[i]
    BY <1>2, <1>5, <1>7
  <2> HIDE DEF count
  <2>3. ASSUME NEW k \in I PROVE order[k] \in I /\ size[order[k]] = k - 1
    <3>1. \E i \in 1..n : count(i) = k - 1
      BY <1>2, <1>11, <2>2
    <3>2. order[k] \in 1..n /\ count(order[k]) = k - 1
      BY <1>2, <2>1, <3>1
    <3>3. QED BY <1>2, <2>2, <3>2
  <2>4. QED BY <1>2, <2>1, <2>3
<1>13. ASSUME NEW i \in I PROVE \E k \in I : order[k] = i
  <2>1. size[i] + 1 \in I /\ size[i] \in Nat
    BY <1>2, <1>8
  <2>2. order[size[i] + 1] \in I /\ size[order[size[i] + 1]] = size[i]
    BY <1>12, <2>1
  <2>3. order[size[i] + 1] = i
    BY <1>10, <2>2
  <2>4. QED BY <2>1, <2>3
<1>14. \A k, m \in I : order[k] = order[m] => k = m
  <2>1. ASSUME NEW k \in I, NEW m \in I, order[k] = order[m] PROVE k = m
    <3>1. k - 1 = m - 1
      BY <1>12, <2>1
    <3>2. QED BY <1>2, <3>1
  <2>2. QED BY <2>1
<1>15. ASSUME NEW k \in I, NEW m \in I, k < m
       PROVE  <<key[order[m]], key[order[k]]>> \notin less
  <2>1. /\ order[k] \in I /\ size[order[k]] = k - 1
        /\ order[m] \in I /\ size[order[m]] = m - 1
    BY <1>12
  <2>2. ~(size[order[m]] < size[order[k]])
    BY <1>2, <1>15, <2>1
  <2>3. order[m] \notin ahead[order[k]]
    BY <1>9, <2>1, <2>2
  <2>4. QED BY <1>6, <2>1, <2>3
<1>16. OneToOne(n, order)
  BY <1>2, <1>14 DEF OneToOne
<1>17. Rising(n, less, Placed(n, order, key))
  BY <1>2, <1>15 DEF Rising, Placed
<1>18. Sorts(n, less, key, order)
  BY <1>2, <1>12, <1>13, <1>16, <1>17 DEF Sorts
<1>19. QED BY <1>1, <1>18

\* What is in order already stays where it is.
LEMMA InOrderStays ==
    ASSUME NEW n \in Nat, NEW V, NEW less, WeakOrder(less, V),
           NEW key \in [1..n -> V], NEW before, Compares(n, before, less, key),
           Rising(n, less, key)
    PROVE  \A k \in 1..n : StableOrder(n, before)[k] = k
<1> DEFINE Count(i) == Cardinality({j \in 1..n :
                              \/ <<j, i>> \in before
                              \/ <<i, j>> \notin before /\ j < i})
<1>1. ASSUME NEW i \in 1..n PROVE Count(i) = i - 1
  <2>1. ASSUME NEW j \in 1..n
        PROVE  (\/ <<j, i>> \in before
                \/ <<i, j>> \notin before /\ j < i) <=> j < i
    <3>1. /\ <<key[i], key[i]>> \notin less
          /\ <<j, i>> \in before <=> <<key[j], key[i]>> \in less
          /\ <<i, j>> \in before <=> <<key[i], key[j]>> \in less
          /\ i < j => <<key[j], key[i]>> \notin less
          /\ j < i => <<key[i], key[j]>> \notin less
      BY DEF WeakOrder, Compares, Rising
    <3>2. CASE j < i
      BY <3>1, <3>2
    <3>3. CASE j = i
      BY <3>1, <3>3
    <3>4. CASE i < j
      BY <3>1, <3>4
    <3>5. QED BY <3>2, <3>3, <3>4
  <2>2. {j \in 1..n : \/ <<j, i>> \in before
                      \/ <<i, j>> \notin before /\ j < i} = 1..(i - 1)
    BY <2>1
  <2>3. Cardinality(1..(i - 1)) = i - 1
    <3>1. PICK m \in Nat : m = i - 1
      OBVIOUS
    <3>2. Cardinality(1..m) = m
      BY IntervalSize
    <3>3. QED BY <3>1, <3>2
  <2>4. QED BY <2>2, <2>3
<1>2. StableOrder(n, before) =
         [k \in 1..n |-> CHOOSE i \in 1..n : Count(i) = k - 1]
  BY DEF StableOrder
<1> HIDE DEF Count
<1>3. ASSUME NEW k \in 1..n
      PROVE  StableOrder(n, before)[k] = k
  <2>1. StableOrder(n, before)[k] = CHOOSE i \in 1..n : Count(i) = k - 1
    BY <1>2
  <2>2. Count(k) = k - 1 /\ \A i \in 1..n : Count(i) = k - 1 => i = k
    BY <1>1
  <2>3. QED BY <2>1, <2>2
<1>4. QED BY <1>3

\* Of two ascending sequences of the same values the first never has a lower
\* value than the second: the values up to there would fit in fewer places.
LEMMA NeverBelow ==
    ASSUME NEW n \in Nat, NEW V, NEW less, WeakOrder(less, V),
           NEW a \in [1..n -> V], NEW b \in [1..n -> V],
           NEW g \in [1..n -> 1..n], OneToOne(n, g),
           \A i \in 1..n : a[i] = b[g[i]],
           Rising(n, less, a), Rising(n, less, b),
           NEW k \in 1..n
    PROVE  <<a[k], b[k]>> \notin less
<1>1. SUFFICES ASSUME <<a[k], b[k]>> \in less PROVE FALSE
  OBVIOUS
<1>2. ASSUME NEW i \in 1..k PROVE g[i] \in 1..(k - 1)
  <2>1. i \in 1..n /\ g[i] \in 1..n
    OBVIOUS
  <2>2. <<a[k], a[i]>> \notin less
    <3>1. CASE i = k
      BY <3>1 DEF WeakOrder
    <3>2. CASE i # k
      <4>1. i < k
        BY <3>2
      <4>2. QED BY <2>1, <4>1 DEF Rising
    <3>3. QED BY <3>1, <3>2
  <2>3. SUFFICES ASSUME ~(g[i] < k) PROVE FALSE
    BY <2>1
  <2>4. <<b[g[i]], b[k]>> \notin less
    <3>1. CASE g[i] = k
      BY <3>1 DEF WeakOrder
    <3>2. CASE g[i] # k
      <4>1. k < g[i]
        BY <2>1, <2>3, <3>2
      <4>2. QED BY <2>1, <4>1 DEF Rising
    <3>3. QED BY <3>1, <3>2
  <2>5. <<a[k], b[g[i]]>> \in less
    <3>1. a[k] \in V /\ b[k] \in V /\ b[g[i]] \in V
      BY <2>1
    <3>2. QED BY <1>1, <2>4, <3>1 DEF WeakOrder
  <2>6. QED BY <2>1, <2>2, <2>5
<1>3. PICK places, fewer, f :
         /\ places = 1..k /\ fewer = 1..(k - 1)
         /\ f = [i \in places |-> g[i]]
  OBVIOUS
<1>4. f \in Injection(places, fewer)
  <2>1. places \in SUBSET (1..n)
    BY <1>3
  <2>2. f \in [places -> fewer]
    BY <1>2, <1>3
  <2>3. \A i, j \in places : f[i] = f[j] => i = j
    BY <1>3, <2>1 DEF OneToOne
  <2>4. QED BY <2>2, <2>3 DEF Injection, IsInjective
<1>5. IsFiniteSet(fewer) /\ Cardinality(fewer) = k - 1
  <2>1. PICK m \in Nat : m = k - 1
    OBVIOUS
  <2>2. IsFiniteSet(1..m) /\ Cardinality(1..m) = m
    BY IntervalSize
  <2>3. QED BY <1>3, <2>1, <2>2
<1>6. Cardinality(places) = k
  <2>1. PICK m \in Nat : m = k
    OBVIOUS
  <2>2. Cardinality(1..m) = m
    BY IntervalSize
  <2>3. QED BY <1>3, <2>1, <2>2
<1>7. Cardinality(places) <= Cardinality(fewer)
  BY <1>4, <1>5, FS_Injection
<1>8. QED BY <1>5, <1>6, <1>7

\* The sorts of two lists of the same values have at each position values of
\* which neither is before the other.
LEMMA SortsAlike ==
    ASSUME NEW n \in Nat, NEW V, NEW less, WeakOrder(less, V),
           NEW key \in [1..n -> V], NEW before, Compares(n, before, less, key),
           NEW other \in [1..n -> V], NEW otherBefore,
           Compares(n, otherBefore, less, other),
           Rearranged(n, key, other), NEW k \in 1..n
    PROVE  LET mine   == key[StableOrder(n, before)[k]]
               theirs == other[StableOrder(n, otherBefore)[k]]
           IN  <<mine, theirs>> \notin less /\ <<theirs, mine>> \notin less
<1>0. PICK there \in [1..n -> 1..n], back \in [1..n -> 1..n] :
         /\ \A i \in 1..n : back[there[i]] = i /\ there[back[i]] = i
         /\ \A i \in 1..n : key[i] = other[there[i]]
  BY DEF Rearranged
<1>1. PICK order : order = StableOrder(n, before)
  OBVIOUS
<1>2. PICK second : second = StableOrder(n, otherBefore)
  OBVIOUS
<1>3. PICK a : a = Placed(n, order, key)
  OBVIOUS
<1>4. PICK b : b = Placed(n, second, other)
  OBVIOUS
<1>5. /\ order \in [1..n -> 1..n]
      /\ \A i \in 1..n : \E m \in 1..n : order[m] = i
      /\ OneToOne(n, order)
      /\ Rising(n, less, a)
  <2>1. Sorts(n, less, key, StableOrder(n, before))
    BY StableOrders
  <2>2. QED BY <1>1, <1>3, <2>1 DEF Sorts
<1>6. /\ second \in [1..n -> 1..n]
      /\ \A i \in 1..n : \E m \in 1..n : second[m] = i
      /\ OneToOne(n, second)
      /\ Rising(n, less, b)
  <2>1. Sorts(n, less, other, StableOrder(n, otherBefore))
    BY StableOrders
  <2>2. QED BY <1>2, <1>4, <2>1 DEF Sorts
<1>7. /\ a \in [1..n -> V] /\ b \in [1..n -> V]
      /\ \A m \in 1..n : a[m] = key[order[m]] /\ b[m] = other[second[m]]
  BY <1>3, <1>4, <1>5, <1>6 DEF Placed
<1>8. <<a[k], b[k]>> \notin less
  <2> DEFINE g == [m \in 1..n |->
                      CHOOSE l \in 1..n : second[l] = there[order[m]]]
  <2>1. ASSUME NEW m \in 1..n
        PROVE  g[m] \in 1..n /\ second[g[m]] = there[order[m]]
    <3>1. \E l \in 1..n : second[l] = there[order[m]]
      BY <1>0, <1>5, <1>6
    <3>2. QED BY <3>1
  <2>2. g \in [1..n -> 1..n]
    BY <2>1
  <2> HIDE DEF g
  <2>3. OneToOne(n, g)
    <3>1. ASSUME NEW m \in 1..n, NEW l \in 1..n, g[m] = g[l] PROVE m = l
      <4>1. there[order[m]] = there[order[l]]
        BY <2>1, <3>1
      <4>2. order[m] \in 1..n /\ order[l] \in 1..n
        BY <1>5
      <4>3. /\ back[there[order[m]]] = order[m]
            /\ back[there[order[l]]] = order[l]
        BY <1>0, <4>2
      <4>4. order[m] = order[l]
        BY <4>1, <4>3
      <4>5. QED BY <1>5, <4>4 DEF OneToOne
    <3>2. QED BY <3>1 DEF OneToOne
  <2>4. ASSUME NEW m \in 1..n PROVE a[m] = b[g[m]]
    <3>1. g[m] \in 1..n /\ order[m] \in 1..n
      BY <1>5, <2>1
    <3>2. a[m] = key[order[m]] /\ b[g[m]] = other[second[g[m]]]
      BY <1>7, <3>1
    <3>3. key[order[m]] = other[there[order[m]]]
      BY <1>0, <3>1
    <3>4. QED BY <2>1, <3>2, <3>3
  <2>5. QED BY <1>5, <1>6, <1>7, <2>2, <2>3, <2>4, NeverBelow
<1>9. <<b[k], a[k]>> \notin less
  <2> DEFINE g == [m \in 1..n |->
                      CHOOSE l \in 1..n : order[l] = back[second[m]]]
  <2>1. ASSUME NEW m \in 1..n
        PROVE  g[m] \in 1..n /\ order[g[m]] = back[second[m]]
    <3>1. \E l \in 1..n : order[l] = back[second[m]]
      BY <1>0, <1>5, <1>6
    <3>2. QED BY <3>1
  <2>2. g \in [1..n -> 1..n]
    BY <2>1
  <2> HIDE DEF g
  <2>3. OneToOne(n, g)
    <3>1. ASSUME NEW m \in 1..n, NEW l \in 1..n, g[m] = g[l] PROVE m = l
      <4>1. back[second[m]] = back[second[l]]
        BY <2>1, <3>1
      <4>2. second[m] \in 1..n /\ second[l] \in 1..n
        BY <1>6
      <4>3. /\ there[back[second[m]]] = second[m]
            /\ there[back[second[l]]] = second[l]
        BY <1>0, <4>2
      <4>4. second[m] = second[l]
        BY <4>1, <4>3
      <4>5. QED BY <1>6, <4>4 DEF OneToOne
    <3>2. QED BY <3>1 DEF OneToOne
  <2>4. ASSUME NEW m \in 1..n PROVE b[m] = a[g[m]]
    <3>1. g[m] \in 1..n /\ second[m] \in 1..n
      BY <1>6, <2>1
    <3>2. b[m] = other[second[m]] /\ a[g[m]] = key[order[g[m]]]
      BY <1>7, <3>1
    <3>3. back[second[m]] \in 1..n /\ there[back[second[m]]] = second[m]
      BY <1>0, <3>1
    <3>4. key[back[second[m]]] = other[second[m]]
      BY <1>0, <3>3
    <3>5. QED BY <2>1, <3>2, <3>4
  <2>5. QED BY <1>5, <1>6, <1>7, <2>2, <2>3, <2>4, NeverBelow
<1>10. QED BY <1>1, <1>2, <1>7, <1>8, <1>9

\* The failures and cases of reports, and the orders of their comparisons.
ReportFailures == [category: Nat, message: Nat]

ReportCases(Outcome) ==
    [id: Nat, outcome: Outcome, failures: Seq(ReportFailures)]

Lower == {pair \in Nat \X Nat : pair[1] < pair[2]}

LowerFailures ==
    {pair \in ReportFailures \X ReportFailures :
        FailureBefore(pair[1], pair[2])}

\* Where failures and cases come before one another, as the sorts compare them.
FailurePairs(failures) ==
    {pair \in (DOMAIN failures) \X (DOMAIN failures) :
        FailureBefore(failures[pair[1]], failures[pair[2]])}

CasePairs(cases) ==
    {pair \in (DOMAIN cases) \X (DOMAIN cases) :
        CaseBefore(cases[pair[1]], cases[pair[2]])}

IdAt(cases) == [i \in DOMAIN cases |-> cases[i].id]

LEMMA ReportOrders ==
    /\ WeakOrder(Lower, Nat)
    /\ WeakOrder(LowerFailures, ReportFailures)
    /\ \A x, y \in Nat :
          <<x, y>> \notin Lower /\ <<y, x>> \notin Lower => x = y
    /\ \A x, y \in ReportFailures :
          <<x, y>> \notin LowerFailures /\ <<y, x>> \notin LowerFailures
          => x = y
<1>1. \A x, y \in Nat : <<x, y>> \in Lower <=> x < y
  BY DEF Lower
<1>2. \A x, y \in ReportFailures :
         <<x, y>> \in LowerFailures <=>
            \/ x.category < y.category
            \/ x.category = y.category /\ x.message < y.message
  BY DEF LowerFailures, FailureBefore
<1>3. \A x \in ReportFailures :
         x = [category |-> x.category, message |-> x.message]
         /\ x.category \in Nat /\ x.message \in Nat
  BY DEF ReportFailures
<1>4. WeakOrder(Lower, Nat)
  BY <1>1 DEF WeakOrder
<1>5. WeakOrder(LowerFailures, ReportFailures)
  BY <1>2, <1>3 DEF WeakOrder
<1>6. \A x, y \in Nat :
         <<x, y>> \notin Lower /\ <<y, x>> \notin Lower => x = y
  BY <1>1
<1>7. ASSUME NEW x \in ReportFailures, NEW y \in ReportFailures,
             <<x, y>> \notin LowerFailures, <<y, x>> \notin LowerFailures
      PROVE  x = y
  <2>1. x.category = y.category /\ x.message = y.message
    BY <1>2, <1>3, <1>7
  <2>2. QED BY <1>3, <2>1
<1>8. QED BY <1>4, <1>5, <1>6, <1>7

LEMMA ReversedIs ==
    ASSUME NEW S, NEW seq \in Seq(S)
    PROVE  /\ Reverse(seq) \in Seq(S)
           /\ Len(Reverse(seq)) = Len(seq)
           /\ \A i \in 1..Len(seq) : Reverse(seq)[i] = seq[Len(seq) - i + 1]
<1>1. PICK n \in Nat : n = Len(seq) /\ DOMAIN seq = 1..n
  OBVIOUS
<1>2. Reverse(seq) = [i \in 1..n |-> seq[n - i + 1]]
  BY <1>1 DEF Reverse
<1>3. \A i \in 1..n : n - i + 1 \in 1..n
  OBVIOUS
<1>4. Reverse(seq) \in [1..n -> S]
  BY <1>1, <1>2, <1>3
<1>5. Reverse(seq) \in Seq(S)
  BY <1>4, SeqDef
<1>6. Len(Reverse(seq)) = n
  BY <1>4, <1>5
<1>7. QED BY <1>1, <1>2, <1>5, <1>6

LEMMA FailuresCompare ==
    ASSUME NEW failures \in Seq(ReportFailures)
    PROVE  /\ Compares(Len(failures), FailurePairs(failures), LowerFailures,
                       failures)
           /\ failures \in [1..Len(failures) -> ReportFailures]
<1>1. PICK n \in Nat : n = Len(failures) /\ DOMAIN failures = 1..n
  OBVIOUS
<1>2. failures \in [1..n -> ReportFailures]
  BY <1>1
<1>3. ASSUME NEW i \in 1..n, NEW j \in 1..n
      PROVE  <<i, j>> \in FailurePairs(failures) <=>
             <<failures[i], failures[j]>> \in LowerFailures
  <2>1. failures[i] \in ReportFailures /\ failures[j] \in ReportFailures
    BY <1>2
  <2>2. <<i, j>> \in FailurePairs(failures) <=>
        FailureBefore(failures[i], failures[j])
    BY <1>1 DEF FailurePairs
  <2>3. <<failures[i], failures[j]>> \in LowerFailures <=>
        FailureBefore(failures[i], failures[j])
    BY <2>1 DEF LowerFailures
  <2>4. QED BY <2>2, <2>3
<1>4. QED BY <1>1, <1>2, <1>3 DEF Compares

\* What sortedFailures returns.
LEMMA FailuresSorted ==
    ASSUME NEW failures \in Seq(ReportFailures)
    PROVE  LET n     == Len(failures)
               order == StableOrder(n, FailurePairs(failures))
           IN  /\ Sorts(n, LowerFailures, failures, order)
               /\ SortedFailures(failures) = Placed(n, order, failures)
               /\ SortedFailures(failures) \in [1..n -> ReportFailures]
               /\ SortedFailures(failures) \in Seq(ReportFailures)
               /\ Len(SortedFailures(failures)) = n
<1>1. PICK n \in Nat : n = Len(failures) /\ DOMAIN failures = 1..n
  OBVIOUS
<1>2. PICK order : order = StableOrder(n, FailurePairs(failures))
  OBVIOUS
<1>3. Sorts(n, LowerFailures, failures, order)
  BY <1>1, <1>2, FailuresCompare, ReportOrders, StableOrders
<1>4. SortedFailures(failures) = Placed(n, order, failures)
  BY <1>1, <1>2 DEF SortedFailures, Placed, FailurePairs
<1>5. Placed(n, order, failures) \in [1..n -> ReportFailures]
  BY <1>1, <1>3 DEF Sorts, Placed
<1>6. Placed(n, order, failures) \in Seq(ReportFailures)
  BY <1>5, SeqDef
<1>7. Len(Placed(n, order, failures)) = n
  BY <1>5, <1>6
<1>8. QED BY <1>1, <1>2, <1>3, <1>4, <1>5, <1>6, <1>7

\* Failures are sorted the same in whatever order they come.
LEMMA FailuresSortAlike ==
    ASSUME NEW one \in Seq(ReportFailures), NEW other \in Seq(ReportFailures),
           Len(other) = Len(one), Rearranged(Len(one), one, other)
    PROVE  SortedFailures(one) = SortedFailures(other)
<1>1. PICK n \in Nat : n = Len(one)
  OBVIOUS
<1>2. PICK mine, theirs : /\ mine = StableOrder(n, FailurePairs(one))
                          /\ theirs = StableOrder(n, FailurePairs(other))
  OBVIOUS
<1>3. /\ SortedFailures(one) = Placed(n, mine, one)
      /\ Sorts(n, LowerFailures, one, mine)
  BY <1>1, <1>2, FailuresSorted
<1>4. /\ SortedFailures(other) = Placed(n, theirs, other)
      /\ Sorts(n, LowerFailures, other, theirs)
  BY <1>1, <1>2, FailuresSorted
<1>5. /\ Compares(n, FailurePairs(one), LowerFailures, one)
      /\ Compares(n, FailurePairs(other), LowerFailures, other)
      /\ one \in [1..n -> ReportFailures]
      /\ other \in [1..n -> ReportFailures]
  BY <1>1, FailuresCompare
<1>6. ASSUME NEW k \in 1..n PROVE one[mine[k]] = other[theirs[k]]
  <2>1. /\ <<one[mine[k]], other[theirs[k]]>> \notin LowerFailures
        /\ <<other[theirs[k]], one[mine[k]]>> \notin LowerFailures
    <3>1. WeakOrder(LowerFailures, ReportFailures)
      BY ReportOrders
    <3>2. Rearranged(n, one, other)
      BY <1>1
    <3>3. QED BY <1>2, <1>5, <3>1, <3>2, SortsAlike
  <2>2. one[mine[k]] \in ReportFailures /\ other[theirs[k]] \in ReportFailures
    BY <1>3, <1>4, <1>5 DEF Sorts
  <2>3. QED BY <2>1, <2>2, ReportOrders
<1>7. QED BY <1>3, <1>4, <1>6 DEF Placed

LEMMA ReversedSortAlike ==
    ASSUME NEW failures \in Seq(ReportFailures)
    PROVE  SortedFailures(Reverse(failures)) = SortedFailures(failures)
<1>1. PICK n \in Nat : n = Len(failures)
  OBVIOUS
<1>2. PICK reversed \in Seq(ReportFailures) :
         /\ reversed = Reverse(failures)
         /\ Len(reversed) = n
         /\ \A i \in 1..n : reversed[i] = failures[n - i + 1]
  BY <1>1, ReversedIs
<1>3. PICK turn : turn = [i \in 1..n |-> n - i + 1]
  OBVIOUS
<1>4. /\ turn \in [1..n -> 1..n]
      /\ \A i \in 1..n : turn[turn[i]] = i
  <2>1. ASSUME NEW i \in 1..n
        PROVE  /\ n - i + 1 \in 1..n
               /\ n - (n - i + 1) + 1 = i
    OBVIOUS
  <2>2. QED BY <1>3, <2>1
<1>5. \A i \in 1..n : reversed[i] = failures[turn[i]]
  BY <1>2, <1>3
<1>6. Rearranged(n, reversed, failures)
  BY <1>4, <1>5 DEF Rearranged
<1>7. QED BY <1>1, <1>2, <1>6, FailuresSortAlike

\* Sorted failures are sorted again to what they are.
LEMMA FailuresSortTwice ==
    ASSUME NEW failures \in Seq(ReportFailures)
    PROVE  SortedFailures(SortedFailures(failures)) = SortedFailures(failures)
<1>1. PICK n \in Nat : n = Len(failures)
  OBVIOUS
<1>2. PICK sorted \in Seq(ReportFailures) :
         /\ sorted = SortedFailures(failures)
         /\ Len(sorted) = n
         /\ Rising(n, LowerFailures, sorted)
  BY <1>1, FailuresSorted DEF Sorts
<1>3. PICK order : order = StableOrder(n, FailurePairs(sorted))
  OBVIOUS
<1>4. SortedFailures(sorted) = Placed(n, order, sorted)
  BY <1>2, <1>3, FailuresSorted
<1>5. \A k \in 1..n : order[k] = k
  <2>1. /\ Compares(n, FailurePairs(sorted), LowerFailures, sorted)
        /\ sorted \in [1..n -> ReportFailures]
    BY <1>2, FailuresCompare
  <2>2. QED BY <1>2, <1>3, <2>1, ReportOrders, InOrderStays
<1>6. Placed(n, order, sorted) = sorted
  <2>1. sorted = [k \in 1..n |-> sorted[k]]
    BY <1>2
  <2>2. QED BY <1>5, <2>1 DEF Placed
<1>7. QED BY <1>2, <1>4, <1>6

LEMMA FailureIs ==
    ASSUME NEW failure \in ReportFailures
    PROVE  Failure(failure.category, failure.message) = failure
BY DEF ReportFailures, Failure

\* What an artifact has of a list of failures: the same whichever way round
\* they come, and nothing new when they are redacted already.
LEMMA FailuresCanonical ==
    ASSUME NEW failures \in Seq(ReportFailures)
    PROVE  /\ RedactedFailures(Reverse(failures)) = RedactedFailures(failures)
           /\ AreRedacted(failures) =>
                 /\ RedactedFailures(failures) \in Seq(ReportFailures)
                 /\ RedactedFailures(RedactedFailures(failures)) =
                       RedactedFailures(failures)
<1>1. PICK n \in Nat : n = Len(failures) /\ DOMAIN failures = 1..n
  OBVIOUS
<1>2. PICK order, sorted :
         /\ order = StableOrder(n, FailurePairs(failures))
         /\ sorted = SortedFailures(failures)
  OBVIOUS
<1>3. /\ sorted \in Seq(ReportFailures)
      /\ sorted \in [1..n -> ReportFailures]
      /\ order \in [1..n -> 1..n]
      /\ \A k \in 1..n : sorted[k] = failures[order[k]]
  <2>1. /\ Sorts(n, LowerFailures, failures, order)
        /\ sorted = Placed(n, order, failures)
        /\ sorted \in [1..n -> ReportFailures]
        /\ sorted \in Seq(ReportFailures)
    BY <1>1, <1>2, FailuresSorted
  <2>2. QED BY <2>1 DEF Sorts, Placed
<1>4. RedactedFailures(Reverse(failures)) = RedactedFailures(failures)
  BY ReversedSortAlike DEF RedactedFailures
<1>5. ASSUME AreRedacted(failures)
      PROVE  RedactedFailures(failures) = sorted
  <2>1. ASSUME NEW k \in 1..n
        PROVE  Failure(sorted[k].category, Redact(sorted[k].message)) = sorted[k]
    <3>1. /\ order[k] \in 1..n /\ sorted[k] = failures[order[k]]
          /\ sorted[k] \in ReportFailures
      BY <1>3
    <3>2. Redact(sorted[k].message) = sorted[k].message
      BY <1>1, <1>5, <3>1 DEF AreRedacted
    <3>3. QED BY <3>1, <3>2, FailureIs
  <2>2. /\ RedactedFailures(failures) =
              [k \in 1..n |->
                  Failure(sorted[k].category, Redact(sorted[k].message))]
        /\ sorted = [k \in 1..n |-> sorted[k]]
    BY <1>2, <1>3 DEF RedactedFailures
  <2>3. QED BY <2>1, <2>2
<1>6. ASSUME AreRedacted(failures)
      PROVE  RedactedFailures(sorted) = sorted
  <2>1. RedactedFailures(failures) = RedactedFailures(sorted)
    <3>1. SortedFailures(sorted) = SortedFailures(failures)
      BY <1>2, FailuresSortTwice
    <3>2. QED BY <3>1 DEF RedactedFailures
  <2>2. QED BY <1>5, <1>6, <2>1
<1>7. QED BY <1>3, <1>4, <1>5, <1>6

\* It has each of the failures once redacted, and nothing else.
LEMMA FailuresGathered ==
    ASSUME NEW failures \in Seq(ReportFailures)
    PROVE  ToSet(RedactedFailures(failures)) =
              ToSet([j \in DOMAIN failures |->
                        Failure(failures[j].category,
                                Redact(failures[j].message))])
<1>1. PICK n \in Nat : n = Len(failures) /\ DOMAIN failures = 1..n
  OBVIOUS
<1>2. PICK order, sorted :
         /\ order = StableOrder(n, FailurePairs(failures))
         /\ sorted = SortedFailures(failures)
  OBVIOUS
<1>3. /\ sorted \in [1..n -> ReportFailures]
      /\ order \in [1..n -> 1..n]
      /\ \A i \in 1..n : \E k \in 1..n : order[k] = i
      /\ \A k \in 1..n : sorted[k] = failures[order[k]]
  <2>1. /\ Sorts(n, LowerFailures, failures, order)
        /\ sorted = Placed(n, order, failures)
        /\ sorted \in [1..n -> ReportFailures]
        /\ sorted \in Seq(ReportFailures)
    BY <1>1, <1>2, FailuresSorted
  <2>2. QED BY <2>1 DEF Sorts, Placed
<1>4. PICK shown :
         shown = [j \in 1..n |-> Failure(failures[j].category,
                                         Redact(failures[j].message))]
  OBVIOUS
<1>5. PICK redacted : redacted = RedactedFailures(failures)
  OBVIOUS
<1>6. redacted = [k \in 1..n |-> Failure(sorted[k].category,
                                         Redact(sorted[k].message))]
  BY <1>2, <1>3, <1>5 DEF RedactedFailures
<1>7. \A k \in 1..n : order[k] \in 1..n /\ redacted[k] = shown[order[k]]
  BY <1>3, <1>4, <1>6
<1>8. DOMAIN redacted = 1..n /\ DOMAIN shown = 1..n
  BY <1>4, <1>6
<1>9. ToSet(redacted) = ToSet(shown)
  <2>1. /\ ToSet(redacted) = {redacted[k] : k \in 1..n}
        /\ ToSet(shown) = {shown[j] : j \in 1..n}
    BY <1>8 DEF ToSet
  <2>2. \A k \in 1..n : redacted[k] \in {shown[j] : j \in 1..n}
    BY <1>7
  <2>3. ASSUME NEW j \in 1..n PROVE shown[j] \in {redacted[k] : k \in 1..n}
    <3>1. PICK k \in 1..n : order[k] = j
      BY <1>3
    <3>2. redacted[k] = shown[j]
      BY <1>7, <3>1
    <3>3. QED BY <3>2
  <2>4. QED BY <2>1, <2>2, <2>3
<1>10. QED BY <1>1, <1>4, <1>5, <1>9

LEMMA CasesCompare ==
    ASSUME NEW Outcome, NEW cases \in Seq(ReportCases(Outcome))
    PROVE  /\ IdAt(cases) \in [1..Len(cases) -> Nat]
           /\ Compares(Len(cases), CasePairs(cases), Lower, IdAt(cases))
<1>1. PICK n \in Nat : n = Len(cases) /\ DOMAIN cases = 1..n
  OBVIOUS
<1>2. PICK ids : ids = IdAt(cases)
  OBVIOUS
<1>3. ids \in [1..n -> Nat] /\ \A i \in 1..n : ids[i] = cases[i].id
  <2>1. ids = [i \in 1..n |-> cases[i].id]
    BY <1>1, <1>2 DEF IdAt
  <2>2. \A i \in 1..n : cases[i] \in ReportCases(Outcome)
    BY <1>1
  <2>3. \A i \in 1..n : cases[i].id \in Nat
    BY <2>2 DEF ReportCases
  <2>4. QED BY <2>1, <2>3
<1>4. ASSUME NEW i \in 1..n, NEW j \in 1..n
      PROVE  <<i, j>> \in CasePairs(cases) <=> <<ids[i], ids[j]>> \in Lower
  <2>1. <<i, j>> \in CasePairs(cases) <=> ids[i] < ids[j]
    <3>1. <<i, j>> \in CasePairs(cases) <=> CaseBefore(cases[i], cases[j])
      BY <1>1 DEF CasePairs
    <3>2. cases[i].id = ids[i] /\ cases[j].id = ids[j]
      BY <1>3
    <3>3. QED BY <3>1, <3>2 DEF CaseBefore
  <2>2. <<ids[i], ids[j]>> \in Lower <=> ids[i] < ids[j]
    BY <1>3 DEF Lower
  <2>3. QED BY <2>1, <2>2
<1>5. QED BY <1>1, <1>2, <1>3, <1>4 DEF Compares

\* What sorting cases returns.
LEMMA CasesSorted ==
    ASSUME NEW Outcome, NEW cases \in Seq(ReportCases(Outcome))
    PROVE  LET n     == Len(cases)
               order == StableOrder(n, CasePairs(cases))
           IN  /\ Sorts(n, Lower, IdAt(cases), order)
               /\ SortedCases(cases) = Placed(n, order, cases)
               /\ SortedCases(cases) \in [1..n -> ReportCases(Outcome)]
<1>1. PICK n \in Nat : n = Len(cases) /\ DOMAIN cases = 1..n
  OBVIOUS
<1>2. PICK order : order = StableOrder(n, CasePairs(cases))
  OBVIOUS
<1>3. PICK ids : ids = IdAt(cases)
  OBVIOUS
<1>4. ids \in [1..n -> Nat] /\ Compares(n, CasePairs(cases), Lower, ids)
  BY <1>1, <1>3, CasesCompare
<1>5. Sorts(n, Lower, ids, order)
  BY <1>2, <1>4, ReportOrders, StableOrders
<1>6. SortedCases(cases) = Placed(n, order, cases)
  BY <1>1, <1>2 DEF SortedCases, Placed, CasePairs
<1>7. Placed(n, order, cases) \in [1..n -> ReportCases(Outcome)]
  BY <1>1, <1>5 DEF Sorts, Placed
<1>8. QED BY <1>1, <1>2, <1>3, <1>5, <1>6, <1>7

\* No two cases have the same id, as discoverCases sees to.
Identified(cases) ==
    \A i, j \in DOMAIN cases : cases[i].id = cases[j].id => i = j

TurnedCases(cases) ==
    Reverse([i \in DOMAIN cases |->
                [cases[i] EXCEPT !.failures = Reverse(@)]])

CanonicalCase(case) ==
    [id |-> Redact(case.id), outcome |-> case.outcome,
     failures |-> RedactedFailures(case.failures)]

CanonicalCases(cases) ==
    LET sorted == SortedCases(cases) IN
    [i \in DOMAIN sorted |-> CanonicalCase(sorted[i])]

LEMMA CaseIs ==
    ASSUME NEW Outcome, NEW case \in ReportCases(Outcome)
    PROVE  /\ case.id \in Nat /\ case.failures \in Seq(ReportFailures)
           /\ case = [id |-> case.id, outcome |-> case.outcome,
                      failures |-> case.failures]
BY DEF ReportCases

LEMMA TurnedCase ==
    ASSUME NEW Outcome, NEW case \in ReportCases(Outcome)
    PROVE  LET turned == [case EXCEPT !.failures = Reverse(@)]
           IN  /\ turned \in ReportCases(Outcome)
               /\ turned.id = case.id
               /\ CanonicalCase(turned) = CanonicalCase(case)
<1>1. PICK turned : turned = [case EXCEPT !.failures = Reverse(@)]
  OBVIOUS
<1>2. case.failures \in Seq(ReportFailures)
  BY CaseIs
<1>3. PICK reversed \in Seq(ReportFailures) : reversed = Reverse(case.failures)
  BY <1>2, ReversedIs
<1>4. /\ turned \in ReportCases(Outcome)
      /\ turned.id = case.id /\ turned.outcome = case.outcome
      /\ turned.failures = reversed
  BY <1>1, <1>3 DEF ReportCases
<1>5. RedactedFailures(reversed) = RedactedFailures(case.failures)
  BY <1>2, <1>3, FailuresCanonical
<1>6. CanonicalCase(turned) = CanonicalCase(case)
  BY <1>4, <1>5 DEF CanonicalCase
<1>7. QED BY <1>1, <1>4, <1>6

LEMMA TurnedIs ==
    ASSUME NEW Outcome, NEW cases \in Seq(ReportCases(Outcome))
    PROVE  /\ TurnedCases(cases) \in Seq(ReportCases(Outcome))
           /\ Len(TurnedCases(cases)) = Len(cases)
           /\ \A i \in 1..Len(cases) :
                 LET case == cases[Len(cases) - i + 1]
                 IN  /\ TurnedCases(cases)[i].id = case.id
                     /\ CanonicalCase(TurnedCases(cases)[i]) =
                           CanonicalCase(case)
<1>1. PICK n \in Nat : n = Len(cases) /\ DOMAIN cases = 1..n
  OBVIOUS
<1>2. PICK each : each = [i \in 1..n |->
                             [cases[i] EXCEPT !.failures = Reverse(@)]]
  OBVIOUS
<1>3. ASSUME NEW i \in 1..n
      PROVE  /\ each[i] \in ReportCases(Outcome)
             /\ each[i].id = cases[i].id
             /\ CanonicalCase(each[i]) = CanonicalCase(cases[i])
  <2>1. cases[i] \in ReportCases(Outcome)
    BY <1>1
  <2>2. PICK case \in ReportCases(Outcome) : case = cases[i]
    BY <2>1
  <2>3. each[i] = [case EXCEPT !.failures = Reverse(@)]
    BY <1>2, <2>2
  <2>4. QED BY <2>2, <2>3, TurnedCase
<1>4. /\ each \in Seq(ReportCases(Outcome))
      /\ Len(each) = n
  <2>1. each \in [1..n -> ReportCases(Outcome)]
    BY <1>2, <1>3
  <2>2. each \in Seq(ReportCases(Outcome))
    BY <2>1, SeqDef
  <2>3. QED BY <2>1, <2>2
<1>5. PICK turned : turned = TurnedCases(cases)
  OBVIOUS
<1>6. turned = Reverse(each)
  BY <1>1, <1>2, <1>5 DEF TurnedCases
<1>7. /\ turned \in Seq(ReportCases(Outcome))
      /\ Len(turned) = n
      /\ \A i \in 1..n : turned[i] = each[n - i + 1]
  BY <1>4, <1>6, ReversedIs
<1>8. ASSUME NEW i \in 1..n
      PROVE  /\ turned[i].id = cases[n - i + 1].id
             /\ CanonicalCase(turned[i]) = CanonicalCase(cases[n - i + 1])
  <2>1. PICK j \in 1..n : j = n - i + 1
    OBVIOUS
  <2>2. QED BY <1>3, <1>7, <2>1
<1>9. QED BY <1>1, <1>5, <1>7, <1>8

\* Cases are shown the same whichever way round they and their failures come.
LEMMA CasesTurned ==
    ASSUME NEW Outcome, NEW cases \in Seq(ReportCases(Outcome)),
           Identified(cases)
    PROVE  CanonicalCases(TurnedCases(cases)) = CanonicalCases(cases)
<1>1. PICK n \in Nat : n = Len(cases) /\ DOMAIN cases = 1..n
  OBVIOUS
<1>2. PICK turned \in Seq(ReportCases(Outcome)) :
         /\ turned = TurnedCases(cases)
         /\ Len(turned) = n
         /\ \A i \in 1..n :
               /\ turned[i].id = cases[n - i + 1].id
               /\ CanonicalCase(turned[i]) = CanonicalCase(cases[n - i + 1])
  BY <1>1, TurnedIs
<1>3. PICK mine, theirs : /\ mine = StableOrder(n, CasePairs(cases))
                          /\ theirs = StableOrder(n, CasePairs(turned))
  OBVIOUS
<1>4. PICK ids, turnedIds : ids = IdAt(cases) /\ turnedIds = IdAt(turned)
  OBVIOUS
<1>5. /\ ids \in [1..n -> Nat] /\ turnedIds \in [1..n -> Nat]
      /\ Compares(n, CasePairs(cases), Lower, ids)
      /\ Compares(n, CasePairs(turned), Lower, turnedIds)
  BY <1>1, <1>2, <1>4, CasesCompare
<1>6. /\ Sorts(n, Lower, ids, mine)
      /\ SortedCases(cases) = Placed(n, mine, cases)
  BY <1>1, <1>3, <1>4, CasesSorted
<1>7. /\ Sorts(n, Lower, turnedIds, theirs)
      /\ SortedCases(turned) = Placed(n, theirs, turned)
  BY <1>2, <1>3, <1>4, CasesSorted
<1>8. /\ \A i \in 1..n : ids[i] = cases[i].id
      /\ \A i \in 1..n : turnedIds[i] = cases[n - i + 1].id
  <2>1. ids = [i \in 1..n |-> cases[i].id]
    BY <1>1, <1>4 DEF IdAt
  <2>2. turnedIds = [i \in 1..n |-> turned[i].id]
    BY <1>2, <1>4 DEF IdAt
  <2>3. QED BY <1>2, <2>1, <2>2
<1>9. Rearranged(n, turnedIds, ids)
  <2>1. PICK turn : turn = [i \in 1..n |-> n - i + 1]
    OBVIOUS
  <2>2. /\ turn \in [1..n -> 1..n]
        /\ \A i \in 1..n : turn[turn[i]] = i
    <3>1. ASSUME NEW i \in 1..n
          PROVE  n - i + 1 \in 1..n /\ n - (n - i + 1) + 1 = i
      OBVIOUS
    <3>2. QED BY <2>1, <3>1
  <2>3. \A i \in 1..n : turnedIds[i] = ids[turn[i]]
    BY <1>8, <2>1, <2>2
  <2>4. QED BY <2>2, <2>3 DEF Rearranged
<1>10. mine \in [1..n -> 1..n] /\ theirs \in [1..n -> 1..n]
  BY <1>6, <1>7 DEF Sorts
<1>11. ASSUME NEW k \in 1..n
       PROVE  CanonicalCase(turned[theirs[k]]) = CanonicalCase(cases[mine[k]])
  <2>1. PICK i \in 1..n, j \in 1..n : i = theirs[k] /\ j = n - i + 1
    <3>1. theirs[k] \in 1..n
      BY <1>10
    <3>2. n - theirs[k] + 1 \in 1..n
      BY <3>1
    <3>3. QED BY <3>1, <3>2
  <2>2. /\ <<turnedIds[theirs[k]], ids[mine[k]]>> \notin Lower
        /\ <<ids[mine[k]], turnedIds[theirs[k]]>> \notin Lower
    BY <1>3, <1>5, <1>9, ReportOrders, SortsAlike
  <2>3. turnedIds[theirs[k]] \in Nat /\ ids[mine[k]] \in Nat
    BY <1>5, <1>10
  <2>4. turnedIds[theirs[k]] = ids[mine[k]]
    BY <2>2, <2>3, ReportOrders
  <2>5. cases[j].id = cases[mine[k]].id
    BY <1>8, <1>10, <2>1, <2>4
  <2>6. j = mine[k]
    BY <1>1, <1>10, <2>1, <2>5 DEF Identified
  <2>7. QED BY <1>2, <2>1, <2>6
<1>12. /\ CanonicalCases(turned) =
             [k \in 1..n |-> CanonicalCase(turned[theirs[k]])]
       /\ CanonicalCases(cases) =
             [k \in 1..n |-> CanonicalCase(cases[mine[k]])]
  BY <1>6, <1>7 DEF CanonicalCases, Placed
<1>13. QED BY <1>2, <1>11, <1>12

\* Cases that are shown are shown again as they are, when their texts have
\* nothing to redact.
LEMMA CasesSettle ==
    ASSUME NEW Outcome, NEW cases \in Seq(ReportCases(Outcome)),
           \A i \in DOMAIN cases : /\ Redact(cases[i].id) = cases[i].id
                                   /\ AreRedacted(cases[i].failures)
    PROVE  CanonicalCases(CanonicalCases(cases)) = CanonicalCases(cases)
<1>1. PICK n \in Nat : n = Len(cases) /\ DOMAIN cases = 1..n
  OBVIOUS
<1>2. PICK order : order = StableOrder(n, CasePairs(cases))
  OBVIOUS
<1>3. PICK ids : ids = IdAt(cases)
  OBVIOUS
<1>4. /\ Sorts(n, Lower, ids, order)
      /\ SortedCases(cases) = Placed(n, order, cases)
  BY <1>1, <1>2, <1>3, CasesSorted
<1>5. /\ order \in [1..n -> 1..n]
      /\ Rising(n, Lower, Placed(n, order, ids))
  BY <1>4 DEF Sorts
<1>6. PICK shown : shown = CanonicalCases(cases)
  OBVIOUS
<1>7. shown = [k \in 1..n |-> CanonicalCase(cases[order[k]])]
  BY <1>4, <1>6 DEF CanonicalCases, Placed
<1>8. ASSUME NEW k \in 1..n
      PROVE  /\ shown[k] \in ReportCases(Outcome)
             /\ shown[k].id = cases[order[k]].id
             /\ CanonicalCase(shown[k]) = shown[k]
  <2>1. order[k] \in 1..n
    BY <1>5
  <2>2. PICK case \in ReportCases(Outcome) : case = cases[order[k]]
    BY <1>1, <2>1
  <2>3. /\ Redact(case.id) = case.id
        /\ AreRedacted(case.failures)
        /\ case.failures \in Seq(ReportFailures) /\ case.id \in Nat
        /\ case.outcome \in Outcome
    BY <1>1, <2>1, <2>2, CaseIs DEF ReportCases
  <2>4. PICK redacted : redacted = RedactedFailures(case.failures)
    OBVIOUS
  <2>5. /\ redacted \in Seq(ReportFailures)
        /\ RedactedFailures(redacted) = redacted
    BY <2>3, <2>4, FailuresCanonical
  <2>6. shown[k] = [id |-> case.id, outcome |-> case.outcome,
                    failures |-> redacted]
    BY <1>7, <2>2, <2>3, <2>4 DEF CanonicalCase
  <2>7. CanonicalCase(shown[k]) = shown[k]
    BY <2>3, <2>5, <2>6 DEF CanonicalCase
  <2>8. shown[k] \in ReportCases(Outcome)
    BY <2>3, <2>5, <2>6 DEF ReportCases
  <2>9. QED BY <2>2, <2>6, <2>7, <2>8
<1>9. /\ shown \in Seq(ReportCases(Outcome))
      /\ Len(shown) = n /\ DOMAIN shown = 1..n
  <2>1. shown \in [1..n -> ReportCases(Outcome)]
    BY <1>7, <1>8
  <2>2. shown \in Seq(ReportCases(Outcome))
    BY <2>1, SeqDef
  <2>3. QED BY <2>1, <2>2
<1>10. PICK again : again = StableOrder(n, CasePairs(shown))
  OBVIOUS
<1>11. SortedCases(shown) = Placed(n, again, shown)
  BY <1>9, <1>10, CasesSorted
<1>12. \A k \in 1..n : again[k] = k
  <2>1. PICK shownIds, V, before :
           /\ shownIds = IdAt(shown) /\ V = Nat /\ before = CasePairs(shown)
    OBVIOUS
  <2>2. /\ shownIds \in [1..n -> V]
        /\ Compares(n, before, Lower, shownIds)
    BY <1>9, <2>1, CasesCompare
  <2>3. shownIds = Placed(n, order, ids)
    <3>1. shownIds = [k \in 1..n |-> shown[k].id]
      BY <1>9, <2>1 DEF IdAt
    <3>2. ids = [i \in 1..n |-> cases[i].id]
      BY <1>1, <1>3 DEF IdAt
    <3>3. \A k \in 1..n : shown[k].id = ids[order[k]]
      BY <1>5, <1>8, <3>2
    <3>4. QED BY <3>1, <3>3 DEF Placed
  <2>4. Rising(n, Lower, shownIds)
    BY <1>5, <2>3
  <2>5. WeakOrder(Lower, V)
    BY <2>1, ReportOrders
  <2>6. again = StableOrder(n, before)
    BY <1>10, <2>1
  <2>7. QED BY <2>2, <2>4, <2>5, <2>6, InOrderStays
<1>13. SortedCases(shown) = shown
  <2>1. shown = [k \in 1..n |-> shown[k]]
    BY <1>7
  <2>2. QED BY <1>11, <1>12, <2>1 DEF Placed
<1>14. CanonicalCases(shown) = [k \in 1..n |-> CanonicalCase(shown[k])]
  BY <1>9, <1>13 DEF CanonicalCases
<1>15. CanonicalCases(shown) = shown
  BY <1>7, <1>8, <1>14
<1>16. QED BY <1>6, <1>15

\* The console and the artifact show the same failed cases in the same order.
LEMMA FailedShownAlike ==
    ASSUME NEW Outcome, NEW cases \in Seq(ReportCases(Outcome))
    PROVE  LET sorted == SortedCases(cases)
               shown  == CanonicalCases(cases)
               mine   == ElementsAt(sorted, NotPassed(sorted))
               theirs == ElementsAt(shown, NotPassed(shown))
           IN  /\ DOMAIN mine = DOMAIN theirs
               /\ \A i \in DOMAIN theirs :
                     /\ mine[i] \in ReportCases(Outcome)
                     /\ theirs[i] = CanonicalCase(mine[i])
<1>1. PICK n \in Nat : n = Len(cases)
  OBVIOUS
<1>2. PICK sorted, shown :
         sorted = SortedCases(cases) /\ shown = CanonicalCases(cases)
  OBVIOUS
<1>3. /\ sorted \in [1..n -> ReportCases(Outcome)]
      /\ shown = [i \in 1..n |-> CanonicalCase(sorted[i])]
  <2>1. sorted \in [1..n -> ReportCases(Outcome)]
    BY <1>1, <1>2, CasesSorted
  <2>2. QED BY <1>2, <2>1 DEF CanonicalCases
<1>4. NotPassed(shown) = NotPassed(sorted)
  <2>1. \A i \in 1..n : shown[i].outcome = sorted[i].outcome
    BY <1>3 DEF CanonicalCase
  <2>2. DOMAIN shown = 1..n /\ DOMAIN sorted = 1..n
    BY <1>3
  <2>3. QED BY <2>1, <2>2 DEF NotPassed
<1>5. PICK positions : positions = NotPassed(sorted)
  OBVIOUS
<1>6. positions \in SUBSET (1..n)
  BY <1>3, <1>5 DEF NotPassed
<1>7. positions \in SUBSET Nat /\ IsFiniteSet(positions)
  <2>1. IsFiniteSet(1..n)
    BY IntervalSize
  <2>2. positions \in SUBSET Nat
    BY <1>6
  <2>3. IsFiniteSet(positions)
    BY <1>6, <2>1, FS_Subset
  <2>4. QED BY <2>2, <2>3
<1>8. PICK mine, theirs : /\ mine = ElementsAt(sorted, positions)
                          /\ theirs = ElementsAt(shown, positions)
  OBVIOUS
<1>9. /\ DOMAIN mine = 1..Cardinality(positions)
      /\ DOMAIN theirs = 1..Cardinality(positions)
      /\ \A i \in 1..Cardinality(positions) :
            /\ Ascending(positions)[i] \in positions
            /\ mine[i] = sorted[Ascending(positions)[i]]
            /\ theirs[i] = shown[Ascending(positions)[i]]
  BY <1>7, <1>8, ElementsAtSelects
<1>10. ASSUME NEW i \in 1..Cardinality(positions)
       PROVE  /\ mine[i] \in ReportCases(Outcome)
              /\ theirs[i] = CanonicalCase(mine[i])
  <2>1. PICK p \in 1..n : p = Ascending(positions)[i]
    BY <1>6, <1>9
  <2>2. mine[i] = sorted[p] /\ theirs[i] = shown[p]
    BY <1>9, <2>1
  <2>3. QED BY <1>3, <2>2
<1>11. QED BY <1>2, <1>4, <1>5, <1>8, <1>9, <1>10

\* The artifact and the console's lines are functions of what the report holds
\* and not of the order in which it came to hold it (reporters.ts:60): for any
\* report of cases with ids of their own, and whatever redaction makes of its
\* texts, turning its arrays round changes nothing, a redacted report's artifact
\* is its own artifact, and the console and the artifact show the same cases.
THEOREM ReportIsCanonical ==
    ASSUME NEW Outcome, NEW Summary,
           Asks("report") =>
              /\ input \in [outcome: Outcome, summary: Summary,
                            cases: Seq(ReportCases(Outcome)),
                            failures: Seq(ReportFailures)]
              /\ Identified(input.cases)
    PROVE  ArtifactCanonical
<1>1. SUFFICES ASSUME Asks("report") PROVE ArtifactCanonical
  BY DEF ArtifactCanonical
<1>2. PICK report \in [outcome: Outcome, summary: Summary,
                       cases: Seq(ReportCases(Outcome)),
                       failures: Seq(ReportFailures)] :
         report = input
  BY <1>1
<1>3. PICK cases \in Seq(ReportCases(Outcome)), failures \in Seq(ReportFailures) :
         /\ cases = report.cases /\ failures = report.failures
         /\ Identified(cases)
  BY <1>1, <1>2
<1>4. PICK artifact : artifact = Canonicalize(report)
  OBVIOUS
<1>5. PICK shown, redacted : /\ shown = CanonicalCases(cases)
                             /\ redacted = RedactedFailures(failures)
  OBVIOUS
<1>6. \A r : Canonicalize(r) =
                [outcome |-> r.outcome, summary |-> r.summary,
                 cases |-> CanonicalCases(r.cases),
                 failures |-> RedactedFailures(r.failures)]
  BY DEF Canonicalize, CanonicalCases, CanonicalCase
<1>7. artifact = [outcome |-> report.outcome, summary |-> report.summary,
                  cases |-> shown, failures |-> redacted]
  BY <1>3, <1>4, <1>5, <1>6
<1>8. artifact = Canonicalize(Turned(report))
  <2>1. Turned(report) = [outcome |-> report.outcome,
                          summary |-> report.summary,
                          cases |-> TurnedCases(cases),
                          failures |-> Reverse(failures)]
    <3>1. Turned(report) =
             [report EXCEPT !.cases = TurnedCases(report.cases),
                            !.failures = Reverse(@)]
      BY Zenon DEF Turned, TurnedCases
    <3>2. PICK turnedCases, turnedFailures :
             /\ turnedCases = TurnedCases(report.cases)
             /\ turnedFailures = Reverse(report.failures)
      OBVIOUS
    <3>3. Turned(report) = [report EXCEPT !.cases = turnedCases,
                                          !.failures = turnedFailures]
      BY <3>1, <3>2
    <3>4. Turned(report) = [outcome |-> report.outcome,
                            summary |-> report.summary,
                            cases |-> turnedCases,
                            failures |-> turnedFailures]
      BY <3>3
    <3>5. QED BY <1>3, <3>2, <3>4
  <2>2. CanonicalCases(TurnedCases(cases)) = shown
    BY <1>3, <1>5, CasesTurned
  <2>3. RedactedFailures(Reverse(failures)) = redacted
    BY <1>5, FailuresCanonical
  <2>4. PICK turned : turned = Turned(report)
    OBVIOUS
  <2>5. /\ turned.outcome = report.outcome /\ turned.summary = report.summary
        /\ turned.cases = TurnedCases(cases)
        /\ turned.failures = Reverse(failures)
    BY <2>1, <2>4
  <2>6. QED BY <1>6, <1>7, <2>2, <2>3, <2>4, <2>5
<1>9. ASSUME IsRedacted(report) PROVE Canonicalize(artifact) = artifact
  <2>1. /\ \A i \in DOMAIN cases : /\ Redact(cases[i].id) = cases[i].id
                                   /\ AreRedacted(cases[i].failures)
        /\ AreRedacted(failures)
    BY <1>3, <1>9 DEF IsRedacted
  <2>2. CanonicalCases(shown) = shown
    BY <1>5, <2>1, CasesSettle
  <2>3. RedactedFailures(redacted) = redacted
    BY <1>5, <2>1, FailuresCanonical
  <2>4. /\ artifact.outcome = report.outcome
        /\ artifact.summary = report.summary
        /\ artifact.cases = shown /\ artifact.failures = redacted
    BY <1>7
  <2>5. QED BY <1>6, <1>7, <2>2, <2>3, <2>4
<1>10. PICK console : console = ConsoleLines(report)
  OBVIOUS
<1>11. PICK failed, mine :
          /\ failed = ElementsAt(shown, NotPassed(shown))
          /\ mine = ElementsAt(SortedCases(cases),
                               NotPassed(SortedCases(cases)))
  OBVIOUS
<1>12. /\ DOMAIN mine = DOMAIN failed
       /\ \A i \in DOMAIN failed : /\ mine[i] \in ReportCases(Outcome)
                                   /\ failed[i] = CanonicalCase(mine[i])
  BY <1>5, <1>11, FailedShownAlike
<1>13. /\ console.failures = redacted
       /\ console.cases =
             [i \in DOMAIN mine |->
                 [id |-> Redact(mine[i].id),
                  failures |-> [j \in DOMAIN mine[i].failures |->
                      Failure(mine[i].failures[j].category,
                              Redact(mine[i].failures[j].message))]]]
  BY <1>3, <1>5, <1>10, <1>11 DEF ConsoleLines
<1>14. DOMAIN console.cases = DOMAIN failed
  BY <1>12, <1>13
<1>15. ASSUME NEW i \in DOMAIN failed
       PROVE  /\ console.cases[i].id = failed[i].id
              /\ ToSet(console.cases[i].failures) = ToSet(failed[i].failures)
  <2>1. PICK case \in ReportCases(Outcome) : case = mine[i]
    BY <1>12
  <2>2. failed[i] = CanonicalCase(case)
    BY <1>12, <2>1
  <2>3. /\ failed[i].id = Redact(case.id)
        /\ failed[i].failures = RedactedFailures(case.failures)
    BY <2>2 DEF CanonicalCase
  <2>4. PICK list \in Seq(ReportFailures) : list = case.failures
    BY CaseIs
  <2>5. PICK lines : lines = [j \in DOMAIN list |->
                                 Failure(list[j].category,
                                         Redact(list[j].message))]
    OBVIOUS
  <2>6. console.cases[i] = [id |-> Redact(case.id), failures |-> lines]
    BY <1>12, <1>13, <2>1, <2>4, <2>5
  <2>7. ToSet(lines) = ToSet(RedactedFailures(list))
    BY <2>5, FailuresGathered
  <2>8. QED BY <2>3, <2>4, <2>6, <2>7
<1>16. artifact.cases = shown /\ artifact.failures = redacted
  BY <1>7
<1>17. QED BY <1>2, <1>4, <1>8, <1>9, <1>10, <1>11, <1>13, <1>14, <1>15,
              <1>16 DEF ArtifactCanonical

-----------------------------------------------------------------------------
(* authoring-expectations.ts, isDeepSubset: containment, at any depth.     *)

\* A JSON value: a path is there with every path above it, only arrays and
\* records have keys, those of an array are its indices, and however deep it
\* goes it ends.
JsonValue(value) ==
    /\ DOMAIN value \in SUBSET Seq(Nat)
    /\ <<>> \in DOMAIN value
    /\ \A path \in DOMAIN value : \A i \in 0..Len(path) :
          SubSeq(path, 1, i) \in DOMAIN value
    /\ \A path \in DOMAIN value :
          /\ Keys(value, path) # {} => value[path] \in {"array", "record"}
          /\ value[path] = "array" =>
                \E n \in Nat : Keys(value, path) = 0..(n - 1)
    /\ \E depth \in Nat : \A path \in DOMAIN value : Len(path) <= depth

LEMMA PrefixIs ==
    ASSUME NEW path \in Seq(Nat), NEW below \in Seq(Nat)
    PROVE  IsPrefix(path, below) <=>
              /\ Len(path) <= Len(below)
              /\ \A i \in 1..Len(path) : path[i] = below[i]
<1>1. /\ Len(path) \in Nat /\ Len(below) \in Nat
      /\ \A i \in 1..Len(path) : i \in Nat
  OBVIOUS
<1>2. ASSUME Len(path) <= Len(below)
      PROVE  SubSeq(path, 1, Len(path)) = SubSeq(below, 1, Len(path)) <=>
                \A i \in 1..Len(path) : path[i] = below[i]
  <2> DEFINE mine  == SubSeq(path, 1, Len(path))
             its == SubSeq(below, 1, Len(path))
  <2>1. /\ mine = [i \in 1..Len(path) |-> path[i]]
        /\ its = [i \in 1..Len(path) |-> below[i]]
    BY <1>1, <1>2
  <2>2. \A i \in 1..Len(path) : mine[i] = path[i] /\ its[i] = below[i]
    BY <2>1
  <2>3. QED BY <2>1, <2>2
<1>3. QED BY <1>2 DEF IsPrefix

LEMMA PrefixOfItself ==
    ASSUME NEW path \in Seq(Nat)
    PROVE  IsPrefix(path, path) /\ IsPrefix(<<>>, path)
<1>1. IsPrefix(path, path)
  BY PrefixIs
<1>2. PICK empty \in Seq(Nat) : empty = <<>>
  <2>1. <<>> \in Seq(Nat)
    OBVIOUS
  <2>2. QED BY <2>1
<1>3. Len(empty) = 0 /\ Len(path) \in Nat
  BY <1>2
<1>4. IsPrefix(empty, path)
  <2>1. /\ Len(empty) <= Len(path)
        /\ \A i \in 1..Len(empty) : empty[i] = path[i]
    BY <1>3
  <2>2. QED BY <2>1, PrefixIs
<1>5. QED BY <1>1, <1>2, <1>4

LEMMA PrefixOfChild ==
    ASSUME NEW path \in Seq(Nat), NEW key \in Nat, NEW below \in Seq(Nat),
           IsPrefix(Append(path, key), below)
    PROVE  IsPrefix(path, below)
<1>1. /\ Len(path) \in Nat /\ Len(below) \in Nat
      /\ Append(path, key) \in Seq(Nat)
      /\ Len(Append(path, key)) = Len(path) + 1
      /\ \A i \in 1..Len(path) : /\ Append(path, key)[i] = path[i]
                                 /\ i \in 1..(Len(path) + 1)
  OBVIOUS
<1>2. /\ Len(Append(path, key)) <= Len(below)
      /\ \A i \in 1..Len(Append(path, key)) : Append(path, key)[i] = below[i]
  BY <1>1, PrefixIs
<1>3. /\ Len(path) <= Len(below)
      /\ \A i \in 1..Len(path) : path[i] = below[i]
  BY <1>1, <1>2
<1>4. QED BY <1>3, PrefixIs

LEMMA PrefixOfItsChild ==
    ASSUME NEW path \in Seq(Nat), NEW key \in Nat
    PROVE  IsPrefix(path, Append(path, key))
<1>1. Append(path, key) \in Seq(Nat)
  OBVIOUS
<1>2. IsPrefix(Append(path, key), Append(path, key))
  BY <1>1, PrefixOfItself
<1>3. QED BY <1>1, <1>2, PrefixOfChild

LEMMA KeyIs ==
    ASSUME NEW value, DOMAIN value \in SUBSET Seq(Nat),
           NEW path \in Seq(Nat), NEW key
    PROVE  key \in Keys(value, path) <=>
              key \in Nat /\ Append(path, key) \in DOMAIN value
<1>1. Len(path) \in Nat
  OBVIOUS
<1>2. ASSUME NEW below \in DOMAIN value, Len(below) = Len(path) + 1,
             IsPrefix(path, below)
      PROVE  Last(below) \in Nat /\ below = Append(path, Last(below))
  <2>1. below \in Seq(Nat) /\ Len(below) \in 1..Len(below)
    BY <1>1, <1>2
  <2>2. below[Len(below)] \in Nat
    BY <2>1
  <2>3. Last(below) \in Nat
    BY <2>2 DEF Last
  <2>4. \A i \in 1..Len(path) : path[i] = below[i]
    BY <1>2, <2>1, PrefixIs
  <2>5. \A i \in 1..Len(below) : below[i] = Append(path, Last(below))[i]
    BY <1>1, <1>2, <2>1, <2>3, <2>4 DEF Last
  <2>6. /\ Append(path, Last(below)) \in Seq(Nat)
        /\ Len(Append(path, Last(below))) = Len(below)
    BY <1>2, <2>3
  <2>7. QED BY <2>1, <2>3, <2>5, <2>6, SeqEqual
<1>3. ASSUME key \in Nat
      PROVE  /\ Append(path, key) \in Seq(Nat)
             /\ Len(Append(path, key)) = Len(path) + 1
             /\ IsPrefix(path, Append(path, key))
             /\ Last(Append(path, key)) = key
  <2>1. /\ Append(path, key) \in Seq(Nat)
        /\ Len(Append(path, key)) = Len(path) + 1
        /\ \A i \in 1..Len(path) : path[i] = Append(path, key)[i]
        /\ Append(path, key)[Len(path) + 1] = key
    BY <1>1, <1>3
  <2>2. IsPrefix(path, Append(path, key))
    BY <1>3, PrefixOfItsChild
  <2>3. Last(Append(path, key)) = key
    BY <2>1, Zenon DEF Last
  <2>4. QED BY <2>1, <2>2, <2>3
<1>4. ASSUME key \in Keys(value, path)
      PROVE  key \in Nat /\ Append(path, key) \in DOMAIN value
  <2>1. PICK below \in DOMAIN value : /\ Len(below) = Len(path) + 1
                                      /\ IsPrefix(path, below)
                                      /\ key = Last(below)
    BY <1>4 DEF Keys
  <2>2. QED BY <1>2, <2>1
<1>5. ASSUME key \in Nat, Append(path, key) \in DOMAIN value
      PROVE  key \in Keys(value, path)
  BY <1>3, <1>5 DEF Keys
<1>6. QED BY Zenon, <1>4, <1>5

\* What is below a path is there or below one of its keys.
LEMMA BelowAKey ==
    ASSUME NEW value, JsonValue(value), NEW path \in Seq(Nat),
           NEW below \in DOMAIN value, IsPrefix(path, below), below # path
    PROVE  \E key \in Keys(value, path) : IsPrefix(Append(path, key), below)
<1>1. below \in Seq(Nat) /\ DOMAIN value \in SUBSET Seq(Nat)
  BY DEF JsonValue
<1>2. /\ Len(path) \in Nat /\ Len(below) \in Nat
      /\ Len(path) <= Len(below)
      /\ \A i \in 1..Len(path) : path[i] = below[i]
  BY <1>1, PrefixIs
<1>3. Len(path) < Len(below)
  <2>1. Len(path) # Len(below)
    BY <1>1, <1>2, SeqEqual
  <2>2. QED BY <1>2, <2>1
<1> DEFINE key == below[Len(path) + 1]
           next == SubSeq(below, 1, Len(path) + 1)
<1>4. Len(path) + 1 \in 1..Len(below) /\ Len(path) + 1 \in 0..Len(below)
  BY <1>2, <1>3
<1>5. key \in Nat
  BY <1>1, <1>4
<1>6. /\ Append(path, key) \in Seq(Nat)
      /\ Len(Append(path, key)) = Len(path) + 1
      /\ \A i \in 1..(Len(path) + 1) : Append(path, key)[i] = below[i]
  <2> HIDE DEF key
  <2>1. /\ Append(path, key) \in Seq(Nat)
        /\ Len(Append(path, key)) = Len(path) + 1
        /\ \A i \in 1..Len(path) : Append(path, key)[i] = path[i]
        /\ Append(path, key)[Len(path) + 1] = key
    BY <1>2, <1>5
  <2>2. \A i \in 1..(Len(path) + 1) : i \in 1..Len(path) \/ i = Len(path) + 1
    BY <1>2
  <2>3. QED BY <1>2, <2>1, <2>2 DEF key
<1>7. next \in DOMAIN value
  BY <1>4 DEF JsonValue
<1>8. Append(path, key) = next
  <2>1. next = [i \in 1..(Len(path) + 1) |-> below[i]]
    BY <1>1, <1>2, <1>4
  <2>2. next \in Seq(Nat) /\ Len(next) = Len(path) + 1
    BY <1>1, <1>2, <1>4
  <2>3. \A i \in 1..Len(next) : next[i] = below[i]
    BY <2>1, <2>2
  <2> HIDE DEF next, key
  <2>4. \A i \in 1..Len(next) : Append(path, key)[i] = next[i]
    BY <1>6, <2>2, <2>3
  <2>5. QED BY <1>6, <2>2, <2>4, SeqEqual
<1> HIDE DEF next, key
<1>9. key \in Keys(value, path)
  BY <1>1, <1>5, <1>7, <1>8, KeyIs
<1>10. IsPrefix(Append(path, key), below)
  <2>1. Len(Append(path, key)) <= Len(below)
    BY <1>4, <1>6
  <2>2. \A i \in 1..Len(Append(path, key)) : Append(path, key)[i] = below[i]
    BY <1>6
  <2>3. QED BY <1>1, <1>6, <2>1, <2>2, PrefixIs
<1>11. QED BY <1>9, <1>10

\* Everything that one has at a path and below it the other has too.
Within(actual, expected, path) ==
    \A below \in DOMAIN expected :
        IsPrefix(path, below) =>
            /\ below \in DOMAIN actual
            /\ actual[below] = expected[below]

Shared(actual, expected) == DOMAIN actual \cap DOMAIN expected

\* What isDeepSubset says at a path, if these are the shared paths where it
\* says TRUE.
SubsetAt(actual, expected, good, path) ==
    \/ IsDeepStrictEqual(actual, expected, path)
    \/ /\ expected[path] = "array"
       /\ actual[path] = "array"
       /\ LongEnough(actual, expected, path)
       /\ \A index \in Keys(expected, path) : Append(path, index) \in good
    \/ /\ expected[path] = "record"
       /\ actual[path] = "record"
       /\ \A key \in Keys(expected, path) :
             /\ key \in Keys(actual, path)
             /\ Append(path, key) \in good

\* The items of an array that is not longer are items of the other, too.
LEMMA ItemsShared ==
    ASSUME NEW actual, JsonValue(actual), NEW expected, JsonValue(expected),
           NEW path \in Shared(actual, expected),
           actual[path] = "array", expected[path] = "array"
    PROVE  LongEnough(actual, expected, path) <=>
              Keys(expected, path) \subseteq Keys(actual, path)
<1>1. PICK n \in Nat : Keys(actual, path) = 0..(n - 1)
  BY DEF JsonValue, Shared
<1>2. PICK m \in Nat : Keys(expected, path) = 0..(m - 1)
  BY DEF JsonValue, Shared
<1>3. Cardinality(0..(n - 1)) = n /\ Cardinality(0..(m - 1)) = m
  <2>1. 0 \in Int /\ n - 1 \in Int /\ m - 1 \in Int
    OBVIOUS
  <2>2. /\ Cardinality(0..(n - 1)) = IF 0 > n - 1 THEN 0 ELSE (n - 1) - 0 + 1
        /\ Cardinality(0..(m - 1)) = IF 0 > m - 1 THEN 0 ELSE (m - 1) - 0 + 1
    BY <2>1, FS_Interval
  <2>3. QED BY <2>2
<1>4. LongEnough(actual, expected, path) <=> m <= n
  BY <1>1, <1>2, <1>3 DEF LongEnough
<1>5. m <= n <=> 0..(m - 1) \subseteq 0..(n - 1)
  <2>1. CASE m <= n
    BY <2>1
  <2>2. CASE ~(m <= n)
    <3>1. n \in 0..(m - 1) /\ n \notin 0..(n - 1)
      BY <2>2
    <3>2. QED BY <2>2, <3>1
  <2>3. QED BY <2>1, <2>2
<1>6. QED BY <1>1, <1>2, <1>4, <1>5

\* One level of the comparison: if below a path it says of the shared paths
\* what is so, then it does at the path.
LEMMA SubsetAtDecides ==
    ASSUME NEW actual, JsonValue(actual), NEW expected, JsonValue(expected),
           NEW path \in Shared(actual, expected), NEW good,
           \A key \in Keys(actual, path) \cap Keys(expected, path) :
              Append(path, key) \in good <=>
                 Within(actual, expected, Append(path, key))
    PROVE  SubsetAt(actual, expected, good, path) <=>
              Within(actual, expected, path)
<1>1. /\ path \in DOMAIN actual /\ path \in DOMAIN expected
      /\ DOMAIN actual \in SUBSET Seq(Nat)
      /\ DOMAIN expected \in SUBSET Seq(Nat)
      /\ path \in Seq(Nat)
  BY DEF JsonValue, Shared
<1>2. \A key \in Keys(expected, path) :
         /\ key \in Nat /\ Append(path, key) \in DOMAIN expected
         /\ Append(path, key) \in Seq(Nat)
  BY <1>1, KeyIs
<1>3. IsPrefix(path, path)
  BY <1>1, PrefixOfItself
\* From the path to its keys.
<1>4. ASSUME Within(actual, expected, path), NEW key \in Keys(expected, path)
      PROVE  /\ key \in Keys(actual, path)
             /\ Append(path, key) \in good
  <2>1. Within(actual, expected, Append(path, key))
    <3>1. ASSUME NEW below \in DOMAIN expected,
                 IsPrefix(Append(path, key), below)
          PROVE  below \in DOMAIN actual /\ actual[below] = expected[below]
      <4>1. IsPrefix(path, below)
        BY <1>1, <1>2, <3>1, PrefixOfChild
      <4>2. QED BY <1>4, <4>1 DEF Within
    <3>2. QED BY <3>1 DEF Within
  <2>2. Append(path, key) \in DOMAIN actual
    <3>1. IsPrefix(path, Append(path, key))
      BY <1>1, <1>2, PrefixOfItsChild
    <3>2. QED BY <1>2, <1>4, <3>1 DEF Within
  <2>3. key \in Keys(actual, path)
    BY <1>1, <1>2, <2>2, KeyIs
  <2>4. QED BY <2>1, <2>3
\* From the keys to the path.
<1>5. ASSUME actual[path] = expected[path],
             \A key \in Keys(expected, path) :
                key \in Keys(actual, path) /\ Append(path, key) \in good
      PROVE  Within(actual, expected, path)
  <2>1. ASSUME NEW below \in DOMAIN expected, IsPrefix(path, below)
        PROVE  below \in DOMAIN actual /\ actual[below] = expected[below]
    <3>1. CASE below = path
      BY <1>1, <1>5, <3>1
    <3>2. CASE below # path
      <4>1. PICK key \in Keys(expected, path) :
                    IsPrefix(Append(path, key), below)
        BY <1>1, <2>1, <3>2, BelowAKey
      <4>2. Within(actual, expected, Append(path, key))
        BY <1>5, <4>1
      <4>3. QED BY <2>1, <4>1, <4>2 DEF Within
    <3>3. QED BY <3>1, <3>2
  <2>2. QED BY <2>1 DEF Within
<1>6. ASSUME SubsetAt(actual, expected, good, path)
      PROVE  Within(actual, expected, path)
  <2>1. CASE IsDeepStrictEqual(actual, expected, path)
    BY <2>1 DEF IsDeepStrictEqual, Within
  <2>2. CASE /\ expected[path] = "array"
             /\ actual[path] = "array"
             /\ LongEnough(actual, expected, path)
             /\ \A index \in Keys(expected, path) : Append(path, index) \in good
    <3>1. Keys(expected, path) \subseteq Keys(actual, path)
      BY <2>2, ItemsShared
    <3>2. QED BY <1>5, <2>2, <3>1
  <2>3. CASE /\ expected[path] = "record"
             /\ actual[path] = "record"
             /\ \A key \in Keys(expected, path) :
                   /\ key \in Keys(actual, path)
                   /\ Append(path, key) \in good
    BY <1>5, <2>3
  <2>4. QED BY <1>6, <2>1, <2>2, <2>3 DEF SubsetAt
<1>7. ASSUME Within(actual, expected, path)
      PROVE  SubsetAt(actual, expected, good, path)
  <2>1. actual[path] = expected[path]
    BY <1>1, <1>3, <1>7 DEF Within
  <2>2. CASE expected[path] = "array"
    <3>1. Keys(expected, path) \subseteq Keys(actual, path)
      BY <1>4, <1>7
    <3>2. LongEnough(actual, expected, path)
      BY <2>1, <2>2, <3>1, ItemsShared
    <3>3. QED BY <1>4, <1>7, <2>1, <2>2, <3>2 DEF SubsetAt
  <2>3. CASE expected[path] = "record"
    BY <1>4, <1>7, <2>1, <2>3 DEF SubsetAt
  <2>4. CASE expected[path] \notin {"array", "record"}
    <3>1. Keys(expected, path) = {} /\ Keys(actual, path) = {}
      BY <1>1, <2>1, <2>4 DEF JsonValue
    <3>2. ASSUME NEW below \in DOMAIN actual \cup DOMAIN expected,
                 IsPrefix(path, below)
          PROVE  below = path
      <4>1. CASE below \in DOMAIN actual
        BY <1>1, <3>1, <3>2, <4>1, BelowAKey
      <4>2. CASE below \in DOMAIN expected
        BY <1>1, <3>1, <3>2, <4>2, BelowAKey
      <4>3. QED BY <3>2, <4>1, <4>2
    <3>3. IsDeepStrictEqual(actual, expected, path)
      BY <1>1, <2>1, <3>2 DEF IsDeepStrictEqual
    <3>4. QED BY <3>3 DEF SubsetAt
  <2>5. QED BY <2>2, <2>3, <2>4
<1>8. QED BY <1>6, <1>7

\* The same, of a function that says it.
SubsetBy(f, actual, expected, path) ==
    \/ IsDeepStrictEqual(actual, expected, path)
    \/ /\ expected[path] = "array"
       /\ actual[path] = "array"
       /\ LongEnough(actual, expected, path)
       /\ \A index \in Keys(expected, path) : f[Append(path, index)]
    \/ /\ expected[path] = "record"
       /\ actual[path] = "record"
       /\ \A key \in Keys(expected, path) :
             /\ key \in Keys(actual, path)
             /\ f[Append(path, key)]

Decides(f, actual, expected) ==
    f = [path \in Shared(actual, expected) |->
            SubsetBy(f, actual, expected, path)]

LEMMA SubsetByDecides ==
    ASSUME NEW actual, JsonValue(actual), NEW expected, JsonValue(expected),
           NEW path \in Shared(actual, expected), NEW f,
           \A key \in Keys(actual, path) \cap Keys(expected, path) :
              f[Append(path, key)] <=>
                 Within(actual, expected, Append(path, key))
    PROVE  SubsetBy(f, actual, expected, path) <=>
              Within(actual, expected, path)
<1> DEFINE good == {p \in Shared(actual, expected) : f[p]}
<1>1. /\ path \in DOMAIN actual /\ path \in DOMAIN expected
      /\ DOMAIN actual \in SUBSET Seq(Nat)
      /\ DOMAIN expected \in SUBSET Seq(Nat)
      /\ path \in Seq(Nat)
  BY DEF JsonValue, Shared
<1>2. ASSUME NEW key \in Keys(actual, path) \cap Keys(expected, path)
      PROVE  /\ Append(path, key) \in good <=> f[Append(path, key)]
             /\ Append(path, key) \in good <=>
                   Within(actual, expected, Append(path, key))
  <2>1. Append(path, key) \in Shared(actual, expected)
    BY <1>1, KeyIs DEF Shared
  <2>2. Append(path, key) \in good <=> f[Append(path, key)]
    BY <2>1, Zenon
  <2>3. f[Append(path, key)] <=> Within(actual, expected, Append(path, key))
    BY Zenon
  <2>4. QED BY <2>2, <2>3, Zenon
<1> HIDE DEF good
<1>3. SubsetAt(actual, expected, good, path) <=> Within(actual, expected, path)
  BY <1>2, SubsetAtDecides
<1>4. ASSUME expected[path] = "array", actual[path] = "array",
             LongEnough(actual, expected, path)
      PROVE  Keys(expected, path) \subseteq Keys(actual, path)
  BY <1>4, ItemsShared
<1>5. SubsetBy(f, actual, expected, path) <=>
         SubsetAt(actual, expected, good, path)
  BY <1>2, <1>4, Zenon DEF SubsetBy, SubsetAt
<1>6. QED BY <1>3, <1>5, Zenon

LEMMA DecidesExists ==
    ASSUME NEW actual, JsonValue(actual), NEW expected, JsonValue(expected)
    PROVE  \E f : Decides(f, actual, expected)
<1> DEFINE f == [path \in Shared(actual, expected) |->
                    Within(actual, expected, path)]
<1>1. ASSUME NEW path \in Shared(actual, expected)
      PROVE  SubsetBy(f, actual, expected, path) =
                Within(actual, expected, path)
  <2>1. /\ path \in Seq(Nat)
        /\ DOMAIN actual \in SUBSET Seq(Nat)
        /\ DOMAIN expected \in SUBSET Seq(Nat)
    BY DEF JsonValue, Shared
  <2>2. ASSUME NEW key \in Keys(actual, path) \cap Keys(expected, path)
        PROVE  f[Append(path, key)] <=>
                  Within(actual, expected, Append(path, key))
    <3>1. Append(path, key) \in Shared(actual, expected)
      BY <2>1, KeyIs DEF Shared
    <3>2. QED BY <3>1, Zenon
  <2> HIDE DEF f
  <2>3. SubsetBy(f, actual, expected, path) <=> Within(actual, expected, path)
    BY <2>2, SubsetByDecides
  <2>4. /\ SubsetBy(f, actual, expected, path) \in BOOLEAN
        /\ Within(actual, expected, path) \in BOOLEAN
    BY Zenon DEF SubsetBy, Within
  <2>5. QED BY <2>3, <2>4, SMT
<1>2. f = [path \in Shared(actual, expected) |->
              SubsetBy(f, actual, expected, path)]
  BY <1>1, Zenon
<1>3. QED BY <1>2, Zenon DEF Decides

\* However deep the values are, the function says what is so.
LEMMA DecidesWithin ==
    ASSUME NEW actual, JsonValue(actual), NEW expected, JsonValue(expected),
           NEW f, Decides(f, actual, expected),
           NEW path \in Shared(actual, expected)
    PROVE  f[path] <=> Within(actual, expected, path)
<1> DEFINE shared == Shared(actual, expected)
           Right(p) == f[p] <=> Within(actual, expected, p)
<1>1. PICK depth \in Nat : \A p \in shared : Len(p) <= depth
  BY DEF JsonValue, Shared
<1>2. /\ \A p \in shared : p \in Seq(Nat) /\ Len(p) \in Nat
      /\ DOMAIN actual \in SUBSET Seq(Nat)
      /\ DOMAIN expected \in SUBSET Seq(Nat)
  BY DEF JsonValue, Shared
<1> DEFINE levels == {k \in 1..(depth + 1) :
                         \E p \in shared : /\ k + Len(p) = depth + 1
                                           /\ ~Right(p)}
<1>3. SUFFICES ASSUME ~Right(path) PROVE FALSE
  BY Zenon
<1>4. levels \in SUBSET (1..(depth + 1)) /\ levels # {}
  <2>1. /\ depth + 1 - Len(path) \in 1..(depth + 1)
        /\ depth + 1 - Len(path) + Len(path) = depth + 1
    BY <1>1, <1>2
  <2>2. depth + 1 - Len(path) \in levels
    BY <1>3, <2>1, Zenon
  <2>3. QED BY <2>2
<1>5. PICK least \in levels : \A k \in levels : least <= k
  <2> HIDE DEF levels
  <2>1. depth + 1 \in Nat
    BY <1>1
  <2>2. QED BY <1>4, <2>1, LeastOf
<1>6. PICK p \in shared : least + Len(p) = depth + 1 /\ ~Right(p)
  BY Zenon
<1>7. least \in 1..(depth + 1)
  BY Zenon
<1>8. ASSUME NEW key \in Keys(actual, p) \cap Keys(expected, p)
      PROVE  Right(Append(p, key))
  <2>1. Append(p, key) \in shared /\ key \in Nat
    BY <1>2, KeyIs DEF Shared
  <2>2. Len(Append(p, key)) = Len(p) + 1
    BY <1>2, <2>1
  <2>3. /\ least - 1 \in 1..(depth + 1)
        /\ least - 1 + Len(Append(p, key)) = depth + 1
        /\ ~(least <= least - 1)
    <3>1. Len(p) \in Nat /\ Len(p) + 1 <= depth
      BY <1>1, <1>2, <2>1, <2>2
    <3> HIDE DEF levels
    <3>2. least \in Int /\ least + Len(p) = depth + 1
      BY <1>6, <1>7
    <3>3. QED BY <1>1, <2>2, <3>1, <3>2
  <2>4. least - 1 \notin levels
    BY <1>5, <2>3, Zenon
  <2>5. QED BY <2>1, <2>3, <2>4, Zenon
<1>9. SubsetBy(f, actual, expected, p) <=> Within(actual, expected, p)
  <2>1. \A key \in Keys(actual, p) \cap Keys(expected, p) :
           f[Append(p, key)] <=> Within(actual, expected, Append(p, key))
    BY <1>8, Zenon
  <2>2. QED BY <1>6, <2>1, SubsetByDecides
<1>10. f[p] = SubsetBy(f, actual, expected, p)
  BY <1>6, Zenon DEF Decides
<1>11. QED BY <1>6, <1>9, <1>10, Zenon

\* A body contains a subset exactly when each path of the subset leads to the
\* same thing in it, for JSON values of any depth and size.
THEOREM SubsetsAreDecided ==
    ASSUME Asks("body") => JsonValue(input.actual) /\ JsonValue(input.expected)
    PROVE  ContainsEveryPath
<1>1. SUFFICES ASSUME NEW actual, actual = input.actual, JsonValue(actual),
                      NEW expected, expected = input.expected,
                      JsonValue(expected)
               PROVE  IsDeepSubset(actual, expected) <=>
                         \A path \in DOMAIN expected :
                            /\ path \in DOMAIN actual
                            /\ actual[path] = expected[path]
  BY Zenon DEF ContainsEveryPath
<1>2. /\ <<>> \in Shared(actual, expected)
      /\ \A path \in DOMAIN expected : IsPrefix(<<>>, path)
  BY <1>1, PrefixOfItself DEF JsonValue, Shared
<1> DEFINE subset == CHOOSE f : Decides(f, actual, expected)
<1>3. IsDeepSubset(actual, expected) = subset[<<>>]
  BY Zenon DEF IsDeepSubset, Decides, SubsetBy, Shared
<1>4. Decides(subset, actual, expected)
  BY <1>1, DecidesExists, Zenon
<1> HIDE DEF subset
<1>5. subset[<<>>] <=> Within(actual, expected, <<>>)
  BY <1>1, <1>2, <1>4, DecidesWithin
<1>6. Within(actual, expected, <<>>) <=>
         \A path \in DOMAIN expected : /\ path \in DOMAIN actual
                                       /\ actual[path] = expected[path]
  BY <1>2, Zenon DEF Within
<1>7. QED BY <1>3, <1>5, <1>6, Zenon

-----------------------------------------------------------------------------
(* redaction.ts: values of any depth, by induction and recursion over them. *)

GrowsTo(f, n) ==
    f = [depth \in 0..n |-> IF depth = 0 THEN Leaves
                            ELSE f[depth - 1] \cup Branches(f[depth - 1])]

LEMMA TreesGrow ==
    ASSUME NEW n \in Nat
    PROVE  \E f : GrowsTo(f, n)
<1> DEFINE without == {k \in 1..n : ~\E f : GrowsTo(f, k)}
<1>1. \E f : GrowsTo(f, 0)
  <2>1. GrowsTo([depth \in 0..0 |-> Leaves], 0)
    BY DEF GrowsTo
  <2>2. QED BY <2>1
<1>2. SUFFICES ASSUME without # {} PROVE FALSE
  BY <1>1
<1>3. PICK k \in without : \A m \in without : k <= m
  <2>1. without \in SUBSET (1..n)
    OBVIOUS
  <2> HIDE DEF without
  <2>2. QED BY <1>2, <2>1, LeastOf
<1>4. PICK f : GrowsTo(f, k - 1)
  <2>1. CASE k = 1
    BY <1>1, <2>1
  <2>2. CASE k # 1
    <3>1. k - 1 \in 1..n /\ ~(k <= k - 1)
      BY <1>3, <2>2
    <3>2. k - 1 \notin without
      BY <1>3, <3>1
    <3>3. QED BY <3>1, <3>2
  <2>3. QED BY <2>1, <2>2
<1>5. k \in 1..n
  OBVIOUS
<1> DEFINE g == [depth \in 0..k |-> IF depth < k THEN f[depth]
                                    ELSE f[k - 1] \cup Branches(f[k - 1])]
<1>6. ASSUME NEW depth \in 0..k
      PROVE  g[depth] = IF depth = 0 THEN Leaves
                        ELSE g[depth - 1] \cup Branches(g[depth - 1])
  <2>1. CASE depth = k
    <3>1. k - 1 \in 0..k /\ k - 1 < k /\ k \in 0..k /\ ~(k < k) /\ k # 0
      BY <1>5
    <3>2. g[k - 1] = f[k - 1] /\ g[k] = f[k - 1] \cup Branches(f[k - 1])
      BY <3>1, Zenon
    <3> HIDE DEF g
    <3>3. QED BY <2>1, <3>1, <3>2
  <2>2. CASE depth # k
    <3>1. depth \in 0..(k - 1) /\ depth < k
      BY <1>5, <1>6, <2>2
    <3>2. f[depth] = IF depth = 0 THEN Leaves
                     ELSE f[depth - 1] \cup Branches(f[depth - 1])
      BY <1>4, <3>1 DEF GrowsTo
    <3>3. g[depth] = f[depth]
      BY <3>1
    <3>4. CASE depth = 0
      BY <3>2, <3>3, <3>4
    <3>5. CASE depth # 0
      <4>1. depth - 1 \in 0..k /\ depth - 1 < k
        BY <1>5, <1>6, <2>2, <3>5
      <4>2. g[depth - 1] = f[depth - 1]
        BY <4>1
      <4> HIDE DEF g
      <4>3. QED BY <3>2, <3>3, <3>5, <4>2
    <3>6. QED BY <3>4, <3>5
  <2>3. QED BY <2>1, <2>2
<1>7. GrowsTo(g, k)
  <2>1. g = [depth \in 0..k |-> g[depth]]
    OBVIOUS
  <2> HIDE DEF g
  <2>2. QED BY <1>6, <2>1 DEF GrowsTo
<1>8. QED BY <1>7

LEMMA TreeGrows ==
    /\ Tree[0] = Leaves
    /\ \A n \in 1..MaxDepth :
          Tree[n] = Tree[n - 1] \cup Branches(Tree[n - 1])
<1> DEFINE grown == CHOOSE f : GrowsTo(f, MaxDepth)
<1>1. MaxDepth \in Nat
  BY DepthAssumption
<1>2. GrowsTo(grown, MaxDepth)
  BY <1>1, TreesGrow
<1>3. Tree = grown
  BY Zenon DEF Tree, GrowsTo
<1> HIDE DEF grown
<1>4. \A depth \in 0..MaxDepth :
         Tree[depth] = IF depth = 0 THEN Leaves
                       ELSE Tree[depth - 1] \cup Branches(Tree[depth - 1])
  BY <1>2, <1>3 DEF GrowsTo
<1>5. 0 \in 0..MaxDepth /\ \A n \in 1..MaxDepth : n \in 0..MaxDepth /\ n # 0
  BY <1>1
<1>6. QED BY <1>4, <1>5

LEMMA BranchesGrow ==
    ASSUME NEW less, NEW more, less \subseteq more
    PROVE  Branches(less) \subseteq Branches(more)
<1>1. ASSUME NEW keys, NEW children \in [keys -> less]
      PROVE  children \in [keys -> more]
  OBVIOUS
<1>2. QED BY <1>1 DEF Branches

\* A value is a leaf, or its children are one level less deep.
LEMMA TreeIs ==
    /\ Tree[0] = Leaves
    /\ \A n \in 1..MaxDepth : /\ Tree[n] = Leaves \cup Branches(Tree[n - 1])
                              /\ Tree[n - 1] \subseteq Tree[n]
<1>1. MaxDepth \in Nat
  BY DepthAssumption
<1> DEFINE Is(n) == Tree[n] = Leaves \cup Branches(Tree[n - 1])
           others == {n \in 1..MaxDepth : ~Is(n)}
<1>2. SUFFICES ASSUME others # {} PROVE FALSE
  BY TreeGrows
<1>3. PICK k \in others : \A m \in others : k <= m
  <2>1. others \in SUBSET (1..MaxDepth)
    OBVIOUS
  <2> HIDE DEF others
  <2>2. QED BY <1>1, <1>2, <2>1, LeastOf
<1>4. k \in 1..MaxDepth /\ ~Is(k)
  OBVIOUS
<1>5. Tree[k] = Tree[k - 1] \cup Branches(Tree[k - 1])
  BY <1>4, TreeGrows
<1>6. CASE k = 1
  BY <1>4, <1>5, <1>6, TreeGrows
<1>7. CASE k # 1
  <2>1. k - 1 \in 1..MaxDepth /\ ~(k <= k - 1) /\ k - 1 - 1 = k - 2
    <3> HIDE DEF others, Is
    <3> QED BY <1>1, <1>4, <1>7
  <2>2. Is(k - 1)
    <3>1. k - 1 \notin others
      <4> HIDE DEF others
      <4> QED BY <1>3, <2>1
    <3> HIDE DEF Is
    <3>2. QED BY <2>1, <3>1
  <2>3. Tree[k - 1] = Leaves \cup Branches(Tree[k - 2])
    BY <2>1, <2>2
  <2>4. Tree[k - 2] \subseteq Tree[k - 1]
    BY <2>1, TreeGrows
  <2>5. Branches(Tree[k - 2]) \subseteq Branches(Tree[k - 1])
    BY <2>4, BranchesGrow
  <2>6. QED BY <1>4, <1>5, <2>3, <2>5
<1>8. QED BY <1>6, <1>7

LEMMA DepthsAre ==
    /\ MaxDepth \in 0..MaxDepth
    /\ \A n \in 1..MaxDepth : n - 1 \in 0..MaxDepth /\ n \in 0..MaxDepth
    /\ \A n \in 0..MaxDepth : n # 0 => n \in 1..MaxDepth
    /\ \A n \in 0..MaxDepth : n \in Nat
BY DepthAssumption

\* The fields of a node.
LEMMA NodeIs ==
    ASSUME NEW kind, NEW label, NEW children
    PROVE  /\ Node(kind, label, children).kind = kind
           /\ Node(kind, label, children).label = label
           /\ Node(kind, label, children).children = children
BY DEF Node

LEMMA LeafIs ==
    ASSUME NEW leaf \in Leaves
    PROVE  /\ leaf.kind \in {"text", "primitive", "unsupported"}
           /\ leaf = Leaf(leaf.kind, leaf.label)
           /\ leaf.kind = "text" =>
                 leaf.label \in PlainText
                                  \cup {"masked", "redacted", "rewritten"}
           /\ leaf.kind # "text" => leaf.label = "none"
           /\ DOMAIN leaf.children = {}
<1>1. PICK kind, label :
         /\ leaf = Leaf(kind, label)
         /\ \/ /\ kind = "text"
               /\ label \in PlainText \cup {"masked", "redacted", "rewritten"}
            \/ /\ kind \in {"primitive", "unsupported"}
               /\ label = "none"
  BY DEF Leaves
<1>2. /\ leaf.kind = kind /\ leaf.label = label
      /\ leaf.children = [key \in {} |-> "none"]
  BY <1>1, NodeIs DEF Leaf
<1>3. QED BY <1>1, <1>2

LEMMA BranchIs ==
    ASSUME NEW values, NEW branch \in Branches(values)
    PROVE  /\ branch.kind \in {"array", "record", "serialized"}
           /\ branch = Node(branch.kind, "none", branch.children)
           /\ branch.children \in [DOMAIN branch.children -> values]
           /\ branch.kind = "serialized" =>
                 /\ DOMAIN branch.children = {"content"}
                 /\ Content(branch) \in values
                 /\ branch = Serialized(Content(branch))
           /\ branch.kind # "serialized" => DOMAIN branch.children \in SUBSET Key
<1>1. CASE \E value \in values : branch = Serialized(value)
  <2>1. PICK value \in values : branch = Serialized(value)
    BY <1>1
  <2>2. /\ branch.kind = "serialized" /\ branch.label = "none"
        /\ branch.children = [key \in {"content"} |-> value]
    BY <2>1, NodeIs DEF Serialized
  <2>3. Content(branch) = value
    BY <2>2 DEF Content
  <2>4. branch = Node(branch.kind, "none", branch.children)
    BY <2>1, <2>2 DEF Serialized
  <2>5. QED BY <2>1, <2>2, <2>3, <2>4
<1>2. CASE \E kind \in {"array", "record"}, keys \in SUBSET Key :
              \E children \in [keys -> values] :
                 branch = Node(kind, "none", children)
  <2>1. PICK kind \in {"array", "record"}, keys \in SUBSET Key :
              \E children \in [keys -> values] :
                 branch = Node(kind, "none", children)
    BY <1>2
  <2>2. PICK children \in [keys -> values] : branch = Node(kind, "none", children)
    BY <2>1
  <2>3. /\ branch.kind = kind
        /\ branch.children = children
    BY <2>2, NodeIs
  <2>4. kind \in {"array", "record"} /\ keys \in SUBSET Key
    BY <2>1
  <2>5. DOMAIN children = keys
    OBVIOUS
  <2>6. QED BY <2>2, <2>3, <2>4, <2>5
<1>3. QED
  <2>1. \/ \E value \in values : branch = Serialized(value)
        \/ \E kind \in {"array", "record"} :
              \E children \in UNION {[keys -> values] : keys \in SUBSET Key} :
                 branch = Node(kind, "none", children)
    BY DEF Branches
  <2>2. QED BY <1>1, <1>2, <2>1

LEMMA ChildrenAre ==
    ASSUME NEW n \in 0..MaxDepth, NEW value \in Tree[n]
    PROVE  \A key \in DOMAIN value.children :
              /\ n \in 1..MaxDepth
              /\ value.children[key] \in Tree[n - 1]
<1>1. CASE value \in Leaves
  BY <1>1, LeafIs
<1>2. CASE value \notin Leaves
  <2>1. n \in 1..MaxDepth
    BY <1>2, TreeIs, DepthsAre
  <2>2. value \in Branches(Tree[n - 1])
    BY <1>2, <2>1, TreeIs
  <2>3. value.children \in [DOMAIN value.children -> Tree[n - 1]]
    BY <2>2, BranchIs
  <2>4. QED BY <2>1, <2>3
<1>3. QED BY <1>1, <1>2

\* Every level is part of the last.
LEMMA TreeWithin ==
    ASSUME NEW n \in 0..MaxDepth
    PROVE  Tree[n] \subseteq Redactable
<1> DEFINE outside == {k \in 1..(MaxDepth + 1) :
                          /\ MaxDepth + 1 - k \in 0..MaxDepth
                          /\ ~(Tree[MaxDepth + 1 - k] \subseteq Redactable)}
<1>1. MaxDepth \in Nat /\ MaxDepth + 1 \in Nat
  BY DepthAssumption
<1>2. SUFFICES ASSUME ~(Tree[n] \subseteq Redactable) PROVE FALSE
  OBVIOUS
<1>3. outside \in SUBSET (1..(MaxDepth + 1)) /\ outside # {}
  <2>1. /\ MaxDepth + 1 - n \in 1..(MaxDepth + 1)
        /\ MaxDepth + 1 - (MaxDepth + 1 - n) = n
    BY <1>1
  <2>2. MaxDepth + 1 - n \in outside
    BY <1>2, <2>1
  <2>3. QED BY <2>2
<1>4. PICK k \in outside : \A m \in outside : k <= m
  <2> HIDE DEF outside
  <2> QED BY <1>1, <1>3, LeastOf
<1>5. PICK m \in 0..MaxDepth : /\ m = MaxDepth + 1 - k
                               /\ ~(Tree[m] \subseteq Redactable)
  OBVIOUS
<1>6. k \in 1..(MaxDepth + 1)
  OBVIOUS
<1>7. m # MaxDepth
  BY <1>5 DEF Redactable
<1>8. /\ m + 1 \in 1..MaxDepth /\ m + 1 - 1 = m
      /\ k - 1 \in 1..(MaxDepth + 1) /\ MaxDepth + 1 - (k - 1) = m + 1
      /\ m + 1 \in 0..MaxDepth /\ ~(k <= k - 1)
  <2> HIDE DEF outside
  <2> QED BY <1>1, <1>5, <1>6, <1>7
<1>9. k - 1 \notin outside
  <2> HIDE DEF outside
  <2> QED BY <1>4, <1>8
<1>10. Tree[m + 1] \subseteq Redactable
  BY <1>8, <1>9
<1>11. Tree[m] \subseteq Tree[m + 1]
  BY <1>8, TreeIs
<1>12. QED BY <1>5, <1>10, <1>11

\* What holds of a value whenever it holds of its children holds of all.
LEMMA TreeInduction ==
    ASSUME NEW good,
           \A value \in Redactable :
              (\A key \in DOMAIN value.children : value.children[key] \in good)
              => value \in good
    PROVE  Redactable \subseteq good
<1> DEFINE bad == {k \in 1..(MaxDepth + 1) : ~(Tree[k - 1] \subseteq good)}
<1>1. MaxDepth \in Nat /\ MaxDepth + 1 \in Nat
  BY DepthAssumption
<1>2. SUFFICES ASSUME ~(Redactable \subseteq good) PROVE FALSE
  OBVIOUS
<1>3. bad \in SUBSET (1..(MaxDepth + 1)) /\ bad # {}
  <2>1. PICK top \in 1..(MaxDepth + 1) : top - 1 = MaxDepth
    BY <1>1
  <2>2. ~(Tree[top - 1] \subseteq good)
    BY <1>2, <2>1 DEF Redactable
  <2>3. top \in bad
    BY <2>2, Zenon
  <2>4. QED BY <2>3
<1>4. PICK k \in bad : \A m \in bad : k <= m
  <2> HIDE DEF bad
  <2> QED BY <1>1, <1>3, LeastOf
<1>5. k \in 1..(MaxDepth + 1) /\ ~(Tree[k - 1] \subseteq good)
  OBVIOUS
<1>6. PICK value \in Tree[k - 1] : value \notin good
  BY <1>5
<1>7. k - 1 \in 0..MaxDepth
  BY <1>1, <1>5
<1>8. ASSUME NEW key \in DOMAIN value.children
      PROVE  value.children[key] \in good
  <2>1. k - 1 \in 1..MaxDepth /\ value.children[key] \in Tree[k - 1 - 1]
    BY <1>6, <1>7, ChildrenAre
  <2>2. k - 1 \in 1..(MaxDepth + 1) /\ ~(k <= k - 1)
    <3> HIDE DEF bad
    <3> QED BY <1>1, <1>5, <2>1
  <2>3. k - 1 \notin bad
    <3> HIDE DEF bad
    <3> QED BY <1>4, <2>2
  <2>4. Tree[k - 1 - 1] \subseteq good
    BY <2>2, <2>3
  <2>5. QED BY <2>1, <2>4
<1>9. value \in Redactable
  BY <1>6, <1>7, TreeWithin
<1>10. QED BY <1>6, <1>8, <1>9

\* A function on the values up to a depth that is given by the values that it
\* has at the children.
Computes(f, step, n) ==
    f = [value \in Tree[n] |->
            step[<<value, [key \in DOMAIN value.children |->
                              f[value.children[key]]]>>]]

LEMMA ComputesDeeper ==
    ASSUME NEW step, NEW n \in 1..MaxDepth, NEW f, Computes(f, step, n - 1)
    PROVE  \E g : Computes(g, step, n)
<1> DEFINE At(h, value) == step[<<value, [key \in DOMAIN value.children |->
                                             h[value.children[key]]]>>]
           g == [value \in Tree[n] |-> At(f, value)]
<1>1. /\ n \in 0..MaxDepth
      /\ Tree[n - 1] \subseteq Tree[n]
  BY DepthsAre, TreeIs
<1>2. \A value \in Tree[n - 1] : f[value] = At(f, value)
  BY Zenon DEF Computes
<1>3. \A value \in Tree[n] : g[value] = At(f, value)
  BY Zenon
<1> HIDE DEF g
<1>4. \A value \in Tree[n - 1] : g[value] = f[value]
  BY <1>1, <1>2, <1>3
<1>5. ASSUME NEW value \in Tree[n] PROVE At(f, value) = At(g, value)
  <2>1. \A key \in DOMAIN value.children :
           g[value.children[key]] = f[value.children[key]]
    BY <1>1, <1>4, ChildrenAre
  <2>2. [key \in DOMAIN value.children |-> f[value.children[key]]] =
           [key \in DOMAIN value.children |-> g[value.children[key]]]
    BY <2>1
  <2>3. QED BY <2>2
<1> HIDE DEF At
<1>6. g = [value \in Tree[n] |-> At(g, value)]
  <2>1. g = [value \in Tree[n] |-> At(f, value)]
    BY DEF g
  <2>2. QED BY <1>5, <2>1
<1>7. QED BY <1>6, Zenon DEF Computes, At

LEMMA TreeRecursion ==
    ASSUME NEW step
    PROVE  \E f : Computes(f, step, MaxDepth)
<1> DEFINE without == {k \in 1..MaxDepth : ~\E f : Computes(f, step, k)}
<1>1. MaxDepth \in Nat
  BY DepthAssumption
<1>2. \E f : Computes(f, step, 0)
  <2> DEFINE f == [value \in Tree[0] |-> step[<<value, [key \in {} |-> "none"]>>]]
  <2>1. ASSUME NEW value \in Tree[0]
        PROVE  [key \in DOMAIN value.children |-> f[value.children[key]]] =
                  [key \in {} |-> "none"]
    BY TreeIs, LeafIs
  <2>2. f = [value \in Tree[0] |->
                step[<<value, [key \in DOMAIN value.children |->
                                  f[value.children[key]]]>>]]
    BY <2>1
  <2> HIDE DEF f
  <2>3. QED BY <2>2, Zenon DEF Computes
<1>3. without = {}
  <2>1. SUFFICES ASSUME without # {} PROVE FALSE
    OBVIOUS
  <2>2. PICK k \in without : \A m \in without : k <= m
    <3>1. without \in SUBSET (1..MaxDepth)
      OBVIOUS
    <3> HIDE DEF without
    <3>2. QED BY <1>1, <2>1, <3>1, LeastOf
  <2>3. k \in 1..MaxDepth /\ ~\E f : Computes(f, step, k)
    OBVIOUS
  <2>4. PICK f : Computes(f, step, k - 1)
    <3>1. CASE k = 1
      BY <1>2, <3>1
    <3>2. CASE k # 1
      <4>1. k - 1 \in 1..MaxDepth /\ ~(k <= k - 1)
        <5> HIDE DEF without
        <5> QED BY <1>1, <2>3, <3>2
      <4>2. k - 1 \notin without
        <5> HIDE DEF without
        <5> QED BY <2>2, <4>1
      <4>3. QED BY <4>1, <4>2
    <3>3. QED BY <3>1, <3>2
  <2>5. QED BY <2>3, <2>4, ComputesDeeper
<1>4. CASE MaxDepth = 0
  BY <1>2, <1>4
<1>5. CASE MaxDepth # 0
  <2>1. MaxDepth \in 1..MaxDepth /\ MaxDepth \notin without
    BY <1>1, <1>3, <1>5
  <2>2. QED BY <2>1
<1>6. QED BY <1>4, <1>5

\* A value with what a recursion has of its children.
ChildPairs(results) ==
    UNION {{value} \X [DOMAIN value.children -> results] : value \in Redactable}

LEMMA ChildPairIs ==
    ASSUME NEW results, NEW value \in Redactable,
           NEW g \in [DOMAIN value.children -> results]
    PROVE  <<value, g>> \in ChildPairs(results)
BY DEF ChildPairs

LEMMA ChildrenWithin ==
    ASSUME NEW value \in Redactable
    PROVE  \A key \in DOMAIN value.children : value.children[key] \in Redactable
<1>1. ASSUME NEW key \in DOMAIN value.children
      PROVE  value.children[key] \in Redactable
  <2>1. MaxDepth \in 1..MaxDepth /\ value.children[key] \in Tree[MaxDepth - 1]
    BY ChildrenAre, DepthsAre DEF Redactable
  <2>2. QED BY <2>1, TreeWithin, DepthsAre
<1>2. QED BY <1>1

PartsBy(f, value) ==
    {value} \cup UNION {f[value.children[key]] : key \in DOMAIN value.children}

LEMMA PartsAre ==
    ASSUME NEW value \in Redactable
    PROVE  Parts[value] = PartsBy(Parts, value)
<1> DEFINE results == SUBSET Redactable
           step == [pair \in ChildPairs(results) |->
                       {pair[1]} \cup
                       UNION {pair[2][key] : key \in DOMAIN pair[2]}]
<1>1. PICK f : Computes(f, step, MaxDepth)
  BY TreeRecursion
<1>2. ASSUME NEW v \in Redactable,
             \A key \in DOMAIN v.children : f[v.children[key]] \in results
      PROVE  f[v] = PartsBy(f, v)
  <2> DEFINE g == [key \in DOMAIN v.children |-> f[v.children[key]]]
  <2>1. f[v] = step[<<v, g>>]
    BY <1>1, Zenon DEF Computes, Redactable
  <2>2. g \in [DOMAIN v.children -> results]
    BY <1>2
  <2>3. <<v, g>> \in ChildPairs(results)
    <3> HIDE DEF g, results
    <3> QED BY <2>2, ChildPairIs
  <2>4. step[<<v, g>>] = {v} \cup UNION {g[key] : key \in DOMAIN g}
    <3> HIDE DEF g
    <3> QED BY <2>3
  <2>5. {g[key] : key \in DOMAIN g} =
           {f[v.children[key]] : key \in DOMAIN v.children}
    OBVIOUS
  <2> HIDE DEF g, step
  <2>6. QED BY <2>1, <2>4, <2>5 DEF PartsBy
<1> HIDE DEF step
<1> DEFINE good == {v \in Redactable : f[v] \in results}
<1>3. ASSUME NEW v \in Redactable,
             \A key \in DOMAIN v.children : v.children[key] \in good
      PROVE  v \in good
  <2>1. \A key \in DOMAIN v.children : f[v.children[key]] \in results
    BY <1>3
  <2>2. f[v] = PartsBy(f, v)
    BY <1>2, <2>1
  <2>3. QED BY <2>1, <2>2 DEF PartsBy
<1>4. Redactable \subseteq good
  <2> HIDE DEF good
  <2> QED BY <1>3, TreeInduction
<1>5. \A v \in Redactable : f[v] \in results
  BY <1>4
<1>6. \A v \in Redactable : f[v] = PartsBy(f, v)
  <2> HIDE DEF results
  <2> QED BY <1>2, <1>5, ChildrenWithin
<1> DEFINE Is(h) == h = [v \in Redactable |-> PartsBy(h, v)]
           parts == CHOOSE h : Is(h)
<1>7. Is(f)
  <2>1. f = [v \in Redactable |-> f[v]]
    BY <1>1, Zenon DEF Computes, Redactable
  <2>2. QED BY <1>6, <2>1
<1>8. Is(parts)
  BY <1>7, Zenon
<1>9. Parts = parts
  BY Zenon DEF Parts, PartsBy
<1> HIDE DEF parts
<1>10. QED BY <1>8, <1>9

LEMMA PartsWithin ==
    ASSUME NEW value \in Redactable
    PROVE  Parts[value] \in SUBSET Redactable /\ value \in Parts[value]
<1> DEFINE good == {v \in Redactable : Parts[v] \in SUBSET Redactable}
<1>1. ASSUME NEW v \in Redactable,
             \A key \in DOMAIN v.children : v.children[key] \in good
      PROVE  v \in good
  BY <1>1, PartsAre DEF PartsBy
<1>2. Redactable \subseteq good
  <2> HIDE DEF good
  <2> QED BY <1>1, TreeInduction
<1>3. value \in Parts[value]
  BY PartsAre DEF PartsBy
<1>4. QED BY <1>2, <1>3

SupportedBy(f, value) ==
    CASE value.kind = "unsupported" -> FALSE
      [] value.kind = "serialized"  -> TRUE
      [] OTHER -> \A key \in DOMAIN value.children :
                     IsSensitive(value, key) \/ f[value.children[key]]

LEMMA SupportedIs ==
    ASSUME NEW value \in Redactable
    PROVE  /\ Supported[value] \in BOOLEAN
           /\ Supported[value] <=> SupportedBy(Supported, value)
<1> DEFINE step == [pair \in ChildPairs(BOOLEAN) |->
                       CASE pair[1].kind = "unsupported" -> FALSE
                         [] pair[1].kind = "serialized"  -> TRUE
                         [] OTHER -> \A key \in DOMAIN pair[1].children :
                               IsSensitive(pair[1], key) \/ pair[2][key]]
<1>1. PICK f : Computes(f, step, MaxDepth)
  BY TreeRecursion
<1>2. ASSUME NEW v \in Redactable,
             \A key \in DOMAIN v.children : f[v.children[key]] \in BOOLEAN
      PROVE  f[v] = SupportedBy(f, v)
  <2> DEFINE g == [key \in DOMAIN v.children |-> f[v.children[key]]]
  <2>1. f[v] = step[<<v, g>>]
    BY <1>1, Zenon DEF Computes, Redactable
  <2>2. g \in [DOMAIN v.children -> BOOLEAN]
    BY <1>2
  <2>3. <<v, g>> \in ChildPairs(BOOLEAN)
    <3> HIDE DEF g
    <3> QED BY <2>2, ChildPairIs
  <2>4. step[<<v, g>>] =
           CASE v.kind = "unsupported" -> FALSE
             [] v.kind = "serialized"  -> TRUE
             [] OTHER -> \A key \in DOMAIN v.children :
                            IsSensitive(v, key) \/ g[key]
    <3> HIDE DEF g
    <3> QED BY <2>3
  <2>5. \A key \in DOMAIN v.children : g[key] = f[v.children[key]]
    OBVIOUS
  <2> HIDE DEF g, step
  <2>6. (\A key \in DOMAIN v.children : IsSensitive(v, key) \/ g[key]) =
        (\A key \in DOMAIN v.children :
            IsSensitive(v, key) \/ f[v.children[key]])
    BY <2>5, Zenon
  <2>7. QED BY <2>1, <2>4, <2>6, Zenon DEF SupportedBy
<1> HIDE DEF step
<1> DEFINE good == {v \in Redactable : f[v] \in BOOLEAN}
<1>3. ASSUME NEW v \in Redactable,
             \A key \in DOMAIN v.children : v.children[key] \in good
      PROVE  v \in good
  <2>1. \A key \in DOMAIN v.children : f[v.children[key]] \in BOOLEAN
    BY <1>3
  <2>2. f[v] = SupportedBy(f, v)
    BY <1>2, <2>1
  <2>3. SupportedBy(f, v) \in BOOLEAN
    BY Zenon DEF SupportedBy
  <2>4. f[v] \in BOOLEAN
    BY <2>2, <2>3, Zenon
  <2>5. QED BY <2>4, Zenon
<1>4. Redactable \subseteq good
  <2> HIDE DEF good
  <2> QED BY <1>3, TreeInduction
<1>5. \A v \in Redactable : f[v] = SupportedBy(f, v)
  <2>1. ASSUME NEW v \in Redactable PROVE f[v] = SupportedBy(f, v)
    <3>1. \A key \in DOMAIN v.children : f[v.children[key]] \in BOOLEAN
      BY <1>4, ChildrenWithin
    <3>2. QED BY <1>2, <3>1
  <2>2. QED BY <2>1, Zenon
<1> DEFINE Is(h) == h = [v \in Redactable |-> SupportedBy(h, v)]
           supported == CHOOSE h : Is(h)
<1>6. Is(f)
  <2>1. f = [v \in Redactable |-> f[v]]
    BY <1>1, Zenon DEF Computes, Redactable
  <2>2. QED BY <1>5, <2>1, Zenon
<1>7. Is(supported)
  BY <1>6, Zenon
<1>8. Supported = supported
  BY Zenon DEF Supported, SupportedBy
<1> HIDE DEF supported
<1>9. Supported[value] = SupportedBy(Supported, value)
  BY <1>7, <1>8, Zenon
<1>10. SupportedBy(Supported, value) \in BOOLEAN
  BY Zenon DEF SupportedBy
<1>11. QED BY <1>9, <1>10, Zenon

\* A branch with other children that are not deeper.
LEMMA TreeRebuilt ==
    ASSUME NEW n \in 1..MaxDepth, NEW value \in Tree[n],
           value.kind \in {"array", "record"},
           NEW children \in [DOMAIN value.children -> Tree[n - 1]]
    PROVE  /\ [value EXCEPT !.children = children] =
                 Node(value.kind, "none", children)
           /\ Node(value.kind, "none", children) \in Tree[n]
<1>1. value \in Branches(Tree[n - 1])
  BY TreeIs, LeafIs
<1>2. /\ value = Node(value.kind, "none", value.children)
      /\ DOMAIN value.children \in SUBSET Key
  BY <1>1, BranchIs
<1>3. [value EXCEPT !.children = children] = Node(value.kind, "none", children)
  BY <1>2 DEF Node
<1>4. children \in UNION {[keys -> Tree[n - 1]] : keys \in SUBSET Key}
  BY <1>2
<1>5. Node(value.kind, "none", children) \in Branches(Tree[n - 1])
  BY <1>4 DEF Branches
<1>6. QED BY <1>3, <1>5, TreeIs

LEMMA RedactedAndMasked ==
    /\ Redacted \in Leaves /\ Masked \in Leaves /\ Rewritten \in Leaves
    /\ Redacted.kind = "text" /\ Masked.kind = "text"
    /\ Rewritten.kind = "text"
    /\ Rewritten # Masked /\ Rewritten # Redacted
    /\ \A n \in 0..MaxDepth : Leaves \subseteq Tree[n]
<1>1. /\ Redacted \in Leaves /\ Masked \in Leaves /\ Rewritten \in Leaves
  BY DEF Redacted, Masked, Rewritten, Leaves
<1>2. /\ Redacted.kind = "text" /\ Redacted.label = "redacted"
      /\ Masked.kind = "text" /\ Masked.label = "masked"
      /\ Rewritten.kind = "text" /\ Rewritten.label = "rewritten"
  BY NodeIs DEF Redacted, Masked, Rewritten, Leaf
<1>3. \A n \in 0..MaxDepth : Leaves \subseteq Tree[n]
  BY TreeIs, DepthsAre
<1>4. QED BY <1>1, <1>2, <1>3

Replaced(value, key) ==
    /\ IsSensitive(value, key)
    /\ value.children[key].kind \in {"text", "serialized"}

\* The children of a value after JSON_SECRET, and after redactValue.
JsonChildren(f, value) ==
    [key \in DOMAIN value.children |->
        IF Replaced(value, key) THEN Redacted ELSE f[value.children[key]]]

ValueChildren(f, value) ==
    [key \in DOMAIN value.children |->
        IF IsSensitive(value, key) THEN Redacted ELSE f[value.children[key]]]

JsonBy(f, value) ==
    IF value.kind \notin {"array", "record"} THEN value
    ELSE [value EXCEPT !.children = JsonChildren(f, value)]

\* A function on the values keeps each at its level.
KeepsLevels(f) ==
    \A n \in 0..MaxDepth : \A value \in Tree[n] : f[value] \in Tree[n]

LEMMA JsonKeepsLevels ==
    ASSUME NEW f,
           \A v \in Redactable :
              (\A key \in DOMAIN v.children : f[v.children[key]] \in Redactable)
              => f[v] = JsonBy(f, v)
    PROVE  KeepsLevels(f)
<1> DEFINE good == {v \in Redactable :
                       \A n \in 0..MaxDepth : v \in Tree[n] => f[v] \in Tree[n]}
<1>1. ASSUME NEW v \in Redactable,
             \A key \in DOMAIN v.children : v.children[key] \in good
      PROVE  v \in good
  <2>1. ASSUME NEW n \in 0..MaxDepth, v \in Tree[n] PROVE f[v] \in Tree[n]
    <3>1. ASSUME NEW key \in DOMAIN v.children
          PROVE  /\ n \in 1..MaxDepth
                 /\ f[v.children[key]] \in Tree[n - 1]
      <4>1. n \in 1..MaxDepth /\ v.children[key] \in Tree[n - 1]
        BY <2>1, ChildrenAre
      <4>2. QED BY <1>1, <4>1, DepthsAre
    <3>2. \A key \in DOMAIN v.children : f[v.children[key]] \in Redactable
      BY <3>1, TreeWithin, DepthsAre
    <3>3. f[v] = JsonBy(f, v)
      BY <3>2
    <3>4. CASE v.kind \notin {"array", "record"}
      BY <2>1, <3>3, <3>4 DEF JsonBy
    <3>5. CASE v.kind \in {"array", "record"}
      <4>1. n \in 1..MaxDepth
        BY <2>1, <3>5, TreeIs, LeafIs, DepthsAre
      <4>2. Redacted \in Tree[n - 1]
        BY <4>1, RedactedAndMasked, DepthsAre
      <4>3. JsonChildren(f, v) \in [DOMAIN v.children -> Tree[n - 1]]
        BY <3>1, <4>2 DEF JsonChildren
      <4>4. [v EXCEPT !.children = JsonChildren(f, v)] \in Tree[n]
        BY <2>1, <3>5, <4>1, <4>3, TreeRebuilt
      <4>5. QED BY <3>3, <3>5, <4>4 DEF JsonBy
    <3>6. QED BY <3>4, <3>5
  <2>2. QED BY <2>1
<1>2. Redactable \subseteq good
  <2> HIDE DEF good
  <2> QED BY <1>1, TreeInduction
<1>3. QED BY <1>2, TreeWithin DEF KeepsLevels

LEMMA JsonSecretsAre ==
    /\ \A value \in Redactable :
          RedactJsonSecrets[value] = JsonBy(RedactJsonSecrets, value)
    /\ KeepsLevels(RedactJsonSecrets)
<1> DEFINE step == [pair \in ChildPairs(Redactable) |->
              IF pair[1].kind \notin {"array", "record"} THEN pair[1]
              ELSE [pair[1] EXCEPT !.children =
                       [key \in DOMAIN pair[1].children |->
                           IF Replaced(pair[1], key) THEN Redacted
                           ELSE pair[2][key]]]]
<1>1. PICK f : Computes(f, step, MaxDepth)
  BY TreeRecursion
<1>2. ASSUME NEW v \in Redactable,
             \A key \in DOMAIN v.children : f[v.children[key]] \in Redactable
      PROVE  f[v] = JsonBy(f, v)
  <2> DEFINE g == [key \in DOMAIN v.children |-> f[v.children[key]]]
  <2>1. f[v] = step[<<v, g>>]
    BY <1>1, Zenon DEF Computes, Redactable
  <2>2. g \in [DOMAIN v.children -> Redactable]
    BY <1>2
  <2>3. <<v, g>> \in ChildPairs(Redactable)
    <3> HIDE DEF g
    <3> QED BY <2>2, ChildPairIs
  <2> DEFINE children == [key \in DOMAIN v.children |->
                             IF Replaced(v, key) THEN Redacted ELSE g[key]]
  <2>4. step[<<v, g>>] = IF v.kind \notin {"array", "record"} THEN v
                         ELSE [v EXCEPT !.children = children]
    <3> HIDE DEF g
    <3> QED BY <2>3
  <2>5. children = JsonChildren(f, v)
    BY DEF JsonChildren
  <2> HIDE DEF g, step, children
  <2>6. QED BY <2>1, <2>4, <2>5 DEF JsonBy
<1> HIDE DEF step
<1>3. KeepsLevels(f)
  BY <1>2, JsonKeepsLevels
<1>4. \A v \in Redactable : f[v] \in Redactable
  BY <1>3, DepthsAre DEF Redactable, KeepsLevels
<1>5. \A v \in Redactable : f[v] = JsonBy(f, v)
  BY <1>2, <1>4, ChildrenWithin
<1> DEFINE Is(h) == h = [v \in Redactable |-> JsonBy(h, v)]
           json == CHOOSE h : Is(h)
<1>6. Is(f)
  <2>1. f = [v \in Redactable |-> f[v]]
    BY <1>1, Zenon DEF Computes, Redactable
  <2>2. QED BY <1>5, <2>1
<1>7. Is(json)
  BY <1>6, Zenon
<1>8. RedactJsonSecrets = json
  BY Zenon DEF RedactJsonSecrets, JsonBy, JsonChildren, Replaced
<1> HIDE DEF json
<1>9. \A v \in Redactable :
          RedactJsonSecrets[v] = JsonBy(RedactJsonSecrets, v)
  BY <1>7, <1>8
<1>10. QED BY <1>9, JsonKeepsLevels

ValueBy(f, value) ==
    CASE value.kind = "serialized" ->
            RedactSerialized(Content(value), f[Content(value)])
      [] value.kind \in {"array", "record"} ->
            [value EXCEPT !.children = ValueChildren(f, value)]
      [] value.kind = "text" -> Patterns(value)
      [] OTHER -> value

\* What the text patterns leave of a string, and that they leave that alone.
LEMMA PatternsLeave ==
    ASSUME NEW string
    PROVE  \/ Patterns(string) = string /\ Left(string) = "same"
           \/ Patterns(string) = Masked
           \/ Patterns(string) = Rewritten
BY DEF Patterns

LEMMA MaskedIsLeft ==
    /\ Patterns(Masked) = Masked /\ Left(Masked) = "same"
    /\ Left(Redacted) = "same"
BY LeftAssumption DEF Patterns

\* The content of a string is one level less deep.
LEMMA ContentIs ==
    ASSUME NEW n \in 0..MaxDepth, NEW value \in Tree[n],
           value.kind = "serialized"
    PROVE  /\ n \in 1..MaxDepth
           /\ "content" \in DOMAIN value.children
           /\ Content(value) \in Tree[n - 1]
           /\ value = Serialized(Content(value))
           /\ DOMAIN value.children = {"content"}
<1>1. n \in 1..MaxDepth /\ value \in Branches(Tree[n - 1])
  BY TreeIs, LeafIs, DepthsAre
<1>2. QED BY <1>1, BranchIs

LEMMA SerializedIs ==
    ASSUME NEW content
    PROVE  /\ Serialized(content).kind = "serialized"
           /\ Content(Serialized(content)) = content
           /\ DOMAIN Serialized(content).children = {"content"}
<1>1. /\ Serialized(content).kind = "serialized"
      /\ Serialized(content).children = [key \in {"content"} |-> content]
  BY NodeIs DEF Serialized
<1>2. QED BY <1>1 DEF Content

LEMMA ReserializedWithin ==
    ASSUME NEW n \in 1..MaxDepth, NEW content \in Tree[n - 1]
    PROVE  Reserialized(content) \in Tree[n]
<1>1. Serialized(content) \in Branches(Tree[n - 1])
  BY DEF Branches
<1>2. Masked \in Tree[n] /\ Rewritten \in Tree[n] /\ Serialized(content) \in Tree[n]
  BY <1>1, TreeIs, RedactedAndMasked, DepthsAre
<1>3. QED BY <1>2, PatternsLeave DEF Reserialized

LEMMA ValueKeepsLevels ==
    ASSUME NEW f,
           \A v \in Redactable :
              (\A key \in DOMAIN v.children : f[v.children[key]] \in Redactable)
              => f[v] = ValueBy(f, v)
    PROVE  KeepsLevels(f)
<1> DEFINE good == {v \in Redactable :
                       \A n \in 0..MaxDepth : v \in Tree[n] => f[v] \in Tree[n]}
<1>1. ASSUME NEW v \in Redactable,
             \A key \in DOMAIN v.children : v.children[key] \in good
      PROVE  v \in good
  <2>1. ASSUME NEW n \in 0..MaxDepth, v \in Tree[n] PROVE f[v] \in Tree[n]
    <3>1. ASSUME NEW key \in DOMAIN v.children
          PROVE  /\ n \in 1..MaxDepth
                 /\ f[v.children[key]] \in Tree[n - 1]
      <4>1. n \in 1..MaxDepth /\ v.children[key] \in Tree[n - 1]
        BY <2>1, ChildrenAre
      <4>2. QED BY <1>1, <4>1, DepthsAre
    <3>2. \A key \in DOMAIN v.children : f[v.children[key]] \in Redactable
      BY <3>1, TreeWithin, DepthsAre
    <3>3. f[v] = ValueBy(f, v)
      BY <3>2
    <3>4. CASE v.kind = "serialized"
      <4>1. /\ n \in 1..MaxDepth /\ "content" \in DOMAIN v.children
            /\ Content(v) \in Tree[n - 1]
        BY <2>1, <3>4, ContentIs
      <4>2. f[Content(v)] \in Tree[n - 1]
        BY <3>1, <4>1 DEF Content
      <4>3. RedactJsonSecrets[Content(v)] \in Tree[n - 1]
        BY <4>1, JsonSecretsAre, DepthsAre DEF KeepsLevels
      <4>4. RedactSerialized(Content(v), f[Content(v)]) \in Tree[n]
        BY <4>1, <4>2, <4>3, ReserializedWithin DEF RedactSerialized
      <4>5. QED BY <3>3, <3>4, <4>4 DEF ValueBy
    <3>5. CASE v.kind \in {"array", "record"}
      <4>1. n \in 1..MaxDepth
        BY <2>1, <3>5, TreeIs, LeafIs, DepthsAre
      <4>2. Redacted \in Tree[n - 1]
        BY <4>1, RedactedAndMasked, DepthsAre
      <4>3. ValueChildren(f, v) \in [DOMAIN v.children -> Tree[n - 1]]
        BY <3>1, <4>2 DEF ValueChildren
      <4>4. [v EXCEPT !.children = ValueChildren(f, v)] \in Tree[n]
        BY <2>1, <3>5, <4>1, <4>3, TreeRebuilt
      <4>5. QED BY <3>3, <3>5, <4>4 DEF ValueBy
    <3>6. CASE v.kind \notin {"serialized", "array", "record"}
      <4>1. f[v] \in {Masked, Rewritten, v}
        BY <3>3, <3>6, PatternsLeave DEF ValueBy
      <4>2. QED BY <2>1, <4>1, RedactedAndMasked
    <3>7. QED BY <3>4, <3>5, <3>6
  <2>2. QED BY <2>1
<1>2. Redactable \subseteq good
  <2> HIDE DEF good
  <2> QED BY <1>1, TreeInduction
<1>3. QED BY <1>2, TreeWithin DEF KeepsLevels

LEMMA RedactedValueIs ==
    /\ \A value \in Redactable :
          RedactValue[value] = ValueBy(RedactValue, value)
    /\ KeepsLevels(RedactValue)
<1> DEFINE step == [pair \in ChildPairs(Redactable) |->
              CASE pair[1].kind = "serialized" ->
                      RedactSerialized(Content(pair[1]), pair[2]["content"])
                [] pair[1].kind \in {"array", "record"} ->
                      [pair[1] EXCEPT !.children =
                          [key \in DOMAIN pair[1].children |->
                              IF IsSensitive(pair[1], key) THEN Redacted
                              ELSE pair[2][key]]]
                [] pair[1].kind = "text" -> Patterns(pair[1])
                [] OTHER -> pair[1]]
<1>1. PICK f : Computes(f, step, MaxDepth)
  BY TreeRecursion
<1>2. ASSUME NEW v \in Redactable,
             \A key \in DOMAIN v.children : f[v.children[key]] \in Redactable
      PROVE  f[v] = ValueBy(f, v)
  <2> DEFINE g == [key \in DOMAIN v.children |-> f[v.children[key]]]
             children == [key \in DOMAIN v.children |->
                             IF IsSensitive(v, key) THEN Redacted ELSE g[key]]
  <2>1. f[v] = step[<<v, g>>]
    BY <1>1, Zenon DEF Computes, Redactable
  <2>2. g \in [DOMAIN v.children -> Redactable]
    BY <1>2
  <2>3. <<v, g>> \in ChildPairs(Redactable)
    <3> HIDE DEF g
    <3> QED BY <2>2, ChildPairIs
  <2>4. step[<<v, g>>] =
           CASE v.kind = "serialized" -> RedactSerialized(Content(v), g["content"])
             [] v.kind \in {"array", "record"} -> [v EXCEPT !.children = children]
             [] v.kind = "text" -> Patterns(v)
             [] OTHER -> v
    <3> HIDE DEF g
    <3> QED BY <2>3
  <2>5. children = ValueChildren(f, v)
    BY DEF ValueChildren
  <2>6. v.kind = "serialized" => g["content"] = f[Content(v)]
    <3>1. v.kind = "serialized" => "content" \in DOMAIN v.children
      BY ContentIs, DepthsAre DEF Redactable
    <3>2. QED BY <3>1 DEF Content
  <2> HIDE DEF g, step, children
  <2>7. CASE v.kind = "serialized"
    BY <2>1, <2>4, <2>6, <2>7 DEF ValueBy
  <2>8. CASE v.kind # "serialized"
    BY <2>1, <2>4, <2>5, <2>8 DEF ValueBy
  <2>9. QED BY <2>7, <2>8
<1> HIDE DEF step
<1>3. KeepsLevels(f)
  BY <1>2, ValueKeepsLevels
<1>4. \A v \in Redactable : f[v] \in Redactable
  BY <1>3, DepthsAre DEF Redactable, KeepsLevels
<1>5. \A v \in Redactable : f[v] = ValueBy(f, v)
  BY <1>2, <1>4, ChildrenWithin
<1> DEFINE Is(h) == h = [v \in Redactable |-> ValueBy(h, v)]
           redact == CHOOSE h : Is(h)
<1>6. Is(f)
  <2>1. f = [v \in Redactable |-> f[v]]
    BY <1>1, Zenon DEF Computes, Redactable
  <2>2. QED BY <1>5, <2>1
<1>7. Is(redact)
  BY <1>6, Zenon
<1>8. RedactValue = redact
  BY Zenon DEF RedactValue, ValueBy, ValueChildren
<1> HIDE DEF redact
<1>9. \A v \in Redactable : RedactValue[v] = ValueBy(RedactValue, v)
  BY <1>7, <1>8
<1>10. QED BY <1>9, ValueKeepsLevels

-----------------------------------------------------------------------------
(* redaction.ts: what is redacted is redacted for good.                    *)

LEMMA BranchRebuilt ==
    ASSUME NEW value \in Redactable, value.kind \in {"array", "record"},
           NEW f, KeepsLevels(f), NEW children,
           DOMAIN children = DOMAIN value.children,
           children = [key \in DOMAIN children |-> children[key]],
           \A key \in DOMAIN children :
              \/ children[key] = Redacted
              \/ children[key] = f[value.children[key]]
    PROVE  LET rebuilt == [value EXCEPT !.children = children]
           IN  /\ rebuilt = Node(value.kind, "none", children)
               /\ rebuilt.kind = value.kind
               /\ rebuilt.children = children
               /\ rebuilt \in Redactable
<1>1. MaxDepth \in 1..MaxDepth /\ value \in Tree[MaxDepth]
  BY TreeIs, LeafIs, DepthsAre DEF Redactable
<1>2. MaxDepth - 1 \in 0..MaxDepth
  BY <1>1, DepthsAre
<1>3. ASSUME NEW key \in DOMAIN children
      PROVE  children[key] \in Tree[MaxDepth - 1]
  <2>1. value.children[key] \in Tree[MaxDepth - 1]
    BY <1>1, ChildrenAre, DepthsAre
  <2>2. f[value.children[key]] \in Tree[MaxDepth - 1]
    BY <1>2, <2>1 DEF KeepsLevels
  <2>3. Redacted \in Tree[MaxDepth - 1]
    BY <1>2, RedactedAndMasked
  <2>4. QED BY <2>2, <2>3
<1>4. children \in [DOMAIN value.children -> Tree[MaxDepth - 1]]
  BY <1>3
<1>5. /\ [value EXCEPT !.children = children] =
            Node(value.kind, "none", children)
      /\ Node(value.kind, "none", children) \in Tree[MaxDepth]
  BY <1>1, <1>4, TreeRebuilt
<1>6. QED BY <1>5, NodeIs DEF Redactable

LEMMA JsonOfBranch ==
    ASSUME NEW value \in Redactable, value.kind \in {"array", "record"}
    PROVE  LET json == RedactJsonSecrets[value]
           IN  /\ json = Node(value.kind, "none",
                              JsonChildren(RedactJsonSecrets, value))
               /\ json.kind = value.kind
               /\ json.children = JsonChildren(RedactJsonSecrets, value)
               /\ json \in Redactable
<1> DEFINE children == JsonChildren(RedactJsonSecrets, value)
<1>1. /\ DOMAIN children = DOMAIN value.children
      /\ children = [key \in DOMAIN children |-> children[key]]
      /\ \A key \in DOMAIN children :
            \/ children[key] = Redacted
            \/ children[key] = RedactJsonSecrets[value.children[key]]
  BY DEF JsonChildren
<1>2. RedactJsonSecrets[value] = [value EXCEPT !.children = children]
  BY JsonSecretsAre DEF JsonBy
<1>3. KeepsLevels(RedactJsonSecrets)
  BY JsonSecretsAre
<1> HIDE DEF children
<1>4. /\ [value EXCEPT !.children = children] =
            Node(value.kind, "none", children)
      /\ [value EXCEPT !.children = children].kind = value.kind
      /\ [value EXCEPT !.children = children].children = children
      /\ [value EXCEPT !.children = children] \in Redactable
  BY <1>1, <1>3, BranchRebuilt
<1>5. QED BY <1>2, <1>4 DEF children

LEMMA ValueOfBranch ==
    ASSUME NEW value \in Redactable, value.kind \in {"array", "record"}
    PROVE  LET redacted == RedactValue[value]
           IN  /\ redacted = Node(value.kind, "none",
                                  ValueChildren(RedactValue, value))
               /\ redacted.kind = value.kind
               /\ redacted.children = ValueChildren(RedactValue, value)
               /\ redacted \in Redactable
<1> DEFINE children == ValueChildren(RedactValue, value)
<1>1. /\ DOMAIN children = DOMAIN value.children
      /\ children = [key \in DOMAIN children |-> children[key]]
      /\ \A key \in DOMAIN children :
            \/ children[key] = Redacted
            \/ children[key] = RedactValue[value.children[key]]
  BY DEF ValueChildren
<1>2. RedactValue[value] = [value EXCEPT !.children = children]
  BY RedactedValueIs DEF ValueBy
<1>3. KeepsLevels(RedactValue)
  BY RedactedValueIs
<1> HIDE DEF children
<1>4. /\ [value EXCEPT !.children = children] =
            Node(value.kind, "none", children)
      /\ [value EXCEPT !.children = children].kind = value.kind
      /\ [value EXCEPT !.children = children].children = children
      /\ [value EXCEPT !.children = children] \in Redactable
  BY <1>1, <1>3, BranchRebuilt
<1>5. QED BY <1>2, <1>4 DEF children

LEMMA JsonOfOther ==
    ASSUME NEW value \in Redactable, value.kind \notin {"array", "record"}
    PROVE  RedactJsonSecrets[value] = value
BY JsonSecretsAre DEF JsonBy

LEMMA JsonKeepsKind ==
    ASSUME NEW value \in Redactable
    PROVE  RedactJsonSecrets[value].kind = value.kind
BY JsonOfBranch, JsonOfOther

LEMMA SupportedBranch ==
    ASSUME NEW value \in Redactable, value.kind \in {"array", "record"}
    PROVE  Supported[value] <=>
              \A key \in DOMAIN value.children :
                 IsSensitive(value, key) \/ Supported[value.children[key]]
<1>1. value.kind # "unsupported" /\ value.kind # "serialized"
  OBVIOUS
<1>2. Supported[value] <=> SupportedBy(Supported, value)
  BY SupportedIs
<1>3. QED BY <1>1, <1>2, Zenon DEF SupportedBy

\* JSON_SECRET leaves alone what it has redacted, and what makes redactValue
\* throw.
LEMMA JsonSecretsSettle ==
    ASSUME NEW value \in Redactable
    PROVE  LET json == RedactJsonSecrets[value]
           IN  /\ RedactJsonSecrets[json] = json
               /\ Supported[json] <=> Supported[value]
<1> DEFINE Json(v) == RedactJsonSecrets[v]
           good == {v \in Redactable : /\ Json(Json(v)) = Json(v)
                                       /\ Supported[Json(v)] <=> Supported[v]}
<1>1. ASSUME NEW v \in Redactable,
             \A key \in DOMAIN v.children : v.children[key] \in good
      PROVE  v \in good
  <2>1. CASE v.kind \notin {"array", "record"}
    BY <2>1, JsonOfOther
  <2>2. CASE v.kind \in {"array", "record"}
    <3> DEFINE json == Json(v)
    <3>1. /\ json = Node(v.kind, "none", JsonChildren(RedactJsonSecrets, v))
          /\ json.kind = v.kind /\ json \in Redactable
          /\ json.children = JsonChildren(RedactJsonSecrets, v)
      BY <2>2, JsonOfBranch
    <3>2. DOMAIN json.children = DOMAIN v.children
      BY <3>1 DEF JsonChildren
    <3> HIDE DEF json
    <3>3. ASSUME NEW key \in DOMAIN v.children
          PROVE  /\ IsSensitive(json, key) <=> IsSensitive(v, key)
                 /\ Replaced(json, key) <=> Replaced(v, key)
                 /\ Replaced(v, key) => json.children[key] = Redacted
                 /\ ~Replaced(v, key) =>
                       json.children[key] = Json(v.children[key])
      <4>1. IsSensitive(json, key) <=> IsSensitive(v, key)
        BY <3>1 DEF IsSensitive
      <4>2. /\ Replaced(v, key) => json.children[key] = Redacted
            /\ ~Replaced(v, key) => json.children[key] = Json(v.children[key])
        BY <3>1 DEF JsonChildren
      <4>3. Json(v.children[key]).kind = v.children[key].kind
        BY ChildrenWithin, JsonKeepsKind
      <4>4. Replaced(json, key) <=> Replaced(v, key)
        <5> HIDE DEF Json
        <5> QED BY <4>1, <4>2, <4>3, RedactedAndMasked DEF Replaced
      <4>5. QED BY <4>1, <4>2, <4>4
    <3>4. JsonChildren(RedactJsonSecrets, json) =
             JsonChildren(RedactJsonSecrets, v)
      <4>1. ASSUME NEW key \in DOMAIN v.children
            PROVE  (IF Replaced(json, key) THEN Redacted
                    ELSE RedactJsonSecrets[json.children[key]]) =
                   (IF Replaced(v, key) THEN Redacted
                    ELSE RedactJsonSecrets[v.children[key]])
        BY <1>1, <3>3
      <4>2. QED BY <3>2, <4>1 DEF JsonChildren
    <3>5. Json(json) = json
      BY <2>2, <3>1, <3>4, JsonOfBranch
    <3>6. ASSUME NEW key \in DOMAIN v.children
          PROVE  IsSensitive(json, key) \/ Supported[json.children[key]] <=>
                    IsSensitive(v, key) \/ Supported[v.children[key]]
      <4>1. CASE IsSensitive(v, key)
        BY <3>3, <4>1
      <4>2. CASE ~IsSensitive(v, key)
        <5>1. json.children[key] = Json(v.children[key])
          BY <3>3, <4>2 DEF Replaced
        <5>2. Supported[Json(v.children[key])] <=> Supported[v.children[key]]
          BY <1>1, Zenon
        <5> HIDE DEF Json
        <5>3. QED BY <3>3, <5>1, <5>2
      <4>3. QED BY <4>1, <4>2
    <3>7. Supported[json] <=> Supported[v]
      <4>1. /\ Supported[v] <=>
                  \A key \in DOMAIN v.children :
                     IsSensitive(v, key) \/ Supported[v.children[key]]
            /\ Supported[json] <=>
                  \A key \in DOMAIN json.children :
                     IsSensitive(json, key) \/ Supported[json.children[key]]
        BY <2>2, <3>1, SupportedBranch
      <4>2. QED BY <3>2, <3>6, <4>1, Zenon
    <3>8. QED BY <3>5, <3>7, Zenon DEF json
  <2>3. QED BY <2>1, <2>2
<1>2. Redactable \subseteq good
  <2> HIDE DEF good
  <2> QED BY <1>1, TreeInduction
<1>3. QED BY <1>2, Zenon

\* What is neither an array nor a record nor serialized has no parts.
LEMMA OtherIsLeaf ==
    ASSUME NEW value \in Redactable,
           value.kind \notin {"array", "record", "serialized"}
    PROVE  /\ value \in Leaves
           /\ Parts[value] = {value}
           /\ Supported[value] <=> value.kind # "unsupported"
           /\ RedactValue[value] =
                 IF value.kind = "text" THEN Patterns(value) ELSE value
<1>1. value \in Leaves
  BY TreeIs, BranchIs, DepthsAre DEF Redactable
<1>2. DOMAIN value.children = {}
  BY <1>1, LeafIs
<1>3. Parts[value] = {value}
  BY <1>2, PartsAre DEF PartsBy
<1>4. Supported[value] <=> SupportedBy(Supported, value)
  BY SupportedIs
<1>5. Supported[value] <=> value.kind # "unsupported"
  BY <1>2, <1>4, Zenon DEF SupportedBy
<1>6. RedactValue[value] = ValueBy(RedactValue, value)
  BY RedactedValueIs
<1>7. RedactValue[value] =
         IF value.kind = "text" THEN Patterns(value) ELSE value
  BY <1>6 DEF ValueBy
<1>8. QED BY <1>1, <1>3, <1>5, <1>7

LEMMA MaskedStays ==
    /\ Masked \in Redactable /\ Redacted \in Redactable
    /\ Rewritten \in Redactable
    /\ Parts[Rewritten] = {Rewritten}
    /\ Supported[Masked] /\ Supported[Rewritten]
    /\ RedactValue[Masked] = Masked
<1>1. /\ Masked \in Redactable /\ Redacted \in Redactable
      /\ Rewritten \in Redactable
      /\ Masked.kind = "text" /\ Rewritten.kind = "text"
  BY RedactedAndMasked, DepthsAre DEF Redactable
<1>2. /\ Parts[Rewritten] = {Rewritten}
      /\ Supported[Masked] /\ Supported[Rewritten]
      /\ RedactValue[Masked] = Patterns(Masked)
  BY <1>1, OtherIsLeaf
<1>3. QED BY <1>1, <1>2, MaskedIsLeft

LEMMA ValueOfSerialized ==
    ASSUME NEW value \in Redactable, value.kind = "serialized"
    PROVE  /\ Supported[value]
           /\ "content" \in DOMAIN value.children
           /\ Content(value) = value.children["content"]
           /\ Content(value) \in Redactable
           /\ Parts[value] = {value} \cup Parts[Content(value)]
           /\ RedactValue[value] =
                 Reserialized(IF Supported[Content(value)]
                              THEN RedactValue[Content(value)]
                              ELSE RedactJsonSecrets[Content(value)])
<1>1. /\ "content" \in DOMAIN value.children
      /\ DOMAIN value.children = {"content"}
  BY ContentIs, DepthsAre DEF Redactable
<1>2. Content(value) = value.children["content"]
  BY DEF Content
<1>3. Content(value) \in Redactable
  BY <1>1, <1>2, ChildrenWithin
<1>4. Supported[value] <=> SupportedBy(Supported, value)
  BY SupportedIs
<1>5. Supported[value]
  BY <1>4 DEF SupportedBy
<1>6. Parts[value] = {value} \cup Parts[Content(value)]
  BY <1>1, <1>2, PartsAre DEF PartsBy
<1>7. RedactValue[value] = ValueBy(RedactValue, value)
  BY RedactedValueIs
<1>8. RedactValue[value] =
         RedactSerialized(Content(value), RedactValue[Content(value)])
  BY <1>7 DEF ValueBy
<1>9. QED BY <1>1, <1>2, <1>3, <1>5, <1>6, <1>8 DEF RedactSerialized

\* A string that has been serialized again is as it was if its content is
\* redacted for good, by what parses it or by what does not.
LEMMA SerializedSettles ==
    ASSUME NEW content \in Redactable, Reserialized(content) \in Redactable,
           Reserialized(content) # Rewritten,
           IF Supported[content] THEN RedactValue[content] = content
           ELSE RedactJsonSecrets[content] = content
    PROVE  RedactValue[Reserialized(content)] = Reserialized(content)
<1>1. CASE Reserialized(content) = Masked
  BY <1>1, MaskedStays
<1>2. CASE Reserialized(content) # Masked
  <2> DEFINE string == Serialized(content)
  <2>1. Reserialized(content) = string /\ Patterns(string) = string
    BY <1>2, PatternsLeave DEF Reserialized
  <2>2. string \in Redactable /\ string.kind = "serialized"
        /\ Content(string) = content
    BY <2>1, SerializedIs
  <2> HIDE DEF string
  <2>3. RedactValue[string] =
           Reserialized(IF Supported[content] THEN RedactValue[content]
                        ELSE RedactJsonSecrets[content])
    BY <2>2, ValueOfSerialized
  <2>4. QED BY <2>1, <2>3
<1>3. QED BY <1>1, <1>2

\* What has been redacted can be redacted.
LEMMA ValueIsSupported ==
    ASSUME NEW value \in Redactable, Supported[value]
    PROVE  Supported[RedactValue[value]]
<1> DEFINE R(v) == RedactValue[v]
           good == {v \in Redactable : Supported[v] => Supported[R(v)]}
<1>1. ASSUME NEW v \in Redactable, Supported[v],
             \A key \in DOMAIN v.children : v.children[key] \in good
      PROVE  Supported[R(v)]
  <2>1. CASE v.kind \notin {"array", "record", "serialized"}
    <3>1. R(v) = v \/ R(v) = Masked \/ R(v) = Rewritten
      BY <2>1, OtherIsLeaf, PatternsLeave
    <3>2. QED BY <1>1, <3>1, MaskedStays
  <2>2. CASE v.kind = "serialized"
    <3>1. R(v) \in Redactable
      BY RedactedValueIs, DepthsAre DEF KeepsLevels, Redactable
    <3>2. PICK content : R(v) = Reserialized(content)
      BY <2>2, ValueOfSerialized
    <3>3. CASE R(v) = Masked \/ R(v) = Rewritten
      BY <3>3, MaskedStays
    <3>4. CASE R(v) # Masked /\ R(v) # Rewritten
      <4>1. R(v) = Serialized(content)
        BY <3>2, <3>4, PatternsLeave DEF Reserialized
      <4>2. R(v).kind = "serialized"
        BY <4>1, SerializedIs
      <4>3. QED BY <3>1, <4>2, ValueOfSerialized
    <3>5. QED BY <3>3, <3>4
  <2>3. CASE v.kind \in {"array", "record"}
    <3> DEFINE redacted == R(v)
    <3>1. /\ redacted.kind = v.kind /\ redacted \in Redactable
          /\ redacted.children = ValueChildren(RedactValue, v)
      BY <2>3, ValueOfBranch
    <3>2. DOMAIN redacted.children = DOMAIN v.children
      BY <3>1 DEF ValueChildren
    <3> HIDE DEF redacted
    <3>3. ASSUME NEW key \in DOMAIN v.children
          PROVE  IsSensitive(redacted, key) \/ Supported[redacted.children[key]]
      <4>1. IsSensitive(redacted, key) <=> IsSensitive(v, key)
        BY <3>1 DEF IsSensitive
      <4>2. ~IsSensitive(v, key) =>
               redacted.children[key] = R(v.children[key])
        BY <3>1 DEF ValueChildren
      <4>3. ~IsSensitive(v, key) => Supported[v.children[key]]
        BY <1>1, <2>3, SupportedBranch, Zenon
      <4>4. v.children[key] \in good
        BY <1>1
      <4>5. QED BY <4>1, <4>2, <4>3, <4>4, Zenon
    <3>4. Supported[redacted] <=>
             \A key \in DOMAIN redacted.children :
                IsSensitive(redacted, key) \/ Supported[redacted.children[key]]
      BY <2>3, <3>1, SupportedBranch
    <3>5. Supported[redacted]
      BY <3>2, <3>3, <3>4, Zenon
    <3>6. QED BY <3>5 DEF redacted
  <2>4. QED BY <2>1, <2>2, <2>3
<1>2. ASSUME NEW v \in Redactable,
             \A key \in DOMAIN v.children : v.children[key] \in good
      PROVE  v \in good
  BY <1>1, <1>2, Zenon
<1>3. Redactable \subseteq good
  <2> HIDE DEF good
  <2> QED BY <1>2, TreeInduction
<1>4. QED BY <1>3, Zenon

\* No pattern has left in a value what may be JSON again.
Settled(value) == Rewritten \notin Parts[value]

LEMMA SettledChild ==
    ASSUME NEW value \in Redactable, Settled(value)
    PROVE  \A key \in DOMAIN value.children : Settled(value.children[key])
<1>1. \A key \in DOMAIN value.children :
         Parts[value.children[key]] \subseteq Parts[value]
  BY PartsAre DEF PartsBy
<1>2. QED BY <1>1 DEF Settled

\* Redacting what has been redacted changes nothing, if it is settled.
LEMMA ValueSettles ==
    ASSUME NEW value \in Redactable, Supported[value],
           Settled(RedactValue[value])
    PROVE  RedactValue[RedactValue[value]] = RedactValue[value]
<1> DEFINE R(v) == RedactValue[v]
           good == {v \in Redactable :
                       Supported[v] /\ Settled(R(v)) => R(R(v)) = R(v)}
<1>1. ASSUME NEW v \in Redactable, Supported[v], Settled(R(v)),
             \A key \in DOMAIN v.children : v.children[key] \in good
      PROVE  R(R(v)) = R(v)
  <2>1. R(v) \in Redactable
    BY RedactedValueIs, DepthsAre DEF KeepsLevels, Redactable
  <2>2. R(v) # Rewritten
    BY <1>1, MaskedStays DEF Settled
  <2>3. CASE v.kind \notin {"array", "record", "serialized"}
    <3>1. R(v) = IF v.kind = "text" THEN Patterns(v) ELSE v
      BY <2>3, OtherIsLeaf
    <3>2. R(v) = v \/ R(v) = Masked
      BY <2>2, <3>1, PatternsLeave
    <3>3. QED BY <3>2, MaskedStays
  <2>4. CASE v.kind = "serialized"
    <3>1. /\ "content" \in DOMAIN v.children
          /\ Content(v) = v.children["content"]
          /\ Content(v) \in Redactable
          /\ R(v) = Reserialized(IF Supported[Content(v)] THEN R(Content(v))
                                 ELSE RedactJsonSecrets[Content(v)])
      BY <2>4, ValueOfSerialized
    <3>2. CASE R(v) = Masked
      BY <3>2, MaskedStays
    <3>3. CASE R(v) # Masked /\ Supported[Content(v)]
      <4> DEFINE content == R(Content(v))
      <4>1. R(v) = Reserialized(content) /\ content \in Redactable
        BY <3>1, <3>3, RedactedValueIs, DepthsAre DEF KeepsLevels, Redactable
      <4>2. Supported[content]
        BY <3>1, <3>3, ValueIsSupported
      <4> HIDE DEF content
      <4>3. R(v) = Serialized(content)
        BY <2>2, <3>3, <4>1, PatternsLeave DEF Reserialized
      <4>4. Settled(content)
        <5>1. /\ DOMAIN R(v).children = {"content"}
              /\ R(v).children["content"] = content
          BY <4>3, SerializedIs DEF Content
        <5>2. QED BY <1>1, <2>1, <5>1, SettledChild
      <4>5. Content(v) \in good
        BY <1>1, <3>1
      <4>6. R(content) = content
        BY <3>3, <4>4, <4>5 DEF content
      <4>7. QED BY <2>1, <2>2, <4>1, <4>2, <4>6, SerializedSettles
    <3>4. CASE ~Supported[Content(v)]
      <4> DEFINE json == RedactJsonSecrets[Content(v)]
      <4>1. /\ RedactJsonSecrets[json] = json
            /\ Supported[json] <=> Supported[Content(v)]
        BY <3>1, JsonSecretsSettle
      <4>2. json \in Redactable
        BY <3>1, JsonSecretsAre, DepthsAre DEF KeepsLevels, Redactable
      <4>3. R(v) = Reserialized(json)
        BY <3>1, <3>4
      <4> HIDE DEF json
      <4>4. ~Supported[json]
        BY <3>4, <4>1
      <4>5. QED BY <2>1, <2>2, <4>1, <4>2, <4>3, <4>4, SerializedSettles
    <3>5. QED BY <3>2, <3>3, <3>4
  <2>5. CASE v.kind \in {"array", "record"}
    <3> DEFINE redacted == R(v)
    <3>1. /\ redacted = Node(v.kind, "none", ValueChildren(RedactValue, v))
          /\ redacted.kind = v.kind /\ redacted \in Redactable
          /\ redacted.children = ValueChildren(RedactValue, v)
      BY <2>5, ValueOfBranch
    <3>2. DOMAIN redacted.children = DOMAIN v.children
      BY <3>1 DEF ValueChildren
    <3>3. Settled(redacted)
      BY <1>1
    <3> HIDE DEF redacted
    <3>4. ASSUME NEW key \in DOMAIN v.children
          PROVE  /\ IsSensitive(redacted, key) <=> IsSensitive(v, key)
                 /\ ~IsSensitive(v, key) =>
                       /\ redacted.children[key] = R(v.children[key])
                       /\ R(R(v.children[key])) = R(v.children[key])
      <4>1. IsSensitive(redacted, key) <=> IsSensitive(v, key)
        BY <3>1 DEF IsSensitive
      <4>2. ~IsSensitive(v, key) =>
               redacted.children[key] = R(v.children[key])
        BY <3>1 DEF ValueChildren
      <4>3. ~IsSensitive(v, key) => Supported[v.children[key]]
        BY <1>1, <2>5, SupportedBranch, Zenon
      <4>4. v.children[key] \in good
        BY <1>1
      <4>5. Settled(redacted.children[key])
        BY <3>1, <3>2, <3>3, SettledChild
      <4>6. ~IsSensitive(v, key) => Settled(R(v.children[key]))
        <5> HIDE DEF R
        <5> QED BY <4>2, <4>5
      <4>7. QED BY <4>1, <4>2, <4>3, <4>4, <4>6, Zenon
    <3>5. ValueChildren(RedactValue, redacted) = ValueChildren(RedactValue, v)
      <4>1. ASSUME NEW key \in DOMAIN v.children
            PROVE  (IF IsSensitive(redacted, key) THEN Redacted
                    ELSE RedactValue[redacted.children[key]]) =
                   (IF IsSensitive(v, key) THEN Redacted
                    ELSE RedactValue[v.children[key]])
        BY <3>4
      <4>2. QED BY <3>2, <4>1 DEF ValueChildren
    <3>6. R(redacted) = redacted
      BY <2>5, <3>1, <3>5, ValueOfBranch
    <3>7. QED BY <3>6, Zenon DEF redacted
  <2>6. QED BY <2>3, <2>4, <2>5
<1>2. ASSUME NEW v \in Redactable,
             \A key \in DOMAIN v.children : v.children[key] \in good
      PROVE  v \in good
  BY <1>1, <1>2, Zenon
<1>3. Redactable \subseteq good
  <2> HIDE DEF good
  <2> QED BY <1>2, TreeInduction
<1>4. QED BY <1>3, Zenon

\* What is serialized in a value can be redacted.
Parsable(value) ==
    \A part \in Parts[value] :
        part.kind = "serialized" => Supported[Content(part)]

CleanAlone(part) ==
    /\ part.kind \in {"text", "serialized"} =>
          Left(part) = "same" \/ part = Rewritten
    /\ \A key \in DOMAIN part.children :
          IsSensitive(part, key) => part.children[key] = Redacted

LEMMA CleanBranch ==
    ASSUME NEW value \in Redactable,
           value.kind = "serialized" => Left(value) = "same",
           value.kind \in {"array", "record", "serialized"},
           \A key \in DOMAIN value.children :
              /\ Clean(value.children[key])
              /\ IsSensitive(value, key) => value.children[key] = Redacted
    PROVE  Clean(value)
<1>1. CleanAlone(value)
  BY DEF CleanAlone
<1>2. \A key \in DOMAIN value.children :
         \A part \in Parts[value.children[key]] : CleanAlone(part)
  BY Zenon DEF Clean, CleanAlone
<1>3. \A part \in Parts[value] : CleanAlone(part)
  <2>1. Parts[value] = {value} \cup UNION {Parts[value.children[key]] :
                                              key \in DOMAIN value.children}
    BY PartsAre DEF PartsBy
  <2>2. QED BY <1>1, <1>2, <2>1
<1>4. QED BY <1>3, Zenon DEF Clean, CleanAlone

LEMMA CleanLeaf ==
    ASSUME NEW value \in Redactable,
           value.kind \notin {"array", "record", "serialized"},
           value.kind = "text" => Left(value) = "same" \/ value = Rewritten
    PROVE  Clean(value)
<1>1. value \in Leaves /\ Parts[value] = {value}
  BY OtherIsLeaf
<1>2. DOMAIN value.children = {}
  BY <1>1, LeafIs
<1>3. QED BY <1>1, <1>2 DEF Clean

LEMMA ParsableChild ==
    ASSUME NEW value \in Redactable, Parsable(value)
    PROVE  \A key \in DOMAIN value.children : Parsable(value.children[key])
<1>1. \A key \in DOMAIN value.children :
         Parts[value.children[key]] \subseteq Parts[value]
  BY PartsAre DEF PartsBy
<1>2. QED BY <1>1 DEF Parsable

\* Redacting reaches every level at once.
LEMMA ValueIsClean ==
    ASSUME NEW value \in Redactable, Parsable(value)
    PROVE  Clean(RedactValue[value])
<1> DEFINE R(v) == RedactValue[v]
           good == {v \in Redactable : Parsable(v) => Clean(R(v))}
<1>1. Clean(Masked) /\ Clean(Redacted) /\ Clean(Rewritten)
  BY CleanLeaf, MaskedStays, MaskedIsLeft, RedactedAndMasked
<1>2. ASSUME NEW v \in Redactable, Parsable(v),
             \A key \in DOMAIN v.children : v.children[key] \in good
      PROVE  Clean(R(v))
  <2>1. \A key \in DOMAIN v.children : Clean(R(v.children[key]))
    BY <1>2, ParsableChild, Zenon
  <2>2. R(v) \in Redactable
    BY RedactedValueIs, DepthsAre DEF KeepsLevels, Redactable
  <2>3. CASE v.kind \notin {"array", "record", "serialized"}
    <3>1. R(v) = IF v.kind = "text" THEN Patterns(v) ELSE v
      BY <2>3, OtherIsLeaf
    <3>2. CASE R(v) = Masked \/ R(v) = Rewritten
      BY <1>1, <3>2
    <3>3. CASE R(v) # Masked /\ R(v) # Rewritten
      <4>1. R(v) = v /\ (v.kind = "text" => Left(v) = "same")
        BY <3>1, <3>3, PatternsLeave
      <4>2. QED BY <2>3, <4>1, CleanLeaf
    <3>4. QED BY <3>2, <3>3
  <2>4. CASE v.kind = "serialized"
    <3>1. /\ "content" \in DOMAIN v.children
          /\ Content(v) = v.children["content"]
          /\ R(v) = Reserialized(IF Supported[Content(v)] THEN R(Content(v))
                                 ELSE RedactJsonSecrets[Content(v)])
      BY <2>4, ValueOfSerialized
    <3>2. Supported[Content(v)]
      BY <1>2, <2>4, PartsWithin DEF Parsable
    <3>3. R(v) = Reserialized(R(Content(v))) /\ Clean(R(Content(v)))
      BY <2>1, <3>1, <3>2
    <3>4. CASE R(v) = Masked \/ R(v) = Rewritten
      BY <1>1, <3>4
    <3>5. CASE R(v) # Masked /\ R(v) # Rewritten
      <4>1. R(v) = Serialized(R(Content(v))) /\ Left(R(v)) = "same"
        BY <3>3, <3>5, PatternsLeave DEF Reserialized
      <4>2. /\ R(v).kind = "serialized"
            /\ Content(R(v)) = R(Content(v))
            /\ DOMAIN R(v).children = {"content"}
        BY <4>1, SerializedIs
      <4>3. ASSUME NEW key \in DOMAIN R(v).children
            PROVE  Clean(R(v).children[key]) /\ ~IsSensitive(R(v), key)
        BY <3>3, <4>2 DEF Content, IsSensitive
      <4>4. QED BY <2>2, <4>1, <4>2, <4>3, CleanBranch
    <3>6. QED BY <3>4, <3>5
  <2>5. CASE v.kind \in {"array", "record"}
    <3>1. /\ R(v).kind = v.kind
          /\ R(v).children = ValueChildren(RedactValue, v)
      BY <2>5, ValueOfBranch
    <3>2. ASSUME NEW key \in DOMAIN R(v).children
          PROVE  /\ Clean(R(v).children[key])
                 /\ IsSensitive(R(v), key) => R(v).children[key] = Redacted
      <4>1. /\ key \in DOMAIN v.children
            /\ R(v).children[key] = IF IsSensitive(v, key) THEN Redacted
                                    ELSE R(v.children[key])
        BY <3>1 DEF ValueChildren
      <4>2. IsSensitive(R(v), key) <=> IsSensitive(v, key)
        BY <3>1 DEF IsSensitive
      <4>3. QED BY <1>1, <2>1, <4>1, <4>2
    <3>3. QED BY <2>2, <2>5, <3>1, <3>2, CleanBranch
  <2>6. QED BY <2>3, <2>4, <2>5
<1>3. ASSUME NEW v \in Redactable,
             \A key \in DOMAIN v.children : v.children[key] \in good
      PROVE  v \in good
  BY <1>2, <1>3, Zenon
<1>4. Redactable \subseteq good
  <2> HIDE DEF good
  <2> QED BY <1>3, TreeInduction
<1>5. QED BY <1>4, Zenon

\* What is selected from a selection comes in the same order.
LEMMA AscendingWithin ==
    ASSUME NEW outer \in SUBSET Nat, IsFiniteSet(outer),
           NEW inner \in SUBSET outer,
           NEW places, places = {i \in 1..Cardinality(outer) :
                                    Ascending(outer)[i] \in inner}
    PROVE  /\ places \in SUBSET Nat /\ IsFiniteSet(places)
           /\ IsFiniteSet(inner)
           /\ Cardinality(places) = Cardinality(inner)
           /\ \A i \in 1..Cardinality(inner) :
                 /\ Ascending(places)[i] \in places
                 /\ Ascending(outer)[Ascending(places)[i]] = Ascending(inner)[i]
<1>1. PICK n, order :
         /\ n \in Nat /\ n = Cardinality(outer) /\ order = Ascending(outer)
         /\ order \in [1..n -> outer]
         /\ \A x \in outer : \E i \in 1..n : order[i] = x
         /\ \A i, j \in 1..n : i < j => order[i] < order[j]
  BY AscendingSorts
<1>2. places \in SUBSET (1..n) /\ places \in SUBSET Nat
  BY <1>1
<1>3. IsFiniteSet(places) /\ IsFiniteSet(inner)
  BY <1>1, <1>2, IntervalSize, FS_Subset
<1>4. PICK m, place :
         /\ m \in Nat /\ m = Cardinality(places) /\ place = Ascending(places)
         /\ place \in [1..m -> places]
         /\ \A x \in places : \E i \in 1..m : place[i] = x
         /\ \A i, j \in 1..m : i < j => place[i] < place[j]
  BY <1>2, <1>3, AscendingSorts
<1>5. PICK a : a = [i \in 1..m |-> order[place[i]]]
  OBVIOUS
<1>6. inner \in SUBSET Nat
  OBVIOUS
<1>7. ASSUME NEW i \in 1..m
      PROVE  /\ place[i] \in places /\ place[i] \in 1..n
             /\ order[place[i]] \in inner
  BY <1>1, <1>2, <1>4
<1>8. a \in [1..m -> inner]
  BY <1>5, <1>7
<1>9. ASSUME NEW x \in inner PROVE \E i \in 1..m : a[i] = x
  <2>1. PICK j \in 1..n : order[j] = x
    BY <1>1
  <2>2. j \in places
    BY <1>1, <2>1
  <2>3. PICK i \in 1..m : place[i] = j
    BY <1>4, <2>2
  <2>4. QED BY <1>5, <2>1, <2>3
<1>10. ASSUME NEW i \in 1..m, NEW j \in 1..m, i < j PROVE a[i] < a[j]
  <2>1. place[i] < place[j] /\ place[i] \in 1..n /\ place[j] \in 1..n
    BY <1>4, <1>7, <1>10
  <2>2. order[place[i]] < order[place[j]]
    BY <1>1, <2>1
  <2>3. QED BY <1>5, <2>2
<1>11. /\ Cardinality(inner) = m
       /\ \A i \in 1..m : Ascending(inner)[i] = a[i]
  <2>1. m \in Nat
    BY <1>4
  <2>2. QED BY <1>3, <1>6, <1>8, <1>9, <1>10, <2>1, AscendingIs
<1>12. QED BY <1>1, <1>2, <1>3, <1>4, <1>5, <1>7, <1>11

\* A query whose sensitive values are hidden, and the positions that stay.
Hidden(query) ==
    [i \in DOMAIN query |->
        IF query[i].key \in SensitiveKey
        THEN [query[i] EXCEPT !.value = Redacted] ELSE query[i]]

Remaining(query) ==
    {i \in DOMAIN query :
        \/ query[i].key \notin SensitiveKey
        \/ \A j \in 1..(i - 1) : query[j].key # query[i].key}

Insensitive(query) == {i \in DOMAIN query : query[i].key \notin SensitiveKey}

\* The parameters of a query, of any names and values.
IsQuery(query) ==
    \E KeyNames, KeyValues : query \in Seq([key: KeyNames, value: KeyValues])

LEMMA QueryIs ==
    ASSUME NEW query, IsQuery(query)
    PROVE  /\ Len(query) \in Nat /\ DOMAIN query = 1..Len(query)
           /\ \A i \in DOMAIN query :
                 LET hidden == [query[i] EXCEPT !.value = Redacted]
                 IN  /\ hidden.key = query[i].key
                     /\ hidden.value = Redacted
                     /\ query[i].value = Redacted => hidden = query[i]
<1>1. PICK KeyNames, KeyValues : query \in Seq([key: KeyNames, value: KeyValues])
  BY DEF IsQuery
<1>2. PICK Records : Records = [key: KeyNames, value: KeyValues]
  OBVIOUS
<1>3. query \in Seq(Records)
  BY <1>1, <1>2
<1>4. /\ Len(query) \in Nat /\ DOMAIN query = 1..Len(query)
      /\ \A i \in DOMAIN query : query[i] \in Records
  BY <1>3
<1>5. \A record \in Records :
         LET hidden == [record EXCEPT !.value = Redacted]
         IN  /\ hidden.key = record.key
             /\ hidden.value = Redacted
             /\ record.value = Redacted => hidden = record
  BY <1>2
<1>6. QED BY <1>4, <1>5

LEMMA HiddenIsQuery ==
    ASSUME NEW query, IsQuery(query), NEW seq, NEW n \in Nat,
           seq = [i \in 1..n |-> seq[i]],
           \A i \in 1..n : \E k \in DOMAIN query : seq[i] = Hidden(query)[k]
    PROVE  IsQuery(seq)
<1>1. PICK KeyNames, KeyValues : query \in Seq([key: KeyNames, value: KeyValues])
  BY DEF IsQuery
<1>2. PICK Records, Redactions :
         /\ Records = [key: KeyNames, value: KeyValues]
         /\ Redactions = [key: KeyNames, value: KeyValues \cup {Redacted}]
  OBVIOUS
<1>3. query \in Seq(Records)
  BY <1>1, <1>2
<1>4. \A i \in DOMAIN query : query[i] \in Records
  BY <1>3
<1>5. \A record \in Records :
         /\ record \in Redactions
         /\ [record EXCEPT !.value = Redacted] \in Redactions
  BY <1>2
<1>6. \A k \in DOMAIN query : Hidden(query)[k] \in Redactions
  BY <1>4, <1>5 DEF Hidden
<1>7. seq \in [1..n -> Redactions]
  BY <1>6
<1>8. seq \in Seq(Redactions)
  BY <1>7, SeqDef
<1>9. QED BY <1>2, <1>8, Zenon DEF IsQuery

\* The parameters of a redacted query, and where they come from.
RedactsTo(query, redacted, remaining, place) ==
    /\ remaining \in SUBSET Nat /\ IsFiniteSet(remaining)
    /\ IsQuery(redacted)
    /\ redacted = [i \in 1..Cardinality(remaining) |-> redacted[i]]
    /\ \A i \in 1..Cardinality(remaining) :
          /\ place[i] \in remaining
          /\ redacted[i] = Hidden(query)[place[i]]
          /\ redacted[i].key = query[place[i]].key
          /\ redacted[i].key \in SensitiveKey => redacted[i].value = Redacted
          /\ redacted[i].key \notin SensitiveKey => redacted[i] = query[place[i]]
    /\ ToSet(redacted) = {Hidden(query)[i] : i \in remaining}

LEMMA QueryIsHidden ==
    ASSUME NEW query, IsQuery(query)
    PROVE  RedactsTo(query, HideQuery(query), Remaining(query),
                     Ascending(Remaining(query)))
<1> DEFINE place == Ascending(Remaining(query))
<1>1. /\ Len(query) \in Nat /\ DOMAIN query = 1..Len(query)
  BY QueryIs
<1>2. Remaining(query) \in SUBSET Nat /\ IsFiniteSet(Remaining(query))
  <2>1. Remaining(query) \in SUBSET (1..Len(query))
    BY <1>1 DEF Remaining
  <2>2. IsFiniteSet(1..Len(query))
    BY <1>1, IntervalSize
  <2>3. QED BY <2>1, <2>2, FS_Subset
<1>3. HideQuery(query) = ElementsAt(Hidden(query), Remaining(query))
  BY DEF HideQuery, Hidden, Remaining
<1>4. PICK n, redacted :
         /\ n \in Nat /\ n = Cardinality(Remaining(query))
         /\ redacted = HideQuery(query)
         /\ DOMAIN redacted = 1..n
         /\ \A i \in 1..n : /\ place[i] \in Remaining(query)
                            /\ redacted[i] = Hidden(query)[place[i]]
         /\ ToSet(redacted) = {Hidden(query)[i] : i \in Remaining(query)}
  BY <1>2, <1>3, ElementsAtSelects
<1>5. ASSUME NEW i \in DOMAIN query
      PROVE  /\ Hidden(query)[i].key = query[i].key
             /\ query[i].key \in SensitiveKey =>
                   Hidden(query)[i].value = Redacted
             /\ query[i].key \notin SensitiveKey =>
                   Hidden(query)[i] = query[i]
  <2>1. Hidden(query)[i] = IF query[i].key \in SensitiveKey
                           THEN [query[i] EXCEPT !.value = Redacted]
                           ELSE query[i]
    BY DEF Hidden
  <2>2. QED BY <2>1, QueryIs
<1>6. Remaining(query) \subseteq DOMAIN query
  BY DEF Remaining
<1> HIDE DEF place
<1>7. ASSUME NEW i \in 1..n
      PROVE  /\ place[i] \in Remaining(query)
             /\ redacted[i] = Hidden(query)[place[i]]
             /\ redacted[i].key = query[place[i]].key
             /\ redacted[i].key \in SensitiveKey =>
                   redacted[i].value = Redacted
             /\ redacted[i].key \notin SensitiveKey =>
                   redacted[i] = query[place[i]]
  BY <1>4, <1>5, <1>6
<1>8. redacted = [i \in 1..n |-> redacted[i]]
  BY <1>3, <1>4 DEF ElementsAt
<1>9. IsQuery(redacted)
  <2>1. \A i \in 1..n : \E k \in DOMAIN query : redacted[i] = Hidden(query)[k]
    BY <1>6, <1>7
  <2>2. QED BY <1>4, <1>8, <2>1, HiddenIsQuery
<1>10. QED BY <1>2, <1>4, <1>7, <1>8, <1>9 DEF place, RedactsTo

\* A query that has been redacted is not redacted further.
LEMMA QuerySettles ==
    ASSUME NEW query, IsQuery(query)
    PROVE  HideQuery(HideQuery(query)) = HideQuery(query)
<1>1. PICK remaining, place, n, redacted :
         /\ remaining = Remaining(query) /\ place = Ascending(remaining)
         /\ n = Cardinality(remaining) /\ redacted = HideQuery(query)
  OBVIOUS
<1>2. /\ remaining \in SUBSET Nat /\ IsFiniteSet(remaining)
      /\ IsQuery(redacted) /\ redacted = [i \in 1..n |-> redacted[i]]
      /\ \A i \in 1..n :
            /\ place[i] \in remaining
            /\ redacted[i].key = query[place[i]].key
            /\ redacted[i].key \in SensitiveKey => redacted[i].value = Redacted
  <2>1. RedactsTo(query, redacted, remaining, place)
    BY <1>1, QueryIsHidden
  <2>2. QED BY <1>1, <2>1 DEF RedactsTo
<1>3. n \in Nat /\ \A i, j \in 1..n : i < j => place[i] < place[j]
  BY <1>1, <1>2, AscendingSorts
<1>4. Remaining(redacted) = 1..n
  <2>1. ASSUME NEW i \in 1..n, redacted[i].key \in SensitiveKey,
               NEW j \in 1..(i - 1)
        PROVE  redacted[j].key # redacted[i].key
    <3>1. j \in 1..n /\ j < i
      BY <1>3
    <3>2. /\ place[j] < place[i]
          /\ place[i] \in Remaining(query) /\ place[j] \in Remaining(query)
          /\ redacted[i].key = query[place[i]].key
          /\ redacted[j].key = query[place[j]].key
      BY <1>1, <1>2, <1>3, <3>1
    <3>3. /\ \A k \in 1..(place[i] - 1) : query[k].key # query[place[i]].key
          /\ place[i] \in DOMAIN query /\ place[j] \in DOMAIN query
      BY <2>1, <3>2 DEF Remaining
    <3>4. place[j] \in 1..(place[i] - 1)
      <4>1. Len(query) \in Nat /\ DOMAIN query = 1..Len(query)
        BY QueryIs
      <4>2. QED BY <3>2, <3>3, <4>1
    <3>5. QED BY <3>2, <3>3, <3>4
  <2>2. QED BY <1>2, <2>1 DEF Remaining
<1>5. PICK second, again :
         second = Ascending(1..n) /\ again = HideQuery(redacted)
  OBVIOUS
<1>6. Cardinality(1..n) = n /\ \A i \in 1..n : second[i] = i
  <2>1. PICK a : a = [i \in 1..n |-> i]
    OBVIOUS
  <2>2. /\ a \in [1..n -> 1..n] /\ \A x \in 1..n : \E i \in 1..n : a[i] = x
        /\ \A i, j \in 1..n : i < j => a[i] < a[j]
    BY <2>1
  <2>3. IsFiniteSet(1..n) /\ 1..n \in SUBSET Nat
    BY <1>3, IntervalSize
  <2>4. /\ Cardinality(1..n) = n
        /\ \A i \in 1..n : Ascending(1..n)[i] = a[i]
    BY <1>3, <2>2, <2>3, AscendingIs
  <2>5. QED BY <1>5, <2>1, <2>4
<1>7. /\ again = [i \in 1..n |-> again[i]]
      /\ \A i \in 1..n : again[i] = Hidden(redacted)[second[i]]
  <2>1. RedactsTo(redacted, again, 1..n, second)
    BY <1>2, <1>4, <1>5, QueryIsHidden
  <2>2. QED BY <1>6, <2>1 DEF RedactsTo
<1>8. ASSUME NEW i \in 1..n PROVE again[i] = redacted[i]
  <2>1. again[i] = Hidden(redacted)[i]
    BY <1>6, <1>7
  <2>2. again[i] = IF redacted[i].key \in SensitiveKey
                   THEN [redacted[i] EXCEPT !.value = Redacted]
                   ELSE redacted[i]
    BY <1>2, <2>1 DEF Hidden
  <2>3. redacted[i].value = Redacted =>
           [redacted[i] EXCEPT !.value = Redacted] = redacted[i]
    BY <1>2, QueryIs
  <2>4. QED BY <1>2, <2>2, <2>3
<1>9. again = redacted
  BY <1>2, <1>7, <1>8
<1>10. QED BY <1>1, <1>5, <1>9

\* A redacted query has what is not sensitive in its order.
LEMMA InsensitiveStays ==
    ASSUME NEW query, IsQuery(query)
    PROVE  InsensitiveOf(HideQuery(query)) = InsensitiveOf(query)
<1>1. PICK remaining, place, n, redacted, inner, places :
         /\ remaining = Remaining(query) /\ place = Ascending(remaining)
         /\ n = Cardinality(remaining) /\ redacted = HideQuery(query)
         /\ inner = Insensitive(query)
         /\ places = Insensitive(redacted)
  OBVIOUS
<1>2. /\ remaining \in SUBSET Nat /\ IsFiniteSet(remaining)
      /\ redacted = [i \in 1..n |-> redacted[i]]
      /\ \A i \in 1..n :
            /\ place[i] \in remaining
            /\ redacted[i].key = query[place[i]].key
            /\ redacted[i].key \notin SensitiveKey =>
                  redacted[i] = query[place[i]]
  <2>1. RedactsTo(query, redacted, remaining, place)
    BY <1>1, QueryIsHidden
  <2>2. QED BY <1>1, <2>1 DEF RedactsTo
<1>3. inner \in SUBSET remaining
  BY <1>1 DEF Remaining, Insensitive
<1>4. places = {i \in 1..n : place[i] \in inner}
  <2>1. DOMAIN redacted = 1..n
    BY <1>2
  <2>2. \A i \in 1..n :
           place[i] \in inner <=> redacted[i].key \notin SensitiveKey
    BY <1>1, <1>2 DEF Remaining, Insensitive
  <2>3. QED BY <1>1, <2>1, <2>2 DEF Insensitive
<1>5. PICK size, first, second :
         /\ size = Cardinality(inner)
         /\ first = Ascending(inner) /\ second = Ascending(places)
  OBVIOUS
<1>6. /\ places \in SUBSET Nat /\ IsFiniteSet(places) /\ IsFiniteSet(inner)
      /\ Cardinality(places) = size
      /\ \A i \in 1..size : /\ second[i] \in places
                            /\ place[second[i]] = first[i]
  <2>1. places = {i \in 1..Cardinality(remaining) :
                     Ascending(remaining)[i] \in inner}
    BY <1>1, <1>4
  <2>2. remaining \in SUBSET Nat /\ IsFiniteSet(remaining)
    BY <1>2
  <2>3. /\ places \in SUBSET Nat /\ IsFiniteSet(places) /\ IsFiniteSet(inner)
        /\ Cardinality(places) = Cardinality(inner)
        /\ \A i \in 1..Cardinality(inner) :
              /\ Ascending(places)[i] \in places
              /\ Ascending(remaining)[Ascending(places)[i]] = Ascending(inner)[i]
    BY <1>3, <2>1, <2>2, AscendingWithin
  <2>4. QED BY <1>1, <1>5, <2>3
<1>7. DOMAIN first = 1..size /\ DOMAIN second = 1..size
  BY <1>5, <1>6 DEF Ascending
<1>8. /\ InsensitiveOf(redacted) = [i \in 1..size |-> redacted[second[i]]]
      /\ InsensitiveOf(query) = [i \in 1..size |-> query[first[i]]]
  <2>1. /\ InsensitiveOf(redacted) = ElementsAt(redacted, places)
        /\ InsensitiveOf(query) = ElementsAt(query, inner)
    BY <1>1 DEF InsensitiveOf, Insensitive
  <2>2. \A seq, positions :
           ElementsAt(seq, positions) =
              [i \in DOMAIN Ascending(positions) |->
                  seq[Ascending(positions)[i]]]
    BY DEF ElementsAt
  <2>3. QED BY <1>5, <1>7, <2>1, <2>2
<1>9. ASSUME NEW i \in 1..size PROVE redacted[second[i]] = query[first[i]]
  <2>1. second[i] \in 1..n /\ place[second[i]] \in inner
    BY <1>4, <1>6
  <2>2. redacted[second[i]].key \notin SensitiveKey
    BY <1>1, <1>2, <2>1 DEF Insensitive
  <2>3. QED BY <1>2, <1>6, <2>1, <2>2
<1>10. QED BY <1>1, <1>8, <1>9

\* A redacted query has the same keys.
LEMMA KeysStay ==
    ASSUME NEW query, IsQuery(query)
    PROVE  {p.key : p \in ToSet(HideQuery(query))} =
              {p.key : p \in ToSet(query)}
<1>1. PICK remaining, redacted :
         remaining = Remaining(query) /\ redacted = HideQuery(query)
  OBVIOUS
<1>2. ToSet(redacted) = {Hidden(query)[i] : i \in remaining}
  <2>1. RedactsTo(query, redacted, remaining, Ascending(remaining))
    BY <1>1, QueryIsHidden
  <2>2. QED BY <2>1 DEF RedactsTo
<1>3. Len(query) \in Nat /\ DOMAIN query = 1..Len(query)
  BY QueryIs
<1>4. ASSUME NEW i \in DOMAIN query
      PROVE  Hidden(query)[i].key = query[i].key
  <2>1. Hidden(query)[i] = IF query[i].key \in SensitiveKey
                           THEN [query[i] EXCEPT !.value = Redacted]
                           ELSE query[i]
    BY DEF Hidden
  <2>2. QED BY <2>1, QueryIs
<1>5. remaining \subseteq DOMAIN query
  BY <1>1 DEF Remaining
<1>6. ASSUME NEW i \in DOMAIN query
      PROVE  \E k \in remaining : query[k].key = query[i].key
  <2> DEFINE same == {j \in 1..Len(query) : query[j].key = query[i].key}
  <2>1. same \in SUBSET (1..Len(query)) /\ same # {}
    BY <1>3
  <2>2. PICK k \in same : \A m \in same : k <= m
    <3> HIDE DEF same
    <3> QED BY <1>3, <2>1, LeastOf
  <2>3. ASSUME NEW j \in 1..(k - 1) PROVE query[j].key # query[k].key
    <3>1. k \in 1..Len(query) /\ query[k].key = query[i].key
      OBVIOUS
    <3>2. j \in 1..Len(query) /\ ~(k <= j)
      <4> HIDE DEF same
      <4> QED BY <1>3, <3>1
    <3>3. j \notin same
      <4> HIDE DEF same
      <4> QED BY <2>2, <3>2
    <3>4. QED BY <3>1, <3>2, <3>3
  <2>4. k \in remaining
    BY <1>1, <1>3, <2>3 DEF Remaining
  <2>5. QED BY <2>4
<1>7. ToSet(query) = {query[i] : i \in DOMAIN query}
  BY DEF ToSet
<1>8. ASSUME NEW key
      PROVE  (\E i \in remaining : key = Hidden(query)[i].key) <=>
             (\E i \in DOMAIN query : key = query[i].key)
  BY <1>4, <1>5, <1>6
<1>9. /\ {p.key : p \in ToSet(redacted)} =
            {Hidden(query)[i].key : i \in remaining}
      /\ {p.key : p \in ToSet(query)} = {query[i].key : i \in DOMAIN query}
  BY <1>2, <1>7
<1>10. QED BY <1>1, <1>8, <1>9

\* A path in which no pattern matches is that of its redacted query, and stays.
LEMMA PathSettles ==
    ASSUME NEW query, IsQuery(query), RedactPath(query).kind = "path"
    PROVE  /\ RedactPath(query).children = HideQuery(query)
           /\ RedactPath(HideQuery(query)) = RedactPath(query)
<1> DEFINE path == PathOf(HideQuery(query))
<1>1. RedactPath(query) = Patterns(path)
  BY DEF RedactPath
<1>2. RedactPath(query) = path
  <2>1. Masked.kind # "path" /\ Rewritten.kind # "path"
    BY RedactedAndMasked
  <2> HIDE DEF path
  <2>2. QED BY <1>1, <2>1, PatternsLeave
<1>3. path.children = HideQuery(query)
  BY NodeIs DEF PathOf
<1>4. RedactPath(HideQuery(query)) = Patterns(path)
  BY QuerySettles DEF RedactPath
<1>5. QED BY <1>1, <1>2, <1>3, <1>4

\* Redacting again what run() or a reporter has redacted never throws, and
\* changes nothing unless a text pattern has left what may be JSON again; it
\* reaches every level at once where what is serialized can be redacted; and
\* where the patterns leave a path as it is, its query keeps its keys, and what
\* is not sensitive in order.  For values of any depth over any keys and texts,
\* queries of any length, and patterns that match in any of them.
THEOREM RedactionSettles ==
    ASSUME Asks("redaction") => input.value \in Given /\ IsQuery(input.query)
    PROVE  RedactedForGood
<1>1. SUFFICES ASSUME NEW value, value = input.value, value \in Redactable,
                      NEW query, query = input.query, IsQuery(query)
               PROVE  LET redacted == RedactValue[value]
                          path     == RedactPath(query)
                          hidden   == path.children
                      IN  /\ Supported[value] =>
                                /\ Supported[redacted]
                                /\ Settled(redacted) =>
                                      RedactValue[redacted] = redacted
                                /\ Parsable(value) => Clean(redacted)
                          /\ path.kind = "path" =>
                                /\ RedactPath(hidden) = path
                                /\ InsensitiveOf(hidden) = InsensitiveOf(query)
                                /\ {p.key : p \in ToSet(hidden)} =
                                      {p.key : p \in ToSet(query)}
  <2>1. Given \subseteq Redactable
    BY DEF Given
  <2>2. QED BY <2>1, Zenon DEF RedactedForGood, Parsable, Settled
<1>2. Supported[value] =>
         /\ Supported[RedactValue[value]]
         /\ Settled(RedactValue[value]) =>
               RedactValue[RedactValue[value]] = RedactValue[value]
  BY <1>1, ValueIsSupported, ValueSettles
<1>3. Parsable(value) => Clean(RedactValue[value])
  BY <1>1, ValueIsClean
<1>4. /\ InsensitiveOf(HideQuery(query)) = InsensitiveOf(query)
      /\ {p.key : p \in ToSet(HideQuery(query))} =
            {p.key : p \in ToSet(query)}
  BY <1>1, InsensitiveStays, KeysStay
<1>5. RedactPath(query).kind = "path" =>
         /\ RedactPath(query).children = HideQuery(query)
         /\ RedactPath(HideQuery(query)) = RedactPath(query)
  BY <1>1, PathSettles
<1>6. QED BY <1>2, <1>3, <1>4, <1>5, Zenon
=============================================================================
