--------------------- MODULE AuthorizationContract_proofs ---------------------
(***************************************************************************)
(* Proofs about AuthorizationContract, for any names, factories,           *)
(* operations, selections and expectations, and any number of declarations.*)
(***************************************************************************)
EXTENDS AuthorizationContract, Algorithms_proofs

LEMMA DraftFields ==
    ASSUME NEW draft \in Draft
    PROVE  /\ draft.kind \in {"case", "rule"}
           /\ draft.description \in Description
           /\ draft.complete \in BOOLEAN
           /\ draft.explicitId \in SUBSET ExplicitId
           /\ draft.actor \in SUBSET Actor
           /\ draft.operations \in SUBSET Operations
BY DEF Draft

LEMMA IInvInit == Init => IInv
BY DEF Init, IInv, TypeOK, CompletionInv

-----------------------------------------------------------------------------
(* A call that amends a draft.                                             *)

\* A call on a builder leaves it to the terminals to complete a declaration,
\* and no call renames one.
Amendment(old, new) ==
    /\ new \in Draft
    /\ new.complete = old.complete
    /\ new.description = old.description

LEMMA AmendStep ==
    ASSUME IInv, NEW d \in DOMAIN drafts, NEW draft,
           Amendment(drafts[d], draft), Amend(d, draft)
    PROVE  /\ IInv'
           /\ DOMAIN drafts' = DOMAIN drafts
           /\ \A e \in DOMAIN drafts :
                 drafts'[e].description = drafts[e].description
<1>1. /\ drafts' = [drafts EXCEPT ![d] = draft]
      /\ actors' = actors /\ invariants' = invariants /\ builds' = builds
  BY DEF Amend
<1>2. drafts \in Seq(Draft)
  BY DEF IInv, TypeOK
<1>3. drafts' \in Seq(Draft)
  BY <1>1, <1>2 DEF Amendment
<1>4. DOMAIN drafts' = DOMAIN drafts
  BY <1>1, <1>2
<1>5. \A e \in DOMAIN drafts : /\ drafts'[e].complete = drafts[e].complete
                              /\ drafts'[e].description = drafts[e].description
  BY <1>1, <1>2 DEF Amendment
<1>6. TypeOK'
  BY <1>1, <1>3 DEF IInv, TypeOK
<1>7. CompletionInv'
  BY <1>1, <1>4, <1>5 DEF IInv, CompletionInv
<1>8. QED BY <1>4, <1>5, <1>6, <1>7 DEF IInv

LEMMA SetIdAmends ==
    ASSUME IInv, NEW d \in DOMAIN drafts, NEW id \in ExplicitId, SetId(d, id)
    PROVE  \E draft : Amendment(drafts[d], draft) /\ Amend(d, draft)
<1>1. drafts[d] \in Draft
  BY DEF IInv, TypeOK
<1>2. Amend(d, [drafts[d] EXCEPT !.explicitId = {id}])
  BY DEF SetId
<1>3. Amendment(drafts[d], [drafts[d] EXCEPT !.explicitId = {id}])
  BY <1>1 DEF Amendment, Draft
<1>4. QED BY <1>2, <1>3

LEMMA AsAmends ==
    ASSUME IInv, NEW d \in DOMAIN drafts, NEW name \in Name, As(d, name)
    PROVE  \E draft : Amendment(drafts[d], draft) /\ Amend(d, draft)
<1>1. drafts[d] \in Draft /\ actors[name] \in SUBSET Factory
  BY DEF IInv, TypeOK
<1>2. PICK factory \in actors[name] :
         Amend(d, [drafts[d] EXCEPT
                      !.actor = {[name |-> name, factory |-> factory]}])
  BY DEF As
<1>3. [name |-> name, factory |-> factory] \in Actor
  BY <1>1, <1>2 DEF Actor
<1>4. Amendment(drafts[d], [drafts[d] EXCEPT
                       !.actor = {[name |-> name, factory |-> factory]}])
  BY <1>1, <1>3 DEF Amendment, Draft
<1>5. QED BY <1>2, <1>4

LEMMA SetOperationAmends ==
    ASSUME IInv, NEW d \in DOMAIN drafts, NEW operation \in CaseOperation,
           SetOperation(d, operation)
    PROVE  \E draft : Amendment(drafts[d], draft) /\ Amend(d, draft)
<1>1. drafts[d] \in Draft
  BY DEF IInv, TypeOK
<1>2. Amend(d, [drafts[d] EXCEPT !.operations = {<<operation>>}])
  BY DEF SetOperation
<1>3. <<operation>> \in Operations
  BY DEF Operations
<1>4. Amendment(drafts[d], [drafts[d] EXCEPT !.operations = {<<operation>>}])
  BY <1>1, <1>3 DEF Amendment, Draft
<1>5. QED BY <1>2, <1>4

LEMMA SelectionAmends ==
    ASSUME IInv, NEW d \in DOMAIN drafts, NEW selection \in Selection,
           SelectOperations(d, selection)
    PROVE  \E draft : Amendment(drafts[d], draft) /\ Amend(d, draft)
<1>1. drafts[d] \in Draft
  BY DEF IInv, TypeOK
<1>2. Amend(d, [drafts[d] EXCEPT !.operations = {Models(selection)}])
  BY DEF SelectOperations
<1>3. Models(selection) \in Operations
  BY DEF Operations, SelectOperations
<1>4. Amendment(drafts[d],
                [drafts[d] EXCEPT !.operations = {Models(selection)}])
  BY <1>1, <1>3 DEF Amendment, Draft
<1>5. QED BY <1>2, <1>4

-----------------------------------------------------------------------------
(* The other calls.                                                        *)

LEMMA DeclareStep ==
    ASSUME IInv, NEW kind \in {"case", "rule"},
           NEW description \in Description, Declare(kind, description)
    PROVE  /\ IInv'
           /\ invariants' = invariants
           /\ \A e \in DOMAIN drafts :
                 /\ e \in DOMAIN drafts'
                 /\ drafts'[e].description = drafts[e].description
<1> DEFINE new == [kind |-> kind, description |-> description,
                   complete |-> FALSE, explicitId |-> {},
                   actor |-> {}, operations |-> {}]
<1>1. /\ drafts' = Append(drafts, new)
      /\ actors' = actors /\ invariants' = invariants
  BY DEF Declare
<1>2. drafts \in Seq(Draft) /\ new \in Draft
  BY DEF IInv, TypeOK, Draft
<1>3. /\ drafts' \in Seq(Draft)
      /\ DOMAIN drafts' = DOMAIN drafts \cup {Len(drafts) + 1}
      /\ Len(drafts) + 1 \notin DOMAIN drafts
      /\ \A e \in DOMAIN drafts : drafts'[e] = drafts[e]
      /\ drafts'[Len(drafts) + 1] = new
  <2> HIDE DEF new
  <2> QED BY <1>1, <1>2
<1>4. ~drafts'[Len(drafts) + 1].complete
  BY <1>3
<1> HIDE DEF new
<1>5. TypeOK'
  BY <1>1, <1>3 DEF IInv, TypeOK
<1>6. CompletionInv'
  BY <1>1, <1>3, <1>4 DEF IInv, CompletionInv
<1>7. QED BY <1>1, <1>3, <1>5, <1>6 DEF IInv

LEMMA ExpectStep ==
    ASSUME IInv, NEW d \in DOMAIN drafts, NEW expectation \in Expectation,
           Expect(d, expectation)
    PROVE  /\ IInv'
           /\ \A i \in DOMAIN invariants :
                 /\ i \in DOMAIN invariants'
                 /\ invariants'[i] = invariants[i]
           /\ \A e \in DOMAIN drafts :
                 /\ e \in DOMAIN drafts'
                 /\ drafts'[e].description = drafts[e].description
<1>1. /\ drafts \in Seq(Draft) /\ invariants \in Seq(Invariant)
      /\ drafts[d] \in Draft
  BY DEF IInv, TypeOK
<1>2. PICK actor \in drafts[d].actor, operations \in drafts[d].operations :
         invariants' = Append(invariants,
             [draft |-> d, explicitId |-> drafts[d].explicitId,
              actor |-> actor, operations |-> operations,
              expected |-> expectation])
  BY DEF Expect
<1> DEFINE new == [draft |-> d, explicitId |-> drafts[d].explicitId,
                   actor |-> actor, operations |-> operations,
                   expected |-> expectation]
<1>3. new \in Invariant /\ new.draft = d
  BY <1>1, <1>2, DraftFields DEF Invariant
<1>4. /\ invariants' \in Seq(Invariant)
      /\ DOMAIN invariants' = DOMAIN invariants \cup {Len(invariants) + 1}
      /\ Len(invariants) + 1 \notin DOMAIN invariants
      /\ \A i \in DOMAIN invariants : invariants'[i] = invariants[i]
      /\ invariants'[Len(invariants) + 1] = new
  <2>1. invariants' = Append(invariants, new)
    BY <1>2
  <2> HIDE DEF new
  <2> QED BY <1>1, <1>3, <2>1
<1> HIDE DEF new
<1>5. /\ drafts' = [drafts EXCEPT ![d].complete = TRUE]
      /\ actors' = actors /\ ~drafts[d].complete
  BY DEF Expect, Incomplete
<1> DEFINE completed == [drafts[d] EXCEPT !.complete = TRUE]
<1>6. /\ completed \in Draft
      /\ completed.complete
      /\ completed.description = drafts[d].description
  BY <1>1 DEF Draft
<1>7. /\ drafts' \in Seq(Draft)
      /\ DOMAIN drafts' = DOMAIN drafts
      /\ \A e \in DOMAIN drafts :
            /\ drafts'[e].description = drafts[e].description
            /\ e # d => drafts'[e] = drafts[e]
      /\ drafts'[d].complete
  <2>1. drafts' = [drafts EXCEPT ![d] = completed]
    BY <1>5
  <2> HIDE DEF completed
  <2>2. drafts' \in Seq(Draft)
    BY <1>1, <1>6, <2>1
  <2>3. QED BY <1>1, <1>6, <2>1, <2>2
<1>8. TypeOK'
  BY <1>4, <1>5, <1>7 DEF IInv, TypeOK
<1>9. CompletionInv'
  <2>1. \A i \in DOMAIN invariants' :
           /\ invariants'[i].draft \in DOMAIN drafts'
           /\ drafts'[invariants'[i].draft].complete
    <3>1. ASSUME NEW i \in DOMAIN invariants
          PROVE  /\ invariants[i].draft \in DOMAIN drafts'
                 /\ drafts'[invariants[i].draft].complete
      <4>1. PICK e \in DOMAIN drafts : /\ e = invariants[i].draft
                                       /\ drafts[e].complete
        BY DEF IInv, CompletionInv
      <4>2. QED BY <1>7, <4>1
    <3>2. d \in DOMAIN drafts' /\ drafts'[d].complete
      BY <1>7
    <3>3. QED BY <1>3, <1>4, <3>1, <3>2
  <2>2. \A i \in DOMAIN invariants : invariants[i].draft # d
    BY <1>5 DEF IInv, CompletionInv
  <2>3. \A i, j \in DOMAIN invariants' :
           invariants'[i].draft = invariants'[j].draft => i = j
    BY <1>3, <1>4, <2>2 DEF IInv, CompletionInv
  <2>4. \A e \in DOMAIN drafts' :
           drafts'[e].complete =>
              \E i \in DOMAIN invariants' : invariants'[i].draft = e
    BY <1>3, <1>4, <1>7 DEF IInv, CompletionInv
  <2>5. QED BY <2>1, <2>3, <2>4 DEF CompletionInv
<1>10. QED BY <1>4, <1>7, <1>8, <1>9 DEF IInv

-----------------------------------------------------------------------------
(* The step.                                                               *)

\* What every call keeps of the declarations and of what they captured.
Kept ==
    /\ \A i \in DOMAIN invariants :
          i \in DOMAIN invariants' /\ invariants'[i] = invariants[i]
    /\ \A d \in DOMAIN drafts :
          /\ d \in DOMAIN drafts'
          /\ drafts'[d].description = drafts[d].description

LEMMA CallStep == ASSUME IInv, [Next]_vars PROVE IInv' /\ Kept
<1>1. CASE \E name \in Name, factory \in Factory : RegisterActor(name, factory)
  <2>1. PICK name \in Name, factory \in Factory : RegisterActor(name, factory)
    BY <1>1
  <2>2. /\ actors' = [actors EXCEPT ![name] = {factory}]
        /\ drafts' = drafts /\ invariants' = invariants
    BY <2>1 DEF RegisterActor
  <2>3. TypeOK'
    BY <2>2 DEF IInv, TypeOK
  <2>4. CompletionInv'
    BY <2>2 DEF IInv, CompletionInv
  <2>5. QED BY <2>2, <2>3, <2>4 DEF IInv, Kept
<1>2. CASE \E kind \in {"case", "rule"}, description \in Description :
              Declare(kind, description)
  BY <1>2, DeclareStep DEF Kept
<1>3. ASSUME NEW d \in DOMAIN drafts, NEW draft,
             Amendment(drafts[d], draft), Amend(d, draft)
      PROVE  IInv' /\ Kept
  <2>1. invariants' = invariants
    BY <1>3 DEF Amend
  <2>2. QED BY <1>3, <2>1, AmendStep DEF Kept
<1>4. ASSUME NEW d \in DOMAIN drafts,
             \/ \E id \in ExplicitId : SetId(d, id)
             \/ \E name \in Name : As(d, name)
             \/ \E operation \in CaseOperation : SetOperation(d, operation)
             \/ \E selection \in Selection : SelectOperations(d, selection)
      PROVE  IInv' /\ Kept
  <2>1. \E draft : Amendment(drafts[d], draft) /\ Amend(d, draft)
    BY <1>4, SetIdAmends, AsAmends, SetOperationAmends, SelectionAmends
  <2>2. QED BY <1>3, <2>1
<1>5. CASE \E d \in DOMAIN drafts :
              \E expectation \in Expectation : Expect(d, expectation)
  BY <1>5, ExpectStep DEF Kept
<1>6. CASE Build \/ UNCHANGED vars
  <2>1. actors' = actors /\ drafts' = drafts /\ invariants' = invariants
    BY <1>6 DEF Build, vars
  <2>2. QED BY <2>1 DEF IInv, TypeOK, CompletionInv, Kept
<1>7. QED BY <1>1, <1>2, <1>4, <1>5, <1>6 DEF Next

LEMMA IInvAlways == Spec => []IInv
<1>1. IInv /\ [Next]_vars => IInv'
  BY CallStep
<1>2. QED BY IInvInit, <1>1, PTL DEF Spec

\* Actors, drafts and invariants keep their types (state, drafts).
THEOREM TypeCorrect == Spec => []TypeOK
<1>1. IInv => TypeOK
  BY DEF IInv
<1>2. QED BY <1>1, IInvAlways, PTL

\* Whichever builders are kept and called again, a declaration is completed
\* once and adds one invariant then (makeCaseExpectationBuilder).
THEOREM OneExpectationEach == Spec => []ExactlyOneExpectation
<1>1. ASSUME IInv PROVE ExactlyOneExpectation
  <2>1. SUFFICES ASSUME NEW d \in DOMAIN drafts
                 PROVE  Cardinality(InvariantsOf(d)) =
                           IF drafts[d].complete THEN 1 ELSE 0
    BY DEF ExactlyOneExpectation
  <2>2. CASE drafts[d].complete
    <3>1. PICK i \in DOMAIN invariants : invariants[i].draft = d
      BY <1>1, <2>2 DEF IInv, CompletionInv
    <3>2. InvariantsOf(d) = {i}
      BY <1>1, <3>1 DEF IInv, CompletionInv, InvariantsOf
    <3>3. QED BY <2>2, <3>2, FS_Singleton
  <2>3. CASE ~drafts[d].complete
    <3>1. InvariantsOf(d) = {}
      BY <1>1, <2>3 DEF IInv, CompletionInv, InvariantsOf
    <3>2. QED BY <2>3, <3>1, FS_EmptySet
  <2>4. QED BY <2>2, <2>3
<1>2. QED BY <1>1, IInvAlways, PTL

-----------------------------------------------------------------------------
(* Collisions.                                                             *)

\* What an invariant expands to does not change any more.
LEMMA ExpansionKept ==
    ASSUME IInv, Kept, NEW i \in DOMAIN invariants
    PROVE  i \in DOMAIN invariants' /\ Expansions'[i] = Expansions[i]
<1>1. i \in DOMAIN invariants' /\ invariants'[i] = invariants[i]
  BY DEF Kept
<1>2. drafts'[invariants[i].draft].description =
         drafts[invariants[i].draft].description
  BY DEF IInv, CompletionInv, Kept
<1>3. Expansion(invariants[i])' = Expansion(invariants[i])
  BY <1>1, <1>2 DEF Expansion, CaseId
<1>4. Expansions[i] = Expansion(invariants[i])
  BY DEF Expansions
<1>5. Expansions'[i] = Expansion(invariants[i])'
  BY <1>1 DEF Expansions
<1>6. QED BY <1>1, <1>3, <1>4, <1>5

\* A collision stays, whatever is declared later, and build() goes on throwing
\* (AuthorizationCaseExpander.expand): no case ever replaces another.
THEOREM CollisionsStay == Spec => CollisionsAreFinal
<1>1. ASSUME IInv, [Next]_vars, Collides(Expansions)
      PROVE  Collides(Expansions)' /\ UNCHANGED builds
  <2>1. Kept
    BY <1>1, CallStep
  <2>2. PICK p \in Position(Expansions), q \in Position(Expansions) :
           /\ p # q
           /\ CaseAt(Expansions, p).id = CaseAt(Expansions, q).id
    BY <1>1 DEF Collides
  <2>3. ASSUME NEW r \in Position(Expansions)
        PROVE  /\ r \in Position(Expansions')
               /\ CaseAt(Expansions', r) = CaseAt(Expansions, r)
    <3>1. PICK i \in DOMAIN Expansions : r \in {i} \X DOMAIN Expansions[i]
      BY DEF Position
    <3>2. i \in DOMAIN invariants /\ DOMAIN Expansions' = DOMAIN invariants'
      BY <3>1 DEF Expansions
    <3>3. i \in DOMAIN Expansions' /\ Expansions'[i] = Expansions[i]
      BY <1>1, <2>1, <3>2, ExpansionKept
    <3>4. QED BY <3>1, <3>3 DEF Position, CaseAt
  <2>4. Collides(Expansions')
    BY <2>2, <2>3 DEF Collides
  <2>5. UNCHANGED builds
    BY <1>1 DEF Next, vars, RegisterActor, Declare, SetId, As, SetOperation,
                SelectOperations, Amend, Expect, Build
  <2>6. QED BY <2>4, <2>5
<1>2. QED BY <1>1, IInvAlways, PTL DEF Spec, CollisionsAreFinal

-----------------------------------------------------------------------------
(* What an invariant expands to.                                           *)

\* A list of ids or tags, or the whole inventory, selects finitely many.
LEMMA SelectedFinite ==
    ASSUME NEW selection \in Selection
    PROVE  IsFiniteSet(DOMAIN Selected(Inventory, selection))
<1>1. \A seq : seq \in Seq(ToSet(seq)) =>
         DOMAIN seq \in SUBSET Nat /\ IsFiniteSet(DOMAIN seq)
  <2>1. SUFFICES ASSUME NEW seq, seq \in Seq(ToSet(seq))
                 PROVE  DOMAIN seq \in SUBSET Nat /\ IsFiniteSet(DOMAIN seq)
    OBVIOUS
  <2>2. DOMAIN seq = 1..Len(seq) /\ Len(seq) \in Nat
    BY <2>1
  <2>3. QED BY <2>2, FS_Interval
<1>2. \A positions : positions \in SUBSET Nat /\ IsFiniteSet(positions) =>
         \A seq : IsFiniteSet(DOMAIN ElementsAt(seq, positions))
  <2>1. SUFFICES ASSUME NEW positions \in SUBSET Nat, IsFiniteSet(positions),
                        NEW seq
                 PROVE  IsFiniteSet(DOMAIN ElementsAt(seq, positions))
    OBVIOUS
  <2>2. /\ Cardinality(positions) \in Nat
        /\ DOMAIN ElementsAt(seq, positions) = 1..Cardinality(positions)
    BY <2>1, ElementsAtSelects
  <2>3. QED BY <2>2, FS_Interval
<1>3. CASE selection.by = "all"
  <2>1. Selected(Inventory, selection) = Inventory
    BY <1>3 DEF Selected
  <2>2. QED BY <1>1, <2>1, InventoryAssumption
<1>4. CASE selection.by = "ids"
  <2> DEFINE ids == selection.ids
             firsts == {i \in DOMAIN ids :
                           \A j \in 1..(i - 1) : ids[j] # ids[i]}
  <2>1. DOMAIN Selected(Inventory, selection) = DOMAIN ElementsAt(ids, firsts)
    BY <1>4 DEF Selected, SelectById
  <2>2. DOMAIN ids \in SUBSET Nat /\ IsFiniteSet(DOMAIN ids)
    BY <1>1, <1>4, SelectionAssumption
  <2>3. firsts \in SUBSET Nat /\ IsFiniteSet(firsts)
    BY <2>2, FS_Subset
  <2>4. QED BY <1>2, <2>1, <2>3
<1>5. CASE selection.by = "tags"
  <2> DEFINE positions == {i \in DOMAIN Inventory :
                              Inventory[i].tags \cap selection.tags # {}}
  <2>1. Selected(Inventory, selection) = ElementsAt(Inventory, positions)
    BY <1>5 DEF Selected, SelectByTag
  <2>2. positions \in SUBSET Nat /\ IsFiniteSet(positions)
    BY <1>1, InventoryAssumption, FS_Subset
  <2>3. QED BY <1>2, <2>1, <2>2
<1>6. QED BY <1>3, <1>4, <1>5, SelectionAssumption

LEMMA OperationsFinite ==
    ASSUME NEW operations \in Operations
    PROVE  IsFiniteSet(DOMAIN operations)
<1>1. CASE \E operation \in CaseOperation : operations = <<operation>>
  <2>1. DOMAIN operations = {1}
    BY <1>1
  <2>2. QED BY <2>1, FS_Singleton
<1>2. CASE \E selection \in Selection : operations = Models(selection)
  <2>1. PICK selection \in Selection : operations = Models(selection)
    BY <1>2
  <2>2. DOMAIN operations = DOMAIN Selected(Inventory, selection)
    BY <2>1 DEF Models
  <2>3. QED BY <2>2, SelectedFinite
<1>3. QED BY <1>1, <1>2 DEF Operations

LEMMA ExpansionsTyped ==
    ASSUME IInv
    PROVE  /\ CasesOf(Expansions) \in SUBSET Case
           /\ IsFiniteSet(CasesOf(Expansions))
           /\ CasesOf(Expansions) =
                 UNION {ToSet(Expansion(invariants[i])) :
                           i \in DOMAIN invariants}
<1>1. ASSUME NEW i \in DOMAIN invariants
      PROVE  /\ Expansions[i] = Expansion(invariants[i])
             /\ IsFiniteSet(DOMAIN Expansions[i])
             /\ \A k \in DOMAIN Expansions[i] : Expansions[i][k] \in Case
  <2>1. PICK invariant \in Invariant : invariant = invariants[i]
    BY DEF IInv, TypeOK
  <2>2. /\ invariant.draft \in DOMAIN drafts
        /\ drafts[invariant.draft] \in Draft
    BY <2>1 DEF IInv, TypeOK, CompletionInv
  <2>3. /\ invariant.explicitId \in SUBSET Nat
        /\ invariant.actor \in Actor
        /\ invariant.operations \in Operations
        /\ invariant.expected \in Expectation
    BY <2>1, ExplicitIdAssumption DEF Invariant
  <2>4. Expansions[i] = Expansion(invariant)
    BY <2>1 DEF Expansions
  <2>5. DOMAIN Expansions[i] = DOMAIN invariant.operations
    BY <2>4 DEF Expansion
  <2>6. ASSUME NEW k \in DOMAIN Expansions[i]
        PROVE  Expansions[i][k] \in Case
    <3> DEFINE operation == invariant.operations[k]
    <3>1. operation \in ToSet(invariant.operations)
      BY <2>5 DEF ToSet
    <3>2. CaseId(invariant, operation) \in Nat
      <4>1. CASE invariant.explicitId # {}
        BY <2>3, <4>1 DEF CaseId
      <4>2. CASE invariant.explicitId = {}
        <5>1. drafts[invariant.draft].description \in Description
          BY <2>2, DraftFields
        <5>2. invariant.actor.name \in Name
          BY <2>3 DEF Actor
        <5>3. QED BY <2>3, <3>1, <4>2, <5>1, <5>2, GeneratedIdAssumption
                  DEF CaseId
      <4>3. QED BY <4>1, <4>2
    <3>3. Expansions[i][k] =
             [id |-> CaseId(invariant, operation), actor |-> invariant.actor,
              operation |-> operation, expected |-> invariant.expected]
      BY <2>4, <2>5 DEF Expansion
    <3> HIDE DEF operation
    <3>4. operation \in UNION {ToSet(operations) : operations \in Operations}
      BY <2>3, <3>1
    <3>5. QED BY <2>3, <3>2, <3>3, <3>4 DEF Case
  <2>7. QED BY <2>1, <2>3, <2>4, <2>5, <2>6, OperationsFinite
<1>2. DOMAIN Expansions = DOMAIN invariants
  BY DEF Expansions
<1>3. CasesOf(Expansions) \in SUBSET Case
  BY <1>1, <1>2 DEF CasesOf, CaseAt, Position
<1>4. IsFiniteSet(CasesOf(Expansions))
  <2>1. DOMAIN invariants = 1..Len(invariants) /\ Len(invariants) \in Nat
    BY DEF IInv, TypeOK
  <2>2. IsFiniteSet(DOMAIN Expansions)
    BY <1>2, <2>1, FS_Interval
  <2>3. QED BY <1>1, <1>2, <2>2, PositionsFinite
<1>5. CasesOf(Expansions) =
         UNION {ToSet(Expansions[i]) : i \in DOMAIN invariants}
  <2>1. ASSUME NEW i \in DOMAIN invariants, NEW k \in DOMAIN Expansions[i]
        PROVE  Expansions[i][k] \in CasesOf(Expansions)
    <3>1. <<i, k>> \in Position(Expansions)
      BY <1>2 DEF Position
    <3>2. CaseAt(Expansions, <<i, k>>) = Expansions[i][k]
      BY DEF CaseAt
    <3>3. QED BY <3>1, <3>2 DEF CasesOf
  <2>2. ASSUME NEW c \in CasesOf(Expansions)
        PROVE  \E i \in DOMAIN invariants : c \in ToSet(Expansions[i])
    BY <1>2 DEF CasesOf, CaseAt, Position, ToSet
  <2>3. QED BY <2>1, <2>2 DEF ToSet
<1>6. QED BY <1>1, <1>3, <1>4, <1>5

-----------------------------------------------------------------------------
(* Actors.                                                                 *)

\* What a draft has of its actor is empty or the actor registered.
LEMMA RegisteredAmend ==
    ASSUME IInv, RegisteredInv, NEW d \in DOMAIN drafts, NEW draft,
           Amend(d, draft),
           \A actor \in draft.actor : actors[actor.name] = {actor.factory}
    PROVE  RegisteredInv'
<1>1. /\ drafts' = [drafts EXCEPT ![d] = draft]
      /\ actors' = actors /\ invariants' = invariants
  BY DEF Amend
<1>2. drafts \in Seq(Draft)
  BY DEF IInv, TypeOK
<1>3. /\ DOMAIN drafts' = DOMAIN drafts
      /\ drafts'[d] = draft
      /\ \A e \in DOMAIN drafts : e # d => drafts'[e] = drafts[e]
  BY <1>1, <1>2
<1>4. QED BY <1>1, <1>3 DEF RegisteredInv

LEMMA AmendKeepsRegistered ==
    ASSUME IInv, RegisteredInv, NEW d \in DOMAIN drafts,
           \/ \E id \in ExplicitId : SetId(d, id)
           \/ \E name \in Name : As(d, name)
           \/ \E operation \in CaseOperation : SetOperation(d, operation)
           \/ \E selection \in Selection : SelectOperations(d, selection)
    PROVE  RegisteredInv'
<1>1. drafts[d] \in Draft
  BY DEF IInv, TypeOK
<1>2. CASE \E draft : Amend(d, draft) /\ draft.actor = drafts[d].actor
  BY <1>2, RegisteredAmend DEF RegisteredInv
<1>3. CASE \E id \in ExplicitId : SetId(d, id)
  <2>1. PICK id \in ExplicitId :
           Amend(d, [drafts[d] EXCEPT !.explicitId = {id}])
    BY <1>3 DEF SetId
  <2>2. [drafts[d] EXCEPT !.explicitId = {id}].actor = drafts[d].actor
    BY <1>1 DEF Draft
  <2>3. QED BY <1>2, <2>1, <2>2
<1>4. CASE \E operation \in CaseOperation : SetOperation(d, operation)
  <2>1. PICK operation \in CaseOperation :
           Amend(d, [drafts[d] EXCEPT !.operations = {<<operation>>}])
    BY <1>4 DEF SetOperation
  <2>2. [drafts[d] EXCEPT !.operations = {<<operation>>}].actor =
           drafts[d].actor
    BY <1>1 DEF Draft
  <2>3. QED BY <1>2, <2>1, <2>2
<1>5. CASE \E selection \in Selection : SelectOperations(d, selection)
  <2>1. PICK selection \in Selection :
           Amend(d, [drafts[d] EXCEPT !.operations = {Models(selection)}])
    BY <1>5 DEF SelectOperations
  <2>2. [drafts[d] EXCEPT !.operations = {Models(selection)}].actor =
           drafts[d].actor
    BY <1>1 DEF Draft
  <2>3. QED BY <1>2, <2>1, <2>2
<1>6. CASE \E name \in Name : As(d, name)
  <2>1. PICK name \in Name : As(d, name)
    BY <1>6
  <2>2. PICK factory \in actors[name] :
           Amend(d, [drafts[d] EXCEPT
                        !.actor = {[name |-> name, factory |-> factory]}])
    BY <2>1 DEF As
  <2> DEFINE draft == [drafts[d] EXCEPT
                          !.actor = {[name |-> name, factory |-> factory]}]
  <2>3. draft.actor = {[name |-> name, factory |-> factory]}
    BY <1>1 DEF Draft
  <2>4. actors[name] = {factory}
    BY <2>2 DEF RegisteredInv
  <2>5. \A actor \in draft.actor : actors[actor.name] = {actor.factory}
    BY <2>3, <2>4
  <2> HIDE DEF draft
  <2>6. QED BY <2>2, <2>5, RegisteredAmend DEF draft
<1>7. QED BY <1>3, <1>4, <1>5, <1>6

LEMMA ExpectKeepsRegistered ==
    ASSUME IInv, RegisteredInv, NEW d \in DOMAIN drafts,
           NEW expectation \in Expectation, Expect(d, expectation)
    PROVE  /\ RegisteredInv'
           /\ \A i \in DOMAIN invariants' \ DOMAIN invariants :
                 invariants'[i].draft = d
<1>1. PICK actor \in drafts[d].actor, operations \in drafts[d].operations :
         invariants' = Append(invariants,
             [draft |-> d, explicitId |-> drafts[d].explicitId,
              actor |-> actor, operations |-> operations,
              expected |-> expectation])
  BY DEF Expect
<1> DEFINE new == [draft |-> d, explicitId |-> drafts[d].explicitId,
                   actor |-> actor, operations |-> operations,
                   expected |-> expectation]
<1>2. /\ actors' = actors
      /\ drafts' = [drafts EXCEPT ![d].complete = TRUE]
      /\ invariants' = Append(invariants, new)
  BY <1>1 DEF Expect
<1>3. new.actor = actor /\ new.draft = d
  OBVIOUS
<1>4. /\ invariants \in Seq(Invariant) /\ drafts \in Seq(Draft)
      /\ drafts[d] \in Draft
  BY DEF IInv, TypeOK
<1> HIDE DEF new
<1>5. /\ DOMAIN invariants' = DOMAIN invariants \cup {Len(invariants) + 1}
      /\ \A i \in DOMAIN invariants : invariants'[i] = invariants[i]
      /\ invariants'[Len(invariants) + 1] = new
  BY <1>2, <1>4
<1>6. /\ DOMAIN drafts' = DOMAIN drafts
      /\ \A e \in DOMAIN drafts : drafts'[e].actor = drafts[e].actor
  BY <1>2, <1>4 DEF Draft
<1>7. actors[actor.name] = {actor.factory}
  BY <1>1 DEF RegisteredInv
<1>8. QED BY <1>2, <1>3, <1>5, <1>6, <1>7 DEF RegisteredInv

\* A name keeps the actor registered under it, and what names it.
LEMMA RegisteredStep ==
    ASSUME IInv, RegisteredInv, [Next]_vars
    PROVE  /\ RegisteredInv'
           /\ \A name \in Name : actors[name] # {} => actors'[name] = actors[name]
<1>1. CASE \E name \in Name, factory \in Factory : RegisterActor(name, factory)
  <2>1. PICK name \in Name, factory \in Factory : RegisterActor(name, factory)
    BY <1>1
  <2>2. /\ actors' = [actors EXCEPT ![name] = {factory}]
        /\ actors[name] = {}
        /\ drafts' = drafts /\ invariants' = invariants
    BY <2>1 DEF RegisterActor
  <2>3. actors \in [Name -> SUBSET Factory]
    BY DEF IInv, TypeOK
  <2>4. \A other \in Name :
           /\ other # name => actors'[other] = actors[other]
           /\ other = name => actors'[other] = {factory}
    BY <2>2, <2>3
  <2>5. \A actor \in Actor : actors[actor.name] = {actor.factory} =>
           actors'[actor.name] = {actor.factory}
    BY <2>2, <2>4 DEF Actor
  <2>6. /\ \A d \in DOMAIN drafts : drafts[d].actor \in SUBSET Actor
        /\ \A i \in DOMAIN invariants : invariants[i].actor \in Actor
    <3>1. /\ \A d \in DOMAIN drafts : drafts[d] \in Draft
          /\ \A i \in DOMAIN invariants : invariants[i] \in Invariant
      BY DEF IInv, TypeOK
    <3>2. QED BY <3>1, DraftFields DEF Invariant
  <2>7. QED BY <2>2, <2>4, <2>5, <2>6 DEF RegisteredInv
<1>2. CASE \E kind \in {"case", "rule"}, description \in Description :
              Declare(kind, description)
  <2>1. PICK kind \in {"case", "rule"}, description \in Description :
           Declare(kind, description)
    BY <1>2
  <2> DEFINE new == [kind |-> kind, description |-> description,
                     complete |-> FALSE, explicitId |-> {},
                     actor |-> {}, operations |-> {}]
  <2>2. /\ drafts' = Append(drafts, new) /\ new.actor = {}
        /\ actors' = actors /\ invariants' = invariants
    BY <2>1 DEF Declare
  <2>3. drafts \in Seq(Draft)
    BY DEF IInv, TypeOK
  <2> HIDE DEF new
  <2>4. /\ DOMAIN drafts' = DOMAIN drafts \cup {Len(drafts) + 1}
        /\ \A d \in DOMAIN drafts : drafts'[d] = drafts[d]
        /\ drafts'[Len(drafts) + 1] = new
    BY <2>2, <2>3
  <2>5. QED BY <2>2, <2>4 DEF RegisteredInv
<1>3. CASE \E d \in DOMAIN drafts :
              \/ \E id \in ExplicitId : SetId(d, id)
              \/ \E name \in Name : As(d, name)
              \/ \E operation \in CaseOperation : SetOperation(d, operation)
              \/ \E selection \in Selection : SelectOperations(d, selection)
  <2>1. actors' = actors
    BY <1>3 DEF SetId, As, SetOperation, SelectOperations, Amend
  <2>2. QED BY <1>3, <2>1, AmendKeepsRegistered
<1>4. CASE \E d \in DOMAIN drafts :
              \E expectation \in Expectation : Expect(d, expectation)
  <2>1. actors' = actors
    BY <1>4 DEF Expect
  <2>2. QED BY <1>4, <2>1, ExpectKeepsRegistered
<1>5. CASE Build \/ UNCHANGED vars
  <2>1. actors' = actors /\ drafts' = drafts /\ invariants' = invariants
    BY <1>5 DEF Build, vars
  <2>2. QED BY <2>1 DEF RegisteredInv
<1>6. QED BY <1>1, <1>2, <1>3, <1>4, <1>5 DEF Next

-----------------------------------------------------------------------------
(* Builds.                                                                 *)

\* Declarations that are all complete have the invariants that they have.
LEMMA DeclaredKept ==
    ASSUME IInv, IInv', Kept, NEW declared \in Nat,
           \A d \in 1..declared : d \in DOMAIN drafts /\ drafts[d].complete
    PROVE  /\ \A d \in 1..declared :
                 d \in DOMAIN drafts' /\ drafts'[d].complete
           /\ UNION {ToSet(Expansion(invariants[i])) :
                        i \in DeclaredBy(declared)}' =
              UNION {ToSet(Expansion(invariants[i])) : i \in DeclaredBy(declared)}
<1>1. ASSUME NEW d \in 1..declared
      PROVE  d \in DOMAIN drafts' /\ drafts'[d].complete
  <2>1. PICK i \in DOMAIN invariants : invariants[i].draft = d
    BY DEF IInv, CompletionInv
  <2>2. i \in DOMAIN invariants' /\ invariants'[i].draft = d
    BY <2>1 DEF Kept
  <2>3. QED BY <2>2 DEF IInv, CompletionInv
<1>2. ASSUME NEW i \in DOMAIN invariants', invariants'[i].draft <= declared
      PROVE  i \in DOMAIN invariants
  <2>1. invariants'[i].draft \in DOMAIN drafts'
    BY DEF IInv, CompletionInv
  <2>2. DOMAIN drafts' = 1..Len(drafts') /\ Len(drafts') \in Nat
    BY DEF IInv, TypeOK
  <2>3. invariants'[i].draft \in 1..declared
    BY <1>2, <2>1, <2>2
  <2>4. PICK j \in DOMAIN invariants :
           invariants[j].draft = invariants'[i].draft
    BY <2>3 DEF IInv, CompletionInv
  <2>5. j \in DOMAIN invariants' /\ invariants'[j].draft = invariants'[i].draft
    BY <2>4 DEF Kept
  <2>6. i = j
    BY <2>5 DEF IInv, CompletionInv
  <2>7. QED BY <2>6
<1>3. DeclaredBy(declared)' = DeclaredBy(declared)
  BY <1>2 DEF DeclaredBy, Kept
<1>4. ASSUME NEW i \in DeclaredBy(declared)
      PROVE  Expansion(invariants[i])' = Expansion(invariants[i])
  <2>1. i \in DOMAIN invariants
    BY DEF DeclaredBy
  <2>2. i \in DOMAIN invariants' /\ Expansions'[i] = Expansions[i]
    BY <2>1, ExpansionKept
  <2>3. QED BY <2>1, <2>2 DEF Expansions
<1>5. QED BY <1>1, <1>3, <1>4

\* Calls other than build() leave the contracts as they were built.
LEMMA BuildsKept ==
    ASSUME IInv, IInv', Kept, BuildInv, BuiltInOrder, UNCHANGED builds
    PROVE  BuildInv' /\ BuiltInOrder'
<1>1. ASSUME NEW b \in DOMAIN builds
      PROVE  /\ \A d \in 1..builds[b].declared :
                   d \in DOMAIN drafts' /\ drafts'[d].complete
             /\ ToSet(builds[b].cases) =
                   UNION {ToSet(Expansion(invariants[i])) :
                             i \in DeclaredBy(builds[b].declared)}'
  <2>1. PICK declared \in Nat : declared = builds[b].declared
    <3>1. builds[b] \in Built
      BY DEF BuildInv
    <3>2. QED BY <3>1 DEF Built
  <2>2. /\ \A d \in 1..declared : d \in DOMAIN drafts /\ drafts[d].complete
        /\ ToSet(builds[b].cases) =
              UNION {ToSet(Expansion(invariants[i])) : i \in DeclaredBy(declared)}
    BY <2>1 DEF BuildInv
  <2>3. /\ \A d \in 1..declared : d \in DOMAIN drafts' /\ drafts'[d].complete
        /\ ToSet(builds[b].cases) =
              UNION {ToSet(Expansion(invariants[i])) : i \in DeclaredBy(declared)}'
    BY <2>2, DeclaredKept
  <2>4. builds'[b].declared = declared
    BY <2>1
  <2>5. QED BY <2>1, <2>3, <2>4
<1>2. BuildInv'
  BY <1>1 DEF BuildInv
<1>3. BuiltInOrder'
  BY DEF BuiltInOrder
<1>4. QED BY <1>2, <1>3

LEMMA BuildStep ==
    ASSUME IInv, BuildInv, BuiltInOrder, Build
    PROVE  BuildInv' /\ BuiltInOrder'
<1> DEFINE cases == Expand(Expansions)
           new == [declared |-> Len(drafts), cases |-> cases]
<1>1. /\ builds' = Append(builds, new)
      /\ \A d \in DOMAIN drafts : drafts[d].complete
      /\ ~Collides(Expansions)
      /\ drafts' = drafts /\ invariants' = invariants
  BY DEF Build
<1>2. /\ CasesOf(Expansions) \in SUBSET Case
      /\ IsFiniteSet(CasesOf(Expansions))
      /\ CasesOf(Expansions) =
            UNION {ToSet(Expansion(invariants[i])) : i \in DOMAIN invariants}
  BY ExpansionsTyped
<1>3. \A c \in CasesOf(Expansions) : c.id \in Nat
  BY <1>2 DEF Case
<1>4. /\ cases \in Seq(CasesOf(Expansions))
      /\ ToSet(cases) = CasesOf(Expansions)
      /\ \A i, j \in DOMAIN cases : i < j => cases[i].id < cases[j].id
  BY <1>1, <1>2, <1>3, ExpandSorts
<1>5. /\ ~Collides([i \in DOMAIN cases |-> <<cases[i]>>])
      /\ Expand([i \in DOMAIN cases |-> <<cases[i]>>]) = cases
  BY <1>1, <1>2, <1>3, ExpandAgain
<1> HIDE DEF cases
<1>6. DOMAIN drafts = 1..Len(drafts) /\ Len(drafts) \in Nat
  BY DEF IInv, TypeOK
<1>7. new \in Built
  <2>1. cases \in Seq(Case)
    BY <1>2, <1>4, SeqMonotonic
  <2>2. QED BY <1>6, <2>1 DEF Built
<1>8. new.declared = Len(drafts) /\ new.cases = cases
  OBVIOUS
<1> HIDE DEF new
<1>9. /\ builds' \in Seq(Built)
      /\ DOMAIN builds' = DOMAIN builds \cup {Len(builds) + 1}
      /\ \A b \in DOMAIN builds : builds'[b] = builds[b]
      /\ builds'[Len(builds) + 1] = new
  BY <1>1, <1>7 DEF BuildInv
<1>10. DeclaredBy(Len(drafts)) = DOMAIN invariants
  <2>1. \A i \in DOMAIN invariants : invariants[i].draft \in DOMAIN drafts
    BY DEF IInv, CompletionInv
  <2>2. \A i \in DOMAIN invariants : invariants[i].draft <= Len(drafts)
    BY <1>6, <2>1
  <2>3. QED BY <2>2 DEF DeclaredBy
<1>11. ToSet(cases) = UNION {ToSet(Expansion(invariants[i])) :
                                i \in DeclaredBy(Len(drafts))}
  BY <1>2, <1>4, <1>10
<1>12. \A declared \in Nat :
          UNION {ToSet(Expansion(invariants[i])) : i \in DeclaredBy(declared)}' =
          UNION {ToSet(Expansion(invariants[i])) : i \in DeclaredBy(declared)}
  BY <1>1 DEF Expansion, CaseId, DeclaredBy
<1>13. ASSUME NEW b \in DOMAIN builds'
       PROVE  /\ \A d \in 1..builds'[b].declared :
                    d \in DOMAIN drafts' /\ drafts'[d].complete
              /\ ToSet(builds'[b].cases) =
                    UNION {ToSet(Expansion(invariants[i])) :
                              i \in DeclaredBy(builds[b].declared)}'
  <2>1. PICK declared \in Nat : declared = builds'[b].declared
    <3>1. builds'[b] \in Built
      BY <1>9
    <3>2. QED BY <3>1 DEF Built
  <2>2. /\ \A d \in 1..declared : d \in DOMAIN drafts /\ drafts[d].complete
        /\ ToSet(builds'[b].cases) =
              UNION {ToSet(Expansion(invariants[i])) : i \in DeclaredBy(declared)}
    BY <1>1, <1>6, <1>8, <1>9, <1>11, <2>1 DEF BuildInv
  <2>3. ToSet(builds'[b].cases) =
           UNION {ToSet(Expansion(invariants[i])) : i \in DeclaredBy(declared)}'
    BY <1>12, <2>2
  <2>4. QED BY <1>1, <2>1, <2>2, <2>3
<1>14. BuildInv'
  BY <1>9, <1>13 DEF BuildInv
<1>15. BuiltInOrder'
  <2>1. \A b \in DOMAIN builds' :
           \/ b \in DOMAIN builds /\ builds'[b] = builds[b]
           \/ builds'[b].cases = cases
    BY <1>8, <1>9
  <2>2. QED BY <1>4, <1>5, <2>1 DEF BuiltInOrder
<1>16. QED BY <1>14, <1>15

LEMMA BuiltInvAlways == Spec => [](IInv /\ BuiltInv)
<1>1. Init => BuiltInv
  BY DEF Init, BuiltInv, RegisteredInv, BuildInv, BuiltInOrder
<1>2. IInv /\ BuiltInv /\ [Next]_vars => BuiltInv'
  <2>1. SUFFICES ASSUME IInv, BuiltInv, [Next]_vars PROVE BuiltInv'
    OBVIOUS
  <2>2. IInv' /\ Kept
    BY <2>1, CallStep
  <2>3. RegisteredInv'
    BY <2>1, RegisteredStep DEF BuiltInv
  <2>4. CASE Build
    BY <2>1, <2>3, <2>4, BuildStep DEF BuiltInv
  <2>5. CASE ~Build
    <3>1. UNCHANGED builds
      BY <2>1, <2>5 DEF Next, vars, RegisterActor, Declare, SetId, As,
                        SetOperation, SelectOperations, Amend, Expect
    <3>2. QED BY <2>1, <2>2, <2>3, <3>1, BuildsKept DEF BuiltInv
  <2>6. QED BY <2>4, <2>5
<1>3. QED BY IInvAlways, <1>1, <1>2, PTL DEF Spec

\* A built contract goes on saying what was declared when it was built: all the
\* cases of all the declarations there were, and of no other, for the actors
\* that are registered under their names (makeContract, build and expand).
THEOREM BuildsStandForDeclarations == Spec => []BuiltAsDeclared
<1>1. ASSUME IInv, BuiltInv PROVE BuiltAsDeclared
  <2>1. SUFFICES ASSUME NEW b \in DOMAIN builds
                 PROVE  /\ \A d \in 1..builds[b].declared : drafts[d].complete
                        /\ ToSet(builds[b].cases) =
                              UNION {ToSet(Expansion(invariants[i])) :
                                        i \in DeclaredBy(builds[b].declared)}
                        /\ \A c \in ToSet(builds[b].cases) :
                              actors[c.actor.name] = {c.actor.factory}
    BY DEF BuiltAsDeclared, DeclaredBy
  <2>2. /\ \A d \in 1..builds[b].declared : drafts[d].complete
        /\ ToSet(builds[b].cases) =
              UNION {ToSet(Expansion(invariants[i])) :
                        i \in DeclaredBy(builds[b].declared)}
    BY <1>1 DEF BuiltInv, BuildInv
  <2>3. ASSUME NEW c \in ToSet(builds[b].cases)
        PROVE  actors[c.actor.name] = {c.actor.factory}
    <3>1. PICK i \in DOMAIN invariants : c \in ToSet(Expansion(invariants[i]))
      BY <2>2 DEF DeclaredBy
    <3>2. PICK k \in DOMAIN invariants[i].operations :
             c = Expansion(invariants[i])[k]
      BY <3>1 DEF Expansion, ToSet
    <3>3. c.actor = invariants[i].actor
      BY <3>2 DEF Expansion
    <3>4. QED BY <1>1, <3>3 DEF BuiltInv, RegisteredInv
  <2>4. QED BY <2>2, <2>3
<1>2. QED BY <1>1, BuiltInvAlways, PTL

\* A built contract is in the strict order of its ids, whatever the order of
\* its declarations, and the runner that expands it once more
\* (runAuthorizationCases) gets it as it is.
THEOREM BuildsAreInOrder == Spec => []BuiltInOrder
<1>1. BuiltInv => BuiltInOrder
  BY DEF BuiltInv
<1>2. QED BY <1>1, BuiltInvAlways, PTL
=============================================================================
