------------------------ MODULE AuthorizationContract ------------------------
(***************************************************************************)
(* The fluent contract builder (authoring-contract.ts).  All the builders  *)
(* of a contract share one ContractState, and all those of a declaration   *)
(* share its draft; an author may keep any of them and call it again at any*)
(* time.  Which builders exist follows from the draft: the one that        *)
(* declares the operation is handed out by as(), and so on.  A call that   *)
(* throws changes nothing, so it is the absence of a step.                 *)
(*                                                                         *)
(* An optional property of a draft is the set of its value, empty while it *)
(* is undefined.                                                           *)
(***************************************************************************)
EXTENDS CaseExpander, OperationInventory

CONSTANTS
    Name, Factory,      \* names of actors, and session factories
    Description,
    CaseOperation,      \* operations that explicit cases declare
    ExplicitId,         \* ids that id() is called with, none of them blank
    Inventory,          \* options.operations, or NoInventory
    Selection,          \* selections that rules make
    Expectation,
    CodedExpectation,   \* those that need options.error
    HasErrorEnvelope,
    GeneratedId(_, _, _),  \* the id of a description, an operation, an actor
    MaxDeclarations,    \* bound on the declarations, in Declare
    MaxBuilds           \* bound on the calls of build, in Build

NoInventory == <<"none">>

ASSUME MaxDeclarationsAssumption == MaxDeclarations \in Nat
ASSUME MaxBuildsAssumption == MaxBuilds \in Nat
ASSUME HasErrorEnvelopeAssumption == HasErrorEnvelope \in BOOLEAN
ASSUME ExplicitIdAssumption == ExplicitId \subseteq Nat

VARIABLES
    actors,       \* the factory of each registered name
    drafts,       \* state.declarations
    invariants,   \* state.invariants: what each expand() has captured
    builds        \* history: the contracts that build() returned

vars == <<actors, drafts, invariants, builds>>

Actor == [name: Name, factory: Factory]

\* inventoryOperationModel
ModelOf(operation) ==
    [id |-> operation.operationId,
     target |-> <<operation.method, operation.path>>]

\* What a rule that makes a selection holds.
Models(selection) ==
    LET selected == Selected(Inventory, selection)
    IN  [i \in DOMAIN selected |-> ModelOf(selected[i])]

\* The operations that a case or a rule can have declared.
Operations ==
    {<<operation>> : operation \in CaseOperation}
    \cup {Models(selection) : selection \in
              {s \in Selection : /\ Inventory # NoInventory
                                 /\ Selectable(Inventory, s)}}

Draft ==
    [kind: {"case", "rule"}, description: Description, complete: BOOLEAN,
     explicitId: SUBSET ExplicitId, actor: SUBSET Actor,
     operations: SUBSET Operations]

Invariant ==
    [draft: Nat, explicitId: SUBSET ExplicitId, actor: Actor,
     operations: Operations, expected: Expectation]

\* A case, whose id is its place in the stable order.
Case ==
    [id: Nat, actor: Actor, expected: Expectation,
     operation: UNION {ToSet(operations) : operations \in Operations}]

\* What build() returned, and how many declarations there were.
Built == [declared: Nat, cases: Seq(Case)]

ASSUME InventoryAssumption == Inventory \in Seq(ToSet(Inventory))
ASSUME SelectionAssumption ==
    \A selection \in Selection :
        /\ selection.by \in {"all", "ids", "tags"}
        /\ selection.by = "ids" => selection.ids \in Seq(ToSet(selection.ids))
ASSUME GeneratedIdAssumption ==
    \A description \in Description, operations \in Operations, name \in Name :
        \A operation \in ToSet(operations) :
            GeneratedId(description, operation.id, name) \in Nat

TypeOK ==
    /\ actors \in [Name -> SUBSET Factory]
    /\ drafts \in Seq(Draft)
    /\ invariants \in Seq(Invariant)

Init ==
    /\ actors = [name \in Name |-> {}]
    /\ drafts = <<>>
    /\ invariants = <<>>
    /\ builds = <<>>

-----------------------------------------------------------------------------
(* contract.actor(), contract.case(), contract.rule()                      *)

RegisterActor(name, factory) ==
    /\ actors[name] = {}
    /\ actors' = [actors EXCEPT ![name] = {factory}]
    /\ UNCHANGED <<drafts, invariants, builds>>

Declare(kind, description) ==
    /\ Len(drafts) < MaxDeclarations
    /\ drafts' = Append(drafts,
                    [kind |-> kind, description |-> description,
                     complete |-> FALSE, explicitId |-> {},
                     actor |-> {}, operations |-> {}])
    /\ UNCHANGED <<actors, invariants, builds>>

-----------------------------------------------------------------------------
(* The builders of draft d.                                                *)

Incomplete(d) == ~drafts[d].complete   \* assertIncomplete does not throw

Amend(d, draft) ==
    /\ drafts' = [drafts EXCEPT ![d] = draft]
    /\ UNCHANGED <<actors, invariants, builds>>

SetId(d, id) ==
    /\ drafts[d].kind = "case"
    /\ Incomplete(d)
    /\ drafts[d].explicitId = {}
    /\ Amend(d, [drafts[d] EXCEPT !.explicitId = {id}])

\* as(), which a rule offers once operations are selected; the last call wins.
As(d, name) ==
    /\ drafts[d].kind = "rule" => drafts[d].operations # {}
    /\ Incomplete(d)
    /\ actors[name] # {}
    /\ \E factory \in actors[name] :
          Amend(d, [drafts[d] EXCEPT
                       !.actor = {[name |-> name, factory |-> factory]}])

\* get(), post(), ..., request(); the last call wins.
SetOperation(d, operation) ==
    /\ drafts[d].kind = "case"
    /\ drafts[d].actor # {}
    /\ Incomplete(d)
    /\ Amend(d, [drafts[d] EXCEPT !.operations = {<<operation>>}])

\* forAllOperations() and forOperations(), which do not ask whether the rule
\* is complete.
SelectOperations(d, selection) ==
    /\ drafts[d].kind = "rule"
    /\ Inventory # NoInventory
    /\ Selectable(Inventory, selection)
    /\ Amend(d, [drafts[d] EXCEPT !.operations = {Models(selection)}])

\* Mutation of Expect: the terminals do not ask whether it is complete.
ExpectAgain(d, expectation) ==
    /\ drafts[d].actor # {} /\ drafts[d].operations # {}
    /\ expectation \in CodedExpectation => HasErrorEnvelope
    /\ drafts' = [drafts EXCEPT ![d].complete = TRUE]
    /\ \E actor \in drafts[d].actor, operations \in drafts[d].operations :
          invariants' = Append(invariants,
              [draft |-> d, explicitId |-> drafts[d].explicitId,
               actor |-> actor, operations |-> operations,
               expected |-> expectation])
    /\ UNCHANGED <<actors, builds>>

\* The expect...() terminals of a case and of a rule.  The expectation is
\* made, and may be refused, before the declaration is completed.
Expect(d, expectation) ==
    /\ drafts[d].actor # {} /\ drafts[d].operations # {}
    /\ Incomplete(d)
    /\ expectation \in CodedExpectation => HasErrorEnvelope
    /\ drafts' = [drafts EXCEPT ![d].complete = TRUE]
    /\ \E actor \in drafts[d].actor, operations \in drafts[d].operations :
          invariants' = Append(invariants,
              [draft |-> d, explicitId |-> drafts[d].explicitId,
               actor |-> actor, operations |-> operations,
               expected |-> expectation])
    /\ UNCHANGED <<actors, builds>>

-----------------------------------------------------------------------------
(* contract.build()                                                        *)

CaseId(invariant, operation) ==
    IF invariant.explicitId # {} THEN CHOOSE id \in invariant.explicitId : TRUE
    ELSE GeneratedId(drafts[invariant.draft].description, operation.id,
                     invariant.actor.name)

\* Mutation of Expansion: a rule expands what its draft selects by now.
ExpansionOfDraft(invariant) ==
    LET operations == CHOOSE s \in drafts[invariant.draft].operations : TRUE
    IN  [i \in DOMAIN operations |->
            [id |-> CaseId(invariant, operations[i]),
             actor |-> invariant.actor,
             operation |-> operations[i],
             expected |-> invariant.expected]]

\* The expand() of an invariant.
Expansion(invariant) ==
    [i \in DOMAIN invariant.operations |->
        [id |-> CaseId(invariant, invariant.operations[i]),
         actor |-> invariant.actor,
         operation |-> invariant.operations[i],
         expected |-> invariant.expected]]

Expansions == [i \in DOMAIN invariants |-> Expansion(invariants[i])]

\* Mutation of Build: a case replaces those of the same id.
BuildReplacing ==
    LET all == FlattenSeq(Expansions)
        last == {all[i] : i \in {j \in DOMAIN all :
                    \A k \in DOMAIN all : all[k].id = all[j].id => k <= j}}
    IN
    /\ Len(builds) < MaxBuilds
    /\ \A d \in DOMAIN drafts : drafts[d].complete
    /\ builds' = Append(builds, [declared |-> Len(drafts),
                                 cases |-> Expand(<<SetToSeq(last)>>)])
    /\ UNCHANGED <<actors, drafts, invariants>>

Build ==
    /\ Len(builds) < MaxBuilds
    /\ \A d \in DOMAIN drafts : drafts[d].complete
    /\ ~Collides(Expansions)
    /\ builds' = Append(builds, [declared |-> Len(drafts),
                                 cases |-> Expand(Expansions)])
    /\ UNCHANGED <<actors, drafts, invariants>>

Next ==
    \/ \E name \in Name, factory \in Factory : RegisterActor(name, factory)
    \/ \E kind \in {"case", "rule"}, description \in Description :
          Declare(kind, description)
    \/ \E d \in DOMAIN drafts :
          \/ \E id \in ExplicitId : SetId(d, id)
          \/ \E name \in Name : As(d, name)
          \/ \E operation \in CaseOperation : SetOperation(d, operation)
          \/ \E selection \in Selection : SelectOperations(d, selection)
          \/ \E expectation \in Expectation : Expect(d, expectation)
    \/ Build

Spec == Init /\ [][Next]_vars

-----------------------------------------------------------------------------
(* Correctness.                                                            *)

InvariantsOf(d) == {i \in DOMAIN invariants : invariants[i].draft = d}

\* A declaration takes exactly one expectation, whichever of its builders are
\* kept and called again: it adds cases once, when it is completed.
ExactlyOneExpectation ==
    \A d \in DOMAIN drafts :
        Cardinality(InvariantsOf(d)) = IF drafts[d].complete THEN 1 ELSE 0

\* A built contract holds all the cases of all the declarations there were,
\* and nothing an author calls later, on a builder of any of them, changes
\* what those declarations stand for.  The actor of each case is still the one
\* registered under its name, whatever has been registered since.
BuiltAsDeclared ==
    \A b \in DOMAIN builds :
        LET built == builds[b]
            declared == {i \in DOMAIN invariants :
                            invariants[i].draft <= built.declared}
        IN  /\ \A d \in 1..built.declared : drafts[d].complete
            /\ ToSet(built.cases) =
                  UNION {ToSet(Expansion(invariants[i])) : i \in declared}
            /\ \A c \in ToSet(built.cases) :
                  actors[c.actor.name] = {c.actor.factory}

\* A built contract is in the strict order of its ids: no two cases share one,
\* and the order says nothing of the order of the declarations.  Expanding it
\* again, as runAuthorizationCases does, neither throws nor changes it.
BuiltInOrder ==
    \A b \in DOMAIN builds :
        LET cases == builds[b].cases
            again == [i \in DOMAIN cases |-> <<cases[i]>>]
        IN  /\ \A i, j \in DOMAIN cases : i < j => cases[i].id < cases[j].id
            /\ ~Collides(again)
            /\ Expand(again) = cases

\* Two completed declarations whose ids collide keep doing so, and no later
\* call of build succeeds: a case is never replaced by another of its id.
CollisionsAreFinal ==
    [][Collides(Expansions) => Collides(Expansions)' /\ UNCHANGED builds]_vars

-----------------------------------------------------------------------------
(* The inductive invariant: a declaration has an invariant once it is      *)
(* complete, only then, and only one.                                      *)

CompletionInv ==
    /\ \A i \in DOMAIN invariants :
          /\ invariants[i].draft \in DOMAIN drafts
          /\ drafts[invariants[i].draft].complete
    /\ \A i, j \in DOMAIN invariants :
          invariants[i].draft = invariants[j].draft => i = j
    /\ \A d \in DOMAIN drafts :
          drafts[d].complete =>
             \E i \in DOMAIN invariants : invariants[i].draft = d

IInv == TypeOK /\ CompletionInv

(* The inductive invariant of what has been built.  An actor that a draft  *)
(* names, or that an invariant has captured, is the one registered; and a  *)
(* build holds the cases of the declarations there were, all complete, so  *)
(* that none of them can take an expectation any more.                     *)

RegisteredInv ==
    /\ \A name \in Name : \A f, g \in actors[name] : f = g
    /\ \A d \in DOMAIN drafts : \A actor \in drafts[d].actor :
          actors[actor.name] = {actor.factory}
    /\ \A i \in DOMAIN invariants :
          actors[invariants[i].actor.name] = {invariants[i].actor.factory}

\* The invariants of the first so many declarations.
DeclaredBy(declared) ==
    {i \in DOMAIN invariants : invariants[i].draft <= declared}

BuildInv ==
    /\ builds \in Seq(Built)
    /\ \A b \in DOMAIN builds :
          /\ \A d \in 1..builds[b].declared :
                d \in DOMAIN drafts /\ drafts[d].complete
          /\ ToSet(builds[b].cases) =
                UNION {ToSet(Expansion(invariants[i])) :
                          i \in DeclaredBy(builds[b].declared)}

BuiltInv == RegisteredInv /\ BuildInv /\ BuiltInOrder
=============================================================================
