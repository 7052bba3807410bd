---------------------------- MODULE CaseExpander ----------------------------
(***************************************************************************)
(* AuthorizationCaseExpander.expand (model.ts) on what the expand() of each*)
(* invariant returned: a sequence of sequences of cases.  The id of a case *)
(* is its place in the stable order of texts, which determines the text.   *)
(***************************************************************************)
EXTENDS Naturals, Sequences, SequencesExt, AscendingOrder

Position(expansions) ==
    UNION {{i} \X DOMAIN expansions[i] : i \in DOMAIN expansions}

CaseAt(expansions, p) == expansions[p[1]][p[2]]

\* expand() throws a DuplicateAuthorizationCaseIdError.
Collides(expansions) ==
    \E p, q \in Position(expansions) :
        /\ p # q
        /\ CaseAt(expansions, p).id = CaseAt(expansions, q).id

\* The cases of byId: the values of a map from their ids.
CasesOf(expansions) ==
    {CaseAt(expansions, p) : p \in Position(expansions)}

\* Mutation of Expand: the order of the declarations.
ExpandUnsorted(expansions) == FlattenSeq(expansions)

\* byId.get(id)
ById(cases, id) == CHOOSE case \in cases : case.id = id

\* The ids in order, each with its case.
Expand(expansions) ==
    LET cases == CasesOf(expansions)
        ids   == Ascending({case.id : case \in cases})
    IN  [i \in DOMAIN ids |-> ById(cases, ids[i])]
=============================================================================
