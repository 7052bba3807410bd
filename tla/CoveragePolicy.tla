--------------------------- MODULE CoveragePolicy ---------------------------
(***************************************************************************)
(* OpenApiCoveragePolicy.validate (openapi-coverage-policy.ts): the        *)
(* problems it finds in a catalog of operations, their classifications and *)
(* the cases of the suite.  Method and path are the operation's target.    *)
(***************************************************************************)
EXTENDS Naturals, Sequences, SequencesExt

CatalogIds(catalog) == {catalog[i].id : i \in DOMAIN catalog}

ClassifiedIds(classifications) ==
    {classifications[i].operationId : i \in DOMAIN classifications}

\* uniqueOperations and uniqueClassifications keep the first of each id, and
\* report the others.
Operation(catalog, id) ==
    catalog[SelectInSeq(catalog, LAMBDA operation : operation.id = id)]

Classification(classifications, id) ==
    classifications[SelectInSeq(classifications,
                                LAMBDA entry : entry.operationId = id)]

DuplicateOperations(catalog) ==
    {catalog[i].id : i \in {j \in DOMAIN catalog :
        \E k \in 1..(j - 1) : catalog[k].id = catalog[j].id}}

\* Mutation of DuplicateClassifications: only neighbours are compared.
AdjacentClassifications(classifications) ==
    {classifications[i].operationId : i \in {j \in DOMAIN classifications :
        /\ j > 1
        /\ classifications[j - 1].operationId = classifications[j].operationId}}

DuplicateClassifications(classifications) ==
    {classifications[i].operationId : i \in {j \in DOMAIN classifications :
        \E k \in 1..(j - 1) :
           classifications[k].operationId = classifications[j].operationId}}

\* declaredSecurity, {} when the mode declares none.
DeclaredSecurity(classification) ==
    CASE classification.mode = "public"   -> {"public"}
      [] classification.mode = "excluded" -> {}
      [] OTHER                            -> {classification.security}

NeedsCase(classification) ==
    classification.mode \notin {"public", "excluded"}

Misdirected(cases, operation) ==
    \E case \in cases :
        case.operation = operation.id /\ case.target # operation.target

Problems(catalog, classifications, cases) ==
    LET known == CatalogIds(catalog) \cap ClassifiedIds(classifications)
        operation(id) == Operation(catalog, id)
        declared(id) == Classification(classifications, id)
        Of(kind, ids) == {kind} \X ids
    IN  Of("duplicate operation ID", DuplicateOperations(catalog))
        \cup Of("duplicate classification",
                DuplicateClassifications(classifications))
        \cup Of("missing classification",
                CatalogIds(catalog) \ ClassifiedIds(classifications))
        \cup Of("stale classification",
                ClassifiedIds(classifications) \ CatalogIds(catalog))
        \cup Of("security mode conflict",
                {id \in known : \E mode \in DeclaredSecurity(declared(id)) :
                                   mode # operation(id).security})
        \cup Of("empty exclusion rationale",
                {id \in known : /\ declared(id).mode = "excluded"
                                /\ declared(id).rationale = "blank"})
        \cup Of("operation without authorization case",
                {id \in known :
                    /\ NeedsCase(declared(id))
                    /\ \A case \in cases : case.operation # id})
        \cup Of("case target mismatch",
                {id \in known : Misdirected(cases, operation(id))})

\* validate() does not throw.
Valid(catalog, classifications, cases) ==
    Problems(catalog, classifications, cases) = {}
=============================================================================
