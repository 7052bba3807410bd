------------------------- MODULE AlgorithmProperties -------------------------
(***************************************************************************)
(* What the pure algorithms of the package promise, each stated without    *)
(* the algorithm.  A state is the question that is asked, by its name, and *)
(* an input of it.                                                         *)
(***************************************************************************)
EXTENDS OperationInventory, CoveragePolicy, SessionRequest, OperationRequest,
        FetchClient, ReportArtifact, BodyExpectation, Redaction

VARIABLES question, input

Asks(name) == question = name

-----------------------------------------------------------------------------
(* openapi-inventory.ts, and the selections of a rule from the inventory.  *)

\* "Every discovered operation must have a unique operationId"
\* (openapi-inventory.ts:49-50): an accepted document's supported operations
\* are all in the inventory, once, and its operationIds tell them apart.
InventoryComplete ==
    Asks("inventory") /\ Accepted(input.document) =>
        LET inventory == FromOpenApi(input.document)
            document  == input.document
        IN  /\ {<<inventory[i].path, inventory[i].method>> :
                   i \in DOMAIN inventory} =
                  UNION {{document[d].path} \X
                         (DOMAIN document[d].methods \ {"options", "trace"}) :
                            d \in DOMAIN document}
            /\ Cardinality(OperationIds(inventory)) = Len(inventory)

\* A rule that is accepted gets each of the operations that it asks for, none
\* of them twice, so that its cases do not collide with one another, and none
\* that it does not ask for or that is a template.  It gets none only if it
\* names none: a misspelt id or tag never leaves a rule without cases.
SelectionExact ==
    Asks("inventory") /\ Accepted(input.document) =>
        LET inventory == FromOpenApi(input.document)
            selection == input.selection
            selected  == Selected(inventory, selection)
            wanted ==
                {i \in DOMAIN inventory :
                    CASE selection.by = "all"  -> TRUE
                      [] selection.by = "ids"  ->
                            Contains(selection.ids, inventory[i].operationId)
                      [] selection.by = "tags" ->
                            \E tag \in selection.tags : tag \in inventory[i].tags}
        IN  Selectable(inventory, selection) =>
                /\ ToSet(selected) = {inventory[i] : i \in wanted}
                /\ Len(selected) = Cardinality(wanted)
                /\ \A operation \in ToSet(selected) : ~operation.parameterized
                /\ selected = <<>> =>
                      CASE selection.by = "all"  -> inventory = <<>>
                        [] selection.by = "ids"  -> selection.ids = <<>>
                        [] selection.by = "tags" -> selection.tags = {}

-----------------------------------------------------------------------------
(* openapi-coverage-policy.ts.                                             *)

\* Operations and classifications correspond one to one, and every pair agrees
\* on security, is excluded for a reason or has what cases it needs, all of
\* them on the operation's own target.
Covers(catalog, classifications, cases) ==
    /\ Cardinality(CatalogIds(catalog)) = Len(catalog)
    /\ Len(catalog) = Len(classifications)
    /\ \A i \in DOMAIN catalog :
          \E j \in DOMAIN classifications :
             LET operation == catalog[i]
                 declared  == classifications[j]
                 own == {case \in cases : case.operation = operation.id}
             IN  /\ declared.operationId = operation.id
                 /\ \A k \in DOMAIN classifications \ {j} :
                       classifications[k].operationId # operation.id
                 /\ \A case \in own : case.target = operation.target
                 /\ CASE declared.mode = "public" ->
                            operation.security = "public"
                      [] declared.mode = "excluded" ->
                            declared.rationale # "blank"
                      [] OTHER ->
                            /\ declared.security = operation.security
                            /\ own # {}

\* "Validates complete, current, uniquely classified authorization coverage"
\* (openapi-coverage-policy.ts:16): validate() accepts exactly what covers the
\* catalog.
AcceptsCompleteCoverage ==
    Asks("coverage") =>
        (Valid(input.catalog, input.classifications, input.cases) <=>
            Covers(input.catalog, input.classifications, input.cases))

\* "Raised when the declared authorization matrix and public API inventory
\* diverge" (openapi-coverage-policy.ts:8): a case for an operation that the
\* catalog no longer has would be such a divergence.
CasesAreCurrent ==
    /\ Asks("coverage")
    /\ Valid(input.catalog, input.classifications, input.cases)
    => \A case \in input.cases : case.operation \in CatalogIds(input.catalog)

-----------------------------------------------------------------------------
(* sessions.ts and applySession.                                           *)

Names == {"authorization", "cookie", "accept"}

\* "Returned header names override matching request headers
\* case-insensitively; returned cookies append to an existing Cookie header"
\* (sessions.ts:12-13).  Of a name that the request has once or not at all, the
\* session's last header is sent if it has one, else the request's, and for
\* Cookie the session's cookies after it.  Whatever spellings the request has,
\* the session's header is among those that are sent, no more of the name than
\* there were, and what the session does not name is sent as it was.
SentAsMerged ==
    Asks("session") =>
        LET headers == input.headers
            session == input.session
            merged  == ApplySession(headers, session)
        IN  \A name \in Names :
                LET given    == Named(headers, name)
                    supplied == Named(session.headers, name)
                    left     == Named(merged, name)
                    cookies  == IF name = "cookie" THEN session.cookies ELSE <<>>
                IN  /\ Len(given) <= 1 =>
                          Sent(merged, name) =
                             (IF supplied = <<>> THEN Sent(headers, name)
                              ELSE Last(supplied).value) \o cookies
                    /\ cookies = <<>> =>
                          IF supplied = <<>> THEN left = given
                          ELSE Last(supplied) \in ToSet(left)
                    /\ Len(left) <= 1 \/ Len(left) <= Len(given)

-----------------------------------------------------------------------------
(* authoring-contract.ts, resolvePath.                                     *)

SuppliedNames(params) == UNION {DOMAIN supplied : supplied \in params}

\* Path parameters "are URL-encoded" (packages/conformance/README.md:128) and
\* neither missing nor left over (authoring-contract.ts:578,583): a request is
\* built exactly when every placeholder has a parameter that gives a value and
\* every parameter a placeholder, and then each placeholder has become one
\* segment that decodes to its parameter and holds no separator.  A name that
\* objects inherit is never missed, unless there are no parameters at all.
ResolvedAsDeclared ==
    Asks("path") =>
        LET path == input.path
            params == input.params
            resolved == ResolvePath(path, params)
            Gives(name) == params # {} /\ ~Refused(Parameter(params, name))
        IN  /\ Builds(path, params) <=>
                  /\ \A name \in ExpectedNames(path) :
                        /\ name \in SuppliedNames(params) \cup Inherited
                        /\ Gives(name)
                  /\ SuppliedNames(params) \subseteq ExpectedNames(path)
            /\ Builds(path, params) =>
                  \A i \in DOMAIN path :
                      /\ Cardinality(resolved[i]) = Cardinality(path[i].matched)
                      /\ \A value \in resolved[i] :
                            /\ \A j \in DOMAIN value :
                                  value[j].char = "/" => value[j].escaped
                            /\ \E name \in path[i].matched :
                                  [j \in DOMAIN value |-> value[j].char] =
                                     TextOf(Parameter(params, name))

\* "Path parameters are required by the type surface"
\* (packages/conformance/README.md:128): a declaration that supplies the
\* parameters its type asks for, each with a value, builds its request.
TypedRequestsBuild ==
    /\ Asks("path")
    /\ SuppliedNames(input.params) = TypedNames(input.path)
    /\ \A name \in SuppliedNames(input.params) :
          Parameter(input.params, name) = Literal({<<"a">>})
    => Builds(input.path, input.params)

-----------------------------------------------------------------------------
(* authoring-runtime.ts, requestBody and responseBody.                     *)

\* A body survives the way to a target that echoes it and back exactly when it
\* is absent, a document sent as JSON, or a string that is not empty and that
\* is not JSON sent as JSON: only then may an expectation repeat the body that
\* the case has sent.  Nothing but such an echo of a body is ever read as one.
BodySurvivesEcho ==
    Asks("echo") /\ Sendable(input.method, input.body) =>
        LET sent == RequestBody(input.body)
            type == SentContentType(input.body, input.contentType)
            text == IF sent = {} THEN Empty ELSE CHOOSE t \in sent : TRUE
            read == ResponseBody(text, type)
        IN  read = input.body <=>
                \/ input.body = {}
                \/ \E value \in input.body :
                      \/ value.type = "document" /\ IsJson(type)
                      \/ /\ value.type = "string"
                         /\ value.text # Empty
                         /\ IsJson(input.contentType) => value.text.parses = {}

-----------------------------------------------------------------------------
(* authoring-expectations.ts, isDeepSubset.                                *)

\* "a recursive subset body comparison" (authoring-contract.ts:167): the body
\* contains the subset exactly when every path of the subset leads to the same
\* thing in the body.  So it is a partial order in which a response may grow.
ContainsEveryPath ==
    Asks("body") =>
        LET actual   == input.actual
            expected == input.expected
        IN  IsDeepSubset(actual, expected) <=>
               \A path \in DOMAIN expected :
                   /\ path \in DOMAIN actual
                   /\ actual[path] = expected[path]

-----------------------------------------------------------------------------
(* reporters.ts.                                                           *)

\* The report with its arrays the other way round, as another run of the same
\* outcome might have it.
Turned(report) ==
    LET turned == [i \in DOMAIN report.cases |->
                      [report.cases[i] EXCEPT !.failures = Reverse(@)]]
    IN  [report EXCEPT !.cases = Reverse(turned), !.failures = Reverse(@)]

AreRedacted(failures) ==
    \A i \in DOMAIN failures : Redact(failures[i].message) = failures[i].message

IsRedacted(report) ==
    /\ \A i \in DOMAIN report.cases :
          /\ Redact(report.cases[i].id) = report.cases[i].id
          /\ AreRedacted(report.cases[i].failures)
    /\ AreRedacted(report.failures)

\* "A canonical JSON artifact with deterministic keys and array order"
\* (reporters.ts:60): the artifact is the same in whatever order the report
\* has its cases and failures, writing a report of redacted texts again adds
\* nothing, and the console shows the artifact's failed cases, in its order.
ArtifactCanonical ==
    Asks("report") =>
        LET artifact == Canonicalize(input)
            console  == ConsoleLines(input)
            failed   == ElementsAt(artifact.cases, NotPassed(artifact.cases))
        IN  /\ artifact = Canonicalize(Turned(input))
            /\ IsRedacted(input) => Canonicalize(artifact) = artifact
            /\ DOMAIN console.cases = DOMAIN failed
            /\ \A i \in DOMAIN failed :
                  /\ console.cases[i].id = failed[i].id
                  /\ ToSet(console.cases[i].failures) = ToSet(failed[i].failures)
            /\ console.failures = artifact.failures

-----------------------------------------------------------------------------
(* redaction.ts.                                                           *)

\* There is no value under a sensitive key, at any level, and the patterns change
\* no string, but for what they have left that may be JSON again.
Clean(value) ==
    \A part \in Parts[value] :
        /\ part.kind \in {"text", "serialized"} =>
              Left(part) = "same" \/ part = Rewritten
        /\ \A key \in DOMAIN part.children :
              IsSensitive(part, key) => part.children[key] = Redacted

InsensitiveOf(query) ==
    ElementsAt(query, {i \in DOMAIN query : query[i].key \notin SensitiveKey})

\* run() redacts a message up to twice and each reporter once more: redacting
\* what is redacted never throws, and changes nothing unless a text pattern has
\* left what may be JSON again.  Where all that is serialized can be redacted it
\* has reached every level at once, through strings that are JSON themselves.
\* A query keeps its keys, and what is not sensitive in order, if the patterns
\* leave the path as it is.
RedactedForGood ==
    Asks("redaction") =>
        LET value == RedactValue[input.value]
            path  == RedactPath(input.query)
            query == path.children
        IN  /\ Supported[input.value] =>
                  /\ Supported[value]
                  /\ Rewritten \notin Parts[value] => RedactValue[value] = value
                  /\ (\A part \in Parts[input.value] :
                         part.kind = "serialized" => Supported[Content(part)])
                     => Clean(value)
            /\ path.kind = "path" =>
                  /\ RedactPath(query) = path
                  /\ InsensitiveOf(query) = InsensitiveOf(input.query)
                  /\ {p.key : p \in ToSet(query)} =
                        {p.key : p \in ToSet(input.query)}
=============================================================================
