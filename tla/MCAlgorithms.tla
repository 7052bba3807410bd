---------------------------- MODULE MCAlgorithms ----------------------------
(***************************************************************************)
(* The pure algorithms of the package on all small inputs.  What each one  *)
(* promises is in AlgorithmProperties.  A state is the question that is    *)
(* asked and one input of it; nothing changes it.                          *)
(***************************************************************************)
EXTENDS MCMessages

CONSTANT MCAsked   \* the questions of the run

-----------------------------------------------------------------------------
(* openapi-inventory.ts: every document of two small path items, and every *)
(* selection of a rule from it.                                            *)

MCOperation ==
    [operationId: {"a", "b", "c"}, tags: {{"t"}, {"t", "u"}}]
    \cup {[operationId |-> InvalidId, tags |-> {}],
          [operationId |-> "c", tags |-> InvalidTags]}

MCMethods(most) ==
    UNION {[methods -> MCOperation] :
              methods \in {M \in SUBSET {"get", "head", "options"} :
                              Cardinality(M) <= most}}

MCDocument ==
    {<<[path |-> "/p", parameterized |-> FALSE, methods |-> first],
       [path |-> "/q/{id}", parameterized |-> TRUE, methods |-> second]>> :
        first \in MCMethods(2), second \in MCMethods(1)}

MCSelection ==
    {[by |-> "all"]}
    \cup {[by |-> "ids", ids |-> ids] :
             ids \in {<<>>, <<"a">>, <<"b", "a", "b">>, <<"c", "a">>, <<"d">>}}
    \cup {[by |-> "tags", tags |-> tags] : tags \in SUBSET {"t", "u", "v"}}

-----------------------------------------------------------------------------
(* openapi-coverage-policy.ts: every small catalog, list of               *)
(* classifications and set of cases.                                       *)

MCCatalogOperation ==
    {[id |-> id, security |-> security, target |-> id] :
        id \in {"a", "b"}, security \in {"public", "bearer"}}

MCClassification ==
    [operationId: {"a", "b"}, mode: {"public"}]
    \cup [operationId: {"a", "b"}, mode: {"authenticated"},
          security: {"bearer"}]
    \cup [operationId: {"a"}, mode: {"protocol"},
          security: {"public", "bearer"}]
    \cup [operationId: {"b"}, mode: {"excluded"},
          rationale: {"blank", "given"}]

MCCase == [operation: {"a", "b"}, target: {"a", "b"}]

-----------------------------------------------------------------------------
(* sessions.ts and applySession: every small request and session.          *)

Spelled ==
    [name: {"authorization"}, spelling: {"Authorization", "AUTHORIZATION"}]
    \cup [name: {"cookie"}, spelling: {"Cookie", "COOKIE"}]
    \cup [name: {"accept"}, spelling: {"Accept"}]

Records(value) ==
    {record \in BoundedSeq({Header(s.name, s.spelling, <<value>>) :
                               s \in Spelled}, 3) :
        \A i, j \in DOMAIN record :
           record[i].name = record[j].name
           /\ record[i].spelling = record[j].spelling => i = j}

CookieLists == {<<>>, <<"c1">>, <<"c1", "c2">>}

\* Those of the factories, and those of a factory that returns both parts.
Sessions ==
    {Anonymous, Bearer("session")}
    \cup {ApiKey(header, "session") : header \in Spelled}
    \cup {Cookies(cookies) : cookies \in CookieLists}
    \cup {FromHeaders(record) : record \in Records("session")}
    \cup {Session(record, cookies) :
             record \in {r \in Records("session") : Len(r) <= 2},
             cookies \in CookieLists}

-----------------------------------------------------------------------------
(* isDeepSubset: every pair of small JSON values.                          *)

Primitive(label) == [path \in {<<>>} |-> label]

\* The value of this kind with these values under its keys.
Container(kind, children) ==
    [path \in {<<>>} \cup UNION {{<<key>> \o rest : rest \in DOMAIN children[key]} :
                                    key \in DOMAIN children} |->
        IF path = <<>> THEN kind ELSE children[Head(path)][Tail(path)]]

Containers(values) ==
    {Container("array", items) :
        items \in UNION {[keys -> values] : keys \in {{}, {0}, {0, 1}}}}
    \cup
    {Container("record", fields) :
        fields \in UNION {[keys -> values] : keys \in SUBSET {0, 1}}}

Primitives == {Primitive("null"), Primitive("one")}

Flat == Primitives \cup Containers(Primitives)

\* A few nested values beside the flat ones.
Nested ==
    LET one  == [key \in {0} |-> Primitive("one")]
        none == [key \in {} |-> Primitive("one")]
    IN  Containers({Primitive("one"), Container("array", none),
                    Container("array", one), Container("record", one)})

Values == Flat \cup Nested

-----------------------------------------------------------------------------
Inputs ==
    [inventory |-> [document: MCDocument, selection: MCSelection],
     coverage  |-> [catalog: BoundedSeq(MCCatalogOperation, 2),
                    classifications: BoundedSeq(MCClassification, 3),
                    cases: SUBSET MCCase],
     session   |-> [headers: Records("request"), session: Sessions],
     body      |-> [actual: Values, expected: Values],
     path      |-> [path: MCPath, params: MCParams],
     echo      |-> MCExchange,
     report    |-> MCReport,
     redaction |-> [value: Given, query: {<<>>}]
                   \cup [value: {Redacted}, query: MCQuery]]

Init == question \in MCAsked /\ input \in Inputs[question]

Next == UNCHANGED <<question, input>>

Spec == Init /\ [][Next]_<<question, input>>
=============================================================================
