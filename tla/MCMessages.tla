----------------------------- MODULE MCMessages -----------------------------
(***************************************************************************)
(* All small inputs of the conversions of requests, bodies, reports and    *)
(* texts.                                                                  *)
(***************************************************************************)
EXTENDS AlgorithmProperties

-----------------------------------------------------------------------------
(* authoring-contract.ts, resolvePath: every path of up to two segments.    *)

MCSegment ==
    {Segment({}, {}),                       \* devices
     Segment({"id"}, {"id"}),               \* :id
     Segment({"constructor"}, {"constructor"}),
     Segment({}, {"id"}),                   \* 1:id
     Segment({"id.o"}, {"id"})}             \* :id.o

MCText == {<<"a">>, <<"a", "/">>, <<".">>, UndefinedText}

MCParameter ==
    {Literal(value) : value \in {{}} \cup {{text} : text \in MCText}}
    \cup {Callback(value) : value \in {{}, {<<"a">>}}}
    \cup {Throwing}

MCParams ==
    {{}} \cup {{params} : params \in
        UNION {[names -> MCParameter] :
                  names \in {N \in SUBSET {"id", "id.o", "constructor"} :
                                Cardinality(N) <= 2}}}

MCPath == BoundedSeq(MCSegment, 2)

-----------------------------------------------------------------------------
(* authoring-runtime.ts: every body, declared content type and method,      *)
(* with a target that answers with the text and the type it was sent.       *)

MCExchange ==
    [method: {"GET", "POST"}, body: {{}} \cup {{value} : value \in Value},
     contentType: {{}} \cup {{type} : type \in ContentType}]

-----------------------------------------------------------------------------
(* reporters.ts: every small report, whose arrays may come in any order.    *)

\* Texts 1..3 are in the order of text; 3 holds a secret, and is 1 without it.
MCRedact(text) == IF text = 3 THEN 1 ELSE text

MCFailures == BoundedSeq([category: {1, 2}, message: 1..3], 2)

MCCases ==
    {cases \in BoundedSeq([id: 1..2, outcome: {"failed"},
                           failures: {f \in MCFailures : f # <<>>}]
                          \cup [id: 1..2, outcome: {"passed"},
                                failures: {<<>>}], 2) :
        \A i, j \in DOMAIN cases : cases[i].id = cases[j].id => i = j}

MCReport ==
    [outcome: {"failed"}, summary: {"counts"}, cases: MCCases,
     failures: MCFailures]

-----------------------------------------------------------------------------
(* redaction.ts: every short query, beside every value of small depth.      *)

\* A secret is masked, and so is what is rewritten, later.  In JSON a match may take the end of a record with it,
\* or stop before that of an array, and in an array it may also reach from one
\* text to the next and leave JSON.  In a path it may reach from one parameter
\* to another.
MCLeft(string) ==
    LET texts == {part \in Parts[string] : part.kind = "text"}
        content == Content(string)
        secret == \E text \in texts : text.label \in {"secret", "masked"}
    IN  CASE string.kind = "path" ->
                IF \E i, j \in DOMAIN string.children :
                      /\ i < j
                      /\ string.children[i] = string.children[j]
                      /\ string.children[i].value.label = "plain"
                THEN "masked" ELSE "same"
          [] string.kind = "text" ->
                IF string.label \in {"secret", "rewritten"} THEN "masked" ELSE "same"
          [] OTHER ->
                IF content.kind = "array"
                THEN IF \A key \in Key : key \in DOMAIN content.children
                                         /\ content.children[key].kind = "text"
                     THEN "rewritten" ELSE "same"
                ELSE IF secret THEN "masked" ELSE "same"

MCQuery ==
    BoundedSeq([key: {"safe", "token"},
                value: {Leaf("text", "plain"), Redacted}], 3)
=============================================================================
