---------------------------- MODULE MCAuthoredRun ----------------------------
EXTENDS AuthoredRun

Body == INSTANCE BodyExpectation

\* Cases of built contracts have an actor with a provider, no postconditions.
MCPostconditions == [c \in Case |-> 0]
MCMismatchLists == {[i \in 1..n |-> "policy"] : n \in 0..3}

MCFixtureValue == {"member", "undefined"}

MCWire ==
    [status: {204}, type: {{}}, text: {Empty}]
    \cup [status: {200, 401}, type: {{}} \cup {{type} : type \in ContentType},
          text: Text]

\* The document "object" has a property, "empty" has none.
ValueOf(document) ==
    [path \in IF document = "empty" THEN {<<>>} ELSE {<<>>, <<0>>} |->
        IF path = <<>> THEN "record" ELSE "one"]

MCDeepSubset(actual, expected) ==
    /\ actual.type = "document" /\ expected.type = "document"
    /\ Body!IsDeepSubset(ValueOf(actual.doc), ValueOf(expected.doc))

MCCodeOf(body) == IF body = {DocumentValue("object")} THEN {"denied"} ELSE {}

-----------------------------------------------------------------------------
Literally == {[id |-> Request!Literal({<<"a">>})]}

Plain ==
    [path |-> <<Request!Segment({"id"}, {"id"})>>,
     params |-> [fixtureValue \in MCFixtureValue |-> Literally], custom |-> {},
     method |-> "GET", body |-> {}, contentType |-> {}, valid |-> TRUE,
     refuses |-> {}, expectation |-> [by |-> "status", status |-> 200]]

\* A callback that reads the fixture throws if that is undefined.
Requests ==
    {Plain,
     [Plain EXCEPT !.params = [fixtureValue \in MCFixtureValue |-> {}]],
     [Plain EXCEPT !.params["member"] =
                       {[id |-> Request!Callback({<<"a">>})]},
                   !.params["undefined"] = {[id |-> Request!Throwing]}],
     [Plain EXCEPT !.custom = {{"undefined"}}],
     [Plain EXCEPT !.method = "HEAD"],
     [Plain EXCEPT !.body = {StringValue(Word)}],
     [Plain EXCEPT !.method = "POST", !.body = {Unserializable}],
     [Plain EXCEPT !.valid = FALSE],
     [Plain EXCEPT !.refuses = {"undefined"}],
     [Plain EXCEPT !.refuses = MCFixtureValue]}

Expected(body) ==
    [by |-> "response", status |-> 200, body |-> body,
     headers |-> {[name |-> "content-type", spelling |-> "Content-Type",
                   value |-> "application/json"]}]

Expectations ==
    {Expected({}), Expected({{}}), Expected({{DocumentValue("object")}}),
     [by |-> "derived", result |-> {Expected({{StringValue(Word)}})}],
     [by |-> "derived", result |-> {}],
     [by |-> "no content"],
     [by |-> "that", accepts |-> {200}]}
    \cup [by: {"body"}, body: {{}, {StringValue(Word)}, {StringValue(Quoted)},
                               {DocumentValue("object")}}]
    \cup [by: {"containing"}, body: {{}, {DocumentValue("empty")}}]
    \cup [by: {"error"}, status: {401}, code: {{}}, envelope: {"none"}]
    \cup [by: {"error"}, status: {401}, code: {{"denied"}},
          envelope: {"total", "partial"}]

MCAuthored ==
    Requests \cup {[Plain EXCEPT !.expectation = expectation] :
                      expectation \in Expectations}
=============================================================================
