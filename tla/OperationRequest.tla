-------------------------- MODULE OperationRequest --------------------------
(***************************************************************************)
(* How a declared path becomes a request (authoring-contract.ts:547-596).  *)
(*                                                                         *)
(* A path is the sequence of its segments.  Of a segment it matters which  *)
(* parameter the type surface infers from it (typed: the whole segment     *)
(* after a leading colon) and which one the regular expression of          *)
(* resolvePath finds in it (matched: the word after a colon, anywhere).    *)
(* A parameter is a sequence of characters, or a callback of the fixture;  *)
(* an optional value is the set of it.                                     *)
(***************************************************************************)
EXTENDS Naturals, Sequences, FiniteSets

Segment(typed, matched) == [typed |-> typed, matched |-> matched]

\* PathParams<Path>, what an author has to supply.
TypedNames(path) == UNION {path[i].typed : i \in DOMAIN path}

\* expectedNames, what resolvePath asks for.
ExpectedNames(path) == UNION {path[i].matched : i \in DOMAIN path}

\* `name in params` also finds what every object inherits.
Inherited == {"constructor"}

\* Mutation of Missing: the names are looked up among the own properties.
MissingOwn(path, params) ==
    {name \in ExpectedNames(path) :
        \A supplied \in params : name \notin DOMAIN supplied}

Missing(path, params) ==
    {name \in ExpectedNames(path) :
        \A supplied \in params : name \notin DOMAIN supplied \cup Inherited}

Unused(path, params) ==
    UNION {DOMAIN supplied \ ExpectedNames(path) : supplied \in params}

-----------------------------------------------------------------------------
(* The values of parameters.                                               *)

Literal(value)  == [by |-> "literal", value |-> value]
Callback(value) == [by |-> "callback", value |-> value]
Throwing        == [by |-> "throwing callback", value |-> {}]

UndefinedText == <<"u">>        \* String(undefined)
InheritedText == <<"o">>        \* what a callback inherited returns

\* params?.[name]
Parameter(params, name) ==
    IF \E supplied \in params : name \in DOMAIN supplied
    THEN (CHOOSE supplied \in params : TRUE)[name]
    ELSE Callback({InheritedText})

\* Thrown by the replacement: a literal is undefined, or a callback throws.
Refused(parameter) ==
    \/ parameter = Literal({})
    \/ parameter = Throwing

\* String(resolved): a callback may return undefined, and no one asks.
TextOf(parameter) ==
    IF parameter.value = {} THEN UndefinedText
    ELSE CHOOSE text \in parameter.value : TRUE

\* encodeURIComponent escapes all but the unreserved characters.
Unreserved == {"a", "o", "u", "."}

\* Mutation of Encoded: the value is taken as it is.
EncodedAsIs(text) == [i \in DOMAIN text |-> [char |-> text[i], escaped |-> FALSE]]

Encoded(text) ==
    [i \in DOMAIN text |->
        [char |-> text[i], escaped |-> text[i] \notin Unreserved]]

-----------------------------------------------------------------------------
\* resolvePath returns, and with it buildOperationRequest.
Builds(path, params) ==
    /\ Missing(path, params) = {}
    /\ Unused(path, params) = {}
    /\ \A name \in ExpectedNames(path) : ~Refused(Parameter(params, name))

\* The value that each segment of the request's path has taken in.
ResolvePath(path, params) ==
    [i \in DOMAIN path |->
        {Encoded(TextOf(Parameter(params, name))) : name \in path[i].matched}]
=============================================================================
