------------------------------ MODULE Redaction ------------------------------
(***************************************************************************)
(* SensitiveValueRedactor (redaction.ts) on the structure of values: which *)
(* parts it replaces, at which depth.  A value is a node: its kind, its    *)
(* label, and its children by key.  Kinds besides arrays and records are:  *)
(*   text         a string that is no JSON, labelled with one of the texts *)
(*                that there are, "redacted" if it stands for a value as a *)
(*                whole, or what the text patterns have left of a string:  *)
(*                "masked" or "rewritten", see Left                        *)
(*   serialized   a string that is the JSON of its only child              *)
(*   primitive    a finite number, a boolean or null                       *)
(*   unsupported  a number that is not finite, which JSON has too (1e999), *)
(*                or outside of strings an object that is no plain record  *)
(* How JSON is spaced is left out.                                         *)
(***************************************************************************)
EXTENDS Naturals, FiniteSets, AscendingOrder

CONSTANTS
    Key,           \* what children are under: names and indices
    SensitiveKey,  \* those that SENSITIVE_KEY matches
    MaxDepth,      \* how deep values are nested, serialized or not
    PlainText,     \* the texts that there are, by name
    Left(_)        \* what the text patterns leave of a string: "same" if they
                   \* change nothing, "masked" if they leave a text that is no
                   \* JSON and that they change no more, else "rewritten"

ASSUME DepthAssumption == MaxDepth \in Nat

Node(kind, label, children) ==
    [kind |-> kind, label |-> label, children |-> children]

Leaf(kind, label)   == Node(kind, label, [key \in {} |-> "none"])
Serialized(content) == Node("serialized", "none",
                            [key \in {"content"} |-> content])
Content(value)      == value.children["content"]

Redacted  == Leaf("text", "redacted")
Masked    == Leaf("text", "masked")
Rewritten == Leaf("text", "rewritten")

ASSUME LeftAssumption == Left(Masked) = "same" /\ Left(Redacted) = "same"

Leaves ==
    {Leaf("text", label) :
        label \in PlainText \cup {"masked", "redacted", "rewritten"}}
    \cup {Leaf(kind, "none") : kind \in {"primitive", "unsupported"}}

Branches(values) ==
    {Node(kind, "none", children) :
        kind \in {"array", "record"},
        children \in UNION {[keys -> values] : keys \in SUBSET Key}}
    \cup {Serialized(value) : value \in values}

\* The values that are nested so deep, or less.
Tree[depth \in 0..MaxDepth] ==
    IF depth = 0 THEN Leaves
    ELSE Tree[depth - 1] \cup Branches(Tree[depth - 1])

Redactable == Tree[MaxDepth]

-----------------------------------------------------------------------------
IsSensitive(value, key) == value.kind = "record" /\ key \in SensitiveKey

\* The value, its children, theirs, and so on.
Parts[value \in Redactable] ==
    {value} \cup UNION {Parts[value.children[key]] : key \in DOMAIN value.children}

\* What redaction is asked for: a rewritten string, which may be JSON again, is
\* only ever a result, as it is not known what the next pass makes of it.
Given == {value \in Redactable : Rewritten \notin Parts[value]}

\* redactValue does not throw; inside a string an exception is caught.
Supported[value \in Redactable] ==
    CASE value.kind = "unsupported" -> FALSE
      [] value.kind = "serialized"  -> TRUE
      [] OTHER -> \A key \in DOMAIN value.children :
                     IsSensitive(value, key) \/ Supported[value.children[key]]

\* JSON_SECRET on the JSON of a value: texts under sensitive keys.
RedactJsonSecrets[value \in Redactable] ==
    IF value.kind \notin {"array", "record"} THEN value
    ELSE [value EXCEPT !.children = [key \in DOMAIN @ |->
             IF IsSensitive(value, key) /\ @[key].kind \in {"text", "serialized"}
             THEN Redacted ELSE RedactJsonSecrets[@[key]]]]

\* The text patterns of redactText.  They run over the string as a whole: of
\* JSON they may match across texts and keys, and leave JSON or none.
Patterns(string) ==
    CASE Left(string) = "same"   -> string
      [] Left(string) = "masked" -> Masked
      [] OTHER                   -> Rewritten

Reserialized(content) == Patterns(Serialized(content))

\* Mutation of RedactSerialized: what is serialized is not parsed.
RedactSerializedUnparsed(content, redacted) ==
    Reserialized(RedactJsonSecrets[content])

\* redactText of the JSON of content, which has been redacted if it can be.
RedactSerialized(content, redacted) ==
    Reserialized(IF Supported[content] THEN redacted
                 ELSE RedactJsonSecrets[content])

\* redactValue, and redactText for a text and a serialized value.
RedactValue[value \in Redactable] ==
    CASE value.kind = "serialized" ->
            RedactSerialized(Content(value), RedactValue[Content(value)])
      [] value.kind \in {"array", "record"} ->
            [value EXCEPT !.children = [key \in DOMAIN @ |->
                IF IsSensitive(value, key) THEN Redacted
                ELSE RedactValue[@[key]]]]
      [] value.kind = "text" -> Patterns(value)
      [] OTHER -> value

\* The parameters of a query that redactPath leaves: set() gives the first of
\* a key the value and removes the others.
HideQuery(query) ==
    LET First(i) == \A j \in 1..(i - 1) : query[j].key # query[i].key
    IN  ElementsAt([i \in DOMAIN query |->
                       IF query[i].key \in SensitiveKey
                       THEN [query[i] EXCEPT !.value = Redacted] ELSE query[i]],
                   {i \in DOMAIN query :
                       query[i].key \notin SensitiveKey \/ First(i)})

PathOf(query) == Node("path", "none", query)

\* redactPath, of a path that has a query.
RedactPath(query) == Patterns(PathOf(HideQuery(query)))
=============================================================================
