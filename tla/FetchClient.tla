----------------------------- MODULE FetchClient -----------------------------
(***************************************************************************)
(* FetchHttpClient (authoring-runtime.ts:14-74): what of a request's body  *)
(* goes onto the wire, and what of the answer's text comes back as a body. *)
(*                                                                         *)
(* A text is JSON of the document it parses to, or of none.  A value is a  *)
(* string, given by its text, or a document, given by what its JSON parses *)
(* to; or JSON.stringify refuses it, or gives nothing for it.  An absent   *)
(* body or header is the empty set, a present one the set of it.           *)
(***************************************************************************)
EXTENDS Naturals, FiniteSets

\* Texts: empty, a word that is not JSON, that word in quotes, and an object.
Empty  == [name |-> "empty", parses |-> {}]
Word   == [name |-> "word", parses |-> {}]
Quoted == [name |-> "quoted", parses |-> {"word"}]
Object == [name |-> "object", parses |-> {"object"}]
Text   == {Empty, Word, Quoted, Object}

StringValue(text)  == [type |-> "string", text |-> text]
DocumentValue(doc) == [type |-> "document", doc |-> doc]
\* A bigint or a cycle; a function or a symbol; an instance of a class, such
\* as a Date, whose JSON is that of a string.
Unserializable == [type |-> "unserializable"]
Unrepresented  == [type |-> "unrepresented"]
Instance       == [type |-> "instance"]

Value == {StringValue(text) : text \in Text}
         \cup {DocumentValue("object"), Unserializable, Unrepresented, Instance}

\* JSON.stringify, where it returns.
Stringified(value) ==
    CASE value.type = "document"      -> {Object}
      [] value.type = "instance"      -> {Quoted}
      [] value.type = "unrepresented" -> {}

\* JSON.parse
Parsed(text) ==
    {IF doc = "word" THEN StringValue(Word) ELSE DocumentValue(doc) :
        doc \in text.parses}

\* The content types that are told apart, and the one fetch gives a string.
ContentType == {"application/json", "text/plain"}
IsJson(contentType) == contentType = {"application/json"}

-----------------------------------------------------------------------------
IsString(body) == \E value \in body : value.type = "string"

\* Mutation of RequestBody: a string is serialized like any other value.
RequestBodyQuoted(body) ==
    UNION {IF value.type = "string" THEN {Quoted} ELSE Stringified(value) :
              value \in body}

\* requestBody, where it returns.
RequestBody(body) ==
    UNION {IF value.type = "string" THEN {value.text} ELSE Stringified(value) :
              value \in body}

\* The Content-Type that goes out: requestBody's default is for all bodies but
\* strings, and fetch has one for those.
SentContentType(body, declared) ==
    IF declared # {} \/ body = {} THEN declared
    ELSE IF IsString(body) THEN {"text/plain"} ELSE {"application/json"}

\* fetch is called and does not refuse: JSON.stringify returned, and a GET or
\* HEAD has no body.
Sendable(method, body) ==
    /\ Unserializable \notin body
    /\ method \in {"GET", "HEAD"} => RequestBody(body) = {}

\* Mutation of ResponseBody: whatever parses is parsed.
ResponseBodyGuessed(text, contentType) ==
    IF text = Empty THEN {}
    ELSE IF Parsed(text) # {} THEN Parsed(text)
    ELSE {StringValue(text)}

\* responseBody: JSON that does not parse is kept as the text it is.
ResponseBody(text, contentType) ==
    IF text = Empty THEN {}
    ELSE IF IsJson(contentType) /\ Parsed(text) # {} THEN Parsed(text)
    ELSE {StringValue(text)}
=============================================================================
