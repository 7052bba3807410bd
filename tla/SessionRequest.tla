--------------------------- MODULE SessionRequest ---------------------------
(***************************************************************************)
(* The sessions of an actor (sessions.ts), how one becomes part of a       *)
(* request (authoring-contract.ts:411-457), and what the fetch client      *)
(* sends of it (authoring-runtime.ts:21-25).                               *)
(*                                                                         *)
(* A header record is the sequence of its properties [name, spelling,      *)
(* value] in insertion order: name is the name in lower case, and a        *)
(* property is identified by its name and spelling.  A value is the        *)
(* sequence of its parts, which for a Cookie header are its cookies.       *)
(***************************************************************************)
EXTENDS Naturals, Sequences, SequencesExt, AscendingOrder

Header(name, spelling, value) ==
    [name |-> name, spelling |-> spelling, value |-> value]

-----------------------------------------------------------------------------
(* The sessions that the factories of sessions.ts make.  A factory of the  *)
(* author's own may return any session.                                    *)

Session(headers, cookies) == [headers |-> headers, cookies |-> cookies]

Anonymous            == Session(<<>>, <<>>)
Bearer(token)        == Session(<<Header("authorization", "Authorization",
                                         <<token>>)>>, <<>>)
ApiKey(header, key)  == Session(<<Header(header.name, header.spelling,
                                         <<key>>)>>, <<>>)
Cookies(cookies)     == Session(<<>>, cookies)
FromHeaders(headers) == Session(headers, <<>>)

-----------------------------------------------------------------------------
\* headers[name] = value: in place if the property exists, else at the end.
Assign(headers, header) ==
    LET at == SelectInSeq(headers, LAMBDA h : /\ h.name = header.name
                                              /\ h.spelling = header.spelling)
    IN  IF at = 0 THEN Append(headers, header)
        ELSE ReplaceAt(headers, at, header)

\* Mutation of SetHeader: a header of another spelling stays.
SetHeaderExactly(headers, header) == Assign(headers, header)

\* setHeader: the first property of that name, in any spelling, goes.
SetHeader(headers, header) ==
    LET existing == SelectInSeq(headers, LAMBDA h : h.name = header.name)
    IN  Assign(IF existing = 0 THEN headers ELSE RemoveAt(headers, existing),
               header)

\* The session's headers are set one after the other.
WithHeaders(headers, session) ==
    LET merged[n \in 0..Len(session)] ==
            IF n = 0 THEN headers ELSE SetHeader(merged[n - 1], session[n])
    IN  merged[Len(session)]

\* The session's cookies follow those that are there.
WithCookies(headers, cookies) ==
    LET existing == SelectInSeq(headers, LAMBDA h : h.name = "cookie") IN
    IF cookies = <<>> THEN headers
    ELSE SetHeader(headers,
                   Header("cookie", "Cookie",
                          IF existing = 0 THEN cookies
                          ELSE headers[existing].value \o cookies))

\* applySession: the request's headers, the session's, then its cookies.
ApplySession(headers, session) ==
    WithCookies(WithHeaders(headers, session.headers), session.cookies)

\* The properties of a record that have this name, in any spelling.
Named(headers, name) ==
    ElementsAt(headers, {i \in DOMAIN headers : headers[i].name = name})

\* new Headers(record): what goes out under a name is all its values in order.
Sent(headers, name) ==
    LET named == Named(headers, name)
    IN  FlattenSeq([i \in DOMAIN named |-> named[i].value])
=============================================================================
