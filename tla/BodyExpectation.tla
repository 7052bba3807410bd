--------------------------- MODULE BodyExpectation ---------------------------
(***************************************************************************)
(* The comparison behind expectBodyContaining (authoring-expectations.ts,  *)
(* isDeepSubset).  A JSON value says what is at each of its paths, which   *)
(* is "array", "record" or a primitive.  A path is a sequence of keys, an  *)
(* index for an array and the number of its name for a record.             *)
(***************************************************************************)
EXTENDS Naturals, Sequences, FiniteSets, SequencesExt

Keys(value, path) ==
    {Last(below) : below \in {p \in DOMAIN value : /\ Len(p) = Len(path) + 1
                                                   /\ IsPrefix(path, p)}}

\* The two values have the same at this path and at every one below it.
IsDeepStrictEqual(actual, expected, path) ==
    \A below \in DOMAIN actual \cup DOMAIN expected :
        IsPrefix(path, below) =>
            /\ below \in DOMAIN actual \cap DOMAIN expected
            /\ actual[below] = expected[below]

\* Mutation of LongEnough: arrays have to have the same length.
SameLength(actual, expected, path) ==
    Cardinality(Keys(expected, path)) = Cardinality(Keys(actual, path))

LongEnough(actual, expected, path) ==
    Cardinality(Keys(expected, path)) <= Cardinality(Keys(actual, path))

IsDeepSubset(actual, expected) ==
    LET subset[path \in DOMAIN actual \cap DOMAIN expected] ==
            \/ IsDeepStrictEqual(actual, expected, path)
            \/ /\ expected[path] = "array"
               /\ actual[path] = "array"
               /\ LongEnough(actual, expected, path)
               /\ \A index \in Keys(expected, path) :
                     subset[Append(path, index)]
            \/ /\ expected[path] = "record"
               /\ actual[path] = "record"
               /\ \A key \in Keys(expected, path) :
                     /\ key \in Keys(actual, path)
                     /\ subset[Append(path, key)]
    IN  subset[<<>>]
=============================================================================
