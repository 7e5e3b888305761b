---------------------------- MODULE MCPropagation ----------------------------
(***************************************************************************)
(* A small instance of Propagation.  One list of secrets has a sentinel of *)
(* two tokens, an empty sentinel and values that contain one another; one  *)
(* has the same sentinel with another value, one that shares a token with  *)
(* "[REDACTED]".                                                           *)
(***************************************************************************)
EXTENDS Propagation, TLC

CONSTANTS a, b, t1, t2

secret(sentinel, value) == [Sentinel |-> sentinel, Value |-> value]

list1 == << secret(<<"A", "B">>, <<"x">>), secret(<<"C">>, <<"y", "x">>),
            secret(<< >>, <<"z">>), secret(<<"D">>, << >>) >>
list2 == << secret(<<"A", "B">>, <<"y", "]">>), secret(<<"D">>, <<"x", "y", "x">>) >>

MCToken == {"A", "B", "C", "D", "x", "y", "z", "[", "REDACTED", "]"}
MCSecretLists == {<< >>, list1, list2}
MCOwnLists == {<< >>, list2}

MCTexts == { << >>, <<"A", "B">>, <<"A", "A", "B", "C">>, <<"B", "D", "A">>,
             <<"x", "y", "]", "x", "y", "x">>, <<"y", "z", "A", "B">> }

\* Sandboxes are interchangeable.
Sandboxes == Permutations(Name)
=============================================================================
