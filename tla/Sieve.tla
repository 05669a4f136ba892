------------------------------- MODULE Sieve -------------------------------
(***************************************************************************)
(* Iterator::filter, as the code uses it on interfaces, sources and rules. *)
(* It is SelectSeq of the module Sequences with a set in the place of a    *)
(* predicate, written as a recursive function, so that SieveProofs can say *)
(* what it yields for a sequence of any length.                            *)
(***************************************************************************)
EXTENDS Naturals, Sequences

\* The members of T in s, in their order.
Only(s, T) ==
    LET kept[n \in 0..Len(s)] ==
            IF n = 0 THEN <<>>
            ELSE IF s[n] \in T THEN Append(kept[n - 1], s[n])
            ELSE kept[n - 1]
    IN  kept[Len(s)]
=============================================================================
