------------------------------- MODULE Ordering -------------------------------
(***************************************************************************)
(* The members of a finite set in the order of a key, as sorted() and      *)
(* ORDER BY give them.  SetToSortSeq of the community modules rests on an  *)
(* operator of TLC that is defined for TLC alone, and not for proofs, and  *)
(* gives one order where keys that are equal leave several.                *)
(***************************************************************************)
EXTENDS Integers, Sequences, FiniteSets, Functions

Orders(S, key) ==
    { s \in [1 .. Cardinality(S) -> S] :
        IsInjective(s) /\ \A i, j \in DOMAIN s : i < j => key[s[i]] <= key[s[j]] }
=============================================================================
