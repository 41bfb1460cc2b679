----------------------------- MODULE Subsequences -----------------------------
(***************************************************************************)
(* A sequence with only some of its entries, in their order: what a queue  *)
(* or a list is after messages or elements were removed.  SelectSeq of the *)
(* standard module says the same, but nothing can be proved about it.      *)
(***************************************************************************)
EXTENDS Integers, Sequences, FiniteSets

(* How many of the places K come up to place i.                            *)
Rank(K, i) == Cardinality({k \in K : k <= i})

(* The entries at the places K, a part of the domain of s.                 *)
Kept(s, K) == [n \in 1 .. Cardinality(K) |-> s[CHOOSE k \in K : Rank(K, k) = n]]

(* All but the entries that are e.                                         *)
Without(s, e) == Kept(s, {i \in DOMAIN s : s[i] # e})
=============================================================================
