---------------------------- MODULE MCContactBook ----------------------------
(* Small instances of ContactBook for TLC. *)
EXTENDS ContactBook, TLC

CONSTANTS o1, o2, k1, k2, k3

(* Two onions and two seeds: a peer may change either and keep the other.  A third seed       *)
(* serves no onion; its links claim one of them.                                             *)
MCOnions == {o1, o2}
MCSeeds == {k1, k2, k3}
MCOwners == [onion : {o1, o2}, keys : {k1, k2}]

MCSymmetry == Permutations({o1, o2}) \cup Permutations({k1, k2})

============================================================================
