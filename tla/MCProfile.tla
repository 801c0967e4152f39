------------------------------ MODULE MCProfile ------------------------------
(* A small instance of Profile for TLC. *)
EXTENDS Profile, TLC

(* Nothing orders executables or contents of the setting files. *)
AnyBinary == Permutations(Binaries)

============================================================================
