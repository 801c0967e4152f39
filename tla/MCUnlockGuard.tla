---------------------------- MODULE MCUnlockGuard ----------------------------
(* Small instances of UnlockGuard for TLC. *)
EXTENDS UnlockGuard

============================================================================
