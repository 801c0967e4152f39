------------------------------ MODULE MCRatchet ------------------------------
(* Small instances of Ratchet for TLC. *)
EXTENDS Ratchet

CONSTANTS VersionLow, VersionHigh, SendsLow, SendsHigh

MCWireVersion == [p \in Peer |-> IF p = Low THEN VersionLow ELSE VersionHigh]
MCMaxSends == [p \in Peer |-> IF p = Low THEN SendsLow ELSE SendsHigh]

============================================================================
