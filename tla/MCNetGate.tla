------------------------------ MODULE MCNetGate ------------------------------
(* Small instances of NetGate for TLC: one bridge A, another relay B, and   *)
(* the Tors a user meets.                                                   *)
EXTENDS NetGate

CONSTANTS A, B, Ids

Obfs4(fp) == [clean |-> TRUE, transport |-> "obfs4", address |-> TRUE,
              fingerprint |-> fp, args |-> {"cert", "iat-mode"}]

OwnControl == [offers |-> TRUE, path |-> TRUE, cookie |-> TRUE, knows |-> TRUE, accepts |-> TRUE]

Bridges1 == [use |-> TRUE, lines |-> {Obfs4(A)}, plugins |-> {"obfs4"}]

TorWith(conf, circuits) ==
    [up |-> TRUE, control |-> OwnControl, conf |-> conf, boot |-> 100, circuits |-> circuits]

Built(id, hop) == [id |-> id, state |-> "BUILT", hop |-> hop]

TorDown == [TorWith(Bridges1, <<>>) EXCEPT !.up = FALSE]

MCTors ==
    {TorDown,
     [TorWith(Bridges1, <<>>) EXCEPT !.boot = 50],
     [TorWith(Bridges1, <<Built("plain", A)>>) EXCEPT !.control.knows = FALSE]}
    \cup {TorWith(Bridges1, <<Built(i, A), Built(j, h)>>) :
              i \in Ids, j \in Ids, h \in {A, B, NoFingerprint}}

MCEnvs == {[mode |-> m, extreme |-> m = "i2p", isolation |-> TRUE, require |-> FALSE] :
              m \in {"tor", "i2p"}}

============================================================================
