----------------------------- MODULE OutboxPromise -----------------------------
(***************************************************************************)
(* What "durable send" promises for one contact, whatever crashes: a frame *)
(* that was accepted stays on disk until it was handed to Tor, nothing is  *)
(* handed to Tor that is not on disk, and no two accepted frames are       *)
(* sealed at the same step of one ratchet.  The promise ends when the      *)
(* posture changes or the contact is deleted; only the last part stays.    *)
(***************************************************************************)

VARIABLES accepted, durable, delivered, firm

promiseVars == <<accepted, durable, delivered, firm>>

Init == accepted = {} /\ durable = {} /\ delivered = {} /\ firm = TRUE

Accept(f) ==
    /\ \A g \in accepted : g.msg # f.msg /\ (g.gen = f.gen => g.step # f.step)
    /\ accepted' = accepted \cup {f}
    /\ durable' = IF firm THEN durable \cup {f} ELSE {}
    /\ UNCHANGED <<delivered, firm>>

Deliver(f) ==
    /\ f \in accepted
    /\ firm => f \in durable
    /\ delivered' = delivered \cup {f}
    /\ UNCHANGED <<accepted, durable, firm>>

Settle ==
    /\ durable' \subseteq durable
    /\ durable \subseteq durable' \cup delivered
    /\ UNCHANGED <<accepted, delivered, firm>>

Release ==
    /\ firm' = FALSE /\ durable' = {}
    /\ UNCHANGED <<accepted, delivered>>

Next == \/ \E f \in accepted' \ accepted : Accept(f)
        \/ \E f \in accepted : Deliver(f)
        \/ Settle \/ Release

Spec == Init /\ [][Next]_promiseVars

============================================================================
