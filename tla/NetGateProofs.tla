---------------------------- MODULE NetGateProofs ----------------------------
(***************************************************************************)
(* Proofs about NetGate, for all Tors, settings, cache lives and bounds:   *)
(* its type invariant, that no onion is left behind, and that nothing is   *)
(* sent past a requirement.  The last rests on the verdict of the bridge   *)
(* check being true, which is proved at the end for all lists of circuits  *)
(* that Tor's reply does not cut short, and which TLC refutes for others.  *)
(***************************************************************************)
EXTENDS NetGate, FiniteSetTheorems, SequenceTheorems, TLAPS

(* An operation under way has frames left, no more than are queued. *)
OpInv ==
    /\ op.kind = "none" => op = NoOp
    /\ op.kind \in {"send", "retry"} => op.left \in 1..pending

(* Extreme forces mode and isolation, whoever set it. *)
LockInv == net.extreme => net.mode = "tor" /\ net.isolation

(* The age of a passing check is an age of the bridges, while it may be used. *)
CheckInv ==
    /\ tor \in BridgedTors => bridgedAge = 0
    /\ (check.result = "ok" /\ check.age < BRIDGE_CHECK_OK) => bridgedAge <= check.age

Typed == TypeOK /\ OpInv

-----------------------------------------------------------------------------
(* The settings stay settings, and locked, whatever is forced on them. *)
LEMMA LocksTyped ==
    ASSUME NEW n \in NetConfig
    PROVE  /\ ExtremeLocks(n) \in NetConfig
           /\ ExtremeLocks(n).extreme => ExtremeLocks(n).mode = "tor" /\ ExtremeLocks(n).isolation
           /\ ExtremeLocks(n).require = n.require
BY DEF NetConfig, ExtremeLocks

(* A check that is made or used again is one of the checks there are. *)
LEMMA CheckedTyped ==
    ASSUME TypeOK
    PROVE  Checked \in [result : {"none", "ok", "err"}, age : 0..BRIDGE_CHECK_OK]
<1>1. check \in [result : {"none", "ok", "err"}, age : 0..BRIDGE_CHECK_OK]
  BY DEF TypeOK
<1>2. 0 \in 0..BRIDGE_CHECK_OK
  BY NetGateBounds
<1>3. CASE ~net.require \/ Fresh
  BY <1>1, <1>3 DEF Checked
<1>4. CASE ~(~net.require \/ Fresh)
  <2>1. Checked = [result |-> IF tor \in ActiveTors THEN "ok" ELSE "err", age |-> 0]
    BY <1>4 DEF Checked
  <2> QED
    BY <1>2, <2>1
<1> QED
  BY <1>3, <1>4

(* An operation that begins is one, and none is one too. *)
LEMMA BeginTyped ==
    ASSUME TypeOK, NEW k \in {"send", "retry", "listen"}, NEW n \in 0..MaxPending
    PROVE  /\ Begin(k, n) \in [kind : {"none", "send", "retry", "listen"},
                               left : 0..MaxPending, basis : 0..(BRIDGE_CHECK_OK + 1)]
           /\ NoOp \in [kind : {"none", "send", "retry", "listen"},
                        left : 0..MaxPending, basis : 0..(BRIDGE_CHECK_OK + 1)]
           /\ Begin(k, n).kind = k /\ Begin(k, n).left = n /\ Begin(k, n).basis = bridgedAge
           /\ NoOp.kind = "none"
BY NetGateBounds DEF TypeOK, Begin, NoOp

(* RetryPending leaves a check and an operation that fit. *)
LEMMA RetryTyped ==
    ASSUME Typed, RetryPending
    PROVE  /\ check' \in [result : {"none", "ok", "err"}, age : 0..BRIDGE_CHECK_OK]
           /\ op' \in [kind : {"none", "send", "retry", "listen"},
                       left : 0..MaxPending, basis : 0..(BRIDGE_CHECK_OK + 1)]
           /\ op' = op \/ op' = NoOp \/ (op'.kind = "retry" /\ op'.left = pending /\ pending # 0)
<1>1. CASE ~TransportOk \/ ~status
  BY <1>1 DEF Typed, TypeOK, RetryPending
<1>2. CASE TransportOk /\ status
  <2>1. check' = Checked /\ op' = IF Hold \/ pending = 0 THEN NoOp ELSE Begin("retry", pending)
    BY <1>2 DEF RetryPending
  <2>2. TypeOK /\ pending \in 0..MaxPending
    BY DEF Typed, TypeOK
  <2> QED
    BY <2>1, <2>2, CheckedTyped, BeginTyped
<1> QED
  BY <1>1, <1>2

LEMMA InitTyped == Init => Typed
<1> SUFFICES ASSUME Init PROVE Typed
  OBVIOUS
<1>1. net \in NetConfig
  BY LocksTyped, EnvsAreSettings DEF Init
<1>2. Probe \in BOOLEAN
  BY NetGateBounds DEF Init, Tor, Probe
<1>3. /\ NoCheck \in [result : {"none", "ok", "err"}, age : 0..BRIDGE_CHECK_OK]
      /\ NoOp \in [kind : {"none", "send", "retry", "listen"}, left : 0..MaxPending,
                   basis : 0..(BRIDGE_CHECK_OK + 1)]
  BY NetGateBounds DEF NoCheck, NoOp
<1>4. bridgedAge \in 0..(BRIDGE_CHECK_OK + 1)
  BY NetGateBounds DEF Init
<1>5. OpInv
  BY DEF Init, OpInv, NoOp
<1>6. status \in BOOLEAN
  BY <1>2, Zenon DEF Init
<1>7. tor \in Tors /\ mishaps \in 0..MaxMishaps /\ pending \in 0..MaxPending
  BY NetGateBounds DEF Init
<1>8. /\ check = NoCheck /\ op = NoOp /\ disk = net
      /\ unlocked = FALSE /\ hs = FALSE /\ published = FALSE
  BY DEF Init
<1> QED
  BY <1>1, <1>3, <1>4, <1>5, <1>6, <1>7, <1>8 DEF Typed, TypeOK

LEMMA StepTyped == Typed /\ [Next]_vars => Typed'
<1> SUFFICES ASSUME Typed, [Next]_vars PROVE Typed'
  OBVIOUS
<1> USE NetGateBounds
<1>t. /\ TypeOK /\ OpInv
      /\ Checked \in [result : {"none", "ok", "err"}, age : 0..BRIDGE_CHECK_OK]
      /\ pending \in 0..MaxPending /\ net \in NetConfig /\ disk \in NetConfig
  BY CheckedTyped DEF Typed, TypeOK
<1>1. ASSUME NEW n \in NetConfig, Change(n), check' = check \/ check' = NoCheck
      PROVE  Typed'
  BY <1>t, <1>1 DEF Change, Persist, Mishap, onion, outside, Typed, TypeOK, OpInv, NoCheck
<1>2. ASSUME NEW m \in {"tor", "i2p"}, SetMode(m) PROVE Typed'
  <2>1. [net EXCEPT !.mode = m] \in NetConfig
    BY <1>t DEF NetConfig
  <2> QED
    BY <1>2, <2>1, <1>1 DEF SetMode
<1>3. ASSUME NEW b \in BOOLEAN, SetPosture(b) \/ SetIsolation(b) \/ RequireBridges(b)
      PROVE  Typed'
  <2>1. /\ [net EXCEPT !.extreme = b] \in NetConfig
        /\ [net EXCEPT !.isolation = b] \in NetConfig
        /\ [net EXCEPT !.require = b] \in NetConfig
    BY <1>t DEF NetConfig
  <2>2. ExtremeLocks([net EXCEPT !.extreme = b]) \in NetConfig
    BY <2>1, LocksTyped
  <2> QED
    BY <1>3, <2>1, <2>2, <1>1 DEF SetPosture, SetIsolation, RequireBridges
<1>4. CASE Retry
  <2>1. /\ check' \in [result : {"none", "ok", "err"}, age : 0..BRIDGE_CHECK_OK]
        /\ op' \in [kind : {"none", "send", "retry", "listen"},
                    left : 0..MaxPending, basis : 0..(BRIDGE_CHECK_OK + 1)]
        /\ op' = op \/ op' = NoOp \/ (op'.kind = "retry" /\ op'.left = pending /\ pending # 0)
    BY <1>4, RetryTyped DEF Retry
  <2> QED
    BY <1>4, <1>t, <2>1 DEF Retry, settings, onion, outside, Typed, TypeOK, OpInv, NoOp
<1>5. CASE SendText
  <2>1. /\ Begin("send", 1).kind = "send" /\ Begin("send", 1).left = 1 /\ NoOp.kind = "none"
        /\ {Begin("send", 1), NoOp} \subseteq
               [kind : {"none", "send", "retry", "listen"},
                left : 0..MaxPending, basis : 0..(BRIDGE_CHECK_OK + 1)]
    BY <1>t, BeginTyped
  <2>2. op' \in {Begin("send", 1), NoOp} /\ pending' = pending + 1 /\ pending' \in 1..MaxPending
    BY <1>5, <1>t DEF SendText
  <2>3. OpInv'
    BY <2>1, <2>2 DEF OpInv
  <2> QED
    BY <1>5, <1>t, <2>1, <2>2, <2>3 DEF SendText, settings, onion, outside, Typed, TypeOK
<1>6. CASE SendWithJitter
  <2>1. OpInv'
    BY <1>6, <1>t DEF SendWithJitter, OpInv, Idle, NoOp
  <2> QED
    BY <1>6, <1>t, <2>1 DEF SendWithJitter, settings, onion, outside, Typed, TypeOK
<1>7. ASSUME NEW n \in 1..pending, FlushHeld(n) PROVE Typed'
  <2>0. n \in 0..MaxPending
    BY <1>t
  <2>1. /\ Begin("send", n).kind = "send" /\ Begin("send", n).left = n /\ NoOp.kind = "none"
        /\ {Begin("send", n), NoOp} \subseteq
               [kind : {"none", "send", "retry", "listen"},
                left : 0..MaxPending, basis : 0..(BRIDGE_CHECK_OK + 1)]
    BY <1>t, <2>0, BeginTyped
  <2>2. op' \in {Begin("send", n), NoOp} /\ pending' = pending
    BY <1>7 DEF FlushHeld
  <2>3. OpInv'
    BY <2>1, <2>2 DEF OpInv
  <2> QED
    BY <1>7, <1>t, <2>1, <2>2, <2>3 DEF FlushHeld, settings, onion, outside, Typed, TypeOK
<1>8. ASSUME NEW b \in BOOLEAN, NextFrame(b) PROVE Typed'
  <2>1. op.left \in 1..pending /\ pending' \in {pending, pending - 1}
    BY <1>8, <1>t DEF NextFrame, OpInv
  <2>2. pending' \in 0..MaxPending
    BY <2>1, <1>t
  <2>3. OpInv'
    BY <1>8, <1>t, <2>1, <2>2 DEF NextFrame, OpInv, NoOp, TypeOK
  <2>4. op' \in [kind : {"none", "send", "retry", "listen"},
                 left : 0..MaxPending, basis : 0..(BRIDGE_CHECK_OK + 1)]
    BY <1>8, <1>t, <2>1 DEF NextFrame, NoOp, TypeOK
  <2> QED
    BY <1>8, <1>t, <2>2, <2>3, <2>4 DEF NextFrame, settings, onion, outside, Typed, TypeOK
<1>9. CASE Listen
  <2>1. /\ Begin("listen", 0).kind = "listen" /\ NoOp.kind = "none"
        /\ {Begin("listen", 0), NoOp} \subseteq
               [kind : {"none", "send", "retry", "listen"},
                left : 0..MaxPending, basis : 0..(BRIDGE_CHECK_OK + 1)]
    BY <1>t, BeginTyped
  <2>2. op' \in {Begin("listen", 0), NoOp}
    BY <1>9 DEF Listen
  <2>3. OpInv'
    BY <2>1, <2>2 DEF OpInv
  <2> QED
    BY <1>9, <1>t, <2>1, <2>2, <2>3 DEF Listen, settings, onion, outside, Typed, TypeOK
<1>10. CASE Publish
  <2>1. (op' = NoOp /\ check' = check) \/ RetryPending
    BY <1>10 DEF Publish
  <2>2. /\ check' \in [result : {"none", "ok", "err"}, age : 0..BRIDGE_CHECK_OK]
        /\ op' \in [kind : {"none", "send", "retry", "listen"},
                    left : 0..MaxPending, basis : 0..(BRIDGE_CHECK_OK + 1)]
        /\ op' = op \/ op' = NoOp \/ (op'.kind = "retry" /\ op'.left = pending /\ pending # 0)
    BY <2>1, <1>t, RetryTyped DEF NoOp, TypeOK
  <2>3. OpInv'
    BY <1>10, <1>t, <2>2 DEF Publish, OpInv, NoOp
  <2> QED
    BY <1>10, <1>t, <2>2, <2>3 DEF Publish, outside, Typed, TypeOK
<1>11. CASE ListenFails
  BY <1>11, <1>t DEF ListenFails, settings, onion, outside, Typed, TypeOK, OpInv, NoOp
<1>12. CASE RecheckWhileListening
  BY <1>12, <1>t DEF RecheckWhileListening, settings, onion, outside, Typed, TypeOK, OpInv
<1>13. ASSUME NEW n \in 0..MaxPending, Unlock(n) PROVE Typed'
  <2>1. net' \in NetConfig
    BY <1>13, <1>t, LocksTyped DEF Unlock, Loaded
  <2>2. OpInv'
    BY <1>13, <1>t DEF Unlock, Idle, OpInv, NoOp
  <2> QED
    BY <1>13, <1>t, <2>1, <2>2 DEF Unlock, onion, outside, Typed, TypeOK
<1>14. CASE Lock
  <2>1. disk' \in NetConfig /\ mishaps' \in 0..MaxMishaps
    BY <1>14, <1>t DEF Lock, Persist, Mishap, TypeOK
  <2> QED
    BY <1>14, <1>t, <2>1 DEF Lock, outside, Typed, TypeOK, OpInv
<1>15. CASE Restart
  <2>1. net' \in NetConfig
    BY <1>15, LocksTyped, EnvsAreSettings DEF Restart
  <2>2. Probe \in BOOLEAN
    BY <1>t DEF TypeOK, Tor, Probe
  <2>3. status' \in BOOLEAN
    BY <1>15, <2>2, Zenon DEF Restart
  <2>4. /\ check' \in [result : {"none", "ok", "err"}, age : 0..BRIDGE_CHECK_OK]
        /\ op' \in [kind : {"none", "send", "retry", "listen"}, left : 0..MaxPending,
                    basis : 0..(BRIDGE_CHECK_OK + 1)]
        /\ mishaps' \in 0..MaxMishaps
    BY <1>15, <1>t DEF Restart, Mishap, NoCheck, NoOp, TypeOK
  <2>5. OpInv'
    BY <1>15 DEF Restart, OpInv, NoOp
  <2> QED
    BY <1>15, <1>t, <2>1, <2>3, <2>4, <2>5 DEF Restart, outside, Typed, TypeOK
<1>16. ASSUME NEW t \in Tors, NEW b \in BOOLEAN, TorChanges(t, b) PROVE Typed'
  <2>1. t.up \in BOOLEAN
    BY DEF Tor
  <2>2. published' \in BOOLEAN
    BY <1>16, <1>t, <2>1 DEF TorChanges, TypeOK
  <2> QED
    BY <1>16, <1>t, <2>2 DEF TorChanges, Typed, TypeOK, OpInv
<1>17. CASE CheckTor
  <2>1. Probe \in BOOLEAN
    BY <1>t DEF TypeOK, Tor, Probe
  <2>2. /\ Begin("retry", pending).kind = "retry" /\ Begin("retry", pending).left = pending
        /\ NoOp.kind = "none"
        /\ {Begin("retry", pending), NoOp} \subseteq
               [kind : {"none", "send", "retry", "listen"},
                left : 0..MaxPending, basis : 0..(BRIDGE_CHECK_OK + 1)]
    BY <1>t, BeginTyped
  <2>3. /\ op' = op \/ op' = NoOp \/ (op' = Begin("retry", pending) /\ pending > 0)
        /\ check' \in {check, Checked} /\ pending' = pending
    BY <1>17 DEF CheckTor
  <2>4. OpInv'
    BY <1>t, <2>2, <2>3 DEF OpInv
  <2> QED
    BY <1>17, <1>t, <2>1, <2>2, <2>3, <2>4
    DEF CheckTor, settings, onion, outside, Typed, TypeOK
<1>18. CASE Tick
  <2>1. bridgedAge' \in 0..(BRIDGE_CHECK_OK + 1)
    BY <1>18, <1>t DEF Tick, Older, TypeOK
  <2>2. check' \in [result : {"none", "ok", "err"}, age : 0..BRIDGE_CHECK_OK]
    BY <1>18, <1>t DEF Tick, Older, TypeOK
  <2> QED
    BY <1>18, <1>t, <2>1, <2>2 DEF Tick, Typed, TypeOK, OpInv
<1>19. CASE UNCHANGED vars
  BY <1>19, <1>t DEF vars, Typed, TypeOK, OpInv
<1> QED
  BY <1>2, <1>3, <1>4, <1>5, <1>6, <1>7, <1>8, <1>9, <1>10, <1>11, <1>12, <1>13, <1>14, <1>15,
     <1>16, <1>17, <1>18, <1>19 DEF Next

(* The type invariant of NetGate; a batch never counts more frames than are queued. *)
THEOREM TypeCorrect == Spec => []TypeOK
<1>1. Typed => TypeOK
  BY DEF Typed
<1> QED
  BY InitTyped, StepTyped, <1>1, PTL DEF Spec

-----------------------------------------------------------------------------
(* The onion *)

OnionInv == NoOrphanOnion /\ (op.kind # "none" => unlocked)

LEMMA OnionStep == Typed /\ OnionInv /\ [Next]_vars => OnionInv'
<1> SUFFICES ASSUME Typed, OnionInv, [Next]_vars PROVE OnionInv'
  OBVIOUS
<1>t. /\ op.kind = "none" => op = NoOp
      /\ NoOp.kind = "none" /\ \A k, n : Begin(k, n).kind = k
  BY DEF Typed, OpInv, NoOp, Begin
<1>1. CASE \/ \E m \in {"tor", "i2p"} : SetMode(m)
           \/ \E b \in BOOLEAN : SetPosture(b) \/ SetIsolation(b) \/ RequireBridges(b)
  <2>1. \E n : Change(n)
    BY <1>1, Zenon DEF SetMode, SetPosture, SetIsolation, RequireBridges
  <2> QED
    BY <2>1 DEF Change, onion, OnionInv, NoOrphanOnion
<1>2. CASE Retry \/ SendText \/ SendWithJitter \/ \E n \in 1..pending : FlushHeld(n)
  BY <1>2 DEF Retry, SendText, SendWithJitter, FlushHeld, onion, OnionInv, NoOrphanOnion
<1>3. ASSUME NEW b \in BOOLEAN, NextFrame(b) PROVE OnionInv'
  BY <1>3 DEF NextFrame, onion, OnionInv, NoOrphanOnion
<1>4. CASE Listen \/ ListenFails
  BY <1>4, <1>t DEF Listen, ListenFails, onion, OnionInv, NoOrphanOnion
<1>5. CASE Publish
  BY <1>5 DEF Publish, OnionInv, NoOrphanOnion
<1>6. CASE RecheckWhileListening
  BY <1>6 DEF RecheckWhileListening, onion, OnionInv, NoOrphanOnion
<1>7. CASE (\E n \in 0..MaxPending : Unlock(n)) \/ Lock \/ Restart
  BY <1>7, <1>t DEF Unlock, Lock, Restart, Idle, onion, OnionInv, NoOrphanOnion
<1>8. ASSUME NEW t \in Tors, NEW b \in BOOLEAN, TorChanges(t, b) PROVE OnionInv'
  <2>1. published' => published
    BY <1>8, Zenon DEF TorChanges
  <2> QED
    BY <1>8, <2>1 DEF TorChanges, OnionInv, NoOrphanOnion
<1>9. CASE CheckTor
  BY <1>9 DEF CheckTor, onion, OnionInv, NoOrphanOnion
<1>10. CASE Tick \/ UNCHANGED vars
  BY <1>10 DEF Tick, vars, OnionInv, NoOrphanOnion
<1> QED
  BY <1>1, <1>2, <1>3, <1>4, <1>5, <1>6, <1>7, <1>8, <1>9, <1>10 DEF Next

(* Tor serves an onion only while an unlocked TUI holds the service: a listen under way *)
(* cannot outlive its session, since a lock waits for it and a crash ends it.           *)
THEOREM OnionNeverOrphaned == Spec => []NoOrphanOnion
<1>1. Init => OnionInv
  BY DEF Init, OnionInv, NoOrphanOnion, NoOp
<1>2. OnionInv => NoOrphanOnion
  BY DEF OnionInv
<1> QED
  BY InitTyped, StepTyped, OnionStep, <1>1, <1>2, PTL DEF Spec

-----------------------------------------------------------------------------
(* The requirements *)

VerdictIsTrue == \A t \in Tors : BridgesActive(t) => Bridged(t)

(* SendsGated, with the setting for what it makes of a stream of an open session. *)
Gated ==
    ~Idle => /\ net.mode = "tor"
             /\ net.require => op.basis <= BRIDGE_CHECK_OK
             /\ net.extreme => net.isolation

GateInv == LockInv /\ CheckInv /\ Gated

(* What a check that gives no reason to hold says of the bridges. *)
LEMMA CheckSays ==
    ASSUME VerdictIsTrue, TypeOK, CheckInv
    PROVE  /\ (net.require /\ ~Hold) => bridgedAge <= BRIDGE_CHECK_OK
           /\ (Checked.result = "ok" /\ Checked.age < BRIDGE_CHECK_OK) =>
                  bridgedAge <= Checked.age
<1>t. /\ check.result \in {"none", "ok", "err"} /\ check.age \in 0..BRIDGE_CHECK_OK
      /\ bridgedAge \in 0..(BRIDGE_CHECK_OK + 1) /\ BRIDGE_CHECK_OK \in Nat \ {0}
  BY NetGateBounds DEF TypeOK
<1>1. tor \in ActiveTors => bridgedAge = 0
  BY DEF VerdictIsTrue, CheckInv, ActiveTors, BridgedTors
<1>2. CASE ~net.require \/ Fresh
  <2>1. Checked = check
    BY <1>2 DEF Checked
  <2>2. Fresh /\ check.result # "err" => check.result = "ok" /\ check.age < BRIDGE_CHECK_OK
    BY <1>t DEF Fresh
  <2> QED
    BY <1>t, <1>2, <2>1, <2>2 DEF Hold, CheckInv
<1>3. CASE ~(~net.require \/ Fresh)
  <2>1. Checked = [result |-> IF tor \in ActiveTors THEN "ok" ELSE "err", age |-> 0]
    BY <1>3 DEF Checked
  <2>2. Checked.result = "ok" => tor \in ActiveTors
    BY <2>1
  <2>3. Checked.result \in {"ok", "err"} /\ Checked.age = 0
    BY <2>1
  <2> QED
    BY <1>t, <1>1, <2>2, <2>3 DEF Hold
<1> QED
  BY <1>2, <1>3

(* What RetryPending begins is gated. *)
LEMMA RetryGated ==
    ASSUME VerdictIsTrue, TypeOK, CheckInv, RetryPending
    PROVE  /\ (check'.result = "ok" /\ check'.age < BRIDGE_CHECK_OK) => bridgedAge <= check'.age
           /\ op' = op \/ op' = NoOp
              \/ (net.mode = "tor" /\ (net.require => op'.basis <= BRIDGE_CHECK_OK))
<1>1. CASE ~TransportOk \/ ~status
  BY <1>1 DEF RetryPending, CheckInv
<1>2. CASE TransportOk /\ status
  <2>1. /\ check' = Checked /\ op' = IF Hold \/ pending = 0 THEN NoOp ELSE Begin("retry", pending)
        /\ net.mode = "tor"
    BY <1>2 DEF RetryPending, TransportOk
  <2> QED
    BY <2>1, CheckSays DEF Begin
<1> QED
  BY <1>1, <1>2

LEMMA GateStep ==
    ASSUME VerdictIsTrue
    PROVE  Typed /\ GateInv /\ [Next]_vars => GateInv'
<1> SUFFICES ASSUME Typed, GateInv, [Next]_vars PROVE GateInv'
  OBVIOUS
<1>t. /\ TypeOK /\ LockInv /\ CheckInv /\ Gated
      /\ net \in NetConfig /\ disk \in NetConfig
      /\ bridgedAge \in 0..(BRIDGE_CHECK_OK + 1) /\ BRIDGE_CHECK_OK \in Nat \ {0}
      /\ check \in [result : {"none", "ok", "err"}, age : 0..BRIDGE_CHECK_OK]
      /\ BRIDGE_CHECK_FAIL \in 1..BRIDGE_CHECK_OK
  BY NetGateBounds DEF GateInv, Typed, TypeOK
<1>s. /\ (net.require /\ ~Hold) => bridgedAge <= BRIDGE_CHECK_OK
      /\ (Checked.result = "ok" /\ Checked.age < BRIDGE_CHECK_OK) => bridgedAge <= Checked.age
  BY <1>t, CheckSays
<1>b. \A k, n : Begin(k, n).basis = bridgedAge
  BY DEF Begin
(* A step that leaves Tor and the settings alone needs only a good check and operation. *)
<1>0. ASSUME UNCHANGED <<tor, net, bridgedAge>>,
             (check'.result = "ok" /\ check'.age < BRIDGE_CHECK_OK) => bridgedAge <= check'.age,
             op' # NoOp => net.mode = "tor" /\ (net.require => op'.basis <= BRIDGE_CHECK_OK)
      PROVE  GateInv'
  <2>1. tor' = tor /\ net' = net /\ bridgedAge' = bridgedAge
    BY <1>0
  <2>2. LockInv'
    BY <2>1, <1>t DEF LockInv
  <2>3. CheckInv'
    BY <2>1, <1>0, <1>t DEF CheckInv
  <2>4. Gated'
    <3>1. CASE op' = NoOp
      BY <3>1 DEF Gated, Idle, NoOp
    <3>2. CASE op' # NoOp
      <4>1. op'.basis <= BRIDGE_CHECK_OK \/ ~net.require
        BY <3>2, <1>0
      <4>2. net.mode = "tor"
        BY <3>2, <1>0
      <4> QED
        BY <2>1, <2>2, <4>1, <4>2 DEF Gated, LockInv
    <3> QED
      BY <3>1, <3>2
  <2> QED
    BY <2>2, <2>3, <2>4 DEF GateInv
<1>1. ASSUME NEW n \in NetConfig, n.extreme => n.mode = "tor" /\ n.isolation,
             Change(n), check' = check \/ check' = NoCheck
      PROVE  GateInv'
  <2>1. op' = NoOp /\ tor' = tor /\ bridgedAge' = bridgedAge /\ net' = n
    BY <1>1 DEF Change, Idle, outside
  <2>2. CheckInv'
    BY <1>1, <1>t, <2>1 DEF CheckInv, NoCheck
  <2> QED
    BY <1>1, <2>1, <2>2 DEF GateInv, LockInv, Gated, Idle, NoOp
<1>2. ASSUME NEW m \in {"tor", "i2p"}, SetMode(m) PROVE GateInv'
  <2>1. [net EXCEPT !.mode = m] \in NetConfig
    BY <1>t DEF NetConfig
  <2>2. LET n == [net EXCEPT !.mode = m] IN n.extreme => n.mode = "tor" /\ n.isolation
    BY <1>2, <1>t DEF SetMode, LockInv, NetConfig
  <2> QED
    BY <1>2, <2>1, <2>2, <1>1 DEF SetMode
<1>3. ASSUME NEW b \in BOOLEAN, SetPosture(b) PROVE GateInv'
  <2>1. [net EXCEPT !.extreme = b] \in NetConfig
    BY <1>t DEF NetConfig
  <2> QED
    BY <1>3, <2>1, LocksTyped, <1>1 DEF SetPosture
<1>4. ASSUME NEW b \in BOOLEAN, SetIsolation(b) PROVE GateInv'
  <2>1. [net EXCEPT !.isolation = b] \in NetConfig
    BY <1>t DEF NetConfig
  <2>2. LET n == [net EXCEPT !.isolation = b] IN n.extreme => n.mode = "tor" /\ n.isolation
    BY <1>4, <1>t DEF SetIsolation, LockInv, NetConfig
  <2> QED
    BY <1>4, <2>1, <2>2, <1>1 DEF SetIsolation
<1>5. ASSUME NEW b \in BOOLEAN, RequireBridges(b) PROVE GateInv'
  <2>1. [net EXCEPT !.require = b] \in NetConfig
    BY <1>t DEF NetConfig
  <2>2. LET n == [net EXCEPT !.require = b] IN n.extreme => n.mode = "tor" /\ n.isolation
    BY <1>t DEF LockInv, NetConfig
  <2> QED
    BY <1>5, <2>1, <2>2, <1>1 DEF RequireBridges
<1>6. CASE Retry
  BY <1>6, <1>t, <1>0, RetryGated DEF Retry, settings, outside, Gated, Idle
<1>7. CASE SendText \/ \E n \in 1..pending : FlushHeld(n)
  <2>1. /\ check' = Checked /\ net.mode = "tor" /\ UNCHANGED <<tor, net, bridgedAge>>
        /\ \E n : op' = IF Hold THEN NoOp ELSE Begin("send", n)
    BY <1>7 DEF SendText, FlushHeld, TransportOk, settings, outside
  <2> QED
    BY <2>1, <1>s, <1>b, <1>0
<1>8. CASE SendWithJitter
  BY <1>8, <1>t, <1>0 DEF SendWithJitter, settings, outside, Idle, CheckInv
<1>9. ASSUME NEW b \in BOOLEAN, NextFrame(b) PROVE GateInv'
  <2>1. /\ op' = NoOp \/ op'.basis = op.basis
        /\ op # NoOp /\ check' = check /\ UNCHANGED <<tor, net, bridgedAge>>
    BY <1>9, <1>t DEF NextFrame, settings, outside, TypeOK, NoOp
  <2> QED
    BY <2>1, <1>t, <1>0 DEF Gated, Idle, CheckInv
<1>10. CASE Listen
  <2>1. /\ check' = Checked /\ net.mode = "tor" /\ UNCHANGED <<tor, net, bridgedAge>>
        /\ op' = IF Hold THEN NoOp ELSE Begin("listen", 0)
    BY <1>10 DEF Listen, TransportOk, settings, outside
  <2> QED
    BY <2>1, <1>s, <1>b, <1>0
<1>11. CASE Publish
  <2>1. UNCHANGED <<tor, net, bridgedAge>> /\ ((op' = NoOp /\ check' = check) \/ RetryPending)
    BY <1>11 DEF Publish, outside
  <2>2. CASE op' = NoOp /\ check' = check
    BY <2>1, <2>2, <1>t, <1>0 DEF CheckInv
  <2>3. CASE RetryPending
    BY <2>1, <2>3, <1>t, <1>0, RetryGated DEF Gated, Idle
  <2> QED
    BY <2>1, <2>2, <2>3
<1>12. CASE ListenFails
  BY <1>12, <1>t, <1>0 DEF ListenFails, settings, outside, CheckInv
<1>13. CASE RecheckWhileListening
  BY <1>13, <1>s, <1>0 DEF RecheckWhileListening, Idle, settings, outside
<1>14. ASSUME NEW n \in 0..MaxPending, Unlock(n) PROVE GateInv'
  <2>1. /\ op' = NoOp /\ UNCHANGED <<tor, bridgedAge, check>> /\ net' = ExtremeLocks(disk)
    BY <1>14 DEF Unlock, Loaded, Idle, outside
  <2>2. LockInv'
    BY <2>1, <1>t, LocksTyped DEF LockInv
  <2> QED
    BY <2>1, <2>2, <1>t DEF GateInv, CheckInv, Gated, Idle, NoOp
<1>15. CASE Lock
  BY <1>15, <1>t, <1>0 DEF Lock, Idle, outside, CheckInv
<1>16. CASE Restart
  <2>1. /\ op' = NoOp /\ UNCHANGED <<tor, bridgedAge>> /\ check' = NoCheck
        /\ \E e \in NetConfig : net' = ExtremeLocks(e)
    BY <1>16, EnvsAreSettings DEF Restart, outside
  <2>2. LockInv'
    BY <2>1, LocksTyped DEF LockInv
  <2> QED
    BY <2>1, <2>2, <1>t DEF GateInv, CheckInv, Gated, Idle, NoOp, NoCheck
<1>17. ASSUME NEW t \in Tors, NEW b \in BOOLEAN, TorChanges(t, b) PROVE GateInv'
  <2>1. /\ tor' = t /\ bridgedAge' = IF t \in BridgedTors THEN 0 ELSE bridgedAge
        /\ UNCHANGED <<net, check, op>>
    BY <1>17 DEF TorChanges
  <2>2. BridgedTors' = BridgedTors /\ (t \in BridgedTors => bridgedAge' = 0)
        /\ bridgedAge' <= bridgedAge
    BY <2>1, <1>t
  <2>3. CheckInv'
    BY <2>1, <2>2, <1>t DEF CheckInv
  <2> QED
    BY <2>1, <2>3, <1>t DEF GateInv, LockInv, Gated, Idle, NoOp
<1>18. CASE CheckTor
  <2>1. /\ UNCHANGED <<tor, net, bridgedAge>>
        /\ \/ UNCHANGED <<check, op>>
           \/ /\ check' = Checked /\ net.mode = "tor"
              /\ op' = IF Hold THEN NoOp ELSE Begin("retry", pending)
    BY <1>18 DEF CheckTor, TransportOk, settings, outside
  <2>2. CASE UNCHANGED <<check, op>>
    BY <2>1, <2>2, <1>t, <1>0 DEF CheckInv, Gated, Idle
  <2>3. CASE /\ check' = Checked /\ net.mode = "tor"
             /\ op' = IF Hold THEN NoOp ELSE Begin("retry", pending)
    BY <2>1, <2>3, <1>s, <1>b, <1>0
  <2> QED
    BY <2>1, <2>2, <2>3
<1>19. CASE Tick
  <2>1. /\ UNCHANGED <<tor, net, op>>
        /\ tor \in BridgedTors => bridgedAge' = 0
        /\ bridgedAge' <= bridgedAge + 1 /\ bridgedAge' \in Int
    BY <1>19, <1>t DEF Tick, Older
  <2>2. check.result = "ok" =>
            check' = [check EXCEPT !.age = IF check.age < BRIDGE_CHECK_OK THEN check.age + 1
                                           ELSE check.age]
    BY <1>19 DEF Tick, Older
  <2>3. check.result # "ok" => check'.result # "ok"
    BY <1>19, <1>t DEF Tick, Older
  <2>4. (check'.result = "ok" /\ check'.age < BRIDGE_CHECK_OK) =>
            /\ check.result = "ok" /\ check.age < BRIDGE_CHECK_OK
            /\ check'.age = check.age + 1
    BY <2>2, <2>3, <1>t
  <2>5. CheckInv'
    BY <2>1, <2>4, <1>t DEF CheckInv
  <2> QED
    BY <2>1, <2>5, <1>t DEF GateInv, LockInv, Gated, Idle, NoOp
<1>20. CASE UNCHANGED vars
  BY <1>20, <1>t DEF vars, GateInv, LockInv, CheckInv, Gated, Idle, NoOp
<1> QED
  BY <1>2, <1>3, <1>4, <1>5, <1>6, <1>7, <1>8, <1>9, <1>10, <1>11, <1>12, <1>13, <1>14, <1>15,
     <1>16, <1>17, <1>18, <1>19, <1>20 DEF Next

(* If a check that passes is true, every operation that talks to Tor runs in mode tor, with *)
(* isolated streams under Extreme, and began within the life of a passing check after       *)
(* bridges were in use, if they are required: CheckInv ties the cached verdict to them.     *)
THEOREM SendsStayGated ==
    ASSUME VerdictIsTrue
    PROVE  Spec => []SendsGated
<1>1. Init => GateInv
  <2> SUFFICES ASSUME Init PROVE GateInv
    OBVIOUS
  <2>1. LockInv
    BY LocksTyped, EnvsAreSettings DEF Init, LockInv
  <2> QED
    BY <2>1 DEF Init, GateInv, CheckInv, Gated, Idle, NoCheck
<1>2. Typed /\ OnionInv /\ GateInv => SendsGated
  BY DEF GateInv, Gated, SendsGated, StreamsIsolated, OnionInv, Typed, OpInv, Idle
<1>3. Typed /\ GateInv /\ [Next]_vars => GateInv'
  BY GateStep
<1>4. Init => OnionInv
  BY DEF Init, OnionInv, NoOrphanOnion, NoOp
<1> QED
  BY InitTyped, StepTyped, OnionStep, <1>1, <1>2, <1>3, <1>4, PTL DEF Spec

-----------------------------------------------------------------------------
(* The verdict *)

ReplyLine == [start : {"250-", "250+", "250_", "data", "5", "."}, circuits : SUBSET Circuit]

(* No line of a list of circuits looks like the end of a reply. *)
Readable(circuits) == Len(circuits) > 1 => \A i \in DOMAIN circuits : circuits[i].id = "plain"

(* L is a reply with every one of the circuits, and its last line alone ends it. *)
IsReply(L, cs) ==
    /\ L \in Seq(ReplyLine) /\ Len(L) \in Nat \ {0}
    /\ L[Len(L)].start = "250_"
    /\ \A i \in 1..Len(L) : /\ L[i].start \in {"250_", "5"} => i = Len(L)
                            /\ L[i].circuits = {} \/ \E c \in Circuit : L[i].circuits = {c}
    /\ \A k \in DOMAIN cs : \E i \in 1..Len(L) :
          L[i].start # "250_" /\ L[i].circuits = {cs[k]}

LEMMA LineFacts ==
    ASSUME NEW s \in {"250-", "250+", "250_", "data", "5", "."}, NEW S \in SUBSET Circuit
    PROVE  \E l \in ReplyLine : l = Line(s, S) /\ l.start = s /\ l.circuits = S
<1>1. PICK l : l = Line(s, S)
  OBVIOUS
<1>2. l \in ReplyLine /\ l.start = s /\ l.circuits = S
  BY <1>1 DEF Line, ReplyLine
<1> QED
  BY <1>1, <1>2

(* Up to one circuit: two lines. *)
LEMMA ShortReply ==
    ASSUME NEW cs \in Seq(Circuit), NEW one \in ReplyLine, one.start = "250-",
           \/ Len(cs) = 0 /\ one.circuits = {}
           \/ Len(cs) = 1 /\ one.circuits = {cs[1]},
           NEW end \in ReplyLine, end.start = "250_", end.circuits = {}
    PROVE  IsReply(<<one>> \o <<end>>, cs)
<1>1. PICK L : L = <<one>> \o <<end>>
  OBVIOUS
<1>2. L \in Seq(ReplyLine) /\ Len(L) = 2 /\ L[1] = one /\ L[2] = end
  BY <1>1
<1>3. \A k \in DOMAIN cs : one.circuits = {cs[k]}
  OBVIOUS
<1>4. one.circuits = {} \/ \E c \in Circuit : one.circuits = {c}
  OBVIOUS
<1>5. \A i \in 1..2 : i = 1 \/ i = 2
  OBVIOUS
<1>6. 1 \in 1..2 /\ 2 \in 1..2
  OBVIOUS
<1>7. \A i \in 1..2 : /\ L[i].start \in {"250_", "5"} => i = 2
                      /\ L[i].circuits = {} \/ \E c \in Circuit : L[i].circuits = {c}
  BY <1>2, <1>4, <1>5
<1>8. \A k \in DOMAIN cs : \E i \in 1..2 : L[i].start # "250_" /\ L[i].circuits = {cs[k]}
  BY <1>2, <1>3, <1>6
<1>9. IsReply(L, cs)
  <2>1. 2 \in Nat \ {0} /\ L[2].start = "250_"
    BY <1>2
  <2> QED
    BY <1>2, <1>7, <1>8, <2>1 DEF IsReply
<1> QED
  BY <1>1, <1>9

(* Several: a header, a line for each, a dot, the end. *)
LEMMA LongReply ==
    ASSUME NEW cs \in Seq(Circuit), NEW n \in Nat, n = Len(cs),
           NEW one \in ReplyLine, one.start = "250+", one.circuits = {},
           NEW data \in Seq(ReplyLine), Len(data) = n,
           \A i \in 1..n : data[i].start = "data" /\ data[i].circuits = {cs[i]},
           NEW dot \in ReplyLine, dot.start = ".", dot.circuits = {},
           NEW end \in ReplyLine, end.start = "250_", end.circuits = {}
    PROVE  IsReply(<<one>> \o data \o <<dot>> \o <<end>>, cs)
<1>1. PICK L : L = <<one>> \o data \o <<dot>> \o <<end>>
  OBVIOUS
<1>2. /\ L \in Seq(ReplyLine) /\ Len(L) = n + 3
      /\ L[1] = one /\ L[n + 2] = dot /\ L[n + 3] = end
      /\ \A i \in 1..n : L[i + 1] = data[i]
  BY <1>1
<1>3. \A k \in DOMAIN cs : k \in 1..n /\ k \in Nat /\ k + 1 \in 1..(n + 3) /\ cs[k] \in Circuit
  OBVIOUS
<1>4. ASSUME NEW i \in 1..(n + 3)
      PROVE  /\ L[i].start \in {"250_", "5"} => i = n + 3
             /\ L[i].circuits = {} \/ \E c \in Circuit : L[i].circuits = {c}
  <2>1. CASE i = 1 \/ i = n + 2 \/ i = n + 3
    BY <1>2, <2>1
  <2>2. CASE i - 1 \in 1..n
    <3>1. PICK k \in 1..n : k = i - 1 /\ i = k + 1
      BY <2>2
    <3>2. L[i] = data[k] /\ cs[k] \in Circuit
      BY <1>2, <3>1
    <3> QED
      BY <3>2
  <2> QED
    BY <2>1, <2>2
<1>5. \A k \in DOMAIN cs : \E i \in 1..(n + 3) : L[i].start # "250_" /\ L[i].circuits = {cs[k]}
  BY <1>2, <1>3
<1>6. IsReply(L, cs)
  <2>1. n + 3 \in Nat \ {0} /\ L[n + 3].start = "250_"
    BY <1>2
  <2> QED
    BY <1>2, <1>4, <1>5, <2>1 DEF IsReply
<1> QED
  BY <1>1, <1>6

LEMMA ReplyIsWhole ==
    ASSUME NEW cs \in Seq(Circuit), Readable(cs)
    PROVE  IsReply(CircuitStatusReply(cs), cs)
<1>1. PICK end \in ReplyLine : end = Line("250_", {}) /\ end.start = "250_" /\ end.circuits = {}
  BY LineFacts
<1>2. PICK n \in Nat : n = Len(cs) /\ DOMAIN cs = 1..n /\ \A i \in 1..n : cs[i] \in Circuit
  OBVIOUS
<1>3. CASE n = 0
  <2>1. PICK one \in ReplyLine : one = Line("250-", {}) /\ one.start = "250-" /\ one.circuits = {}
    BY LineFacts
  <2>2. CircuitStatusReply(cs) = <<one>> \o <<end>>
    <3>1. CircuitStatusReply(cs) = <<Line("250-", {})>> \o <<Line("250_", {})>>
      BY <1>2, <1>3 DEF CircuitStatusReply
    <3> QED
      BY <1>1, <2>1, <3>1
  <2> QED
    BY <1>1, <1>2, <1>3, <2>1, <2>2, ShortReply
<1>4. CASE n = 1
  <2>1. PICK one \in ReplyLine : one = Line("250-", {cs[1]}) /\ one.start = "250-" /\ one.circuits = {cs[1]}
    BY <1>2, <1>4, LineFacts
  <2>2. CircuitStatusReply(cs) = <<one>> \o <<end>>
    <3>1. CircuitStatusReply(cs) = <<Line("250-", {cs[1]})>> \o <<Line("250_", {})>>
      <4>1. Len(cs) = 1 /\ ~(Len(cs) = 0)
        BY <1>2, <1>4
      <4> QED
        BY <4>1 DEF CircuitStatusReply
    <3> QED
      BY <1>1, <2>1, <3>1
  <2> QED
    BY <1>1, <1>2, <1>4, <2>1, <2>2, ShortReply
<1>5. CASE n > 1
  <2>1. PICK one \in ReplyLine : one = Line("250+", {}) /\ one.start = "250+" /\ one.circuits = {}
    BY LineFacts
  <2>2. PICK dot \in ReplyLine : dot = Line(".", {}) /\ dot.start = "." /\ dot.circuits = {}
    BY LineFacts
  <2>3. PICK data : data = [i \in DOMAIN cs |-> Line(DataStart(cs[i]), {cs[i]})]
    OBVIOUS
  <2>4. ASSUME NEW i \in 1..n
        PROVE  /\ data[i] \in ReplyLine
               /\ data[i].start = "data" /\ data[i].circuits = {cs[i]}
    <3>1. cs[i].id = "plain" /\ {cs[i]} \in SUBSET Circuit
      BY <1>2, <1>5 DEF Readable
    <3>2. data[i] = Line("data", {cs[i]})
      BY <1>2, <2>3, <3>1 DEF DataStart
    <3>3. PICK l \in ReplyLine : l = Line("data", {cs[i]}) /\ l.start = "data" /\ l.circuits = {cs[i]}
      BY <3>1, LineFacts
    <3> QED
      BY <3>2, <3>3
  <2>5. data \in [1..n -> ReplyLine]
    BY <1>2, <2>3, <2>4
  <2>6. data \in Seq(ReplyLine) /\ Len(data) = n
    BY <2>5
  <2>7. CircuitStatusReply(cs) = <<one>> \o data \o <<dot>> \o <<end>>
    <3>1. ~(Len(cs) = 0) /\ ~(Len(cs) = 1)
      BY <1>2, <1>5
    <3> QED
      BY <1>1, <2>1, <2>2, <2>3, <3>1 DEF CircuitStatusReply
  <2>8. IsReply(<<one>> \o data \o <<dot>> \o <<end>>, cs)
    <3>1. \A i \in 1..n : data[i].start = "data" /\ data[i].circuits = {cs[i]}
      BY <2>4
    <3> QED
      BY <1>1, <1>2, <2>1, <2>2, <2>6, <3>1, LongReply
  <2> QED
    BY <2>7, <2>8
<1> QED
  BY <1>2, <1>3, <1>4, <1>5

(* So the reader, which stops at the first line that looks like an end, reads all of it. *)
LEMMA AllIsRead ==
    ASSUME NEW cs \in Seq(Circuit), Readable(cs)
    PROVE  IsReply(ReadControlReply(CircuitStatusReply(cs)), cs)
<1>1. PICK L : L = CircuitStatusReply(cs)
  OBVIOUS
<1>2. /\ IsReply(L, cs) /\ L \in Seq(ReplyLine) /\ Len(L) \in Nat \ {0} /\ DOMAIN L = 1..Len(L)
  <2>1. IsReply(L, cs)
    BY <1>1, ReplyIsWhole
  <2>2. L \in Seq(ReplyLine) /\ Len(L) \in Nat \ {0}
    BY <2>1 DEF IsReply
  <2> QED
    BY <2>1, <2>2
<1>3. PICK E : E = {i \in DOMAIN L : L[i].start \in {"250_", "5"}}
  OBVIOUS
<1>4. E = {Len(L)}
  <2>1. Len(L) \in DOMAIN L /\ L[Len(L)].start = "250_"
    <3>1. Len(L) \in 1..Len(L)
      BY <1>2
    <3> QED
      BY <1>2, <3>1 DEF IsReply
  <2>2. \A i \in DOMAIN L : L[i].start \in {"250_", "5"} => i = Len(L)
    BY <1>2 DEF IsReply
  <2> QED
    BY <1>3, <2>1, <2>2, Zenon
<1>5. (CHOOSE i \in E : \A j \in E : i <= j) = Len(L)
  <2>1. Len(L) <= Len(L)
    BY <1>2
  <2> QED
    BY <1>4, <2>1
<1>6. ReadControlReply(L) = SubSeq(L, 1, Len(L))
  BY <1>3, <1>5 DEF ReadControlReply
<1> QED
  BY <1>1, <1>2, <1>6, SubSeqFull

(* There is a built circuit to a line at most, so that they can be counted. *)
LEMMA HopsAreFinite ==
    ASSUME NEW cs, NEW L, IsReply(L, cs), NEW S \in SUBSET BuiltFirstHops(L)
    PROVE  IsFiniteSet(S)
<1>1. PICK n \in Nat : n = Len(L) /\ DOMAIN L = 1..n
  BY DEF IsReply
<1>2. \A h \in S : \E c : /\ h[1] \in 1..n /\ L[h[1]].circuits = {c} /\ h = <<h[1], c>>
  <2> SUFFICES ASSUME NEW h \in S
               PROVE  \E c : h[1] \in 1..n /\ L[h[1]].circuits = {c} /\ h = <<h[1], c>>
    OBVIOUS
  <2>1. h \in UNION {{i} \X L[i].circuits : i \in DOMAIN L}
    BY DEF BuiltFirstHops
  <2>2. PICK i \in DOMAIN L : h \in {i} \X L[i].circuits
    BY <2>1, Zenon
  <2>3. PICK c : c \in L[i].circuits /\ h = <<i, c>> /\ h[1] = i
    BY <2>2
  <2>4. PICK d : L[i].circuits = {d}
    <3>1. L[i].circuits = {} \/ \E d \in Circuit : L[i].circuits = {d}
      BY <1>1, <2>2, Zenon DEF IsReply
    <3> QED
      BY <2>3, <3>1, Zenon
  <2>5. c = d
    BY <2>3, <2>4
  <2> QED
    BY <1>1, <2>2, <2>3, <2>4, <2>5, Zenon
<1>3. PICK f : f = [h \in S |-> h[1]]
  OBVIOUS
<1>4. f \in [S -> 1..n]
  BY <1>2, <1>3
<1>5. \A h, g \in S : f[h] = f[g] => h = g
  <2> SUFFICES ASSUME NEW h \in S, NEW g \in S, h[1] = g[1] PROVE h = g
    BY <1>3
  <2>1. PICK c : L[h[1]].circuits = {c} /\ h = <<h[1], c>>
    BY <1>2, Zenon
  <2>2. PICK d : L[g[1]].circuits = {d} /\ g = <<g[1], d>>
    BY <1>2, Zenon
  <2>3. {c} = {d}
    BY <2>1, <2>2, Zenon
  <2>4. c = d
    BY <2>3
  <2> QED
    BY <2>1, <2>2, <2>4, Zenon
<1>6. f \in Injection(S, 1..n)
  BY <1>4, <1>5 DEF Injection, IsInjective
<1>7. IsFiniteSet(1..n)
  BY FS_Interval
<1> QED
  BY <1>6, <1>7, FS_Injection

(* What "active" says of what was counted. *)
LEMMA ActiveMeans ==
    ASSUME NEW st, st.use_bridges \in BOOLEAN, st.bridge_count \in Nat, st.bootstrap \in 0..100,
           st.circuits_off_bridge \in Nat, Verdict(st) = "active"
    PROVE  /\ st.use_bridges /\ st.bridge_count # 0 /\ st.missing_plugins = {}
           /\ st.bootstrap = 100 /\ st.circuits_off_bridge = 0
<1>1. PICK use \in BOOLEAN, count \in Nat, boot \in 0..100, off \in Nat :
         /\ use = st.use_bridges /\ count = st.bridge_count /\ boot = st.bootstrap
         /\ off = st.circuits_off_bridge
  OBVIOUS
<1> DEFINE plugins == st.missing_plugins
<1>2. (CASE ~use -> "off"
         [] use /\ (count = 0 \/ plugins # {}) -> "misconfigured"
         [] use /\ count > 0 /\ plugins = {} /\ boot < 100 -> "notReady"
         [] OTHER -> IF off > 0 THEN "offBridge" ELSE "active") = "active"
  BY <1>1 DEF Verdict
<1>3. use /\ count # 0 /\ plugins = {} /\ boot = 100 /\ off = 0
  BY <1>2
<1> QED
  BY <1>1, <1>3

(* A Tor that passes the check has its bridges in use. *)
LEMMA ActiveTorIsBridged ==
    ASSUME NEW t \in Tors, Readable(t.circuits), BridgesActive(t)
    PROVE  Bridged(t)
<1>1. /\ t.up \in BOOLEAN /\ t.conf \in TorConf /\ t.boot \in 0..100
      /\ t.circuits \in Seq(Circuit) /\ IsFiniteSet(t.conf.lines)
  BY NetGateBounds DEF Tor
<1>2. PICK L : L = ReadControlReply(CircuitStatusReply(t.circuits)) /\ IsReply(L, t.circuits)
  BY <1>1, AllIsRead
<1>3. PICK bridges, prints, st, plain, hops :
         /\ bridges = {l \in t.conf.lines : Parses(l)}
         /\ prints = {l.fingerprint : l \in bridges} \ {NoFingerprint}
         /\ plain = \E l \in bridges : l.fingerprint = NoFingerprint
         /\ hops = (IF plain THEN {} ELSE BuiltFirstHops(L))
         /\ st = EvaluateBridgeStatus(t.conf, t.boot, L)
  OBVIOUS
<1>4. PICK off : off = {h \in hops : h[2].hop \notin prints}
  OBVIOUS
<1>5. /\ st.use_bridges = t.conf.use /\ st.bridge_count = Cardinality(bridges)
      /\ st.bootstrap = t.boot /\ st.circuits_off_bridge = Cardinality(off)
  BY <1>3, <1>4 DEF EvaluateBridgeStatus
<1>6. t.conf.use \in BOOLEAN
  BY <1>1 DEF TorConf
<1>7. IsFiniteSet(bridges) /\ IsFiniteSet(off)
  <2>1. bridges \in SUBSET t.conf.lines /\ off \in SUBSET BuiltFirstHops(L)
    BY <1>3, <1>4
  <2> QED
    BY <1>1, <1>2, <2>1, FS_Subset, HopsAreFinite
<1>8. t.up /\ Verdict(st) = "active"
  BY <1>2, <1>3 DEF BridgesActive
<1>9. t.conf.use /\ Cardinality(bridges) # 0 /\ t.boot = 100 /\ Cardinality(off) = 0
  <2>1. PICK n \in Nat, m \in Nat : n = Cardinality(bridges) /\ m = Cardinality(off)
    BY <1>7, FS_CardinalityType
  <2>2. /\ st.use_bridges \in BOOLEAN /\ st.bridge_count \in Nat /\ st.bootstrap \in 0..100
        /\ st.circuits_off_bridge \in Nat
    BY <1>1, <1>5, <1>6, <2>1, Zenon
  <2>3. /\ st.use_bridges /\ st.bridge_count # 0 /\ st.bootstrap = 100
        /\ st.circuits_off_bridge = 0
    <3>1. Verdict(st) = "active"
      BY <1>8, Zenon
    <3> QED
      BY <2>2, <3>1, ActiveMeans
  <2> QED
    BY <1>5, <2>3, Zenon
<1>10. bridges # {} /\ off = {}
  BY <1>7, <1>9, FS_EmptySet
<1>11. ASSUME NEW i \in DOMAIN t.circuits, t.circuits[i].state = "BUILT", ~plain
       PROVE  t.circuits[i].hop \in {l.fingerprint : l \in bridges}
  <2>1. PICK k \in 1..Len(L) : L[k].start # "250_" /\ L[k].circuits = {t.circuits[i]}
    BY <1>2 DEF IsReply
  <2>2. <<k, t.circuits[i]>> \in BuiltFirstHops(L)
    <3>1. k \in DOMAIN L
      BY <1>2, <2>1 DEF IsReply
    <3>2. PICK c, h : c = t.circuits[i] /\ h = <<k, c>>
      OBVIOUS
    <3>3. h \in {k} \X L[k].circuits
      BY <2>1, <3>2, Zenon
    <3>4. h \in UNION {{j} \X L[j].circuits : j \in DOMAIN L}
      BY <3>1, <3>3, Zenon
    <3>5. h[1] = k /\ h[2] = c
      BY <3>2
    <3> QED
      BY <1>11, <2>1, <3>2, <3>4, <3>5, Zenon DEF BuiltFirstHops
  <2>3. t.circuits[i].hop \in prints
    BY <1>3, <1>4, <1>10, <1>11, <2>2
  <2> QED
    BY <1>3, <2>3
<1> QED
  BY <1>3, <1>8, <1>9, <1>10, <1>11 DEF Bridged

(* The verdict is true of every Tor that lists no circuit, one, or only circuits whose    *)
(* lines do not look like the end of a reply, whatever bridges it has: the circuit numbers *)
(* of run netgate_circuit_ids are the only thing that makes it lie.                        *)
THEOREM ActiveMeansBridged ==
    ASSUME \A t \in Tors : Readable(t.circuits)
    PROVE  Spec => []ActiveIsBridged
<1>1. VerdictIsTrue
  BY ActiveTorIsBridged DEF VerdictIsTrue
<1>2. TypeOK => ActiveIsBridged
  BY <1>1 DEF TypeOK, ActiveIsBridged, VerdictIsTrue, ActiveTors, BridgedTors
<1>3. Typed => TypeOK
  BY DEF Typed
<1> QED
  BY InitTyped, StepTyped, <1>2, <1>3, PTL DEF Spec

(* With such circuits the gate holds without more: no operation talks to Tor outside mode *)
(* tor, without the isolation of Extreme, or later than the life of a passing check after  *)
(* bridges were last in use.                                                               *)
THEOREM ReadableSendsAreGated ==
    ASSUME \A t \in Tors : Readable(t.circuits)
    PROVE  Spec => []SendsGated
<1>1. VerdictIsTrue
  BY ActiveTorIsBridged DEF VerdictIsTrue
<1> QED
  BY <1>1, SendsStayGated

=============================================================================
