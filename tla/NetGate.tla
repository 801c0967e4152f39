-------------------------------- MODULE NetGate --------------------------------
(***************************************************************************)
(* What may leave, and over which Tor: the network settings, the bridge    *)
(* check with its cache, publishing the onion service and withdrawing it,  *)
(* and the operations that hand frames to Tor.  Tor changes at any moment, *)
(* also between the frames of one operation.                               *)
(*                                                                         *)
(* Frames are only counted here; Outbox follows each one.                  *)
(***************************************************************************)
EXTENDS Bridges

CONSTANTS
    Tors,                  \* the states of Tor that occur
    Envs,                  \* the settings NetConfig::from_env may give
    BRIDGE_CHECK_OK,       \* ticks a passing check is reused
    BRIDGE_CHECK_FAIL,     \* ticks a failing one is
    MaxPending,            \* bound: frames in the queue
    MaxMishaps             \* bound: failed saves and crashes

ASSUME NetGateBounds ==
    /\ Tors \subseteq Tor /\ \A t \in Tors : IsFiniteSet(t.conf.lines)
    /\ BRIDGE_CHECK_OK \in Nat \ {0} /\ BRIDGE_CHECK_FAIL \in 1..BRIDGE_CHECK_OK
    /\ MaxPending \in Nat \ {0} /\ MaxMishaps \in Nat

VARIABLES
    tor,        \* the Tor on this machine
    net,        \* NetConfig in memory
    disk,       \* NetConfig in state.enc
    unlocked,   \* a session is open
    status,     \* tor_status
    check,      \* bridge_check: the verdict and its age in ticks
    hs,         \* the TUI holds a HiddenService
    published,  \* Tor serves the onion
    pending,    \* frames in the queue
    op,         \* the operation under way: what it is, frames left to send,
                \* and the value of bridgedAge when it began
    bridgedAge, \* ticks since Tor's bridges were last in use
    mishaps

vars == <<tor, net, disk, unlocked, status, check, hs, published, pending,
          op, bridgedAge, mishaps>>

settings == <<net, disk>>
onion    == <<hs, published>>
outside  == <<tor, bridgedAge>>

(* NetConfig without the DNS preference, which opens no socket; "i2p"      *)
(* stands for both modes that are refused.                                 *)
NetConfig == [mode : {"tor", "i2p"}, extreme : BOOLEAN,
              isolation : BOOLEAN, require : BOOLEAN]

ASSUME EnvsAreSettings == Envs \subseteq NetConfig

(* what from_env, from_persist_bytes and set_posture end with              *)
(* Bug: Extreme forces the mode alone.                                     *)
TorOnlyLockOnly(n) == IF n.extreme THEN [n EXCEPT !.mode = "tor"] ELSE n

ExtremeLocks(n) ==
    IF n.extreme THEN [n EXCEPT !.mode = "tor", !.isolation = TRUE] ELSE n

NoCheck == [result |-> "none", age |-> 0]

NoOp == [kind |-> "none", left |-> 0, basis |-> 0]
Begin(kind, n) == [kind |-> kind, left |-> n, basis |-> bridgedAge]

Idle == op = NoOp

(* Tors with bridges in use, and those of which `:bridges` says so.        *)
BridgedTors == {t \in Tors : Bridged(t)}
ActiveTors == {t \in Tors : BridgesActive(t)}

(* Ages are counted up to the last value that still matters.               *)
Older(n, most) == IF n < most THEN n + 1 ELSE n

Mishap == mishaps < MaxMishaps /\ mishaps' = mishaps + 1

(* persist_session: may fail, and with it only the copy on disk stays old. *)
Persist(n) ==
    \/ disk' = n /\ UNCHANGED mishaps
    \/ Mishap /\ UNCHANGED disk

----------------------------------------------------------------------------
(* The bridge check *)

(* may the verdict in bridge_check still be used?                          *)
(* Bug: a passing check is good for ever.                                  *)
FreshOnceOk ==
    CASE check.result = "ok"   -> TRUE
      [] check.result = "err"  -> check.age < BRIDGE_CHECK_FAIL
      [] check.result = "none" -> FALSE

Fresh ==
    CASE check.result = "ok"   -> check.age < BRIDGE_CHECK_OK
      [] check.result = "err"  -> check.age < BRIDGE_CHECK_FAIL
      [] check.result = "none" -> FALSE

(* bridges_hold_reason: the bridge_check it leaves behind, and whether it  *)
(* gives a reason to hold.                                                 *)
Checked ==
    IF ~net.require \/ Fresh THEN check
    ELSE [result |-> IF tor \in ActiveTors THEN "ok" ELSE "err", age |-> 0]

Hold == net.require /\ Checked.result = "err"

(* require_messenger_transport                                             *)
TransportOk == net.mode = "tor"

(* tor_status after a probe: the SOCKS port answers a greeting.  Nothing   *)
(* is asked of Tor itself.                                                 *)
Probe == tor.up

(* socks_isolation_creds_for: every stream of a contact has tags of its    *)
(* own, made with the seed of the session.                                 *)
StreamsIsolated == unlocked /\ net.isolation

----------------------------------------------------------------------------
Init ==
    /\ tor \in Tors
    /\ net \in {ExtremeLocks(e) : e \in Envs} /\ disk = net
    /\ unlocked = FALSE
    /\ status = Probe
    /\ check = NoCheck
    /\ hs = FALSE /\ published = FALSE
    /\ pending = 0
    /\ op = NoOp
    /\ bridgedAge = IF tor \in BridgedTors THEN 0 ELSE BRIDGE_CHECK_OK + 1
    /\ mishaps = 0

----------------------------------------------------------------------------
(* Settings: `:mode`, `:isolate` and `:bridges require` *)

(* persist_net_after_mode_change: before the unlock nothing is saved.      *)
Change(n) ==
    /\ Idle /\ n # net
    /\ net' = n
    /\ IF unlocked THEN Persist(n) ELSE UNCHANGED <<disk, mishaps>>
    /\ UNCHANGED <<unlocked, status, pending, op, onion, outside>>

SetMode(m) ==
    /\ ~(net.extreme /\ m # "tor")
    /\ Change([net EXCEPT !.mode = m])
    /\ UNCHANGED check

SetPosture(extreme) ==
    /\ Change(ExtremeLocks([net EXCEPT !.extreme = extreme]))
    /\ UNCHANGED check

SetIsolation(on) ==
    /\ ~(net.extreme /\ ~on)
    /\ Change([net EXCEPT !.isolation = on])
    /\ UNCHANGED check

RequireBridges(on) ==
    /\ unlocked
    /\ Change([net EXCEPT !.require = on])
    /\ check' = NoCheck

----------------------------------------------------------------------------
(* Sending *)

(* retry_pending: the batch is judged once, before its first frame.        *)
RetryPending ==
    IF ~TransportOk \/ ~status THEN UNCHANGED <<check, op>>
    ELSE /\ check' = Checked
         /\ op' = IF Hold \/ pending = 0 THEN NoOp ELSE Begin("retry", pending)

Retry ==                                \* :retry
    /\ Idle /\ unlocked
    /\ RetryPending
    /\ UNCHANGED <<unlocked, status, pending, mishaps, settings, onion, outside>>

(* send_text: the frame is committed to the queue first.                   *)
SendText ==
    /\ Idle /\ unlocked /\ TransportOk /\ status
    /\ pending < MaxPending
    /\ pending' = pending + 1
    /\ check' = Checked
    /\ op' = IF Hold THEN NoOp ELSE Begin("send", 1)
    /\ UNCHANGED <<unlocked, status, mishaps, settings, onion, outside>>

SendWithJitter ==                       \* :jitter is on: held, no check
    /\ Idle /\ unlocked /\ TransportOk /\ status
    /\ pending < MaxPending
    /\ pending' = pending + 1
    /\ UNCHANGED <<unlocked, status, check, op, mishaps, settings, onion, outside>>

(* flush_held_sends for n frames whose jitter has run out                  *)
FlushHeld(n) ==
    /\ Idle /\ unlocked /\ TransportOk /\ status
    /\ check' = Checked
    /\ op' = IF Hold THEN NoOp ELSE Begin("send", n)
    /\ UNCHANGED <<unlocked, status, pending, mishaps, settings, onion, outside>>

(* socks5_handshake and write_framed_u16: Ok needs a Tor that runs; each   *)
(* step may time out or be refused also then.                              *)
SocksMaySend == tor.up

(* One socks5_send of the operation: Ok takes the frame off the queue.     *)
NextFrame(sent) ==
    /\ op.kind \in {"send", "retry"}
    /\ sent => SocksMaySend
    /\ pending' = IF sent THEN pending - 1 ELSE pending
    /\ op' = IF op.left = 1 THEN NoOp ELSE [op EXCEPT !.left = @ - 1]
    /\ UNCHANGED <<unlocked, status, check, mishaps, settings, onion, outside>>

----------------------------------------------------------------------------
(* The onion service *)

(* listen up to start_hidden_service_with_key                              *)
Listen ==
    /\ Idle /\ unlocked /\ TransportOk /\ ~hs
    /\ check' = Checked
    /\ op' = IF Hold THEN NoOp ELSE Begin("listen", 0)
    /\ UNCHANGED <<unlocked, status, pending, mishaps, settings, onion, outside>>

(* ADD_ONION succeeds and the key is saved: the queue is tried at once.    *)
Publish ==
    /\ op.kind = "listen"
    /\ tor.up /\ Authenticates(tor.control)
    /\ hs' = TRUE /\ published' = TRUE /\ disk' = net
    /\ IF ~TransportOk \/ ~status
       THEN op' = NoOp /\ UNCHANGED check
       ELSE RetryPending
    /\ UNCHANGED <<net, unlocked, status, pending, mishaps, outside>>

(* It fails, or the save does and the service is dropped.                  *)
ListenFails ==
    /\ op.kind = "listen"
    /\ op' = NoOp
    /\ UNCHANGED <<unlocked, status, check, pending, mishaps, settings, onion, outside>>

(* recheck_bridges_while_listening and withdraw_onion_for_bridges: to drop *)
(* the service closes its control connection, and Tor forgets the onion.   *)
(* Bug: the service is forgotten with its control connection left open.    *)
RecheckForgets ==
    /\ Idle /\ net.require /\ hs
    /\ check' = Checked
    /\ hs' = ~Hold
    /\ UNCHANGED <<unlocked, status, pending, op, mishaps, settings, published, outside>>

RecheckWhileListening ==
    /\ Idle /\ net.require /\ hs
    /\ check' = Checked
    /\ IF Hold THEN hs' = FALSE /\ published' = FALSE ELSE UNCHANGED onion
    /\ UNCHANGED <<unlocked, status, pending, op, mishaps, settings, outside>>

----------------------------------------------------------------------------
(* The session *)

(* from_persist_bytes                                                      *)
Loaded(n) == ExtremeLocks(n)

(* try_unlock: the settings in state.enc win, and the queue is the one     *)
(* there; under Extreme none was saved.                                    *)
Unlock(n) ==
    /\ Idle /\ ~unlocked
    /\ unlocked' = TRUE
    /\ net' = Loaded(disk)
    /\ disk.extreme => n = 0
    /\ pending' = n
    /\ UNCHANGED <<disk, status, check, op, mishaps, onion, outside>>

(* lock_ui: the settings stay in memory, and so does bridge_check.         *)
Lock ==
    /\ Idle /\ unlocked
    /\ unlocked' = FALSE
    /\ hs' = FALSE /\ published' = FALSE
    /\ Persist(net)
    /\ UNCHANGED <<net, status, check, pending, op, outside>>

(* The process dies, at any moment, and starts again.                      *)
Restart ==
    /\ Mishap
    /\ unlocked' = FALSE /\ status' = Probe
    /\ net' \in {ExtremeLocks(e) : e \in Envs}      \* from_env, until the unlock
    /\ check' = NoCheck /\ op' = NoOp
    /\ hs' = FALSE /\ published' = FALSE
    /\ UNCHANGED <<disk, pending, outside>>

----------------------------------------------------------------------------
(* Tor and time *)

(* Tor reloads or restarts; one that restarted has forgotten the onion.    *)
TorChanges(t, restarted) ==
    /\ t # tor
    /\ tor' = t
    /\ published' = (published /\ t.up /\ ~restarted)
    /\ bridgedAge' = IF t \in BridgedTors THEN 0 ELSE bridgedAge
    /\ UNCHANGED <<net, disk, unlocked, status, check, hs, pending, op, mishaps>>

(* check_tor: when SOCKS answers again the queue is tried.                 *)
CheckTor ==
    /\ Idle /\ status # Probe
    /\ status' = Probe
    /\ IF Probe /\ unlocked /\ pending > 0 /\ TransportOk
       THEN /\ check' = Checked
            /\ op' = IF Hold THEN NoOp ELSE Begin("retry", pending)
       ELSE UNCHANGED <<check, op>>
    /\ UNCHANGED <<unlocked, pending, mishaps, settings, onion, outside>>

Tick ==
    /\ bridgedAge' = IF tor \in BridgedTors THEN 0
                     ELSE Older(bridgedAge, BRIDGE_CHECK_OK + 1)
    /\ check' = CASE check.result = "ok"   -> [check EXCEPT !.age = Older(@, BRIDGE_CHECK_OK)]
                  [] check.result = "err"  -> [check EXCEPT !.age = Older(@, BRIDGE_CHECK_FAIL)]
                  [] check.result = "none" -> check
    /\ UNCHANGED <<tor, net, disk, unlocked, status, hs, published, pending, op, mishaps>>

----------------------------------------------------------------------------
Next ==
    \/ \E m \in {"tor", "i2p"} : SetMode(m)
    \/ \E b \in BOOLEAN : SetPosture(b) \/ SetIsolation(b) \/ RequireBridges(b)
    \/ Retry \/ SendText \/ SendWithJitter
    \/ \E n \in 1..pending : FlushHeld(n)
    \/ \E b \in BOOLEAN : NextFrame(b)
    \/ Listen \/ Publish \/ ListenFails \/ RecheckWhileListening
    \/ \E n \in 0..MaxPending : Unlock(n)
    \/ Lock \/ Restart
    \/ \E t \in Tors, b \in BOOLEAN : TorChanges(t, b)
    \/ CheckTor \/ Tick

Spec == Init /\ [][Next]_vars

(* Every call to Tor has a timeout, the UI loop checks Tor and the bridges *)
(* once before each key it handles, and time passes.                       *)
FairSpec ==
    /\ Spec
    /\ WF_vars(\E b \in BOOLEAN : NextFrame(b)) /\ WF_vars(Publish \/ ListenFails)
    /\ SF_vars(RecheckWhileListening) /\ SF_vars(CheckTor)
    /\ WF_vars(Tick)

----------------------------------------------------------------------------
TypeOK ==
    /\ tor \in Tors
    /\ net \in NetConfig /\ disk \in NetConfig
    /\ unlocked \in BOOLEAN /\ status \in BOOLEAN
    /\ check \in [result : {"none", "ok", "err"}, age : 0..BRIDGE_CHECK_OK]
    /\ hs \in BOOLEAN /\ published \in BOOLEAN
    /\ pending \in 0..MaxPending
    /\ op \in [kind : {"none", "send", "retry", "listen"}, left : 0..MaxPending,
               basis : 0..(BRIDGE_CHECK_OK + 1)]
    /\ bridgedAge \in 0..(BRIDGE_CHECK_OK + 1)
    /\ mishaps \in 0..MaxMishaps

(* "active" is true: when the check passes, every built circuit that can   *)
(* be checked starts at a configured bridge (bridges.rs, module comment).  *)
ActiveIsBridged == tor \in ActiveTors => tor \in BridgedTors

(* An operation that talks to Tor runs in mode tor; if bridges are         *)
(* required they were in use within the life of a passing check before it  *)
(* began; and under Extreme its streams are isolated, whatever settings    *)
(* were loaded, saved, lost in a crash or changed before.                  *)
SendsGated ==
    ~Idle => /\ net.mode = "tor"
             /\ net.require => op.basis <= BRIDGE_CHECK_OK
             /\ net.extreme => StreamsIsolated

(* No onion is left behind: Tor serves it only while an unlocked TUI holds *)
(* the service, over locks, withdrawals and crashes.                       *)
NoOrphanOnion == published => hs /\ unlocked

(* With bridges required, an onion does not stay published over a Tor      *)
(* whose bridges are no longer in use: recheck_bridges_while_listening     *)
(* withdraws it, as ROADMAP.md:95 and :101 say.  THREATMODEL.md:86 still   *)
(* says that a published service is not withdrawn.                         *)
OnionWithdrawn ==
    (published /\ net.require /\ tor \notin BridgedTors)
        ~> (~published \/ ~net.require \/ tor \in BridgedTors)

============================================================================
