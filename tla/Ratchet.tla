------------------------------- MODULE Ratchet -------------------------------
(***************************************************************************)
(* The per-contact double ratchet of src/rust/ratchet.rs, run by two       *)
(* peers that talk over a network which may lose, repeat and reorder       *)
(* frames (every frame ever sent stays in `net` and may be handed to       *)
(* either peer at any time, or never).                                     *)
(*                                                                         *)
(* Key material is symbolic.  A DH public is <<owner, number>>, a DH       *)
(* secret the unordered pair of the two publics, a root key the sequence   *)
(* of the secrets mixed into it, a chain key the place where its chain     *)
(* starts and how often it was advanced.  A message key is the chain key   *)
(* it is derived from, and a frame opens exactly under the key that        *)
(* sealed it (the AEAD covers the whole header).                           *)
(***************************************************************************)
EXTENDS Integers, Sequences, FiniteSets

CONSTANTS
    Low, High,          \* the two peers; Low has the lower static key
    DH_SEND_EVERY,      \* sends on one chain before a send-side DH step
    MAX_SKIP,           \* most keys one skip may store
    MAX_SKIPPED_KEYS,   \* most skipped keys kept per contact
    COUNTER_MAX,        \* u32::MAX
    WireVersion,        \* wire format each peer speaks: 3 has epoch_start, 2 has not
    Expiring,           \* the peers whose chat lines disappear (:ttl is on)
    MaxSends            \* bound: frames each peer sends

Peer == {Low, High}
Other(p) == IF p = Low THEN High ELSE Low

ASSUME PeersDiffer == Low # High
ASSUME LimitsAreNat == /\ DH_SEND_EVERY \in Nat \ {0}
                       /\ MAX_SKIP \in Nat
                       /\ MAX_SKIPPED_KEYS \in Nat
                       /\ COUNTER_MAX \in Nat \ {0}
ASSUME SettingsTyped == /\ WireVersion \in [Peer -> {2, 3}]
                        /\ Expiring \subseteq Peer
                        /\ MaxSends \in [Peer -> Nat]

VARIABLES
    ratchet,    \* ratchet[p]: the DoubleRatchet p keeps for the other peer
    net,        \* every frame sent so far
    opened      \* opened[p]: the frames p decrypted

vars == <<ratchet, net, opened>>

----------------------------------------------------------------------------
(* Symbolic key material *)

Pub == Peer \X Nat
Secret == SUBSET Pub
Root == Seq(Secret)
Chain == [root : Root, label : Peer \cup {"dh"}, idx : Nat]

BootChain(p) == [root |-> <<>>, label |-> p, idx |-> 0]
DhChain(root) == [root |-> root, label |-> "dh", idx |-> 0]
Advance(chain, n) == [chain EXCEPT !.idx = @ + n]

SaturatingInc(n) == IF n = COUNTER_MAX THEN n ELSE n + 1

(* init_directional: one chain per direction, the peer's ephemeral unknown. *)
InitDirectional(p) ==
    [dh_public      |-> <<p, 0>>,
     remote_dh      |-> {},               \* Option<PublicKey>: {} or {public}
     root_key       |-> <<>>,
     chain_key_send |-> BootChain(p),
     chain_key_recv |-> BootChain(Other(p)),
     send_count     |-> 0,
     recv_count     |-> 0,
     sends_since_dh |-> 0,
     skipped_keys   |-> {}]               \* the map, as its (step, key) entries

----------------------------------------------------------------------------
(* Sending *)

KdfRoot(root, pub1, pub2) == Append(root, {pub1, pub2})

(* The ephemeral is drawn fresh, so it is one never used before. *)
(* Bug: the position in the chain is not reset.                            *)
DhRatchetSendKeepsPosition(s) ==
    LET fresh  == <<s.dh_public[1], s.dh_public[2] + 1>>
        remote == CHOOSE r \in s.remote_dh : TRUE
        root   == KdfRoot(s.root_key, fresh, remote)
    IN  [s EXCEPT !.dh_public = fresh,
                  !.root_key = root,
                  !.chain_key_send = DhChain(root)]

DhRatchetSend(s) ==
    LET fresh  == <<s.dh_public[1], s.dh_public[2] + 1>>
        remote == CHOOSE r \in s.remote_dh : TRUE
        root   == KdfRoot(s.root_key, fresh, remote)
    IN  [s EXCEPT !.dh_public = fresh,
                  !.root_key = root,
                  !.chain_key_send = DhChain(root),
                  !.sends_since_dh = 0]

DhDue(s) == s.remote_dh # {} /\ s.sends_since_dh >= DH_SEND_EVERY

BeforeKey(s) == IF DhDue(s) THEN DhRatchetSend(s) ELSE s

(* Bug: the chain does not advance.                                        *)
RatchetSendSameKey(s) ==
    [BeforeKey(s) EXCEPT !.send_count = SaturatingInc(@),
                         !.sends_since_dh = SaturatingInc(@)]

(* The state ratchet_send leaves; its key and number are BeforeKey's. *)
RatchetSend(s) ==
    [BeforeKey(s) EXCEPT !.chain_key_send = Advance(@, 1),
                         !.send_count = SaturatingInc(@),
                         !.sends_since_dh = SaturatingInc(@)]

EpochStart(s) ==
    IF s.sends_since_dh > s.send_count THEN 0 ELSE s.send_count - s.sends_since_dh

SealedFrame(p, s) ==
    [from        |-> p,
     ver         |-> WireVersion[p],
     step        |-> s.send_count,
     epoch_start |-> EpochStart(RatchetSend(s)),
     sender_dh   |-> BeforeKey(s).dh_public,
     key         |-> BeforeKey(s).chain_key_send]

Frame == [from : Peer, ver : {2, 3}, step : Nat, epoch_start : Nat,
          sender_dh : Pub, key : Chain]

----------------------------------------------------------------------------
(* Receiving *)

SkippedKey == [step : Nat, key : Chain]

(* Bug: evicts one too late.                                               *)
NewestAndOneMore(keys) ==
    {e \in keys : Cardinality({d \in keys : d.step > e.step}) <= MAX_SKIPPED_KEYS}

(* What pop_first leaves of a map that outgrew the cap: its highest steps. *)
Newest(keys) ==
    {e \in keys : Cardinality({d \in keys : d.step > e.step}) < MAX_SKIPPED_KEYS}

(* Bug: the key is read and kept.                                          *)
WipeSkippedKeyForgotten(s, step) == s

WipeSkippedKey(s, step) ==
    [s EXCEPT !.skipped_keys = {e \in @ : e.step # step}]

(* Bug: the chain key outlives its message key.                            *)
NextRecvKeyKept(s) == [s EXCEPT !.recv_count = SaturatingInc(@)]

NextRecvKey(s) == [s EXCEPT !.chain_key_recv = Advance(@, 1),
                            !.recv_count = SaturatingInc(@)]

CanSkip(s, until) == s.recv_count <= until /\ until - s.recv_count <= MAX_SKIP

(* The loop of skip_recv_until.  The steps it stores are above every step  *)
(* stored before (StoreWithinLimits), so no entry is replaced, and evicting *)
(* once at the end keeps the same keys.                                    *)
PassedOver(s, until) ==
    {[step |-> n, key |-> Advance(s.chain_key_recv, n - s.recv_count)] :
        n \in s.recv_count .. (until - 1)}

SkipRecvUntil(s, until) ==
    [s EXCEPT !.chain_key_recv = Advance(@, until - s.recv_count),
              !.recv_count = until,
              !.skipped_keys = Newest(@ \cup PassedOver(s, until))]

(* Bug: the root does not move on.                                         *)
DhRatchetRecvOldRoot(s, remote) ==
    [s EXCEPT !.chain_key_recv = DhChain(KdfRoot(s.root_key, s.dh_public, remote)),
              !.remote_dh = {remote}]

DhRatchetRecv(s, remote) ==
    LET root == KdfRoot(s.root_key, s.dh_public, remote)
    IN  [s EXCEPT !.root_key = root,
                  !.chain_key_recv = DhChain(root),
                  !.remote_dh = {remote}]

(* The early returns of recv_inner, after the look-up of a skipped key. *)
Refused(s, f) ==
    \/ s.recv_count = COUNTER_MAX
    \/ f.sender_dh = s.dh_public        \* reflected frame
    \/ f.step < s.recv_count            \* stale or replayed frame

HasSkippedKey(s, f) == \E e \in s.skipped_keys : e.step = f.step
SameChain(s, f) == s.remote_dh \subseteq {f.sender_dh}

(* commit_if_opens: t is the scratch copy after `advance`. *)
Opens(t, f) == t.chain_key_recv = f.key

OnSameChain(s, f) ==
    [SkipRecvUntil(s, f.step) EXCEPT !.remote_dh = {f.sender_dh}]

(* Bug: the rest of the old chain is not stored.                           *)
OnNewChainForgetsOld(s, f, first) ==
    SkipRecvUntil([DhRatchetRecv(s, f.sender_dh) EXCEPT !.recv_count = first], f.step)

(* Skip the old chain up to `first`, turn the DH ratchet, skip to the step. *)
OnNewChain(s, f, first) ==
    SkipRecvUntil(DhRatchetRecv(SkipRecvUntil(s, first), f.sender_dh), f.step)

CanReachOnNewChain(s, f, first) ==
    /\ first <= f.step
    /\ CanSkip(s, first)
    /\ f.step - first <= MAX_SKIP

(* Where the new chain may start: the header says (v3), or each of the     *)
(* last DH_SEND_EVERY positions is tried (v2).                             *)
EpochCandidates(s, f) ==
    IF f.ver = 3
    THEN {f.epoch_start}
    ELSE {n \in s.recv_count .. f.step : f.step - n < DH_SEND_EVERY}

OpeningStarts(s, f) ==
    {first \in EpochCandidates(s, f) :
        CanReachOnNewChain(s, f, first) /\ Opens(OnNewChain(s, f, first), f)}

OpensSkipped(s, f) == [step |-> f.step, key |-> f.key] \in s.skipped_keys

OpensOnSameChain(s, f) ==
    /\ ~HasSkippedKey(s, f) /\ ~Refused(s, f) /\ SameChain(s, f)
    /\ CanSkip(s, f.step) /\ Opens(OnSameChain(s, f), f)

OpensOnNewChain(s, f) ==
    /\ ~HasSkippedKey(s, f) /\ ~Refused(s, f) /\ ~SameChain(s, f)
    /\ OpeningStarts(s, f) # {}

CanOpen(s, f) == OpensSkipped(s, f) \/ OpensOnSameChain(s, f) \/ OpensOnNewChain(s, f)

----------------------------------------------------------------------------
(* At rest: the ratchet is kept as bytes in the session and in state.enc.  *)

ToBytes(s) ==
    <<2, s.dh_public, s.remote_dh, s.root_key, s.chain_key_send, s.chain_key_recv,
      s.send_count, s.recv_count, s.sends_since_dh, s.skipped_keys>>

(* The fields in their order; a blob of version 1 leaves one of them at 0. *)
FromBytes(blob) ==
    [dh_public      |-> blob[2], remote_dh |-> blob[3], root_key |-> blob[4],
     chain_key_send |-> blob[5], chain_key_recv |-> blob[6],
     send_count     |-> blob[7], recv_count |-> blob[8],
     sends_since_dh |-> IF blob[1] >= 2 THEN blob[9] ELSE 0,
     skipped_keys   |-> IF blob[1] >= 2 THEN blob[10] ELSE blob[9]]

----------------------------------------------------------------------------
(* Actions *)

(* Both sides made their root of the same secret and the same salt, the    *)
(* invite's, or none after an exchange of links.                           *)
Init == /\ ratchet = [p \in Peer |-> InitDirectional(p)]
        /\ net = {}
        /\ opened = [p \in Peer |-> {}]

Sent(p) == {f \in net : f.from = p}

Send(p) ==
    /\ Cardinality(Sent(p)) < MaxSends[p]
    /\ net' = net \cup {SealedFrame(p, ratchet[p])}
    /\ ratchet' = [ratchet EXCEPT ![p] = RatchetSend(@)]
    /\ UNCHANGED opened

(* p decrypts f and keeps `s`, the state the receive left. *)
Commit(p, f, s) ==
    /\ ratchet' = [ratchet EXCEPT ![p] = s]
    /\ opened' = [opened EXCEPT ![p] = @ \cup {f}]
    /\ UNCHANGED net

ReceiveSkipped(p, f) ==
    /\ OpensSkipped(ratchet[p], f)
    /\ Commit(p, f, WipeSkippedKey(ratchet[p], f.step))

ReceiveSameChain(p, f) ==
    /\ OpensOnSameChain(ratchet[p], f)
    /\ Commit(p, f, NextRecvKey(OnSameChain(ratchet[p], f)))

(* k counts up from 0, so the latest start that opens is the one taken. *)
ReceiveNewChain(p, f) ==
    /\ OpensOnNewChain(ratchet[p], f)
    /\ \E first \in OpeningStarts(ratchet[p], f) :
          /\ \A other \in OpeningStarts(ratchet[p], f) : other <= first
          /\ Commit(p, f, NextRecvKey(OnNewChain(ratchet[p], f, first)))

(* Any other frame is refused: the scratch copy is dropped. *)
Reject(p, f) ==
    /\ ~CanOpen(ratchet[p], f)
    /\ UNCHANGED vars

Receive(p, f) ==
    ReceiveSkipped(p, f) \/ ReceiveSameChain(p, f) \/ ReceiveNewChain(p, f)

(* expire_messages: a chat line carries the step of its message, be it one *)
(* received or one sent, and its expiry wipes the skipped key of that      *)
(* step.                                                                   *)
LineSteps(p) == {f.step : f \in opened[p]} \cup {f.step : f \in Sent(p)}

ExpireLine(p, step) ==
    /\ p \in Expiring
    /\ step \in LineSteps(p)
    /\ ratchet' = [ratchet EXCEPT ![p] = WipeSkippedKey(@, step)]
    /\ UNCHANGED <<net, opened>>

(* Every operation reads the ratchet from its bytes and writes it back,    *)
(* and so do a save and the unlock after it.                               *)
Reload(p) ==
    /\ ratchet' = [ratchet EXCEPT ![p] = FromBytes(ToBytes(@))]
    /\ UNCHANGED <<net, opened>>

Next == \E p \in Peer :
            \/ Send(p) \/ Reload(p)
            \/ \E f \in net : Receive(p, f) \/ Reject(p, f)
            \/ \E step \in LineSteps(p) : ExpireLine(p, step)

Spec == Init /\ [][Next]_vars

----------------------------------------------------------------------------
(* Turn-taking: the schedule under which the shared root never forks.  A   *)
(* peer sends only when it has read everything the other sent, and frames  *)
(* arrive in order.                                                        *)

Unread(p) == Sent(Other(p)) \ opened[p]
IsNext(p, f) == f \in Unread(p) /\ \A g \in Unread(p) : f.step <= g.step

TurnSend(p) == Unread(p) = {} /\ Send(p)
TurnReceive(p) == \E f \in Unread(p) : IsNext(p, f) /\ Receive(p, f)

TurnNext == \E p \in Peer : TurnSend(p) \/ TurnReceive(p)

(* drain_incoming runs in every round of the UI loop. *)
TurnSpec == /\ Init /\ [][TurnNext]_vars
            /\ \A p \in Peer : WF_vars(TurnReceive(p))

----------------------------------------------------------------------------
(* Properties *)

Counter == 0 .. COUNTER_MAX

RatchetState ==
    [dh_public : Pub, remote_dh : SUBSET Pub, root_key : Root,
     chain_key_send : Chain, chain_key_recv : Chain,
     send_count : Counter, recv_count : Counter, sends_since_dh : Counter,
     skipped_keys : SUBSET SkippedKey]

(* Type invariant: counters and header steps fit a u32. *)
TypeOK ==
    /\ ratchet \in [Peer -> RatchetState]
    /\ \A p \in Peer : \A r \in ratchet[p].remote_dh : ratchet[p].remote_dh = {r}
    /\ net \subseteq Frame
    /\ \A f \in net : f.step \in Counter /\ f.epoch_start \in Counter
    /\ opened \in [Peer -> SUBSET net]

(* store_skipped_key and skip_recv_until: a skipped key is kept once per   *)
(* step and only for steps already passed, and there are never more of     *)
(* them than the cap, whatever gaps the network opens.                     *)
StoreWithinLimits ==
    \A p \in Peer :
        LET keys == ratchet[p].skipped_keys
        IN  /\ Cardinality(keys) <= MAX_SKIPPED_KEYS
            /\ \A e \in keys : e.step < ratchet[p].recv_count
            /\ \A d, e \in keys : d.step = e.step => d = e

(* try_recv_decrypt_at: "A frame for a step that was already consumed is   *)
(* refused".  However late a duplicate of a frame comes, on whichever path *)
(* of recv_inner, it does not open a second time.                          *)
ReplayRefused == \A p \in Peer : \A f \in opened[p] : ~CanOpen(ratchet[p], f)

(* ratchet_send never hands out the same message key twice, on either side *)
(* and across DH epochs.                                                   *)
KeysSealOnce == \A f, g \in net : f.key = g.key => f = g

(* Keys that can still be taken from the chains and the store of s. *)
HeldKey(s, key) ==
    \/ \E e \in s.skipped_keys : e.key = key
    \/ \E c \in {s.chain_key_send, s.chain_key_recv} :
          c.root = key.root /\ c.label = key.label /\ c.idx <= key.idx

(* "a late frame opens with its stored key, which is then erased": once a  *)
(* frame was read neither peer's chains or skipped keys yield its key.     *)
ReadKeysErased ==
    \A p, q \in Peer : \A f \in opened[p] : ~HeldKey(ratchet[q], f.key)

(* Lost and reordered frames are tolerated: a frame the receiver passed    *)
(* over, or one ahead of it on the chain it receives on, still opens.  The *)
(* one passed over is at most MAX_SKIPPED_KEYS steps back, and no line of  *)
(* p that has its number can have expired; the sender's counter has not    *)
(* come to its end, where steps no longer tell frames apart.               *)
LateFramesOpen ==
    \A p \in Peer : \A f \in Unread(p) :
        (/\ ratchet[Other(p)].send_count < COUNTER_MAX
         /\ \/ /\ f.step < ratchet[p].recv_count
               /\ ratchet[p].recv_count - f.step <= MAX_SKIPPED_KEYS
               /\ p \notin Expiring \/ f.step \notin LineSteps(p)
            \/ /\ f.step >= ratchet[p].recv_count
               /\ f.key.root = ratchet[p].chain_key_recv.root
               /\ f.step - ratchet[p].recv_count <= MAX_SKIP)
        => CanOpen(ratchet[p], f)

(* Wire v3 in its own words: a receiver that missed the frames before f,   *)
(* "even a whole epoch", skips the missing steps and opens f, unless f is  *)
(* too far ahead.  (The receiver has read the peer before.)                *)
LostRunsRecovered ==
    \A p \in Peer : \A f \in Unread(p) :
        (/\ ratchet[p].remote_dh # {}
         /\ f.step >= ratchet[p].recv_count
         /\ f.step - ratchet[p].recv_count <= MAX_SKIP)
        => CanOpen(ratchet[p], f)

(* The next frame of the peer, in order and with nothing lost, opens: the  *)
(* recv-side DH step matches the sender's.                                 *)
NextFrameOpens ==
    \A p \in Peer : \A f \in Unread(p) :
        (IsNext(p, f) /\ ratchet[p].recv_count < COUNTER_MAX) => CanOpen(ratchet[p], f)

(* Turn by turn, everything sent is read. *)
EverythingRead == \A p \in Peer : []<>(Unread(p) = {})

============================================================================
