---------------------------- MODULE RatchetProofs ----------------------------
(***************************************************************************)
(* The properties of Ratchet, for every value of its constants: limits of  *)
(* the store, replay, keys used once and keys erased.  RInv says what is   *)
(* passed and what is stored, SealInv where the sending chains are,        *)
(* ErasedInv that what was read is behind what is held, OriginInv whose    *)
(* chains are whose, LateInv that frames are in the order of their epochs  *)
(* and what was passed over is stored; and, under turn-taking, TurnInv     *)
(* that between turns the two roots differ by the DH steps of the frames   *)
(* not read yet and by nothing else.                                       *)
(***************************************************************************)
EXTENDS Ratchet, FiniteSetTheorems, FunctionTheorems, SequenceTheorems, WellFoundedInduction,
        TLAPS

----------------------------------------------------------------------------
(* What the operators keep and what they change *)

(* Option<PublicKey>: at most one public. *)
IsOption(S) == \A r \in S : S = {r}

LEMMA PeerFacts ==
    \A p \in Peer : Other(p) \in Peer /\ Other(p) # p /\ Other(Other(p)) = p
BY PeersDiffer DEF Peer, Other

(* Advancing a chain key moves its index and nothing else. *)
LEMMA AdvanceFacts ==
    ASSUME NEW c \in Chain, NEW n \in Nat
    PROVE  /\ Advance(c, n) \in Chain
           /\ Advance(c, n).root = c.root
           /\ Advance(c, n).label = c.label
           /\ Advance(c, n).idx = c.idx + n
BY DEF Advance, Chain

(* A DH step appends one secret to the root. *)
LEMMA KdfFacts ==
    ASSUME NEW root \in Root, NEW a \in Pub, NEW b \in Pub
    PROVE  /\ KdfRoot(root, a, b) \in Root
           /\ DhChain(KdfRoot(root, a, b)) \in Chain
           /\ Len(KdfRoot(root, a, b)) = Len(root) + 1
           /\ KdfRoot(root, a, b)[Len(root) + 1] = {a, b}
<1>1. {a, b} \in Secret
  BY DEF Secret
<1> QED
  BY <1>1 DEF KdfRoot, Root, DhChain, Chain

LEMMA CounterFacts ==
    /\ \A n \in Counter : n \in Nat /\ SaturatingInc(n) \in Counter
    /\ \A n \in Counter : n <= SaturatingInc(n)
    /\ \A n \in Counter : n < SaturatingInc(n) \/ SaturatingInc(n) = COUNTER_MAX
BY LimitsAreNat DEF Counter, SaturatingInc

(* The send side leaves the receive side alone. *)
LEMMA BeforeKeyFacts ==
    ASSUME NEW s \in RatchetState, IsOption(s.remote_dh)
    PROVE  /\ BeforeKey(s) \in RatchetState
           /\ BeforeKey(s).remote_dh = s.remote_dh
           /\ BeforeKey(s).recv_count = s.recv_count
           /\ BeforeKey(s).send_count = s.send_count
           /\ BeforeKey(s).skipped_keys = s.skipped_keys
           /\ BeforeKey(s).chain_key_recv = s.chain_key_recv
<1>1. CASE ~DhDue(s)
  BY <1>1 DEF BeforeKey
<1>2. CASE DhDue(s)
  <2> DEFINE fresh == <<s.dh_public[1], s.dh_public[2] + 1>>
             remote == CHOOSE r \in s.remote_dh : TRUE
             root == KdfRoot(s.root_key, fresh, remote)
  <2>1. remote \in Pub /\ fresh \in Pub /\ s.root_key \in Root
    BY <1>2 DEF DhDue, RatchetState, Pub
  <2>2. root \in Root /\ DhChain(root) \in Chain
    BY <2>1, KdfFacts
  <2>3. BeforeKey(s) = [s EXCEPT !.dh_public = fresh, !.root_key = root,
                                 !.chain_key_send = DhChain(root), !.sends_since_dh = 0]
    BY <1>2 DEF BeforeKey, DhRatchetSend
  <2>4. 0 \in Counter
    BY LimitsAreNat DEF Counter
  <2> HIDE DEF fresh, remote, root
  <2> QED
    BY <2>1, <2>2, <2>3, <2>4 DEF RatchetState
<1> QED
  BY <1>1, <1>2

LEMMA RatchetSendFacts ==
    ASSUME NEW s \in RatchetState, IsOption(s.remote_dh)
    PROVE  /\ RatchetSend(s) \in RatchetState
           /\ RatchetSend(s).remote_dh = s.remote_dh
           /\ RatchetSend(s).recv_count = s.recv_count
           /\ RatchetSend(s).skipped_keys = s.skipped_keys
           /\ RatchetSend(s).chain_key_send = Advance(BeforeKey(s).chain_key_send, 1)
           /\ RatchetSend(s).chain_key_recv = s.chain_key_recv
           /\ RatchetSend(s).root_key = BeforeKey(s).root_key
           /\ RatchetSend(s).dh_public = BeforeKey(s).dh_public
<1> DEFINE t == BeforeKey(s)
<1>1. /\ t \in RatchetState /\ t.remote_dh = s.remote_dh
      /\ t.recv_count = s.recv_count /\ t.skipped_keys = s.skipped_keys
      /\ t.chain_key_recv = s.chain_key_recv
  BY BeforeKeyFacts
<1>2. RatchetSend(s) = [t EXCEPT !.chain_key_send = Advance(t.chain_key_send, 1),
                                 !.send_count = SaturatingInc(t.send_count),
                                 !.sends_since_dh = SaturatingInc(t.sends_since_dh)]
  BY DEF RatchetSend
<1>3. Advance(t.chain_key_send, 1) \in Chain
  BY <1>1, AdvanceFacts DEF RatchetState
<1>4. SaturatingInc(t.send_count) \in Counter /\ SaturatingInc(t.sends_since_dh) \in Counter
  BY <1>1, CounterFacts DEF RatchetState
<1> HIDE DEF t
<1>5. RatchetSend(s) \in RatchetState
  BY <1>1, <1>2, <1>3, <1>4 DEF RatchetState
<1>6. /\ RatchetSend(s).remote_dh = t.remote_dh
      /\ RatchetSend(s).recv_count = t.recv_count
      /\ RatchetSend(s).skipped_keys = t.skipped_keys
      /\ RatchetSend(s).chain_key_send = Advance(t.chain_key_send, 1)
      /\ RatchetSend(s).chain_key_recv = t.chain_key_recv
      /\ RatchetSend(s).root_key = t.root_key
      /\ RatchetSend(s).dh_public = t.dh_public
  BY <1>1, <1>2 DEF RatchetState
<1> QED
  BY <1>1, <1>5, <1>6 DEF t

(* A frame on the wire is well typed. *)
LEMMA SealedFrameFacts ==
    ASSUME NEW s \in RatchetState, IsOption(s.remote_dh), NEW p \in Peer
    PROVE  /\ SealedFrame(p, s) \in Frame
           /\ SealedFrame(p, s).step \in Counter
           /\ SealedFrame(p, s).epoch_start \in Counter
<1>1. EpochStart(RatchetSend(s)) \in Counter
  <2>1. RatchetSend(s) \in RatchetState
    BY RatchetSendFacts
  <2>2. RatchetSend(s).send_count \in Counter /\ RatchetSend(s).sends_since_dh \in Counter
    BY <2>1 DEF RatchetState
  <2> QED
    BY <2>2, LimitsAreNat DEF EpochStart, Counter
<1>2. BeforeKey(s).dh_public \in Pub /\ BeforeKey(s).chain_key_send \in Chain
  BY BeforeKeyFacts DEF RatchetState
<1>3. s.send_count \in Counter
  BY DEF RatchetState
<1>4. WireVersion[p] \in {2, 3}
  BY SettingsTyped
<1> QED
  BY <1>1, <1>2, <1>3, <1>4, CounterFacts DEF SealedFrame, Frame

----------------------------------------------------------------------------
(* The skipped-key store *)

(* A set of naturals that is not empty has a least element. *)
LEMMA LeastStep ==
    ASSUME NEW T, T \subseteq Nat, T # {}
    PROVE  \E x \in T : \A y \in T : x <= y
<1> DEFINE R == OpToRel(<, Nat)
<1>1. IsWellFoundedOn(R, Nat)
  BY NatLessThanWellFounded
<1>2. \A x, y \in Nat : <<y, x>> \in R <=> y < x
  BY DEF OpToRel
<1> HIDE DEF R
<1>3. PICK x \in T : \A y \in T : ~(<<y, x>> \in R)
  BY <1>1, WFMin
<1>4. ASSUME NEW y \in T PROVE x <= y
  <2>1. x \in Nat /\ y \in Nat /\ <<y, x>> \notin R
    BY <1>3
  <2>2. ~(y < x)
    BY <1>2, <2>1
  <2> QED
    BY <2>1, <2>2
<1> QED
  BY <1>4

UniqueSteps(keys) == \A d, e \in keys : d.step = e.step => d = e

(* Evicting the lowest steps leaves at most MAX_SKIPPED_KEYS keys. *)
LEMMA NewestBounded ==
    ASSUME NEW keys, keys \subseteq SkippedKey, IsFiniteSet(keys), UniqueSteps(keys)
    PROVE  /\ Newest(keys) \subseteq keys
           /\ IsFiniteSet(Newest(keys))
           /\ Cardinality(Newest(keys)) <= MAX_SKIPPED_KEYS
<1> DEFINE K == Newest(keys)
<1>1. K \subseteq keys
  BY DEF Newest
<1>2. IsFiniteSet(K) /\ Cardinality(K) \in Nat
  BY <1>1, FS_Subset, FS_CardinalityType
<1>3. CASE K = {}
  BY <1>3, FS_EmptySet, LimitsAreNat
<1>4. CASE K # {}
  <2> DEFINE T == {e.step : e \in K}
  <2>1. T \subseteq Nat /\ T # {}
    BY <1>1, <1>4 DEF SkippedKey
  <2>2. PICK x \in T : \A y \in T : x <= y
    BY <2>1, LeastStep
  <2>3. PICK e \in K : x = e.step
    BY <2>2
  <2> DEFINE above == {d \in keys : d.step > e.step}
  <2>4. K \ {e} \subseteq above
    <3> SUFFICES ASSUME NEW d \in K, d # e PROVE d \in keys /\ d.step > e.step
      OBVIOUS
    <3>1. d \in keys /\ e \in keys /\ d.step \in Nat /\ e.step \in Nat
      BY <1>1 DEF SkippedKey
    <3>2. d.step # e.step
      BY <3>1 DEF UniqueSteps
    <3>3. e.step <= d.step
      BY <2>2, <2>3
    <3> QED
      BY <3>1, <3>2, <3>3
  <2>5. IsFiniteSet(above) /\ Cardinality(above) \in Nat
    <3>1. above \subseteq keys
      OBVIOUS
    <3> QED
      BY <3>1, FS_Subset, FS_CardinalityType
  <2>6. Cardinality(above) < MAX_SKIPPED_KEYS
    BY DEF Newest
  <2>7. IsFiniteSet(K \ {e}) /\ Cardinality(K \ {e}) <= Cardinality(above)
    BY <2>4, <2>5, FS_Subset
  <2>8. Cardinality(K \ {e}) = Cardinality(K) - 1
    BY <1>2, FS_RemoveElement
  <2> HIDE DEF above
  <2> QED
    BY <1>2, <2>5, <2>6, <2>7, <2>8, LimitsAreNat, <1>1
<1> QED
  BY <1>1, <1>2, <1>3, <1>4

(* The store part of the inductive invariant, for one ratchet. *)
StoreOK(s) ==
    /\ IsFiniteSet(s.skipped_keys)
    /\ Cardinality(s.skipped_keys) <= MAX_SKIPPED_KEYS
    /\ \A e \in s.skipped_keys : e.step < s.recv_count
    /\ UniqueSteps(s.skipped_keys)

(* Skipping moves the receive chain and stores keys of the steps between. *)
LEMMA SkipFacts ==
    ASSUME NEW s \in RatchetState, StoreOK(s),
           NEW until \in Counter, s.recv_count <= until
    PROVE  /\ SkipRecvUntil(s, until) \in RatchetState
           /\ SkipRecvUntil(s, until).recv_count = until
           /\ SkipRecvUntil(s, until).remote_dh = s.remote_dh
           /\ SkipRecvUntil(s, until).dh_public = s.dh_public
           /\ SkipRecvUntil(s, until).root_key = s.root_key
           /\ SkipRecvUntil(s, until).chain_key_send = s.chain_key_send
           /\ SkipRecvUntil(s, until).chain_key_recv
                 = Advance(s.chain_key_recv, until - s.recv_count)
           /\ \A e \in SkipRecvUntil(s, until).skipped_keys :
                 e \in s.skipped_keys \/ s.recv_count <= e.step
           /\ StoreOK(SkipRecvUntil(s, until))
<1> DEFINE t == SkipRecvUntil(s, until)
           new == PassedOver(s, until)
           keys == s.skipped_keys \cup new
           chain == Advance(s.chain_key_recv, until - s.recv_count)
<1>1. /\ s.recv_count \in Nat /\ until \in Nat /\ s.chain_key_recv \in Chain
      /\ s.skipped_keys \subseteq SkippedKey
  BY CounterFacts DEF RatchetState
<1>2. chain \in Chain
  BY <1>1, AdvanceFacts
<1>3. \A e \in new : e \in SkippedKey /\ s.recv_count <= e.step /\ e.step < until
  <2> SUFFICES ASSUME NEW n \in s.recv_count .. (until - 1)
               PROVE  LET e == [step |-> n, key |-> Advance(s.chain_key_recv, n - s.recv_count)]
                      IN  e \in SkippedKey /\ s.recv_count <= e.step /\ e.step < until
    BY DEF PassedOver
  <2>1. n \in Nat /\ n - s.recv_count \in Nat /\ s.recv_count <= n /\ n < until
    BY <1>1
  <2>2. Advance(s.chain_key_recv, n - s.recv_count) \in Chain
    BY <1>1, <2>1, AdvanceFacts
  <2> QED
    BY <2>1, <2>2 DEF SkippedKey
<1>4. keys \subseteq SkippedKey
  BY <1>1, <1>3
<1>5. IsFiniteSet(new)
  <2>1. IsFiniteSet(s.recv_count .. (until - 1))
    BY <1>1, FS_Interval
  <2> DEFINE f == [n \in s.recv_count .. (until - 1) |->
                     [step |-> n, key |-> Advance(s.chain_key_recv, n - s.recv_count)]]
  <2>2. f \in Surjection(s.recv_count .. (until - 1), new)
    BY DEF Surjection, PassedOver
  <2> QED
    BY <2>1, <2>2, FS_Surjection
<1>6. UniqueSteps(keys)
  <2> SUFFICES ASSUME NEW d \in keys, NEW e \in keys, d.step = e.step PROVE d = e
    BY DEF UniqueSteps
  <2>1. \A x \in keys : x.step \in Nat
    BY <1>4 DEF SkippedKey
  <2>2. CASE d \in s.skipped_keys /\ e \in s.skipped_keys
    BY <2>2 DEF StoreOK, UniqueSteps
  <2>3. CASE d \in new /\ e \in new
    BY <2>3 DEF PassedOver
  <2>4. CASE d \in new /\ e \in s.skipped_keys
    BY <2>4, <1>1, <1>3, <2>1 DEF StoreOK
  <2>5. CASE e \in new /\ d \in s.skipped_keys
    BY <2>5, <1>1, <1>3, <2>1 DEF StoreOK
  <2> QED
    BY <2>2, <2>3, <2>4, <2>5
<1>7. IsFiniteSet(keys)
  BY <1>5, FS_Union DEF StoreOK
<1>8. /\ Newest(keys) \subseteq keys /\ IsFiniteSet(Newest(keys))
      /\ Cardinality(Newest(keys)) <= MAX_SKIPPED_KEYS
  BY <1>4, <1>6, <1>7, NewestBounded
<1>9. t = [s EXCEPT !.chain_key_recv = chain, !.recv_count = until,
                    !.skipped_keys = Newest(keys)]
  BY DEF SkipRecvUntil
<1> HIDE DEF new, keys, chain, t
<1>10. /\ t \in RatchetState /\ t.recv_count = until /\ t.skipped_keys = Newest(keys)
       /\ t.remote_dh = s.remote_dh /\ t.dh_public = s.dh_public
       /\ t.root_key = s.root_key /\ t.chain_key_send = s.chain_key_send
       /\ t.chain_key_recv = chain
  BY <1>2, <1>4, <1>8, <1>9 DEF RatchetState
<1>11. \A e \in Newest(keys) : e \in s.skipped_keys \/ e \in new
  BY <1>8 DEF keys
<1>12. \A e \in Newest(keys) : e.step < until
  <2> TAKE e \in Newest(keys)
  <2>1. CASE e \in new
    BY <1>3, <2>1
  <2>2. CASE e \in s.skipped_keys
    BY <1>1, <2>2 DEF StoreOK, SkippedKey
  <2> QED
    BY <1>11, <2>1, <2>2
<1>13. UniqueSteps(Newest(keys))
  BY <1>6, <1>8 DEF UniqueSteps
<1>14. StoreOK(t)
  BY <1>8, <1>10, <1>12, <1>13 DEF StoreOK
<1> QED
  BY <1>3, <1>10, <1>11, <1>14 DEF t, chain

----------------------------------------------------------------------------
(* One successful receive *)

(* What a receive that opens f may do to a ratchet: s before, t after. *)
RecvStep(s, t, f) ==
    /\ t \in RatchetState
    /\ IsOption(t.remote_dh)
    /\ StoreOK(t)
    /\ s.recv_count <= t.recv_count
    /\ f.step < t.recv_count \/ t.recv_count = COUNTER_MAX
    /\ \A e \in t.skipped_keys : e \in s.skipped_keys \/ s.recv_count <= e.step
    /\ \A e \in t.skipped_keys : e.step # f.step
    /\ t.chain_key_send = s.chain_key_send
    /\ t.dh_public = s.dh_public
    /\ t.root_key = s.root_key \/ t.root_key = f.key.root
    /\ t.remote_dh \subseteq s.remote_dh \cup {f.sender_dh}

IsFrame(f) == f \in Frame /\ f.step \in Counter /\ f.epoch_start \in Counter

LEMMA NextRecvKeyFacts ==
    ASSUME NEW s \in RatchetState, StoreOK(s)
    PROVE  LET t == NextRecvKey(s)
           IN  /\ t \in RatchetState
               /\ StoreOK(t)
               /\ t.recv_count = SaturatingInc(s.recv_count)
               /\ t.skipped_keys = s.skipped_keys
               /\ t.chain_key_send = s.chain_key_send
               /\ t.dh_public = s.dh_public
               /\ t.root_key = s.root_key
               /\ t.remote_dh = s.remote_dh
<1> DEFINE t == NextRecvKey(s)
<1>1. Advance(s.chain_key_recv, 1) \in Chain
  BY AdvanceFacts DEF RatchetState
<1>2. /\ SaturatingInc(s.recv_count) \in Counter /\ s.recv_count \in Nat
      /\ SaturatingInc(s.recv_count) \in Nat
      /\ s.recv_count <= SaturatingInc(s.recv_count)
  BY CounterFacts DEF RatchetState
<1>3. t = [s EXCEPT !.chain_key_recv = Advance(s.chain_key_recv, 1),
                    !.recv_count = SaturatingInc(s.recv_count)]
  BY DEF NextRecvKey
<1> HIDE DEF t
<1>4. /\ t \in RatchetState
      /\ t.recv_count = SaturatingInc(s.recv_count)
      /\ t.skipped_keys = s.skipped_keys
      /\ t.chain_key_send = s.chain_key_send
      /\ t.dh_public = s.dh_public
      /\ t.root_key = s.root_key
      /\ t.remote_dh = s.remote_dh
  BY <1>1, <1>2, <1>3 DEF RatchetState
<1>5. \A e \in s.skipped_keys : e.step < t.recv_count
  <2> TAKE e \in s.skipped_keys
  <2>1. e.step \in Nat /\ e.step < s.recv_count
    BY DEF StoreOK, RatchetState, SkippedKey
  <2> QED
    BY <1>2, <1>4, <2>1
<1>6. StoreOK(t)
  BY <1>4, <1>5 DEF StoreOK
<1> QED
  BY <1>4, <1>6 DEF t

LEMMA SkippedStep ==
    ASSUME NEW s \in RatchetState, IsOption(s.remote_dh), StoreOK(s),
           NEW f, IsFrame(f), OpensSkipped(s, f)
    PROVE  RecvStep(s, WipeSkippedKey(s, f.step), f)
<1> DEFINE keys == {e \in s.skipped_keys : e.step # f.step}
           t == WipeSkippedKey(s, f.step)
<1>1. t = [s EXCEPT !.skipped_keys = keys]
  BY DEF WipeSkippedKey
<1>2. keys \subseteq s.skipped_keys
  OBVIOUS
<1>3. /\ IsFiniteSet(keys) /\ Cardinality(keys) <= Cardinality(s.skipped_keys)
      /\ Cardinality(keys) \in Nat /\ Cardinality(s.skipped_keys) \in Nat
  BY <1>2, FS_Subset, FS_CardinalityType DEF StoreOK
<1>4. \A e \in keys : e.step # f.step
  OBVIOUS
<1>5. f.step < s.recv_count
  BY DEF OpensSkipped, StoreOK
<1> HIDE DEF keys, t
<1>6. /\ t \in RatchetState /\ t.skipped_keys = keys /\ t.recv_count = s.recv_count
      /\ t.remote_dh = s.remote_dh /\ t.chain_key_send = s.chain_key_send
      /\ t.dh_public = s.dh_public /\ t.root_key = s.root_key
  BY <1>1, <1>2 DEF RatchetState
<1>7. StoreOK(t)
  BY <1>2, <1>3, <1>6, LimitsAreNat DEF StoreOK, UniqueSteps
<1>8. s.recv_count \in Nat
  BY CounterFacts DEF RatchetState
<1> QED
  BY <1>2, <1>4, <1>5, <1>6, <1>7, <1>8 DEF RecvStep, t

LEMMA SameChainStep ==
    ASSUME NEW s \in RatchetState, IsOption(s.remote_dh), StoreOK(s),
           NEW f, IsFrame(f), OpensOnSameChain(s, f)
    PROVE  RecvStep(s, NextRecvKey(OnSameChain(s, f)), f)
<1> DEFINE u == SkipRecvUntil(s, f.step)
           v == OnSameChain(s, f)
           t == NextRecvKey(v)
<1>1. f.step \in Counter /\ s.recv_count <= f.step /\ f.sender_dh \in Pub
  BY DEF IsFrame, OpensOnSameChain, CanSkip, Frame
<1>2. /\ u \in RatchetState /\ u.recv_count = f.step
      /\ u.remote_dh = s.remote_dh /\ u.dh_public = s.dh_public
      /\ u.root_key = s.root_key /\ u.chain_key_send = s.chain_key_send
      /\ \A e \in u.skipped_keys : e \in s.skipped_keys \/ s.recv_count <= e.step
      /\ StoreOK(u)
  BY <1>1, SkipFacts
<1>3. v = [u EXCEPT !.remote_dh = {f.sender_dh}]
  BY DEF OnSameChain
<1> HIDE DEF u, v
<1>4. /\ v \in RatchetState /\ v.remote_dh = {f.sender_dh}
      /\ v.recv_count = u.recv_count /\ v.skipped_keys = u.skipped_keys
      /\ v.chain_key_send = u.chain_key_send
      /\ v.dh_public = u.dh_public /\ v.root_key = u.root_key
  BY <1>1, <1>2, <1>3 DEF RatchetState
<1>5. StoreOK(v)
  BY <1>2, <1>4 DEF StoreOK
<1>6. /\ t \in RatchetState /\ StoreOK(t)
      /\ t.recv_count = SaturatingInc(f.step) /\ t.skipped_keys = u.skipped_keys
      /\ t.chain_key_send = s.chain_key_send /\ t.dh_public = s.dh_public
      /\ t.root_key = s.root_key /\ t.remote_dh = {f.sender_dh}
  BY <1>2, <1>4, <1>5, NextRecvKeyFacts
<1>7. \A e \in u.skipped_keys : e.step # f.step
  BY <1>2, <1>1, CounterFacts DEF StoreOK, RatchetState, SkippedKey
<1>8. /\ s.recv_count <= SaturatingInc(f.step)
      /\ f.step < SaturatingInc(f.step) \/ SaturatingInc(f.step) = COUNTER_MAX
  BY <1>1, CounterFacts DEF RatchetState
<1> HIDE DEF t
<1>9. IsOption(t.remote_dh)
  BY <1>6 DEF IsOption
<1> QED
  BY <1>2, <1>6, <1>7, <1>8, <1>9 DEF RecvStep, t, v

LEMMA NewChainStep ==
    ASSUME NEW s \in RatchetState, IsOption(s.remote_dh), StoreOK(s),
           NEW f, IsFrame(f), NEW first \in OpeningStarts(s, f)
    PROVE  RecvStep(s, NextRecvKey(OnNewChain(s, f, first)), f)
<1> DEFINE u == SkipRecvUntil(s, first)
           d == DhRatchetRecv(u, f.sender_dh)
           v == OnNewChain(s, f, first)
           t == NextRecvKey(v)
<1>1. /\ f.step \in Counter /\ f.sender_dh \in Pub /\ f.key \in Chain
      /\ s.recv_count <= first /\ first <= f.step /\ v.chain_key_recv = f.key
  BY DEF IsFrame, Frame, OpeningStarts, CanReachOnNewChain, CanSkip, Opens
<1>2. first \in Counter
  <2>1. s.recv_count \in Nat /\ f.step \in Nat /\ f.step <= COUNTER_MAX /\ COUNTER_MAX \in Nat
    BY <1>1, CounterFacts, LimitsAreNat DEF RatchetState, Counter
  <2>2. first \in Int
    BY <2>1 DEF OpeningStarts, EpochCandidates, IsFrame, Counter
  <2> QED
    BY <1>1, <2>1, <2>2 DEF Counter
<1>3. /\ u \in RatchetState /\ u.recv_count = first /\ StoreOK(u)
      /\ u.dh_public = s.dh_public /\ u.chain_key_send = s.chain_key_send
      /\ \A e \in u.skipped_keys : e \in s.skipped_keys \/ s.recv_count <= e.step
  BY <1>1, <1>2, SkipFacts
<1> DEFINE root == KdfRoot(u.root_key, u.dh_public, f.sender_dh)
<1>4. root \in Root /\ DhChain(root) \in Chain
  BY <1>1, <1>3, KdfFacts DEF RatchetState
<1>5. d = [u EXCEPT !.root_key = root, !.chain_key_recv = DhChain(root),
                    !.remote_dh = {f.sender_dh}]
  BY DEF DhRatchetRecv
<1>6. v = SkipRecvUntil(d, f.step)
  BY DEF OnNewChain
<1>7. DhChain(root).root = root
  BY DEF DhChain
<1> HIDE DEF u, d, root, v, t
<1>8. /\ d \in RatchetState /\ d.recv_count = first /\ d.skipped_keys = u.skipped_keys
      /\ d.dh_public = u.dh_public /\ d.chain_key_send = u.chain_key_send
      /\ d.root_key = root /\ d.chain_key_recv = DhChain(root)
      /\ d.remote_dh = {f.sender_dh}
  BY <1>1, <1>3, <1>4, <1>5 DEF RatchetState
<1>9. StoreOK(d)
  BY <1>3, <1>8 DEF StoreOK
<1>10. /\ v \in RatchetState /\ v.recv_count = f.step /\ StoreOK(v)
       /\ v.remote_dh = d.remote_dh /\ v.dh_public = d.dh_public
       /\ v.root_key = d.root_key /\ v.chain_key_send = d.chain_key_send
       /\ v.chain_key_recv = Advance(d.chain_key_recv, f.step - first)
       /\ \A e \in v.skipped_keys : e \in d.skipped_keys \/ first <= e.step
  BY <1>1, <1>6, <1>8, <1>9, SkipFacts
<1>11. f.key.root = root
  <2>1. f.step - first \in Nat
    BY <1>1, <1>2, CounterFacts
  <2> QED
    BY <1>1, <1>4, <1>7, <1>8, <1>10, <2>1, AdvanceFacts
<1>12. /\ t \in RatchetState /\ StoreOK(t)
       /\ t.recv_count = SaturatingInc(f.step) /\ t.skipped_keys = v.skipped_keys
       /\ t.chain_key_send = s.chain_key_send /\ t.dh_public = s.dh_public
       /\ t.root_key = f.key.root /\ t.remote_dh = {f.sender_dh}
  BY <1>3, <1>8, <1>10, <1>11, NextRecvKeyFacts DEF t
<1>13. \A e \in v.skipped_keys : e.step # f.step
  BY <1>10, <1>1, CounterFacts DEF StoreOK, RatchetState, SkippedKey
<1>14. /\ s.recv_count <= SaturatingInc(f.step)
       /\ f.step < SaturatingInc(f.step) \/ SaturatingInc(f.step) = COUNTER_MAX
  BY <1>1, <1>2, CounterFacts DEF RatchetState
<1>15. \A e \in v.skipped_keys : e \in s.skipped_keys \/ s.recv_count <= e.step
  <2> TAKE e \in v.skipped_keys
  <2>1. CASE e \in d.skipped_keys
    BY <1>3, <1>8, <2>1
  <2>2. CASE first <= e.step
    <3>1. e.step \in Nat /\ s.recv_count \in Nat /\ first \in Nat
      BY <1>2, <1>10, CounterFacts DEF RatchetState, SkippedKey
    <3> QED
      BY <1>1, <2>2, <3>1
  <2> QED
    BY <1>10, <2>1, <2>2
<1>16. IsOption(t.remote_dh)
  BY <1>12 DEF IsOption
<1> QED
  BY <1>12, <1>13, <1>14, <1>15, <1>16 DEF RecvStep, t, v

----------------------------------------------------------------------------
(* Type correctness, the store's limits and replay *)

StoreInv == \A p \in Peer : StoreOK(ratchet[p])

(* Why a replay is refused: the step was passed, and no key is kept for it. *)
ReadInv ==
    \A p \in Peer : \A f \in opened[p] :
        /\ f.step < ratchet[p].recv_count \/ ratchet[p].recv_count = COUNTER_MAX
        /\ \A e \in ratchet[p].skipped_keys : e.step # f.step

RInv == TypeOK /\ StoreInv /\ ReadInv

LEMMA InitRInv == Init => RInv
<1> SUFFICES ASSUME Init PROVE RInv
  OBVIOUS
<1>1. ASSUME NEW p \in Peer
      PROVE  InitDirectional(p) \in RatchetState /\ StoreOK(InitDirectional(p))
  <2>1. BootChain(p) \in Chain /\ BootChain(Other(p)) \in Chain
    BY <1>1, PeerFacts DEF BootChain, Chain, Root
  <2>2. <<p, 0>> \in Pub /\ <<>> \in Root /\ 0 \in Counter
    BY <1>1, LimitsAreNat DEF Pub, Root, Counter
  <2>3. InitDirectional(p) \in RatchetState
    BY <2>1, <2>2 DEF InitDirectional, RatchetState
  <2>4. StoreOK(InitDirectional(p))
    BY FS_EmptySet, LimitsAreNat DEF InitDirectional, StoreOK, UniqueSteps
  <2> QED
    BY <2>3, <2>4
<1>2. TypeOK
  BY <1>1 DEF Init, TypeOK, InitDirectional
<1>3. StoreInv
  BY <1>1 DEF Init, StoreInv
<1>4. ReadInv
  BY DEF Init, ReadInv
<1> QED
  BY <1>2, <1>3, <1>4 DEF RInv

(* A successful receive keeps the invariant, whichever path it took. *)
LEMMA CommitRInv ==
    ASSUME RInv, NEW p \in Peer, NEW f \in net, NEW t,
           RecvStep(ratchet[p], t, f), Commit(p, f, t),
           ratchet[p].recv_count = COUNTER_MAX => t.skipped_keys \subseteq ratchet[p].skipped_keys
    PROVE  RInv'
<1> USE DEF RInv
<1>1. /\ ratchet' = [ratchet EXCEPT ![p] = t] /\ net' = net
      /\ opened' = [opened EXCEPT ![p] = @ \cup {f}]
  BY DEF Commit
<1>2. \A q \in Peer : ratchet'[q] = IF q = p THEN t ELSE ratchet[q]
  BY <1>1 DEF TypeOK
<1>3. \A q \in Peer : opened'[q] = IF q = p THEN opened[p] \cup {f} ELSE opened[q]
  BY <1>1 DEF TypeOK
<1>4. TypeOK'
  <2>1. ratchet' \in [Peer -> RatchetState]
    BY <1>1 DEF TypeOK, RecvStep
  <2>2. \A q \in Peer : \A r \in ratchet'[q].remote_dh : ratchet'[q].remote_dh = {r}
    BY <1>2 DEF TypeOK, RecvStep, IsOption
  <2>3. opened' \in [Peer -> SUBSET net']
    BY <1>1 DEF TypeOK
  <2> QED
    BY <1>1, <2>1, <2>2, <2>3 DEF TypeOK
<1>5. StoreInv'
  BY <1>2 DEF StoreInv, RecvStep
<1>6. ReadInv'
  <2> SUFFICES ASSUME NEW q \in Peer, NEW g \in opened'[q]
               PROVE  /\ \/ g.step < ratchet'[q].recv_count
                         \/ ratchet'[q].recv_count = COUNTER_MAX
                      /\ \A e \in ratchet'[q].skipped_keys : e.step # g.step
    BY DEF ReadInv
  <2>1. CASE q # p
    BY <1>2, <1>3, <2>1 DEF ReadInv
  <2>2. CASE q = p /\ g = f
    BY <1>2, <2>2 DEF RecvStep
  <2>3. CASE q = p /\ g \in opened[p]
    <3>1. g \in net /\ g.step \in Nat /\ g.step <= COUNTER_MAX
      BY <2>3, LimitsAreNat DEF TypeOK, Counter
    <3>2. /\ ratchet[p].recv_count \in Nat /\ ratchet[p].recv_count <= COUNTER_MAX
          /\ t.recv_count \in Nat /\ t.recv_count <= COUNTER_MAX /\ COUNTER_MAX \in Nat
      BY LimitsAreNat DEF TypeOK, RecvStep, RatchetState, Counter
    <3>3. /\ g.step < ratchet[p].recv_count \/ ratchet[p].recv_count = COUNTER_MAX
          /\ \A e \in ratchet[p].skipped_keys : e.step # g.step
      BY <2>3 DEF ReadInv
    <3>4. g.step < t.recv_count \/ t.recv_count = COUNTER_MAX
      BY <3>1, <3>2, <3>3 DEF RecvStep
    <3>5. \A e \in t.skipped_keys : e.step # g.step
      BY <3>1, <3>2, <3>3 DEF RecvStep
    <3> QED
      BY <1>2, <2>3, <3>4, <3>5
  <2> QED
    BY <1>3, <2>1, <2>2, <2>3
<1> QED
  BY <1>4, <1>5, <1>6

(* to_bytes writes the whole ratchet: what from_bytes reads from it is the *)
(* ratchet it was written from.                                            *)
THEOREM BytesKeepRatchet ==
  ASSUME NEW s \in RatchetState
  PROVE  FromBytes(ToBytes(s)) = s
<1> DEFINE blob == ToBytes(s)
<1>1. blob[1] = 2 /\ blob[2] = s.dh_public /\ blob[3] = s.remote_dh /\ blob[4] = s.root_key
  BY DEF ToBytes
<1>2. blob[5] = s.chain_key_send /\ blob[6] = s.chain_key_recv /\ blob[7] = s.send_count
  BY DEF ToBytes
<1>3. blob[8] = s.recv_count /\ blob[9] = s.sends_since_dh /\ blob[10] = s.skipped_keys
  BY DEF ToBytes
<1> HIDE DEF blob
<1>4. FromBytes(blob) = s
  BY <1>1, <1>2, <1>3 DEF FromBytes, RatchetState
<1> QED
  BY <1>4 DEF blob

LEMMA ReloadKeeps ==
  ASSUME NEW p \in Peer, TypeOK, Reload(p)
  PROVE  UNCHANGED vars
<1>1. ratchet[p] \in RatchetState
  BY DEF TypeOK
<1>2. FromBytes(ToBytes(ratchet[p])) = ratchet[p]
  BY <1>1, BytesKeepRatchet
<1>3. ratchet' = ratchet
  BY <1>2 DEF Reload, TypeOK
<1> QED
  BY <1>3 DEF Reload, vars

LEMMA NextRInv == RInv /\ [Next]_vars => RInv'
<1> SUFFICES ASSUME RInv, [Next]_vars PROVE RInv'
  OBVIOUS
<1>0. \A p \in Peer : /\ ratchet[p] \in RatchetState
                      /\ IsOption(ratchet[p].remote_dh)
                      /\ StoreOK(ratchet[p])
  BY DEF RInv, TypeOK, StoreInv, IsOption
<1>00. \A f \in net : IsFrame(f)
  BY DEF RInv, TypeOK, IsFrame
<1>1. ASSUME NEW p \in Peer, Send(p) PROVE RInv'
  <2> DEFINE t == RatchetSend(ratchet[p])
             g == SealedFrame(p, ratchet[p])
  <2>1. /\ ratchet' = [ratchet EXCEPT ![p] = t] /\ net' = net \cup {g} /\ opened' = opened
    BY <1>1 DEF Send
  <2>2. /\ t \in RatchetState /\ t.remote_dh = ratchet[p].remote_dh
        /\ t.recv_count = ratchet[p].recv_count /\ t.skipped_keys = ratchet[p].skipped_keys
    BY <1>0, RatchetSendFacts
  <2>3. g \in Frame /\ g.step \in Counter /\ g.epoch_start \in Counter
    BY <1>0, SealedFrameFacts
  <2> HIDE DEF t, g
  <2>4. \A q \in Peer : ratchet'[q] = IF q = p THEN t ELSE ratchet[q]
    BY <2>1 DEF RInv, TypeOK
  <2>5. TypeOK'
    <3>1. ratchet' \in [Peer -> RatchetState]
      BY <2>1, <2>2 DEF RInv, TypeOK
    <3>2. \A q \in Peer : \A r \in ratchet'[q].remote_dh : ratchet'[q].remote_dh = {r}
      BY <2>2, <2>4 DEF RInv, TypeOK
    <3>3. net' \subseteq Frame /\ \A f \in net' : f.step \in Counter /\ f.epoch_start \in Counter
      BY <2>1, <2>3 DEF RInv, TypeOK
    <3>4. opened' \in [Peer -> SUBSET net']
      BY <2>1 DEF RInv, TypeOK
    <3> QED
      BY <3>1, <3>2, <3>3, <3>4 DEF TypeOK
  <2>6. StoreInv'
    BY <2>2, <2>4 DEF RInv, StoreInv, StoreOK
  <2>7. ReadInv'
    BY <2>1, <2>2, <2>4 DEF RInv, ReadInv
  <2> QED
    BY <2>5, <2>6, <2>7 DEF RInv
<1>2. ASSUME NEW p \in Peer, NEW f \in net, ReceiveSkipped(p, f) PROVE RInv'
  <2>1. RecvStep(ratchet[p], WipeSkippedKey(ratchet[p], f.step), f)
    BY <1>0, <1>00, <1>2, SkippedStep DEF ReceiveSkipped
  <2>2. WipeSkippedKey(ratchet[p], f.step).skipped_keys \subseteq ratchet[p].skipped_keys
    BY <1>0 DEF WipeSkippedKey, RatchetState
  <2> QED
    BY <1>2, <2>1, <2>2, CommitRInv DEF ReceiveSkipped
<1>3. ASSUME NEW p \in Peer, NEW f \in net, ReceiveSameChain(p, f) PROVE RInv'
  <2>1. RecvStep(ratchet[p], NextRecvKey(OnSameChain(ratchet[p], f)), f)
    BY <1>0, <1>00, <1>3, SameChainStep DEF ReceiveSameChain
  <2>2. ratchet[p].recv_count # COUNTER_MAX
    BY <1>3 DEF ReceiveSameChain, OpensOnSameChain, Refused
  <2> QED
    BY <1>3, <2>1, <2>2, CommitRInv DEF ReceiveSameChain
<1>4. ASSUME NEW p \in Peer, NEW f \in net, ReceiveNewChain(p, f) PROVE RInv'
  <2>1. PICK first \in OpeningStarts(ratchet[p], f) :
            Commit(p, f, NextRecvKey(OnNewChain(ratchet[p], f, first)))
    BY <1>4 DEF ReceiveNewChain
  <2>2. RecvStep(ratchet[p], NextRecvKey(OnNewChain(ratchet[p], f, first)), f)
    BY <1>0, <1>00, NewChainStep
  <2>3. ratchet[p].recv_count # COUNTER_MAX
    BY <1>4 DEF ReceiveNewChain, OpensOnNewChain, Refused
  <2> QED
    BY <2>1, <2>2, <2>3, CommitRInv
<1>5. ASSUME NEW p \in Peer, NEW step \in LineSteps(p), ExpireLine(p, step) PROVE RInv'
  <2> DEFINE s == ratchet[p]
             keys == {e \in s.skipped_keys : e.step # step}
             t == WipeSkippedKey(s, step)
  <2>1. /\ ratchet' = [ratchet EXCEPT ![p] = t] /\ net' = net /\ opened' = opened
    BY <1>5 DEF ExpireLine
  <2>2. keys \subseteq s.skipped_keys
    OBVIOUS
  <2>3. t = [s EXCEPT !.skipped_keys = keys]
    BY DEF WipeSkippedKey
  <2>4. /\ IsFiniteSet(keys) /\ Cardinality(keys) <= Cardinality(s.skipped_keys)
        /\ Cardinality(keys) \in Nat /\ Cardinality(s.skipped_keys) \in Nat
    BY <1>0, <2>2, FS_Subset, FS_CardinalityType DEF StoreOK
  <2> HIDE DEF keys, t
  <2>5. /\ t \in RatchetState /\ t.remote_dh = s.remote_dh
        /\ t.recv_count = s.recv_count /\ t.skipped_keys = keys
    BY <1>0, <2>2, <2>3 DEF RatchetState
  <2>6. StoreOK(t)
    BY <1>0, <2>2, <2>4, <2>5, LimitsAreNat DEF StoreOK, UniqueSteps
  <2>7. \A q \in Peer : ratchet'[q] = IF q = p THEN t ELSE ratchet[q]
    BY <2>1 DEF RInv, TypeOK
  <2>8. TypeOK'
    <3>1. ratchet' \in [Peer -> RatchetState]
      BY <2>1, <2>5 DEF RInv, TypeOK
    <3>2. \A q \in Peer : \A r \in ratchet'[q].remote_dh : ratchet'[q].remote_dh = {r}
      BY <2>5, <2>7 DEF RInv, TypeOK
    <3> QED
      BY <2>1, <3>1, <3>2 DEF RInv, TypeOK
  <2>9. StoreInv'
    BY <2>6, <2>7 DEF RInv, StoreInv
  <2>10. ReadInv'
    BY <2>1, <2>2, <2>5, <2>7 DEF RInv, ReadInv
  <2> QED
    BY <2>8, <2>9, <2>10 DEF RInv
<1>6. CASE UNCHANGED vars
  BY <1>6 DEF vars, RInv, TypeOK, StoreInv, ReadInv
<1>7. ASSUME NEW p \in Peer, NEW f \in net, Reject(p, f) PROVE RInv'
  BY <1>6, <1>7 DEF Reject
<1>8. ASSUME NEW p \in Peer, Reload(p) PROVE RInv'
  BY <1>6, <1>8, ReloadKeeps DEF RInv
<1> QED
  BY <1>1, <1>2, <1>3, <1>4, <1>5, <1>6, <1>7, <1>8 DEF Next, Receive

LEMMA RInvHolds == Spec => []RInv
<1>1. Init => RInv
  BY InitRInv
<1>2. RInv /\ [Next]_vars => RInv'
  BY NextRInv
<1> QED
  BY <1>1, <1>2, PTL DEF Spec

(* Every reachable ratchet, frame and set of read frames is well typed. *)
THEOREM TypeCorrect == Spec => []TypeOK
<1>1. RInv => TypeOK
  BY DEF RInv
<1> QED
  BY <1>1, RInvHolds, PTL

(* The skipped-key store keeps one key per passed step and respects its    *)
(* cap for every MAX_SKIP, MAX_SKIPPED_KEYS and every network.             *)
THEOREM StoreLimits == Spec => []StoreWithinLimits
<1>1. RInv => StoreWithinLimits
  BY DEF RInv, StoreInv, StoreOK, UniqueSteps, StoreWithinLimits
<1> QED
  BY <1>1, RInvHolds, PTL

(* A frame that was read never opens again, for any number of duplicates,  *)
(* losses, reorderings, expired lines and wire versions.                   *)
THEOREM ReplaySafe == Spec => []ReplayRefused
<1>1. RInv => ReplayRefused
  <2> SUFFICES ASSUME RInv, NEW p \in Peer, NEW f \in opened[p]
               PROVE  ~CanOpen(ratchet[p], f)
    BY DEF ReplayRefused
  <2>1. /\ f.step < ratchet[p].recv_count \/ ratchet[p].recv_count = COUNTER_MAX
        /\ \A e \in ratchet[p].skipped_keys : e.step # f.step
    BY DEF RInv, ReadInv
  <2>2. Refused(ratchet[p], f)
    BY <2>1 DEF Refused
  <2>3. ~OpensSkipped(ratchet[p], f)
    BY <2>1 DEF OpensSkipped
  <2> QED
    BY <2>2, <2>3 DEF CanOpen, OpensOnSameChain, OpensOnNewChain
<1> QED
  BY <1>1, RInvHolds, PTL

----------------------------------------------------------------------------
(* No message key is used twice *)

(* A public that was drawn already, going by the ratchets rs; a root made  *)
(* of such publics.                                                        *)
Drawn(rs, x) == x[2] <= rs[x[1]].dh_public[2]
RootDrawn(rs, root) == \A i \in 1 .. Len(root) : \A x \in root[i] : Drawn(rs, x)

SameSeed(c, d) == c.root = d.root /\ c.label = d.label

DrawnInv ==
    /\ \A p \in Peer : /\ ratchet[p].dh_public[1] = p
                       /\ RootDrawn(ratchet, ratchet[p].root_key)
                       /\ RootDrawn(ratchet, ratchet[p].chain_key_send.root)
                       /\ \A r \in ratchet[p].remote_dh : Drawn(ratchet, r)
    /\ \A f \in net : RootDrawn(ratchet, f.key.root) /\ Drawn(ratchet, f.sender_dh)

(* A frame on p's sending chain is p's, and lies behind the chain key. *)
BehindInv ==
    \A p \in Peer : \A f \in net :
        SameSeed(f.key, ratchet[p].chain_key_send)
            => f.from = p /\ f.key.idx < ratchet[p].chain_key_send.idx

SeedsApart ==
    ~SameSeed(ratchet[Low].chain_key_send, ratchet[High].chain_key_send)

SealInv == DrawnInv /\ BehindInv /\ SeedsApart /\ KeysSealOnce

LEMMA InitSealInv == Init => SealInv
<1> SUFFICES ASSUME Init PROVE SealInv
  OBVIOUS
<1>1. DrawnInv
  BY DEF Init, DrawnInv, InitDirectional, RootDrawn, BootChain
<1>2. BehindInv /\ KeysSealOnce
  BY DEF Init, BehindInv, KeysSealOnce
<1>3. SeedsApart
  BY PeersDiffer DEF Init, SeedsApart, InitDirectional, BootChain, SameSeed, Peer
<1> QED
  BY <1>1, <1>2, <1>3 DEF SealInv

(* What a send does to the sending chain: it goes on, or a chain is begun  *)
(* whose root holds a public nobody has drawn before.                      *)
LEMMA SendingChain ==
    ASSUME NEW s \in RatchetState, IsOption(s.remote_dh), NEW p, s.dh_public[1] = p
    PROVE  \/ BeforeKey(s) = s
           \/ /\ BeforeKey(s).dh_public = <<p, s.dh_public[2] + 1>>
              /\ BeforeKey(s).chain_key_send.root = BeforeKey(s).root_key
              /\ BeforeKey(s).chain_key_send = DhChain(BeforeKey(s).root_key)
              /\ \E r \in s.remote_dh :
                    BeforeKey(s).root_key = KdfRoot(s.root_key, <<p, s.dh_public[2] + 1>>, r)
<1>1. CASE ~DhDue(s)
  BY <1>1 DEF BeforeKey
<1>2. CASE DhDue(s)
  <2> DEFINE fresh == <<p, s.dh_public[2] + 1>>
             remote == CHOOSE r \in s.remote_dh : TRUE
             root == KdfRoot(s.root_key, fresh, remote)
  <2>1. BeforeKey(s) = [s EXCEPT !.dh_public = fresh, !.root_key = root,
                                 !.chain_key_send = DhChain(root), !.sends_since_dh = 0]
    BY <1>2 DEF BeforeKey, DhRatchetSend
  <2>2. remote \in s.remote_dh
    BY <1>2 DEF DhDue
  <2>3. DhChain(root).root = root
    BY DEF DhChain
  <2> HIDE DEF root, remote, fresh
  <2>4. /\ BeforeKey(s).dh_public = fresh /\ BeforeKey(s).root_key = root
        /\ BeforeKey(s).chain_key_send = DhChain(root)
    BY <2>1 DEF RatchetState
  <2> QED
    BY <2>2, <2>3, <2>4 DEF root, fresh
<1> QED
  BY <1>1, <1>2

(* Publics stay drawn when no peer's number goes down. *)
LEMMA DrawnStable ==
    ASSUME TypeOK, TypeOK',
           \A q \in Peer : ratchet[q].dh_public[2] <= ratchet'[q].dh_public[2]
    PROVE  /\ \A x \in Pub : Drawn(ratchet, x) => Drawn(ratchet', x)
           /\ \A root \in Root : RootDrawn(ratchet, root) => RootDrawn(ratchet', root)
<1>1. ASSUME NEW x \in Pub, Drawn(ratchet, x) PROVE Drawn(ratchet', x)
  <2>1. x[1] \in Peer /\ x[2] \in Nat
    BY <1>1 DEF Pub
  <2>2. ratchet[x[1]].dh_public[2] \in Nat /\ ratchet'[x[1]].dh_public[2] \in Nat
    BY <2>1 DEF TypeOK, RatchetState, Pub
  <2> QED
    BY <1>1, <2>1, <2>2 DEF Drawn
<1>2. ASSUME NEW root \in Root, RootDrawn(ratchet, root) PROVE RootDrawn(ratchet', root)
  <2> SUFFICES ASSUME NEW i \in 1 .. Len(root), NEW x \in root[i] PROVE Drawn(ratchet', x)
    BY DEF RootDrawn
  <2>1. x \in Pub /\ Drawn(ratchet, x)
    BY <1>2 DEF RootDrawn, Root, Secret
  <2> QED
    BY <1>1, <2>1
<1> QED
  BY <1>1, <1>2

LEMMA SendSealInv ==
    ASSUME RInv, RInv', SealInv, NEW p \in Peer, Send(p)
    PROVE  SealInv'
<1> DEFINE s == ratchet[p]
           b == BeforeKey(s)
           t == RatchetSend(s)
           g == SealedFrame(p, s)
           c == b.chain_key_send
           q == Other(p)
           d == ratchet[q].chain_key_send
<1>1. /\ ratchet' = [ratchet EXCEPT ![p] = t] /\ net' = net \cup {g}
  BY DEF Send
<1>2. s \in RatchetState /\ IsOption(s.remote_dh)
  BY DEF RInv, TypeOK, IsOption
<1>3. /\ b \in RatchetState /\ b.remote_dh = s.remote_dh
  BY <1>2, BeforeKeyFacts
<1>4. /\ t \in RatchetState /\ t.remote_dh = s.remote_dh
      /\ t.chain_key_send = Advance(c, 1)
      /\ t.root_key = b.root_key /\ t.dh_public = b.dh_public
  BY <1>2, RatchetSendFacts
<1>5. q \in Peer /\ q # p /\ \A r \in Peer : r = p \/ r = q
  BY PeerFacts DEF Peer, Other
<1>6. \A r \in Peer : ratchet'[r] = IF r = p THEN t ELSE ratchet[r]
  BY <1>1 DEF RInv, TypeOK
<1>7. /\ c \in Chain /\ d \in Chain /\ b.root_key \in Root /\ s.root_key \in Root
      /\ s.dh_public \in Pub /\ s.dh_public[1] = p /\ s.dh_public[2] \in Nat
  BY <1>2, <1>3, <1>5 DEF RatchetState, RInv, TypeOK, SealInv, DrawnInv, Pub
<1>8. /\ g.from = p /\ g.key = c /\ g.sender_dh = b.dh_public
  BY DEF SealedFrame
<1>9. /\ Advance(c, 1).root = c.root /\ Advance(c, 1).label = c.label
      /\ Advance(c, 1).idx = c.idx + 1
  BY <1>7, AdvanceFacts
<1>10. \A f \in net : f.key \in Chain /\ f.sender_dh \in Pub /\ f.key.root \in Root
  BY DEF RInv, TypeOK, Frame, Chain
<1> HIDE DEF s, b, t, g, c, q, d
\* The chain b sends on: behind it lie only p's frames, and q is not on it.
<1>11. /\ b.dh_public[1] = p /\ b.dh_public[2] \in Nat /\ s.dh_public[2] <= b.dh_public[2]
       /\ \A f \in net : SameSeed(f.key, c) => f.from = p /\ f.key.idx < c.idx
       /\ ~SameSeed(c, d)
       /\ \A i \in 1 .. Len(b.root_key) : \A x \in b.root_key[i] :
             Drawn(ratchet, x) \/ x = b.dh_public
       /\ c.root = b.root_key \/ RootDrawn(ratchet, c.root)
  <2>1. CASE b = s
    <3>1. ~SameSeed(c, d)
      BY <1>5, <2>1, PeersDiffer DEF SealInv, SeedsApart, SameSeed, Peer, c, d, s
    <3>2. \A f \in net : SameSeed(f.key, c) => f.from = p /\ f.key.idx < c.idx
      BY <2>1 DEF SealInv, BehindInv, c, s
    <3>3. RootDrawn(ratchet, c.root) /\ RootDrawn(ratchet, b.root_key)
      BY <2>1 DEF SealInv, DrawnInv, c, s
    <3> QED
      BY <1>7, <2>1, <3>1, <3>2, <3>3 DEF RootDrawn
  <2>2. CASE b # s
    <3> DEFINE fresh == <<p, s.dh_public[2] + 1>>
    <3>1. PICK r \in s.remote_dh :
             /\ b.dh_public = fresh /\ c.root = b.root_key
             /\ b.root_key = KdfRoot(s.root_key, fresh, r)
      BY <1>2, <1>7, <2>2, SendingChain DEF b, c
    <3>2. r \in Pub /\ fresh \in Pub
      BY <1>2, <1>7 DEF RatchetState, Pub
    <3>4. ~Drawn(ratchet, fresh)
      BY <1>7 DEF Drawn, s
    <3> HIDE DEF fresh
    <3>3. /\ Len(b.root_key) = Len(s.root_key) + 1
          /\ b.root_key[Len(s.root_key) + 1] = {fresh, r}
      <4>1. /\ Len(KdfRoot(s.root_key, fresh, r)) = Len(s.root_key) + 1
            /\ KdfRoot(s.root_key, fresh, r)[Len(s.root_key) + 1] = {fresh, r}
        BY <1>7, <3>2, KdfFacts
      <4> QED
        BY <3>1, <4>1, Zenon
    <3>5. Len(s.root_key) \in Nat
      BY <1>7 DEF Root
    <3>6. ~RootDrawn(ratchet, c.root)
      BY <3>1, <3>3, <3>4, <3>5 DEF RootDrawn
    <3>7. \A f \in net : ~SameSeed(f.key, c)
      BY <3>6 DEF SameSeed, SealInv, DrawnInv
    <3>8. ~SameSeed(c, d)
      BY <1>5, <3>6 DEF SameSeed, SealInv, DrawnInv, d
    <3>9. \A i \in 1 .. Len(b.root_key) : \A x \in b.root_key[i] : Drawn(ratchet, x) \/ x = fresh
      <4> SUFFICES ASSUME NEW i \in 1 .. Len(b.root_key), NEW x \in b.root_key[i]
                   PROVE  Drawn(ratchet, x) \/ x = fresh
        OBVIOUS
      <4>1. Drawn(ratchet, r)
        BY DEF SealInv, DrawnInv, s
      <4>2. CASE i = Len(s.root_key) + 1
        BY <3>3, <4>1, <4>2
      <4>3. CASE i # Len(s.root_key) + 1
        <5>1. i \in 1 .. Len(s.root_key)
          BY <3>3, <3>5, <4>3
        <5>2. b.root_key[i] = s.root_key[i]
          BY <1>7, <3>1, <5>1 DEF KdfRoot, Root
        <5>3. RootDrawn(ratchet, s.root_key)
          BY DEF SealInv, DrawnInv, s
        <5> QED
          BY <5>1, <5>2, <5>3 DEF RootDrawn
      <4> QED
        BY <4>2, <4>3
    <3> QED
      BY <1>7, <3>1, <3>7, <3>8, <3>9 DEF fresh
  <2> QED
    BY <2>1, <2>2
<1>12. \A r \in Peer : ratchet[r].dh_public[2] <= ratchet'[r].dh_public[2]
  <2> TAKE r \in Peer
  <2>1. ratchet[r].dh_public[2] \in Nat
    BY DEF RInv, TypeOK, RatchetState, Pub
  <2> QED
    BY <1>4, <1>6, <1>11, <2>1 DEF s
<1>13. /\ \A x \in Pub : Drawn(ratchet, x) => Drawn(ratchet', x)
       /\ \A root \in Root : RootDrawn(ratchet, root) => RootDrawn(ratchet', root)
  BY <1>12, DrawnStable DEF RInv
<1>14. Drawn(ratchet', b.dh_public)
  BY <1>4, <1>6, <1>11 DEF Drawn
<1>15. RootDrawn(ratchet', b.root_key) /\ RootDrawn(ratchet', c.root)
  <2>1. RootDrawn(ratchet', b.root_key)
    <3> SUFFICES ASSUME NEW i \in 1 .. Len(b.root_key), NEW x \in b.root_key[i]
                 PROVE  Drawn(ratchet', x)
      BY DEF RootDrawn
    <3>1. x \in Pub
      BY <1>7 DEF Root, Secret
    <3> QED
      BY <1>11, <1>13, <1>14, <3>1
  <2>2. c.root \in Root
    BY <1>7 DEF Chain
  <2> QED
    BY <1>11, <1>13, <2>1, <2>2
<1>16. DrawnInv'
  <2>1. ASSUME NEW r \in Peer
        PROVE  /\ ratchet'[r].dh_public[1] = r
               /\ RootDrawn(ratchet', ratchet'[r].root_key)
               /\ RootDrawn(ratchet', ratchet'[r].chain_key_send.root)
               /\ \A x \in ratchet'[r].remote_dh : Drawn(ratchet', x)
    <3>1. CASE r = p
      <4>1. ratchet'[r].dh_public[1] = r
        BY <1>4, <1>6, <1>11, <3>1
      <4>2. RootDrawn(ratchet', ratchet'[r].root_key) /\ RootDrawn(ratchet', ratchet'[r].chain_key_send.root)
        BY <1>4, <1>6, <1>9, <1>15, <3>1
      <4>3. \A x \in s.remote_dh : x \in Pub /\ Drawn(ratchet, x)
        BY <1>2 DEF SealInv, DrawnInv, RatchetState, s
      <4> QED
        BY <1>4, <1>6, <1>13, <3>1, <4>1, <4>2, <4>3
    <3>2. CASE r # p
      <4>1. /\ ratchet[r].dh_public[1] = r
            /\ RootDrawn(ratchet, ratchet[r].root_key) /\ ratchet[r].root_key \in Root
            /\ RootDrawn(ratchet, ratchet[r].chain_key_send.root)
            /\ ratchet[r].chain_key_send.root \in Root
            /\ \A x \in ratchet[r].remote_dh : x \in Pub /\ Drawn(ratchet, x)
        BY DEF SealInv, DrawnInv, RInv, TypeOK, RatchetState, Chain
      <4> QED
        BY <1>6, <1>13, <3>2, <4>1
    <3> QED
      BY <3>1, <3>2
  <2>2. ASSUME NEW f \in net' PROVE RootDrawn(ratchet', f.key.root) /\ Drawn(ratchet', f.sender_dh)
    <3>1. CASE f \in net
      BY <1>10, <1>13, <3>1 DEF SealInv, DrawnInv
    <3>2. CASE f = g
      BY <1>8, <1>14, <1>15, <3>2
    <3> QED
      BY <1>1, <3>1, <3>2
  <2> QED
    BY <2>1, <2>2 DEF DrawnInv
<1>17. BehindInv'
  <2> SUFFICES ASSUME NEW r \in Peer, NEW f \in net', SameSeed(f.key, ratchet'[r].chain_key_send)
               PROVE  f.from = r /\ f.key.idx < ratchet'[r].chain_key_send.idx
    BY DEF BehindInv
  <2>1. CASE r = p /\ f \in net
    <3>1. SameSeed(f.key, c)
      BY <1>4, <1>6, <1>9, <2>1 DEF SameSeed
    <3>2. f.key.idx \in Nat /\ c.idx \in Nat
      BY <1>7, <1>10, <2>1 DEF Chain
    <3> QED
      BY <1>4, <1>6, <1>9, <1>11, <2>1, <3>1, <3>2
  <2>2. CASE r = p /\ f = g
    <3>1. c.idx \in Nat
      BY <1>7 DEF Chain
    <3> QED
      BY <1>4, <1>6, <1>8, <1>9, <2>2, <3>1
  <2>3. CASE r # p /\ f \in net
    BY <1>6, <2>3 DEF SealInv, BehindInv
  <2>4. CASE r # p /\ f = g
    BY <1>5, <1>6, <1>8, <1>11, <2>4 DEF SameSeed, d
  <2> QED
    BY <1>1, <2>1, <2>2, <2>3, <2>4
<1>18. SeedsApart'
  <2>1. ~SameSeed(ratchet'[p].chain_key_send, ratchet'[q].chain_key_send)
    BY <1>4, <1>5, <1>6, <1>9, <1>11 DEF SameSeed, d
  <2> QED
    BY <1>5, <2>1, PeersDiffer DEF SeedsApart, SameSeed, Peer
<1>19. KeysSealOnce'
  <2> SUFFICES ASSUME NEW f \in net', NEW h \in net', f.key = h.key PROVE f = h
    BY DEF KeysSealOnce
  <2>1. \A e \in net : e.key # c
    <3> SUFFICES ASSUME NEW e \in net, e.key = c PROVE FALSE
      OBVIOUS
    <3>1. e.key.idx < c.idx /\ c.idx \in Nat
      BY <1>7, <1>11 DEF SameSeed, Chain
    <3> QED
      BY <3>1
  <2> QED
    BY <1>1, <1>8, <2>1 DEF SealInv, KeysSealOnce
<1> QED
  BY <1>16, <1>17, <1>18, <1>19 DEF SealInv

(* A step that sends nothing keeps the sending chains and learns only what *)
(* a frame on the wire shows.                                              *)
LEMMA QuietSealInv ==
    ASSUME RInv, RInv', SealInv, net' = net,
           \A p \in Peer :
              /\ ratchet'[p].chain_key_send = ratchet[p].chain_key_send
              /\ ratchet'[p].dh_public = ratchet[p].dh_public
              /\ \/ ratchet'[p].root_key = ratchet[p].root_key
                 \/ \E f \in net : ratchet'[p].root_key = f.key.root
              /\ \A r \in ratchet'[p].remote_dh :
                    r \in ratchet[p].remote_dh \/ \E f \in net : r = f.sender_dh
    PROVE  SealInv'
<1>1. \A p \in Peer : ratchet[p].dh_public[2] \in Nat
  BY DEF RInv, TypeOK, RatchetState, Pub
<1>2. /\ \A x \in Pub : Drawn(ratchet, x) => Drawn(ratchet', x)
      /\ \A root \in Root : RootDrawn(ratchet, root) => RootDrawn(ratchet', root)
  BY <1>1, DrawnStable DEF RInv
<1>3. \A f \in net : /\ f.key.root \in Root /\ f.sender_dh \in Pub
                     /\ RootDrawn(ratchet, f.key.root) /\ Drawn(ratchet, f.sender_dh)
  BY DEF RInv, TypeOK, Frame, Chain, SealInv, DrawnInv
<1>4. DrawnInv'
  <2>1. ASSUME NEW p \in Peer
        PROVE  /\ ratchet'[p].dh_public[1] = p
               /\ RootDrawn(ratchet', ratchet'[p].root_key)
               /\ RootDrawn(ratchet', ratchet'[p].chain_key_send.root)
               /\ \A x \in ratchet'[p].remote_dh : Drawn(ratchet', x)
    <3>1. /\ ratchet[p].dh_public[1] = p
          /\ RootDrawn(ratchet, ratchet[p].root_key) /\ ratchet[p].root_key \in Root
          /\ RootDrawn(ratchet, ratchet[p].chain_key_send.root)
          /\ ratchet[p].chain_key_send.root \in Root
          /\ \A x \in ratchet[p].remote_dh : x \in Pub /\ Drawn(ratchet, x)
      BY DEF SealInv, DrawnInv, RInv, TypeOK, RatchetState, Chain
    <3>2. RootDrawn(ratchet', ratchet'[p].root_key)
      BY <1>2, <1>3, <3>1
    <3>3. \A x \in ratchet'[p].remote_dh : Drawn(ratchet', x)
      BY <1>2, <1>3, <3>1
    <3> QED
      BY <1>2, <3>1, <3>2, <3>3
  <2>2. \A f \in net' : RootDrawn(ratchet', f.key.root) /\ Drawn(ratchet', f.sender_dh)
    BY <1>2, <1>3
  <2> QED
    BY <2>1, <2>2 DEF DrawnInv
<1>5. BehindInv' /\ SeedsApart' /\ KeysSealOnce'
  BY DEF SealInv, BehindInv, SeedsApart, KeysSealOnce, SameSeed, Peer
<1> QED
  BY <1>4, <1>5 DEF SealInv

LEMMA CommitSealInv ==
    ASSUME RInv, RInv', SealInv, NEW p \in Peer, NEW f \in net, NEW t,
           RecvStep(ratchet[p], t, f), Commit(p, f, t)
    PROVE  SealInv'
<1>1. net' = net /\ \A q \in Peer : ratchet'[q] = IF q = p THEN t ELSE ratchet[q]
  BY DEF Commit, RInv, TypeOK
<1> QED
  BY <1>1, QuietSealInv DEF RecvStep

LEMMA NextSealInv == RInv /\ RInv' /\ SealInv /\ [Next]_vars => SealInv'
<1> SUFFICES ASSUME RInv, RInv', SealInv, [Next]_vars PROVE SealInv'
  OBVIOUS
<1>0. /\ \A p \in Peer : /\ ratchet[p] \in RatchetState
                         /\ IsOption(ratchet[p].remote_dh)
                         /\ StoreOK(ratchet[p])
      /\ \A f \in net : IsFrame(f)
  BY DEF RInv, TypeOK, StoreInv, IsOption, IsFrame
<1>1. ASSUME NEW p \in Peer, Send(p) PROVE SealInv'
  BY <1>1, SendSealInv
<1>2. ASSUME NEW p \in Peer, NEW f \in net, ReceiveSkipped(p, f) PROVE SealInv'
  <2>1. RecvStep(ratchet[p], WipeSkippedKey(ratchet[p], f.step), f)
    BY <1>0, <1>2, SkippedStep DEF ReceiveSkipped
  <2> QED
    BY <1>2, <2>1, CommitSealInv DEF ReceiveSkipped
<1>3. ASSUME NEW p \in Peer, NEW f \in net, ReceiveSameChain(p, f) PROVE SealInv'
  <2>1. RecvStep(ratchet[p], NextRecvKey(OnSameChain(ratchet[p], f)), f)
    BY <1>0, <1>3, SameChainStep DEF ReceiveSameChain
  <2> QED
    BY <1>3, <2>1, CommitSealInv DEF ReceiveSameChain
<1>4. ASSUME NEW p \in Peer, NEW f \in net, ReceiveNewChain(p, f) PROVE SealInv'
  <2>1. PICK first \in OpeningStarts(ratchet[p], f) :
            Commit(p, f, NextRecvKey(OnNewChain(ratchet[p], f, first)))
    BY <1>4 DEF ReceiveNewChain
  <2>2. RecvStep(ratchet[p], NextRecvKey(OnNewChain(ratchet[p], f, first)), f)
    BY <1>0, NewChainStep
  <2> QED
    BY <2>1, <2>2, CommitSealInv
<1>5. ASSUME NEW p \in Peer, NEW step \in LineSteps(p), ExpireLine(p, step) PROVE SealInv'
  <2> DEFINE t == WipeSkippedKey(ratchet[p], step)
  <2>1. net' = net /\ \A q \in Peer : ratchet'[q] = IF q = p THEN t ELSE ratchet[q]
    BY <1>5 DEF ExpireLine, RInv, TypeOK
  <2>2. /\ t.chain_key_send = ratchet[p].chain_key_send /\ t.dh_public = ratchet[p].dh_public
        /\ t.root_key = ratchet[p].root_key /\ t.remote_dh = ratchet[p].remote_dh
    BY <1>0 DEF WipeSkippedKey, RatchetState
  <2> HIDE DEF t
  <2> QED
    BY <2>1, <2>2, QuietSealInv
<1>6. CASE UNCHANGED vars
  BY <1>6, QuietSealInv DEF vars
<1>7. ASSUME NEW p \in Peer, NEW f \in net, Reject(p, f) PROVE SealInv'
  BY <1>6, <1>7 DEF Reject
<1>8. ASSUME NEW p \in Peer, Reload(p) PROVE SealInv'
  BY <1>6, <1>8, ReloadKeeps DEF RInv
<1> QED
  BY <1>1, <1>2, <1>3, <1>4, <1>5, <1>6, <1>7, <1>8 DEF Next, Receive

LEMMA SealInvHolds == Spec => []SealInv
<1>1. Init => SealInv
  BY InitSealInv
<1>2. RInv /\ RInv' /\ SealInv /\ [Next]_vars => SealInv'
  BY NextSealInv
<1> QED
  BY <1>1, <1>2, RInvHolds, PTL DEF Spec

(* ratchet_send never gives the same message key to two frames, of either  *)
(* peer, in any epoch, for any interleaving of sends and receives.         *)
THEOREM KeysNeverReused == Spec => []KeysSealOnce
<1>1. SealInv => KeysSealOnce
  BY DEF SealInv
<1> QED
  BY <1>1, SealInvHolds, PTL

----------------------------------------------------------------------------
(* A key that was read is erased *)

(* What s holds and the keys `read` with it: no key of `read` can be taken *)
(* from the receiving side of s, and what was stored lies behind the chain *)
(* it was stored from.  Chains are told apart by their roots: that of a    *)
(* chain yet to come is longer than any so far.                            *)
KeysApart(s, read) ==
    /\ Len(s.chain_key_recv.root) <= Len(s.root_key)
    /\ \A e \in s.skipped_keys :
          /\ Len(e.key.root) <= Len(s.root_key)
          /\ SameSeed(e.key, s.chain_key_recv) => e.key.idx < s.chain_key_recv.idx
    /\ \A d, e \in s.skipped_keys : d.key = e.key => d = e
    /\ \A k \in read :
          /\ Len(k.root) <= Len(s.root_key)
          /\ SameSeed(k, s.chain_key_recv) => k.idx < s.chain_key_recv.idx
          /\ \A e \in s.skipped_keys : e.key # k

(* Skipping stores keys the chain had yet to yield. *)
LEMMA SkipApart ==
    ASSUME NEW s \in RatchetState, StoreOK(s), NEW read \in SUBSET Chain, KeysApart(s, read),
           NEW until \in Counter, s.recv_count <= until
    PROVE  KeysApart(SkipRecvUntil(s, until), read)
<1> DEFINE t == SkipRecvUntil(s, until)
           c == s.chain_key_recv
           new == PassedOver(s, until)
<1>1. /\ c \in Chain /\ s.recv_count \in Nat /\ until \in Nat /\ until - s.recv_count \in Nat
      /\ s.skipped_keys \subseteq SkippedKey /\ s.root_key \in Root
  BY CounterFacts DEF RatchetState
<1>2. c.idx \in Nat
  BY <1>1 DEF Chain
<1>3. /\ t.root_key = s.root_key /\ t.chain_key_recv = Advance(c, until - s.recv_count)
  BY SkipFacts
<1>4. /\ t.chain_key_recv.root = c.root /\ t.chain_key_recv.label = c.label
      /\ t.chain_key_recv.idx = c.idx + (until - s.recv_count)
  <2>1. PICK n \in Nat : n = until - s.recv_count
    BY <1>1
  <2>2. t.chain_key_recv = Advance(c, n)
    BY <1>3, <2>1
  <2> HIDE DEF t, c
  <2>3. /\ Advance(c, n).root = c.root /\ Advance(c, n).label = c.label
        /\ Advance(c, n).idx = c.idx + n
    BY <1>1, AdvanceFacts
  <2> QED
    BY <2>1, <2>2, <2>3
<1>5. t.skipped_keys \subseteq s.skipped_keys \cup new
  <2> DEFINE kept == Newest(s.skipped_keys \cup new)
  <2>1. kept \subseteq s.skipped_keys \cup new
    BY DEF Newest
  <2>2. t = [s EXCEPT !.chain_key_recv = Advance(c, until - s.recv_count),
                      !.recv_count = until, !.skipped_keys = kept]
    BY DEF SkipRecvUntil
  <2> HIDE DEF t, c, new, kept
  <2>3. t.skipped_keys = kept
    BY <2>2 DEF RatchetState
  <2> QED
    BY <2>1, <2>3
<1>6. \A e \in new : /\ SameSeed(e.key, c) /\ e.key.root = c.root
                     /\ e.step \in Nat /\ s.recv_count <= e.step
                     /\ e.key.idx = c.idx + (e.step - s.recv_count)
                     /\ e.key.idx < c.idx + (until - s.recv_count) /\ c.idx <= e.key.idx
                     /\ e = [step |-> e.step, key |-> Advance(c, e.step - s.recv_count)]
  <2> SUFFICES ASSUME NEW n \in s.recv_count .. (until - 1), NEW e,
                      e = [step |-> n, key |-> Advance(c, n - s.recv_count)]
               PROVE  /\ SameSeed(e.key, c) /\ e.key.root = c.root
                      /\ e.step \in Nat /\ s.recv_count <= e.step
                      /\ e.key.idx = c.idx + (e.step - s.recv_count)
                      /\ e.key.idx < c.idx + (until - s.recv_count) /\ c.idx <= e.key.idx
                      /\ e = [step |-> e.step, key |-> Advance(c, e.step - s.recv_count)]
    BY DEF PassedOver
  <2>1. n \in Nat /\ n - s.recv_count \in Nat /\ s.recv_count <= n /\ n < until
    BY <1>1
  <2>2. e.step = n /\ e.key = Advance(c, n - s.recv_count)
    OBVIOUS
  <2>3. /\ e.key.root = c.root /\ e.key.label = c.label /\ e.key.idx = c.idx + (n - s.recv_count)
    BY <1>1, <2>1, <2>2, AdvanceFacts
  <2> HIDE DEF c
  <2> QED
    BY <1>1, <1>2, <2>1, <2>2, <2>3 DEF SameSeed
<1>7. \A k : SameSeed(k, t.chain_key_recv) <=> SameSeed(k, c)
  BY <1>4 DEF SameSeed
<1>8. \A e \in s.skipped_keys : e.key.idx \in Nat
  BY <1>1 DEF SkippedKey, Chain
<1>9. \A k \in read : k.idx \in Nat
  BY DEF Chain
<1> HIDE DEF t, c, new
<1>10. ASSUME NEW e \in t.skipped_keys
       PROVE  /\ Len(e.key.root) <= Len(t.root_key)
              /\ SameSeed(e.key, t.chain_key_recv) => e.key.idx < t.chain_key_recv.idx
  <2>1. CASE e \in new
    BY <1>3, <1>4, <1>6, <2>1 DEF KeysApart, c
  <2>2. CASE e \in s.skipped_keys
    BY <1>1, <1>2, <1>3, <1>4, <1>7, <1>8, <2>2 DEF KeysApart, c
  <2> QED
    BY <1>5, <1>10, <2>1, <2>2
<1>11. ASSUME NEW d \in t.skipped_keys, NEW e \in t.skipped_keys, d.key = e.key PROVE d = e
  <2>1. CASE d \in s.skipped_keys /\ e \in s.skipped_keys
    BY <1>11, <2>1 DEF KeysApart
  <2>2. CASE d \in new /\ e \in new
    <3>1. d.step = e.step
      BY <1>1, <1>2, <1>6, <1>11, <2>2
    <3> QED
      BY <1>6, <2>2, <3>1
  <2>3. ASSUME NEW x \in new, NEW y \in s.skipped_keys, x.key = y.key PROVE FALSE
    BY <1>2, <1>6, <1>8, <2>3 DEF KeysApart, c
  <2> QED
    BY <1>5, <1>11, <2>1, <2>2, <2>3
<1>12. ASSUME NEW k \in read
       PROVE  /\ Len(k.root) <= Len(t.root_key)
              /\ SameSeed(k, t.chain_key_recv) => k.idx < t.chain_key_recv.idx
              /\ \A e \in t.skipped_keys : e.key # k
  <2>1. Len(k.root) <= Len(t.root_key)
    BY <1>3 DEF KeysApart
  <2>2. SameSeed(k, t.chain_key_recv) => k.idx < t.chain_key_recv.idx
    BY <1>1, <1>2, <1>4, <1>7, <1>9 DEF KeysApart, c
  <2>3. ASSUME NEW e \in t.skipped_keys, e.key = k PROVE FALSE
    <3>1. CASE e \in new
      BY <1>2, <1>6, <1>9, <2>3, <3>1 DEF KeysApart, c
    <3>2. CASE e \in s.skipped_keys
      BY <2>3, <3>2 DEF KeysApart
    <3> QED
      BY <1>5, <3>1, <3>2
  <2> QED
    BY <2>1, <2>2, <2>3
<1>13. Len(t.chain_key_recv.root) <= Len(t.root_key)
  BY <1>3, <1>4 DEF KeysApart, c
<1>14. KeysApart(t, read)
  BY <1>10, <1>11, <1>12, <1>13 DEF KeysApart
<1> QED
  BY <1>14 DEF t

(* A DH step starts a chain nothing was taken from. *)
LEMMA TurnApart ==
    ASSUME NEW s \in RatchetState, NEW read \in SUBSET Chain, KeysApart(s, read), NEW r \in Pub
    PROVE  KeysApart(DhRatchetRecv(s, r), read)
<1> DEFINE t == DhRatchetRecv(s, r)
           root == KdfRoot(s.root_key, s.dh_public, r)
<1>1. s.root_key \in Root /\ s.dh_public \in Pub /\ s.skipped_keys \subseteq SkippedKey
  BY DEF RatchetState
<1>2. Len(root) = Len(s.root_key) + 1 /\ Len(s.root_key) \in Nat
  BY <1>1, KdfFacts DEF Root
<1>3. t = [s EXCEPT !.root_key = root, !.chain_key_recv = DhChain(root), !.remote_dh = {r}]
  BY DEF DhRatchetRecv
<1>4. DhChain(root).root = root
  BY DEF DhChain
<1> HIDE DEF t, root
<1>5. /\ t.root_key = root /\ t.chain_key_recv = DhChain(root) /\ t.skipped_keys = s.skipped_keys
  BY <1>3 DEF RatchetState
<1>6. \A k : SameSeed(k, t.chain_key_recv) => k.root = root
  BY <1>4, <1>5 DEF SameSeed
<1>7. /\ \A e \in s.skipped_keys : Len(e.key.root) \in Nat
      /\ \A k \in read : Len(k.root) \in Nat
  BY <1>1 DEF SkippedKey, Chain, Root
<1>8. ASSUME NEW e \in s.skipped_keys PROVE Len(e.key.root) <= Len(root) /\ e.key.root # root
  BY <1>2, <1>7 DEF KeysApart
<1>9. ASSUME NEW k \in read PROVE Len(k.root) <= Len(root) /\ k.root # root
  BY <1>2, <1>7 DEF KeysApart
<1>10. Len(t.chain_key_recv.root) <= Len(t.root_key)
  BY <1>2, <1>4, <1>5
<1>11. KeysApart(t, read)
  BY <1>5, <1>6, <1>8, <1>9, <1>10 DEF KeysApart
<1> QED
  BY <1>11 DEF t

(* The key of the frame is taken from the chain, which moves past it. *)
LEMMA NextKeyApart ==
    ASSUME NEW s \in RatchetState, NEW read \in SUBSET Chain, KeysApart(s, read)
    PROVE  KeysApart(NextRecvKey(s), read \cup {s.chain_key_recv})
<1> DEFINE t == NextRecvKey(s)
           c == s.chain_key_recv
<1>1. c \in Chain /\ c.idx \in Nat /\ s.skipped_keys \subseteq SkippedKey
  BY DEF RatchetState, Chain
<1>2. t = [s EXCEPT !.chain_key_recv = Advance(c, 1), !.recv_count = SaturatingInc(s.recv_count)]
  BY DEF NextRecvKey
<1>3. Advance(c, 1).root = c.root /\ Advance(c, 1).label = c.label /\ Advance(c, 1).idx = c.idx + 1
  BY <1>1, AdvanceFacts
<1> HIDE DEF t
<1>4. /\ t.root_key = s.root_key /\ t.chain_key_recv = Advance(c, 1)
      /\ t.skipped_keys = s.skipped_keys
  BY <1>2 DEF RatchetState
<1>5. \A k : SameSeed(k, t.chain_key_recv) <=> SameSeed(k, c)
  BY <1>3, <1>4 DEF SameSeed
<1>6. /\ \A e \in s.skipped_keys : e.key.idx \in Nat
      /\ \A k \in read : k.idx \in Nat
  BY <1>1 DEF SkippedKey, Chain
<1> HIDE DEF c
<1>7. ASSUME NEW e \in s.skipped_keys
      PROVE  /\ SameSeed(e.key, t.chain_key_recv) => e.key.idx < t.chain_key_recv.idx
             /\ e.key # c
  BY <1>1, <1>3, <1>4, <1>5, <1>6 DEF KeysApart, SameSeed, c
<1>8. ASSUME NEW k \in read \cup {c}
      PROVE  /\ Len(k.root) <= Len(t.root_key)
             /\ SameSeed(k, t.chain_key_recv) => k.idx < t.chain_key_recv.idx
             /\ \A e \in t.skipped_keys : e.key # k
  <2>1. CASE k = c
    BY <1>1, <1>3, <1>4, <1>7, <2>1 DEF KeysApart, c
  <2>2. CASE k \in read
    BY <1>1, <1>3, <1>4, <1>5, <1>6, <2>2 DEF KeysApart, c
  <2> QED
    BY <2>1, <2>2
<1>9. Len(t.chain_key_recv.root) <= Len(t.root_key)
  BY <1>3, <1>4 DEF KeysApart, c
<1>10. KeysApart(t, read \cup {c})
  BY <1>4, <1>7, <1>8, <1>9 DEF KeysApart
<1> QED
  BY <1>10 DEF t, c

(* A stored key is read once and dropped. *)
LEMMA StoredApart ==
    ASSUME NEW s \in RatchetState, StoreOK(s), NEW read \in SUBSET Chain, KeysApart(s, read),
           NEW e \in s.skipped_keys
    PROVE  KeysApart(WipeSkippedKey(s, e.step), read \cup {e.key})
<1> DEFINE keys == {d \in s.skipped_keys : d.step # e.step}
           t == WipeSkippedKey(s, e.step)
<1>1. t = [s EXCEPT !.skipped_keys = keys]
  BY DEF WipeSkippedKey
<1>2. keys \subseteq s.skipped_keys /\ \A d \in keys : d.key # e.key
  BY DEF KeysApart
<1> HIDE DEF keys, t
<1>3. /\ t.root_key = s.root_key /\ t.chain_key_recv = s.chain_key_recv /\ t.skipped_keys = keys
  BY <1>1 DEF RatchetState
<1>4. KeysApart(t, read \cup {e.key})
  BY <1>2, <1>3 DEF KeysApart
<1> QED
  BY <1>4 DEF t

(* Fewer stored keys, a longer root or a step of the sending side. *)
LEMMA QuietApart ==
    ASSUME NEW s \in RatchetState, NEW t \in RatchetState, NEW read \in SUBSET Chain,
           KeysApart(s, read), t.chain_key_recv = s.chain_key_recv,
           t.skipped_keys \subseteq s.skipped_keys, Len(s.root_key) <= Len(t.root_key)
    PROVE  KeysApart(t, read)
<1>1. /\ Len(s.root_key) \in Nat /\ Len(t.root_key) \in Nat
      /\ Len(s.chain_key_recv.root) \in Nat
      /\ \A e \in s.skipped_keys : Len(e.key.root) \in Nat
      /\ \A k \in read : Len(k.root) \in Nat
  BY DEF RatchetState, SkippedKey, Chain, Root
<1> QED
  BY <1>1 DEF KeysApart

(* Where f's key comes from, and what of its chains a receive that opens f *)
(* leaves: s before, t after.                                              *)
ReadStep(s, t, f, read) ==
    /\ KeysApart(t, read \cup {f.key})
    /\ SameSeed(t.chain_key_recv, s.chain_key_recv) \/ SameSeed(t.chain_key_recv, f.key)
    /\ \A e \in t.skipped_keys :
          \/ e \in s.skipped_keys
          \/ SameSeed(e.key, s.chain_key_recv)
          \/ SameSeed(e.key, f.key)
    /\ \/ \E e \in s.skipped_keys : e.key = f.key
       \/ SameSeed(f.key, s.chain_key_recv)
       \/ f.key.root = KdfRoot(s.root_key, s.dh_public, f.sender_dh)

(* Skipping keeps the chain and stores keys of it. *)
LEMMA SkipSeeds ==
    ASSUME NEW s \in RatchetState, StoreOK(s), NEW until \in Counter, s.recv_count <= until
    PROVE  /\ SameSeed(SkipRecvUntil(s, until).chain_key_recv, s.chain_key_recv)
           /\ \A e \in SkipRecvUntil(s, until).skipped_keys :
                 e \in s.skipped_keys \/ SameSeed(e.key, s.chain_key_recv)
<1> DEFINE t == SkipRecvUntil(s, until)
           c == s.chain_key_recv
           kept == Newest(s.skipped_keys \cup PassedOver(s, until))
<1>1. s.recv_count \in Nat /\ until \in Nat /\ c \in Chain
  BY CounterFacts DEF RatchetState
<1>2. \A e \in PassedOver(s, until) : SameSeed(e.key, c)
  <2> SUFFICES ASSUME NEW n \in s.recv_count .. (until - 1)
               PROVE  SameSeed(Advance(c, n - s.recv_count), c)
    BY DEF PassedOver
  <2>1. PICK m \in Nat : m = n - s.recv_count
    BY <1>1
  <2> HIDE DEF c
  <2> QED
    BY <1>1, <2>1, AdvanceFacts DEF SameSeed
<1>3. kept \subseteq s.skipped_keys \cup PassedOver(s, until)
  BY DEF Newest
<1>4. t = [s EXCEPT !.chain_key_recv = Advance(c, until - s.recv_count),
                    !.recv_count = until, !.skipped_keys = kept]
  BY DEF SkipRecvUntil
<1>5. SameSeed(Advance(c, until - s.recv_count), c)
  <2>1. PICK m \in Nat : m = until - s.recv_count
    BY <1>1
  <2> HIDE DEF c
  <2> QED
    BY <1>1, <2>1, AdvanceFacts DEF SameSeed
<1> HIDE DEF t, c, kept
<1>6. t.chain_key_recv = Advance(c, until - s.recv_count) /\ t.skipped_keys = kept
  BY <1>4 DEF RatchetState
<1> QED
  BY <1>2, <1>3, <1>5, <1>6 DEF t, c

(* A late frame, whose key was stored. *)
LEMMA SkippedRead ==
    ASSUME NEW s \in RatchetState, StoreOK(s), NEW read \in SUBSET Chain, KeysApart(s, read),
           NEW f, IsFrame(f), OpensSkipped(s, f)
    PROVE  ReadStep(s, WipeSkippedKey(s, f.step), f, read)
<1> DEFINE t == WipeSkippedKey(s, f.step)
<1>1. PICK e \in s.skipped_keys : e.step = f.step /\ e.key = f.key
  BY DEF OpensSkipped
<1>2. KeysApart(t, read \cup {f.key})
  BY <1>1, StoredApart
<1>3. t = [s EXCEPT !.skipped_keys = {d \in s.skipped_keys : d.step # f.step}]
  BY DEF WipeSkippedKey
<1> HIDE DEF t
<1>4. t.chain_key_recv = s.chain_key_recv /\ t.skipped_keys \subseteq s.skipped_keys
  BY <1>3 DEF RatchetState
<1>5. ReadStep(s, t, f, read)
  BY <1>1, <1>2, <1>4 DEF ReadStep, SameSeed
<1> QED
  BY <1>5 DEF t

(* The next frame of the chain, or one ahead of it. *)
LEMMA SameChainRead ==
    ASSUME NEW s \in RatchetState, StoreOK(s), NEW read \in SUBSET Chain, KeysApart(s, read),
           NEW f, IsFrame(f), OpensOnSameChain(s, f)
    PROVE  ReadStep(s, NextRecvKey(OnSameChain(s, f)), f, read)
<1> DEFINE u == SkipRecvUntil(s, f.step)
           v == OnSameChain(s, f)
           t == NextRecvKey(v)
<1>1. f.step \in Counter /\ s.recv_count <= f.step /\ f.sender_dh \in Pub
  BY DEF IsFrame, OpensOnSameChain, CanSkip, Frame
<1>2. u \in RatchetState /\ KeysApart(u, read)
  BY <1>1, SkipFacts, SkipApart
<1>3. /\ SameSeed(u.chain_key_recv, s.chain_key_recv)
      /\ \A e \in u.skipped_keys : e \in s.skipped_keys \/ SameSeed(e.key, s.chain_key_recv)
  BY <1>1, SkipSeeds
<1>4. v = [u EXCEPT !.remote_dh = {f.sender_dh}]
  BY DEF OnSameChain
<1>5. v.chain_key_recv = f.key
  BY DEF OpensOnSameChain, Opens
<1> HIDE DEF u, v
<1>6. /\ v \in RatchetState /\ v.chain_key_recv = u.chain_key_recv
      /\ v.skipped_keys = u.skipped_keys /\ v.root_key = u.root_key
  BY <1>1, <1>2, <1>4 DEF RatchetState
<1>7. KeysApart(v, read)
  BY <1>2, <1>6 DEF KeysApart
<1>8. KeysApart(t, read \cup {f.key})
  BY <1>5, <1>6, <1>7, NextKeyApart
<1>9. t.skipped_keys = u.skipped_keys /\ t.chain_key_recv = Advance(f.key, 1)
  BY <1>5, <1>6 DEF NextRecvKey, RatchetState
<1>10. SameSeed(t.chain_key_recv, f.key)
  BY <1>9, AdvanceFacts DEF IsFrame, Frame, SameSeed
<1> HIDE DEF t
<1>11. ReadStep(s, t, f, read)
  BY <1>3, <1>5, <1>6, <1>8, <1>9, <1>10 DEF ReadStep
<1> QED
  BY <1>11 DEF t, v

(* A frame that turns the DH ratchet. *)
LEMMA NewChainRead ==
    ASSUME NEW s \in RatchetState, StoreOK(s), NEW read \in SUBSET Chain, KeysApart(s, read),
           NEW f, IsFrame(f), NEW first \in OpeningStarts(s, f)
    PROVE  ReadStep(s, NextRecvKey(OnNewChain(s, f, first)), f, read)
<1> DEFINE u == SkipRecvUntil(s, first)
           d == DhRatchetRecv(u, f.sender_dh)
           v == OnNewChain(s, f, first)
           t == NextRecvKey(v)
           root == KdfRoot(u.root_key, u.dh_public, f.sender_dh)
<1>1. /\ f.step \in Counter /\ f.sender_dh \in Pub /\ f.key \in Chain
      /\ s.recv_count <= first /\ first <= f.step /\ v.chain_key_recv = f.key
  BY DEF IsFrame, Frame, OpeningStarts, CanReachOnNewChain, CanSkip, Opens
<1>2. first \in Counter
  <2>1. s.recv_count \in Nat /\ f.step \in Nat /\ f.step <= COUNTER_MAX /\ COUNTER_MAX \in Nat
    BY <1>1, CounterFacts, LimitsAreNat DEF RatchetState, Counter
  <2>2. first \in Int
    BY <2>1 DEF OpeningStarts, EpochCandidates, IsFrame, Counter
  <2> QED
    BY <1>1, <2>1, <2>2 DEF Counter
<1>3. /\ u \in RatchetState /\ u.recv_count = first /\ StoreOK(u) /\ KeysApart(u, read)
      /\ u.dh_public = s.dh_public /\ u.root_key = s.root_key
  BY <1>1, <1>2, SkipFacts, SkipApart
<1>4. \A e \in u.skipped_keys : e \in s.skipped_keys \/ SameSeed(e.key, s.chain_key_recv)
  BY <1>1, <1>2, SkipSeeds
<1>5. root \in Root /\ DhChain(root) \in Chain
  BY <1>1, <1>3, KdfFacts DEF RatchetState
<1>6. d = [u EXCEPT !.root_key = root, !.chain_key_recv = DhChain(root),
                    !.remote_dh = {f.sender_dh}]
  BY DEF DhRatchetRecv
<1>7. KeysApart(d, read)
  BY <1>1, <1>3, TurnApart
<1>8. v = SkipRecvUntil(d, f.step)
  BY DEF OnNewChain
<1>9. DhChain(root).root = root
  BY DEF DhChain
<1> HIDE DEF u, d, root, v
<1>10. /\ d \in RatchetState /\ d.recv_count = first /\ d.skipped_keys = u.skipped_keys
       /\ d.chain_key_recv = DhChain(root)
  BY <1>1, <1>3, <1>5, <1>6 DEF RatchetState
<1>11. StoreOK(d)
  BY <1>3, <1>10 DEF StoreOK
<1>12. /\ v \in RatchetState /\ KeysApart(v, read)
       /\ SameSeed(v.chain_key_recv, d.chain_key_recv)
       /\ \A e \in v.skipped_keys : e \in d.skipped_keys \/ SameSeed(e.key, d.chain_key_recv)
  BY <1>1, <1>7, <1>8, <1>10, <1>11, SkipFacts, SkipApart, SkipSeeds
<1>13. f.key.root = root
  BY <1>1, <1>9, <1>10, <1>12 DEF SameSeed
<1>14. KeysApart(t, read \cup {f.key})
  BY <1>1, <1>12, NextKeyApart
<1>15. t.skipped_keys = v.skipped_keys /\ t.chain_key_recv = Advance(f.key, 1)
  BY <1>1, <1>12 DEF NextRecvKey, RatchetState
<1>16. SameSeed(t.chain_key_recv, f.key)
  BY <1>1, <1>15, AdvanceFacts DEF SameSeed
<1> HIDE DEF t
<1>17. \A e \in t.skipped_keys :
          \/ e \in s.skipped_keys
          \/ SameSeed(e.key, s.chain_key_recv)
          \/ SameSeed(e.key, f.key)
  BY <1>1, <1>4, <1>10, <1>12, <1>15 DEF SameSeed
<1>18. ReadStep(s, t, f, read)
  BY <1>3, <1>13, <1>14, <1>16, <1>17 DEF ReadStep, root
<1> QED
  BY <1>18 DEF t, v

KeysRead(p) == {f.key : f \in opened[p]}

(* No key p read can be had from its receiving side. *)
ErasedInv == \A p \in Peer : KeysApart(ratchet[p], KeysRead(p))

(* The seed of k is one that p sends on: its first chain, or one a frame of *)
(* p is sealed with.                                                       *)
ChainOf(p, k) ==
    \/ k.root = <<>> /\ k.label = p
    \/ \E f \in net : f.from = p /\ SameSeed(f.key, k)

(* A chain p began has a public of the other peer in its last secret.      *)
BegunBy(p, k) ==
    IF k.root = <<>> THEN k.label = p
    ELSE \E x \in k.root[Len(k.root)] : x[1] = Other(p)

(* Who sends on which chain: no chain is sent on by both, each peer        *)
(* receives and stores keys of the other's chains only, and reads only the *)
(* other's frames, also when its own come back to it.                      *)
OriginInv ==
    /\ \A f, g \in net : SameSeed(f.key, g.key) => f.from = g.from
    /\ \A f \in net : f.from \in Peer /\ f.sender_dh[1] = f.from /\ BegunBy(f.from, f.key)
    /\ \A p \in Peer :
          /\ BegunBy(p, ratchet[p].chain_key_send)
          /\ \A r \in ratchet[p].remote_dh : r[1] = Other(p)
          /\ ChainOf(Other(p), ratchet[p].chain_key_recv)
          /\ \A e \in ratchet[p].skipped_keys : ChainOf(Other(p), e.key)
          /\ \A f \in opened[p] : f.from = Other(p)

LEMMA InitReadInv == Init => ErasedInv /\ OriginInv
<1> SUFFICES ASSUME Init PROVE ErasedInv /\ OriginInv
  OBVIOUS
<1>1. ErasedInv
  BY DEF Init, ErasedInv, KeysRead, KeysApart, InitDirectional, BootChain
<1>2. OriginInv
  BY DEF Init, OriginInv, BegunBy, ChainOf, InitDirectional, BootChain
<1> QED
  BY <1>1, <1>2

(* Chains stay their sender's while frames are only added. *)
LEMMA ChainOfStable ==
    ASSUME net \subseteq net', NEW p, NEW k, ChainOf(p, k)
    PROVE  ChainOf(p, k)'
BY DEF ChainOf

(* The chain p sends the next frame on is one it began. *)
LEMMA BegunNext ==
    ASSUME NEW s \in RatchetState, IsOption(s.remote_dh), NEW p, s.dh_public[1] = p,
           BegunBy(p, s.chain_key_send), \A r \in s.remote_dh : r[1] = Other(p)
    PROVE  BegunBy(p, BeforeKey(s).chain_key_send) /\ BeforeKey(s).dh_public[1] = p
<1> DEFINE b == BeforeKey(s)
<1>1. CASE b = s
  BY <1>1
<1>2. CASE b # s
  <2> DEFINE fresh == <<p, s.dh_public[2] + 1>>
  <2>1. PICK r \in s.remote_dh : /\ b.dh_public = fresh
                                 /\ b.chain_key_send.root = b.root_key
                                 /\ b.root_key = KdfRoot(s.root_key, fresh, r)
    BY <1>2, SendingChain
  <2>2. r \in Pub /\ fresh \in Pub /\ s.root_key \in Root /\ fresh[1] = p
    BY DEF RatchetState, Pub
  <2> HIDE DEF fresh, b
  <2>3. /\ Len(KdfRoot(s.root_key, fresh, r)) = Len(s.root_key) + 1
        /\ KdfRoot(s.root_key, fresh, r)[Len(s.root_key) + 1] = {fresh, r}
        /\ KdfRoot(s.root_key, fresh, r) \in Root
    BY <2>2, KdfFacts
  <2>4. Len(s.root_key) \in Nat
    BY <2>2 DEF Root
  <2>5. KdfRoot(s.root_key, fresh, r) # <<>>
    BY <2>3, <2>4
  <2>6. r \in KdfRoot(s.root_key, fresh, r)[Len(KdfRoot(s.root_key, fresh, r))]
    BY <2>3
  <2>7. r[1] = Other(p)
    OBVIOUS
  <2>8. BegunBy(p, b.chain_key_send)
    BY <2>1, <2>5, <2>6, <2>7, Zenon DEF BegunBy
  <2> QED
    BY <2>1, <2>2, <2>8 DEF b
<1> QED
  BY <1>1, <1>2

LEMMA SendReadInv ==
    ASSUME RInv, RInv', SealInv, SealInv', ErasedInv, OriginInv, NEW p \in Peer, Send(p)
    PROVE  ErasedInv' /\ OriginInv'
<1> DEFINE s == ratchet[p]
           b == BeforeKey(s)
           t == RatchetSend(s)
           g == SealedFrame(p, s)
<1>1. ratchet' = [ratchet EXCEPT ![p] = t] /\ net' = net \cup {g} /\ opened' = opened
  BY DEF Send
<1>2. s \in RatchetState /\ IsOption(s.remote_dh) /\ s.dh_public[1] = p
  BY DEF RInv, TypeOK, IsOption, SealInv, DrawnInv
<1>3. b \in RatchetState
  BY <1>2, BeforeKeyFacts
<1>4. /\ t \in RatchetState /\ t.remote_dh = s.remote_dh /\ t.skipped_keys = s.skipped_keys
      /\ t.chain_key_recv = s.chain_key_recv
      /\ t.chain_key_send = Advance(b.chain_key_send, 1) /\ t.root_key = b.root_key
  BY <1>2, RatchetSendFacts
<1>5. \A r \in Peer : ratchet'[r] = IF r = p THEN t ELSE ratchet[r]
  BY <1>1 DEF RInv, TypeOK
<1>6. BegunBy(p, b.chain_key_send) /\ b.dh_public[1] = p
  BY <1>2, BegunNext DEF OriginInv
<1>7. SameSeed(t.chain_key_send, b.chain_key_send)
  <2>1. b.chain_key_send \in Chain
    BY <1>3 DEF RatchetState
  <2> HIDE DEF b, t
  <2> QED
    BY <1>4, <2>1, AdvanceFacts DEF SameSeed
<1>8. g.from = p /\ g.key = b.chain_key_send /\ g.sender_dh = b.dh_public
  BY DEF SealedFrame
<1>9. Len(s.root_key) <= Len(t.root_key)
  <2>1. CASE b = s
    BY <1>2, <1>4, <2>1 DEF RatchetState, Root
  <2>2. CASE b # s
    <3>1. PICK r \in s.remote_dh : b.root_key = KdfRoot(s.root_key, <<p, s.dh_public[2] + 1>>, r)
      BY <1>2, <2>2, SendingChain
    <3>2. r \in Pub /\ <<p, s.dh_public[2] + 1>> \in Pub /\ s.root_key \in Root
      BY <1>2 DEF RatchetState, Pub
    <3> HIDE DEF b
    <3>3. Len(KdfRoot(s.root_key, <<p, s.dh_public[2] + 1>>, r)) = Len(s.root_key) + 1
      BY <3>2, KdfFacts
    <3>4. Len(b.root_key) = Len(s.root_key) + 1 /\ Len(s.root_key) \in Nat
      BY <3>1, <3>2, <3>3 DEF Root
    <3> QED
      BY <1>4, <3>4
  <2> QED
    BY <2>1, <2>2
<1> HIDE DEF s, b, t, g
<1>10. ErasedInv'
  <2> SUFFICES ASSUME NEW r \in Peer PROVE KeysApart(ratchet'[r], KeysRead(r)')
    BY DEF ErasedInv
  <2>1. KeysRead(r)' = KeysRead(r) /\ KeysApart(ratchet[r], KeysRead(r)) /\ KeysRead(r) \subseteq Chain
    BY <1>1 DEF KeysRead, ErasedInv, RInv, TypeOK, Frame
  <2>2. CASE r = p
    BY <1>2, <1>4, <1>5, <1>9, <2>1, <2>2, QuietApart DEF s
  <2>3. CASE r # p
    BY <1>5, <2>1, <2>3
  <2> QED
    BY <2>2, <2>3
<1>11. \A f \in net : SameSeed(f.key, g.key) => f.from = p
  <2> SUFFICES ASSUME NEW f \in net, SameSeed(f.key, g.key) PROVE f.from = p
    OBVIOUS
  <2>1. f \in net' /\ SameSeed(f.key, ratchet'[p].chain_key_send)
    BY <1>1, <1>5, <1>7, <1>8 DEF SameSeed
  <2> QED
    BY <2>1 DEF SealInv, BehindInv
<1>12. \A f, h \in net' : SameSeed(f.key, h.key) => f.from = h.from
  BY <1>1, <1>8, <1>11 DEF OriginInv, SameSeed
<1>13. \A f \in net' : f.from \in Peer /\ f.sender_dh[1] = f.from /\ BegunBy(f.from, f.key)
  BY <1>1, <1>6, <1>8 DEF OriginInv
<1>14. BegunBy(p, t.chain_key_send)
  BY <1>6, <1>7 DEF BegunBy, SameSeed
<1>15. \A r \in Peer : /\ BegunBy(r, ratchet'[r].chain_key_send)
                       /\ \A x \in ratchet'[r].remote_dh : x[1] = Other(r)
                       /\ \A f \in opened'[r] : f.from = Other(r)
                       /\ ratchet'[r].chain_key_recv = ratchet[r].chain_key_recv
                       /\ ratchet'[r].skipped_keys = ratchet[r].skipped_keys
  BY <1>1, <1>4, <1>5, <1>14 DEF OriginInv, s
<1>16. \A r \in Peer : /\ ChainOf(Other(r), ratchet[r].chain_key_recv)'
                       /\ \A e \in ratchet'[r].skipped_keys : ChainOf(Other(r), e.key)'
  <2>1. \A r, k : ChainOf(r, k) => (k.root = <<>> /\ k.label = r) \/ \E f \in net' : f.from = r /\ SameSeed(f.key, k)
    BY <1>1 DEF ChainOf
  <2> QED
    BY <1>15, <2>1 DEF OriginInv, ChainOf
<1>17. OriginInv'
  BY <1>12, <1>13, <1>15, <1>16 DEF OriginInv, ChainOf
<1> QED
  BY <1>10, <1>17

(* A receive that opens f keeps both, whichever path it took. *)
LEMMA CommitReadInv ==
    ASSUME RInv, SealInv, ErasedInv, OriginInv, NEW p \in Peer, NEW f \in net, NEW t,
           RecvStep(ratchet[p], t, f), ReadStep(ratchet[p], t, f, KeysRead(p)),
           Commit(p, f, t)
    PROVE  ErasedInv' /\ OriginInv'
<1> DEFINE s == ratchet[p]
<1>1. /\ net' = net
      /\ \A q \in Peer : ratchet'[q] = IF q = p THEN t ELSE ratchet[q]
      /\ \A q \in Peer : opened'[q] = IF q = p THEN opened[p] \cup {f} ELSE opened[q]
  BY DEF Commit, RInv, TypeOK
<1>2. /\ s \in RatchetState /\ s.root_key \in Root /\ s.dh_public \in Pub /\ s.dh_public[1] = p
      /\ f.sender_dh \in Pub /\ f.key \in Chain
  BY DEF RInv, TypeOK, RatchetState, SealInv, DrawnInv, Frame
<1>3. ErasedInv'
  <2> SUFFICES ASSUME NEW q \in Peer PROVE KeysApart(ratchet'[q], KeysRead(q)')
    BY DEF ErasedInv
  <2>1. CASE q = p
    <3>1. KeysRead(q)' = KeysRead(p) \cup {f.key}
      BY <1>1, <2>1 DEF KeysRead
    <3> QED
      BY <1>1, <2>1, <3>1 DEF ReadStep
  <2>2. CASE q # p
    <3>1. KeysRead(q)' = KeysRead(q)
      BY <1>1, <2>2 DEF KeysRead
    <3> QED
      BY <1>1, <2>2, <3>1 DEF ErasedInv
  <2> QED
    BY <2>1, <2>2
<1>4. f.from = Other(p)
  <2>1. f.from \in Peer /\ f.sender_dh[1] = f.from /\ BegunBy(f.from, f.key)
    BY DEF OriginInv
  <2>2. ASSUME NEW k, ChainOf(Other(p), k), SameSeed(f.key, k) PROVE f.from = Other(p)
    <3>1. CASE k.root = <<>> /\ k.label = Other(p)
      BY <2>1, <2>2, <3>1 DEF BegunBy, SameSeed
    <3>2. CASE \E g \in net : g.from = Other(p) /\ SameSeed(g.key, k)
      BY <2>2, <3>2 DEF OriginInv, SameSeed
    <3> QED
      BY <2>2, <3>1, <3>2 DEF ChainOf
  <2>3. CASE \E e \in s.skipped_keys : e.key = f.key
    BY <2>2, <2>3 DEF OriginInv, SameSeed
  <2>4. CASE SameSeed(f.key, s.chain_key_recv)
    BY <2>2, <2>4 DEF OriginInv
  <2>5. CASE f.key.root = KdfRoot(s.root_key, s.dh_public, f.sender_dh)
    <3> HIDE DEF s
    <3>0. PICK root \in Root, a \in Pub, b \in Pub :
             root = s.root_key /\ a = s.dh_public /\ b = f.sender_dh
      BY <1>2
    <3>1. /\ Len(f.key.root) = Len(root) + 1 /\ Len(root) \in Nat
          /\ f.key.root[Len(root) + 1] = {s.dh_public, f.sender_dh}
      <4>1. f.key.root = KdfRoot(root, a, b)
        BY <2>5, <3>0
      <4>2. /\ Len(KdfRoot(root, a, b)) = Len(root) + 1
            /\ KdfRoot(root, a, b)[Len(root) + 1] = {a, b}
        BY KdfFacts
      <4>3. Len(root) \in Nat
        BY DEF Root
      <4> QED
        BY <3>0, <4>1, <4>2, <4>3, Zenon
    <3>2. f.key.root # <<>>
      BY <3>1
    <3>3. \E x \in {s.dh_public, f.sender_dh} : x[1] = Other(f.from)
      BY <2>1, <3>1, <3>2 DEF BegunBy
    <3>4. p = Other(f.from)
      BY <1>2, <2>1, <3>3, PeerFacts
    <3> QED
      BY <2>1, <3>4, PeerFacts
  <2> QED
    BY <2>3, <2>4, <2>5 DEF ReadStep
<1>5. \A k : SameSeed(k, f.key) => ChainOf(Other(p), k)
  BY <1>4 DEF ChainOf, SameSeed
<1>6. \A k : SameSeed(k, s.chain_key_recv) => ChainOf(Other(p), k)
  BY DEF OriginInv, ChainOf, SameSeed
<1>7. ChainOf(Other(p), t.chain_key_recv) /\ \A e \in t.skipped_keys : ChainOf(Other(p), e.key)
  BY <1>5, <1>6 DEF ReadStep, OriginInv
<1>8. \A r \in t.remote_dh : r[1] = Other(p)
  BY <1>4 DEF RecvStep, OriginInv
<1>9. t.chain_key_send = s.chain_key_send
  BY DEF RecvStep
<1>10. \A q, k : ChainOf(q, k)' <=> ChainOf(q, k)
  BY <1>1 DEF ChainOf
<1> HIDE DEF s
<1>11. ASSUME NEW q \in Peer
       PROVE  /\ BegunBy(q, ratchet'[q].chain_key_send)
              /\ \A r \in ratchet'[q].remote_dh : r[1] = Other(q)
              /\ ChainOf(Other(q), ratchet'[q].chain_key_recv)
              /\ \A e \in ratchet'[q].skipped_keys : ChainOf(Other(q), e.key)
              /\ \A h \in opened'[q] : h.from = Other(q)
  <2>1. CASE q = p
    BY <1>1, <1>4, <1>7, <1>8, <1>9, <2>1 DEF OriginInv, s
  <2>2. CASE q # p
    BY <1>1, <2>2 DEF OriginInv
  <2> QED
    BY <2>1, <2>2
<1>12. OriginInv'
  BY <1>1, <1>11 DEF OriginInv, ChainOf
<1> QED
  BY <1>3, <1>12

(* A step that opens and sends nothing and stores no key keeps both. *)
LEMMA QuietReadInv ==
    ASSUME RInv, RInv', ErasedInv, OriginInv, net' = net, opened' = opened,
           \A p \in Peer : /\ ratchet'[p].chain_key_send = ratchet[p].chain_key_send
                           /\ ratchet'[p].chain_key_recv = ratchet[p].chain_key_recv
                           /\ ratchet'[p].root_key = ratchet[p].root_key
                           /\ ratchet'[p].remote_dh = ratchet[p].remote_dh
                           /\ ratchet'[p].skipped_keys \subseteq ratchet[p].skipped_keys
    PROVE  ErasedInv' /\ OriginInv'
<1>1. ErasedInv'
  BY DEF ErasedInv, KeysApart, KeysRead
<1>2. OriginInv'
  BY DEF OriginInv, ChainOf
<1> QED
  BY <1>1, <1>2

LEMMA NextReadInv ==
    ASSUME RInv, RInv', SealInv, SealInv', ErasedInv, OriginInv, [Next]_vars
    PROVE  ErasedInv' /\ OriginInv'
<1>0. /\ \A p \in Peer : /\ ratchet[p] \in RatchetState
                         /\ IsOption(ratchet[p].remote_dh)
                         /\ StoreOK(ratchet[p])
                         /\ KeysRead(p) \in SUBSET Chain
                         /\ KeysApart(ratchet[p], KeysRead(p))
      /\ \A f \in net : IsFrame(f)
  BY DEF RInv, TypeOK, StoreInv, IsOption, IsFrame, ErasedInv, KeysRead, Frame
<1>1. ASSUME NEW p \in Peer, Send(p) PROVE ErasedInv' /\ OriginInv'
  BY <1>1, SendReadInv
<1>2. ASSUME NEW p \in Peer, NEW f \in net, ReceiveSkipped(p, f) PROVE ErasedInv' /\ OriginInv'
  <2> DEFINE t == WipeSkippedKey(ratchet[p], f.step)
  <2>1. RecvStep(ratchet[p], t, f) /\ ReadStep(ratchet[p], t, f, KeysRead(p)) /\ Commit(p, f, t)
    BY <1>0, <1>2, SkippedStep, SkippedRead DEF ReceiveSkipped
  <2> QED
    BY <2>1, CommitReadInv
<1>3. ASSUME NEW p \in Peer, NEW f \in net, ReceiveSameChain(p, f) PROVE ErasedInv' /\ OriginInv'
  <2> DEFINE t == NextRecvKey(OnSameChain(ratchet[p], f))
  <2>1. RecvStep(ratchet[p], t, f) /\ ReadStep(ratchet[p], t, f, KeysRead(p)) /\ Commit(p, f, t)
    BY <1>0, <1>3, SameChainStep, SameChainRead DEF ReceiveSameChain
  <2> QED
    BY <2>1, CommitReadInv
<1>4. ASSUME NEW p \in Peer, NEW f \in net, ReceiveNewChain(p, f) PROVE ErasedInv' /\ OriginInv'
  <2>1. PICK first \in OpeningStarts(ratchet[p], f) :
            Commit(p, f, NextRecvKey(OnNewChain(ratchet[p], f, first)))
    BY <1>4 DEF ReceiveNewChain
  <2> DEFINE t == NextRecvKey(OnNewChain(ratchet[p], f, first))
  <2>2. RecvStep(ratchet[p], t, f) /\ ReadStep(ratchet[p], t, f, KeysRead(p))
    BY <1>0, NewChainStep, NewChainRead
  <2> QED
    BY <2>1, <2>2, CommitReadInv
<1>5. ASSUME NEW p \in Peer, NEW step \in LineSteps(p), ExpireLine(p, step)
      PROVE  ErasedInv' /\ OriginInv'
  <2> DEFINE t == WipeSkippedKey(ratchet[p], step)
  <2>1. /\ net' = net /\ opened' = opened
        /\ \A q \in Peer : ratchet'[q] = IF q = p THEN t ELSE ratchet[q]
    BY <1>5 DEF ExpireLine, RInv, TypeOK
  <2>2. /\ t.chain_key_send = ratchet[p].chain_key_send
        /\ t.chain_key_recv = ratchet[p].chain_key_recv
        /\ t.root_key = ratchet[p].root_key /\ t.remote_dh = ratchet[p].remote_dh
        /\ t.skipped_keys \subseteq ratchet[p].skipped_keys
    BY <1>0 DEF WipeSkippedKey, RatchetState
  <2> HIDE DEF t
  <2> QED
    BY <2>1, <2>2, QuietReadInv
<1>6. CASE UNCHANGED vars
  BY <1>6, QuietReadInv DEF vars
<1>7. ASSUME NEW p \in Peer, NEW f \in net, Reject(p, f) PROVE ErasedInv' /\ OriginInv'
  BY <1>6, <1>7 DEF Reject
<1>8. ASSUME NEW p \in Peer, Reload(p) PROVE ErasedInv' /\ OriginInv'
  BY <1>6, <1>8, ReloadKeeps DEF RInv
<1> QED
  BY <1>1, <1>2, <1>3, <1>4, <1>5, <1>6, <1>7, <1>8 DEF Next, Receive

LEMMA ReadInvHolds == Spec => [](ErasedInv /\ OriginInv)
<1>1. Init => ErasedInv /\ OriginInv
  BY InitReadInv
<1>2. /\ RInv /\ RInv' /\ SealInv /\ SealInv' /\ (ErasedInv /\ OriginInv) /\ [Next]_vars
      => (ErasedInv /\ OriginInv)'
  BY NextReadInv
<1> QED
  BY <1>1, <1>2, RInvHolds, SealInvHolds, PTL DEF Spec

(* Forward secrecy of what is held directly: once a frame was read no chain *)
(* and no stored key of either peer yields its key, however late or often   *)
(* frames come and on whichever path of recv_inner it was opened.           *)
THEOREM ReadKeysStayErased == Spec => []ReadKeysErased
<1>1. RInv /\ SealInv /\ ErasedInv /\ OriginInv => ReadKeysErased
  <2> SUFFICES ASSUME RInv, SealInv, ErasedInv, OriginInv,
                      NEW p \in Peer, NEW q \in Peer, NEW f \in opened[p]
               PROVE  ~HeldKey(ratchet[q], f.key)
    BY DEF ReadKeysErased
  <2>1. f \in net /\ f.key.idx \in Nat /\ f.from = Other(p) /\ BegunBy(f.from, f.key)
    BY DEF RInv, TypeOK, Frame, Chain, OriginInv
  <2>2. \A c \in {ratchet[q].chain_key_send, ratchet[q].chain_key_recv} : c.idx \in Nat
    BY DEF RInv, TypeOK, RatchetState, Chain
  <2>3. SameSeed(f.key, ratchet[q].chain_key_send) => f.key.idx < ratchet[q].chain_key_send.idx
    BY <2>1 DEF SealInv, BehindInv
  <2>4. CASE q = p
    <3>1. f.key \in KeysRead(q)
      BY <2>4 DEF KeysRead
    <3>2. /\ SameSeed(f.key, ratchet[q].chain_key_recv) => f.key.idx < ratchet[q].chain_key_recv.idx
          /\ \A e \in ratchet[q].skipped_keys : e.key # f.key
      BY <3>1 DEF ErasedInv, KeysApart
    <3> QED
      BY <2>1, <2>2, <2>3, <3>2 DEF HeldKey, SameSeed
  <2>5. CASE q # p
    <3>1. Other(q) = p /\ Other(p) # p
      BY <2>5, PeerFacts DEF Peer, Other
    <3>2. ASSUME NEW k, ChainOf(p, k), SameSeed(f.key, k) PROVE FALSE
      <4>1. CASE k.root = <<>> /\ k.label = p
        BY <2>1, <3>1, <3>2, <4>1 DEF BegunBy, SameSeed
      <4>2. CASE \E g \in net : g.from = p /\ SameSeed(g.key, k)
        BY <2>1, <3>1, <3>2, <4>2 DEF OriginInv, SameSeed
      <4> QED
        BY <3>2, <4>1, <4>2 DEF ChainOf
    <3>3. ~SameSeed(f.key, ratchet[q].chain_key_recv)
      BY <3>1, <3>2 DEF OriginInv
    <3>4. \A e \in ratchet[q].skipped_keys : e.key # f.key
      BY <3>1, <3>2 DEF OriginInv, SameSeed
    <3> QED
      BY <2>1, <2>2, <2>3, <3>3, <3>4 DEF HeldKey, SameSeed
  <2> QED
    BY <2>4, <2>5
<1> QED
  BY <1>1, RInvHolds, SealInvHolds, ReadInvHolds, PTL

----------------------------------------------------------------------------
(* Late frames open *)

(* Entries of distinct steps in an interval are no more than its steps.    *)
LEMMA FewBetween ==
    ASSUME NEW keys, NEW a \in Int, NEW b \in Int, a <= b + 1, UniqueSteps(keys),
           \A e \in keys : e.step \in a .. b
    PROVE  Cardinality(keys) <= b + 1 - a
<1> DEFINE g == [e \in keys |-> e.step]
<1>1. g \in Injection(keys, a .. b)
  BY DEF Injection, IsInjective, UniqueSteps
<1>2. /\ IsFiniteSet(a .. b)
      /\ Cardinality(a .. b) = IF a > b THEN 0 ELSE b - a + 1
  BY FS_Interval
<1>3. Cardinality(keys) <= Cardinality(a .. b)
  BY <1>1, <1>2, FS_Injection
<1>4. Cardinality(a .. b) = b + 1 - a
  BY <1>2
<1> QED
  BY <1>3, <1>4

(* What a skip passes over has its own steps, and none is stored before.   *)
LEMMA PassedFacts ==
    ASSUME NEW s \in RatchetState, StoreOK(s), NEW until \in Counter, s.recv_count <= until
    PROVE  /\ UniqueSteps(s.skipped_keys \cup PassedOver(s, until))
           /\ \A e \in s.skipped_keys \cup PassedOver(s, until) : e.step \in Nat /\ e.step < until
<1>1. /\ s.recv_count \in Nat /\ until \in Nat
      /\ \A e \in s.skipped_keys : e.step \in Nat /\ e.step < s.recv_count
  BY CounterFacts DEF RatchetState, SkippedKey, StoreOK
<1>2. \A e \in PassedOver(s, until) :
         e.step \in Nat /\ s.recv_count <= e.step /\ e.step < until
  BY <1>1 DEF PassedOver
<1>3. \A d, e \in PassedOver(s, until) : d.step = e.step => d = e
  BY DEF PassedOver
<1>4. \A d, e \in s.skipped_keys : d.step = e.step => d = e
  BY DEF StoreOK, UniqueSteps
<1>5. \A d \in PassedOver(s, until), e \in s.skipped_keys : d.step # e.step
  BY <1>1, <1>2
<1>6. UniqueSteps(s.skipped_keys \cup PassedOver(s, until))
  BY <1>3, <1>4, <1>5 DEF UniqueSteps
<1>7. \A e \in s.skipped_keys \cup PassedOver(s, until) : e.step \in Nat /\ e.step < until
  BY <1>1, <1>2
<1> QED
  BY <1>6, <1>7

(* The key of a step fewer than MAX_SKIPPED_KEYS behind survives a skip, be *)
(* it stored before or passed over now.                                    *)
LEMMA SkipStores ==
    ASSUME NEW s \in RatchetState, StoreOK(s), NEW until \in Counter, s.recv_count <= until,
           NEW n \in Nat, n < until, until - n <= MAX_SKIPPED_KEYS, NEW k,
           \/ [step |-> n, key |-> k] \in s.skipped_keys
           \/ s.recv_count <= n /\ k = Advance(s.chain_key_recv, n - s.recv_count)
    PROVE  [step |-> n, key |-> k] \in SkipRecvUntil(s, until).skipped_keys
<1> DEFINE e == [step |-> n, key |-> k]
           keys == s.skipped_keys \cup PassedOver(s, until)
           above == {d \in keys : d.step > e.step}
<1>1. s.recv_count \in Nat /\ until \in Nat
  BY CounterFacts DEF RatchetState
<1>2. e \in keys
  <2>1. CASE e \in s.skipped_keys
    BY <2>1
  <2>2. CASE s.recv_count <= n /\ k = Advance(s.chain_key_recv, n - s.recv_count)
    <3>1. n \in s.recv_count .. (until - 1)
      BY <1>1, <2>2
    <3> QED
      BY <2>2, <3>1 DEF PassedOver
  <2> QED
    BY <2>1, <2>2
<1>3. UniqueSteps(keys) /\ \A d \in keys : d.step \in Nat /\ d.step < until
  BY PassedFacts
<1>4. Cardinality(above) < MAX_SKIPPED_KEYS
  <2>1. UniqueSteps(above)
    BY <1>3 DEF UniqueSteps
  <2>2. \A d \in above : d.step \in (n + 1) .. (until - 1)
    <3> TAKE d \in above
    <3>1. d.step \in Nat /\ d.step < until /\ d.step > n
      BY <1>3
    <3> QED
      BY <1>1, <3>1
  <2> HIDE DEF above
  <2>3. Cardinality(above) <= (until - 1) + 1 - (n + 1)
    BY <1>1, <2>1, <2>2, FewBetween
  <2>4. IsFiniteSet(above) /\ Cardinality(above) \in Nat
    <3>1. above \subseteq keys
      BY DEF above
    <3>2. IsFiniteSet(keys)
      <4>1. PICK m \in Nat : m = until
        BY <1>1
      <4>2. [d \in keys |-> d.step] \in Injection(keys, 0 .. m)
        BY <1>3, <4>1 DEF Injection, IsInjective, UniqueSteps
      <4> QED
        BY <4>2, FS_Interval, FS_Injection
    <3> QED
      BY <3>1, <3>2, FS_Subset, FS_CardinalityType
  <2> QED
    BY <1>1, <2>3, <2>4, LimitsAreNat
<1>5. e \in Newest(keys)
  BY <1>2, <1>4 DEF Newest
<1>6. SkipRecvUntil(s, until)
        = [s EXCEPT !.chain_key_recv = Advance(s.chain_key_recv, until - s.recv_count),
                    !.recv_count = until, !.skipped_keys = Newest(keys)]
  BY DEF SkipRecvUntil
<1> HIDE DEF keys, e
<1>7. SkipRecvUntil(s, until).skipped_keys = Newest(keys)
  BY <1>6 DEF RatchetState
<1> QED
  BY <1>5, <1>7 DEF e

InRoot(x, root) == \E i \in 1 .. Len(root) : x \in root[i]

(* The key k of an epoch whose public is pub: the last secret of its root   *)
(* has this public of the sender and no other, and the secrets before it   *)
(* have all its earlier ones.                                              *)
KeyFits(k, pub) ==
    IF k.root = <<>> THEN pub[2] = 0
    ELSE /\ pub[2] > 0 /\ k.label = "dh"
         /\ pub \in k.root[Len(k.root)]
         /\ \A x \in k.root[Len(k.root)] : x[1] = pub[1] => x = pub
         /\ \A e \in 1 .. pub[2] - 1 :
               \E i \in 1 .. Len(k.root) - 1 : <<pub[1], e>> \in k.root[i]

(* The sending side of s: its root has every public it drew. *)
RootOK(q, s) ==
    /\ s.dh_public[1] = q
    /\ \A e \in 1 .. s.dh_public[2] : InRoot(<<q, e>>, s.root_key)
    /\ KeyFits(s.chain_key_send, s.dh_public)

(* The position of s against the frames S sent so far: frames of its epoch *)
(* are on its chain, as far back as their steps say, and none of another   *)
(* epoch has a step of this chain.                                         *)
HeadOK(s, S) ==
    /\ s.chain_key_send.root = <<>> => s.chain_key_send.idx = s.send_count
    /\ \A f \in S :
          /\ f.step < s.send_count
          /\ f.sender_dh[2] <= s.dh_public[2]
          /\ f.sender_dh[2] = s.dh_public[2] =>
                /\ SameSeed(f.key, s.chain_key_send)
                /\ f.step - f.key.idx = s.send_count - s.chain_key_send.idx
          /\ f.step >= s.send_count - s.chain_key_send.idx
                => f.sender_dh[2] = s.dh_public[2]

(* The same of the frames of one peer among themselves: steps tell them    *)
(* apart, epochs follow each other, and an epoch is one stretch of steps.  *)
FramesOK(S) ==
    /\ \A f \in S : f.key.root = <<>> => f.key.idx = f.step
    /\ \A f, g \in S :
        /\ f.step = g.step => f = g
        /\ f.step < g.step => f.sender_dh[2] <= g.sender_dh[2]
        /\ f.sender_dh[2] = g.sender_dh[2] =>
              SameSeed(f.key, g.key) /\ f.step - f.key.idx = g.step - g.key.idx
        /\ g.step <= f.step /\ g.step >= f.step - f.key.idx
              => f.sender_dh[2] = g.sender_dh[2]

(* A DH step keeps the secrets before and adds one. *)
LEMMA KdfKeeps ==
    ASSUME NEW root \in Root, NEW a \in Pub, NEW b \in Pub, NEW R, R = KdfRoot(root, a, b)
    PROVE  /\ Len(R) - 1 = Len(root) /\ Len(root) \in Nat /\ R # <<>>
           /\ R[Len(R)] = {a, b}
           /\ \A i \in 1 .. Len(R) - 1 : R[i] = root[i]
           /\ \A x : InRoot(x, R) <=> x = a \/ x = b \/ InRoot(x, root)
<1>1. /\ Len(R) = Len(root) + 1 /\ R[Len(root) + 1] = {a, b} /\ R \in Root
  BY KdfFacts
<1>2. Len(root) \in Nat
  BY DEF Root
<1>3. \A i \in 1 .. Len(root) : R[i] = root[i]
  BY DEF KdfRoot, Root
<1>4. R # <<>> /\ Len(R) - 1 = Len(root)
  BY <1>1, <1>2
<1>5. R[Len(R)] = {a, b}
  BY <1>1
<1>6. \A i : i \in 1 .. Len(R) <=> i \in 1 .. Len(root) \/ i = Len(root) + 1
  BY <1>1, <1>2
<1>7. \A x : InRoot(x, R) <=> x = a \/ x = b \/ InRoot(x, root)
  BY <1>1, <1>3, <1>6 DEF InRoot
<1> QED
  BY <1>2, <1>3, <1>4, <1>5, <1>7

(* The DH step before a send draws the next public and begins its epoch.   *)
LEMMA BeforeRoot ==
    ASSUME NEW q \in Peer, NEW s \in RatchetState, IsOption(s.remote_dh), RootOK(q, s),
           \A r \in s.remote_dh : r[1] = Other(q)
    PROVE  RootOK(q, BeforeKey(s))
<1> DEFINE b == BeforeKey(s)
<1>1. CASE b = s
  BY <1>1
<1>2. CASE b # s
  <2> DEFINE n == s.dh_public[2] + 1
             fresh == <<q, n>>
  <2>1. PICK r \in s.remote_dh : /\ b.dh_public = fresh
                                 /\ b.chain_key_send = DhChain(b.root_key)
                                 /\ b.root_key = KdfRoot(s.root_key, fresh, r)
    BY <1>2, SendingChain DEF RootOK
  <2>2. /\ s.dh_public[2] \in Nat /\ n \in Nat /\ fresh \in Pub /\ r \in Pub /\ s.root_key \in Root
        /\ fresh[1] = q /\ fresh[2] = n /\ n > 0
    BY DEF RatchetState, Pub
  <2>3. r[1] # q
    BY PeerFacts
  <2>4. \A e \in 1 .. n - 1 : InRoot(<<q, e>>, s.root_key)
    BY <2>2 DEF RootOK
  <2>5. PICK R : R = b.root_key
    OBVIOUS
  <2> HIDE DEF fresh, n, b
  <2>6. /\ Len(R) - 1 = Len(s.root_key) /\ R # <<>> /\ R[Len(R)] = {fresh, r}
        /\ \A i \in 1 .. Len(R) - 1 : R[i] = s.root_key[i]
        /\ \A x : InRoot(x, R) <=> x = fresh \/ x = r \/ InRoot(x, s.root_key)
    BY <2>1, <2>2, <2>5, KdfKeeps
  <2>7. \A e \in 1 .. n - 1 : \E i \in 1 .. Len(R) - 1 : <<q, e>> \in R[i]
    BY <2>4, <2>6 DEF InRoot
  <2>8. /\ b.chain_key_send.root = R /\ b.chain_key_send.label = "dh"
    BY <2>1, <2>5 DEF DhChain
  <2>9. KeyFits(b.chain_key_send, b.dh_public)
    <3>1. /\ b.dh_public[2] > 0 /\ b.dh_public \in R[Len(R)]
          /\ \A x \in R[Len(R)] : x[1] = b.dh_public[1] => x = b.dh_public
          /\ \A e \in 1 .. b.dh_public[2] - 1 :
                \E i \in 1 .. Len(R) - 1 : <<b.dh_public[1], e>> \in R[i]
      BY <2>1, <2>2, <2>3, <2>6, <2>7
    <3> QED
      BY <2>6, <2>8, <3>1 DEF KeyFits
  <2>10. \A e \in 1 .. n : InRoot(<<q, e>>, R)
    <3> TAKE e \in 1 .. n
    <3>1. CASE e = n
      BY <2>6, <3>1 DEF fresh
    <3>2. CASE e # n
      BY <2>2, <2>4, <2>6, <3>2
    <3> QED
      BY <3>1, <3>2
  <2> QED
    BY <2>1, <2>2, <2>5, <2>9, <2>10 DEF RootOK, b
<1> QED
  BY <1>1, <1>2

(* It also begins a stretch of steps. *)
LEMMA BeforeHead ==
    ASSUME NEW q \in Peer, NEW s \in RatchetState, IsOption(s.remote_dh), s.dh_public[1] = q,
           NEW S \in SUBSET Frame, HeadOK(s, S)
    PROVE  HeadOK(BeforeKey(s), S)
<1> DEFINE b == BeforeKey(s)
<1>1. CASE b = s
  BY <1>1
<1>2. CASE b # s
  <2>1. PICK r \in s.remote_dh : /\ b.dh_public = <<q, s.dh_public[2] + 1>>
                                 /\ b.chain_key_send = DhChain(b.root_key)
                                 /\ b.root_key = KdfRoot(s.root_key, <<q, s.dh_public[2] + 1>>, r)
    BY <1>2, SendingChain
  <2>2. b.send_count = s.send_count
    BY BeforeKeyFacts
  <2>3. /\ s.dh_public[2] \in Nat /\ s.send_count \in Nat /\ r \in Pub
        /\ <<q, s.dh_public[2] + 1>> \in Pub /\ s.root_key \in Root
        /\ \A f \in S : f.step \in Nat /\ f.sender_dh[2] \in Nat
    BY CounterFacts DEF RatchetState, Pub, Frame
  <2> HIDE DEF b
  <2>4. PICK R : R = b.root_key
    OBVIOUS
  <2>5. R # <<>>
    BY <2>1, <2>3, <2>4, KdfKeeps
  <2>6. b.chain_key_send.root # <<>> /\ b.chain_key_send.idx = 0
    BY <2>1, <2>4, <2>5 DEF DhChain
  <2>7. b.dh_public[2] = s.dh_public[2] + 1
    BY <2>1
  <2>8. \A f \in S : f.step < s.send_count /\ f.sender_dh[2] <= s.dh_public[2]
    BY DEF HeadOK
  <2>9. \A f \in S : /\ f.sender_dh[2] <= b.dh_public[2] /\ f.sender_dh[2] # b.dh_public[2]
                     /\ ~(f.step >= b.send_count - b.chain_key_send.idx)
    BY <2>2, <2>3, <2>6, <2>7, <2>8
  <2> QED
    BY <2>2, <2>6, <2>8, <2>9 DEF HeadOK, b
<1> QED
  BY <1>1, <1>2

(* The frame sealed at the head of b takes its place behind it.            *)
LEMMA PushFrame ==
    ASSUME NEW b \in RatchetState, NEW t \in RatchetState, NEW S \in SUBSET Frame, NEW g \in Frame,
           HeadOK(b, S), FramesOK(S),
           g.step = b.send_count, g.key = b.chain_key_send, g.sender_dh = b.dh_public,
           t.send_count = b.send_count + 1, t.chain_key_send = Advance(b.chain_key_send, 1),
           t.dh_public = b.dh_public
    PROVE  HeadOK(t, S \cup {g}) /\ FramesOK(S \cup {g})
<1> DEFINE c == b.chain_key_send
<1>1. /\ c \in Chain /\ c.idx \in Nat /\ b.send_count \in Nat /\ b.dh_public[2] \in Nat
  BY CounterFacts DEF RatchetState, Chain, Pub
<1>2. \A f \in S \cup {g} : /\ f.step \in Nat /\ f.sender_dh[2] \in Nat /\ f.key.idx \in Nat
  BY DEF Frame, Pub, Chain
<1>3. /\ t.chain_key_send.root = c.root /\ t.chain_key_send.label = c.label
      /\ t.chain_key_send.idx = c.idx + 1
  BY <1>1 DEF Advance, Chain
<1>4. /\ c.root = <<>> => c.idx = b.send_count
      /\ \A f \in S :
          /\ f.step < b.send_count
          /\ f.sender_dh[2] <= b.dh_public[2]
          /\ f.sender_dh[2] = b.dh_public[2] =>
                SameSeed(f.key, c) /\ f.step - f.key.idx = b.send_count - c.idx
          /\ f.step >= b.send_count - c.idx => f.sender_dh[2] = b.dh_public[2]
  BY DEF HeadOK
<1>5. g.key = c
  OBVIOUS
<1> HIDE DEF c
<1>6. (b.send_count + 1) - (c.idx + 1) = b.send_count - c.idx
  BY <1>1
<1>7. \A f \in S : f.step < b.send_count + 1 /\ f.step # g.step /\ ~(g.step < f.step) /\ ~(g.step <= f.step)
  BY <1>1, <1>2, <1>4
<1>8. SameSeed(c, t.chain_key_send) /\ \A k : SameSeed(k, c) => SameSeed(k, t.chain_key_send) /\ SameSeed(c, k)
  BY <1>3 DEF SameSeed
<1>9. HeadOK(t, S \cup {g})
  <2>1. t.chain_key_send.root = <<>> => t.chain_key_send.idx = t.send_count
    BY <1>1, <1>3, <1>4
  <2>2. ASSUME NEW f \in S
        PROVE  /\ f.step < t.send_count
               /\ f.sender_dh[2] <= t.dh_public[2]
               /\ f.sender_dh[2] = t.dh_public[2] =>
                     /\ SameSeed(f.key, t.chain_key_send)
                     /\ f.step - f.key.idx = t.send_count - t.chain_key_send.idx
               /\ f.step >= t.send_count - t.chain_key_send.idx
                     => f.sender_dh[2] = t.dh_public[2]
    BY <1>3, <1>4, <1>6, <1>7, <1>8
  <2>3. /\ g.step < t.send_count
        /\ g.sender_dh[2] <= t.dh_public[2]
        /\ SameSeed(g.key, t.chain_key_send)
        /\ g.step - g.key.idx = t.send_count - t.chain_key_send.idx
        /\ g.sender_dh[2] = t.dh_public[2]
    BY <1>1, <1>3, <1>5, <1>6, <1>8
  <2> QED
    BY <2>1, <2>2, <2>3 DEF HeadOK
<1>10. FramesOK(S \cup {g})
  <2>5. \A f \in S \cup {g} : f.key.root = <<>> => f.key.idx = f.step
    BY <1>4, <1>5 DEF FramesOK
  <2> SUFFICES ASSUME NEW f \in S \cup {g}, NEW h \in S \cup {g}
               PROVE  /\ f.step = h.step => f = h
                      /\ f.step < h.step => f.sender_dh[2] <= h.sender_dh[2]
                      /\ f.sender_dh[2] = h.sender_dh[2] =>
                            SameSeed(f.key, h.key) /\ f.step - f.key.idx = h.step - h.key.idx
                      /\ h.step <= f.step /\ h.step >= f.step - f.key.idx
                            => f.sender_dh[2] = h.sender_dh[2]
    BY <2>5 DEF FramesOK
  <2>1. CASE f \in S /\ h \in S
    BY <2>1 DEF FramesOK
  <2>2. CASE f \in S /\ h = g
    BY <1>2, <1>4, <1>5, <1>7, <2>2
  <2>3. CASE f = g /\ h \in S
    BY <1>2, <1>4, <1>5, <1>7, <1>8, <2>3
  <2>4. CASE f = g /\ h = g
    BY <1>2, <2>4 DEF SameSeed
  <2> QED
    BY <2>1, <2>2, <2>3, <2>4
<1> QED
  BY <1>9, <1>10


Counting(q) == ratchet[q].send_count < COUNTER_MAX

RootInv ==
    \A q \in Peer : RootOK(q, ratchet[q]) /\ \A f \in Sent(q) : KeyFits(f.key, f.sender_dh)

SendOrder ==
    \A q \in Peer : Counting(q) => HeadOK(ratchet[q], Sent(q)) /\ FramesOK(Sent(q))

(* What a send adds to the frames of the two peers. *)
LEMMA SendFrames ==
    ASSUME RInv, NEW p \in Peer, Send(p)
    PROVE  /\ Sent(p)' = Sent(p) \cup {SealedFrame(p, ratchet[p])}
           /\ \A q \in Peer : q # p => Sent(q)' = Sent(q) /\ ratchet'[q] = ratchet[q]
           /\ ratchet'[p] = RatchetSend(ratchet[p])
<1>1. /\ net' = net \cup {SealedFrame(p, ratchet[p])}
      /\ ratchet' = [ratchet EXCEPT ![p] = RatchetSend(ratchet[p])]
  BY DEF Send
<1>2. SealedFrame(p, ratchet[p]).from = p
  BY DEF SealedFrame
<1>3. ratchet \in [Peer -> RatchetState]
  BY DEF RInv, TypeOK
<1> QED
  BY <1>1, <1>2, <1>3 DEF Sent

(* Each frame takes its place in the sender's order, on the root of its    *)
(* epoch.                                                                  *)
LEMMA SendOrderSend ==
    ASSUME RInv, RInv', OriginInv, DrawnInv, RootInv, SendOrder, NEW p \in Peer, Send(p)
    PROVE  RootInv' /\ SendOrder'
<1>1. PICK s : s = ratchet[p]
  OBVIOUS
<1>2. PICK b : b = BeforeKey(s)
  OBVIOUS
<1>3. PICK t : t = RatchetSend(s)
  OBVIOUS
<1>4. PICK g : g = SealedFrame(p, s)
  OBVIOUS
<1>5. /\ s \in RatchetState /\ IsOption(s.remote_dh)
  BY <1>1 DEF RInv, TypeOK, IsOption
<1>6. s.dh_public[1] = p /\ \A r \in s.remote_dh : r[1] = Other(p)
  BY <1>1 DEF OriginInv, DrawnInv
<1>7. /\ Sent(p)' = Sent(p) \cup {g}
      /\ \A q \in Peer : q # p => Sent(q)' = Sent(q) /\ ratchet'[q] = ratchet[q]
      /\ ratchet'[p] = t
  BY <1>1, <1>3, <1>4, SendFrames
<1>8. /\ b \in RatchetState /\ b.send_count = s.send_count
  BY <1>2, <1>5, BeforeKeyFacts
<1>9. /\ t \in RatchetState
      /\ t.chain_key_send = Advance(b.chain_key_send, 1)
      /\ t.root_key = b.root_key /\ t.dh_public = b.dh_public
  BY <1>2, <1>3, <1>5, RatchetSendFacts
<1>10. t.send_count = SaturatingInc(s.send_count)
  BY <1>2, <1>3, <1>8 DEF RatchetSend, RatchetState
<1>11. /\ g \in Frame /\ g.step = b.send_count /\ g.key = b.chain_key_send
       /\ g.sender_dh = b.dh_public
  BY <1>2, <1>4, <1>5, <1>8, SealedFrameFacts DEF SealedFrame
<1>12. RootOK(p, b)
  BY <1>1, <1>2, <1>5, <1>6, BeforeRoot DEF RootInv
<1>13. RootOK(p, t) /\ KeyFits(g.key, g.sender_dh)
  <2>1. b.chain_key_send \in Chain
    BY <1>8 DEF RatchetState
  <2>2. /\ t.chain_key_send.root = b.chain_key_send.root
        /\ t.chain_key_send.label = b.chain_key_send.label
    BY <1>9, <2>1 DEF Advance, Chain
  <2> QED
    BY <1>9, <1>11, <1>12, <2>2 DEF RootOK, KeyFits
<1>14. RootInv'
  <2> SUFFICES ASSUME NEW q \in Peer
               PROVE  (RootOK(q, ratchet[q]) /\ \A f \in Sent(q) : KeyFits(f.key, f.sender_dh))'
    BY DEF RootInv
  <2>1. CASE q = p
    <3>1. RootOK(p, ratchet'[p])
      BY <1>7, <1>13
    <3>2. \A f \in Sent(p)' : KeyFits(f.key, f.sender_dh)
      BY <1>7, <1>13 DEF RootInv
    <3> QED
      BY <2>1, <3>1, <3>2 DEF RootOK, KeyFits, InRoot
  <2>2. CASE q # p
    <3>1. RootOK(q, ratchet'[q])
      BY <1>7, <2>2 DEF RootInv
    <3>2. \A f \in Sent(q)' : KeyFits(f.key, f.sender_dh)
      BY <1>7, <2>2 DEF RootInv
    <3> QED
      BY <3>1, <3>2 DEF RootOK, KeyFits, InRoot
  <2> QED
    BY <2>1, <2>2
<1>15. SendOrder'
  <2> SUFFICES ASSUME NEW q \in Peer, Counting(q)'
               PROVE  (HeadOK(ratchet[q], Sent(q)) /\ FramesOK(Sent(q)))'
    BY DEF SendOrder
  <2>1. CASE q = p
    <3>1. s.send_count < COUNTER_MAX /\ t.send_count = s.send_count + 1
      <4>1. SaturatingInc(s.send_count) < COUNTER_MAX /\ s.send_count \in Counter
        BY <1>5, <1>7, <1>10, <2>1 DEF Counting, RatchetState
      <4> QED
        BY <1>10, <4>1, LimitsAreNat DEF SaturatingInc, Counter
    <3>2. PICK S : S = Sent(p)
      OBVIOUS
    <3>3. HeadOK(s, S) /\ FramesOK(S) /\ S \in SUBSET Frame
      BY <1>1, <3>1, <3>2 DEF SendOrder, Counting, Sent, RInv, TypeOK
    <3>4. HeadOK(b, S)
      BY <1>2, <1>5, <1>6, <3>3, BeforeHead
    <3>5. HeadOK(t, S \cup {g}) /\ FramesOK(S \cup {g})
      BY <1>8, <1>9, <1>11, <3>1, <3>3, <3>4, PushFrame
    <3>6. HeadOK(ratchet'[p], Sent(p)') /\ FramesOK(Sent(p)')
      BY <1>7, <3>2, <3>5
    <3> QED
      BY <2>1, <3>6 DEF HeadOK, FramesOK, SameSeed
  <2>2. CASE q # p
    <3>1. ratchet[q].send_count < COUNTER_MAX
      BY <1>7, <2>2 DEF Counting
    <3>2. HeadOK(ratchet'[q], Sent(q)') /\ FramesOK(Sent(q)')
      BY <1>7, <2>2, <3>1 DEF SendOrder, Counting
    <3> QED
      BY <3>2 DEF HeadOK, FramesOK, SameSeed
  <2> QED
    BY <2>1, <2>2
<1> QED
  BY <1>14, <1>15

(* A step that sends nothing keeps the order. *)
LEMMA SendOrderQuiet ==
    ASSUME RootInv, SendOrder, net' = net,
           \A p \in Peer : /\ ratchet'[p].chain_key_send = ratchet[p].chain_key_send
                           /\ ratchet'[p].send_count = ratchet[p].send_count
                           /\ ratchet'[p].dh_public = ratchet[p].dh_public
                           /\ \A e \in 1 .. ratchet[p].dh_public[2] :
                                 InRoot(<<p, e>>, ratchet[p].root_key) =>
                                 InRoot(<<p, e>>, ratchet'[p].root_key)
    PROVE  RootInv' /\ SendOrder'
<1>1. \A q \in Peer : Sent(q)' = Sent(q)
  BY DEF Sent
<1>2. ASSUME NEW q \in Peer
      PROVE  (RootOK(q, ratchet[q]) /\ \A f \in Sent(q) : KeyFits(f.key, f.sender_dh))'
  <2>1. /\ ratchet[q].dh_public[1] = q
        /\ \A e \in 1 .. ratchet[q].dh_public[2] : InRoot(<<q, e>>, ratchet[q].root_key)
        /\ KeyFits(ratchet[q].chain_key_send, ratchet[q].dh_public)
    BY DEF RootInv, RootOK
  <2>2. /\ ratchet'[q].dh_public[1] = q
        /\ \A e \in 1 .. ratchet'[q].dh_public[2] : InRoot(<<q, e>>, ratchet'[q].root_key)
        /\ KeyFits(ratchet'[q].chain_key_send, ratchet'[q].dh_public)
    BY <2>1
  <2>3. RootOK(q, ratchet'[q])
    BY <2>2 DEF RootOK
  <2>4. \A f \in Sent(q)' : KeyFits(f.key, f.sender_dh)
    BY <1>1 DEF RootInv
  <2> QED
    BY <2>3, <2>4 DEF RootOK, KeyFits, InRoot
<1>3. ASSUME NEW q \in Peer, Counting(q)'
      PROVE  (HeadOK(ratchet[q], Sent(q)) /\ FramesOK(Sent(q)))'
  <2>1. HeadOK(ratchet[q], Sent(q)) /\ FramesOK(Sent(q))
    BY <1>3 DEF SendOrder, Counting
  <2>2. HeadOK(ratchet'[q], Sent(q)') /\ FramesOK(Sent(q)')
    BY <1>1, <2>1 DEF HeadOK
  <2> QED
    BY <2>2 DEF HeadOK, FramesOK, SameSeed
<1> QED
  BY <1>2, <1>3 DEF RootInv, SendOrder

Entry(f) == [step |-> f.step, key |-> f.key]

(* Where s, which receives from q, is in the frames S of q. *)
ReadUpTo(s, q, S) ==
    \/ s.remote_dh = {} /\ s.chain_key_recv = BootChain(q) /\ s.recv_count = 0
    \/ \E f \in S : /\ s.remote_dh = {f.sender_dh}
                    /\ s.chain_key_recv = Advance(f.key, 1)
                    /\ s.recv_count = f.step + 1

(* The publics of q in the root are not younger than the last one read.    *)
KnownPublics(s, q) ==
    \A x : (InRoot(x, s.root_key) /\ x[1] = q) => \E r \in s.remote_dh : x[2] <= r[2]

StoredOK(s, F) ==
    \A f \in F : (f.step < s.recv_count /\ s.recv_count - f.step <= MAX_SKIPPED_KEYS)
                    => Entry(f) \in s.skipped_keys

(* S is what q sent so far, before its counter came to its end. *)
FramesOf(q, S) ==
    /\ S \in SUBSET Frame
    /\ FramesOK(S)
    /\ \A f \in S : f.sender_dh[1] = q /\ KeyFits(f.key, f.sender_dh) /\ f.step < COUNTER_MAX

(* The numbers of a frame. *)
LEMMA FrameNumbers ==
    \A f \in Frame : /\ f.step \in Nat /\ f.sender_dh \in Pub /\ f.sender_dh[2] \in Nat
                     /\ f.key \in Chain /\ f.key.idx \in Nat /\ f.key.root \in Root
BY DEF Frame, Pub, Chain

(* Two keys of one chain and the way between them. *)
LEMMA OnChain ==
    ASSUME NEW c \in Chain, NEW k \in Chain, NEW n \in Nat,
           SameSeed(k, c), k.idx = c.idx + n
    PROVE  k = Advance(c, n)
BY DEF SameSeed, Advance, Chain

(* A frame that opens on the chain s receives on, and every unread frame   *)
(* passed over, lie on that chain.                                         *)
LEMMA SameChainOrder ==
    ASSUME NEW s \in RatchetState, StoreOK(s), NEW q, NEW S, NEW F, FramesOf(q, S),
           F \subseteq S, ReadUpTo(s, q, S), KnownPublics(s, q), StoredOK(s, F),
           NEW f \in S, OpensOnSameChain(s, f), NEW F2, F2 \subseteq F \ {f},
           NEW t, t = NextRecvKey(OnSameChain(s, f))
    PROVE  ReadUpTo(t, q, S) /\ KnownPublics(t, q) /\ StoredOK(t, F2)
<1>1. /\ f \in Frame /\ f.step \in Nat /\ f.step \in Counter /\ f.step # COUNTER_MAX
      /\ f.key \in Chain /\ f.key.idx \in Nat
  BY FrameNumbers, LimitsAreNat DEF FramesOf, Counter
<1>2. /\ s.recv_count \in Nat /\ s.recv_count <= f.step /\ s.remote_dh \subseteq {f.sender_dh}
      /\ s.chain_key_recv \in Chain /\ s.chain_key_recv.idx \in Nat
  BY CounterFacts DEF OpensOnSameChain, CanSkip, SameChain, RatchetState, Chain
<1>3. PICK u : u = SkipRecvUntil(s, f.step)
  OBVIOUS
<1>4. /\ u \in RatchetState /\ u.recv_count = f.step /\ u.root_key = s.root_key
      /\ u.chain_key_recv = Advance(s.chain_key_recv, f.step - s.recv_count)
  BY <1>1, <1>2, <1>3, SkipFacts
<1>5. f.key = u.chain_key_recv
  <2>1. OnSameChain(s, f) = [u EXCEPT !.remote_dh = {f.sender_dh}]
    BY <1>3 DEF OnSameChain
  <2> QED
    BY <1>4, <2>1 DEF OpensOnSameChain, Opens, RatchetState
<1>6. /\ t.remote_dh = {f.sender_dh} /\ t.chain_key_recv = Advance(f.key, 1)
      /\ t.recv_count = f.step + 1 /\ t.root_key = s.root_key
      /\ t.skipped_keys = u.skipped_keys
  BY <1>1, <1>3, <1>4, <1>5 DEF NextRecvKey, OnSameChain, RatchetState, SaturatingInc
<1>7. PICK n \in Nat : n = f.step - s.recv_count
  BY <1>1, <1>2
<1>8. SameSeed(f.key, s.chain_key_recv) /\ f.key.idx = s.chain_key_recv.idx + n
  <2>1. PICK c \in Chain : c = s.chain_key_recv
    BY <1>2
  <2>2. f.key = Advance(c, n)
    BY <1>4, <1>5, <1>7, <2>1
  <2> QED
    BY <2>1, <2>2, AdvanceFacts DEF SameSeed
<1>9. KnownPublics(t, q)
  BY <1>2, <1>6 DEF KnownPublics
<1>10. StoredOK(t, F2)
  <2> SUFFICES ASSUME NEW g \in F2, g.step < t.recv_count,
                      t.recv_count - g.step <= MAX_SKIPPED_KEYS
               PROVE  Entry(g) \in t.skipped_keys
    BY DEF StoredOK
  <2>1. /\ g \in S /\ g \in F /\ g # f /\ g \in Frame /\ g.step \in Nat /\ g.key \in Chain
        /\ g.key.idx \in Nat
    BY FrameNumbers DEF FramesOf
  <2>2. g.step # f.step
    BY <2>1 DEF FramesOf, FramesOK
  <2>3. g.step < f.step /\ f.step - g.step <= MAX_SKIPPED_KEYS
    BY <1>1, <1>6, <2>1, <2>2, LimitsAreNat
  <2>4. \/ Entry(g) \in s.skipped_keys
        \/ /\ s.recv_count <= g.step
           /\ g.key = Advance(s.chain_key_recv, g.step - s.recv_count)
    <3>1. CASE g.step < s.recv_count
      <4>1. s.recv_count - g.step <= MAX_SKIPPED_KEYS
        BY <1>1, <1>2, <2>1, <2>3, LimitsAreNat
      <4> QED
        BY <2>1, <3>1, <4>1 DEF StoredOK
    <3>2. CASE s.recv_count <= g.step
      <4>1. g.step <= f.step /\ g.step >= f.step - f.key.idx
        BY <1>1, <1>2, <1>7, <1>8, <2>1, <2>3, <3>2
      <4>2. f.sender_dh[2] = g.sender_dh[2]
        BY <2>1, <4>1 DEF FramesOf, FramesOK
      <4>3. SameSeed(f.key, g.key) /\ f.step - f.key.idx = g.step - g.key.idx
        BY <2>1, <4>2 DEF FramesOf, FramesOK
      <4>4. SameSeed(g.key, s.chain_key_recv)
        BY <1>8, <4>3 DEF SameSeed
      <4>5. PICK m \in Nat : m = g.step - s.recv_count
        BY <1>2, <2>1, <3>2
      <4>6. g.key.idx = s.chain_key_recv.idx + m
        <5>1. \A a, b, c, d, e, h \in Nat :
                 (a - b = c - d /\ b = h + (a - e)) => d = h + (c - e)
          OBVIOUS
        <5>2. f.key.idx = s.chain_key_recv.idx + (f.step - s.recv_count)
          BY <1>7, <1>8
        <5>3. g.key.idx = s.chain_key_recv.idx + (g.step - s.recv_count)
          BY <1>1, <1>2, <2>1, <4>3, <5>1, <5>2
        <5> QED
          BY <4>5, <5>3
      <4> QED
        <5>1. PICK c \in Chain : c = s.chain_key_recv
          BY <1>2
        <5>2. SameSeed(g.key, c) /\ g.key.idx = c.idx + m
          BY <4>4, <4>6, <5>1
        <5>3. PICK k \in Chain : k = g.key
          BY <2>1
        <5>4. k = Advance(c, m)
          BY <5>2, <5>3, OnChain
        <5> QED
          BY <3>2, <4>5, <5>1, <5>3, <5>4
    <3> QED
      BY <1>2, <2>1, <3>1, <3>2
  <2> QED
    BY <1>1, <1>2, <1>3, <1>6, <2>1, <2>3, <2>4, SkipStores DEF Entry
<1> QED
  BY <1>6, <1>9, <1>10 DEF ReadUpTo

(* Skipping leaves the sender's counter alone. *)
LEMMA SkipKeepsSent ==
    ASSUME NEW s \in RatchetState, NEW until
    PROVE  SkipRecvUntil(s, until).send_count = s.send_count
<1>1. PICK c, keys : SkipRecvUntil(s, until)
         = [s EXCEPT !.chain_key_recv = c, !.recv_count = until, !.skipped_keys = keys]
  BY DEF SkipRecvUntil
<1> QED
  BY <1>1 DEF RatchetState

(* Turning the ratchet moves root and chain and keeps place and store.     *)
LEMMA TurnFacts ==
    ASSUME NEW s \in RatchetState, NEW r \in Pub
    PROVE  LET root == KdfRoot(s.root_key, s.dh_public, r)
               t == DhRatchetRecv(s, r)
           IN  /\ t \in RatchetState /\ t.root_key = root /\ t.remote_dh = {r}
               /\ t.chain_key_recv = DhChain(root)
               /\ t.recv_count = s.recv_count /\ t.skipped_keys = s.skipped_keys
               /\ t.send_count = s.send_count
<1> DEFINE root == KdfRoot(s.root_key, s.dh_public, r)
<1>1. root \in Root /\ DhChain(root) \in Chain
  BY KdfFacts DEF RatchetState
<1>2. DhRatchetRecv(s, r) = [s EXCEPT !.root_key = root, !.chain_key_recv = DhChain(root),
                                      !.remote_dh = {r}]
  BY DEF DhRatchetRecv
<1> HIDE DEF root
<1>3. LET t == DhRatchetRecv(s, r)
      IN  /\ t \in RatchetState /\ t.root_key = root /\ t.remote_dh = {r}
          /\ t.chain_key_recv = DhChain(root)
          /\ t.recv_count = s.recv_count /\ t.skipped_keys = s.skipped_keys
          /\ t.send_count = s.send_count
  BY <1>1, <1>2 DEF RatchetState
<1> QED
  BY <1>3 DEF root

(* What a receive on a new chain does: s1 has skipped the rest of the old  *)
(* chain, s2 turned the ratchet, s3 skipped to the frame.                  *)
LEMMA NewChainPath ==
    ASSUME NEW s \in RatchetState, StoreOK(s), NEW f \in Frame, f.step \in Counter,
           NEW first \in OpeningStarts(s, f),
           NEW s1, s1 = SkipRecvUntil(s, first),
           NEW s2, s2 = DhRatchetRecv(s1, f.sender_dh),
           NEW s3, s3 = SkipRecvUntil(s2, f.step),
           NEW root, root = KdfRoot(s.root_key, s.dh_public, f.sender_dh),
           NEW t, t = NextRecvKey(OnNewChain(s, f, first))
    PROVE  /\ first \in Counter /\ s.recv_count <= first /\ first <= f.step
           /\ s2 \in RatchetState /\ StoreOK(s2) /\ s2.recv_count = first
           /\ s2.chain_key_recv = DhChain(root) /\ s2.skipped_keys = s1.skipped_keys
           /\ f.key = Advance(DhChain(root), f.step - first)
           /\ t.remote_dh = {f.sender_dh} /\ t.chain_key_recv = Advance(f.key, 1)
           /\ t.recv_count = SaturatingInc(f.step) /\ t.root_key = root
           /\ t.skipped_keys = s3.skipped_keys /\ t.send_count = s.send_count
<1>1. /\ f.step \in Nat
      /\ f.epoch_start \in Nat /\ f.sender_dh \in Pub
  BY LimitsAreNat DEF Frame, Counter
<1>2. s.recv_count \in Nat /\ s.dh_public \in Pub /\ s.root_key \in Root
  BY CounterFacts DEF RatchetState
<1>3. first \in Counter /\ s.recv_count <= first /\ first <= f.step /\ first \in Nat
  <2>1. /\ first \in EpochCandidates(s, f)
        /\ first <= f.step /\ s.recv_count <= first
    BY DEF OpeningStarts, CanReachOnNewChain, CanSkip
  <2>2. first \in Nat
    BY <1>1, <1>2, <2>1 DEF EpochCandidates
  <2> QED
    BY <1>1, <2>1, <2>2, LimitsAreNat DEF Counter
<1>4. /\ s1 \in RatchetState /\ StoreOK(s1) /\ s1.recv_count = first
      /\ s1.root_key = s.root_key /\ s1.dh_public = s.dh_public
      /\ s1.send_count = s.send_count
  BY <1>3, SkipFacts, SkipKeepsSent
<1>7. /\ s2 \in RatchetState /\ s2.recv_count = first /\ s2.chain_key_recv = DhChain(root)
      /\ s2.skipped_keys = s1.skipped_keys /\ s2.remote_dh = {f.sender_dh}
      /\ s2.root_key = root /\ s2.send_count = s.send_count
  BY <1>1, <1>4, TurnFacts
<1>8. StoreOK(s2)
  <2>1. s2.skipped_keys = s1.skipped_keys /\ s2.recv_count = s1.recv_count
    BY <1>4, <1>7
  <2> QED
    BY <1>4, <2>1, Zenon DEF StoreOK
<1>9. /\ s3 \in RatchetState /\ s3.recv_count = f.step /\ s3.root_key = root
      /\ s3.remote_dh = {f.sender_dh}
      /\ s3.chain_key_recv = Advance(s2.chain_key_recv, f.step - s2.recv_count)
      /\ s3.send_count = s.send_count
  BY <1>1, <1>3, <1>7, <1>8, SkipFacts, SkipKeepsSent
<1>10. OnNewChain(s, f, first) = s3
  BY DEF OnNewChain
<1>11. f.key = s3.chain_key_recv
  BY <1>10 DEF OpeningStarts, Opens
<1>12. /\ t.remote_dh = {f.sender_dh} /\ t.chain_key_recv = Advance(f.key, 1)
       /\ t.recv_count = SaturatingInc(f.step) /\ t.root_key = root
       /\ t.skipped_keys = s3.skipped_keys /\ t.send_count = s.send_count
  BY <1>1, <1>9, <1>10, <1>11 DEF NextRecvKey, RatchetState
<1> QED
  BY <1>3, <1>7, <1>8, <1>9, <1>11, <1>12

(* A frame of S between the last one read and an epoch that begins after   *)
(* it is of the epoch of the last one read: a later epoch in between would *)
(* be known from the root.                                                 *)
LEMMA OldChainOrder ==
    ASSUME NEW s \in RatchetState, NEW q, NEW S, FramesOf(q, S),
           ReadUpTo(s, q, S), KnownPublics(s, q), ~(s.remote_dh = {}),
           NEW r \in Pub, r[1] # q,
           NEW f \in S, f.key.root = KdfRoot(s.root_key, r, f.sender_dh),
           NEW g \in S, s.recv_count <= g.step, g.step < f.step - f.key.idx
    PROVE  g.key = Advance(s.chain_key_recv, g.step - s.recv_count)
<1>1. PICK l \in S : /\ s.remote_dh = {l.sender_dh}
                     /\ s.chain_key_recv = Advance(l.key, 1)
                     /\ s.recv_count = l.step + 1
  BY DEF ReadUpTo
<1>2. \A h \in S : h \in Frame
  BY DEF FramesOf
<1>3. /\ l \in Frame /\ f \in Frame /\ g \in Frame
      /\ l.step \in Nat /\ f.step \in Nat /\ g.step \in Nat
      /\ l.key \in Chain /\ f.key \in Chain /\ g.key \in Chain
      /\ l.key.idx \in Nat /\ f.key.idx \in Nat /\ g.key.idx \in Nat
      /\ l.sender_dh[2] \in Nat /\ f.sender_dh[2] \in Nat /\ g.sender_dh[2] \in Nat
      /\ f.sender_dh \in Pub /\ s.root_key \in Root
  BY <1>2, FrameNumbers DEF RatchetState
<1>4. l.step < g.step /\ g.step < f.step
  BY <1>1, <1>3
<1>5. l.sender_dh[2] <= g.sender_dh[2] /\ g.sender_dh[2] <= f.sender_dh[2]
  BY <1>4 DEF FramesOf, FramesOK
<1>6. g.sender_dh[2] # f.sender_dh[2]
  <2>1. g.sender_dh[2] = f.sender_dh[2] => f.step - f.key.idx = g.step - g.key.idx
    BY DEF FramesOf, FramesOK
  <2>2. ~(f.step - f.key.idx = g.step - g.key.idx)
    <3>1. \A a, b, c : (a \in Nat /\ b \in Nat /\ c \in Int /\ a < c) => ~(c = a - b)
      OBVIOUS
    <3>2. f.step - f.key.idx \in Int
      BY <1>3
    <3> QED
      BY <1>3, <3>1, <3>2
  <2> QED
    BY <2>1, <2>2
<1>7. g.sender_dh[2] <= l.sender_dh[2]
  <2>1. CASE g.sender_dh[2] = 0
    BY <1>3, <2>1
  <2>2. CASE g.sender_dh[2] # 0
    <3>1. PICK R : R = KdfRoot(s.root_key, r, f.sender_dh)
      OBVIOUS
    <3>2. /\ Len(R) - 1 = Len(s.root_key) /\ R # <<>>
          /\ \A i \in 1 .. Len(R) - 1 : R[i] = s.root_key[i]
      BY <1>3, <3>1, KdfKeeps
    <3>3. f.key.root = R /\ f.sender_dh[1] = q
      BY <3>1 DEF FramesOf
    <3>4. \A e \in 1 .. f.sender_dh[2] - 1 : \E i \in 1 .. Len(R) - 1 : <<q, e>> \in R[i]
      BY <3>2, <3>3 DEF FramesOf, KeyFits
    <3>5. g.sender_dh[2] \in 1 .. f.sender_dh[2] - 1
      BY <1>3, <1>5, <1>6, <2>2
    <3>6. InRoot(<<q, g.sender_dh[2]>>, s.root_key)
      BY <3>2, <3>4, <3>5 DEF InRoot
    <3>7. \E x \in s.remote_dh : g.sender_dh[2] <= x[2]
      BY <3>6 DEF KnownPublics
    <3> QED
      BY <1>1, <3>7
  <2> QED
    BY <2>1, <2>2
<1>8. l.sender_dh[2] = g.sender_dh[2]
  BY <1>3, <1>5, <1>7
<1>9. SameSeed(l.key, g.key) /\ l.step - l.key.idx = g.step - g.key.idx
  BY <1>8 DEF FramesOf, FramesOK
<1>10. PICK c \in Chain, d \in Chain, k \in Chain, m \in Nat :
          /\ c = s.chain_key_recv /\ d = l.key /\ k = g.key /\ m = g.step - s.recv_count
  <2>1. g.step - s.recv_count \in Nat
    BY <1>1, <1>3
  <2> QED
    BY <1>3, <2>1 DEF RatchetState
<1>11. c.root = d.root /\ c.label = d.label /\ c.idx = d.idx + 1
  <2>1. c = Advance(d, 1)
    BY <1>1, <1>10
  <2> QED
    BY <2>1, AdvanceFacts
<1>12. SameSeed(k, c)
  BY <1>9, <1>10, <1>11 DEF SameSeed
<1>13. k.idx = c.idx + m
  <2>1. \A a, b, v, w \in Nat : a - b = v - w => w = (b + 1) + (v - (a + 1))
    OBVIOUS
  <2> QED
    BY <1>1, <1>3, <1>9, <1>10, <1>11, <2>1
<1>14. k = Advance(c, m)
  BY <1>12, <1>13, OnChain
<1> QED
  BY <1>10, <1>14

(* A frame that opens on a new chain: what is left of the old chain, and   *)
(* what of the new one is passed over, is stored.                          *)
LEMMA NewChainOrder ==
    ASSUME NEW s \in RatchetState, StoreOK(s), NEW q, NEW S, NEW F, FramesOf(q, S),
           F \subseteq S, ReadUpTo(s, q, S), KnownPublics(s, q), StoredOK(s, F),
           s.dh_public[1] # q,
           NEW f \in S, OpensOnNewChain(s, f), NEW first \in OpeningStarts(s, f),
           NEW F2, F2 \subseteq F \ {f}, NEW t, t = NextRecvKey(OnNewChain(s, f, first))
    PROVE  /\ ReadUpTo(t, q, S) /\ KnownPublics(t, q) /\ StoredOK(t, F2)
           /\ \A x : InRoot(x, s.root_key) => InRoot(x, t.root_key)
<1>1. PICK s1 : s1 = SkipRecvUntil(s, first)
  OBVIOUS
<1>2. PICK s2 : s2 = DhRatchetRecv(s1, f.sender_dh)
  OBVIOUS
<1>3. PICK s3 : s3 = SkipRecvUntil(s2, f.step)
  OBVIOUS
<1>4. PICK root : root = KdfRoot(s.root_key, s.dh_public, f.sender_dh)
  OBVIOUS
<1>5. /\ f \in Frame /\ f.step < COUNTER_MAX /\ f.step \in Counter
      /\ SaturatingInc(f.step) = f.step + 1
  BY LimitsAreNat DEF FramesOf, Frame, Counter, SaturatingInc
<1>6. /\ first \in Counter /\ s.recv_count <= first /\ first <= f.step
      /\ s2 \in RatchetState /\ StoreOK(s2) /\ s2.recv_count = first
      /\ s2.chain_key_recv = DhChain(root) /\ s2.skipped_keys = s1.skipped_keys
      /\ f.key = Advance(DhChain(root), f.step - first)
      /\ t.remote_dh = {f.sender_dh} /\ t.chain_key_recv = Advance(f.key, 1)
      /\ t.recv_count = f.step + 1 /\ t.root_key = root
      /\ t.skipped_keys = s3.skipped_keys
  BY <1>1, <1>2, <1>3, <1>4, <1>5, NewChainPath
<1>7. /\ f.step \in Nat /\ f.sender_dh \in Pub /\ f.key \in Chain /\ f.key.idx \in Nat
      /\ f.sender_dh[1] = q /\ f.sender_dh[2] \in Nat /\ f.step \in Counter
  BY <1>5, FrameNumbers DEF FramesOf
<1>8. /\ first \in Nat /\ s.recv_count \in Nat /\ s.root_key \in Root /\ s.dh_public \in Pub
  BY <1>6, CounterFacts DEF RatchetState
<1>9. DhChain(root) \in Chain /\ DhChain(root).idx = 0
  BY <1>4, <1>7, <1>8, KdfFacts DEF DhChain
<1>10. f.key.root = root /\ f.key.idx = f.step - first
  <2>1. PICK c \in Chain, n \in Nat : c = DhChain(root) /\ n = f.step - first
    BY <1>6, <1>7, <1>8, <1>9
  <2>2. f.key = Advance(c, n)
    BY <1>6, <2>1
  <2>3. c.root = root /\ c.idx = 0
    BY <1>9, <2>1 DEF DhChain
  <2>4. Advance(c, n).root = c.root /\ Advance(c, n).idx = c.idx + n
    BY AdvanceFacts
  <2> QED
    BY <2>1, <2>2, <2>3, <2>4
<1>11. ~(s.remote_dh = {})
  BY DEF OpensOnNewChain, SameChain
<1>12. \A x : InRoot(x, root) <=> x = s.dh_public \/ x = f.sender_dh \/ InRoot(x, s.root_key)
  BY <1>4, <1>7, <1>8, KdfKeeps
<1>13. KnownPublics(t, q)
  <2> SUFFICES ASSUME NEW x, InRoot(x, root), x[1] = q
               PROVE  x[2] <= f.sender_dh[2]
    BY <1>6 DEF KnownPublics
  <2>1. CASE x = f.sender_dh
    BY <1>7, <2>1
  <2>2. CASE InRoot(x, s.root_key)
    <3>1. PICK l \in S : s.remote_dh = {l.sender_dh} /\ s.recv_count = l.step + 1
      BY <1>11 DEF ReadUpTo
    <3>2. l.step \in Nat /\ l.sender_dh[2] \in Nat
      BY FrameNumbers DEF FramesOf
    <3>3. l.step < f.step
      BY <1>6, <1>7, <1>8, <3>1, <3>2
    <3>4. l.sender_dh[2] <= f.sender_dh[2]
      BY <3>3 DEF FramesOf, FramesOK
    <3>5. x[2] <= l.sender_dh[2]
      BY <2>2, <3>1 DEF KnownPublics
    <3>6. x[2] \in Nat
      <4>1. PICK i \in 1 .. Len(s.root_key) : x \in s.root_key[i]
        BY <2>2 DEF InRoot
      <4>2. s.root_key[i] \in SUBSET Pub
        BY <1>8, <4>1 DEF Root, Secret
      <4> QED
        BY <4>1, <4>2 DEF Pub
    <3> QED
      BY <1>7, <3>2, <3>4, <3>5, <3>6
  <2> QED
    BY <1>12, <2>1, <2>2
<1>14. StoredOK(t, F2)
  <2> SUFFICES ASSUME NEW g \in F2, g.step < t.recv_count,
                      t.recv_count - g.step <= MAX_SKIPPED_KEYS
               PROVE  Entry(g) \in t.skipped_keys
    BY DEF StoredOK
  <2>1. /\ g \in S /\ g \in F /\ g # f /\ g \in Frame /\ g.step \in Nat /\ g.key \in Chain
        /\ g.key.idx \in Nat
    BY FrameNumbers DEF FramesOf
  <2>2. g.step # f.step
    BY <2>1 DEF FramesOf, FramesOK
  <2>3. g.step < f.step /\ f.step - g.step <= MAX_SKIPPED_KEYS
    BY <1>6, <1>7, <2>1, <2>2, LimitsAreNat
  <2>4. CASE first <= g.step
    <3>1. g.step <= f.step /\ g.step >= f.step - f.key.idx
      BY <1>7, <1>8, <1>10, <2>1, <2>3, <2>4
    <3>2. f.sender_dh[2] = g.sender_dh[2]
      BY <2>1, <3>1 DEF FramesOf, FramesOK
    <3>3. SameSeed(f.key, g.key) /\ f.step - f.key.idx = g.step - g.key.idx
      BY <2>1, <3>2 DEF FramesOf, FramesOK
    <3>4. PICK c \in Chain, k \in Chain, m \in Nat :
             c = DhChain(root) /\ k = g.key /\ m = g.step - first
      BY <1>8, <1>9, <2>1, <2>4
    <3>5. SameSeed(f.key, c)
      <4>1. PICK n \in Nat : n = f.step - first
        BY <1>6, <1>7, <1>8
      <4>2. f.key = Advance(c, n)
        BY <1>6, <3>4, <4>1
      <4> QED
        BY <4>2, AdvanceFacts DEF SameSeed
    <3>6. SameSeed(k, c)
      BY <3>3, <3>4, <3>5 DEF SameSeed
    <3>7. k.idx = c.idx + m
      <4>1. \A a, b, v, w, e \in Nat : (a - b = v - w /\ b = a - e) => w = 0 + (v - e)
        OBVIOUS
      <4>2. g.key.idx = 0 + (g.step - first)
        BY <1>7, <1>8, <1>10, <2>1, <3>3, <4>1
      <4> QED
        BY <1>9, <3>4, <4>2
    <3>8. k = Advance(c, m)
      BY <3>6, <3>7, OnChain
    <3>9. g.key = Advance(s2.chain_key_recv, g.step - s2.recv_count)
      BY <1>6, <3>4, <3>8
    <3>10. s2.recv_count <= g.step /\ s2.recv_count <= f.step
      BY <1>6, <2>4
    <3> QED
      BY <1>3, <1>6, <1>7, <2>1, <2>3, <3>9, <3>10, SkipStores DEF Entry
  <2>5. CASE g.step < first
    <3>1. first - g.step <= MAX_SKIPPED_KEYS
      BY <1>6, <1>7, <1>8, <2>1, <2>3, LimitsAreNat
    <3>2. \/ Entry(g) \in s.skipped_keys
          \/ /\ s.recv_count <= g.step
             /\ g.key = Advance(s.chain_key_recv, g.step - s.recv_count)
      <4>1. CASE g.step < s.recv_count
        <5>1. s.recv_count - g.step <= MAX_SKIPPED_KEYS
          BY <1>6, <1>8, <2>1, <3>1, LimitsAreNat
        <5> QED
          BY <2>1, <4>1, <5>1 DEF StoredOK
      <4>2. CASE s.recv_count <= g.step
        <5>1. f.step - f.key.idx = first
          BY <1>7, <1>8, <1>10
        <5>2. g.key = Advance(s.chain_key_recv, g.step - s.recv_count)
          BY <1>4, <1>8, <1>10, <1>11, <2>1, <2>5, <4>2, <5>1, OldChainOrder
        <5> QED
          BY <4>2, <5>2
      <4> QED
        BY <1>8, <2>1, <4>1, <4>2
    <3>3. Entry(g) \in s1.skipped_keys
      BY <1>1, <1>6, <2>1, <2>5, <3>1, <3>2, SkipStores DEF Entry
    <3>4. Entry(g) \in s2.skipped_keys
      BY <1>6, <3>3
    <3> QED
      BY <1>3, <1>6, <1>7, <2>1, <2>3, <3>4, SkipStores DEF Entry
  <2> QED
    BY <1>8, <2>1, <2>4, <2>5
<1>15. ReadUpTo(t, q, S)
  BY <1>6 DEF ReadUpTo
<1>16. \A x : InRoot(x, s.root_key) => InRoot(x, t.root_key)
  BY <1>6, <1>12
<1> QED
  BY <1>13, <1>14, <1>15, <1>16

----------------------------------------------------------------------------
RecvOK(s, q, S, F) == ReadUpTo(s, q, S) /\ KnownPublics(s, q) /\ StoredOK(s, F)

(* The frames p passed over and did not give up with a line. *)
Expected(p) == {f \in Unread(p) : p \notin Expiring \/ f.step \notin LineSteps(p)}

RecvOrder ==
    \A p \in Peer : Counting(Other(p)) =>
        RecvOK(ratchet[p], Other(p), Sent(Other(p)), Expected(p))

LateInv == RootInv /\ SendOrder /\ RecvOrder

LEMMA InitLateInv == Init => LateInv
<1> SUFFICES ASSUME Init PROVE LateInv
  OBVIOUS
<1>1. net = {} /\ \A p \in Peer : ratchet[p] = InitDirectional(p) /\ Sent(p) = {}
  BY DEF Init, Sent
<1>2. ASSUME NEW p \in Peer
      PROVE  /\ ratchet[p].dh_public = <<p, 0>> /\ ratchet[p].chain_key_send.root = <<>>
             /\ ratchet[p].chain_key_send.idx = 0 /\ ratchet[p].send_count = 0
             /\ ratchet[p].remote_dh = {} /\ ratchet[p].root_key = <<>>
             /\ ratchet[p].chain_key_recv = BootChain(Other(p)) /\ ratchet[p].recv_count = 0
  <2>1. ratchet[p] = InitDirectional(p)
    BY <1>1
  <2>2. /\ InitDirectional(p).dh_public = <<p, 0>>
        /\ InitDirectional(p).chain_key_send = BootChain(p)
        /\ InitDirectional(p).chain_key_recv = BootChain(Other(p))
        /\ InitDirectional(p).send_count = 0 /\ InitDirectional(p).recv_count = 0
        /\ InitDirectional(p).remote_dh = {} /\ InitDirectional(p).root_key = <<>>
    BY DEF InitDirectional
  <2>3. BootChain(p).root = <<>> /\ BootChain(p).idx = 0
    BY DEF BootChain
  <2> QED
    BY <2>1, <2>2, <2>3
<1>3. RootInv
  BY <1>1, <1>2 DEF RootInv, RootOK, KeyFits
<1>4. SendOrder
  BY <1>1, <1>2 DEF SendOrder, HeadOK, FramesOK
<1>5. RecvOrder
  <2> SUFFICES ASSUME NEW p \in Peer
               PROVE  RecvOK(ratchet[p], Other(p), Sent(Other(p)), Expected(p))
    BY DEF RecvOrder
  <2>1. ReadUpTo(ratchet[p], Other(p), Sent(Other(p)))
    BY <1>2 DEF ReadUpTo
  <2>2. KnownPublics(ratchet[p], Other(p))
    BY <1>2 DEF KnownPublics, InRoot
  <2>3. Expected(p) = {}
    BY <1>1, PeerFacts DEF Expected, Unread
  <2> QED
    BY <2>1, <2>2, <2>3 DEF RecvOK, StoredOK
<1> QED
  BY <1>3, <1>4, <1>5 DEF LateInv

(* While q's counter runs, its frames are in order. *)
LEMMA CountingFrames ==
    ASSUME RInv, SealInv, OriginInv, RootInv, SendOrder, NEW q \in Peer, Counting(q)
    PROVE  FramesOf(q, Sent(q))
<1>1. /\ ratchet[q] \in RatchetState /\ ratchet[q].send_count < COUNTER_MAX
      /\ ratchet[q].send_count \in Nat
  BY CounterFacts DEF RInv, TypeOK, Counting, RatchetState
<1>2. Sent(q) \in SUBSET Frame /\ HeadOK(ratchet[q], Sent(q)) /\ FramesOK(Sent(q))
  BY DEF SendOrder, Sent, RInv, TypeOK
<1>3. \A f \in Sent(q) : f.step \in Nat /\ f.step < ratchet[q].send_count
  BY <1>2 DEF HeadOK, Frame
<1>4. \A f \in Sent(q) : f.sender_dh[1] = q /\ KeyFits(f.key, f.sender_dh)
  BY DEF OriginInv, RootInv, Sent
<1> QED
  BY <1>1, <1>2, <1>3, <1>4, LimitsAreNat DEF FramesOf

(* What the other peer sends later takes nothing from what was read.       *)
LEMMA RecvMonotone ==
    ASSUME NEW s, NEW q, NEW S, NEW F, RecvOK(s, q, S, F), NEW S2, S \subseteq S2,
           NEW F2, F2 \subseteq F
    PROVE  RecvOK(s, q, S2, F2)
BY DEF RecvOK, ReadUpTo, StoredOK

(* A receive that opens f, whichever path it took. *)
LEMMA CommitLateInv ==
    ASSUME RInv, LateInv, NEW p \in Peer, NEW f \in net, NEW t, Commit(p, f, t),
           t.chain_key_send = ratchet[p].chain_key_send,
           t.send_count = ratchet[p].send_count, t.dh_public = ratchet[p].dh_public,
           \A x : InRoot(x, ratchet[p].root_key) => InRoot(x, t.root_key),
           Counting(Other(p)) => RecvOK(t, Other(p), Sent(Other(p)), Expected(p) \ {f})
    PROVE  LateInv'
<1>1. /\ ratchet' = [ratchet EXCEPT ![p] = t] /\ net' = net
      /\ opened' = [opened EXCEPT ![p] = opened[p] \cup {f}]
  BY DEF Commit
<1>2. /\ ratchet \in [Peer -> RatchetState] /\ opened \in [Peer -> SUBSET net]
  BY DEF RInv, TypeOK
<1>3. /\ ratchet'[p] = t /\ \A q \in Peer : q # p => ratchet'[q] = ratchet[q]
      /\ opened'[p] = opened[p] \cup {f} /\ \A q \in Peer : q # p => opened'[q] = opened[q]
  BY <1>1, <1>2
<1>4. \A q \in Peer : /\ ratchet'[q].chain_key_send = ratchet[q].chain_key_send
                      /\ ratchet'[q].send_count = ratchet[q].send_count
                      /\ ratchet'[q].dh_public = ratchet[q].dh_public
                      /\ \A x : InRoot(x, ratchet[q].root_key) => InRoot(x, ratchet'[q].root_key)
  <2> TAKE q \in Peer
  <2>1. CASE q = p
    BY <1>3, <2>1
  <2>2. CASE q # p
    <3>1. ratchet'[q] = ratchet[q]
      BY <1>3, <2>2
    <3> QED
      BY <3>1
  <2> QED
    BY <2>1, <2>2
<1>5. RootInv' /\ SendOrder'
  BY <1>1, <1>4, SendOrderQuiet DEF LateInv
<1>6. \A q \in Peer : Sent(q)' = Sent(q)
  BY <1>1 DEF Sent
<1>7. RecvOrder'
  <2> SUFFICES ASSUME NEW q \in Peer, Counting(Other(q))'
               PROVE  RecvOK(ratchet[q], Other(q), Sent(Other(q)), Expected(q))'
    BY DEF RecvOrder
  <2>1. Other(q) \in Peer /\ Counting(Other(q))
    BY <1>4, PeerFacts DEF Counting
  <2>2. CASE q = p
    <3>1. Expected(p)' \subseteq Expected(p) \ {f}
      <4>1. LineSteps(p) \subseteq LineSteps(p)'
        BY <1>3, <1>6 DEF LineSteps
      <4>2. Unread(p)' \subseteq Unread(p) \ {f}
        BY <1>3, <1>6, PeerFacts DEF Unread
      <4> QED
        BY <4>1, <4>2 DEF Expected
    <3>2. RecvOK(t, Other(p), Sent(Other(p)), Expected(p) \ {f})
      BY <2>1, <2>2
    <3>3. RecvOK(ratchet'[p], Other(p), Sent(Other(p))', Expected(p)')
      BY <1>3, <1>6, <2>1, <2>2, <3>1, <3>2, RecvMonotone
    <3> QED
      BY <2>2, <3>3 DEF RecvOK, ReadUpTo, KnownPublics, StoredOK, InRoot
  <2>3. CASE q # p
    <3>1. RecvOK(ratchet[q], Other(q), Sent(Other(q)), Expected(q))
      BY <2>1 DEF LateInv, RecvOrder
    <3>2. Expected(q)' = Expected(q)
      BY <1>3, <1>6, <2>1, <2>3 DEF Expected, Unread, LineSteps
    <3>3. RecvOK(ratchet'[q], Other(q), Sent(Other(q))', Expected(q)')
      BY <1>3, <1>6, <2>1, <2>3, <3>1, <3>2
    <3> QED
      BY <3>3 DEF RecvOK, ReadUpTo, KnownPublics, StoredOK, InRoot
  <2> QED
    BY <2>2, <2>3
<1> QED
  BY <1>5, <1>7 DEF LateInv

(* What every receive finds. *)
LEMMA ReceiveContext ==
    ASSUME RInv, SealInv, OriginInv, LateInv, NEW p \in Peer, NEW f \in net,
           f.from = Other(p), Counting(Other(p))
    PROVE  /\ FramesOf(Other(p), Sent(Other(p)))
           /\ Expected(p) \subseteq Sent(Other(p)) /\ f \in Sent(Other(p))
           /\ ReadUpTo(ratchet[p], Other(p), Sent(Other(p)))
           /\ KnownPublics(ratchet[p], Other(p)) /\ StoredOK(ratchet[p], Expected(p))
           /\ ratchet[p].dh_public[1] # Other(p)
<1>1. Other(p) \in Peer /\ Other(p) # p
  BY PeerFacts
<1>2. FramesOf(Other(p), Sent(Other(p)))
  BY <1>1, CountingFrames DEF LateInv
<1>3. Expected(p) \subseteq Sent(Other(p)) /\ f \in Sent(Other(p))
  BY DEF Expected, Unread, Sent
<1>4. RecvOK(ratchet[p], Other(p), Sent(Other(p)), Expected(p))
  BY DEF LateInv, RecvOrder
<1>5. ratchet[p].dh_public[1] = p
  BY DEF SealInv, DrawnInv
<1> QED
  BY <1>1, <1>2, <1>3, <1>4, <1>5 DEF RecvOK

LEMMA SkippedLateInv ==
    ASSUME RInv, SealInv, OriginInv, LateInv, NEW p \in Peer, NEW f \in net,
           f.from = Other(p), ReceiveSkipped(p, f)
    PROVE  LateInv'
<1>1. PICK s \in RatchetState : s = ratchet[p]
  BY DEF RInv, TypeOK
<1>2. PICK t : t = WipeSkippedKey(s, f.step)
  OBVIOUS
<1>3. /\ t.chain_key_send = s.chain_key_send /\ t.send_count = s.send_count
      /\ t.dh_public = s.dh_public /\ t.root_key = s.root_key /\ t.remote_dh = s.remote_dh
      /\ t.chain_key_recv = s.chain_key_recv /\ t.recv_count = s.recv_count
      /\ t.skipped_keys = {e \in s.skipped_keys : e.step # f.step}
  BY <1>2 DEF WipeSkippedKey, RatchetState
<1>4. ASSUME Counting(Other(p))
      PROVE  RecvOK(t, Other(p), Sent(Other(p)), Expected(p) \ {f})
  <2>1. /\ FramesOf(Other(p), Sent(Other(p)))
        /\ Expected(p) \subseteq Sent(Other(p)) /\ f \in Sent(Other(p))
        /\ ReadUpTo(s, Other(p), Sent(Other(p)))
        /\ KnownPublics(s, Other(p)) /\ StoredOK(s, Expected(p))
    BY <1>1, <1>4, ReceiveContext
  <2>2. \A g \in Expected(p) \ {f} : g.step # f.step
    BY <2>1 DEF FramesOf, FramesOK
  <2>3. StoredOK(t, Expected(p) \ {f})
    BY <1>3, <2>1, <2>2 DEF StoredOK, Entry
  <2> QED
    BY <1>3, <2>1, <2>3 DEF RecvOK, ReadUpTo, KnownPublics
<1>5. Commit(p, f, t)
  BY <1>1, <1>2 DEF ReceiveSkipped
<1> QED
  BY <1>1, <1>3, <1>4, <1>5, CommitLateInv

LEMMA SameChainLateInv ==
    ASSUME RInv, SealInv, OriginInv, LateInv, NEW p \in Peer, NEW f \in net,
           f.from = Other(p), ReceiveSameChain(p, f)
    PROVE  LateInv'
<1>1. PICK s \in RatchetState : s = ratchet[p] /\ StoreOK(s)
  BY DEF RInv, TypeOK, StoreInv
<1>2. PICK t : t = NextRecvKey(OnSameChain(s, f))
  OBVIOUS
<1>3. f.step \in Counter /\ s.recv_count <= f.step /\ OpensOnSameChain(s, f)
  BY <1>1 DEF RInv, TypeOK, ReceiveSameChain, OpensOnSameChain, CanSkip
<1>4. PICK u \in RatchetState : /\ u = SkipRecvUntil(s, f.step) /\ u.root_key = s.root_key
                                /\ u.chain_key_send = s.chain_key_send
                                /\ u.dh_public = s.dh_public /\ u.send_count = s.send_count
  BY <1>1, <1>3, SkipFacts, SkipKeepsSent
<1>5. /\ t.chain_key_send = s.chain_key_send /\ t.send_count = s.send_count
      /\ t.dh_public = s.dh_public /\ t.root_key = s.root_key
  BY <1>2, <1>4 DEF NextRecvKey, OnSameChain, RatchetState
<1>6. ASSUME Counting(Other(p))
      PROVE  RecvOK(t, Other(p), Sent(Other(p)), Expected(p) \ {f})
  <2>1. /\ FramesOf(Other(p), Sent(Other(p)))
        /\ Expected(p) \subseteq Sent(Other(p)) /\ f \in Sent(Other(p))
        /\ ReadUpTo(s, Other(p), Sent(Other(p)))
        /\ KnownPublics(s, Other(p)) /\ StoredOK(s, Expected(p))
    BY <1>1, <1>6, ReceiveContext
  <2>2. PICK S, F, F2, q : /\ S = Sent(Other(p)) /\ F = Expected(p) /\ F2 = F \ {f}
                           /\ q = Other(p)
    OBVIOUS
  <2>3. ReadUpTo(t, q, S) /\ KnownPublics(t, q) /\ StoredOK(t, F2)
    BY <1>1, <1>2, <1>3, <2>1, <2>2, SameChainOrder
  <2> QED
    BY <2>2, <2>3 DEF RecvOK
<1>7. Commit(p, f, t)
  BY <1>1, <1>2 DEF ReceiveSameChain
<1> QED
  BY <1>1, <1>5, <1>6, <1>7, CommitLateInv

LEMMA NewChainLateInv ==
    ASSUME RInv, SealInv, OriginInv, LateInv, NEW p \in Peer, NEW f \in net,
           f.from = Other(p), ReceiveNewChain(p, f)
    PROVE  LateInv'
<1>1. PICK s \in RatchetState : s = ratchet[p] /\ StoreOK(s) /\ IsOption(s.remote_dh)
  BY DEF RInv, TypeOK, StoreInv, IsOption
<1>2. PICK first \in OpeningStarts(s, f) : Commit(p, f, NextRecvKey(OnNewChain(s, f, first)))
  BY <1>1 DEF ReceiveNewChain
<1>3. PICK t : t = NextRecvKey(OnNewChain(s, f, first))
  OBVIOUS
<1>4. f \in Frame /\ f.step \in Counter /\ IsFrame(f) /\ OpensOnNewChain(s, f)
  BY <1>1 DEF RInv, TypeOK, IsFrame, ReceiveNewChain
<1>5. t.chain_key_send = s.chain_key_send /\ t.dh_public = s.dh_public
  BY <1>1, <1>2, <1>3, <1>4, NewChainStep DEF RecvStep
<1>6. /\ t.send_count = s.send_count
      /\ t.root_key = KdfRoot(s.root_key, s.dh_public, f.sender_dh)
  BY <1>1, <1>2, <1>3, <1>4, NewChainPath
<1>7. \A x : InRoot(x, s.root_key) => InRoot(x, t.root_key)
  <2>1. s.root_key \in Root /\ s.dh_public \in Pub /\ f.sender_dh \in Pub
    BY <1>4 DEF RatchetState, Frame
  <2> QED
    BY <1>6, <2>1, KdfKeeps
<1>8. ASSUME Counting(Other(p))
      PROVE  RecvOK(t, Other(p), Sent(Other(p)), Expected(p) \ {f})
  <2>1. /\ FramesOf(Other(p), Sent(Other(p)))
        /\ Expected(p) \subseteq Sent(Other(p)) /\ f \in Sent(Other(p))
        /\ ReadUpTo(s, Other(p), Sent(Other(p)))
        /\ KnownPublics(s, Other(p)) /\ StoredOK(s, Expected(p))
        /\ s.dh_public[1] # Other(p)
    BY <1>1, <1>8, ReceiveContext
  <2>2. PICK S, F, F2, q : /\ S = Sent(Other(p)) /\ F = Expected(p) /\ F2 = F \ {f}
                           /\ q = Other(p)
    OBVIOUS
  <2>3. ReadUpTo(t, q, S) /\ KnownPublics(t, q) /\ StoredOK(t, F2)
    BY <1>1, <1>2, <1>3, <1>4, <2>1, <2>2, NewChainOrder
  <2> QED
    BY <2>2, <2>3 DEF RecvOK
<1> QED
  BY <1>1, <1>2, <1>3, <1>5, <1>6, <1>7, <1>8, CommitLateInv

(* An expired line gives up the key of its number only. *)
LEMMA ExpireLateInv ==
    ASSUME RInv, LateInv, NEW p \in Peer, NEW step \in LineSteps(p), ExpireLine(p, step)
    PROVE  LateInv'
<1>1. PICK s \in RatchetState : s = ratchet[p]
  BY DEF RInv, TypeOK
<1>2. PICK t : t = WipeSkippedKey(s, step)
  OBVIOUS
<1>3. /\ t.chain_key_send = s.chain_key_send /\ t.send_count = s.send_count
      /\ t.dh_public = s.dh_public /\ t.root_key = s.root_key /\ t.remote_dh = s.remote_dh
      /\ t.chain_key_recv = s.chain_key_recv /\ t.recv_count = s.recv_count
      /\ t.skipped_keys = {e \in s.skipped_keys : e.step # step}
  BY <1>2 DEF WipeSkippedKey, RatchetState
<1>4. /\ p \in Expiring /\ net' = net /\ opened' = opened
      /\ ratchet'[p] = t /\ \A q \in Peer : q # p => ratchet'[q] = ratchet[q]
  BY <1>1, <1>2 DEF ExpireLine, RInv, TypeOK
<1>5. \A q \in Peer : /\ ratchet'[q].chain_key_send = ratchet[q].chain_key_send
                      /\ ratchet'[q].send_count = ratchet[q].send_count
                      /\ ratchet'[q].dh_public = ratchet[q].dh_public
                      /\ ratchet'[q].root_key = ratchet[q].root_key
  <2> TAKE q \in Peer
  <2>1. CASE q = p
    BY <1>1, <1>3, <1>4, <2>1
  <2>2. CASE q # p
    <3>1. ratchet'[q] = ratchet[q]
      BY <1>4, <2>2
    <3> QED
      BY <3>1
  <2> QED
    BY <2>1, <2>2
<1>6. RootInv' /\ SendOrder'
  BY <1>4, <1>5, SendOrderQuiet DEF LateInv
<1>7. \A q \in Peer : /\ Sent(q)' = Sent(q) /\ Expected(q)' = Expected(q)
  BY <1>4 DEF Sent, Expected, Unread, LineSteps
<1>8. ASSUME NEW q \in Peer, Counting(Other(q))'
      PROVE  RecvOK(ratchet[q], Other(q), Sent(Other(q)), Expected(q))'
  <2>1. Other(q) \in Peer /\ Counting(Other(q))
    BY <1>5, <1>8, PeerFacts DEF Counting
  <2>2. RecvOK(ratchet[q], Other(q), Sent(Other(q)), Expected(q))
    BY <2>1 DEF LateInv, RecvOrder
  <2>3. CASE q = p
    <3>1. \A g \in Expected(p) : g.step # step
      BY <1>4 DEF Expected
    <3>2. StoredOK(t, Expected(p))
      BY <1>1, <1>3, <2>2, <2>3, <3>1 DEF RecvOK, StoredOK, Entry
    <3>3. RecvOK(t, Other(p), Sent(Other(p)), Expected(p))
      BY <1>1, <1>3, <2>2, <2>3, <3>2 DEF RecvOK, ReadUpTo, KnownPublics
    <3>4. RecvOK(ratchet'[q], Other(q), Sent(Other(q))', Expected(q)')
      BY <1>4, <1>7, <2>1, <2>3, <3>3
    <3> QED
      BY <3>4 DEF RecvOK, ReadUpTo, KnownPublics, StoredOK, InRoot
  <2>4. CASE q # p
    <3>1. RecvOK(ratchet'[q], Other(q), Sent(Other(q))', Expected(q)')
      BY <1>4, <1>7, <2>1, <2>2, <2>4
    <3> QED
      BY <3>1 DEF RecvOK, ReadUpTo, KnownPublics, StoredOK, InRoot
  <2> QED
    BY <2>3, <2>4
<1> QED
  BY <1>6, <1>8 DEF LateInv, RecvOrder

(* A frame is sent after all that was read, and is not passed over.        *)
LEMMA SendLateInv ==
    ASSUME RInv, RInv', SealInv, OriginInv, LateInv, NEW q \in Peer, Send(q)
    PROVE  LateInv'
<1>1. PICK g : g = SealedFrame(q, ratchet[q])
  OBVIOUS
<1>2. /\ Sent(q)' = Sent(q) \cup {g} /\ opened' = opened
      /\ \A p \in Peer : p # q => Sent(p)' = Sent(p) /\ ratchet'[p] = ratchet[p]
      /\ ratchet'[q] = RatchetSend(ratchet[q])
  BY <1>1, SendFrames DEF Send
<1>3. RootInv' /\ SendOrder'
  BY SendOrderSend DEF LateInv, SealInv
<1>4. /\ ratchet[q] \in RatchetState /\ IsOption(ratchet[q].remote_dh)
      /\ ratchet[q].dh_public[1] = q /\ \A r \in ratchet[q].remote_dh : r[1] = Other(q)
  BY DEF RInv, TypeOK, IsOption, SealInv, DrawnInv, OriginInv
<1>5. ASSUME NEW p \in Peer, Counting(Other(p))'
      PROVE  RecvOK(ratchet[p], Other(p), Sent(Other(p)), Expected(p))'
  <2>1. Other(p) \in Peer /\ Other(p) # p
    BY PeerFacts
  <2>2. CASE p = q
    <3>1. PICK s \in RatchetState : s = ratchet[p] /\ IsOption(s.remote_dh)
      BY <1>4, <2>2
    <3>2. PICK t \in RatchetState, b \in RatchetState : t = RatchetSend(s) /\ b = BeforeKey(s)
      BY <3>1, RatchetSendFacts, BeforeKeyFacts
    <3>3. /\ t.remote_dh = s.remote_dh /\ t.recv_count = s.recv_count
          /\ t.skipped_keys = s.skipped_keys /\ t.chain_key_recv = s.chain_key_recv
          /\ t.root_key = b.root_key
      BY <3>1, <3>2, RatchetSendFacts
    <3>4. RecvOK(s, Other(p), Sent(Other(p)), Expected(p))
      BY <1>2, <1>5, <2>1, <2>2, <3>1 DEF Counting, LateInv, RecvOrder
    <3>5. KnownPublics(t, Other(p))
      <4>1. CASE b = s
        BY <3>3, <3>4, <4>1 DEF RecvOK, KnownPublics
      <4>2. CASE b # s
        <5>1. PICK n \in Nat : n = s.dh_public[2] + 1
          BY DEF RatchetState, Pub
        <5>2. PICK r \in s.remote_dh : b.root_key = KdfRoot(s.root_key, <<p, n>>, r)
          BY <1>4, <2>2, <3>1, <3>2, <4>2, <5>1, SendingChain
        <5>3. /\ <<p, n>> \in Pub /\ r \in Pub /\ s.root_key \in Root /\ r[2] \in Nat
          BY <2>1, <5>1 DEF RatchetState, Pub
        <5>4. PICK a \in Pub : a = <<p, n>> /\ a[1] = p
          BY <5>3
        <5>5. PICK R : R = KdfRoot(s.root_key, a, r)
          OBVIOUS
        <5>6. \A x : InRoot(x, R) <=> x = a \/ x = r \/ InRoot(x, s.root_key)
          BY <5>3, <5>5, KdfKeeps
        <5>7. t.root_key = R
          BY <3>3, <5>2, <5>4, <5>5
        <5>8. ASSUME NEW x, InRoot(x, R), x[1] = Other(p)
              PROVE  \E y \in s.remote_dh : x[2] <= y[2]
          <6>1. CASE x = r
            BY <5>2, <5>3, <6>1
          <6>2. CASE InRoot(x, s.root_key)
            BY <3>4, <5>8, <6>2 DEF RecvOK, KnownPublics
          <6> QED
            BY <2>1, <5>4, <5>6, <5>8, <6>1, <6>2
        <5> QED
          BY <3>3, <5>7, <5>8 DEF KnownPublics
      <4> QED
        BY <4>1, <4>2
    <3>6. RecvOK(t, Other(p), Sent(Other(p)), Expected(p))
      BY <3>3, <3>4, <3>5 DEF RecvOK, ReadUpTo, StoredOK
    <3>7. Expected(p)' \subseteq Expected(p)
      <4>1. Unread(p)' = Unread(p)
        BY <1>2, <2>1, <2>2 DEF Unread
      <4>2. LineSteps(p) \subseteq LineSteps(p)'
        BY <1>2, <2>2 DEF LineSteps
      <4> QED
        BY <4>1, <4>2 DEF Expected
    <3>8. RecvOK(ratchet'[p], Other(p), Sent(Other(p))', Expected(p)')
      BY <1>2, <2>1, <2>2, <3>1, <3>2, <3>6, <3>7, RecvMonotone
    <3> QED
      BY <3>8 DEF RecvOK, ReadUpTo, KnownPublics, StoredOK, InRoot
  <2>3. CASE p # q
    <3>1. Other(p) = q
      BY <2>3 DEF Peer, Other
    <3>2. PICK s \in RatchetState : s = ratchet[p]
      BY DEF RInv, TypeOK
    <3>3. ratchet[q].send_count < COUNTER_MAX
      <4>1. PICK b \in RatchetState : b = BeforeKey(ratchet[q]) /\ b.send_count = ratchet[q].send_count
        BY <1>4, BeforeKeyFacts
      <4>2. RatchetSend(ratchet[q]).send_count = SaturatingInc(ratchet[q].send_count)
        BY <4>1 DEF RatchetSend, RatchetState
      <4>3. SaturatingInc(ratchet[q].send_count) < COUNTER_MAX /\ ratchet[q].send_count \in Counter
        BY <1>2, <1>4, <1>5, <3>1, <4>2 DEF Counting, RatchetState
      <4> QED
        BY <4>3, LimitsAreNat DEF SaturatingInc, Counter
    <3>4. /\ RecvOK(s, q, Sent(q), Expected(p)) /\ FramesOf(q, Sent(q))
          /\ HeadOK(ratchet[q], Sent(q))
      BY <3>1, <3>2, <3>3, CountingFrames DEF Counting, LateInv, RecvOrder, SendOrder
    <3>5. s.recv_count <= ratchet[q].send_count
      <4>1. ratchet[q].send_count \in Nat /\ s.recv_count \in Nat
        BY <1>4, CounterFacts DEF RatchetState
      <4>2. \A f \in Sent(q) : f.step \in Nat /\ f.step < ratchet[q].send_count
        BY <3>4, FrameNumbers DEF FramesOf, HeadOK
      <4> QED
        BY <3>4, <4>1, <4>2 DEF RecvOK, ReadUpTo
    <3>6. g.step = ratchet[q].send_count
      BY <1>1 DEF SealedFrame
    <3>7. LineSteps(p)' = LineSteps(p) /\ Unread(p)' \subseteq Unread(p) \cup {g}
      BY <1>2, <2>3, <3>1 DEF LineSteps, Unread
    <3>8. Expected(p)' \subseteq Expected(p) \cup {g}
      BY <3>7 DEF Expected
    <3>9. StoredOK(s, Expected(p) \cup {g})
      <4>1. ~(g.step < s.recv_count)
        BY <1>4, <3>5, <3>6, CounterFacts DEF RatchetState
      <4> QED
        BY <3>4, <4>1 DEF RecvOK, StoredOK
    <3>10. RecvOK(s, q, Sent(q), Expected(p) \cup {g})
      BY <3>4, <3>9 DEF RecvOK
    <3>11. RecvOK(ratchet'[p], Other(p), Sent(Other(p))', Expected(p)')
      BY <1>2, <2>3, <3>1, <3>2, <3>8, <3>10, RecvMonotone
    <3> QED
      BY <3>11 DEF RecvOK, ReadUpTo, KnownPublics, StoredOK, InRoot
  <2> QED
    BY <2>2, <2>3
<1> QED
  BY <1>3, <1>5 DEF LateInv, RecvOrder

LEMMA NextLateInv ==
    ASSUME RInv, RInv', SealInv, OriginInv, OriginInv', LateInv, [Next]_vars
    PROVE  LateInv'
<1>1. ASSUME NEW p \in Peer, Send(p) PROVE LateInv'
  BY <1>1, SendLateInv
<1>2. ASSUME NEW p \in Peer, NEW f \in net, NEW t, Commit(p, f, t) PROVE f.from = Other(p)
  <2>1. f \in opened'[p]
    BY <1>2 DEF Commit, RInv, TypeOK
  <2> QED
    BY <2>1 DEF OriginInv
<1>3. ASSUME NEW p \in Peer, NEW f \in net, ReceiveSkipped(p, f) PROVE LateInv'
  BY <1>2, <1>3, SkippedLateInv DEF ReceiveSkipped
<1>4. ASSUME NEW p \in Peer, NEW f \in net, ReceiveSameChain(p, f) PROVE LateInv'
  BY <1>2, <1>4, SameChainLateInv DEF ReceiveSameChain
<1>5. ASSUME NEW p \in Peer, NEW f \in net, ReceiveNewChain(p, f) PROVE LateInv'
  <2>1. f.from = Other(p)
    BY <1>2, <1>5 DEF ReceiveNewChain
  <2> QED
    BY <1>5, <2>1, NewChainLateInv
<1>6. ASSUME NEW p \in Peer, NEW step \in LineSteps(p), ExpireLine(p, step) PROVE LateInv'
  BY <1>6, ExpireLateInv
<1>7. CASE UNCHANGED vars
  BY <1>7 DEF vars, LateInv, RootInv, SendOrder, RecvOrder, RecvOK, Counting, Sent, Expected,
              Unread, LineSteps, RootOK, KeyFits, InRoot, HeadOK, FramesOK, SameSeed,
              ReadUpTo, KnownPublics, StoredOK
<1>8. ASSUME NEW p \in Peer, NEW f \in net, Reject(p, f) PROVE LateInv'
  BY <1>7, <1>8 DEF Reject
<1>9. ASSUME NEW p \in Peer, Reload(p) PROVE LateInv'
  BY <1>7, <1>9, ReloadKeeps DEF RInv
<1> QED
  BY <1>1, <1>3, <1>4, <1>5, <1>6, <1>7, <1>8, <1>9 DEF Next, Receive

LEMMA LateInvHolds == Spec => []LateInv
<1>1. Init => LateInv
  BY InitLateInv
<1>2. /\ RInv /\ RInv' /\ SealInv /\ (ErasedInv /\ OriginInv) /\ (ErasedInv /\ OriginInv)'
      /\ LateInv /\ [Next]_vars
      => LateInv'
  BY NextLateInv
<1> QED
  BY <1>1, <1>2, RInvHolds, SealInvHolds, ReadInvHolds, PTL DEF Spec

(* A frame ahead on the chain p receives on is on it as far ahead as its   *)
(* step says.                                                              *)
LEMMA AheadOpens ==
    ASSUME RInv, SealInv, OriginInv, LateInv, NEW p \in Peer, NEW f \in Unread(p),
           Counting(Other(p)), f.step >= ratchet[p].recv_count,
           f.key.root = ratchet[p].chain_key_recv.root,
           f.step - ratchet[p].recv_count <= MAX_SKIP
    PROVE  OpensOnSameChain(ratchet[p], f)
<1>1. PICK q \in Peer : q = Other(p) /\ q # p
  BY PeerFacts
<1>2. PICK s \in RatchetState : s = ratchet[p] /\ StoreOK(s) /\ s.dh_public[1] = p
  BY DEF RInv, TypeOK, StoreInv, SealInv, DrawnInv
<1>3. /\ f \in net /\ f.from = q /\ f \in Sent(q)
  BY <1>1 DEF Unread, Sent
<1>4. /\ FramesOf(q, Sent(q)) /\ ReadUpTo(s, q, Sent(q))
  BY <1>1, <1>2, <1>3, ReceiveContext
<1>5. /\ f \in Frame /\ f.step \in Nat /\ f.key \in Chain /\ f.key.idx \in Nat
      /\ f.step < COUNTER_MAX /\ f.sender_dh[1] = q /\ KeyFits(f.key, f.sender_dh)
      /\ f.sender_dh \in Pub
  BY <1>3, <1>4, FrameNumbers DEF FramesOf
<1>6. BegunBy(q, f.key)
  BY <1>3 DEF OriginInv
<1>7. /\ s.recv_count \in Nat /\ s.chain_key_recv \in Chain /\ s.chain_key_recv.idx \in Nat
      /\ s.recv_count <= f.step /\ f.key.root = s.chain_key_recv.root
      /\ f.step - s.recv_count <= MAX_SKIP /\ f.step \in Counter
  BY <1>2, <1>5, CounterFacts, LimitsAreNat DEF RatchetState, Chain, Counter
<1>8. PICK n \in Nat, c \in Chain, k \in Chain :
         n = f.step - s.recv_count /\ c = s.chain_key_recv /\ k = f.key
  BY <1>5, <1>7
<1>9. /\ s.remote_dh \subseteq {f.sender_dh} /\ SameSeed(k, c) /\ k.idx = c.idx + n
  <2>1. CASE s.remote_dh = {} /\ s.chain_key_recv = BootChain(q) /\ s.recv_count = 0
    <3>1. c.root = <<>> /\ c.label = q /\ c.idx = 0
      BY <1>8, <2>1 DEF BootChain
    <3>2. k.root = <<>> /\ k.label = q
      BY <1>6, <1>7, <1>8, <3>1 DEF BegunBy
    <3>3. k.idx = f.step
      BY <1>3, <1>4, <1>8, <3>2 DEF FramesOf, FramesOK
    <3> QED
      BY <1>5, <1>8, <2>1, <3>1, <3>2, <3>3 DEF SameSeed
  <2>2. CASE \E l \in Sent(q) : /\ s.remote_dh = {l.sender_dh}
                                /\ s.chain_key_recv = Advance(l.key, 1)
                                /\ s.recv_count = l.step + 1
    <3>1. PICK l \in Sent(q) : /\ s.remote_dh = {l.sender_dh}
                               /\ s.chain_key_recv = Advance(l.key, 1)
                               /\ s.recv_count = l.step + 1
      BY <2>2
    <3>2. /\ l.step \in Nat /\ l.key \in Chain /\ l.key.idx \in Nat /\ l.sender_dh \in Pub
          /\ l.sender_dh[1] = q /\ KeyFits(l.key, l.sender_dh)
      BY <1>4, FrameNumbers DEF FramesOf
    <3>3. PICK d \in Chain : d = l.key /\ c = Advance(d, 1)
      BY <1>8, <3>1, <3>2
    <3>4. c.root = d.root /\ c.label = d.label /\ c.idx = d.idx + 1
      BY <3>3, AdvanceFacts
    <3>5. f.sender_dh = l.sender_dh
      <4>1. PICK root : root = d.root /\ root = f.key.root /\ root = l.key.root
        BY <1>7, <1>8, <3>3, <3>4
      <4>2. CASE root = <<>>
        <5>1. f.sender_dh[2] = 0 /\ l.sender_dh[2] = 0
          BY <1>5, <3>2, <4>1, <4>2 DEF KeyFits
        <5> QED
          BY <1>5, <3>2, <5>1 DEF Pub
      <4>3. CASE root # <<>>
        <5>1. /\ f.sender_dh \in root[Len(root)]
              /\ \A x \in root[Len(root)] : x[1] = l.sender_dh[1] => x = l.sender_dh
          BY <1>5, <3>2, <4>1, <4>3 DEF KeyFits
        <5> QED
          BY <1>5, <3>2, <5>1
      <4> QED
        BY <4>2, <4>3
    <3>6. SameSeed(f.key, l.key) /\ f.step - f.key.idx = l.step - l.key.idx
      BY <1>3, <1>4, <3>5 DEF FramesOf, FramesOK
    <3>7. SameSeed(k, c)
      BY <1>8, <3>3, <3>4, <3>6 DEF SameSeed
    <3>8. k.idx = c.idx + n
      <4>1. \A a, b, v, w \in Nat : v - w = a - b => w = (b + 1) + (v - (a + 1))
        OBVIOUS
      <4>2. f.key.idx = (l.key.idx + 1) + (f.step - (l.step + 1))
        BY <1>5, <3>2, <3>6, <4>1
      <4> QED
        BY <1>8, <3>1, <3>3, <3>4, <4>2
    <3> QED
      BY <3>1, <3>5, <3>7, <3>8
  <2> QED
    BY <1>4, <2>1, <2>2 DEF ReadUpTo
<1>10. k = Advance(c, n)
  BY <1>9, OnChain
<1>11. Opens(OnSameChain(s, f), f)
  <2>1. PICK u \in RatchetState :
           u = SkipRecvUntil(s, f.step)
           /\ u.chain_key_recv = Advance(s.chain_key_recv, f.step - s.recv_count)
    BY <1>2, <1>7, SkipFacts
  <2>2. OnSameChain(s, f) = [u EXCEPT !.remote_dh = {f.sender_dh}]
    BY <2>1 DEF OnSameChain
  <2>3. OnSameChain(s, f).chain_key_recv = u.chain_key_recv
    BY <2>2 DEF RatchetState
  <2> QED
    BY <1>8, <1>10, <2>1, <2>3 DEF Opens
<1>12. ~HasSkippedKey(s, f)
  <2>1. \A e \in s.skipped_keys : e.step \in Nat /\ e.step < s.recv_count
    BY <1>2 DEF StoreOK, RatchetState, SkippedKey
  <2> QED
    BY <1>5, <1>7, <2>1 DEF HasSkippedKey
<1>13. ~Refused(s, f)
  BY <1>1, <1>2, <1>5, <1>7, LimitsAreNat DEF Refused
<1> QED
  BY <1>2, <1>7, <1>9, <1>11, <1>12, <1>13 DEF OpensOnSameChain, SameChain, CanSkip

(* A frame lost for a while still opens when it comes: its key is stored if *)
(* it was passed over, and the chain reaches it if it is ahead, for every   *)
(* order in which a network may hand frames on, while the sender's counter  *)
(* is not at its end.                                                       *)
THEOREM LateFramesStillOpen == Spec => []LateFramesOpen
<1>1. RInv /\ SealInv /\ OriginInv /\ LateInv => LateFramesOpen
  <2> SUFFICES ASSUME RInv, SealInv, OriginInv, LateInv, NEW p \in Peer, NEW f \in Unread(p),
                      Counting(Other(p)),
                      \/ /\ f.step < ratchet[p].recv_count
                         /\ ratchet[p].recv_count - f.step <= MAX_SKIPPED_KEYS
                         /\ p \notin Expiring \/ f.step \notin LineSteps(p)
                      \/ /\ f.step >= ratchet[p].recv_count
                         /\ f.key.root = ratchet[p].chain_key_recv.root
                         /\ f.step - ratchet[p].recv_count <= MAX_SKIP
               PROVE  CanOpen(ratchet[p], f)
    BY DEF LateFramesOpen, Counting
  <2>1. CASE /\ f.step < ratchet[p].recv_count
             /\ ratchet[p].recv_count - f.step <= MAX_SKIPPED_KEYS
             /\ p \notin Expiring \/ f.step \notin LineSteps(p)
    <3>1. f \in Expected(p)
      BY <2>1 DEF Expected
    <3>2. StoredOK(ratchet[p], Expected(p))
      BY DEF LateInv, RecvOrder, RecvOK
    <3>3. Entry(f) \in ratchet[p].skipped_keys
      BY <2>1, <3>1, <3>2 DEF StoredOK
    <3> QED
      BY <3>3 DEF Entry, CanOpen, OpensSkipped
  <2>2. CASE /\ f.step >= ratchet[p].recv_count
             /\ f.key.root = ratchet[p].chain_key_recv.root
             /\ f.step - ratchet[p].recv_count <= MAX_SKIP
    BY <2>2, AheadOpens DEF CanOpen
  <2> QED
    BY <2>1, <2>2
<1> QED
  BY <1>1, RInvHolds, SealInvHolds, ReadInvHolds, LateInvHolds, PTL

----------------------------------------------------------------------------
(* Turn by turn *)

(* R is the root `root` after the DH steps of q's publics a + 1 .. b, all  *)
(* against the public `pub`.                                               *)
Extends(R, root, pub, q, a, b) ==
    /\ Len(R) = Len(root) + (b - a)
    /\ \A i \in 1 .. Len(root) : R[i] = root[i]
    /\ \A i \in 1 .. (b - a) : R[Len(root) + i] = {pub, <<q, a + i>>}

(* Elements of a root after one DH step. *)
LEMMA KdfElements ==
    ASSUME NEW root \in Root, NEW a \in Pub, NEW b \in Pub
    PROVE  \E R \in Root :
              /\ R = KdfRoot(root, a, b) /\ Len(R) = Len(root) + 1 /\ Len(root) \in Nat
              /\ R[Len(root) + 1] = {a, b}
              /\ \A i \in 1 .. Len(root) : R[i] = root[i]
<1>1. PICK R : R = KdfRoot(root, a, b)
  OBVIOUS
<1>2. /\ R \in Root /\ Len(R) = Len(root) + 1 /\ R[Len(root) + 1] = {a, b}
  BY <1>1, KdfFacts
<1>3. Len(root) \in Nat /\ \A i \in 1 .. Len(root) : R[i] = root[i]
  BY <1>1, <1>2, KdfKeeps
<1> QED
  BY <1>1, <1>2, <1>3

(* No step. *)
LEMMA ExtendsNone ==
    ASSUME NEW R \in Root, NEW root \in Root, NEW pub, NEW q, NEW a \in Nat
    PROVE  Extends(R, root, pub, q, a, a) <=> R = root
<1>1. Len(R) \in Nat /\ Len(root) \in Nat /\ a - a = 0
  BY DEF Root
<1>2. ASSUME Extends(R, root, pub, q, a, a) PROVE R = root
  <2>1. Len(R) = Len(root) /\ \A i \in 1 .. Len(root) : R[i] = root[i]
    BY <1>1, <1>2 DEF Extends
  <2> QED
    BY <2>1, SeqEqual DEF Root
<1>3. ASSUME R = root PROVE Extends(R, root, pub, q, a, a)
  BY <1>1, <1>3 DEF Extends
<1> QED
  BY <1>2, <1>3

(* One step more at the far end. *)
LEMMA ExtendsMore ==
    ASSUME NEW R \in Root, NEW root \in Root, NEW pub \in Pub, NEW q \in Peer,
           NEW a \in Nat, NEW b \in Nat, a <= b, Extends(R, root, pub, q, a, b),
           NEW fresh \in Pub, fresh[1] = q, fresh[2] = b + 1
    PROVE  /\ KdfRoot(R, fresh, pub) \in Root
           /\ Extends(KdfRoot(R, fresh, pub), root, pub, q, a, b + 1)
<1>1. PICK R2 \in Root : /\ R2 = KdfRoot(R, fresh, pub)
                         /\ Len(R2) = Len(R) + 1 /\ Len(R) \in Nat
                         /\ R2[Len(R) + 1] = {fresh, pub}
                         /\ \A i \in 1 .. Len(R) : R2[i] = R[i]
  BY KdfElements
<1>0. fresh = <<q, b + 1>> /\ {fresh, pub} = {pub, fresh}
  BY DEF Pub
<1>2. Len(root) \in Nat
  BY DEF Root
<1>3. /\ Len(R) = Len(root) + (b - a)
      /\ \A i \in 1 .. Len(root) : R[i] = root[i]
      /\ \A i \in 1 .. (b - a) : R[Len(root) + i] = {pub, <<q, a + i>>}
  BY DEF Extends
<1>4. PICK n \in Nat : n = Len(root)
  BY <1>2
<1>5. PICK d \in Nat : d = b - a
  OBVIOUS
<1>6. Len(R2) = n + (b + 1 - a) /\ b + 1 - a = d + 1 /\ Len(R) = n + d
  BY <1>1, <1>3, <1>4, <1>5
<1>7. \A i \in 1 .. n : R2[i] = root[i]
  <2> TAKE i \in 1 .. n
  <2>1. i \in 1 .. Len(R) /\ R[i] = root[i]
    BY <1>3, <1>4, <1>5, <1>6
  <2> QED
    BY <1>1, <2>1
<1>8. \A i \in 1 .. d + 1 : R2[n + i] = {pub, <<q, a + i>>}
  <2> TAKE i \in 1 .. d + 1
  <2>1. CASE i = d + 1
    <3>1. n + i = Len(R) + 1 /\ a + i = b + 1
      BY <1>5, <1>6, <2>1
    <3> QED
      BY <1>1, <1>0, <3>1
  <2>2. CASE i # d + 1
    <3>1. i \in 1 .. d /\ n + i \in 1 .. Len(R)
      BY <1>6, <2>2
    <3> QED
      BY <1>1, <1>3, <1>4, <1>5, <3>1
  <2> QED
    BY <2>1, <2>2
<1>9. PICK c \in Nat : c = b + 1
  OBVIOUS
<1>10. c - a = d + 1
  BY <1>5, <1>9
<1>11. /\ Len(R2) = Len(root) + (c - a)
       /\ \A i \in 1 .. Len(root) : R2[i] = root[i]
       /\ \A i \in 1 .. (c - a) : R2[Len(root) + i] = {pub, <<q, a + i>>}
  BY <1>4, <1>6, <1>7, <1>8, <1>9, <1>10
<1>12. Extends(R2, root, pub, q, a, c)
  BY <1>11 DEF Extends
<1> QED
  BY <1>1, <1>9, <1>12

(* The near end makes the first of the steps. *)
LEMMA ExtendsLess ==
    ASSUME NEW R \in Root, NEW root \in Root, NEW pub \in Pub, NEW q \in Peer,
           NEW a \in Nat, NEW b \in Nat, a < b, Extends(R, root, pub, q, a, b),
           NEW next \in Pub, next[1] = q, next[2] = a + 1
    PROVE  /\ KdfRoot(root, pub, next) \in Root
           /\ Extends(R, KdfRoot(root, pub, next), pub, q, a + 1, b)
<1>1. PICK root2 \in Root : /\ root2 = KdfRoot(root, pub, next)
                            /\ Len(root2) = Len(root) + 1 /\ Len(root) \in Nat
                            /\ root2[Len(root) + 1] = {pub, next}
                            /\ \A i \in 1 .. Len(root) : root2[i] = root[i]
  BY KdfElements
<1>0. next = <<q, a + 1>>
  BY DEF Pub
<1>2. /\ Len(R) = Len(root) + (b - a)
      /\ \A i \in 1 .. Len(root) : R[i] = root[i]
      /\ \A i \in 1 .. (b - a) : R[Len(root) + i] = {pub, <<q, a + i>>}
  BY DEF Extends
<1>3. PICK n \in Nat : n = Len(root)
  BY <1>1
<1>4. PICK d \in Nat : d + 1 = b - a /\ d = b - (a + 1)
  <2>1. b - (a + 1) \in Nat /\ b - (a + 1) + 1 = b - a
    OBVIOUS
  <2> QED
    BY <2>1
<1>5. Len(R) = Len(root2) + d
  BY <1>1, <1>2, <1>3, <1>4
<1>6. \A i \in 1 .. n + 1 : R[i] = root2[i]
  <2> TAKE i \in 1 .. n + 1
  <2>1. CASE i = n + 1
    <3>1. R[n + 1] = {pub, <<q, a + 1>>}
      BY <1>2, <1>3, <1>4
    <3> QED
      BY <1>0, <1>1, <1>3, <2>1, <3>1
  <2>2. CASE i # n + 1
    <3>1. i \in 1 .. n
      BY <2>2
    <3> QED
      BY <1>1, <1>2, <1>3, <3>1
  <2> QED
    BY <2>1, <2>2
<1>7. \A i \in 1 .. d : R[(n + 1) + i] = {pub, <<q, (a + 1) + i>>}
  <2> TAKE i \in 1 .. d
  <2>1. PICK j \in 1 .. d + 1 : j = i + 1
    OBVIOUS
  <2>2. R[n + j] = {pub, <<q, a + j>>}
    BY <1>2, <1>3, <1>4, <2>1
  <2>3. n + j = (n + 1) + i /\ a + j = (a + 1) + i
    BY <2>1
  <2> QED
    BY <2>2, <2>3
<1>8. Len(root2) = n + 1
  BY <1>1, <1>3
<1> QED
  BY <1>1, <1>4, <1>5, <1>6, <1>7, <1>8 DEF Extends

(* One step. *)
LEMMA ExtendsOne ==
    ASSUME NEW R \in Root, NEW root \in Root, NEW pub \in Pub, NEW q \in Peer,
           NEW a \in Nat, Extends(R, root, pub, q, a, a + 1),
           NEW next \in Pub, next[1] = q, next[2] = a + 1
    PROVE  R = KdfRoot(root, pub, next)
<1>1. PICK root2 : root2 = KdfRoot(root, pub, next)
  OBVIOUS
<1>2. PICK b \in Nat : b = a + 1 /\ a < b
  OBVIOUS
<1>3. root2 \in Root /\ Extends(R, root2, pub, q, b, b)
  BY <1>1, <1>2, ExtendsLess
<1> QED
  BY <1>1, <1>3, ExtendsNone

EarlyOf(S) == {f \in S : f.step < COUNTER_MAX}

(* The sender s and the frames S it sent: no number is left out, epochs    *)
(* follow one by one from the first frame on, and a header says where its  *)
(* chain begins.  At the counter's end steps no longer tell frames apart.  *)
SentOK(s, S) ==
    /\ \A f \in S : f.step < s.send_count \/ f.step = COUNTER_MAX
    /\ \A n \in Nat : n < s.send_count => \E f \in S : f.step = n
    /\ \A f \in EarlyOf(S) :
          /\ f.step = 0 => f.sender_dh[2] = 0
          /\ f.key.root # <<>> /\ f.key.idx = 0 => f.epoch_start = f.step
    /\ \A f, g \in EarlyOf(S) :
          g.step = f.step + 1 => g.sender_dh[2] <= f.sender_dh[2] + 1
    /\ s.send_count = 0 => s.dh_public[2] = 0 /\ s.sends_since_dh = 0
    /\ s.chain_key_send.idx = 0 => s.chain_key_send.root = <<>>
    /\ S = EarlyOf(S) => \A f \in S : f.step + 1 = s.send_count => f.sender_dh = s.dh_public

(* What a send does to the counters, with a DH step or without.            *)
LEMMA SendCounters ==
    ASSUME NEW q \in Peer, NEW s \in RatchetState, IsOption(s.remote_dh), s.dh_public[1] = q,
           s.send_count = 0 => s.sends_since_dh = 0, s.send_count < COUNTER_MAX,
           s.chain_key_send.idx = 0 => s.chain_key_send.root = <<>>,
           NEW b, b = BeforeKey(s), NEW t, t = RatchetSend(s), NEW g, g = SealedFrame(q, s)
    PROVE  /\ t.send_count = s.send_count + 1
           /\ t.chain_key_send.idx > 0
           /\ b.dh_public[2] = s.dh_public[2] \/ b.dh_public[2] = s.dh_public[2] + 1
           /\ s.send_count = 0 => b.dh_public = s.dh_public
           /\ b.chain_key_send.root # <<>> /\ b.chain_key_send.idx = 0
                => g.epoch_start = s.send_count
<1>1. /\ b \in RatchetState /\ b.send_count = s.send_count
      /\ t \in RatchetState /\ t.chain_key_send = Advance(b.chain_key_send, 1)
  BY BeforeKeyFacts, RatchetSendFacts
<1>2. t.send_count = SaturatingInc(s.send_count)
      /\ t.sends_since_dh = SaturatingInc(b.sends_since_dh)
  BY <1>1 DEF RatchetSend, RatchetState
<1>3. s.send_count \in Nat /\ SaturatingInc(s.send_count) = s.send_count + 1
  BY LimitsAreNat, CounterFacts DEF SaturatingInc, RatchetState, Counter
<1>4. t.chain_key_send.idx > 0
  <2>1. PICK c \in Chain : c = b.chain_key_send /\ c.idx \in Nat
    BY <1>1 DEF RatchetState, Chain
  <2>2. t.chain_key_send = Advance(c, 1)
    BY <1>1, <2>1
  <2>3. Advance(c, 1).idx = c.idx + 1
    BY AdvanceFacts
  <2> QED
    BY <2>1, <2>2, <2>3
<1>5. CASE ~DhDue(s)
  <2>1. b = s
    BY <1>5 DEF BeforeKey
  <2> QED
    BY <1>2, <1>3, <1>4, <2>1
<1>6. CASE DhDue(s)
  <2>1. s.sends_since_dh # 0
    BY <1>6, LimitsAreNat DEF DhDue
  <2>2. s.send_count # 0
    BY <2>1
  <2>3. b = DhRatchetSend(s)
    BY <1>6 DEF BeforeKey
  <2>4. /\ b.dh_public = <<s.dh_public[1], s.dh_public[2] + 1>>
        /\ b.sends_since_dh = 0
    BY <2>3 DEF DhRatchetSend, RatchetState
  <2>5. t.sends_since_dh = 1
    BY <1>2, <2>4, LimitsAreNat DEF SaturatingInc
  <2>6. g.epoch_start = s.send_count
    <3>1. g.epoch_start = EpochStart(t)
      BY DEF SealedFrame
    <3>2. EpochStart(t) = s.send_count
      BY <1>2, <1>3, <2>2, <2>5 DEF EpochStart
    <3> QED
      BY <3>1, <3>2
  <2> QED
    BY <1>2, <1>3, <1>4, <2>2, <2>4, <2>6
<1> QED
  BY <1>5, <1>6

(* A frame sent is the next of the order. *)
LEMMA PushTurn ==
    ASSUME NEW q \in Peer, NEW s \in RatchetState, IsOption(s.remote_dh), s.dh_public[1] = q,
           NEW S \in SUBSET Frame, SentOK(s, S), FramesOK(EarlyOf(S)),
           s.send_count < COUNTER_MAX => HeadOK(s, S),
           NEW t, t = RatchetSend(s), NEW g, g = SealedFrame(q, s), NEW T, T = S \cup {g}
    PROVE  SentOK(t, T) /\ FramesOK(EarlyOf(T))
<1>1. PICK b \in RatchetState : b = BeforeKey(s) /\ b.send_count = s.send_count
  BY BeforeKeyFacts
<1>2. /\ t \in RatchetState /\ t.chain_key_send = Advance(b.chain_key_send, 1)
      /\ t.dh_public = b.dh_public /\ s.send_count \in Nat /\ s.send_count <= COUNTER_MAX
      /\ s.send_count \in Counter
  BY <1>1, RatchetSendFacts, CounterFacts, LimitsAreNat DEF RatchetState, Counter
<1>3. /\ g \in Frame /\ g.step = s.send_count /\ g.key = b.chain_key_send
      /\ g.sender_dh = b.dh_public
  BY <1>1, SealedFrameFacts DEF SealedFrame
<1>4. \A f \in T : f.step \in Nat /\ f.sender_dh[2] \in Nat
  BY <1>3, FrameNumbers
<1>5. CASE s.send_count < COUNTER_MAX
  <2>1. /\ t.send_count = s.send_count + 1 /\ t.chain_key_send.idx > 0
        /\ b.dh_public[2] = s.dh_public[2] \/ b.dh_public[2] = s.dh_public[2] + 1
        /\ s.send_count = 0 => b.dh_public = s.dh_public
        /\ b.chain_key_send.root # <<>> /\ b.chain_key_send.idx = 0
             => g.epoch_start = s.send_count
    BY <1>1, <1>5, SendCounters DEF SentOK
  <2>2. \A f \in S : f.step < s.send_count
    BY <1>5 DEF HeadOK
  <2>3. EarlyOf(S) = S /\ EarlyOf(T) = T
    BY <1>2, <1>3, <1>4, <1>5, <2>2, LimitsAreNat DEF EarlyOf
  <2>4. FramesOK(T)
    <3>1. HeadOK(b, S)
      BY <1>1, <1>5, BeforeHead
    <3> QED
      BY <1>1, <1>2, <1>3, <2>1, <2>3, <3>1, PushFrame
  <2>5. \A f \in T : f.step < t.send_count \/ f.step = COUNTER_MAX
    BY <1>2, <1>3, <1>4, <2>1, <2>2
  <2>6. \A n \in Nat : n < t.send_count => \E f \in T : f.step = n
    <3> SUFFICES ASSUME NEW n \in Nat, n < s.send_count + 1 PROVE \E f \in T : f.step = n
      BY <2>1
    <3>1. CASE n = s.send_count
      BY <1>3, <3>1
    <3>2. CASE n < s.send_count
      BY <3>2 DEF SentOK
    <3> QED
      BY <1>2, <3>1, <3>2
  <2>7. \A f \in T : /\ f.step = 0 => f.sender_dh[2] = 0
                     /\ f.key.root # <<>> /\ f.key.idx = 0 => f.epoch_start = f.step
    <3> TAKE f \in T
    <3>1. CASE f \in S
      BY <2>3, <3>1 DEF SentOK
    <3>2. CASE f = g
      BY <1>3, <2>1, <3>2 DEF SentOK
    <3> QED
      BY <3>1, <3>2
  <2>8. \A f, h \in T : h.step = f.step + 1 => h.sender_dh[2] <= f.sender_dh[2] + 1
    <3> SUFFICES ASSUME NEW f \in T, NEW h \in T, h.step = f.step + 1
                 PROVE  h.sender_dh[2] <= f.sender_dh[2] + 1
      OBVIOUS
    <3>1. CASE f \in S /\ h \in S
      BY <2>3, <3>1 DEF SentOK
    <3>2. CASE f \in S /\ h = g
      <4>1. f.sender_dh = s.dh_public
        BY <1>3, <2>3, <3>2 DEF SentOK
      <4> QED
        BY <1>3, <1>4, <2>1, <3>2, <4>1
    <3>3. CASE f = g
      <4>1. ~(h \in S)
        BY <1>2, <1>3, <1>4, <2>2, <3>3
      <4>2. h # g
        BY <1>2, <1>3, <3>3
      <4> QED
        BY <4>1, <4>2
    <3> QED
      BY <3>1, <3>2, <3>3
  <2>9. t.send_count # 0 /\ t.chain_key_send.idx # 0
    BY <1>2, <2>1
  <2>10. \A f \in T : f.step + 1 = t.send_count => f.sender_dh = t.dh_public
    BY <1>2, <1>3, <1>4, <2>1, <2>2
  <2> QED
    BY <2>3, <2>4, <2>5, <2>6, <2>7, <2>8, <2>9, <2>10 DEF SentOK
<1>6. CASE s.send_count = COUNTER_MAX
  <2>1. EarlyOf(T) = EarlyOf(S) /\ T # EarlyOf(T)
    BY <1>3, <1>6, LimitsAreNat DEF EarlyOf
  <2>2. t.send_count = COUNTER_MAX
    BY <1>1, <1>6 DEF RatchetSend, RatchetState, SaturatingInc
  <2>3. \A f \in T : f.step < t.send_count \/ f.step = COUNTER_MAX
    BY <1>3, <1>6, <2>2 DEF SentOK
  <2>4. \A n \in Nat : n < t.send_count => \E f \in T : f.step = n
    BY <1>6, <2>2 DEF SentOK
  <2>5. t.chain_key_send.idx > 0
    <3>1. PICK c \in Chain : c = b.chain_key_send /\ c.idx \in Nat
      BY DEF RatchetState, Chain
    <3>2. t.chain_key_send = Advance(c, 1)
      BY <1>2, <3>1
    <3>3. Advance(c, 1).idx = c.idx + 1
      BY AdvanceFacts
    <3> QED
      BY <3>1, <3>2, <3>3
  <2>6. t.send_count # 0 /\ t.chain_key_send.idx # 0
    BY <2>2, <2>5, LimitsAreNat
  <2> QED
    BY <2>1, <2>3, <2>4, <2>6 DEF SentOK
<1> QED
  BY <1>2, <1>5, <1>6, LimitsAreNat

(* The number of the last public read, 0 before the first. *)
EpochRead(s) == IF s.remote_dh = {} THEN 0 ELSE (CHOOSE r \in s.remote_dh : TRUE)[2]

(* The frames E of q, in order, each epoch following the one before.       *)
TurnFrames(q, E) ==
    /\ FramesOf(q, E)
    /\ \A f \in E : /\ BegunBy(q, f.key)
                    /\ f.step = 0 => f.sender_dh[2] = 0
                    /\ f.key.root # <<>> /\ f.key.idx = 0 => f.epoch_start = f.step
    /\ \A f, g \in E : g.step = f.step + 1 => g.sender_dh[2] <= f.sender_dh[2] + 1

(* Where the frame that follows the last one read is: on the chain s       *)
(* receives on, or first on the chain of the epoch that follows.           *)
LEMMA NextPlace ==
    ASSUME NEW s \in RatchetState, NEW q \in Peer, NEW E, TurnFrames(q, E), ReadUpTo(s, q, E),
           NEW f \in E, f.step = s.recv_count
    PROVE  \/ /\ f.sender_dh[2] = EpochRead(s) /\ s.remote_dh \subseteq {f.sender_dh}
              /\ f.key = s.chain_key_recv
           \/ /\ f.sender_dh[2] = EpochRead(s) + 1 /\ ~(s.remote_dh \subseteq {f.sender_dh})
              /\ f.key = DhChain(f.key.root) /\ f.epoch_start = f.step
<1>1. /\ f \in Frame /\ f.step \in Nat /\ f.key \in Chain /\ f.key.idx \in Nat
      /\ f.sender_dh[1] = q /\ KeyFits(f.key, f.sender_dh) /\ f.sender_dh \in Pub
      /\ f.sender_dh[2] \in Nat /\ BegunBy(q, f.key)
  BY FrameNumbers DEF TurnFrames, FramesOf
<1>2. CASE s.remote_dh = {} /\ s.chain_key_recv = BootChain(q) /\ s.recv_count = 0
  <2>1. f.sender_dh[2] = 0 /\ EpochRead(s) = 0
    BY <1>2 DEF TurnFrames, EpochRead
  <2>2. f.key.root = <<>>
    BY <1>1, <2>1 DEF KeyFits
  <2>3. f.key.label = q /\ f.key.idx = 0
    BY <1>1, <1>2, <2>2 DEF BegunBy, TurnFrames, FramesOf, FramesOK
  <2>4. f.key = BootChain(q)
    BY <1>1, <2>2, <2>3 DEF BootChain, Chain
  <2> QED
    BY <1>2, <2>1, <2>4
<1>3. CASE \E l \in E : /\ s.remote_dh = {l.sender_dh}
                        /\ s.chain_key_recv = Advance(l.key, 1)
                        /\ s.recv_count = l.step + 1
  <2>1. PICK l \in E : /\ s.remote_dh = {l.sender_dh}
                       /\ s.chain_key_recv = Advance(l.key, 1)
                       /\ s.recv_count = l.step + 1
    BY <1>3
  <2>2. /\ l \in Frame /\ l.step \in Nat /\ l.key \in Chain /\ l.key.idx \in Nat
        /\ l.sender_dh[1] = q /\ l.sender_dh \in Pub /\ l.sender_dh[2] \in Nat
    BY FrameNumbers DEF TurnFrames, FramesOf
  <2>3. EpochRead(s) = l.sender_dh[2]
    BY <2>1 DEF EpochRead
  <2>4. /\ f.step = l.step + 1 /\ l.step < f.step
        /\ l.sender_dh[2] <= f.sender_dh[2] /\ f.sender_dh[2] <= l.sender_dh[2] + 1
    <3>1. f.step = l.step + 1 /\ l.step < f.step
      BY <2>1, <2>2
    <3> QED
      BY <3>1 DEF TurnFrames, FramesOf, FramesOK
  <2>5. CASE f.sender_dh[2] = l.sender_dh[2]
    <3>1. f.sender_dh = l.sender_dh
      BY <1>1, <2>2, <2>5 DEF Pub
    <3>2. SameSeed(f.key, l.key) /\ f.step - f.key.idx = l.step - l.key.idx
      BY <2>5 DEF TurnFrames, FramesOf, FramesOK
    <3>3. f.key.idx = l.key.idx + 1
      <4>1. \A a, b, v, w \in Nat : (v = a + 1 /\ v - w = a - b) => w = b + 1
        OBVIOUS
      <4> QED
        BY <1>1, <2>2, <2>4, <3>2, <4>1
    <3>4. PICK k \in Chain, d \in Chain, n \in Nat : k = f.key /\ d = l.key /\ n = 1
      BY <1>1, <2>2
    <3>5. SameSeed(k, d) /\ k.idx = d.idx + n
      BY <3>2, <3>3, <3>4
    <3>6. k = Advance(d, n)
      BY <3>5, OnChain
    <3>7. f.key = s.chain_key_recv
      BY <2>1, <3>4, <3>6
    <3> QED
      BY <2>1, <2>3, <2>5, <3>1, <3>7
  <2>6. CASE f.sender_dh[2] # l.sender_dh[2]
    <3>1. f.sender_dh[2] = l.sender_dh[2] + 1
      BY <1>1, <2>2, <2>4, <2>6
    <3>2. f.key.root # <<>> /\ f.key.label = "dh"
      BY <1>1, <2>2, <3>1 DEF KeyFits
    <3>3. f.key.idx = 0
      <4> SUFFICES ASSUME f.key.idx # 0 PROVE FALSE
        OBVIOUS
      <4>1. \A a, b, i \in Nat : (b = a + 1 /\ i # 0) => a <= b /\ a >= b - i
        OBVIOUS
      <4>2. l.step <= f.step /\ l.step >= f.step - f.key.idx
        BY <1>1, <2>2, <2>4, <4>1
      <4>3. f.sender_dh[2] = l.sender_dh[2]
        BY <4>2 DEF TurnFrames, FramesOf, FramesOK
      <4> QED
        BY <2>6, <4>3
    <3>4. f.key = DhChain(f.key.root)
      BY <1>1, <3>2, <3>3 DEF DhChain, Chain
    <3>5. f.epoch_start = f.step
      BY <3>2, <3>3 DEF TurnFrames
    <3>6. ~(s.remote_dh \subseteq {f.sender_dh})
      BY <2>1, <2>6
    <3> QED
      BY <2>3, <3>1, <3>4, <3>5, <3>6
  <2> QED
    BY <2>5, <2>6
<1> QED
  BY <1>2, <1>3 DEF ReadUpTo

(* Skipping nothing changes no key. *)
LEMMA AdvanceNone ==
    ASSUME NEW c \in Chain, NEW n, n \in Nat
    PROVE  Advance(c, n - n) = c
<1>1. n - n = 0
  OBVIOUS
<1>2. Advance(c, 0) = c
  BY DEF Advance, Chain
<1> QED
  BY <1>1, <1>2

(* The next frame opens, if the root of a new epoch is the one s comes to. *)
LEMMA NextOpens ==
    ASSUME NEW s \in RatchetState, StoreOK(s), NEW q \in Peer, s.dh_public[1] # q,
           NEW E, TurnFrames(q, E), ReadUpTo(s, q, E),
           NEW f \in E, f.step = s.recv_count, f.step \in Counter,
           f.sender_dh[2] = EpochRead(s) + 1
              => f.key.root = KdfRoot(s.root_key, s.dh_public, f.sender_dh)
    PROVE  CanOpen(s, f)
<1>1. /\ f \in Frame /\ f.step \in Nat /\ f.key \in Chain /\ f.step < COUNTER_MAX
      /\ f.sender_dh[1] = q /\ f.sender_dh \in Pub
  BY FrameNumbers DEF TurnFrames, FramesOf
<1>2. ~HasSkippedKey(s, f)
  <2>1. \A e \in s.skipped_keys : e.step \in Nat /\ e.step < s.recv_count
    BY DEF StoreOK, RatchetState, SkippedKey
  <2> QED
    BY <1>1, <2>1 DEF HasSkippedKey
<1>3. ~Refused(s, f)
  BY <1>1, LimitsAreNat DEF Refused
<1>4. s.recv_count <= f.step /\ f.step <= f.step /\ f.step - f.step = 0 /\ f.step - s.recv_count = 0
  BY <1>1
<1>5. CanSkip(s, f.step)
  BY <1>4, LimitsAreNat DEF CanSkip
<1>6. PICK u \in RatchetState :
         /\ u = SkipRecvUntil(s, f.step) /\ u.recv_count = f.step /\ StoreOK(u)
         /\ u.root_key = s.root_key /\ u.dh_public = s.dh_public
         /\ u.chain_key_recv = Advance(s.chain_key_recv, f.step - s.recv_count)
  BY <1>4, SkipFacts
<1>7. CASE s.remote_dh \subseteq {f.sender_dh} /\ f.key = s.chain_key_recv
  <2>1. u.chain_key_recv = f.key
    BY <1>1, <1>6, <1>7, AdvanceNone
  <2>2. OnSameChain(s, f).chain_key_recv = u.chain_key_recv
    BY <1>6 DEF OnSameChain, RatchetState
  <2> QED
    BY <1>2, <1>3, <1>5, <1>7, <2>1, <2>2 DEF CanOpen, OpensOnSameChain, SameChain, Opens
<1>8. CASE /\ f.sender_dh[2] = EpochRead(s) + 1 /\ ~(s.remote_dh \subseteq {f.sender_dh})
           /\ f.key = DhChain(f.key.root) /\ f.epoch_start = f.step
  <2>1. PICK root : root = KdfRoot(s.root_key, s.dh_public, f.sender_dh) /\ root = f.key.root
    BY <1>8
  <2>2. PICK d : d = DhRatchetRecv(u, f.sender_dh)
    OBVIOUS
  <2>3. /\ d \in RatchetState /\ d.chain_key_recv = DhChain(root) /\ d.recv_count = f.step
        /\ d.skipped_keys = u.skipped_keys
    <3>1. root = KdfRoot(u.root_key, u.dh_public, f.sender_dh)
      BY <1>6, <2>1
    <3> QED
      BY <1>1, <1>6, <2>2, <3>1, TurnFacts
  <2>4. StoreOK(d)
    BY <1>6, <2>3, Zenon DEF StoreOK
  <2>5. PICK v \in RatchetState :
           /\ v = SkipRecvUntil(d, f.step)
           /\ v.chain_key_recv = Advance(d.chain_key_recv, f.step - d.recv_count)
    BY <1>4, <2>3, <2>4, SkipFacts
  <2>6. v.chain_key_recv = f.key
    <3>1. PICK c \in Chain, n \in Nat : c = d.chain_key_recv /\ n = f.step /\ c = f.key
      BY <1>1, <1>8, <2>1, <2>3
    <3>2. v.chain_key_recv = Advance(c, n - n)
      BY <2>3, <2>5, <3>1
    <3> QED
      BY <3>1, <3>2, AdvanceNone
  <2>7. Opens(OnNewChain(s, f, f.step), f)
    <3>1. OnNewChain(s, f, f.step) = v
      BY <1>6, <2>2, <2>5 DEF OnNewChain
    <3> QED
      BY <2>6, <3>1 DEF Opens
  <2>8. f.step \in EpochCandidates(s, f)
    BY <1>1, <1>4, <1>8, LimitsAreNat DEF EpochCandidates
  <2>9. CanReachOnNewChain(s, f, f.step)
    BY <1>4, <1>5, LimitsAreNat DEF CanReachOnNewChain
  <2>10. OpeningStarts(s, f) # {}
    BY <2>7, <2>8, <2>9 DEF OpeningStarts
  <2> QED
    BY <1>2, <1>3, <1>8, <2>10 DEF CanOpen, OpensOnNewChain, SameChain
<1> QED
  BY <1>7, <1>8, NextPlace

(* s reads f, the frame that follows the last one read, and becomes t.     *)
TurnStep(s, t, f) ==
    /\ t \in RatchetState
    /\ t.remote_dh = {f.sender_dh} /\ t.chain_key_recv = Advance(f.key, 1)
    /\ t.recv_count = f.step + 1
    /\ t.dh_public = s.dh_public /\ t.chain_key_send = s.chain_key_send
    /\ t.send_count = s.send_count /\ t.sends_since_dh = s.sends_since_dh
    /\ EpochRead(t) = f.sender_dh[2]
    /\ \/ EpochRead(t) = EpochRead(s) /\ t.root_key = s.root_key
       \/ /\ EpochRead(t) = EpochRead(s) + 1
          /\ t.root_key = KdfRoot(s.root_key, s.dh_public, f.sender_dh)

(* The receiving side leaves the sender's numbers alone. *)
SameNumbers(t, s) == t.send_count = s.send_count /\ t.sends_since_dh = s.sends_since_dh

LEMMA KeepsNumbers ==
    ASSUME NEW s \in RatchetState
    PROVE  /\ \A n : SameNumbers(SkipRecvUntil(s, n), s)
           /\ \A r : SameNumbers(DhRatchetRecv(s, r), s)
           /\ SameNumbers(NextRecvKey(s), s)
           /\ \A r : SameNumbers([s EXCEPT !.remote_dh = {r}], s)
<1>1. \A chain, n, keys :
         SameNumbers([s EXCEPT !.chain_key_recv = chain, !.recv_count = n, !.skipped_keys = keys], s)
  BY DEF SameNumbers, RatchetState
<1>2. \A root, chain, r :
         SameNumbers([s EXCEPT !.root_key = root, !.chain_key_recv = chain, !.remote_dh = {r}], s)
  BY DEF SameNumbers, RatchetState
<1>3. \A chain, n : SameNumbers([s EXCEPT !.chain_key_recv = chain, !.recv_count = n], s)
  BY DEF SameNumbers, RatchetState
<1>4. \A r : SameNumbers([s EXCEPT !.remote_dh = {r}], s)
  BY DEF SameNumbers, RatchetState
<1>5. \A n : SameNumbers(SkipRecvUntil(s, n), s)
  BY <1>1, Zenon DEF SkipRecvUntil
<1>6. \A r : SameNumbers(DhRatchetRecv(s, r), s)
  BY <1>2, Zenon DEF DhRatchetRecv
<1>7. SameNumbers(NextRecvKey(s), s)
  BY <1>3, Zenon DEF NextRecvKey
<1> QED
  BY <1>4, <1>5, <1>6, <1>7

(* The receive on the same chain. *)
LEMMA SameChainTurn ==
    ASSUME NEW s \in RatchetState, IsOption(s.remote_dh), StoreOK(s), NEW q \in Peer,
           NEW E, TurnFrames(q, E), ReadUpTo(s, q, E),
           NEW f \in E, IsFrame(f), f.step = s.recv_count, OpensOnSameChain(s, f),
           NEW t, t = NextRecvKey(OnSameChain(s, f))
    PROVE  TurnStep(s, t, f)
<1>1. t \in RatchetState
  BY SameChainStep DEF RecvStep
<1>2. /\ f.step \in Nat /\ f.step < COUNTER_MAX /\ f.key \in Chain
  BY FrameNumbers DEF TurnFrames, FramesOf
<1>3. /\ f.sender_dh[2] = EpochRead(s) /\ f.key = s.chain_key_recv
  BY NextPlace DEF OpensOnSameChain, SameChain
<1>4. PICK u \in RatchetState :
         /\ u = SkipRecvUntil(s, f.step) /\ u.recv_count = f.step
         /\ u.chain_key_recv = Advance(s.chain_key_recv, f.step - s.recv_count)
  BY <1>2, SkipFacts DEF IsFrame
<1>5. u.chain_key_recv = f.key
  BY <1>2, <1>3, <1>4, AdvanceNone
<1>6. /\ t.remote_dh = {f.sender_dh} /\ t.chain_key_recv = Advance(f.key, 1)
      /\ t.recv_count = f.step + 1
  BY <1>2, <1>4, <1>5 DEF NextRecvKey, OnSameChain, RatchetState, SaturatingInc
<1>7. EpochRead(t) = f.sender_dh[2]
  BY <1>6 DEF EpochRead
<1>8. t.dh_public = s.dh_public /\ t.chain_key_send = s.chain_key_send
  BY SameChainStep DEF RecvStep
<1>9. t.root_key = s.root_key
  <2>1. u.root_key = s.root_key
    BY <1>2, <1>4, SkipFacts DEF IsFrame
  <2> QED
    BY <1>4, <2>1 DEF NextRecvKey, OnSameChain, RatchetState
<1>10. SameNumbers(t, s)
  <2>1. PICK v : v = [u EXCEPT !.remote_dh = {f.sender_dh}] /\ v = OnSameChain(s, f)
    BY <1>4 DEF OnSameChain
  <2>2. v \in RatchetState
    BY <1>2, <2>1 DEF RatchetState, IsFrame, Frame
  <2>3. SameNumbers(u, s) /\ SameNumbers(v, u) /\ SameNumbers(t, v)
    BY <1>4, <2>1, <2>2, KeepsNumbers
  <2> QED
    BY <2>3 DEF SameNumbers
<1> QED
  BY <1>1, <1>3, <1>6, <1>7, <1>8, <1>9, <1>10 DEF TurnStep, SameNumbers

(* The receive on a new chain. *)
LEMMA NewChainTurn ==
    ASSUME NEW s \in RatchetState, IsOption(s.remote_dh), StoreOK(s), NEW q \in Peer,
           NEW E, TurnFrames(q, E), ReadUpTo(s, q, E),
           NEW f \in E, IsFrame(f), f.step = s.recv_count, OpensOnNewChain(s, f),
           NEW first \in OpeningStarts(s, f),
           NEW t, t = NextRecvKey(OnNewChain(s, f, first))
    PROVE  TurnStep(s, t, f)
<1>1. t \in RatchetState
  BY NewChainStep DEF RecvStep
<1>2. /\ f.step \in Nat /\ f.step < COUNTER_MAX /\ f \in Frame /\ f.step \in Counter
  BY FrameNumbers DEF TurnFrames, FramesOf, IsFrame
<1>3. f.sender_dh[2] = EpochRead(s) + 1
  BY NextPlace DEF OpensOnNewChain, SameChain
<1>4. /\ t.remote_dh = {f.sender_dh} /\ t.chain_key_recv = Advance(f.key, 1)
      /\ t.recv_count = SaturatingInc(f.step)
      /\ t.root_key = KdfRoot(s.root_key, s.dh_public, f.sender_dh)
  BY <1>2, NewChainPath
<1>5. t.recv_count = f.step + 1
  BY <1>2, <1>4, LimitsAreNat DEF SaturatingInc
<1>6. EpochRead(t) = f.sender_dh[2]
  BY <1>4 DEF EpochRead
<1>7. t.dh_public = s.dh_public /\ t.chain_key_send = s.chain_key_send
  BY NewChainStep DEF RecvStep
<1>8. SameNumbers(t, s)
  <2>1. first \in Counter /\ s.recv_count <= first /\ first <= f.step /\ f.sender_dh \in Pub
    BY <1>2, NewChainPath DEF Frame
  <2>2. PICK u \in RatchetState : u = SkipRecvUntil(s, first) /\ u.recv_count = first /\ StoreOK(u)
    BY <2>1, SkipFacts
  <2>3. PICK d \in RatchetState : /\ d = DhRatchetRecv(u, f.sender_dh) /\ d.recv_count = first
                                  /\ d.skipped_keys = u.skipped_keys
    BY <2>1, <2>2, TurnFacts
  <2>4. StoreOK(d)
    BY <2>2, <2>3, Zenon DEF StoreOK
  <2>5. PICK v \in RatchetState : v = SkipRecvUntil(d, f.step)
    BY <1>2, <2>1, <2>3, <2>4, SkipFacts
  <2>6. t = NextRecvKey(v)
    BY <2>2, <2>3, <2>5 DEF OnNewChain
  <2>7. SameNumbers(u, s) /\ SameNumbers(d, u) /\ SameNumbers(v, d) /\ SameNumbers(t, v)
    BY <2>2, <2>3, <2>5, <2>6, KeepsNumbers
  <2> QED
    BY <2>7 DEF SameNumbers
<1> QED
  BY <1>1, <1>3, <1>4, <1>5, <1>6, <1>7, <1>8 DEF TurnStep, SameNumbers

(* How the roots of s and of its peer t, q, differ: by the DH steps t made *)
(* in the epochs s has not read, all against the public of s.  U and V are *)
(* the frames s and t have yet to read.                                    *)
InStep(s, t, q, U, V) ==
    /\ U = {} => s.remote_dh \subseteq {t.dh_public} /\ EpochRead(s) = t.dh_public[2]
    /\ V = {} => /\ Extends(t.root_key, s.root_key, s.dh_public, q, EpochRead(s), t.dh_public[2])
                 /\ EpochRead(s) < t.dh_public[2] => t.chain_key_send.root = t.root_key
    /\ \A f \in EarlyOf(U) : EpochRead(s) < f.sender_dh[2] =>
          Extends(f.key.root, s.root_key, s.dh_public, q, EpochRead(s), f.sender_dh[2])

(* t sends. *)
LEMMA InStepSend ==
    ASSUME NEW s \in RatchetState, NEW t \in RatchetState, NEW q \in Peer,
           IsOption(t.remote_dh), t.remote_dh \subseteq {s.dh_public}, t.dh_public[1] = q,
           EpochRead(s) \in Nat, EpochRead(s) <= t.dh_public[2],
           NEW U, InStep(s, t, q, U, {}),
           NEW u, u = RatchetSend(t), NEW g, g = SealedFrame(q, t), NEW W, W = U \cup {g}
    PROVE  InStep(s, u, q, W, {})
<1>1. PICK b \in RatchetState : b = BeforeKey(t)
  BY BeforeKeyFacts
<1>2. /\ u \in RatchetState /\ u.root_key = b.root_key /\ u.dh_public = b.dh_public
      /\ u.chain_key_send = Advance(b.chain_key_send, 1)
      /\ g.key = b.chain_key_send /\ g.sender_dh = b.dh_public
  BY <1>1, RatchetSendFacts DEF SealedFrame
<1>3. u.chain_key_send.root = b.chain_key_send.root
  <2>1. PICK c \in Chain : c = b.chain_key_send
    BY DEF RatchetState
  <2>2. Advance(c, 1).root = c.root
    BY AdvanceFacts
  <2> QED
    BY <1>2, <2>1, <2>2
<1>4. /\ Extends(b.root_key, s.root_key, s.dh_public, q, EpochRead(s), b.dh_public[2])
      /\ EpochRead(s) < b.dh_public[2] => b.chain_key_send.root = b.root_key
  <2>1. CASE b = t
    BY <2>1 DEF InStep
  <2>2. CASE b # t
    <3>1. /\ b.dh_public = <<q, t.dh_public[2] + 1>>
          /\ b.chain_key_send.root = b.root_key
      BY <1>1, <2>2, SendingChain
    <3>2. PICK r \in t.remote_dh : b.root_key = KdfRoot(t.root_key, <<q, t.dh_public[2] + 1>>, r)
      BY <1>1, <2>2, SendingChain
    <3>3. PICK a \in Nat, c \in Nat, fresh \in Pub :
             /\ a = EpochRead(s) /\ c = t.dh_public[2]
             /\ fresh = b.dh_public /\ fresh[1] = q /\ fresh[2] = c + 1
      BY <3>1 DEF RatchetState, Pub
    <3>4. PICK pub \in Pub, R \in Root, root \in Root :
             pub = s.dh_public /\ R = t.root_key /\ root = s.root_key
      BY DEF RatchetState
    <3>5. b.root_key = KdfRoot(R, fresh, pub)
      BY <3>1, <3>2, <3>3, <3>4
    <3>6. Extends(R, root, pub, q, a, c)
      BY <3>3, <3>4 DEF InStep
    <3>7. a <= c
      BY <3>3
    <3>8. Extends(KdfRoot(R, fresh, pub), root, pub, q, a, c + 1)
      BY <3>3, <3>6, <3>7, ExtendsMore
    <3> QED
      BY <3>1, <3>3, <3>4, <3>5, <3>8
  <2> QED
    BY <2>1, <2>2
<1>5. ASSUME NEW f \in EarlyOf(W), EpochRead(s) < f.sender_dh[2]
      PROVE  Extends(f.key.root, s.root_key, s.dh_public, q, EpochRead(s), f.sender_dh[2])
  <2>1. CASE f = g
    BY <1>2, <1>4, <1>5, <2>1
  <2>2. CASE f \in EarlyOf(U)
    <3>1. Extends(f.key.root, s.root_key, s.dh_public, q, EpochRead(s), f.sender_dh[2])
      BY <1>5, <2>2, Zenon DEF InStep
    <3> QED
      BY <3>1
  <2> QED
    BY <1>5, <2>1, <2>2 DEF EarlyOf
<1> QED
  BY <1>2, <1>3, <1>4, <1>5 DEF InStep

(* The peer of a sender is as it was. *)
LEMMA InStepSent ==
    ASSUME NEW s, NEW t \in RatchetState, NEW p, IsOption(t.remote_dh),
           NEW U, InStep(t, s, p, {}, U),
           NEW u, u = RatchetSend(t), NEW W, W # {}
    PROVE  InStep(u, s, p, {}, W)
<1>1. u.remote_dh = t.remote_dh
  BY RatchetSendFacts
<1> QED
  BY <1>1 DEF InStep, EarlyOf, EpochRead

(* s reads the next frame of t. *)
LEMMA InStepRead ==
    ASSUME NEW s \in RatchetState, NEW t \in RatchetState, NEW q \in Peer,
           EpochRead(s) \in Nat, NEW U, InStep(s, t, q, U, {}),
           NEW f \in Frame, f.sender_dh[1] = q, f.sender_dh[2] <= t.dh_public[2],
           NEW s2, TurnStep(s, s2, f),
           NEW W, W \subseteq U, W = {} => f.sender_dh = t.dh_public,
           \A g \in EarlyOf(U) : g.sender_dh[2] \in Nat /\ g.key.root \in Root
    PROVE  InStep(s2, t, q, W, {})
<1>1. /\ f.sender_dh \in Pub /\ f.sender_dh[2] \in Nat /\ t.dh_public[2] \in Nat
      /\ t.root_key \in Root /\ s.root_key \in Root /\ s.dh_public \in Pub
  BY FrameNumbers DEF RatchetState, Pub
<1>2. /\ s2.remote_dh = {f.sender_dh} /\ s2.dh_public = s.dh_public
      /\ EpochRead(s2) = f.sender_dh[2]
  BY DEF TurnStep
<1>3. W = {} => s2.remote_dh \subseteq {t.dh_public} /\ EpochRead(s2) = t.dh_public[2]
  BY <1>2
<1>4. ASSUME NEW R \in Root, NEW c \in Nat, EpochRead(s2) <= c,
             EpochRead(s) <= c,
             Extends(R, s.root_key, s.dh_public, q, EpochRead(s), c)
      PROVE  Extends(R, s2.root_key, s2.dh_public, q, EpochRead(s2), c)
  <2>1. CASE EpochRead(s2) = EpochRead(s) /\ s2.root_key = s.root_key
    BY <1>2, <1>4, <2>1
  <2>2. CASE /\ EpochRead(s2) = EpochRead(s) + 1
             /\ s2.root_key = KdfRoot(s.root_key, s.dh_public, f.sender_dh)
    <3>1. PICK a \in Nat, pub \in Pub, root \in Root, next \in Pub :
             /\ a = EpochRead(s) /\ pub = s.dh_public /\ root = s.root_key
             /\ next = f.sender_dh /\ next[1] = q /\ next[2] = a + 1
      BY <1>1, <1>2, <2>2
    <3>2. a < c /\ Extends(R, root, pub, q, a, c)
      BY <1>4, <2>2, <3>1
    <3>3. Extends(R, KdfRoot(root, pub, next), pub, q, a + 1, c)
      BY <3>1, <3>2, ExtendsLess
    <3> QED
      BY <1>2, <2>2, <3>1, <3>3
  <2> QED
    BY <2>1, <2>2 DEF TurnStep
<1>5. EpochRead(s2) \in Nat /\ EpochRead(s) <= EpochRead(s2)
  BY <1>1, <1>2 DEF TurnStep
<1>6. /\ Extends(t.root_key, s2.root_key, s2.dh_public, q, EpochRead(s2), t.dh_public[2])
      /\ EpochRead(s2) < t.dh_public[2] => t.chain_key_send.root = t.root_key
  <2>1. /\ Extends(t.root_key, s.root_key, s.dh_public, q, EpochRead(s), t.dh_public[2])
        /\ EpochRead(s) < t.dh_public[2] => t.chain_key_send.root = t.root_key
    BY DEF InStep
  <2>2. EpochRead(s2) <= t.dh_public[2] /\ EpochRead(s) <= t.dh_public[2]
    BY <1>1, <1>2, <1>5
  <2>3. EpochRead(s2) < t.dh_public[2] => EpochRead(s) < t.dh_public[2]
    BY <1>1, <1>5
  <2> QED
    BY <1>1, <1>4, <2>1, <2>2, <2>3
<1>7. ASSUME NEW g \in EarlyOf(W), EpochRead(s2) < g.sender_dh[2]
      PROVE  Extends(g.key.root, s2.root_key, s2.dh_public, q, EpochRead(s2), g.sender_dh[2])
  <2>1. g \in EarlyOf(U) /\ g.sender_dh[2] \in Nat /\ g.key.root \in Root
    BY DEF EarlyOf
  <2>2. EpochRead(s) < g.sender_dh[2] /\ EpochRead(s2) <= g.sender_dh[2]
        /\ EpochRead(s) <= g.sender_dh[2]
    BY <1>5, <1>7, <2>1
  <2>3. Extends(g.key.root, s.root_key, s.dh_public, q, EpochRead(s), g.sender_dh[2])
    BY <2>1, <2>2 DEF InStep
  <2> QED
    BY <1>4, <2>1, <2>2, <2>3
<1> QED
  BY <1>3, <1>6, <1>7 DEF InStep

(* Its peer: when s has read all, both have one root. *)
LEMMA InStepCaughtUp ==
    ASSUME NEW s \in RatchetState, NEW t \in RatchetState, NEW p, NEW q,
           NEW U, InStep(t, s, p, {}, U), NEW f, NEW s2, TurnStep(s, s2, f),
           NEW W, InStep(s2, t, q, W, {})
    PROVE  InStep(t, s2, p, {}, W)
<1>1. s2 \in RatchetState /\ s2.dh_public = s.dh_public
  BY DEF TurnStep
<1>2. t.remote_dh \subseteq {s2.dh_public} /\ EpochRead(t) = s2.dh_public[2]
  BY <1>1 DEF InStep
<1>3. ASSUME W = {}
      PROVE  /\ Extends(s2.root_key, t.root_key, t.dh_public, p, EpochRead(t), s2.dh_public[2])
             /\ ~(EpochRead(t) < s2.dh_public[2])
  <2>1. PICK n \in Nat, m \in Nat, R \in Root, root \in Root :
           /\ n = t.dh_public[2] /\ m = s2.dh_public[2] /\ R = t.root_key /\ root = s2.root_key
    BY <1>1 DEF RatchetState, Pub
  <2>2. EpochRead(s2) = n
    BY <1>3, <2>1 DEF InStep
  <2>3. Extends(R, root, s2.dh_public, q, n, n)
    BY <2>1, <2>2 DEF InStep
  <2>4. R = root
    BY <2>3, ExtendsNone
  <2>5. Extends(root, R, t.dh_public, p, m, m)
    BY <2>4, ExtendsNone
  <2> QED
    BY <1>2, <2>1, <2>5
<1> QED
  BY <1>2, <1>3 DEF InStep, EarlyOf

TurnOrder == \A q \in Peer : FramesOK(EarlyOf(Sent(q))) /\ SentOK(ratchet[q], Sent(q))

TurnRead ==
    \A p \in Peer :
        /\ ReadUpTo(ratchet[p], Other(p), EarlyOf(Sent(Other(p))))
        /\ \A f \in Sent(Other(p)) : f \in opened[p] <=> f.step < ratchet[p].recv_count

TurnRoots ==
    \A p \in Peer :
        /\ Unread(p) = {} \/ Unread(Other(p)) = {}
        /\ InStep(ratchet[p], ratchet[Other(p)], Other(p), Unread(p), Unread(Other(p)))

TurnInv == TurnOrder /\ TurnRead /\ TurnRoots

Sound == RInv /\ SealInv /\ OriginInv /\ LateInv

LEMMA InitTurnInv == Init => TurnInv
<1> SUFFICES ASSUME Init PROVE TurnInv
  OBVIOUS
<1>1. /\ net = {} /\ \A p \in Peer : ratchet[p] = InitDirectional(p) /\ Sent(p) = {}
      /\ \A p \in Peer : Unread(p) = {}
  BY PeerFacts DEF Init, Sent, Unread
<1>2. ASSUME NEW p \in Peer
      PROVE  /\ ratchet[p].dh_public = <<p, 0>> /\ ratchet[p].chain_key_send.root = <<>>
             /\ ratchet[p].send_count = 0 /\ ratchet[p].sends_since_dh = 0
             /\ ratchet[p].remote_dh = {} /\ ratchet[p].root_key = <<>>
             /\ ratchet[p].chain_key_recv = BootChain(Other(p)) /\ ratchet[p].recv_count = 0
  <2>1. ratchet[p] = InitDirectional(p)
    BY <1>1
  <2>2. /\ InitDirectional(p).dh_public = <<p, 0>>
        /\ InitDirectional(p).chain_key_send = BootChain(p)
        /\ InitDirectional(p).chain_key_recv = BootChain(Other(p))
        /\ InitDirectional(p).send_count = 0 /\ InitDirectional(p).recv_count = 0
        /\ InitDirectional(p).sends_since_dh = 0
        /\ InitDirectional(p).remote_dh = {} /\ InitDirectional(p).root_key = <<>>
    BY DEF InitDirectional
  <2>3. BootChain(p).root = <<>>
    BY DEF BootChain
  <2> QED
    BY <2>1, <2>2, <2>3
<1>3. TurnOrder
  BY <1>1, <1>2 DEF TurnOrder, FramesOK, SentOK, EarlyOf
<1>4. TurnRead
  BY <1>1, <1>2, PeerFacts DEF TurnRead, ReadUpTo
<1>5. TurnRoots
  <2> SUFFICES ASSUME NEW p \in Peer
               PROVE  InStep(ratchet[p], ratchet[Other(p)], Other(p), {}, {})
    BY <1>1, PeerFacts DEF TurnRoots
  <2>1. PICK q \in Peer : q = Other(p)
    BY PeerFacts
  <2>2. PICK s, t : s = ratchet[p] /\ t = ratchet[q]
    OBVIOUS
  <2>3. s.remote_dh = {} /\ EpochRead(s) = 0 /\ t.dh_public[2] = 0
    BY <1>2, <2>1, <2>2 DEF EpochRead
  <2>4. <<>> \in Root /\ t.root_key = <<>> /\ s.root_key = <<>> /\ 0 \in Nat
    BY <1>2, <2>1, <2>2 DEF Root
  <2>5. Extends(<<>>, <<>>, s.dh_public, q, 0, 0)
    BY <2>4, ExtendsNone
  <2>6. InStep(s, t, q, {}, {})
    BY <2>3, <2>4, <2>5 DEF InStep, EarlyOf
  <2> QED
    BY <2>1, <2>2, <2>6
<1> QED
  BY <1>3, <1>4, <1>5 DEF TurnInv

(* What is known of both peers between two turns. *)
LEMMA TurnContext ==
    ASSUME Sound, TurnInv, NEW p \in Peer
    PROVE  \E q \in Peer, s \in RatchetState, t \in RatchetState, S \in SUBSET Frame :
              /\ q = Other(p) /\ q # p /\ Other(q) = p
              /\ s = ratchet[p] /\ t = ratchet[q] /\ S = Sent(q)
              /\ StoreOK(s) /\ IsOption(s.remote_dh) /\ IsOption(t.remote_dh)
              /\ s.dh_public[1] = p /\ t.dh_public[1] = q
              /\ TurnFrames(q, EarlyOf(S)) /\ SentOK(t, S) /\ ReadUpTo(s, q, EarlyOf(S))
              /\ \A f \in S : f \in opened[p] <=> f.step < s.recv_count
              /\ EpochRead(s) \in Nat /\ EpochRead(s) <= t.dh_public[2]
              /\ \A f \in S : IsFrame(f) /\ f.sender_dh[1] = q /\ f.sender_dh[2] <= t.dh_public[2]
              /\ t.send_count < COUNTER_MAX => HeadOK(t, S)
<1>1. PICK q \in Peer : q = Other(p) /\ q # p /\ Other(q) = p
  BY PeerFacts
<1>2. PICK s \in RatchetState, t \in RatchetState :
         /\ s = ratchet[p] /\ t = ratchet[q] /\ StoreOK(s)
         /\ IsOption(s.remote_dh) /\ IsOption(t.remote_dh)
         /\ s.dh_public[1] = p /\ t.dh_public[1] = q
  BY DEF Sound, RInv, TypeOK, StoreInv, IsOption, SealInv, DrawnInv
<1>3. PICK S \in SUBSET Frame : S = Sent(q)
  BY DEF Sound, RInv, TypeOK, Sent
<1>4. \A f \in S : IsFrame(f) /\ f.sender_dh[1] = q /\ f.sender_dh[2] <= t.dh_public[2]
                   /\ BegunBy(q, f.key) /\ KeyFits(f.key, f.sender_dh)
  <2> TAKE f \in S
  <2>1. f \in net /\ f.from = q /\ f \in Sent(q)
    BY <1>3 DEF Sent
  <2>2. IsFrame(f)
    BY <2>1 DEF Sound, RInv, TypeOK, IsFrame
  <2>3. f.sender_dh[1] = q /\ BegunBy(q, f.key) /\ KeyFits(f.key, f.sender_dh)
    BY <2>1 DEF Sound, OriginInv, LateInv, RootInv
  <2>4. f.sender_dh[2] <= t.dh_public[2]
    BY <1>2, <2>1, <2>3 DEF Sound, SealInv, DrawnInv, Drawn
  <2> QED
    BY <2>2, <2>3, <2>4
<1>5. /\ FramesOK(EarlyOf(S)) /\ SentOK(t, S) /\ ReadUpTo(s, q, EarlyOf(S))
      /\ \A f \in S : f \in opened[p] <=> f.step < s.recv_count
  BY <1>1, <1>2, <1>3 DEF TurnInv, TurnOrder, TurnRead
<1>6. TurnFrames(q, EarlyOf(S))
  <2>1. FramesOf(q, EarlyOf(S))
    BY <1>4, <1>5 DEF FramesOf, EarlyOf
  <2>2. \A f \in EarlyOf(S) : /\ BegunBy(q, f.key)
                              /\ f.step = 0 => f.sender_dh[2] = 0
                              /\ f.key.root # <<>> /\ f.key.idx = 0 => f.epoch_start = f.step
    BY <1>4, <1>5 DEF SentOK, EarlyOf
  <2>3. \A f, g \in EarlyOf(S) : g.step = f.step + 1 => g.sender_dh[2] <= f.sender_dh[2] + 1
    BY <1>5 DEF SentOK
  <2> QED
    BY <2>1, <2>2, <2>3 DEF TurnFrames
<1>7. EpochRead(s) \in Nat /\ EpochRead(s) <= t.dh_public[2]
  <2>1. t.dh_public[2] \in Nat
    BY DEF RatchetState, Pub
  <2>2. CASE s.remote_dh = {}
    BY <2>1, <2>2 DEF EpochRead
  <2>3. CASE \E f \in EarlyOf(S) : s.remote_dh = {f.sender_dh}
    <3>1. PICK f \in S : s.remote_dh = {f.sender_dh}
      BY <2>3 DEF EarlyOf
    <3>2. EpochRead(s) = f.sender_dh[2] /\ f.sender_dh[2] \in Nat
      BY <3>1, FrameNumbers DEF EpochRead
    <3> QED
      BY <1>4, <3>2
  <2> QED
    BY <1>5, <2>2, <2>3 DEF ReadUpTo
<1>8. t.send_count < COUNTER_MAX => HeadOK(t, S)
  BY <1>2, <1>3 DEF Sound, LateInv, SendOrder, Counting
<1> QED
  BY <1>1, <1>2, <1>3, <1>4, <1>5, <1>6, <1>7, <1>8

(* The next frame in order has the number s counts to. *)
LEMMA NextNumber ==
    ASSUME Sound, TurnInv, NEW p \in Peer, NEW f, IsNext(p, f),
           ratchet[p].recv_count # COUNTER_MAX
    PROVE  /\ f \in EarlyOf(Sent(Other(p))) /\ f.step = ratchet[p].recv_count
           /\ f.step < ratchet[Other(p)].send_count
<1>1. PICK q \in Peer, s \in RatchetState, t \in RatchetState, S \in SUBSET Frame :
         /\ q = Other(p) /\ s = ratchet[p] /\ t = ratchet[q] /\ S = Sent(q)
         /\ SentOK(t, S)
         /\ t.send_count < COUNTER_MAX => HeadOK(t, S)
         /\ \A g \in S : g \in opened[p] <=> g.step < s.recv_count
  BY TurnContext
<1>2. /\ f \in S /\ ~(f.step < s.recv_count)
      /\ \A g \in S : ~(g.step < s.recv_count) => f.step <= g.step
  BY <1>1 DEF IsNext, Unread
<1>3. /\ s.recv_count \in Nat /\ s.recv_count < COUNTER_MAX /\ t.send_count \in Nat
      /\ t.send_count <= COUNTER_MAX /\ \A g \in S : g.step \in Nat
  BY <1>1, FrameNumbers, LimitsAreNat DEF RatchetState, Counter
<1>4. s.recv_count < t.send_count
  <2>1. CASE f.step < t.send_count
    BY <1>2, <1>3, <2>1
  <2>2. CASE ~(f.step < t.send_count)
    <3>1. ~(t.send_count < COUNTER_MAX)
      BY <1>1, <1>2, <2>2 DEF HeadOK
    <3> QED
      BY <1>3, <3>1, LimitsAreNat
  <2> QED
    BY <2>1, <2>2
<1>5. PICK g \in S : g.step = s.recv_count
  BY <1>1, <1>3, <1>4 DEF SentOK
<1>6. f.step = s.recv_count
  BY <1>2, <1>3, <1>5
<1> QED
  BY <1>1, <1>2, <1>3, <1>4, <1>6 DEF EarlyOf

(* The number of a frame in the counter's last place is not read.          *)
LEMMA ReadBelowSent ==
    ASSUME NEW s \in RatchetState, NEW t \in RatchetState, NEW q,
           NEW S \in SUBSET Frame, SentOK(t, S), ReadUpTo(s, q, EarlyOf(S))
    PROVE  s.recv_count <= t.send_count
<1>1. /\ s.recv_count \in Nat /\ t.send_count \in Nat
      /\ \A f \in S : f.step \in Nat
  BY FrameNumbers, LimitsAreNat DEF RatchetState, Counter
<1>2. CASE s.recv_count = 0
  BY <1>1, <1>2
<1>3. CASE \E f \in EarlyOf(S) : s.recv_count = f.step + 1
  <2>1. PICK f \in S : f.step < COUNTER_MAX /\ s.recv_count = f.step + 1
    BY <1>3 DEF EarlyOf
  <2>2. f.step < t.send_count
    BY <1>1, <2>1, LimitsAreNat DEF SentOK
  <2> QED
    BY <1>1, <2>1, <2>2
<1> QED
  BY <1>2, <1>3 DEF ReadUpTo

(* A turn's send. *)
LEMMA SendTurnInv ==
    ASSUME Sound, TurnInv, NEW q \in Peer, TurnSend(q)
    PROVE  TurnInv'
<1>1. PICK p \in Peer, s \in RatchetState, t \in RatchetState, S \in SUBSET Frame :
         /\ q = Other(p) /\ q # p /\ Other(q) = p
         /\ s = ratchet[p] /\ t = ratchet[q] /\ S = Sent(q)
         /\ IsOption(s.remote_dh) /\ IsOption(t.remote_dh) /\ t.dh_public[1] = q
         /\ TurnFrames(q, EarlyOf(S)) /\ SentOK(t, S) /\ ReadUpTo(s, q, EarlyOf(S))
         /\ \A f \in S : f \in opened[p] <=> f.step < s.recv_count
         /\ EpochRead(s) \in Nat /\ EpochRead(s) <= t.dh_public[2]
         /\ t.send_count < COUNTER_MAX => HeadOK(t, S)
  <2>1. PICK p \in Peer : p = Other(q) /\ q = Other(p)
    BY PeerFacts
  <2> QED
    BY <2>1, TurnContext
<1>2. PICK S2 \in SUBSET Frame :
         /\ S2 = Sent(p) /\ ReadUpTo(t, p, EarlyOf(S2))
         /\ \A f \in S2 : f \in opened[q] <=> f.step < t.recv_count
         /\ FramesOK(EarlyOf(S2)) /\ SentOK(s, S2)
  <2>1. PICK S2 \in SUBSET Frame : S2 = Sent(p)
    BY <1>1, TurnContext
  <2> QED
    BY <1>1, <2>1 DEF TurnInv, TurnRead, TurnOrder
<1>3. Send(q) /\ Unread(q) = {}
  BY DEF TurnSend
<1>4. PICK u, g : u = RatchetSend(t) /\ g = SealedFrame(q, t)
  OBVIOUS
<1>5. PICK T : T = S \cup {g}
  OBVIOUS
<1>6. /\ Sent(q)' = T /\ ratchet'[q] = u /\ Sent(p)' = S2 /\ ratchet'[p] = s
      /\ opened' = opened /\ \A r \in Peer : r = p \/ r = q
  <2>1. Sent(q)' = T /\ ratchet'[q] = u
    BY <1>1, <1>3, <1>4, <1>5, SendFrames DEF Sound
  <2>2. Sent(p)' = S2 /\ ratchet'[p] = s
    BY <1>1, <1>2, <1>3, SendFrames DEF Sound
  <2>3. opened' = opened
    BY <1>3 DEF Send
  <2>4. \A r \in Peer : r = p \/ r = q
    BY <1>1 DEF Peer
  <2> QED
    BY <2>1, <2>2, <2>3, <2>4
<1>7. /\ u \in RatchetState /\ g \in Frame /\ g.step = t.send_count
      /\ u.remote_dh = t.remote_dh /\ u.recv_count = t.recv_count
      /\ u.chain_key_recv = t.chain_key_recv
  BY <1>1, <1>4, RatchetSendFacts, SealedFrameFacts DEF SealedFrame
<1>8. TurnOrder'
  <2>1. SentOK(u, T) /\ FramesOK(EarlyOf(T))
    BY <1>1, <1>4, <1>5, PushTurn DEF TurnFrames, FramesOf
  <2>2. \A r \in Peer : FramesOK(EarlyOf(Sent(r)')) /\ SentOK(ratchet'[r], Sent(r)')
    BY <1>2, <1>6, <2>1
  <2> QED
    BY <2>2 DEF TurnOrder, FramesOK, SentOK, EarlyOf, SameSeed
<1>9. ~(g.step < s.recv_count)
  <2>1. s.recv_count <= t.send_count
    BY <1>1, ReadBelowSent
  <2> QED
    BY <1>7, <2>1, CounterFacts DEF RatchetState
<1>10. g \notin opened[p]
  <2>1. opened[p] \subseteq net
    BY DEF Sound, RInv, TypeOK
  <2>2. g \in net => g \in S
    BY <1>1, <1>4 DEF Sent, SealedFrame
  <2> QED
    BY <1>1, <1>9, <2>1, <2>2
<1>11. TurnRead'
  <2>1. EarlyOf(S) \subseteq EarlyOf(T)
    BY <1>5 DEF EarlyOf
  <2>2. ReadUpTo(s, q, EarlyOf(T)) /\ \A f \in T : f \in opened[p] <=> f.step < s.recv_count
    BY <1>1, <1>5, <1>9, <1>10, <2>1 DEF ReadUpTo
  <2>3. ReadUpTo(u, p, EarlyOf(S2)) /\ \A f \in S2 : f \in opened[q] <=> f.step < u.recv_count
    BY <1>2, <1>7 DEF ReadUpTo
  <2>4. ASSUME NEW r \in Peer
        PROVE  /\ ReadUpTo(ratchet'[r], Other(r), EarlyOf(Sent(Other(r))'))
               /\ \A f \in Sent(Other(r))' : f \in opened'[r] <=> f.step < ratchet'[r].recv_count
    <3>1. CASE r = p
      BY <1>1, <1>6, <2>2, <3>1
    <3>2. CASE r = q
      BY <1>1, <1>6, <2>3, <3>2
    <3> QED
      BY <1>6, <3>1, <3>2
  <2> QED
    BY <2>4 DEF TurnRead, ReadUpTo, EarlyOf
<1>12. TurnRoots'
  <2>1. PICK U, W : U = Unread(p) /\ W = U \cup {g}
    OBVIOUS
  <2>2. Unread(p)' = W /\ Unread(q)' = {} /\ W # {}
    BY <1>1, <1>2, <1>3, <1>5, <1>6, <1>10, <2>1 DEF Unread
  <2>3. InStep(s, t, q, U, {}) /\ InStep(t, s, p, {}, U)
    BY <1>1, <1>3, <2>1 DEF TurnInv, TurnRoots
  <2>4. t.remote_dh \subseteq {s.dh_public}
    BY <2>3 DEF InStep
  <2>5. InStep(s, u, q, W, {})
    BY <1>1, <1>4, <2>1, <2>3, <2>4, InStepSend
  <2>6. InStep(u, s, p, {}, W)
    BY <1>1, <1>4, <2>2, <2>3, InStepSent
  <2>7. ASSUME NEW r \in Peer
        PROVE  /\ Unread(r)' = {} \/ Unread(Other(r))' = {}
               /\ InStep(ratchet'[r], ratchet'[Other(r)], Other(r), Unread(r)', Unread(Other(r))')
    <3>1. CASE r = p
      BY <1>1, <1>6, <2>2, <2>5, <3>1
    <3>2. CASE r = q
      BY <1>1, <1>6, <2>2, <2>6, <3>2
    <3> QED
      BY <1>6, <3>1, <3>2
  <2> QED
    BY <2>7 DEF TurnRoots, InStep, Extends, EpochRead, EarlyOf
<1> QED
  BY <1>8, <1>11, <1>12 DEF TurnInv

(* A turn's receive: f is the next frame, and p becomes what it reads to.  *)
LEMMA ReceiveTurn ==
    ASSUME Sound, TurnInv, NEW p \in Peer, NEW f, IsNext(p, f), Receive(p, f)
    PROVE  /\ ratchet[p].recv_count # COUNTER_MAX
           /\ \E t : Commit(p, f, t) /\ TurnStep(ratchet[p], t, f)
<1>1. PICK q \in Peer, s \in RatchetState, S \in SUBSET Frame :
         /\ q = Other(p) /\ s = ratchet[p] /\ S = Sent(q)
         /\ StoreOK(s) /\ IsOption(s.remote_dh)
         /\ TurnFrames(q, EarlyOf(S)) /\ ReadUpTo(s, q, EarlyOf(S))
         /\ \A g \in S : g \in opened[p] <=> g.step < s.recv_count
         /\ \A g \in S : IsFrame(g)
  BY TurnContext
<1>2. f \in S /\ ~(f.step < s.recv_count) /\ IsFrame(f)
  BY <1>1 DEF IsNext, Unread
<1>3. ~ReceiveSkipped(p, f)
  BY <1>1, <1>2 DEF ReceiveSkipped, OpensSkipped, StoreOK
<1>4. s.recv_count # COUNTER_MAX
  BY <1>1, <1>3 DEF Receive, ReceiveSameChain, ReceiveNewChain, OpensOnSameChain,
                    OpensOnNewChain, Refused
<1>5. f \in EarlyOf(S) /\ f.step = s.recv_count
  BY <1>1, <1>4, NextNumber
<1>6. CASE ReceiveSameChain(p, f)
  <2>1. OpensOnSameChain(s, f) /\ Commit(p, f, NextRecvKey(OnSameChain(s, f)))
    BY <1>1, <1>6 DEF ReceiveSameChain
  <2>2. TurnStep(s, NextRecvKey(OnSameChain(s, f)), f)
    BY <1>1, <1>2, <1>5, <2>1, SameChainTurn
  <2> QED
    BY <1>1, <1>4, <2>1, <2>2
<1>7. CASE ReceiveNewChain(p, f)
  <2>1. OpensOnNewChain(s, f)
    BY <1>1, <1>7 DEF ReceiveNewChain
  <2>2. PICK first \in OpeningStarts(s, f) : Commit(p, f, NextRecvKey(OnNewChain(s, f, first)))
    BY <1>1, <1>7 DEF ReceiveNewChain
  <2>3. TurnStep(s, NextRecvKey(OnNewChain(s, f, first)), f)
    BY <1>1, <1>2, <1>5, <2>1, NewChainTurn
  <2> QED
    BY <1>1, <1>4, <2>2, <2>3
<1> QED
  BY <1>3, <1>6, <1>7 DEF Receive

LEMMA ReceiveTurnInv ==
    ASSUME Sound, TurnInv, NEW p \in Peer, NEW f, IsNext(p, f), Receive(p, f)
    PROVE  TurnInv'
<1>1. PICK q \in Peer, s \in RatchetState, t \in RatchetState, S \in SUBSET Frame :
         /\ q = Other(p) /\ q # p /\ Other(q) = p
         /\ s = ratchet[p] /\ t = ratchet[q] /\ S = Sent(q)
         /\ TurnFrames(q, EarlyOf(S)) /\ SentOK(t, S) /\ ReadUpTo(s, q, EarlyOf(S))
         /\ \A g \in S : g \in opened[p] <=> g.step < s.recv_count
         /\ EpochRead(s) \in Nat
         /\ \A g \in S : IsFrame(g) /\ g.sender_dh[1] = q /\ g.sender_dh[2] <= t.dh_public[2]
  BY TurnContext
<1>2. PICK S2 \in SUBSET Frame :
         /\ S2 = Sent(p) /\ ReadUpTo(t, p, EarlyOf(S2))
         /\ \A g \in S2 : g \in opened[q] <=> g.step < t.recv_count
         /\ FramesOK(EarlyOf(S2)) /\ SentOK(s, S2) /\ FramesOK(EarlyOf(S))
  <2>1. PICK S2 \in SUBSET Frame : S2 = Sent(p)
    BY <1>1, TurnContext
  <2> QED
    BY <1>1, <2>1 DEF TurnInv, TurnRead, TurnOrder
<1>3. PICK s2 : Commit(p, f, s2) /\ TurnStep(s, s2, f)
  BY <1>1, ReceiveTurn
<1>4. /\ f \in EarlyOf(S) /\ f \in S /\ f.step = s.recv_count /\ f.step < t.send_count
      /\ f.step < COUNTER_MAX /\ f \in Unread(p) /\ f \in Frame
  <2>1. f \in EarlyOf(S) /\ f.step = s.recv_count /\ f.step < t.send_count
    BY <1>1, NextNumber, ReceiveTurn
  <2> QED
    BY <2>1 DEF EarlyOf, IsNext
<1>5. /\ s2 \in RatchetState /\ s2.recv_count = f.step + 1
      /\ s2.remote_dh = {f.sender_dh} /\ s2.chain_key_recv = Advance(f.key, 1)
      /\ s2.dh_public = s.dh_public /\ s2.chain_key_send = s.chain_key_send
      /\ s2.send_count = s.send_count /\ s2.sends_since_dh = s.sends_since_dh
  BY <1>3 DEF TurnStep
<1>6. /\ ratchet'[p] = s2 /\ ratchet'[q] = t /\ Sent(p)' = S2 /\ Sent(q)' = S
      /\ opened'[p] = opened[p] \cup {f} /\ opened'[q] = opened[q]
      /\ \A r \in Peer : r = p \/ r = q
  <2>1. /\ ratchet' = [ratchet EXCEPT ![p] = s2] /\ net' = net
        /\ opened' = [opened EXCEPT ![p] = opened[p] \cup {f}]
    BY <1>3 DEF Commit
  <2>2. DOMAIN ratchet = Peer /\ DOMAIN opened = Peer
    BY DEF Sound, RInv, TypeOK
  <2>3. Sent(p)' = S2 /\ Sent(q)' = S
    BY <1>1, <1>2, <2>1 DEF Sent
  <2>4. \A r \in Peer : r = p \/ r = q
    BY <1>1 DEF Peer
  <2> QED
    BY <1>1, <2>1, <2>2, <2>3, <2>4
<1>7. TurnOrder'
  <2>1. SentOK(s2, S2)
    BY <1>2, <1>5 DEF SentOK
  <2>2. SentOK(t, S)
    BY <1>1
  <2>3. \A r \in Peer : FramesOK(EarlyOf(Sent(r)')) /\ SentOK(ratchet'[r], Sent(r)')
    BY <1>2, <1>6, <2>1, <2>2
  <2> QED
    BY <2>3 DEF TurnOrder, FramesOK, SentOK, EarlyOf, SameSeed
<1>8. \A g \in S : g \in opened[p] \cup {f} <=> g.step < s2.recv_count
  <2> TAKE g \in S
  <2>1. g.step \in Nat /\ f.step \in Nat
    BY <1>4, FrameNumbers
  <2>2. g.step = f.step => g = f
    BY <1>2, <1>4 DEF FramesOK, EarlyOf
  <2>3. g \in opened[p] <=> g.step < f.step
    BY <1>1, <1>4
  <2>4. s2.recv_count = f.step + 1
    BY <1>5
  <2> QED
    BY <2>1, <2>2, <2>3, <2>4
<1>9. TurnRead'
  <2>1. ReadUpTo(s2, q, EarlyOf(S))
    BY <1>4, <1>5 DEF ReadUpTo
  <2>2. ASSUME NEW r \in Peer
        PROVE  /\ ReadUpTo(ratchet'[r], Other(r), EarlyOf(Sent(Other(r))'))
               /\ \A g \in Sent(Other(r))' : g \in opened'[r] <=> g.step < ratchet'[r].recv_count
    <3>1. CASE r = p
      BY <1>1, <1>6, <1>8, <2>1, <3>1
    <3>2. CASE r = q
      BY <1>1, <1>2, <1>6, <3>2
    <3> QED
      BY <1>6, <3>1, <3>2
  <2> QED
    BY <2>2 DEF TurnRead, ReadUpTo, EarlyOf
<1>10. TurnRoots'
  <2>1. PICK U, W : U = Unread(p) /\ W = Unread(p)'
    OBVIOUS
  <2>2. U # {} /\ Unread(q) = {}
    BY <1>1, <1>4, <2>1 DEF TurnInv, TurnRoots
  <2>3. W \subseteq U /\ W \subseteq S /\ Unread(q)' = {} /\ U \subseteq S
        /\ \A g \in S : g \notin W => g.step < s2.recv_count
    BY <1>1, <1>2, <1>6, <1>8, <2>1, <2>2 DEF Unread
  <2>4. InStep(s, t, q, U, {}) /\ InStep(t, s, p, {}, U)
    BY <1>1, <2>1, <2>2 DEF TurnInv, TurnRoots
  <2>5. W = {} => f.sender_dh = t.dh_public
    <3> SUFFICES ASSUME W = {} PROVE f.sender_dh = t.dh_public
      OBVIOUS
    <3>1. \A g \in S : g.step \in Nat /\ g.step < f.step + 1
      BY <1>5, <2>3, FrameNumbers
    <3>2. f.step \in Nat /\ t.send_count \in Nat
      BY <1>4, <3>1, CounterFacts DEF RatchetState
    <3>3. S = EarlyOf(S)
      BY <1>4, <3>1, <3>2, LimitsAreNat DEF EarlyOf
    <3>4. ~(f.step + 1 < t.send_count)
      <4> SUFFICES ASSUME f.step + 1 < t.send_count PROVE FALSE
        OBVIOUS
      <4>1. PICK n \in Nat : n = f.step + 1
        BY <3>2
      <4>2. PICK g \in S : g.step = n
        BY <1>1, <4>1 DEF SentOK
      <4> QED
        BY <3>1, <3>2, <4>1, <4>2
    <3>5. f.step + 1 = t.send_count
      BY <1>4, <3>2, <3>4
    <3> QED
      BY <1>1, <1>4, <3>3, <3>5 DEF SentOK
  <2>6. \A g \in EarlyOf(U) : g.sender_dh[2] \in Nat /\ g.key.root \in Root
    BY <2>3, FrameNumbers DEF EarlyOf
  <2>7. InStep(s2, t, q, W, {})
    BY <1>1, <1>3, <1>4, <2>3, <2>4, <2>5, <2>6, InStepRead
  <2>8. InStep(t, s2, p, {}, W)
    BY <1>1, <1>3, <2>4, <2>7, InStepCaughtUp
  <2>9. ASSUME NEW r \in Peer
        PROVE  /\ Unread(r)' = {} \/ Unread(Other(r))' = {}
               /\ InStep(ratchet'[r], ratchet'[Other(r)], Other(r), Unread(r)', Unread(Other(r))')
    <3>1. CASE r = p
      BY <1>1, <1>6, <2>1, <2>3, <2>7, <3>1
    <3>2. CASE r = q
      BY <1>1, <1>6, <2>1, <2>3, <2>8, <3>2
    <3> QED
      BY <1>6, <3>1, <3>2
  <2> QED
    BY <2>9 DEF TurnRoots, InStep, Extends, EpochRead, EarlyOf
<1> QED
  BY <1>7, <1>9, <1>10 DEF TurnInv

LEMMA NextTurnInv == Sound /\ TurnInv /\ [TurnNext]_vars => TurnInv'
<1> SUFFICES ASSUME Sound, TurnInv, [TurnNext]_vars PROVE TurnInv'
  OBVIOUS
<1>1. CASE UNCHANGED vars
  <2>1. ratchet' = ratchet /\ net' = net /\ opened' = opened
    BY <1>1 DEF vars
  <2>2. TurnOrder'
    BY <2>1 DEF TurnInv, TurnOrder, FramesOK, SentOK, EarlyOf, SameSeed, Sent
  <2>3. TurnRead'
    BY <2>1 DEF TurnInv, TurnRead, ReadUpTo, EarlyOf, Sent
  <2>4. ASSUME NEW p \in Peer
        PROVE  /\ Unread(p)' = {} \/ Unread(Other(p))' = {}
               /\ InStep(ratchet'[p], ratchet'[Other(p)], Other(p), Unread(p)', Unread(Other(p))')
    <3>1. \A q : Unread(q)' = Unread(q)
      BY <2>1 DEF Unread, Sent
    <3> QED
      BY <2>1, <3>1 DEF TurnInv, TurnRoots
  <2>5. TurnRoots'
    BY <2>4 DEF TurnRoots, InStep, Extends, EpochRead, EarlyOf
  <2> QED
    BY <2>2, <2>3, <2>5 DEF TurnInv
<1>2. ASSUME NEW p \in Peer, TurnSend(p) PROVE TurnInv'
  BY <1>2, SendTurnInv
<1>3. ASSUME NEW p \in Peer, TurnReceive(p) PROVE TurnInv'
  BY <1>3, ReceiveTurnInv DEF TurnReceive
<1> QED
  BY <1>1, <1>2, <1>3 DEF TurnNext

(* Turn-taking is a schedule of Next. *)
LEMMA TurnsAreSteps == TurnSpec => Spec
<1>1. [TurnNext]_vars => [Next]_vars
  <2>1. \A p \in Peer : Unread(p) \subseteq net
    BY DEF Unread, Sent
  <2>2. ASSUME NEW p \in Peer, TurnReceive(p) PROVE Next
    BY <2>1, <2>2, Zenon DEF TurnReceive, Next
  <2>3. ASSUME NEW p \in Peer, TurnSend(p) PROVE Next
    BY <2>3, Zenon DEF TurnSend, Next
  <2> QED
    BY <2>2, <2>3 DEF TurnNext
<1> QED
  BY <1>1, PTL DEF TurnSpec, Spec

LEMMA TurnInvHolds == TurnSpec => []TurnInv
<1>1. Init => TurnInv
  BY InitTurnInv
<1>2. RInv /\ SealInv /\ (ErasedInv /\ OriginInv) /\ LateInv /\ TurnInv /\ [TurnNext]_vars => TurnInv'
  BY NextTurnInv DEF Sound
<1> QED
  BY <1>1, <1>2, TurnsAreSteps, RInvHolds, SealInvHolds, ReadInvHolds, LateInvHolds, PTL DEF TurnSpec

(* Turn by turn, the next frame always opens: however many turns there     *)
(* were, and wherever in a turn the sender's DH steps fall, the receiver   *)
(* comes to the root the sender is at.                                     *)
THEOREM NextFrameAlwaysOpens == TurnSpec => []NextFrameOpens
<1>1. RInv /\ SealInv /\ (ErasedInv /\ OriginInv) /\ LateInv /\ TurnInv => NextFrameOpens
  <2> SUFFICES ASSUME Sound, TurnInv, NEW p \in Peer, NEW f \in Unread(p), IsNext(p, f),
                      ratchet[p].recv_count < COUNTER_MAX
               PROVE  CanOpen(ratchet[p], f)
    BY DEF Sound, NextFrameOpens
  <2>1. PICK q \in Peer, s \in RatchetState, S \in SUBSET Frame :
           /\ q = Other(p) /\ q # p /\ s = ratchet[p] /\ S = Sent(q)
           /\ StoreOK(s) /\ s.dh_public[1] = p
           /\ TurnFrames(q, EarlyOf(S)) /\ ReadUpTo(s, q, EarlyOf(S))
           /\ EpochRead(s) \in Nat /\ \A g \in S : IsFrame(g) /\ g.sender_dh[1] = q
    BY TurnContext
  <2>2. f \in EarlyOf(S) /\ f \in S /\ f.step = s.recv_count
    <3>1. ratchet[p].recv_count # COUNTER_MAX
      BY <2>1, LimitsAreNat DEF RatchetState, Counter
    <3> QED
      BY <2>1, <3>1, NextNumber DEF EarlyOf
  <2>3. ASSUME f.sender_dh[2] = EpochRead(s) + 1
        PROVE  f.key.root = KdfRoot(s.root_key, s.dh_public, f.sender_dh)
    <3>1. PICK a \in Nat, root \in Root, pub \in Pub, next \in Pub, R \in Root :
             /\ a = EpochRead(s) /\ root = s.root_key /\ pub = s.dh_public
             /\ next = f.sender_dh /\ R = f.key.root /\ next[1] = q /\ next[2] = a + 1
      BY <2>1, <2>2, <2>3, FrameNumbers DEF RatchetState
    <3>2. a < next[2] /\ f \in EarlyOf(Unread(p))
      BY <2>2, <3>1 DEF EarlyOf
    <3>3. Extends(R, root, pub, q, a, next[2])
      BY <2>1, <3>1, <3>2 DEF TurnInv, TurnRoots, InStep
    <3>4. Extends(R, root, pub, q, a, a + 1)
      BY <3>1, <3>3
    <3> QED
      BY <3>1, <3>4, ExtendsOne
  <2> QED
    BY <2>1, <2>2, <2>3, NextOpens DEF IsFrame
<1> QED
  BY <1>1, TurnsAreSteps, TurnInvHolds, RInvHolds, SealInvHolds, ReadInvHolds, LateInvHolds, PTL

=============================================================================
