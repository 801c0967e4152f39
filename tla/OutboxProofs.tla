---------------------------- MODULE OutboxProofs ----------------------------
(***************************************************************************)
(* Proofs about Outbox, for all texts, queue caps, posture changes and     *)
(* mishaps: its type invariant, its safety properties, and that it keeps   *)
(* the promise of OutboxPromise.  Only liveness is left to TLC.            *)
(***************************************************************************)
EXTENDS Outbox, FiniteSetTheorems, TLAPS

Fits(q) == IsFiniteSet(q) /\ Cardinality(q) <= MAX_PENDING_FRAMES

(* What is queued in memory, with what retry_pending took out of the queue. *)
Load == mem.queue \cup failed \cup (IF op = "retry" THEN todo ELSE {})

Room == Fits(disk.queue) /\ Fits(Load)

(* What is queued, or under way, was accepted. *)
Owned == mem.queue \cup disk.queue \cup todo \cup failed \subseteq accepted

(* No frame a deletion dropped is queued in memory, or in hand. *)
Apart ==
    /\ dropped \subseteq accepted
    /\ dropped \cap (mem.queue \cup todo \cup failed) = {}

(* Both ratchets are past every accepted frame they sealed, and no frame is from a     *)
(* ratchet that is still to come.                                                     *)
Ordered ==
    /\ mem.contact => \A f \in accepted : f.gen = mem.gen => f.step < mem.step
    /\ disk.contact => \A f \in accepted : f.gen = disk.gen => f.step < disk.step
    /\ mem.gen <= links /\ \A f \in accepted : f.gen <= links
    /\ disk.gen <= links

(* As long as the promise stands, the disk has every frame that is still to be sent, and *)
(* no other but those that went out.                                                    *)
Mirrored ==
    Firm => /\ ~mem.extreme /\ ~disk.extreme
            /\ mem.queue \cup todo \cup failed \subseteq disk.queue
            /\ unlocked => disk.queue \subseteq mem.queue \cup handed
                               \cup (IF op = "retry" THEN todo \cup failed ELSE {})

(* Without a mishap what went out is in no queue, and in none on disk once it was saved; *)
(* retry_pending never has a frame both in hand and queued.                             *)
Unsent ==
    /\ op = "retry" => todo \cap (mem.queue \cup failed) = {}
    /\ mishaps = 0 =>
           /\ resent = {}
           /\ (mem.queue \cup todo \cup failed) \cap handed = {}
           /\ op \in {"idle", "send", "flush"} => disk.queue \cap handed = {}

IInv == Typed /\ Room /\ Owned /\ Apart /\ Ordered /\ Mirrored /\ Unsent

-----------------------------------------------------------------------------
(* Part of a queue that fits, fits. *)
LEMMA SmallerFits ==
    ASSUME NEW q, NEW r, Fits(r), q \subseteq r
    PROVE  Fits(q)
<1>1. IsFiniteSet(q) /\ Cardinality(q) <= Cardinality(r)
  BY FS_Subset DEF Fits
<1>2. Cardinality(q) \in Nat /\ Cardinality(r) \in Nat
  BY <1>1, FS_CardinalityType DEF Fits
<1> QED
  BY <1>1, <1>2, BoundsAreNat DEF Fits

(* The cap is not zero. *)
LEMMA EmptyFits == Fits({})
BY FS_EmptySet, BoundsAreNat DEF Fits

(* A step after which memory holds no more than before, and the disk only     *)
(* what one of the two queues had, keeps the caps.                           *)
LEMMA RoomShrinks ==
    ASSUME Room, Load' \subseteq Load,
           disk'.queue \subseteq disk.queue \/ disk'.queue \subseteq mem.queue
    PROVE  Room'
<1>1. mem.queue \subseteq Load
  BY DEF Load
<1>2. Fits(disk'.queue) /\ Fits(Load')
  BY <1>1, SmallerFits DEF Room
<1> QED
  BY <1>2 DEF Room, Fits

(* queue_pending never fills the queue past its cap. *)
LEMMA QueuedFits ==
    ASSUME NEW q, NEW f, Fits(q)
    PROVE  Fits(QueuePending(q, f))
<1>1. IsFiniteSet(q) /\ Cardinality(q) \in Nat
  BY FS_CardinalityType DEF Fits
<1>2. /\ IsFiniteSet(q \cup {f})
      /\ Cardinality(q \cup {f}) = IF f \in q THEN Cardinality(q) ELSE Cardinality(q) + 1
  BY <1>1, FS_AddElement
<1> QED
  BY <1>1, <1>2, BoundsAreNat DEF Fits, QueuePending

-----------------------------------------------------------------------------
(* A session without a contact, and one that has just added it. *)
LEMMA NewSessions ==
    /\ NoSession \in Session /\ ~NoSession.contact /\ NoSession.queue = {}
    /\ NoSession.gen = 0 /\ ~NoSession.extreme
    /\ NewContact \in Session /\ NewContact.contact /\ NewContact.queue = {}
    /\ NewContact.onion = Home /\ Home \in Onions
    /\ NewContact.gen = 0 /\ NewContact.step = 0 /\ ~NewContact.extreme
BY BoundsAreNat DEF NoSession, NewContact, Session

(* The contact was added and nothing was sent yet. *)
LEMMA InitInv == Init => IInv
<1> SUFFICES ASSUME Init PROVE IInv
  OBVIOUS
<1>1. Typed
  <2>1. mem \in Session /\ disk \in Session
    BY NewSessions DEF Init
  <2>2. /\ links \in 0 .. MaxLinks /\ switches \in 0 .. MaxSwitches
        /\ mishaps \in 0 .. MaxMishaps
    BY BoundsAreNat DEF Init
  <2> QED
    BY <2>1, <2>2, NewSessions DEF Init, Typed
<1>2. Room
  BY EmptyFits, NewSessions DEF Init, Room, Load
<1> QED
  BY <1>1, <1>2, NewSessions DEF Init, IInv, Owned, Apart, Ordered, Mirrored, Unsent

(* What for_disk keeps. *)
LEMMA OnDisk ==
    ASSUME NEW s \in Session
    PROVE  /\ ForDisk(s) \in Session
           /\ ~s.extreme => ForDisk(s) = s
           /\ s.extreme => /\ ForDisk(s).extreme /\ ~ForDisk(s).contact
                           /\ ForDisk(s).queue = {} /\ ForDisk(s).gen = 0
BY DEF ForDisk, Session, NoSession

(* A save leaves the old file, or the session as for_disk has it. *)
LEMMA Saved ==
    ASSUME NEW s \in Session, disk \in Session, mishaps \in 0 .. MaxMishaps, Save(s)
    PROVE  /\ disk' \in Session /\ mishaps' \in 0 .. MaxMishaps
           /\ \/ mishaps' # 0 /\ disk' = disk
              \/ mishaps' = mishaps /\ ~s.extreme /\ disk' = s
              \/ /\ mishaps' = mishaps /\ s.extreme
                 /\ disk'.extreme /\ ~disk'.contact /\ disk'.queue = {} /\ disk'.gen = 0
BY OnDisk, BoundsAreNat DEF Save, Mishap

(* A crash loses the memory and leaves the file. *)
LEMMA Crashed ==
    ASSUME mishaps \in 0 .. MaxMishaps, Crash
    PROVE  /\ mishaps' \in 0 .. MaxMishaps /\ mishaps' # 0
           /\ disk' = disk /\ LoseMemory
BY BoundsAreNat DEF Crash, Mishap

(* commit_outgoing: a new frame, in both queues, and both ratchets past it. *)
LEMMA Committing ==
    ASSUME mem \in Session, disk \in Session, mem.contact => mem.onion \in Onions,
           NEW m \in Messages, NEW f, f = Sealed(m), CommitOutgoing(f)
    PROVE  /\ f \in Frame /\ f \notin accepted /\ mem.contact /\ op = "idle" /\ unlocked
           /\ accepted' = accepted \cup {f}
           /\ mem' \in Session /\ mem'.contact /\ mem'.extreme = mem.extreme
           /\ mem'.onion = mem.onion /\ mem'.gen = mem.gen /\ mem.onion \in Onions
           /\ mem'.step = mem.step + 1 /\ mem'.queue = QueuePending(mem.queue, f)
           /\ mem'.queue \subseteq mem.queue \cup {f}
           /\ QueuePending(disk.queue, f) = disk.queue \cup {f}
           /\ Cardinality(disk.queue) < MAX_PENDING_FRAMES
           /\ disk' \in Session
           /\ ~disk.extreme => /\ ~disk'.extreme /\ disk'.contact = disk.contact
                               /\ disk'.onion = disk.onion
                               /\ disk'.gen = mem.gen /\ disk'.step = mem.step + 1
                               /\ disk'.queue = disk.queue \cup {f}
           /\ disk.extreme => /\ disk'.extreme /\ ~disk'.contact
                              /\ disk'.queue = {} /\ disk'.gen = 0
<1>1. /\ mem \in Session /\ disk \in Session /\ mem.onion \in Onions
      /\ f \in Frame /\ mem.gen \in Nat /\ mem.step + 1 \in Nat
  BY DEF CommitOutgoing, Sealed, Frame, Session
<1>2. /\ QueuePending(mem.queue, f) \in SUBSET Frame
      /\ QueuePending(disk.queue, f) = disk.queue \cup {f}
      /\ disk.queue \cup {f} \in SUBSET Frame
  BY <1>1 DEF QueuePending, CommitOutgoing, Session
<1>3. Committed(f) = [disk EXCEPT !.gen = mem.gen, !.step = mem.step + 1,
                                  !.queue = disk.queue \cup {f}]
  BY <1>2 DEF Committed
<1>4. /\ Committed(f) \in Session
      /\ Committed(f).extreme = disk.extreme /\ Committed(f).contact = disk.contact
      /\ Committed(f).onion = disk.onion
      /\ Committed(f).gen = mem.gen /\ Committed(f).step = mem.step + 1
      /\ Committed(f).queue = disk.queue \cup {f}
  <2> DEFINE q == disk.queue \cup {f}
             n == mem.step + 1
             g == mem.gen
  <2>1. disk \in Session /\ q \in SUBSET Frame /\ n \in Nat /\ g \in Nat
        /\ Committed(f) = [disk EXCEPT !.gen = g, !.step = n, !.queue = q]
    BY <1>1, <1>2, <1>3
  <2> HIDE DEF q, n, g
  <2>2. /\ Committed(f) \in Session
        /\ Committed(f).extreme = disk.extreme /\ Committed(f).contact = disk.contact
        /\ Committed(f).onion = disk.onion
      /\ Committed(f).onion = disk.onion
        /\ Committed(f).gen = g /\ Committed(f).step = n /\ Committed(f).queue = q
    BY <2>1 DEF Session
  <2> QED
    BY <2>2 DEF q, n, g
<1>5. disk' = ForDisk(Committed(f))
  BY DEF CommitOutgoing
<1>6. mem' = [mem EXCEPT !.step = mem.step + 1, !.queue = QueuePending(mem.queue, f)]
  BY DEF CommitOutgoing
<1>7. /\ mem' \in Session /\ mem'.contact /\ mem'.extreme = mem.extreme
      /\ mem'.onion = mem.onion /\ mem'.gen = mem.gen
      /\ mem'.step = mem.step + 1 /\ mem'.queue = QueuePending(mem.queue, f)
  <2> DEFINE q == QueuePending(mem.queue, f)
             n == mem.step + 1
  <2>1. mem \in Session /\ q \in SUBSET Frame /\ n \in Nat /\ mem.contact
        /\ mem' = [mem EXCEPT !.step = n, !.queue = q]
    BY <1>1, <1>2, <1>6 DEF CommitOutgoing
  <2> HIDE DEF q, n
  <2>2. /\ mem' \in Session /\ mem'.contact /\ mem'.extreme = mem.extreme
        /\ mem'.onion = mem.onion /\ mem'.gen = mem.gen
        /\ mem'.step = n /\ mem'.queue = q
    BY <2>1 DEF Session
  <2> QED
    BY <2>2 DEF q, n
<1>8. f \notin accepted
  BY DEF CommitOutgoing, Sent
<1>9. mem'.queue \subseteq mem.queue \cup {f}
  BY <1>7 DEF QueuePending
<1> QED
  BY <1>1, <1>2, <1>4, <1>5, <1>7, <1>8, <1>9, OnDisk DEF CommitOutgoing, Idle

(* ack_pending_frame *)
LEMMA Acked ==
    ASSUME mem \in Session, NEW f, mem' = AckPendingFrame(mem, f)
    PROVE  /\ mem' \in Session /\ mem'.contact = mem.contact /\ mem'.step = mem.step
           /\ mem'.onion = mem.onion /\ mem'.gen = mem.gen
           /\ mem'.extreme = mem.extreme /\ mem'.queue = mem.queue \ {f}
<1> DEFINE q == mem.queue \ {f}
<1>1. mem \in Session /\ q \in SUBSET Frame /\ mem' = [mem EXCEPT !.queue = q]
  BY DEF Session, AckPendingFrame
<1> HIDE DEF q
<1>2. /\ mem' \in Session /\ mem'.contact = mem.contact /\ mem'.step = mem.step
      /\ mem'.onion = mem.onion /\ mem'.gen = mem.gen
      /\ mem'.extreme = mem.extreme /\ mem'.queue = q
  BY <1>1 DEF Session
<1> QED
  BY <1>2 DEF q

(* retry_pending takes the queue, but for what waits out its jitter. *)
LEMMA Taking ==
    ASSUME mem \in Session, RetryPending
    PROVE  /\ mem' \in Session /\ mem'.contact = mem.contact /\ mem'.step = mem.step
           /\ mem'.onion = mem.onion /\ mem'.gen = mem.gen
           /\ mem'.extreme = mem.extreme
           /\ mem.queue # {}
           /\ \/ /\ op' = "retry" /\ mem'.queue \cup todo' = mem.queue
                 /\ mem'.queue \cap todo' = {}
              \/ op' = op /\ todo' = todo /\ mem'.queue = mem.queue
           /\ UNCHANGED <<disk, unlocked, failed, held, due, accepted, handed, resent, history>>
<1> DEFINE q == mem.queue \cap HeldUntilLater
<1>1. mem \in Session /\ q \in SUBSET Frame /\ mem' = [mem EXCEPT !.queue = q]
  BY DEF Session, RetryPending
<1> HIDE DEF q
<1>2. /\ mem' \in Session /\ mem'.contact = mem.contact /\ mem'.step = mem.step
      /\ mem'.onion = mem.onion /\ mem'.gen = mem.gen
      /\ mem'.extreme = mem.extreme /\ mem'.queue = q
  BY <1>1 DEF Session
<1>3. mem'.queue = mem.queue \cap HeldUntilLater
  BY <1>2 DEF q
<1> QED
  BY <1>2, <1>3 DEF RetryPending, jitter, wire

(* ... and puts back what could not be sent. *)
LEMMA PuttingBack ==
    ASSUME mem \in Session, failed \subseteq Frame, RetryEnds
    PROVE  /\ mem' \in Session /\ mem'.contact = mem.contact /\ mem'.step = mem.step
           /\ mem'.onion = mem.onion /\ mem'.gen = mem.gen
           /\ mem'.extreme = mem.extreme /\ mem'.queue = mem.queue \cup failed
           /\ op = "retry" /\ op' = "save" /\ todo = {} /\ todo' = {} /\ failed' = {}
           /\ UNCHANGED <<disk, unlocked, tor, held, due, accepted, handed, resent, history>>
<1> DEFINE q == mem.queue \cup failed
<1>1. mem \in Session /\ q \in SUBSET Frame /\ mem' = [mem EXCEPT !.queue = q]
  BY DEF Session, RetryEnds
<1> HIDE DEF q
<1>2. /\ mem' \in Session /\ mem'.contact = mem.contact /\ mem'.step = mem.step
      /\ mem'.onion = mem.onion /\ mem'.gen = mem.gen
      /\ mem'.extreme = mem.extreme /\ mem'.queue = q
  BY <1>1 DEF Session
<1> QED
  BY <1>2 DEF q, RetryEnds, jitter, wire

(* A change of posture is the change of one field. *)
LEMMA Switched ==
    ASSUME mem \in Session, SwitchPosture
    PROVE  /\ mem' \in Session /\ mem'.contact = mem.contact /\ mem'.step = mem.step
           /\ mem'.onion = mem.onion /\ mem'.gen = mem.gen
           /\ mem'.queue = mem.queue
BY DEF Session, SwitchPosture

(* A link gives the contact an onion and a ratchet of its own. *)
LEMMA Installing ==
    ASSUME mem \in Session, links \in 0 .. MaxLinks, NEW o \in Onions, InstallContact(o)
    PROVE  /\ mem' \in Session /\ mem'.contact /\ mem'.onion = o
           /\ mem'.gen = links + 1 /\ links' = links + 1 /\ links' \in 0 .. MaxLinks
           /\ mem'.queue = mem.queue /\ mem'.extreme = mem.extreme
<1> DEFINE n == links + 1
<1>1. /\ mem \in Session /\ o \in Onions \cup {NoOnion} /\ n \in Nat
      /\ mem' = [mem EXCEPT !.contact = TRUE, !.onion = o, !.gen = n, !.step = 0]
  BY BoundsAreNat DEF InstallContact
<1> HIDE DEF n
<1>2. /\ mem' \in Session /\ mem'.contact /\ mem'.onion = o /\ mem'.gen = n
      /\ mem'.queue = mem.queue /\ mem'.extreme = mem.extreme
  BY <1>1 DEF Session
<1> QED
  BY <1>2, BoundsAreNat DEF n, InstallContact

(* A deleted contact takes the frames for its onion along. *)
LEMMA Deleting ==
    ASSUME mem \in Session, DeleteContact
    PROVE  /\ mem' \in Session /\ ~mem'.contact /\ mem'.gen = 0
           /\ mem'.queue = {f \in mem.queue : f.to # mem.onion}
           /\ dropped' = dropped \cup {f \in accepted : f.to = mem.onion}
<1> DEFINE q == {f \in mem.queue : f.to # mem.onion}
<1>1. /\ mem \in Session /\ q \in SUBSET Frame
      /\ mem' = [NoSession EXCEPT !.queue = q, !.extreme = mem.extreme]
  BY DEF Session, DeleteContact
<1> HIDE DEF q
<1>2. mem' \in Session /\ ~mem'.contact /\ mem'.gen = 0 /\ mem'.queue = q
  BY <1>1 DEF Session, NoSession
<1> QED
  BY <1>2 DEF q, DeleteContact

(* No action takes a variable out of its type, nor leaves work in hand that  *)
(* no operation owns.                                                        *)
LEMMA TypesKept ==
    ASSUME Typed, Owned, [Next]_vars
    PROVE  Typed'
<1> USE DEF stores, jitter, working, wire, history, past
<1>1. ASSUME NEW m \in Messages, NEW f, f = Sealed(m),
              SendHeld(f) \/ SendQueued(f) \/ SendNow(f)
       PROVE  Typed'
  BY <1>1, Committing DEF SendHeld, SendQueued, SendNow, Typed, Owned
<1>2. ASSUME NEW f \in todo, SendGoesOut(f) PROVE Typed'
  BY <1>2, Acked DEF SendGoesOut, HandOver, Typed, Owned
<1>3. ASSUME NEW f \in todo, SendFails(f) PROVE Typed'
  BY <1>3 DEF SendFails, Typed, Owned
<1>4. ASSUME NEW f \in todo, FlushOne(f) PROVE Typed'
  BY <1>4, Acked DEF FlushOne, HandOver, Typed, Owned
<1>5. ASSUME NEW f \in todo, RetryOne(f) PROVE Typed'
  BY <1>5 DEF RetryOne, HandOver, Typed, Owned
<1>6. ASSUME NEW f \in held, JitterRunsOut(f) PROVE Typed'
  BY <1>6 DEF JitterRunsOut, HeldUntilLater, Typed, Owned
<1>7. CASE PersistAfterSend
  BY <1>7, Saved DEF PersistAfterSend, Typed, Owned
<1>8. CASE FlushHeld
  BY <1>8 DEF FlushHeld, Idle, HeldUntilLater, Typed, Owned
<1>9. CASE FlushEnds
  BY <1>9 DEF FlushEnds, Typed, Owned
<1>10. CASE Retry
  BY <1>10, Taking DEF Retry, Idle, Typed, Owned
<1>11. CASE RetryEnds
  BY <1>11, PuttingBack DEF Typed, Owned
<1>12. CASE TorGoesDown
  BY <1>12 DEF TorGoesDown, Typed, Owned
<1>13. CASE TorComesBack
  BY <1>13, Taking DEF TorComesBack, Typed, Owned
<1>14. CASE SaveAnytime
  BY <1>14, Saved DEF SaveAnytime, Idle, Typed, Owned
<1>15. CASE SwitchPosture
  <2>1. /\ mem' \in Session /\ mem'.contact = mem.contact /\ mem'.onion = mem.onion
        /\ Save(mem')
    BY <1>15, Switched DEF SwitchPosture, Typed
  <2>2. /\ disk' \in Session /\ mishaps' \in 0 .. MaxMishaps
        /\ disk' = disk \/ disk' = mem' \/ ~disk'.contact
    BY <2>1, Saved DEF Typed
  <2>3. switches' \in 0 .. MaxSwitches
    BY <1>15, BoundsAreNat DEF SwitchPosture, Typed
  <2> QED
    BY <1>15, <2>1, <2>2, <2>3 DEF SwitchPosture, Idle, Typed, Owned
<1>16. CASE DeleteContact
  BY <1>16, Deleting, Saved DEF DeleteContact, Idle, Typed, Owned
<1>17. CASE LockUi
  BY <1>17, Saved, NewSessions DEF LockUi, LoseMemory, Idle, Typed, Owned
<1>18. CASE Crash
  BY <1>18, Crashed, NewSessions DEF LoseMemory, Typed, Owned
<1>19. CASE Unlock
  BY <1>19 DEF Unlock, Typed, Owned
<1>20. CASE UNCHANGED vars
  BY <1>20 DEF vars, Typed, Owned
<1>21. ASSUME NEW o \in Onions, InstallContact(o) PROVE Typed'
  BY <1>21, Installing, Saved, BoundsAreNat DEF InstallContact, Idle, Typed, Owned
<1> QED
  BY <1>1, <1>2, <1>3, <1>4, <1>5, <1>6, <1>7, <1>8, <1>9, <1>10,
     <1>11, <1>12, <1>13, <1>14, <1>15, <1>16, <1>17, <1>18, <1>19, <1>20,
     <1>21 DEF Next

(* Queues change by commits, which accept their frame, and by moves between   *)
(* what is queued, in hand and on disk.                                      *)
LEMMA OwnedKept ==
    ASSUME Typed, Owned, [Next]_vars
    PROVE  Owned'
<1> USE DEF stores, jitter, working, wire, history, past
<1>1. ASSUME NEW m \in Messages, NEW f, f = Sealed(m),
              SendHeld(f) \/ SendQueued(f) \/ SendNow(f)
       PROVE  Owned'
  <2>1. CommitOutgoing(f)
    BY <1>1 DEF SendHeld, SendQueued, SendNow
  <2>2. /\ accepted' = accepted \cup {f} /\ mem'.queue \subseteq mem.queue \cup {f}
        /\ disk'.queue \subseteq disk.queue \cup {f}
    BY <1>1, <2>1, Committing DEF Typed, Session
  <2>3. todo' \subseteq todo \cup {f} /\ failed' = failed
    BY <1>1 DEF SendHeld, SendQueued, SendNow
  <2> QED
    BY <2>2, <2>3 DEF Owned
<1>2. ASSUME NEW f \in todo, SendGoesOut(f) PROVE Owned'
  BY <1>2, Acked DEF SendGoesOut, HandOver, Typed, Owned
<1>3. ASSUME NEW f \in todo, SendFails(f) PROVE Owned'
  BY <1>3 DEF SendFails, Typed, Owned
<1>4. ASSUME NEW f \in todo, FlushOne(f) PROVE Owned'
  BY <1>4, Acked DEF FlushOne, HandOver, Typed, Owned
<1>5. ASSUME NEW f \in todo, RetryOne(f) PROVE Owned'
  BY <1>5 DEF RetryOne, HandOver, Typed, Owned
<1>6. ASSUME NEW f \in held, JitterRunsOut(f) PROVE Owned'
  BY <1>6 DEF JitterRunsOut, HeldUntilLater, Typed, Owned
<1>7. CASE PersistAfterSend
  BY <1>7, Saved DEF PersistAfterSend, Typed, Owned
<1>8. CASE FlushHeld
  BY <1>8 DEF FlushHeld, Idle, HeldUntilLater, Typed, Owned
<1>9. CASE FlushEnds
  BY <1>9 DEF FlushEnds, Typed, Owned
<1>10. CASE Retry
  BY <1>10, Taking DEF Retry, Idle, Typed, Owned
<1>11. CASE RetryEnds
  BY <1>11, PuttingBack DEF Typed, Owned
<1>12. CASE TorGoesDown
  BY <1>12 DEF TorGoesDown, Typed, Owned
<1>13. CASE TorComesBack
  BY <1>13, Taking DEF TorComesBack, Typed, Owned
<1>14. CASE SaveAnytime
  BY <1>14, Saved DEF SaveAnytime, Idle, Typed, Owned
<1>15. CASE SwitchPosture
  BY <1>15, Switched, Saved, BoundsAreNat DEF SwitchPosture, Idle, Typed, Owned
<1>16. CASE DeleteContact
  BY <1>16, Deleting, Saved DEF DeleteContact, Idle, Typed, Owned
<1>17. CASE LockUi
  BY <1>17, Saved, NewSessions DEF LockUi, LoseMemory, Idle, Typed, Owned
<1>18. CASE Crash
  BY <1>18, Crashed, NewSessions DEF LoseMemory, Typed, Owned
<1>19. CASE Unlock
  BY <1>19 DEF Unlock, Typed, Owned
<1>20. CASE UNCHANGED vars
  BY <1>20 DEF vars, Typed, Owned
<1>21. ASSUME NEW o \in Onions, InstallContact(o) PROVE Owned'
  BY <1>21, Installing, Saved DEF InstallContact, Idle, Typed, Owned
<1> QED
  BY <1>1, <1>2, <1>3, <1>4, <1>5, <1>6, <1>7, <1>8, <1>9, <1>10,
     <1>11, <1>12, <1>13, <1>14, <1>15, <1>16, <1>17, <1>18, <1>19, <1>20,
     <1>21 DEF Next

(* A deletion takes out of the queue in memory all it drops; unlocking brings *)
(* back, with the queue on disk, only what is then no longer dropped.        *)
LEMMA ApartKept ==
    ASSUME Typed, Owned, Apart, [Next]_vars
    PROVE  Apart'
<1> USE DEF stores, jitter, working, wire, history, past
<1>1. ASSUME NEW m \in Messages, NEW f, f = Sealed(m),
              SendHeld(f) \/ SendQueued(f) \/ SendNow(f)
       PROVE  Apart'
  BY <1>1, Committing DEF SendHeld, SendQueued, SendNow, Typed, Apart
<1>2. ASSUME NEW f \in todo, SendGoesOut(f) PROVE Apart'
  BY <1>2, Acked DEF SendGoesOut, HandOver, Typed, Apart
<1>3. ASSUME NEW f \in todo, SendFails(f) PROVE Apart'
  BY <1>3 DEF SendFails, Typed, Apart
<1>4. ASSUME NEW f \in todo, FlushOne(f) PROVE Apart'
  BY <1>4, Acked DEF FlushOne, HandOver, Typed, Apart
<1>5. ASSUME NEW f \in todo, RetryOne(f) PROVE Apart'
  BY <1>5 DEF RetryOne, HandOver, Typed, Apart
<1>6. ASSUME NEW f \in held, JitterRunsOut(f) PROVE Apart'
  BY <1>6 DEF JitterRunsOut, HeldUntilLater, Typed, Apart
<1>7. CASE PersistAfterSend
  BY <1>7, Saved DEF PersistAfterSend, Typed, Apart
<1>8. CASE FlushHeld
  BY <1>8 DEF FlushHeld, Idle, HeldUntilLater, Typed, Apart
<1>9. CASE FlushEnds
  BY <1>9 DEF FlushEnds, Typed, Apart
<1>10. CASE Retry
  BY <1>10, Taking DEF Retry, Idle, Typed, Apart
<1>11. CASE RetryEnds
  BY <1>11, PuttingBack DEF Typed, Apart
<1>12. CASE TorGoesDown
  BY <1>12 DEF TorGoesDown, Typed, Apart
<1>13. CASE TorComesBack
  BY <1>13, Taking DEF TorComesBack, Typed, Apart
<1>14. CASE SaveAnytime
  BY <1>14, Saved DEF SaveAnytime, Idle, Typed, Apart
<1>15. CASE SwitchPosture
  BY <1>15, Switched, Saved, BoundsAreNat DEF SwitchPosture, Idle, Typed, Apart
<1>16. CASE DeleteContact
  BY <1>16, Deleting, Saved DEF DeleteContact, Idle, Typed, Apart
<1>17. CASE LockUi
  BY <1>17, Saved, NewSessions DEF LockUi, LoseMemory, Idle, Typed, Apart
<1>18. CASE Crash
  BY <1>18, Crashed, NewSessions DEF LoseMemory, Typed, Apart
<1>19. CASE Unlock
  BY <1>19 DEF Unlock, Typed, Apart
<1>20. CASE UNCHANGED vars
  BY <1>20 DEF vars, Typed, Apart
<1>21. ASSUME NEW o \in Onions, InstallContact(o) PROVE Apart'
  BY <1>21, Installing, Saved DEF InstallContact, Idle, Typed, Apart
<1> QED
  BY <1>1, <1>2, <1>3, <1>4, <1>5, <1>6, <1>7, <1>8, <1>9, <1>10,
     <1>11, <1>12, <1>13, <1>14, <1>15, <1>16, <1>17, <1>18, <1>19, <1>20,
     <1>21 DEF Next

(* A step that accepts nothing keeps the order, if each ratchet is one that    *)
(* memory or the disk had, or a new one.                                     *)
LEMMA OrderStays ==
    ASSUME Typed, Ordered, accepted' = accepted, links' \in Nat, links <= links',
           mem'.gen \in Nat, mem'.gen <= links', disk'.gen \in Nat, disk'.gen <= links',
           \/ ~mem'.contact
           \/ links < mem'.gen
           \/ mem.contact /\ mem'.gen = mem.gen /\ mem'.step = mem.step
           \/ disk.contact /\ mem'.gen = disk.gen /\ mem'.step = disk.step,
           \/ ~disk'.contact
           \/ disk' = disk
           \/ disk' = mem'
    PROVE  Ordered'
<1>1. links \in Nat /\ \A f \in accepted : f.gen \in Nat /\ f.gen <= links /\ f.gen <= links'
  BY BoundsAreNat DEF Typed, Ordered, Frame
<1>2. mem'.contact => \A f \in accepted : f.gen = mem'.gen => f.step < mem'.step
  BY <1>1 DEF Ordered
<1>3. disk'.contact => \A f \in accepted : f.gen = disk'.gen => f.step < disk'.step
  BY <1>2 DEF Ordered
<1> QED
  BY <1>1, <1>2, <1>3 DEF Ordered

(* A commit seals at the ratchet's step in memory and saves the next one: no  *)
(* save of an older session can set the step back.                           *)
LEMMA OrderedKept ==
    ASSUME Typed, Ordered, [Next]_vars
    PROVE  Ordered'
<1> USE DEF stores, jitter, working, wire, history, past
<1>0. links \in Nat /\ 0 <= links /\ mem.gen \in Nat /\ disk.gen \in Nat
  BY BoundsAreNat DEF Typed, Session
<1>1. ASSUME NEW m \in Messages, NEW f, f = Sealed(m),
              SendHeld(f) \/ SendQueued(f) \/ SendNow(f)
       PROVE  Ordered'
  <2>1. CommitOutgoing(f)
    BY <1>1 DEF SendHeld, SendQueued, SendNow
  <2>2. /\ accepted' = accepted \cup {f} /\ mem.contact
        /\ mem'.gen = mem.gen /\ mem'.step = mem.step + 1
        /\ disk'.contact => disk'.gen = mem.gen /\ disk'.step = mem.step + 1
        /\ disk'.gen \in {0, mem.gen} /\ links' = links
    BY <1>1, <2>1, Committing DEF Typed, Session, SendHeld, SendQueued, SendNow
  <2>3. /\ mem.step \in Nat /\ mem.gen \in Nat /\ f.step = mem.step /\ f.gen = mem.gen
        /\ links \in Nat /\ \A g \in accepted : g.step \in Nat
    BY <1>1, BoundsAreNat DEF Typed, Session, Frame, Sealed
  <2>4. \A g \in accepted' : g.gen = mem.gen => g.step < mem.step + 1
    BY <2>2, <2>3 DEF Ordered
  <2> QED
    BY <2>2, <2>3, <2>4 DEF Ordered
<1>2. ASSUME NEW f \in todo, SendGoesOut(f) PROVE Ordered'
  BY <1>2, Acked DEF SendGoesOut, HandOver, Typed, Ordered
<1>3. ASSUME NEW f \in todo, SendFails(f) PROVE Ordered'
  BY <1>3 DEF SendFails, Typed, Ordered
<1>4. ASSUME NEW f \in todo, FlushOne(f) PROVE Ordered'
  BY <1>4, Acked DEF FlushOne, HandOver, Typed, Ordered
<1>5. ASSUME NEW f \in todo, RetryOne(f) PROVE Ordered'
  BY <1>5 DEF RetryOne, HandOver, Typed, Ordered
<1>6. ASSUME NEW f \in held, JitterRunsOut(f) PROVE Ordered'
  BY <1>6 DEF JitterRunsOut, HeldUntilLater, Typed, Ordered
<1>7. CASE PersistAfterSend
  BY <1>7, Saved DEF PersistAfterSend, Typed, Ordered
<1>8. CASE FlushHeld
  BY <1>8 DEF FlushHeld, Idle, HeldUntilLater, Typed, Ordered
<1>9. CASE FlushEnds
  BY <1>9 DEF FlushEnds, Typed, Ordered
<1>10. CASE Retry
  BY <1>10, Taking DEF Retry, Idle, Typed, Ordered
<1>11. CASE RetryEnds
  BY <1>11, PuttingBack DEF Typed, Ordered
<1>12. CASE TorGoesDown
  BY <1>12 DEF TorGoesDown, Typed, Ordered
<1>13. CASE TorComesBack
  BY <1>13, Taking DEF TorComesBack, Typed, Ordered
<1>14. CASE SaveAnytime
  BY <1>14, Saved DEF SaveAnytime, Idle, Typed, Ordered
<1>15. CASE SwitchPosture
  <2>1. /\ mem'.contact = mem.contact /\ mem'.step = mem.step /\ mem'.gen = mem.gen
        /\ accepted' = accepted /\ links' = links
    BY <1>15, Switched DEF SwitchPosture, Typed
  <2>2. disk' = disk \/ disk' = mem' \/ (~disk'.contact /\ disk'.gen = 0)
    BY <1>15, Switched, Saved DEF SwitchPosture, Typed
  <2> QED
    BY <1>0, <2>1, <2>2, OrderStays DEF Ordered
<1>16. CASE DeleteContact
  <2>1. ~mem'.contact /\ mem'.gen = 0 /\ accepted' = accepted /\ links' = links
    BY <1>16, Deleting DEF DeleteContact, Typed
  <2>2. disk' = disk \/ disk' = mem' \/ (~disk'.contact /\ disk'.gen = 0)
    BY <1>16, Deleting, Saved DEF DeleteContact, Typed
  <2> QED
    BY <1>0, <2>1, <2>2, OrderStays DEF Ordered
<1>17. CASE LockUi
  <2>1. disk' = disk \/ disk' = mem \/ (~disk'.contact /\ disk'.gen = 0)
    BY <1>17, Saved DEF LockUi, Typed
  <2>2. /\ ~mem'.contact /\ mem'.gen = 0 /\ accepted' = accepted /\ links' = links
    BY <1>17, NewSessions DEF LockUi, LoseMemory
  <2> QED
    BY <1>0, <2>1, <2>2 DEF Ordered
<1>18. CASE Crash
  <2>1. /\ ~mem'.contact /\ mem'.gen = 0 /\ accepted' = accepted /\ links' = links
        /\ disk' = disk
    BY <1>18, Crashed, NewSessions DEF LoseMemory, Typed
  <2> QED
    BY <1>0, <2>1, OrderStays DEF Ordered
<1>19. CASE Unlock
  BY <1>19 DEF Unlock, Typed, Ordered
<1>20. CASE UNCHANGED vars
  BY <1>20 DEF vars, Typed, Ordered
<1>21. ASSUME NEW o \in Onions, InstallContact(o) PROVE Ordered'
  <2>1. mem'.gen = links + 1 /\ links' = links + 1 /\ accepted' = accepted
    BY <1>21, Installing DEF InstallContact, Typed
  <2>2. disk' = disk \/ disk' = mem' \/ (~disk'.contact /\ disk'.gen = 0)
    BY <1>21, Installing, Saved DEF InstallContact, Typed
  <2> QED
    BY <1>0, <2>1, <2>2, OrderStays DEF Ordered
<1> QED
  BY <1>1, <1>2, <1>3, <1>4, <1>5, <1>6, <1>7, <1>8, <1>9, <1>10,
     <1>11, <1>12, <1>13, <1>14, <1>15, <1>16, <1>17, <1>18, <1>19, <1>20,
     <1>21 DEF Next

(* An acknowledged frame leaves the queue in memory first and the disk with   *)
(* the next save; a crash in between makes memory what the disk is.          *)
LEMMA MirroredKept ==
    ASSUME Typed, Owned, Room, Mirrored, [Next]_vars
    PROVE  Mirrored'
<1> USE DEF stores, jitter, working, wire, history, past
<1>1. ASSUME NEW m \in Messages, NEW f, f = Sealed(m),
              SendHeld(f) \/ SendQueued(f) \/ SendNow(f)
       PROVE  Mirrored'
  <2>1. CommitOutgoing(f)
    BY <1>1 DEF SendHeld, SendQueued, SendNow
  <2>2. SUFFICES ASSUME Firm' PROVE Mirrored'
    BY DEF Mirrored
  <2>3. Firm /\ unlocked /\ op = "idle" /\ todo = {} /\ failed = {}
    BY <1>1, <2>1, <2>2, Committing DEF Firm, Typed, SendHeld, SendQueued, SendNow
  <2>4. mem.queue \subseteq disk.queue /\ ~disk.extreme /\ ~mem.extreme
    BY <2>3 DEF Mirrored
  <2>5. mem'.queue = mem.queue \cup {f}
    <3>1. IsFiniteSet(disk.queue) /\ Cardinality(disk.queue) < MAX_PENDING_FRAMES
      BY <1>1, <2>1, Committing DEF Room, Fits, Typed
    <3>2. Cardinality(mem.queue) < MAX_PENDING_FRAMES
      BY <2>4, <3>1, FS_Subset, FS_CardinalityType, BoundsAreNat
    <3> QED
      BY <1>1, <2>1, <3>2, Committing DEF QueuePending, Typed
  <2>6. disk'.queue = disk.queue \cup {f} /\ ~disk'.extreme /\ ~mem'.extreme
    BY <1>1, <2>1, <2>4, Committing DEF Typed
  <2>7. todo' \subseteq {f} /\ failed' = {} /\ handed' = handed
    BY <1>1, <2>3 DEF SendHeld, SendQueued, SendNow
  <2> QED
    BY <2>3, <2>4, <2>5, <2>6, <2>7 DEF Mirrored
<1>2. ASSUME NEW f \in todo, SendGoesOut(f) PROVE Mirrored'
  BY <1>2, Acked DEF SendGoesOut, HandOver, Typed, Firm, Mirrored
<1>3. ASSUME NEW f \in todo, SendFails(f) PROVE Mirrored'
  BY <1>3 DEF SendFails, Typed, Firm, Mirrored
<1>4. ASSUME NEW f \in todo, FlushOne(f) PROVE Mirrored'
  BY <1>4, Acked DEF FlushOne, HandOver, Typed, Firm, Mirrored
<1>5. ASSUME NEW f \in todo, RetryOne(f) PROVE Mirrored'
  BY <1>5 DEF RetryOne, HandOver, Typed, Firm, Mirrored
<1>6. ASSUME NEW f \in held, JitterRunsOut(f) PROVE Mirrored'
  BY <1>6 DEF JitterRunsOut, HeldUntilLater, Typed, Firm, Mirrored
<1>7. CASE PersistAfterSend
  BY <1>7, Saved DEF PersistAfterSend, Typed, Firm, Mirrored
<1>8. CASE FlushHeld
  BY <1>8 DEF FlushHeld, Idle, HeldUntilLater, Typed, Firm, Mirrored
<1>9. CASE FlushEnds
  BY <1>9 DEF FlushEnds, Typed, Firm, Mirrored
<1>10. CASE Retry
  BY <1>10, Taking DEF Retry, Idle, Typed, Firm, Mirrored
<1>11. CASE RetryEnds
  BY <1>11, PuttingBack DEF Typed, Firm, Mirrored
<1>12. CASE TorGoesDown
  BY <1>12 DEF TorGoesDown, Typed, Firm, Mirrored
<1>13. CASE TorComesBack
  BY <1>13, Taking DEF TorComesBack, Typed, Firm, Mirrored
<1>14. CASE SaveAnytime
  BY <1>14, Saved DEF SaveAnytime, Idle, Typed, Firm, Mirrored
<1>15. CASE SwitchPosture
  BY <1>15, Switched, Saved, BoundsAreNat DEF SwitchPosture, Idle, Typed, Firm, Mirrored
<1>16. CASE DeleteContact
  BY <1>16, Deleting, Saved DEF DeleteContact, Idle, Typed, Firm, Mirrored
<1>17. CASE LockUi
  BY <1>17, Saved, NewSessions DEF LockUi, LoseMemory, Idle, Typed, Firm, Mirrored
<1>18. CASE Crash
  BY <1>18, Crashed, NewSessions DEF LoseMemory, Typed, Firm, Mirrored
<1>19. CASE Unlock
  BY <1>19 DEF Unlock, Typed, Firm, Mirrored
<1>20. CASE UNCHANGED vars
  BY <1>20 DEF vars, Typed, Firm, Mirrored
<1>21. ASSUME NEW o \in Onions, InstallContact(o) PROVE Mirrored'
  BY <1>21, Installing, Saved DEF InstallContact, Idle, Typed, Firm, Mirrored
<1> QED
  BY <1>1, <1>2, <1>3, <1>4, <1>5, <1>6, <1>7, <1>8, <1>9, <1>10,
     <1>11, <1>12, <1>13, <1>14, <1>15, <1>16, <1>17, <1>18, <1>19, <1>20,
     <1>21 DEF Next

(* A frame handed to Tor leaves memory in the same step, and the operation    *)
(* ends in a save before another can begin.                                  *)
LEMMA UnsentKept ==
    ASSUME Typed, Owned, Unsent, [Next]_vars
    PROVE  Unsent'
<1> USE DEF stores, jitter, working, wire, history, past
<1>1. ASSUME NEW m \in Messages, NEW f, f = Sealed(m),
              SendHeld(f) \/ SendQueued(f) \/ SendNow(f)
       PROVE  Unsent'
  <2>1. CommitOutgoing(f)
    BY <1>1 DEF SendHeld, SendQueued, SendNow
  <2>2. /\ f \notin handed /\ op = "idle" /\ mem'.queue \subseteq mem.queue \cup {f}
        /\ disk'.queue \subseteq disk.queue \cup {f}
    BY <1>1, <2>1, Committing DEF Typed, Session
  <2>3. /\ todo' \subseteq todo \cup {f} /\ failed' = failed
        /\ handed' = handed /\ resent' = resent /\ mishaps' = mishaps
        /\ op' \in {"idle", "send"}
    BY <1>1, <2>2 DEF SendHeld, SendQueued, SendNow
  <2> QED
    BY <2>2, <2>3 DEF Unsent
<1>2. ASSUME NEW f \in todo, SendGoesOut(f) PROVE Unsent'
  BY <1>2, Acked DEF SendGoesOut, HandOver, Typed, Owned, Unsent
<1>3. ASSUME NEW f \in todo, SendFails(f) PROVE Unsent'
  BY <1>3 DEF SendFails, Typed, Owned, Unsent
<1>4. ASSUME NEW f \in todo, FlushOne(f) PROVE Unsent'
  BY <1>4, Acked DEF FlushOne, HandOver, Typed, Owned, Unsent
<1>5. ASSUME NEW f \in todo, RetryOne(f) PROVE Unsent'
  <2>1. /\ f \in todo /\ op' = op /\ op = "retry" /\ todo' = todo \ {f}
        /\ mem' = mem /\ disk' = disk /\ mishaps' = mishaps
        /\ \/ /\ handed' = handed \cup {f} /\ failed' = failed
              /\ resent' = resent \cup ({f} \cap handed)
           \/ /\ handed' = handed /\ resent' = resent /\ failed' = failed \cup {f}
    BY <1>5 DEF RetryOne, HandOver
  <2> QED
    BY <2>1 DEF Unsent
<1>6. ASSUME NEW f \in held, JitterRunsOut(f) PROVE Unsent'
  BY <1>6 DEF JitterRunsOut, HeldUntilLater, Typed, Owned, Unsent
<1>7. CASE PersistAfterSend
  BY <1>7, Saved DEF PersistAfterSend, Typed, Owned, Unsent
<1>8. CASE FlushHeld
  BY <1>8 DEF FlushHeld, Idle, HeldUntilLater, Typed, Owned, Unsent
<1>9. CASE FlushEnds
  BY <1>9 DEF FlushEnds, Typed, Owned, Unsent
<1>10. CASE Retry
  BY <1>10, Taking DEF Retry, Idle, Typed, Owned, Unsent
<1>11. CASE RetryEnds
  BY <1>11, PuttingBack DEF Typed, Owned, Unsent
<1>12. CASE TorGoesDown
  BY <1>12 DEF TorGoesDown, Typed, Owned, Unsent
<1>13. CASE TorComesBack
  BY <1>13, Taking DEF TorComesBack, Typed, Owned, Unsent
<1>14. CASE SaveAnytime
  BY <1>14, Saved DEF SaveAnytime, Idle, Typed, Owned, Unsent
<1>15. CASE SwitchPosture
  BY <1>15, Switched, Saved, BoundsAreNat DEF SwitchPosture, Idle, Typed, Owned, Unsent
<1>16. CASE DeleteContact
  BY <1>16, Deleting, Saved DEF DeleteContact, Idle, Typed, Owned, Unsent
<1>17. CASE LockUi
  BY <1>17, Saved, NewSessions DEF LockUi, LoseMemory, Idle, Typed, Owned, Unsent
<1>18. CASE Crash
  BY <1>18, Crashed, NewSessions DEF LoseMemory, Typed, Owned, Unsent
<1>19. CASE Unlock
  BY <1>19 DEF Unlock, Typed, Owned, Unsent
<1>20. CASE UNCHANGED vars
  BY <1>20 DEF vars, Typed, Owned, Unsent
<1>21. ASSUME NEW o \in Onions, InstallContact(o) PROVE Unsent'
  BY <1>21, Installing, Saved DEF InstallContact, Idle, Typed, Owned, Unsent
<1> QED
  BY <1>1, <1>2, <1>3, <1>4, <1>5, <1>6, <1>7, <1>8, <1>9, <1>10,
     <1>11, <1>12, <1>13, <1>14, <1>15, <1>16, <1>17, <1>18, <1>19, <1>20,
     <1>21 DEF Next

(* retry_pending puts back no more than it took, and a commit checks the cap. *)
LEMMA RoomKept ==
    ASSUME Typed, Room, [Next]_vars
    PROVE  Room'
<1> USE DEF stores, jitter, working, wire, history, past
<1>1. ASSUME NEW m \in Messages, NEW f, f = Sealed(m),
              SendHeld(f) \/ SendQueued(f) \/ SendNow(f)
       PROVE  Room'
  <2>1. CommitOutgoing(f)
    BY <1>1 DEF SendHeld, SendQueued, SendNow
  <2>2. Fits(disk'.queue)
    <3>1. Fits(QueuePending(disk.queue, f))
      BY QueuedFits DEF Room
    <3> QED
      BY <1>1, <2>1, <3>1, Committing, EmptyFits DEF Typed, Session
  <2>3. Load' \subseteq QueuePending(mem.queue, f)
    <3>1. /\ mem'.queue = QueuePending(mem.queue, f) /\ op = "idle" /\ failed = {}
      BY <1>1, <2>1, Committing DEF Typed
    <3> QED
      BY <1>1, <3>1 DEF Load, SendHeld, SendQueued, SendNow
  <2>4. Fits(mem.queue)
    BY SmallerFits DEF Room, Load
  <2>5. Fits(Load')
    BY <2>3, <2>4, QueuedFits, SmallerFits
  <2> QED
    BY <2>2, <2>5 DEF Room, Fits
<1>2. ASSUME NEW f \in todo, SendGoesOut(f) PROVE Room'
  BY <1>2, Acked, RoomShrinks DEF SendGoesOut, HandOver, Load, Typed
<1>3. ASSUME NEW f \in todo, SendFails(f) PROVE Room'
  BY <1>3, RoomShrinks DEF SendFails, Load, Typed
<1>4. ASSUME NEW f \in todo, FlushOne(f) PROVE Room'
  BY <1>4, Acked, RoomShrinks DEF FlushOne, HandOver, Load, Typed
<1>5. ASSUME NEW f \in todo, RetryOne(f) PROVE Room'
  BY <1>5, RoomShrinks DEF RetryOne, HandOver, Load, Typed
<1>6. ASSUME NEW f \in held, JitterRunsOut(f) PROVE Room'
  BY <1>6, RoomShrinks DEF JitterRunsOut, HeldUntilLater, Load, Typed
<1>7. CASE PersistAfterSend
  BY <1>7, Saved, RoomShrinks DEF PersistAfterSend, Load, Typed
<1>8. CASE FlushHeld
  BY <1>8, RoomShrinks DEF FlushHeld, Idle, HeldUntilLater, Load, Typed
<1>9. CASE FlushEnds
  BY <1>9, RoomShrinks DEF FlushEnds, Load, Typed
<1>10. CASE Retry
  BY <1>10, Taking, RoomShrinks DEF Retry, Idle, Load, Typed
<1>11. CASE RetryEnds
  BY <1>11, PuttingBack, RoomShrinks DEF Load, Typed
<1>12. CASE TorGoesDown
  BY <1>12, RoomShrinks DEF TorGoesDown, Load, Typed
<1>13. CASE TorComesBack
  BY <1>13, Taking, RoomShrinks DEF TorComesBack, Load, Typed
<1>14. CASE SaveAnytime
  BY <1>14, Saved, RoomShrinks DEF SaveAnytime, Idle, Load, Typed
<1>15. CASE SwitchPosture
  BY <1>15, Switched, Saved, BoundsAreNat, RoomShrinks DEF SwitchPosture, Idle, Load, Typed
<1>16. CASE DeleteContact
  BY <1>16, Deleting, Saved, RoomShrinks DEF DeleteContact, Idle, Load, Typed
<1>17. CASE LockUi
  BY <1>17, Saved, NewSessions, RoomShrinks DEF LockUi, LoseMemory, Idle, Load, Typed
<1>18. CASE Crash
  BY <1>18, Crashed, NewSessions, RoomShrinks DEF LoseMemory, Load, Typed
<1>19. CASE Unlock
  <2>1. disk' = disk /\ Load' \subseteq disk.queue
    BY <1>19 DEF Unlock, Load, Typed
  <2>2. Fits(Load')
    BY <2>1, SmallerFits DEF Room
  <2> QED
    BY <2>1, <2>2 DEF Room, Fits
<1>20. CASE UNCHANGED vars
  BY <1>20, RoomShrinks DEF vars, Load, Typed
<1>21. ASSUME NEW o \in Onions, InstallContact(o) PROVE Room'
  BY <1>21, Installing, Saved, RoomShrinks DEF InstallContact, Idle, Load, Typed
<1> QED
  BY <1>1, <1>2, <1>3, <1>4, <1>5, <1>6, <1>7, <1>8, <1>9, <1>10,
     <1>11, <1>12, <1>13, <1>14, <1>15, <1>16, <1>17, <1>18, <1>19, <1>20,
     <1>21 DEF Next

-----------------------------------------------------------------------------
(* Every step keeps the invariant. *)
LEMMA NextInv == IInv /\ [Next]_vars => IInv'
<1> SUFFICES ASSUME IInv, [Next]_vars PROVE IInv'
  OBVIOUS
<1> QED
  BY TypesKept, OwnedKept, ApartKept, OrderedKept, MirroredKept, UnsentKept, RoomKept
     DEF IInv

(* Every reachable state satisfies the invariant. *)
THEOREM Invariance == Spec => []IInv
BY InitInv, NextInv, PTL DEF Spec

(* The type invariant; neither queue ever holds more than MAX_PENDING_FRAMES frames,  *)
(* whatever retry_pending takes out of it and puts back.                              *)
THEOREM TypeCorrect == Spec => []TypeOK
<1>1. IInv => TypeOK
  <2> SUFFICES ASSUME IInv PROVE TypeOK
    OBVIOUS
  <2>1. mem.queue \subseteq Load
    BY DEF Load
  <2>2. Fits(mem.queue) /\ Fits(disk.queue)
    BY <2>1, SmallerFits DEF IInv, Room
  <2> QED
    BY <2>2 DEF IInv, TypeOK, Fits
<1> QED
  BY Invariance, <1>1, PTL

(* "Durable queue commit before Tor send": a restored session seals its next frame at *)
(* a step of the ratchet that no frame handed to Tor was sealed at.                   *)
THEOREM CommitsBeforeWire == Spec => []CommitBeforeWire
<1>1. IInv => CommitBeforeWire
  BY DEF IInv, Typed, Ordered, CommitBeforeWire
<1> QED
  BY Invariance, <1>1, PTL

(* A frame goes to Tor twice only after a crash or a failed save.                     *)
THEOREM ResendsNeedMishap == Spec => []NoNeedlessResend
<1>1. IInv => NoNeedlessResend
  BY DEF IInv, Unsent, NoNeedlessResend
<1> QED
  BY Invariance, <1>1, PTL

(* A frame that a deletion dropped never goes to Tor again: not when its jitter ends,  *)
(* not by :retry, not after a restart, and not when the contact is added once more.    *)
THEOREM DeletedAreLeftAlone == Spec => NothingSentToDeleted
<1>1. IInv /\ [Next]_vars => [GoingOut \cap dropped = {}]_vars
  <2> SUFFICES ASSUME IInv, Next
               PROVE  GoingOut \cap dropped = {}
    OBVIOUS
  <2> USE DEF stores, jitter, working, wire, history, past
  <2>1. todo \cap dropped = {}
    BY DEF IInv, Apart
  <2> SUFFICES GoingOut \subseteq todo
    BY <2>1
  <2>2. ASSUME NEW m \in Messages, NEW f, SendHeld(f) \/ SendQueued(f) \/ SendNow(f)
        PROVE  handed' = handed /\ resent' = resent
    BY <2>2 DEF SendHeld, SendQueued, SendNow
  <2>3. ASSUME NEW f \in todo, SendGoesOut(f) \/ SendFails(f) \/ FlushOne(f) \/ RetryOne(f)
        PROVE  GoingOut \subseteq todo
    BY <2>3 DEF SendGoesOut, SendFails, FlushOne, RetryOne, HandOver, GoingOut
  <2>4. ASSUME NEW o \in Onions, InstallContact(o)
        PROVE  handed' = handed /\ resent' = resent
    BY <2>4 DEF InstallContact
  <2>5. CASE (\E f \in held : JitterRunsOut(f)) \/ FlushHeld \/ FlushEnds \/ TorGoesDown
    BY <2>5 DEF JitterRunsOut, FlushHeld, FlushEnds, TorGoesDown, GoingOut
  <2>6. CASE PersistAfterSend \/ SaveAnytime \/ SwitchPosture \/ DeleteContact \/ Unlock
    BY <2>6 DEF PersistAfterSend, SaveAnytime, SwitchPosture, DeleteContact, Unlock, GoingOut
  <2>7. CASE Retry \/ RetryEnds \/ TorComesBack
    BY <2>7 DEF Retry, RetryPending, RetryEnds, TorComesBack, GoingOut
  <2>8. CASE LockUi \/ Crash
    BY <2>8 DEF LockUi, Crash, LoseMemory, GoingOut
  <2> QED
    BY <2>2, <2>3, <2>4, <2>5, <2>6, <2>7, <2>8 DEF Next, GoingOut
<1> QED
  BY Invariance, <1>1, PTL DEF Spec, NothingSentToDeleted

-----------------------------------------------------------------------------
(* A committed frame is accepted, at a step of its own. *)
LEMMA CommitAccepts ==
    ASSUME IInv, NEW m \in Messages, NEW f, f = Sealed(m),
           SendHeld(f) \/ SendQueued(f) \/ SendNow(f)
    PROVE  Promise!Next
<1>1. CommitOutgoing(f) /\ handed' = handed /\ Firm' = Firm
  BY DEF SendHeld, SendQueued, SendNow, wire, history, past, Firm
<1>2. mem.contact /\ mem.step \in Nat /\ f.step = mem.step /\ f.gen = mem.gen
  BY <1>1 DEF CommitOutgoing, Sealed, IInv, Typed, Session
<1>3. \A g \in accepted : g.msg # f.msg /\ (g.gen = f.gen => g.step # f.step)
  <2>1. \A g \in accepted : g.step \in Nat /\ (g.gen = mem.gen => g.step < mem.step)
    BY <1>2 DEF IInv, Ordered, Typed, Frame
  <2>2. \A g \in accepted : g.msg # f.msg
    BY <1>1 DEF CommitOutgoing, Sent
  <2> QED
    BY <1>2, <2>1, <2>2
<1>4. f \notin accepted /\ accepted' = accepted \cup {f}
  BY <1>1, <1>3 DEF CommitOutgoing
<1>5. Firm => disk'.queue = disk.queue \cup {f}
  <2>1. Firm => ~disk.extreme
    BY DEF IInv, Mirrored
  <2> QED
    BY <1>1, <2>1, Committing DEF IInv, Typed
<1> QED
  BY <1>1, <1>3, <1>4, <1>5 DEF Promise!Next, Promise!Accept

(* A frame handed to Tor is on disk. *)
LEMMA HandOverDelivers ==
    ASSUME IInv, NEW f \in todo, HandOver(f),
           UNCHANGED <<disk, accepted, deleted, switches>>
    PROVE  Promise!Next
<1>1. f \in accepted /\ (Firm => f \in disk.queue) /\ Firm' = Firm
  BY DEF IInv, Owned, Mirrored, Firm
<1> QED
  BY <1>1 DEF HandOver, Promise!Next, Promise!Deliver

(* A save takes off the disk only what went out. *)
LEMMA SaveSettles ==
    ASSUME IInv, unlocked, op # "retry", NEW s \in Session, Save(s),
           s.queue = mem.queue, s.extreme = mem.extreme,
           UNCHANGED <<accepted, handed, deleted, switches>>
    PROVE  Promise!Next
<1>1. Firm' = Firm
  BY DEF Firm
<1>2. /\ disk \in Session /\ mishaps \in 0 .. MaxMishaps
      /\ todo \cup failed # {} => op # "save" /\ op # "idle"
  BY DEF IInv, Typed
<1>3. disk' = disk \/ (~mem.extreme /\ disk'.queue = mem.queue) \/ mem.extreme
  BY <1>2, Saved
<1>4. Firm => /\ disk'.queue \subseteq disk.queue
              /\ disk.queue \subseteq disk'.queue \cup handed
  BY <1>3 DEF IInv, Mirrored
<1> QED
  BY <1>1, <1>4 DEF Promise!Next, Promise!Settle

(* The outbox implements OutboxPromise: whatever crashes, an accepted frame   *)
(* is on disk until it went to Tor, and none goes there that is not on disk. *)
THEOREM Refinement == Spec => KeepsPromise
<1>1. Init => Promise!Init
  BY NewSessions DEF Init, Promise!Init, Firm
<1>2. IInv /\ [Next]_vars => [Promise!Next]_(Promise!promiseVars)
  <2> SUFFICES ASSUME IInv, [Next]_vars
               PROVE  Promise!Next \/ UNCHANGED Promise!promiseVars
    OBVIOUS
  <2> USE DEF stores, jitter, working, wire, history, past, Promise!promiseVars
  <2>1. ASSUME UNCHANGED <<accepted, disk, handed, deleted, switches>>
        PROVE  UNCHANGED Promise!promiseVars
    BY <2>1 DEF Firm
  <2>2. ASSUME NEW m \in Messages, NEW f, f = Sealed(m),
               SendHeld(f) \/ SendQueued(f) \/ SendNow(f)
        PROVE  Promise!Next
    BY <2>2, CommitAccepts
  <2>3. ASSUME NEW f \in todo, SendGoesOut(f) \/ SendFails(f) \/ FlushOne(f) \/ RetryOne(f)
        PROVE  Promise!Next \/ UNCHANGED Promise!promiseVars
    <3>1. UNCHANGED <<disk, accepted, deleted, switches>>
      BY <2>3 DEF SendGoesOut, SendFails, FlushOne, RetryOne
    <3>2. HandOver(f) \/ handed' = handed
      BY <2>3 DEF SendGoesOut, SendFails, FlushOne, RetryOne
    <3> QED
      BY <2>1, <3>1, <3>2, HandOverDelivers
  <2>4. CASE PersistAfterSend \/ SaveAnytime \/ LockUi
    <3>1. Save(mem) /\ op # "retry" /\ UNCHANGED <<accepted, handed, deleted, switches>>
      BY <2>4 DEF PersistAfterSend, SaveAnytime, LockUi, LoseMemory, Idle
    <3>2. unlocked /\ mem \in Session
      BY <2>4 DEF PersistAfterSend, SaveAnytime, LockUi, Idle, IInv, Typed
    <3> QED
      BY <3>1, <3>2, SaveSettles
  <2>5. CASE SwitchPosture \/ DeleteContact
    <3>1. ~Firm' /\ UNCHANGED <<accepted, handed>>
      BY <2>5 DEF SwitchPosture, DeleteContact, Firm, IInv, Typed
    <3> QED
      BY <3>1 DEF Promise!Next, Promise!Release
  <2>6. CASE \E f \in held : JitterRunsOut(f)
    BY <2>1, <2>6 DEF JitterRunsOut
  <2>7. CASE FlushHeld \/ FlushEnds \/ TorGoesDown \/ Unlock
    BY <2>1, <2>7 DEF FlushHeld, FlushEnds, TorGoesDown, Unlock
  <2>8. CASE Retry \/ RetryEnds \/ TorComesBack
    BY <2>1, <2>8 DEF Retry, RetryPending, RetryEnds, TorComesBack
  <2>9. CASE Crash
    BY <2>1, <2>9 DEF Crash, LoseMemory
  <2>10. CASE UNCHANGED vars
    BY <2>1, <2>10 DEF vars
  <2>11. ASSUME NEW o \in Onions, InstallContact(o)
         PROVE  Promise!Next
    <3>1. /\ mem' \in Session /\ mem'.queue = mem.queue /\ mem'.extreme = mem.extreme
          /\ unlocked /\ op # "retry" /\ Save(mem')
      BY <2>11, Installing DEF IInv, Typed, InstallContact, Idle
    <3>2. UNCHANGED <<accepted, handed, deleted, switches>>
      BY <2>11 DEF InstallContact
    <3> QED
      BY <3>1, <3>2, SaveSettles
  <2> QED
    BY <2>2, <2>3, <2>4, <2>5, <2>6, <2>7, <2>8, <2>9, <2>10, <2>11 DEF Next
<1> QED
  BY Invariance, <1>1, <1>2, PTL DEF Spec, KeepsPromise, Promise!Spec

=============================================================================
