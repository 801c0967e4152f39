-------------------------------- MODULE Outbox --------------------------------
(***************************************************************************)
(* How the TUI sends to one contact: send_text, the durable queue of       *)
(* state.enc, frames held for jitter, :retry, a link that installs the     *)
(* contact anew, its deletion, locking, and the crash of the process       *)
(* between any two calls that touch the disk or Tor.                       *)
(*                                                                         *)
(* `mem` is the unlocked SessionState, `disk` the one in state.enc.  The   *)
(* UI is one thread: an operation that talks to Tor runs as several steps  *)
(* (`op` says which one is running), and only a crash comes in between.    *)
(***************************************************************************)
EXTENDS Integers, FiniteSets

CONSTANTS
    Messages,              \* bound: texts the user sends, numbered in that order
    Onions,                \* addresses the contact's links name
    Home,                  \* the one the contact was added with
    NoOnion,               \* the contact is not there
    MaxLinks,              \* bound: links taken
    MAX_PENDING_FRAMES,    \* most frames queued
    MaxSwitches,           \* bound: posture changes
    MaxMishaps             \* bound: crashes and failed saves

ASSUME BoundsAreNat ==
    /\ IsFiniteSet(Messages) /\ Messages \subseteq Nat
    /\ Home \in Onions /\ NoOnion \notin Onions
    /\ MaxLinks \in Nat
    /\ MAX_PENDING_FRAMES \in Nat \ {0}
    /\ MaxSwitches \in Nat
    /\ MaxMishaps \in Nat

VARIABLES
    mem,        \* the session in memory
    disk,       \* the session in state.enc
    unlocked,   \* a session is open
    tor,        \* tor_status is Available
    held,       \* held_sends: frames waiting out their jitter
    due,        \* those of them whose time has come
    op,         \* the operation under way
    todo,       \* frames it still has to hand to Tor
    failed,     \* frames retry_pending could not send
    accepted,   \* frames whose durable commit succeeded
    handed,     \* frames handed to Tor
    resent,     \* frames handed to Tor more than once
    deleted,    \* the user deleted the contact
    dropped,    \* frames a deletion took out of the queue
    links,      \* links taken so far
    switches,   \* posture changes so far
    mishaps     \* crashes and failed saves so far

vars == <<mem, disk, unlocked, tor, held, due, op, todo, failed,
          accepted, handed, resent, deleted, dropped, links, switches, mishaps>>

stores  == <<mem, disk>>
jitter  == <<held, due>>
working == <<op, todo, failed>>
wire    == <<accepted, handed, resent>>
past    == <<deleted, dropped, links, switches>>
history == <<past, mishaps>>

(* A text sealed at `step` of the ratchet the `gen`-th link installed (0:  *)
(* the one the contact began with), queued for the onion `to`.             *)
Frame == [msg : Messages, gen : Nat, step : Nat, to : Onions]

(* One contact's part of SessionState: is it there, its onion, its ratchet *)
(* and send step, the frames queued for it; and the posture.               *)
Session == [contact : BOOLEAN, onion : Onions \cup {NoOnion}, gen : Nat, step : Nat,
            queue : SUBSET Frame, extreme : BOOLEAN]

NoSession == [contact |-> FALSE, onion |-> NoOnion, gen |-> 0, step |-> 0,
              queue |-> {}, extreme |-> FALSE]
NewContact == [NoSession EXCEPT !.contact = TRUE, !.onion = Home]

(* SessionState::for_disk *)
ForDisk(s) == IF s.extreme THEN [NoSession EXCEPT !.extreme = TRUE] ELSE s

(* SessionState::queue_pending *)
QueuePending(queue, f) ==
    IF Cardinality(queue) < MAX_PENDING_FRAMES THEN queue \cup {f} ELSE queue

(* SessionState::ack_pending_frame *)
(* Bug: a delivered frame stays queued.                                    *)
AckPendingFrameForgotten(s, f) == s

AckPendingFrame(s, f) == [s EXCEPT !.queue = @ \ {f}]

Mishap == mishaps < MaxMishaps /\ mishaps' = mishaps + 1

(* save_session_with_key: state.enc is replaced whole or left as it was.   *)
Save(s) ==
    \/ disk' = ForDisk(s) /\ UNCHANGED mishaps
    \/ Mishap /\ UNCHANGED disk

(* The session commit_outgoing_with_key builds from the one on disk.       *)
(* Bugs: the frame, or the ratchet that sealed it, is not part of the save. *)
CommittedWithoutFrame(f) == [disk EXCEPT !.gen = mem.gen, !.step = mem.step + 1]
CommittedWithoutStep(f) == [disk EXCEPT !.queue = QueuePending(@, f)]

Committed(f) ==
    [disk EXCEPT !.gen = mem.gen, !.step = mem.step + 1, !.queue = QueuePending(@, f)]

HeldUntilLater == held \ due

(* socks5_send returned Ok                                                 *)
HandOver(f) == /\ handed' = handed \cup {f}
               /\ resent' = resent \cup ({f} \cap handed)

----------------------------------------------------------------------------
Init ==
    /\ mem = NewContact /\ disk = NewContact
    /\ unlocked = TRUE /\ tor = TRUE
    /\ held = {} /\ due = {}
    /\ op = "idle" /\ todo = {} /\ failed = {}
    /\ accepted = {} /\ handed = {} /\ resent = {}
    /\ deleted = FALSE /\ dropped = {} /\ links = 0 /\ switches = 0 /\ mishaps = 0

Idle == unlocked /\ op = "idle"

(* The texts sent so far.                                                  *)
Sent == {f.msg : f \in accepted}

(* encrypt_message with the ratchet in memory, for the contact's onion.    *)
Sealed(m) == [msg |-> m, gen |-> mem.gen, step |-> mem.step, to |-> mem.onion]

----------------------------------------------------------------------------
(* Sending *)

(* send_text up to the commit.  The ratchet is the one in memory, the      *)
(* queue the one on disk.  A full queue or a failed save ends the          *)
(* operation before anything changes.                                      *)
CommitOutgoing(f) ==
    /\ Idle /\ tor /\ mem.contact
    /\ f.msg \notin Sent /\ \A m \in Messages : m < f.msg => m \in Sent
    /\ Cardinality(disk.queue) < MAX_PENDING_FRAMES
    /\ disk' = ForDisk(Committed(f))
    /\ mem' = [mem EXCEPT !.step = @ + 1, !.queue = QueuePending(@, f)]
    /\ accepted' = accepted \cup {f}

SendHeld(f) ==                          \* :jitter is on
    /\ CommitOutgoing(f)
    /\ held' = held \cup {f}
    /\ UNCHANGED <<unlocked, tor, due, handed, resent, working, history>>

SendQueued(f) ==                        \* bridges required and not active
    /\ CommitOutgoing(f)
    /\ UNCHANGED <<unlocked, tor, handed, resent, jitter, working, history>>

SendNow(f) ==
    /\ CommitOutgoing(f)
    /\ op' = "send" /\ todo' = {f}
    /\ UNCHANGED <<unlocked, tor, failed, handed, resent, jitter, history>>

(* socks5_send succeeds ...                                                *)
SendGoesOut(f) ==
    /\ op = "send" /\ f \in todo
    /\ HandOver(f)
    /\ mem' = AckPendingFrame(mem, f)
    /\ todo' = {} /\ op' = "save"
    /\ UNCHANGED <<disk, unlocked, tor, failed, accepted, jitter, history>>

(* ... or not: the frame stays queued.                                     *)
SendFails(f) ==
    /\ op = "send" /\ f \in todo
    /\ todo' = {} /\ op' = "idle"
    /\ UNCHANGED <<unlocked, tor, failed, stores, jitter, wire, history>>

(* persist_session at the end of an operation that sent something.         *)
PersistAfterSend ==
    /\ op = "save"
    /\ Save(mem)
    /\ op' = "idle"
    /\ UNCHANGED <<mem, unlocked, tor, todo, failed, past, jitter, wire>>

----------------------------------------------------------------------------
(* flush_held_sends, every round of the UI loop *)

JitterRunsOut(f) ==
    /\ f \in HeldUntilLater
    /\ due' = due \cup {f}
    /\ UNCHANGED <<unlocked, tor, held, stores, working, wire, history>>

(* A due frame that left the queue was delivered by :retry or deleted with *)
(* its contact: it is dropped.  When Tor or the bridges are down the frames    *)
(* stay in the queue.                                                      *)
(* Bug: the queue is not consulted.                                        *)
FlushHeldUnchecked ==
    /\ Idle /\ due # {}
    /\ held' = HeldUntilLater /\ due' = {}
    /\ \/ tor /\ op' = "flush" /\ todo' = due
       \/ UNCHANGED <<op, todo>>
    /\ UNCHANGED <<unlocked, tor, failed, stores, wire, history>>

(* Bug: without Tor a due frame goes on waiting in held_sends.              *)
FlushHeldNeedsTor ==
    /\ Idle /\ tor /\ due # {}
    /\ held' = HeldUntilLater /\ due' = {}
    /\ op' = "flush" /\ todo' = due \cap mem.queue
    /\ UNCHANGED <<unlocked, tor, failed, stores, wire, history>>

FlushHeld ==
    /\ Idle /\ due # {}
    /\ held' = HeldUntilLater /\ due' = {}
    /\ \/ tor /\ op' = "flush" /\ todo' = due \cap mem.queue
       \/ UNCHANGED <<op, todo>>
    /\ UNCHANGED <<unlocked, tor, failed, stores, wire, history>>

FlushOne(f) ==
    /\ op \in {"flush", "flush_changed"} /\ f \in todo
    /\ todo' = todo \ {f}
    /\ \/ HandOver(f) /\ mem' = AckPendingFrame(mem, f) /\ op' = "flush_changed"
       \/ UNCHANGED <<handed, resent, mem, op>>
    /\ UNCHANGED <<disk, unlocked, tor, failed, accepted, jitter, history>>

FlushEnds ==
    /\ op \in {"flush", "flush_changed"} /\ todo = {}
    /\ op' = IF op = "flush_changed" THEN "save" ELSE "idle"
    /\ UNCHANGED <<unlocked, tor, todo, failed, stores, jitter, wire, history>>

----------------------------------------------------------------------------
(* retry_pending, from :retry, :listen and the return of Tor *)

RetryPending ==
    LET waiting == mem.queue \ HeldUntilLater
    IN  /\ mem.queue # {}
        /\ mem' = [mem EXCEPT !.queue = @ \cap HeldUntilLater]
        /\ IF waiting = {}
           THEN UNCHANGED <<op, todo>>
           ELSE op' = "retry" /\ todo' = waiting
        /\ UNCHANGED <<disk, unlocked, failed, jitter, wire, history>>

Retry == Idle /\ tor /\ RetryPending /\ UNCHANGED tor

RetryOne(f) ==
    /\ op = "retry" /\ f \in todo
    /\ todo' = todo \ {f}
    /\ \/ HandOver(f) /\ UNCHANGED failed
       \/ failed' = failed \cup {f} /\ UNCHANGED <<handed, resent>>
    /\ UNCHANGED <<unlocked, tor, op, accepted, stores, jitter, history>>

(* What could not be sent is queued again.  It fits back into the queue it *)
(* was taken from.                                                         *)
RetryEnds ==
    /\ op = "retry" /\ todo = {}
    /\ mem' = [mem EXCEPT !.queue = @ \cup failed]
    /\ failed' = {} /\ op' = "save"
    /\ UNCHANGED <<disk, unlocked, tor, todo, jitter, wire, history>>

----------------------------------------------------------------------------
(* Everything around it *)

(* check_tor and on_tor_change *)
TorGoesDown ==
    /\ op = "idle" /\ tor /\ tor' = FALSE
    /\ UNCHANGED <<unlocked, stores, jitter, working, wire, history>>

TorComesBack ==
    /\ op = "idle" /\ ~tor /\ tor' = TRUE
    /\ \/ unlocked /\ RetryPending
       \/ UNCHANGED <<unlocked, stores, jitter, working, wire, history>>

(* Any other save: preferences, and every frame received.                  *)
SaveAnytime ==
    /\ Idle /\ Save(mem)
    /\ UNCHANGED <<mem, unlocked, tor, past, jitter, working, wire>>

(* handle_mode: the posture changes in memory, then the session is saved.  *)
SwitchPosture ==
    /\ Idle /\ switches < MaxSwitches
    /\ switches' = switches + 1
    /\ mem' = [mem EXCEPT !.extreme = ~@]
    /\ Save(mem')
    /\ UNCHANGED <<unlocked, tor, deleted, dropped, links, jitter, working, wire>>

(* install_contact: upsert_contact_from_link finds the contact by its      *)
(* identity key or adds it, and its onion becomes the link's; the fresh    *)
(* ratchet replaces the old one.  A save that fails is only reported.      *)
(* From a link (not an invite) the new ratchet starts from the same static *)
(* keys as the old one; the model tells them apart by `gen`.               *)
InstallContact(o) ==
    /\ Idle /\ links < MaxLinks
    /\ links' = links + 1
    /\ mem' = [mem EXCEPT !.contact = TRUE, !.onion = o, !.gen = links', !.step = 0]
    /\ Save(mem')
    /\ UNCHANGED <<unlocked, tor, deleted, dropped, switches, jitter, working, wire>>

(* handle_delete_contact_confirm and delete_contact_secure: the frames for *)
(* the onion the contact has now leave the queue, those for an earlier one *)
(* stay; held_sends is left alone.                                         *)
DeleteContact ==
    /\ Idle /\ mem.contact
    /\ deleted' = TRUE
    /\ dropped' = dropped \cup {f \in accepted : f.to = mem.onion}
    /\ mem' = [NoSession EXCEPT !.queue = {f \in mem.queue : f.to # mem.onion},
                                !.extreme = mem.extreme]
    /\ Save(mem')
    /\ UNCHANGED <<unlocked, tor, links, switches, jitter, working, wire>>

(* Nothing in memory outlives lock_ui or the process.                      *)
LoseMemory ==
    /\ unlocked' = FALSE /\ mem' = NoSession
    /\ held' = {} /\ due' = {}
    /\ op' = "idle" /\ todo' = {} /\ failed' = {}
    /\ UNCHANGED <<tor, past, wire>>

LockUi == Idle /\ Save(mem) /\ LoseMemory

Crash == unlocked /\ Mishap /\ UNCHANGED disk /\ LoseMemory

(* restore_session_state; a deletion whose save failed never happened.     *)
Unlock ==
    /\ ~unlocked /\ unlocked' = TRUE
    /\ mem' = disk
    /\ dropped' = dropped \ disk.queue
    /\ UNCHANGED <<disk, tor, deleted, links, switches, mishaps, jitter, working, wire>>

Next ==
    \/ \E m \in Messages :
           SendHeld(Sealed(m)) \/ SendQueued(Sealed(m)) \/ SendNow(Sealed(m))
    \/ \E f \in todo : SendGoesOut(f) \/ SendFails(f) \/ FlushOne(f) \/ RetryOne(f)
    \/ \E f \in held : JitterRunsOut(f)
    \/ PersistAfterSend \/ FlushHeld \/ FlushEnds \/ Retry \/ RetryEnds
    \/ TorGoesDown \/ TorComesBack \/ SaveAnytime \/ SwitchPosture
    \/ \E o \in Onions : InstallContact(o)
    \/ DeleteContact \/ LockUi \/ Crash \/ Unlock

Spec == Init /\ [][Next]_vars

----------------------------------------------------------------------------
(* Fairness: the UI thread finishes an operation it began (socks5_send and *)
(* the disk answer or fail), time passes, and every round of the loop      *)
(* calls flush_held_sends before it looks at the next key.                 *)

Working == \/ \E f \in todo : SendGoesOut(f) \/ SendFails(f) \/ FlushOne(f) \/ RetryOne(f)
           \/ FlushEnds \/ RetryEnds \/ PersistAfterSend

TimePasses == \E f \in held : JitterRunsOut(f)

FairSpec == /\ Spec
            /\ WF_vars(Working) /\ WF_vars(TimePasses) /\ SF_vars(FlushHeld)

----------------------------------------------------------------------------
(* Properties *)

(* Type invariant; work in hand belongs to an operation of an open session. *)
Typed ==
    /\ mem \in Session /\ disk \in Session
    /\ unlocked \in BOOLEAN /\ tor \in BOOLEAN /\ deleted \in BOOLEAN
    /\ op \in {"idle", "send", "flush", "flush_changed", "retry", "save"}
    /\ todo \cup failed \cup held \cup accepted \cup dropped \subseteq Frame
    /\ due \subseteq held /\ handed \subseteq accepted /\ resent \subseteq handed
    /\ todo # {} => op \in {"send", "flush", "flush_changed", "retry"}
    /\ failed # {} => op = "retry"
    /\ ~unlocked => op = "idle" /\ held = {}
    /\ mem.contact => mem.onion \in Onions
    /\ disk.contact => disk.onion \in Onions
    /\ links \in 0 .. MaxLinks /\ switches \in 0 .. MaxSwitches /\ mishaps \in 0 .. MaxMishaps

TypeOK ==
    /\ Typed
    /\ Cardinality(mem.queue) <= MAX_PENDING_FRAMES
    /\ Cardinality(disk.queue) <= MAX_PENDING_FRAMES

(* "durable queue commit before Tor send": whatever crashes or fails to    *)
(* save, a session restored from state.enc that still has the contact      *)
(* seals its next frame at a step of its ratchet that no frame handed to   *)
(* Tor was sealed at.                                                      *)
CommitBeforeWire ==
    disk.contact => \A f \in handed : f.gen = disk.gen => f.step < disk.step

(* No promise is given under Extreme, or once the contact is deleted.      *)
Firm == switches = 0 /\ ~deleted

(* A frame goes to Tor again only after a crash or a failed save.          *)
NoNeedlessResend == mishaps = 0 => resent = {}

(* What goes out: for the first time, or once more.                        *)
GoingOut == (handed' \ handed) \cup (resent' \ resent)

(* A frame for the onion a contact was deleted with never goes out again,  *)
(* whether it waited in held_sends, in the queue or in an older state.enc, *)
(* and however often the contact is added again; only a crash after a      *)
(* deletion that was not saved undoes it.  Frames for an onion the contact *)
(* had earlier are not among them: those stay queued and are sent, though  *)
(* delete_contact_secure is documented to wipe the contact's frames.       *)
NothingSentToDeleted == [][GoingOut \cap dropped = {}]_vars

(* A held frame does not wait for ever.                                    *)
HeldResolved == \A m \in Messages :
    (\E f \in held : f.msg = m) ~> ~(\E f \in held : f.msg = m)

Promise == INSTANCE OutboxPromise WITH
    durable <- IF Firm THEN disk.queue ELSE {},
    delivered <- handed,
    firm <- Firm

(* The outbox keeps the promise of OutboxPromise.                          *)
KeepsPromise == Promise!Spec

============================================================================
