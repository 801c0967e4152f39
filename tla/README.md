# HashChat in TLA+

A verification project for HashChat, a Tor-only chat program: a Rust core
(`src/src/rust`), a terminal interface (`src/src/bin/hashchat_tui.rs`, below "the TUI") and an
Android app (`src/android`). Line numbers refer to the sources of this commit.

The models are checked with TLC on small instances. Theorems about every component are proved
with TLAPS for all values of the constants.

| module | what it is |
| --- | --- |
| `Ratchet` | the double ratchet of `ratchet.rs`, two peers and a lossy network |
| `Outbox` | how the TUI sends: durable queue, jitter, retry, lock, crash |
| `OutboxPromise` | what "durable send" promises; `Outbox` implements it |
| `UnlockGuard` | unlock prompt, failed-unlock limit, duress, dead-man switch, wipe |
| `Links` | contact links, invites and replies, and what is read from them |
| `ContactBook` | contacts, verification, blocking, invites, and what of it is saved; uses `Links` |
| `Bridges` | what the bridge check concludes from Tor's control port |
| `NetGate` | network settings, cached bridge check, onion service, batches of sends; uses `Bridges` |
| `Listener` | accept threads, connection handlers, incoming queue, the TUI's drain |
| `Profile` | `state.enc` with its save mark, the checks made at unlock, backup and restore |
| `Shell` | the TUI's screens and buffers, and what each way out of them clears |
| `DevicePosture` | what the Android app makes of the device it runs on |
| `AndroidChat`, `AndroidGroups` | transcript and life cycle; groups and their sender keys |
| `AndroidApp` | the two composed, with panic wipe and process death |
| `RatchetProofs`, `OutboxProofs`, `UnlockGuardProofs`, `NetGateProofs`, `ListenerProofs`, `ContactBookProofs`, `ShellProofs`, `StoreProofs` | the proofs |
| `MCRatchet`, `MCOutbox`, `MCUnlockGuard`, `MCContactBook`, `MCNetGate`, `MCListener`, `MCProfile`, `MCShell`, `MCAndroid` | the instances TLC checks |

## The system

| component | state | operations | hard part |
| --- | --- | --- | --- |
| double ratchet (`ratchet.rs`) | root, two chain keys, counters, DH pair, the peer's public, skipped keys | `ratchet_send`, `try_recv_decrypt_*`, `wipe_skipped_key` | loss, duplicates and reordering across DH epochs; store and counter limits |
| sending (`hashchat_tui.rs`) | `held_sends`, the session in memory, Tor status | `send_text`, `flush_held_sends`, `retry_pending`, `lock_ui` | crash between commit and Tor; three ways to send one frame; disk and memory differ |
| session store (`session_persist.rs`, `private_fs.rs`, `save_mark.rs`) | `state.enc`, `state.mark` | save, load, `commit_outgoing`, `for_disk` | two files written one after the other; older copies; old blob versions |
| contact book, links, invites (`session_persist.rs`, `contact_link.rs`, `invite.rs`, `onion_binding.rs`) | contacts, verified, blocked and muted ids, open invites | add, verify, block, mute, delete, issue, redeem, reply | a changed key must lose its verification; ids are reused; each invite once |
| onion service (`hidden_service.rs`) | accept threads, slots, bounded queue of frames | publish, accept, drain, withdraw | threads against the UI loop; a full queue drops |
| Tor and bridges (`tor_socks.rs`, `bridges.rs`, `net_mode.rs`) | mode, posture, cached bridge check | probe, check, send, publish, refuse | a cached answer that is stale when used |
| unlock and wipe (`failwipe.rs`, `duress.rs`, `deadman.rs`, `unlock_backoff.rs`, `shred.rs`) | four files and the prompt's counters | `try_unlock`, the settings' commands, `wipe_disk` | killing the process mid-attempt or mid-wipe, failed writes, the clock |
| checks at unlock (`save_mark.rs`, `clock_check.rs`, `binary_check.rs`, `wipe_settings.rs`) | recorded values | compare, warn, accept | order of check and overwrite |
| backup (`backup.rs`) | a file | export, restore | what a restore must not bring back |
| screens (`hashchat_tui.rs`) | screen, buffers, transcript, timers | keys, lock, exits | a dozen ways out, each with its own list of what to clear |
| Android (`src/android`) | message book, groups, sender keys, three files | the activity's callbacks, JNI calls | life cycle; two files that name each other; a decoy transcript |
| wire format, entitlements, export, post-quantum wrapper | none | one-shot calls | boundaries |

The TUI is one thread. Each round of its loop (`hashchat_tui.rs:5307`) checks Tor, drains
incoming frames, flushes held frames, expires lines, perhaps locks, then reads one key. The only
other threads belong to the onion service, which puts frames in a bounded queue. A message goes:
`send_text` restores the contact's ratchet from the session, seals a frame with it, commits the
ratchet and the frame to `state.enc`, mirrors both in memory, then holds the frame (jitter), leaves
it queued (bridges) or hands it to Tor. The receiver tries each contact's ratchet on a scratch
copy, keeps the one that opens the frame and saves.

How the models divide this: `Shell` has the loop, the keys and what is in memory, `Outbox` and
`NetGate` the sending (one follows each frame, the other each use of Tor), `Listener` the
receiving, `Profile` and `UnlockGuard` what happens before a session is open, `ContactBook` the
commands about contacts, `Ratchet` the two ends of one conversation. `PROJECT.json` lists every
component with its status and every hazard with the properties that watch it.

In all models a save either replaces the file whole or fails and leaves it (`write_private_file`
renames a finished temporary file), a crash loses memory only and may come between any two steps,
and both are counted as mishaps up to a bound.

## Ratchet

Two peers `Low` and `High`. Key material is symbolic: a DH secret is the pair of its publics, a
root key is the sequence of secrets mixed into it, a chain key is where its chain starts and how
often it was advanced, a message key is the chain key it comes from. A frame opens exactly under
the key that sealed it, since the AEAD covers the whole header. Nothing is ever removed from
`net`, and any frame may be handed to either peer at any time: this is loss, repetition,
reordering and reflection at once.

| model | code |
| --- | --- |
| `InitDirectional` | `init_directional` with both static keys known |
| `Send` | `ratchet_send` and the frame `send_text` builds from it, with `epoch_start` |
| `ReceiveSkipped`, `ReceiveSameChain`, `ReceiveNewChain` | the three exits of `recv_inner` that keep the scratch copy |
| `Reject` | every error exit; the scratch copy is dropped |
| `Newest`, `WipeSkippedKey`, `SkipRecvUntil` | `store_skipped_key`, `wipe_skipped_key`, `skip_recv_until` |
| `ExpireLine` | `expire_messages`, which wipes skipped keys by the number of a line, received or sent |
| `EpochCandidates` | wire v3 says where the chain starts; for v2 the last `DH_SEND_EVERY` positions are tried |
| `ToBytes`, `FromBytes`, `Reload` | the blob in the session, and the restore for each use |

The map of skipped keys is a set of (step, key) entries; that there is one entry per step is
proved (`StoreLimits`), which also justifies evicting once per skip instead of once per key. Left
out: low-order public keys, and `init_from_shared`/`init_symmetric`, which nothing but tests
calls. There is one copy of a ratchet per contact; losing the last save in a crash is the subject
of `Outbox` and `Listener`.

Properties: `ReplayRefused`, `KeysSealOnce`, `ReadKeysErased`, `LateFramesOpen`,
`StoreWithinLimits`, and `NextFrameOpens` with `EverythingRead` under turn-taking.
`ReadKeysErased` is about the keys held directly; it does not say that a root key cannot derive an
old chain again. `LateFramesOpen` says which unread frames must open: one passed over that is at
most `MAX_SKIPPED_KEYS` steps back and whose number no expired line has, or one up to `MAX_SKIP`
steps ahead on the chain the receiver is on. Its exemption is a sender at `COUNTER_MAX`: all its
later frames have one number, and the receiver keeps one key per number.

Runs. Constants are small but keep their order: a chain is longer than `DH_SEND_EVERY`, a gap can
be longer than `MAX_SKIP`, a store can be smaller than the gaps together.

- `ratchet`: a DH step every 2 sends, 7 and 4 sends, so up to three epochs on one side; `MAX_SKIP`
  3, so that frames are too far ahead; a store of 4, which two gaps fill; `COUNTER_MAX` 6, which 7
  sends pass; `Low` on wire v2, `High` on v3 with expiring lines.
- `ratchet_turns`: 7 sends each way in turns: three DH steps on each side, in both orders. Weak
  fairness of receiving, since the loop drains frames every round. The peers stop when all is sent,
  hence `CHECK_DEADLOCK FALSE`.
- `ratchet_epoch_loss`: a counterexample, see Findings.

### Proofs about Ratchet

`RatchetProofs` proves for all constants (no bound on sends, any limits, any mix of wire versions
and expiring peers), from the three assumptions in `Ratchet`:

- `TypeCorrect`: `Spec => []TypeOK`. The type invariant is inductive together with the store's.
- `StoreLimits`: `Spec => []StoreWithinLimits`. Needs that skipped steps are below `recv_count`,
  which every skip and every DH step keeps.
- `ReplaySafe`: `Spec => []ReplayRefused`. An opened frame has a step below `recv_count` and no
  stored key at its step that opens it. The strengthening says that keys still to come on the
  receiving chain, keys in the store and keys of opened frames do not overlap; the case that needs
  care is a counter at `COUNTER_MAX`, where steps no longer grow.
- `KeysNeverReused`: `Spec => []KeysSealOnce`. Every key on the network from a peer is below that
  peer's position in its chain, or belongs to a chain whose root is shorter than the peer's own;
  the publics in a root tell the two peers' chains apart.
- `ReadKeysStayErased`: `Spec => []ReadKeysErased`. The reader's chain and store are past the keys it
  used (`ErasedInv`), the sender's chain is past every key it sealed with, and no chain belongs to
  both directions: the last secret of a chain's root has a public of the peer of the one who began
  it (`OriginInv`).
- `LateFramesStillOpen`: `Spec => []LateFramesOpen`, from `LateInv`. A key may be dropped on three
  occasions: a full store, an expired line, a new chain begun at the wrong place. For the first,
  what is stored has distinct numbers below `recv_count`, so the `MAX_SKIPPED_KEYS` highest numbers
  are safe (`FewBetween`). For the last, the sender's frames are in the order of their epochs and
  each epoch's numbers are consecutive (`SendOrder`). The root of a frame's key has every public the
  sender drew before (`RootInv`), the receiver's root none younger than the last it read; so a frame
  that opens on a new chain is of the very next epoch, and what the receiver stores of the old and
  the new chain are the keys the sender used (`RecvOrder`).
- `NextFrameAlwaysOpens`: `TurnSpec => []NextFrameOpens`, for turn-taking only: `ratchet_epoch_loss`
  shows that it fails when an epoch is lost. `TurnInv` says that one peer at most has frames to
  read, that the numbers sent have no gap and the epochs of consecutive frames differ by one at
  most (`SentOK`), and that the root a frame's epoch starts from is the reader's root followed by the
  DH steps of the epochs not yet read, all against the public the reader has now (`InStep`). So the
  next frame is on the chain being read, or the first on the chain one DH step ahead. Every step of
  `TurnSpec` is one of `Spec` (`TurnsAreSteps`), which lends it the invariants above.
- `BytesKeepRatchet`: what `to_bytes` writes `from_bytes` reads back whole, so that restoring a
  ratchet for each use changes nothing.

## Outbox

One contact. `mem` is the unlocked session, `disk` the one in `state.enc`. An operation that talks
to Tor is a sequence of steps named by `op`; only a crash can come in between, as the UI is one
thread. Bridge checks and Tor's answers are nondeterministic (`NetGate` has them).

| model | code |
| --- | --- |
| `CommitOutgoing` | `send_text` up to `commit_outgoing_with_key` and the mirror in memory |
| `SendHeld`, `SendQueued`, `SendNow` + `SendGoesOut`/`SendFails` | its three endings |
| `FlushHeld`, `FlushOne`, `FlushEnds` | `flush_held_sends` |
| `Retry`, `RetryOne`, `RetryEnds` | `retry_pending`, from `:retry`, `:listen` and the return of Tor |
| `SwitchPosture`, `ForDisk` | `:mode extreme/standard` and what Extreme keeps from the disk |
| `InstallContact` | `install_contact`: a link, invite or reply gives the contact a fresh ratchet and its onion, or adds it again |
| `DeleteContact` | `delete_contact_secure`: the contact, its ratchet, and the frames for the onion it has now |
| `LockUi`, `Crash`, `Unlock` | the functions of those names; a crash loses memory only |

A frame is the text, the ratchet (`gen`: installed by which link) and step that sealed it, and the
onion it is for. `delete_contact_secure` compares frames with the contact's present onion, so those
queued before a link changed the onion stay queued, outlive the deletion and are sent; the model
has that, and `dropped` is what a deletion did take out.

Abstractions: one contact, which may be deleted and added again; each text is typed once and in
order; the queue is a set (no property is about its order); saves caused by receiving are
`SaveAnytime`; two ratchets of one contact differ. The last is not so if the same contact link is
taken twice, as both then start from the two static keys: a hazard of its own
(`hashchat_tui.rs:2870`).

Properties: `CommitBeforeWire` (no step of a ratchet is used twice, whatever crashes),
`NoNeedlessResend`, `NothingSentToDeleted` (no frame for the onion a contact was deleted with goes
out again, however often it is added again), `HeldResolved`, and `KeepsPromise`, the refinement of
`OutboxPromise`: an accepted frame is durable until it went to Tor, and no two accepted frames
share a ratchet step. The mapping takes the queue on disk as `durable` until the posture changes
or the contact is deleted, when the promise ends.

Run `outbox`: three texts, a queue of two (it fills while a third waits), one link with either of
two onions (the same again, another, or the contact added once more), two mishaps (a crash and a
failed save, or two of one kind), one posture change. Fairness: a started operation ends
(`Working`; SOCKS and disk calls return or fail), jitter runs out (`TimePasses`), and
`flush_held_sends` runs whenever it is possible again and again (strong fairness, since any
operation may come in between; each round of the loop calls it). Nothing is assumed of the user,
of Tor or of crashes.

### Proofs about Outbox

`OutboxProofs` proves, for any texts, onions, cap, number of links, posture changes and mishaps: `TypeCorrect` (with
it, that no queue outgrows `MAX_PENDING_FRAMES`), `CommitsBeforeWire`, `ResendsNeedMishap`,
`DeletedAreLeftAlone` and `Refinement`, the implementation of `OutboxPromise`. All follow from one
invariant, `IInv`:

- `Room`: the queue in memory has room for what `retry_pending` took out of it. A count of the queue
  alone is not inductive, as putting back could overfill it.
- `Owned`, `Ordered`: what is queued or in hand was accepted, and the ratchets of memory and disk are
  past every accepted frame they sealed, none of which is of a ratchet still to come.
  `CommitBeforeWire` speaks of handed frames and the disk only; a crash makes the disk's ratchet the
  one in memory, so both are needed.
- `Apart`: no frame that a deletion dropped is queued in memory or in hand. The disk may still have
  one after a save that failed; the unlock that reads it undoes that deletion.
- `Mirrored`: while the promise stands, memory holds no frame the disk lacks, and the disk none but
  those still to be sent or already out. Acknowledgements reach memory first and the disk with the
  next save, and the refinement needs to know that such a save drops only frames that went out.
- `Unsent`: without a mishap nothing that went out is queued, and `retry_pending` never has a frame
  both in hand and queued.

Each conjunct is kept by every action (`TypesKept` to `RoomKept`), one case per action; the actions'
effects on the two sessions are lemmas of their own (`Committing`, `Saved`, `Taking`, ...).

## UnlockGuard

The four files (`store` for `state.enc`, `failwipe`, `duress`, `deadman`), the prompt with its
cooldown, an attempt under way between its recording and its check, and a wipe under way file by
file. Time counts in days; the clock may read up to `MaxBack` days early. A mishap is a crash, a
failed write or removal, or a file found damaged. The passphrases are the user's, the duress one
and any other one.

Properties: `GuessesLimited` (killing the process gives no free guess), `GuardsOutliveProfile` (an
interrupted wipe leaves no unguarded profile), `LimitWipesAreEarned` (no wipe by the limit before
its attempts were made), `DeadmanNotEarly`. Two exemptions are part of the statements and listed
with the hazards: a profile created beside an old count after an interrupted wipe (`leftover`), and
a disk that refuses to remove `state.enc` alone (`stuck`).

`DeadmanNotEarly` allows for `MaxBack`. `deadman.rs:9` and `THREATMODEL.md:49` say that a clock moved
back only delays the switch; but if it is back at an unlock, `touch_deadman` stores that time, and
when it is right again the difference counts as absence. Without the allowance TLC refutes the
property; with it, it is proved.

Run `unlock`: limit 2 (attempts below, at and past the limit), two days on the switch over three
days of time, a clock up to a day early, threshold 2, two mishaps (a crash during what follows a
crash).

### Proofs about UnlockGuard

`UnlockGuardProofs` proves, for all limits, thresholds and numbers of mishaps, from the one
assumption in `UnlockGuard` (`RangesAreNat`):

- `TypeCorrect`: `Spec => []TypeOK`, in four parts (files, numbers, control, flags).
- `NoFreeGuess`: `Spec => []GuessesLimited`, and `WipesEarned`: `Spec => LimitWipesAreEarned`. Both
  follow from `CountInv`: the count on disk is never behind the wrong passphrases tested, strictly
  ahead while a counted attempt waits for its verdict, and, if the file is this profile's own,
  never ahead of the attempts recorded. `GuessesLimited` alone is not inductive: it says nothing of
  the attempt under way when the process dies.
- `NoUnguardedProfile`: `Spec => GuardsOutliveProfile`, from `WipeInv`: once the wipe is past
  `state.enc`, that file is gone or could not be removed.
- `DeadmanExact`: `Spec => DeadmanNotEarly`, from `ClockInv`: the file holds the day it was last
  written, or up to `MaxBack` days less.

## Links

The texts peers exchange, as pure operators: how links, invites and replies are made, parsed and
checked. Keys and signatures are symbols; a text is any recombination of the fields and signatures
of texts that somebody made, with forged ones besides. A parser returns the set of what it read,
empty for its error. `onion_binding.rs` is `SignBinding`, `VerifyBinding`, `BindingFits`;
`contact_link.rs` is `ParseSignedContactLink`, `BoundContact`; `invite.rs` is `ReadInvite`,
`ParseInvite`, `AcceptReply`, `OpenedBy`. The onion's checksum and base32 are one predicate, the
encodings are left out, and the salt of an invite goes by its id.

`ContactBookProofs` proves, for every set of onions, seeds and owners, that of any such contact link,
invite or reply the TUI takes nothing or an onion with the keys that onion's own service signed
(`LinkedContactsAreOwners`, `InvitedContactsAreOwners`, `RepliedContactsAreOwners`). The argument:
a binding names its onion and both keys, two equal bindings are of the same profile, and only a
profile that serves the onion made one.

## ContactBook

The contacts of one profile. `mem` is the session in memory and `disk` the one in `state.enc`,
each with its contacts, its verified, blocked and muted ids, its ratchets (of which only the
peer's keys are kept), its open invites and its posture. What comes in is read with `Links`. The
Ed25519 and X25519 keys of a link come from one seed, so they change together. A crash may come
between the save that spends an invite and the one that installs its contact (`installing`).

| model | code |
| --- | --- |
| `UpsertContactFromLink`, `MatchOf`, `FreshContactId` | the functions of `session_persist.rs` |
| `AddContact`, `RedeemInvite`, `InstallContact` | `add_contact_link` with a contact link or an invite, `install_contact` |
| `IssueInvite`, `CountInvites`, `RevokeAll` | `:invite` |
| `AcceptInviteReply`, `InviteHello`, `OtherFrame`, `InstallAccepted` | a reply that is pasted, one that comes in band, a frame that opens no invite, the contact of a good reply |
| `Tokens`, `ResolveDenyToken`, `Named` | what a command may be given: an id, the beginning of an id, an onion, an SAS |
| `Verify` ... `Unmute`, `TakeOff` | the commands about one contact; each saves |
| `StageDelete`, `CancelDelete`, `ConfirmDelete`, `SelectionAfterRemoval` | `:delete-contact` and its confirmation, which frames may interrupt |
| `SendText` | what `commit_outgoing_with_key` does to the session on disk |
| `SwitchPosture`, `ForDisk`, `LockUi`, `Crash`, `Unlock` | as in `Outbox` |

Abstractions: display names, `:rename` and frames are left out. The field `compared` and the
variables `shown`, `closed` and `mixed` are history. A contact's number is written in base
`Radix`, 10 in the code.

Properties: `TrustIsEarned` (every contact is at an onion bound to its keys, and a verified one has
the onion and keys the user compared), `SessionsFitContacts` (its ratchet is with those keys),
`NewContactsStartClean`, `ClosedInvitesStayClosed` (a saved use or withdrawal of an invite is
final), `SelectionStays`. `SessionsFitContacts` holds until `mixed`: `send_text` takes the session
from the disk and puts the ratchet in memory into it, under an id that may stand for other keys
there, if the save of the new link had failed. After a crash the old record, perhaps verified, has
a ratchet with the new keys.

Run `contacts`: two onions and two seeds, so that a link can agree with one contact in its onion
and with another in its keys; a third seed that serves no onion and claims one; one invite of the
profile's own and one of a peer's, of a day; one mishap; symmetry in onions and in seeds, which
nothing orders. There are never more than two contacts, enough for an id to be used again and for
a selection to move. `Radix` 2 makes the second contact's number, 10, begin with the first's, 1,
where the code needs ten contacts.

### Proofs about ContactBook

`ContactBookProofs` proves, for every set of links, any number of contacts, every lifetime, and any
number of failed saves and crashes, from the assumptions in `Links` and `ContactBook`:

- `TrustEarned`: `Spec => []TrustIsEarned`. Alone it is not inductive: it says nothing of the
  contact of a spent invite that is still to be installed, nor of the positions and ids the commands
  go by. `IInv` adds that what waits is bound, that the selection and a staged deletion are in the
  book, and that ids marked as verified belong to records that were compared. This one needs neither
  that ids are fresh nor that they are distinct. That texts read are bound comes from the theorems
  about `Links`.
- `SessionsAlwaysFit`: `Spec => []SessionsFitContacts`; `NewContactsAreClean`,
  `ClosedInvitesAreClosed`, `SelectionIsKept`: the three action properties. They need more, `SInv`:
  in both sessions ids are distinct and finitely many are in use (`Whole`), each ratchet is with
  the keys of its record unless a `send_text` has mixed two sessions (`Fitting`), an invite that was
  closed is in neither list of open ones (`Ledger`), and while the profile is locked nothing is
  selected or being installed. That the id given to a new contact is free is a pigeonhole argument:
  of one more numbers than there are ids in use one is unused.

## Bridges and NetGate

`Bridges` is what `:bridges` concludes from Tor's answers: which bridge lines parse, how the
reader cuts a reply, and `BridgeStatus::verdict`. A line, a circuit and a reply are records.
Authentication on the control port is a sequence of tests, each of which may fail; the HMAC is
one of them. `Bridged` says what the verdict is meant to say: every built circuit starts at a
configured bridge.

`NetGate` is the settings (`NetConfig`, in memory and on disk), the cached verdict with its age,
the onion service, and the operations that hand frames to Tor, one frame at a time, while Tor
changes between any two steps. Frames are only counted.

| model | code |
| --- | --- |
| `SetMode`, `SetPosture`, `SetIsolation`, `RequireBridges`, `ExtremeLocks` | `:mode`, `:isolate`, `:bridges require`, and what Extreme forces |
| `Fresh`, `Checked`, `Hold` | `bridges_hold_reason` |
| `Retry`, `SendText`, `SendWithJitter`, `FlushHeld`, `NextFrame` | the operations, and each frame of one |
| `Listen`, `Publish`, `ListenFails`, `RecheckWhileListening` | `listen`, `recheck_bridges_while_listening` |
| `Unlock`, `Lock`, `Restart` | settings loaded, kept, saved, or back at the environment's |
| `TorChanges`, `CheckTor`, `Tick` | Tor, `check_tor`, time |

Properties: `ActiveIsBridged` (a passing verdict is true), `SendsGated` (an operation runs in mode
tor, isolated under Extreme, and within the life of a passing check), `NoOrphanOnion`,
`OnionWithdrawn` (an onion does not stay published once the bridges are gone, see Findings).
`basis` and
`bridgedAge` are history: how long ago bridges were in use when the operation began.

Run `netgate`: one bridge A and another relay B; Tors that are down, not ready, answered for by
somebody who does not know the cookie, or with two circuits from A and from anywhere; a passing
check lives two ticks, a failing one one (30 and 10 seconds in the code: the order is kept); two
frames, one mishap. Fairness: an operation ends and a listen is answered (every call to Tor has a
timeout), time passes, and the recheck and `check_tor`, which each round of the loop makes, happen
if they are possible again and again. Circuits in this run have numbers that do not look like the
end of a reply; `netgate_circuit_ids` adds those that do, see Findings.

### Proofs about NetGate and Bridges

`NetGateProofs` proves, for all Tors, settings, cache lives and bounds: `TypeCorrect` (with it, that
a batch never counts more frames than are queued), `OnionNeverOrphaned`, and `SendsStayGated`, which
assumes that the verdict is true of the Tors that occur (`VerdictIsTrue`). Its invariant ties the
cache to the bridges: while a passing check may be used, bridges were in use no longer ago than the
check is old. It also needs that Extreme forces mode and isolation wherever the settings come from.

When the verdict is true is proved of `Bridges`: `ActiveMeansBridged` (`Spec => []ActiveIsBridged`)
for all Tors that list at most one circuit, or only circuits whose line does not look like the end
of a reply (`Readable`), with any number of circuits and any finite torrc. That hypothesis is what
the finding `netgate_circuit_ids` violates, so it cannot be dropped. The argument follows the
code: the reply's last line alone ends it and each circuit has a line of its own (`IsReply`), so
`ReadControlReply` returns all of it (`AllIsRead`) and a first hop that is no bridge's is counted.
From the two, `ReadableSendsAreGated` has `SendsGated` with nothing assumed of the verdict.

## Listener

Frames on their way in. One accept thread for every service that was published in this process,
one handler for every connection, and the TUI, which drains the queue in its own thread. The code's
atomics are single steps: the accept thread's load of the count, its exchange, the spawn, the
handler's last act; a handler's `try_send` to the queue; the TUI's steps of a drain.

| model | code |
| --- | --- |
| `Accept`, `Refuse`, `Exchange`, `Spawn`, `HandlerOver` | `accept_loop` and `ConnSlot` |
| `ServeFrame`, `HandlerEnds` | `serve_connection`, with the drop counter at a full queue |
| `Listen`, `Withdraw`, `LockUi`, `Crash`, `Unlock` | the service's life; threads of one that was let go end at their next turn |
| `BeginDrain`, `TakeFrame`, `TellDrops`, `OpenFrame` | `drain_incoming` |
| `InboundContactOrder`, `Verdict`, `Opens` | `try_decrypt_incoming`: order of the contacts, what is done with the frame of a blocked or muted one, or with one that is badly padded |
| `Block` ... `SelectContact` | the commands that change that |

Properties: `SlotsMatchHandlers` (no slot leaks, the cap holds), `DropsReported`, `ShownOnce` (unless
a save failed), `Heard` (no contact is unheard because of another). A frame that opens but is badly
padded ends the search and leaves the ratchet as it was, so `Heard` is about frames padded as the
protocol asks. The error of a ratchet that cannot be read is left out: `to_bytes` wrote it
(`BytesKeepRatchet`).

Run `listener`: two contacts whose frames come twice over three connections, one sealed and one
named, and a badly padded frame before one of them; two connections at a time and a queue of one, so that both are full; two services, so that
threads of an old one meet a new one; one mishap, one command; one contact blocked and one muted.
Connections run out, hence `CHECK_DEADLOCK FALSE`.

### Proofs about Listener

`ListenerProofs` proves, for any (finite) set of connections, any caps and any number of services,
mishaps and commands:

- `SlotsMatch`, from `SlotsInv`. The count and the handlers alone are not inductive: what is needed
  besides is `InHand`, that an accept thread past `accept()` holds a stream of its own service that no
  handler has. Each action of the threads has a lemma on what it does to the handlers' number; the
  exchange needs that it took the slot at the very count it compared with the cap.
- `DropsAreReported`, from `DropsInv`: what the TUI has seen it has told, and it is never ahead of
  the count, which starts anew with every service (so must `seen`, on every way out of one).
- `TextsShownOnce`, from `ShownInv`: unless a save failed, a text that was shown is opened in memory
  and on disk, so a crash between the save and the next frame brings nothing back.
- `ContactsAreHeard`: `Spec => Heard`. A frame that is well padded ends no search but at its own
  contact. The order in which contacts are tried puts the frame's own
  contact somewhere, and no contact before it stops the search: the frame is dropped only for a
  blocked contact whose name it bears (`OthersAreNoBlock`).

## Profile

`state.enc` over its life: the two writes of a save, what an unlock compares before it saves again,
and the backup. A save id is the number of the save. `key` stands for all ratchets: which session,
and which message key comes next.

| model | code |
| --- | --- |
| `StateWritten`, `MarkWritten`, `MarkFails`, `SaveFails` | `save_session_wrapped`, then `write_save_mark` |
| `SerializeBlob`, `DeserializeBlob` | the blob; fields that came with a later version are at their defaults |
| `Checks`, `Stamped`, `TryUnlock` | the four checks, made before the save that follows them |
| `AdvanceClockMark`, `ClockRollback`, `BinaryStatus`, `SaveMarkStatus`, `ChangesSince` | the functions of those modules |
| `RecordWipeSettings`, `BinaryAccept`, `ClockReset`, `WipeSettingsAccept` | the commands that accept a change |
| `HandleBackup` ... `OpenRestoredSession` | export and restore, screen by screen |
| `TakeCopy`, `PutCopyBack`, `RemoveMark`, `ChangeSettingsByHand`, `ClockIsSet` | the world outside |

Properties: `OlderCopyWarned`, `ChangesWarned`, `NoKeyReused`. Their exemptions are in their
comments: a save whose mark was not written, a copy of before save ids, a session that ended before
it could save what it recorded. The posture is Standard; Extreme neither exports nor restores.

Run `profile`: two readings of the clock further apart than the tolerance, with a step that rounds;
four saves (each session costs one or two), two mishaps (a copy kept and a failed write), profiles
left by versions 1, 10 and 12 (no ratchets; no settings; no id), two executables, symmetry in them.

### Proofs about Profile

`StoreProofs`, which it shares with Android's store, proves for all clocks, tolerances, settings,
binaries, old versions and any number of saves and mishaps: `ProfileIsTyped`,
`OlderCopiesAreReported` (`ProfileSpec => OlderCopyWarned`), `ChangesAreReported`
(`ProfileSpec => ChangesWarned`) and `KeysAreUsedOnce` (`ProfileSpec => NoKeyReused`). Assumed is
that `None` is none of the values, and that the step of the clock mark is not 0. The specification
is called `ProfileSpec` since both stores are in one module of proofs. `ProfileInv` has five parts
besides the types:

- `Places`: which screens have an open session or hold part of a restore, and that an open session
  has a file. Without it the file that an unlock reads might be none.
- `Marks`: ids grow with the saves, and a mark that is there is the last save's once it is written.
  `OlderCopyWarned` follows from it.
- `Keys`: the next key of the session and of the file written last is past every key used, whether
  that file is in place or is the copy somebody kept; and a restored profile has no ratchet before
  it is opened, so its keys are of a new session.
- `Records`: what is known of settings and binary is what the session, or when none is open the
  file in place, has recorded. For a copy that is put back it needs `CopyOfThis`.
- `Clocks`: the clock marks of the session and of the file written last are not behind the clock of
  any save they follow. Marks only rise (`AdvanceClockMark`), also through a session with the clock
  set back.

`Keys`, `Records` and `Clocks` speak of the file with the last id, in place or copied, since putting
back a copy of the newest file is no older copy.

## Shell

The screens of the TUI and the buffers behind them, the loop (drain, expiry, idle lock, draw, one
key) and everything that leaves a screen. A buffer is the set of purposes its characters were typed
for; secrets in memory are named, not valued. What an action stands for is in its comment; `Key`
is one key press, and each command of `:` is one action, those that change nothing here being
`OtherCommand`.

Properties: `NothingLeft` (nothing of a closed session or of a restore is in memory, no line of a
deleted contact), `TypedForThisScreen` (no passphrase is tried as another, no draft is run as a
confirmation), `DrawnIsCurrent` (no expired line and no session past its timeout is drawn),
`ProfileNotReplaced`.

Run `shell`: one contact, lock timeouts of one and two ticks or off, lines for one tick or for ever,
two profiles (one replaces the other), one mishap. Time is counted to the longest timeout. With
fewer values no timer could pass another.

### Proofs about Shell

`ShellProofs` proves, for all contacts, timeouts, lives of lines, profiles and mishaps:
`NothingIsLeft` (`Spec => []NothingLeft`), `TypedStaysHere` (`Spec => []TypedForThisScreen`),
`ScreenIsCurrent` (`Spec => []DrawnIsCurrent`) and `ProfilesStay` (`Spec => ProfileNotReplaced`).
The invariant has three parts besides `DrawnIsCurrent`. `Places`: at the prompt and at the exit no
session is open and nothing of one is in memory, a restore is under way only without a profile on
disk, and an open session is the profile on disk. `TInv`: `TypedForThisScreen`, and the second
buffer is in use only where a passphrase is typed twice. `Clock`: the idle timer counts every tick
since the last key, so a pass that does not lock leaves a session that was used recently enough.
`ProfilesStay` needs of `Places` that nothing but the first passphrase and a restore makes a
profile, and both only where there is none.

## Android

Three modules and their composition. `DevicePosture` has the two gates, strict mode (half in
Kotlin, half in Rust) and the posture, as operators on a device. `AndroidChat` is the message book
with parking behind the decoy screen, the voice queue, and the activity's callbacks. `AndroidGroups`
is the groups, whose members name their keys by slot, with two files written one after the other.
`AndroidApp` composes them under the panic wipe and process death and says what each gate allows.

A line that is sent is answered 900 ms later with its text decrypted again (`MainActivity.kt:319`),
a recording after 1100 ms (`:721`), and a voice chunk once the thread that took it gets to the UI
thread; for the last two, whose line has fixed words, the recording counts as the text. `answers`
are the texts whose answer is on its way, and `Answer` puts one into the book as it is by then, on
whichever screen is up and after whatever wipe came between. A line therefore has two origins, that of its text and its own,
each with the number of panic wipes before it and whether the decoy screen was up.

Properties: `SavedBookLoads` (the ids in `messages.enc` always differ, else the file is refused),
`WipeForgets` (nothing of before a panic wipe comes back with a later `onPause`), `DecoyNotSaved`,
`MembersKeepTheirKeys`. The origins of a line, the key of a member, `keysBefore` and `crossing` are
history. The code does bring back a text whose answer was on its way over the wipe or out of the
decoy screen (see Findings). `crossing` says that there was one, and only then, and only for texts,
do `WipeForgets` and `DecoyNotSaved` give way.

Run `android`: three lines and one tick of the clock, a transcript of two (the third evicts), one
group of two members, two keys and a key store of two, one wipe, two conditions of the phone: clean,
where members may be added and nothing is saved, and with a debugger, where it is the other way
round. So a keyed member is saved once a second change follows under the debugger, and is loaded
again by the next process. While the groups are in use lines and ticks together are two at most
(`MaxBesides`), for the size of the product; the groups and the transcript share only the wipe, the
activity's life and the condition of the phone. Bounded counters end, hence `CHECK_DEADLOCK FALSE`.

### Proofs about Android

`StoreProofs` proves of `AndroidApp`, for any numbers of lines, groups, keys and any phone:

- `SavedBookAlwaysLoads`: `Spec => []SavedBookLoads`. In the book, in what is parked and in the file
  ids rise, and the next id is above all of them, also after a reload (`BookSound`, `FileSound`).
- `DecoyIsNotSaved`: `Spec => []DecoyNotSaved`. While the decoy shows, what the book exports is the
  parked transcript (`Apart`), until the activity is lost. Once it is left, no answer on its way has
  a text of the decoy screen, unless `crossing` says so (`AnswersFit`).
- `MembersAlwaysKeepTheirKeys`: `Spec => []MembersKeepTheirKeys`. The slot of every member holds its
  key (`Backed`), in memory, and in the files unless the key file is still to be written; then the
  group file is what memory is (`FilesAgree`).
- `WipeAlwaysForgets`: `Spec => []WipeForgets`. Every line, chunk and key, in memory or in a file, is
  of after the last wipe (`ChatInv`, `LaterInv`), and so is every text, in the book or on its way,
  unless `crossing` (`AnswersFit`).

and for every device: `StrictIsNotLow`, that one which passes strict mode
shows the posture nothing worse than airplane mode, and `VoiceNeedsBoth`, that the voice button then
works exactly when strict mode passes and airplane mode is off. Both except a Build field that
spells an emulator's name in letters of other case, which `device_posture.rs` folds and
`MainActivity.kt` does not.

## Findings

Each is a run that TLC must refute.

| run | the code | what is written |
| --- | --- | --- |
| `ratchet_epoch_loss` | a lost epoch leaves the receiver's root one secret behind (`ratchet.rs:329`) | `ratchet.rs:487`, `SECURITY.md:123`, `THREATMODEL.md:37`, `ROADMAP.md:95`: no longer breaks the session |
| `netgate_circuit_ids` | the control reader takes the line of a circuit numbered 250, or with a 5 first, for the end of the reply; later circuits are not looked at (`hidden_service.rs:746`) | `bridges.rs:14`: the first hop of every built circuit is one of the bridges |

Other behaviour that differs from what is written, or that no property can demand of this code,
is described with its hazard in `PROJECT.json`: the expiry of a sent line wipes the received key of
that number (`hashchat_tui.rs:603`), crossing DH steps fork the root (`ratchet.rs:311`), under
Extreme a held frame may be in no queue (`hashchat_tui.rs:3090`), the exit never refreshes the
dead-man file (`hashchat_tui.rs:5610`), a reply that arrives while the user types changes the
selection (`hashchat_tui.rs:2920`).

Three more came from comparing the models with what is written:

- Deleting a contact drops the frames queued for its present onion only (`session_persist.rs:736`).
  Those queued before a link changed its onion stay and go out after the deletion, though
  `session_persist.rs:699` has "securely wipe its ratchet, pending frames, and deny entries".
- On Android, an answer that is on its way at a panic wipe brings the text it answers back into the
  transcript, and the next `onPause` may save it (`MainActivity.kt:319`); the dialog asks "Destroy ALL
  keys, messages, ratchets?" (`:580`) and the toast says "all material destroyed" (`:622`). One that is
  on its way as the decoy screen is left puts the decoy's text into the real transcript.
- `THREATMODEL.md:86` says that "a service already published is not withdrawn if bridges go away
  later". The code withdraws it (`hashchat_tui.rs:1486`), as `ROADMAP.md:95` and `:101` say and
  `OnionWithdrawn` checks.

## What is proved and what is only checked

49 theorems are listed in `PROJECT.json`; besides the theorems about types, operators and devices
they make these properties hold for all constants: `CommitBeforeWire`, `NoNeedlessResend`,
`NothingSentToDeleted`, `KeepsPromise` (`Outbox`); `StoreWithinLimits`, `ReplayRefused`,
`KeysSealOnce`, `ReadKeysErased`, `LateFramesOpen`, under turn-taking `NextFrameOpens` (`Ratchet`);
`GuessesLimited`,
`LimitWipesAreEarned`, `GuardsOutliveProfile`, `DeadmanNotEarly` (`UnlockGuard`); `TrustIsEarned`,
`SessionsFitContacts`, `NewContactsStartClean`, `ClosedInvitesStayClosed`, `SelectionStays`
(`ContactBook`); `NoOrphanOnion`, `SendsGated`, `ActiveIsBridged` (`NetGate`); `SlotsMatchHandlers`,
`DropsReported`, `ShownOnce`, `Heard` (`Listener`); `OlderCopyWarned`, `ChangesWarned`,
`NoKeyReused` (`Profile`); `NothingLeft`, `TypedForThisScreen`, `DrawnIsCurrent`,
`ProfileNotReplaced` (`Shell`); `SavedBookLoads`, `WipeForgets`, `DecoyNotSaved`,
`MembersKeepTheirKeys` (`AndroidApp`). All rest on the named assumptions in the modules, which TLC
evaluates for each instance; `ActiveMeansBridged` and `ReadableSendsAreGated` assume also that the
circuits of every Tor are `Readable`, since for others the former is false (see Findings), and
`SendsStayGated` that the verdict is true of every Tor.

Only checked, on the instances above, is liveness: `EverythingRead`, `HeldResolved` and
`OnionWithdrawn`, which TLAPS cannot prove under fairness.

The operators marked "Bug:" are defective variants of the definition that follows them. No
specification uses them: each property is known to fail when its variant takes the definition's
place.

## Not modelled

- `padding.rs`, `wire.rs`, `envelope.rs` and all byte layouts: pure functions whose boundaries the
  unit tests cover; the models have what they carry.
- The numbers of Argon2id, the AEAD, HKDF and the curves: symbols here.
- `quantum.rs`: a wrapper around an external KEM behind a feature flag, with no caller in the TUI.
- `entitlement.rs`: a signature check over a table of feature names, without state.
- `device_export.rs`: no code of the TUI or of the Android app reaches it with an established
  ratchet.
- Android's own copy of the ratchet, its export and import: Kotlin never calls them. Its layouts,
  dialogs and the recording of audio: no state a property is about.
- Terminal sanitising, memory locking, core-dump hardening: no protocol state.
- Two processes on one data directory (`--wipe`, a second TUI): nothing in the code orders them.
- Display names and `:rename`, the order of the queue, SOCKS5 and the read deadlines of a
  connection: each changes nothing the properties tell apart.

## Plan

1. `ContactBook` composed with `Outbox`, for several contacts that share an onion or exchange
   theirs: whose frames a deletion takes out of the queue then.
2. Both sides of an invite as one protocol: both end on the same root, and a reply that is lost
   leaves the inviter without a contact.
3. Proofs about the compositions of 1 and 2, from the invariants of their parts.
