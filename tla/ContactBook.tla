----------------------------- MODULE ContactBook -----------------------------
(***************************************************************************)
(* The contacts of one profile: links, one-time invites, verification,     *)
(* blocking, deletion, and what of it is in state.enc.                     *)
(*                                                                         *)
(* `mem` is the unlocked SessionState, `disk` the one in state.enc.  An    *)
(* accepted invite is saved as spent in one step and its contact installed *)
(* in another; a crash may come in between.  Frames are left to Outbox,    *)
(* ratchets to Ratchet: of a ratchet only the peer's keys are kept.        *)
(***************************************************************************)
EXTENDS Links, Sequences, SequencesExt, FiniteSetsExt

CONSTANTS
    Me,                    \* the seed of the profile
    Invites,               \* bound: invites the profile issues
    Ttls,                  \* lifetimes :invite is given
    MAX_INVITE_TTL_SECS,
    MAX_PENDING_INVITES,   \* most invites open at once
    Radix,                 \* base the numbers of contacts are written in: 10
    MaxTime,               \* bound on time
    MaxMishaps             \* bound: crashes and failed saves

ASSUME ParametersFit ==
    /\ Ttls \subseteq Nat /\ MAX_INVITE_TTL_SECS \in Nat
    /\ MAX_PENDING_INVITES \in Nat \ {0}
    /\ Me \in Seeds
    /\ Radix \in Nat \ {0, 1}
    /\ MaxTime \in Nat /\ MaxMishaps \in Nat

VARIABLES
    mem,         \* the session in memory
    disk,        \* the session in state.enc
    unlocked,    \* a session is open
    selected,    \* selected_contact, an index; 0 is None
    staged,      \* pending_delete_contact, an id; 0 is None
    installing,  \* an accepted invite's contact, not yet in the book
    time,
    shown,       \* invites whose link was shown
    closed,      \* invites whose use or withdrawal was saved
    mixed,       \* a line to a contact was saved with another one's keys
    mishaps      \* crashes and failed saves so far

vars == <<mem, disk, unlocked, selected, staged, installing, time, shown, closed, mixed,
          mishaps>>

ui      == <<unlocked, selected, staged>>
history == <<shown, closed, mixed>>

(* A PersistedContact.  `compared` is what the user last compared for it,  *)
(* and not in the code.                                                    *)
Identities == [onion : Onions, keys : Seeds]
Contact == [id : Nat \ {0}, who : Identities, compared : {{}} \cup {{w} : w \in Identities}]

NoSession == [contacts |-> <<>>, verified |-> {}, blocked |-> {}, muted |-> {},
              ratchets |-> {}, invites |-> {}, extreme |-> FALSE]

(* SessionState::for_disk *)
ForDisk(s) == IF s.extreme THEN [NoSession EXCEPT !.extreme = TRUE] ELSE s

Ids(s) == {s.contacts[i].id : i \in DOMAIN s.contacts}

Mishap == mishaps < MaxMishaps /\ mishaps' = mishaps + 1

(* persist_session: state.enc is replaced whole or left as it was.         *)
Persist(s) ==
    \/ disk' = ForDisk(s) /\ UNCHANGED mishaps
    \/ Mishap /\ UNCHANGED disk

(* The same after invites were spent or revoked.                           *)
(* Bug: they are closed in memory only.                                    *)
PersistClosingInMemory(s, ids) ==
    closed' = closed \cup ids /\ UNCHANGED <<disk, mishaps>>

PersistClosing(s, ids) ==
    \/ disk' = ForDisk(s) /\ closed' = closed \cup ids /\ UNCHANGED mishaps
    \/ Mishap /\ UNCHANGED <<disk, closed>>

----------------------------------------------------------------------------
(* SessionState *)

(* fresh_contact_id: the first number past the count that is not in use.   *)
(* Bug: the number past the count, in use or not.                          *)
ContactIdByCount(s) == Len(s.contacts) + 1

FreshContactId(s) ==
    LET used == Ids(s) \cup s.verified \cup s.blocked \cup s.muted \cup {r.id : r \in s.ratchets}
        next == Len(s.contacts) + 1
    IN  Min((next .. next + Cardinality(used)) \ used)

(* The position of the record a link is for, 0 if there is none: the first *)
(* that has its onion and its keys, or else the first that has either.     *)
MatchOf(s, who) ==
    LET both   == {i \in DOMAIN s.contacts : s.contacts[i].who = who}
        either == {i \in DOMAIN s.contacts : \/ s.contacts[i].who.onion = who.onion
                                             \/ s.contacts[i].who.keys = who.keys}
    IN  IF both # {} THEN Min(both) ELSE IF either # {} THEN Min(either) ELSE 0

(* What was compared was the old link.                                     *)
Relinked(c, who) == IF c.who = who THEN c ELSE [c EXCEPT !.who = who, !.compared = {}]

(* upsert_contact_from_link *)
(* Bug: a record keeps its verification whatever its keys become.          *)
UpsertKeepsTrust(s, who) ==
    LET i  == MatchOf(s, who)
        id == FreshContactId(s)
    IN  IF i = 0
        THEN [s EXCEPT !.contacts = Append(@, [id |-> id, who |-> who, compared |-> {}]),
                       !.verified = @ \ {id}]
        ELSE [s EXCEPT !.contacts[i] = Relinked(@, who)]

UpsertContactFromLink(s, who) ==
    LET i  == MatchOf(s, who)
        id == FreshContactId(s)
    IN  IF i = 0
        THEN [s EXCEPT !.contacts = Append(@, [id |-> id, who |-> who, compared |-> {}]),
                       !.verified = @ \ {id}]
        ELSE [s EXCEPT !.contacts[i] = Relinked(@, who),
                       !.verified = IF s.contacts[i].who = who
                                    THEN @ ELSE @ \ {s.contacts[i].id}]

(* Bug: an entry that is there stays.                                      *)
SetRatchetIfNone(s, id, keys) ==
    IF \E r \in s.ratchets : r.id = id THEN s
    ELSE [s EXCEPT !.ratchets = @ \cup {[id |-> id, peer |-> keys]}]

SetRatchet(s, id, keys) ==
    [s EXCEPT !.ratchets = {r \in @ : r.id # id} \cup {[id |-> id, peer |-> keys]}]

(* delete_contact_secure *)
DeleteContactSecure(s, id) ==
    LET i == CHOOSE i \in DOMAIN s.contacts : s.contacts[i].id = id
    IN  [s EXCEPT !.contacts = RemoveAt(@, i),
                  !.ratchets = {r \in @ : r.id # id},
                  !.blocked = @ \ {id}, !.muted = @ \ {id}, !.verified = @ \ {id}]

(* PendingInvites::purge_expired *)
PurgeExpired(s) == [s EXCEPT !.invites = {e \in @ : time < e.expires}]

----------------------------------------------------------------------------
Init ==
    /\ mem = NoSession /\ disk = NoSession
    /\ unlocked = TRUE /\ selected = 0 /\ staged = 0 /\ installing = {}
    /\ time = 0 /\ shown = {} /\ closed = {} /\ mixed = FALSE
    /\ mishaps = 0

Free == unlocked /\ installing = {}
AtPrompt == Free /\ staged = 0          \* no confirmation is open

----------------------------------------------------------------------------
(* Links and invites *)

(* install_contact: the contact is there with a fresh ratchet, and         *)
(* selected if it could be saved.                                          *)
InstallContact(who) ==
    LET i == MatchOf(mem, who)
        at == IF i = 0 THEN Len(mem.contacts) + 1 ELSE i
        s == UpsertContactFromLink(mem, who)
    IN  /\ mem' = SetRatchet(s, s.contacts[at].id, who.keys)
        /\ \/ disk' = ForDisk(mem') /\ selected' = at /\ UNCHANGED mishaps
           \/ Mishap /\ UNCHANGED <<disk, selected>>

(* add_contact_link with a contact link that is read and bound (see Links) *)
AddContact(who) ==
    /\ AtPrompt
    /\ InstallContact(who)
    /\ UNCHANGED <<unlocked, staged, installing, time, history>>

(* redeem_invite: the link of a peer's invite.  Its reply goes into the    *)
(* queue (see Outbox).                                                     *)
RedeemInvite(invite) ==
    /\ AtPrompt
    /\ \E who \in BoundContact(ParseInvite({invite}, time)) : InstallContact(who)
    /\ UNCHANGED <<unlocked, staged, installing, time, history>>

(* PendingInvites::issue, {} if it is refused. *)
Issue(s, i, ttl) ==
    LET left == PurgeExpired(s)
    IN  IF ttl \in 1 .. MAX_INVITE_TTL_SECS /\ Cardinality(left.invites) < MAX_PENDING_INVITES
        THEN {[left EXCEPT !.invites = @ \cup {[id |-> i, expires |-> time + ttl]}]}
        ELSE {}

(* handle_invite.  The link is shown if the ledger could be saved; if not, *)
(* the invite stays open in memory.                                        *)
IssueInvite(i, ttl) ==
    /\ AtPrompt /\ ~mem.extreme
    /\ i \notin shown \cup closed \cup {e.id : e \in mem.invites \cup disk.invites}
    /\ mem' \in Issue(mem, i, ttl)
    /\ \/ disk' = ForDisk(mem') /\ shown' = shown \cup {i} /\ UNCHANGED mishaps
       \/ Mishap /\ UNCHANGED <<disk, shown>>
    /\ UNCHANGED <<ui, installing, time, closed, mixed>>

(* :invite count; nothing is saved.                                        *)
CountInvites ==
    /\ AtPrompt /\ ~mem.extreme
    /\ mem' = PurgeExpired(mem)
    /\ UNCHANGED <<disk, ui, installing, time, history, mishaps>>

RevokeAll ==
    /\ AtPrompt /\ ~mem.extreme
    /\ mem' = [mem EXCEPT !.invites = {}]
    /\ PersistClosing(mem', {e.id : e \in mem.invites})
    /\ UNCHANGED <<ui, installing, time, shown, mixed>>

(* PendingInvites::redeem, and the save that follows before anything else. *)
(* The contact of a good reply is installed next.                          *)
Spend(s, e, reply) ==
    /\ mem' = [s EXCEPT !.invites = @ \ {e}]
    /\ PersistClosing(mem', {e.id})
    /\ installing' = IF time < e.expires THEN reply ELSE {}
    /\ UNCHANGED <<ui, time, shown, mixed>>

(* accept_invite_reply.  `reply` is what AcceptReply of Links makes of it. *)
AcceptInviteReply(e, reply) ==
    /\ AtPrompt
    /\ Spend(mem, e, reply)

(* try_invite_hello, whatever screen is open: a frame opens one of the     *)
(* invites ...                                                             *)
InviteHello(e, reply) ==
    /\ Free /\ time < e.expires
    /\ Spend(PurgeExpired(mem), e, reply)

(* ... or none, and then a purged ledger is saved.                         *)
OtherFrame ==
    /\ Free /\ mem.invites # {}
    /\ mem' = PurgeExpired(mem)
    /\ IF mem' = mem THEN UNCHANGED <<disk, mishaps>> ELSE Persist(mem')
    /\ UNCHANGED <<ui, installing, time, history>>

InstallAccepted ==
    /\ \E who \in installing : InstallContact(who)
    /\ installing' = {}
    /\ UNCHANGED <<unlocked, staged, time, history>>

----------------------------------------------------------------------------
(* The user's commands about a contact *)

(* What the user may call a contact: an id or its first digits, an onion,  *)
(* a SAS.  (Display names, which are looked up like a SAS, are left out.)  *)
Tokens(s) ==
    [by : {"id"}, is : 1 .. Max({0} \cup Ids(s))]
    \cup {[by |-> "onion", is |-> c.who.onion] : c \in Range(s.contacts)}
    \cup {[by |-> "sas", is |-> c.who] : c \in Range(s.contacts)}

Begins(id, token) == token.by = "id" /\ \E k \in 0 .. id : id \div Radix^k = token.is

(* resolve_deny_token: the id it stands for, none if it is not clear.      *)
ResolveDenyToken(s, token) ==
    LET exact  == {id \in Ids(s) : token.by = "id" /\ id = token.is}
        at     == {i \in DOMAIN s.contacts :
                     token.by = "onion" /\ s.contacts[i].who.onion = token.is}
        begins == {c.id : c \in {c \in Range(s.contacts) :
                                    Begins(c.id, token) \/ (token.by = "sas" /\ c.who = token.is)}}
    IN  CASE exact # {} -> exact
          [] exact = {} /\ at # {} -> {s.contacts[Min(at)].id}
          [] OTHER -> IF Cardinality(begins) = 1 THEN begins ELSE {}

(* The contacts a command is about: the one named, or else the selected.   *)
Named == (UNION {ResolveDenyToken(mem, token) : token \in Tokens(mem)})
         \cup {mem.contacts[i].id : i \in {selected} \ {0}}

(* Every command saves, also if it changed nothing.                        *)
Command(s) ==
    /\ AtPrompt
    /\ mem' = s
    /\ Persist(s)
    /\ UNCHANGED <<ui, installing, time, history>>

(* The SAS is shown once more for the contact that is marked.              *)
Verify(id) ==
    LET i == CHOOSE i \in DOMAIN mem.contacts : mem.contacts[i].id = id
    IN  Command([mem EXCEPT !.verified = @ \cup {id},
                            !.contacts[i].compared = {mem.contacts[i].who}])

(* unverify, unblock and unmute take the named id off a list, and after it *)
(* the one id left on it that begins with the same digits.                 *)
TakeOff(list, token) ==
    LET rest   == list \ ResolveDenyToken(mem, token)
        others == {id \in rest : Begins(id, token)}
    IN  IF Cardinality(others) = 1 THEN rest \ others ELSE rest

Unverify(token) ==
    LET left == TakeOff(mem.verified, token)
    IN  /\ left # mem.verified
        /\ Command([mem EXCEPT !.verified = left,
                               !.contacts = [i \in DOMAIN @ |->
                                                IF @[i].id \in left THEN @[i]
                                                ELSE [@[i] EXCEPT !.compared = {}]]])

Unblock(token) ==
    LET left == TakeOff(mem.blocked, token)
    IN  left # mem.blocked /\ Command([mem EXCEPT !.blocked = left])

Unmute(token) ==
    LET left == TakeOff(mem.muted, token)
    IN  left # mem.muted /\ Command([mem EXCEPT !.muted = left])

Block(id) == Command([mem EXCEPT !.blocked = @ \cup {id}, !.muted = @ \ {id}])

Mute(id) == id \notin mem.blocked /\ Command([mem EXCEPT !.muted = @ \cup {id}])

Select(i) ==
    /\ AtPrompt /\ selected' = i
    /\ UNCHANGED <<mem, disk, unlocked, staged, installing, time, history, mishaps>>

(* :delete-contact opens the confirmation.                                 *)
StageDelete(id) ==
    /\ AtPrompt /\ staged' = id
    /\ UNCHANGED <<mem, disk, unlocked, selected, installing, time, history, mishaps>>

CancelDelete ==
    /\ Free /\ staged # 0 /\ staged' = 0
    /\ UNCHANGED <<mem, disk, unlocked, selected, installing, time, history, mishaps>>

(* fix_selection_after_contact_removal *)
(* Bug: the index is only cleared when it is the removed one.              *)
SelectionKept(removed) == IF selected = removed THEN 0 ELSE selected

SelectionAfterRemoval(removed) ==
    CASE selected = removed -> 0
      [] selected > removed -> selected - 1
      [] OTHER -> selected

(* handle_delete_contact_confirm *)
ConfirmDelete ==
    /\ Free /\ staged # 0 /\ staged' = 0
    /\ LET removed == CHOOSE i \in DOMAIN mem.contacts : mem.contacts[i].id = staged
       IN  selected' = SelectionAfterRemoval(removed)
    /\ mem' = DeleteContactSecure(mem, staged)
    /\ Persist(mem')
    /\ UNCHANGED <<unlocked, installing, time, history>>

(* send_text: commit_outgoing_with_key loads the session from the disk and *)
(* writes it back with the ratchet from memory, also when the contact was  *)
(* saved with other keys.  If that fails nothing has changed.              *)
SendText(i) ==
    LET c == mem.contacts[i]
    IN  /\ AtPrompt /\ selected = i
        /\ c.id \notin mem.blocked
        /\ c.id \in mem.verified \/ ~mem.extreme      \* :send-unverified
        /\ \E r \in mem.ratchets : r.id = c.id
                /\ disk' = ForDisk(SetRatchet(disk, c.id, r.peer))
        /\ mixed' = (mixed \/ \E d \in Range(disk.contacts) :
                                 d.id = c.id /\ d.who.keys # c.who.keys)
        /\ UNCHANGED <<mem, ui, installing, time, shown, closed, mishaps>>

----------------------------------------------------------------------------
(* Everything around it *)

(* :mode extreme and :mode standard *)
SwitchPosture == Command([mem EXCEPT !.extreme = ~@])

(* Any other save: preferences, sent and received frames.                  *)
SaveAnytime ==
    /\ Free /\ Persist(mem)
    /\ UNCHANGED <<mem, ui, installing, time, history>>

LoseMemory ==
    /\ unlocked' = FALSE /\ mem' = NoSession
    /\ selected' = 0 /\ staged' = 0 /\ installing' = {}
    /\ UNCHANGED <<time, history>>

LockUi == Free /\ Persist(mem) /\ LoseMemory

Crash == unlocked /\ Mishap /\ UNCHANGED disk /\ LoseMemory

(* The save that follows writes the same again.                            *)
Unlock ==
    /\ ~unlocked /\ unlocked' = TRUE
    /\ mem' = disk
    /\ selected' = IF disk.contacts = <<>> THEN 0 ELSE 1
    /\ UNCHANGED <<disk, staged, installing, time, history, mishaps>>

TimePasses ==
    /\ time < MaxTime /\ time' = time + 1
    /\ UNCHANGED <<mem, disk, ui, installing, history, mishaps>>

RepliedTo == [i \in Invites |-> Replied(i)]
GreetedWith == [i \in Invites |-> Greeted(Me, i)]

Next ==
    \/ \E who \in ContactsLinked : AddContact(who)
    \/ \E invite \in InvitesRead : RedeemInvite(invite)
    \/ \E i \in Invites, ttl \in Ttls : IssueInvite(i, ttl)
    \/ \E e \in {e \in mem.invites : e.id \in shown} :
            \/ \E reply \in RepliedTo[e.id] : AcceptInviteReply(e, reply)
            \/ \E reply \in GreetedWith[e.id] : InviteHello(e, reply)
    \/ CountInvites \/ RevokeAll \/ OtherFrame \/ InstallAccepted
    \/ \E i \in DOMAIN mem.contacts : Select(i) \/ SendText(i)
    \/ \E id \in Named : Verify(id) \/ Block(id) \/ Mute(id) \/ StageDelete(id)
    \/ \E token \in Tokens(mem) : Unverify(token) \/ Unblock(token) \/ Unmute(token)
    \/ CancelDelete \/ ConfirmDelete
    \/ SwitchPosture \/ SaveAnytime \/ LockUi \/ Crash \/ Unlock \/ TimePasses

Spec == Init /\ [][Next]_vars

----------------------------------------------------------------------------
(* Properties *)

Session == [contacts : Seq(Contact), verified : SUBSET Nat, blocked : SUBSET Nat,
            muted : SUBSET Nat, ratchets : SUBSET [id : Nat, peer : {w.keys : w \in Identities}],
            invites : SUBSET [id : Invites, expires : Nat], extreme : BOOLEAN]

(* Type invariant.  Ids are unique, the lists are about contacts that are  *)
(* there, and the invites fit.                                             *)
TypeOK ==
    /\ \A s \in {mem, disk} :
          /\ s \in Session
          /\ Cardinality(Ids(s)) = Len(s.contacts)
          /\ s.verified \cup s.blocked \cup s.muted \subseteq Ids(s)
          /\ s.blocked \cap s.muted = {}
          /\ Ids(s) \subseteq {r.id : r \in s.ratchets}
          /\ Cardinality(s.invites) <= MAX_PENDING_INVITES
    /\ unlocked \in BOOLEAN
    /\ selected \in 0 .. Len(mem.contacts) /\ staged \in {0} \cup Ids(mem)
    /\ installing \in {{}} \cup {{w} : w \in Owners}
    /\ time \in 0 .. MaxTime /\ mishaps \in 0 .. MaxMishaps
    /\ shown \subseteq Invites /\ closed \subseteq Invites /\ mixed \in BOOLEAN

(* Every contact in the book is at an onion whose service bound itself to  *)
(* the contact's keys (audit I-6), by whatever link, invite or reply it    *)
(* came.  And "neither trust nor a trusted name carries over to new keys": *)
(* one shown as verified has the onion and the keys the user compared,     *)
(* after any links, invites, deletions and crashes.                        *)
TrustIsEarned ==
    \A s \in {mem, disk} :
        /\ \A c \in Range(s.contacts) : c.who \in Owners
        /\ \A id \in s.verified :
              \E i \in DOMAIN s.contacts : /\ s.contacts[i].id = id
                                           /\ s.contacts[i].compared = {s.contacts[i].who}

(* A contact that is new does not come verified, blocked or muted, and     *)
(* changes nothing for the others.                                         *)
NewContactsStartClean ==
    [][Len(mem'.contacts) > Len(mem.contacts) /\ unlocked =>
         /\ Last(mem'.contacts).id \notin mem'.verified \cup mem'.blocked \cup mem'.muted
         /\ mem'.verified = mem.verified
         /\ mem.ratchets \subseteq mem'.ratchets]_vars

(* "Accepted once and never twice": an invite that was used or revoked     *)
(* starts no session afterwards, unless that could not be saved.           *)
ClosedInvitesStayClosed ==
    [][installing = {} /\ installing' # {} =>
         \A e \in mem.invites \ mem'.invites : time < e.expires => e.id \notin closed]_vars

(* Of the contact that was selected. *)
StillSelected(id) ==
    IF id \in Ids(mem')
    THEN selected' \in DOMAIN mem'.contacts /\ mem'.contacts[selected'].id = id
    ELSE selected' = 0

(* The line the user types goes to the contact that was selected: after a  *)
(* deletion it is still the selected one, or none is if it was deleted.    *)
SelectionStays ==
    [][Len(mem'.contacts) < Len(mem.contacts) /\ unlocked' /\ selected # 0 =>
         StillSelected(mem.contacts[selected].id)]_vars

(* The ratchet under a contact's id is with the keys of its record, in     *)
(* memory and on disk, whatever links replaced what and whatever crashes.  *)
(* It fails for good once a save of new keys failed and a line was sent    *)
(* under them: then the old record has the new keys' ratchet on disk.      *)
SessionsFitContacts ==
    ~mixed => \A s \in {mem, disk} : \A c \in Range(s.contacts), r \in s.ratchets :
                  r.id = c.id => r.peer = c.who.keys

============================================================================
