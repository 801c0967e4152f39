---------------------------- MODULE AndroidGroups ----------------------------
(***************************************************************************)
(* Groups of the Android app.  A group lists its members by the slot of    *)
(* their sender key in a store kept apart; the two are saved in two files, *)
(* groups.enc and group_sender_keys.enc, one write after the other, and    *)
(* both are read again, over memory, whenever the group screen is toggled. *)
(* A member also carries the key that was made for it, which the code      *)
(* knows only by the slot; Legacy marks members of files written by        *)
(* earlier builds, which had no key store.  What the app's posture and     *)
(* activity allow is given to the actions by AndroidApp.                   *)
(***************************************************************************)
EXTENDS Integers, FiniteSets, Sequences

CONSTANTS
    Groups,                \* names of groups
    MAX_MEMBERS_PER_GROUP, \* members of one group
    GSK_BOOK_MAX,          \* keys a saved store may hold
    MaxKeys,               \* bound on keys made
    NoFile                 \* the file is not there

Member == [slot : Nat, key : Nat]

ASSUME GroupsAssumption ==
    /\ MAX_MEMBERS_PER_GROUP \in Nat /\ GSK_BOOK_MAX \in Nat /\ MaxKeys \in Nat
    /\ NoFile \notin Seq(Nat) /\ \A G \in SUBSET Groups : NoFile \notin [G -> SUBSET Member]

VARIABLES
    groups,                \* GROUP_BOOK: the groups and their members
    keys,                  \* ANDROID_GROUP_SENDER_KEY_STORE, slot s at index s + 1
    inGroupMode,           \* the group screen is up
    saving,                \* groups.enc is written, the key file is next
    savedGroups,           \* groups.enc: NoFile or a group list
    savedKeys,             \* group_sender_keys.enc: NoFile or a store
    keysMade,              \* keys made so far
    mishap                 \* a save was cut, a file unreadable, or a store too large

groupMemory == <<groups, keys, inGroupMode, saving>>
groupVars == <<groupMemory, savedGroups, savedKeys, keysMade, mishap>>

Legacy == 0
NoGroups == [g \in {} |-> {}]
SlotsOf(members) == {m.slot : m \in members}
KeysOf(book) == {m.key : m \in UNION {book[g] : g \in DOMAIN book}}

----------------------------------------------------------------------------
(* The key store: a new key gets the next slot; a store too large to       *)
(* encode is exported as nothing.                                          *)
CreateGroupSenderKey(store, key) == Append(store, key)
ExportKeys(store) == IF Len(store) > GSK_BOOK_MAX THEN NoFile ELSE store

(* GroupBook.  add_member refuses a slot the group lists already.          *)
HasRoomFor(members, slot) ==
    slot \notin SlotsOf(members) /\ Cardinality(members) < MAX_MEMBERS_PER_GROUP
RemoveGroup(book, g) == [h \in DOMAIN book \ {g} |-> book[h]]

----------------------------------------------------------------------------
(* persistGroups: groups first; SaveKeys is its second half.               *)
StartSave(mayWrite) ==
    /\ saving' = mayWrite
    /\ savedGroups' = IF mayWrite THEN groups' ELSE savedGroups

(* When nothing is exported the shell deletes the key file.                *)
SaveKeys ==
    /\ saving /\ saving' = FALSE
    /\ savedKeys' = ExportKeys(keys)
    /\ mishap' = (mishap \/ ExportKeys(keys) = NoFile)
    /\ UNCHANGED <<groups, keys, inGroupMode, savedGroups, keysMade>>

(* groupSenderKeyBookLoad, and the clear that follows a refusal.           *)
KeysAfterLoad(file, readable) ==
    CASE file = NoFile -> keys
      [] file # NoFile /\ readable -> file
      [] file # NoFile /\ ~readable -> <<>>

(* onShowGroupMembers reads the files first.  A group list that cannot be  *)
(* read leaves the old one; a key store that cannot be read clears the     *)
(* keys.                                                                   *)
ToggleGroups ==
    /\ ~saving /\ inGroupMode' = ~inGroupMode
    /\ \E groupsRead \in IF savedGroups = NoFile THEN {TRUE} ELSE BOOLEAN,
          keysRead \in IF savedKeys = NoFile THEN {TRUE} ELSE BOOLEAN :
           /\ groups' = IF savedGroups = NoFile \/ ~groupsRead THEN groups ELSE savedGroups
           /\ keys' = KeysAfterLoad(savedKeys, keysRead)
           /\ mishap' = (mishap \/ ~groupsRead \/ ~keysRead)
    /\ UNCHANGED <<saving, savedGroups, savedKeys, keysMade>>

(* "Add member": a key in a new slot, then the slot into the group.  When  *)
(* the group refuses it, the key stays where it is.                        *)
AddMember(g, mayWrite) ==
    /\ inGroupMode /\ ~saving /\ keysMade < MaxKeys
    /\ keysMade' = keysMade + 1
    /\ keys' = CreateGroupSenderKey(keys, keysMade')
    /\ LET slot == Len(keys)
           room == HasRoomFor(groups[g], slot)
       IN  \/ /\ room
              /\ groups' = [groups EXCEPT ![g] = @ \cup {[slot |-> slot, key |-> keysMade']}]
              /\ StartSave(mayWrite)
           \/ ~room /\ UNCHANGED <<groups, saving, savedGroups>>
    /\ UNCHANGED <<inGroupMode, savedKeys, mishap>>

(* Bug: a removal that takes the key out of the store. *)
RemoveMemberAndKey(g, mayWrite) ==
    /\ inGroupMode /\ ~saving
    /\ \E m \in groups[g] :
           /\ groups' = [groups EXCEPT ![g] = @ \ {m}]
           /\ keys' = SelectSeq(keys, LAMBDA k : k # m.key)
    /\ StartSave(mayWrite)
    /\ UNCHANGED <<inGroupMode, savedKeys, keysMade, mishap>>

(* "Remove member": out of the group; its key keeps its slot.              *)
RemoveMember(g, mayWrite) ==
    /\ inGroupMode /\ ~saving
    /\ \E m \in groups[g] : groups' = [groups EXCEPT ![g] = @ \ {m}]
    /\ StartSave(mayWrite)
    /\ UNCHANGED <<keys, inGroupMode, savedKeys, keysMade, mishap>>

LeaveGroup(g, mayWrite) ==
    /\ inGroupMode /\ ~saving /\ inGroupMode' = FALSE
    /\ groups' = RemoveGroup(groups, g)
    /\ StartSave(mayWrite)
    /\ UNCHANGED <<keys, savedKeys, keysMade, mishap>>

(* The process dies; between the two files it leaves them apart.           *)
GroupsForgotten ==
    /\ groups' = NoGroups /\ keys' = <<>> /\ inGroupMode' = FALSE /\ saving' = FALSE
    /\ mishap' = (mishap \/ saving)
    /\ UNCHANGED <<savedGroups, savedKeys, keysMade>>

(* The wipe: both stores and both files.                                   *)
GroupsWiped ==
    /\ ~saving
    /\ groups' = NoGroups /\ keys' = <<>> /\ inGroupMode' = FALSE
    /\ savedGroups' = NoFile /\ savedKeys' = NoFile
    /\ UNCHANGED <<saving, keysMade, mishap>>

(* A new activity starts outside the group screen.                         *)
GroupScreenGone ==
    /\ ~saving /\ inGroupMode' = FALSE
    /\ UNCHANGED <<groups, keys, saving, savedGroups, savedKeys, keysMade, mishap>>

(* An earlier build may have left its groups, empty or with a member of    *)
(* its own, and no key file.                                               *)
GroupsInit ==
    /\ groups = NoGroups /\ keys = <<>> /\ inGroupMode = FALSE /\ saving = FALSE
    /\ savedGroups \in {NoFile} \cup
           {[g \in Groups |-> members] : members \in {{}, {[slot |-> 0, key |-> Legacy]}}}
    /\ savedKeys = NoFile
    /\ keysMade = 0 /\ mishap = FALSE
============================================================================
