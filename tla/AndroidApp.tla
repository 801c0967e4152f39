----------------------------- MODULE AndroidApp ------------------------------
(***************************************************************************)
(* The Android app: the chat and the groups of one process, the panic wipe *)
(* and the death of the process, which touch both, and what the posture    *)
(* allows.  All of it runs on the UI thread but the voice threads, which   *)
(* only take a chunk and post what they show.                              *)
(***************************************************************************)
EXTENDS AndroidChat, AndroidGroups

CONSTANTS
    MaxWipes,              \* bound on panic wipes
    MaxBesides             \* bound on lines and ticks while the groups are in use

VARIABLE keysBefore        \* how many keys the last wipe found made

vars == <<chatVars, groupVars, keysBefore>>

(* persistGroups refuses in an Extreme build and in a clean environment;   *)
(* "Add member" refuses in an Extreme build and in a bad one.              *)
GroupsMayBeSaved == ~(extreme \/ clean)
MayAddMember == ~extreme /\ clean

----------------------------------------------------------------------------
InBounds == groups' # NoGroups \/ inGroupMode' \/ keysMade' > 0 => made' + now' <= MaxBesides

ChatOnly(step) ==
    ~saving /\ step /\ UNCHANGED <<wipes, groupVars, keysBefore>> /\ InBounds

GroupsOnly(step) ==
    Shown /\ step /\ UNCHANGED <<chatVars, keysBefore>> /\ InBounds

(* A new activity; in a new process the groups are empty.                  *)
ActivityStarts ==
    OnCreate /\ GroupScreenGone /\ InBounds /\ UNCHANGED <<wipes, keysBefore>>

PanicWipe ==
    /\ ChatWiped /\ GroupsWiped
    /\ wipes < MaxWipes
    /\ keysBefore' = keysMade

ProcessDies ==
    /\ Running /\ activity' = "dead"
    /\ ChatForgotten /\ GroupsForgotten
    /\ UNCHANGED <<extreme, condition, now, savedBook, made, wipes, marks, keysBefore>>

Init ==
    ChatInit /\ GroupsInit /\ keysBefore = 0

Next ==
    \/ ChatOnly(Send) \/ ChatOnly(SendVoice) \/ ChatOnly(PostedLine)
    \/ ChatOnly(Answer)
    \/ ChatOnly(PushVoiceChunk) \/ ChatOnly(TakeVoiceChunk)
    \/ ChatOnly(SetDisappearing) \/ ChatOnly(ClearMessages)
    \/ ChatOnly(EnterDecoy) \/ ChatOnly(LeaveDecoy)
    \/ ChatOnly(OnPause) \/ ChatOnly(OnResume) \/ ChatOnly(OnDestroy)
    \/ ChatOnly(EnvironmentChanges) \/ ChatOnly(Tick)
    \/ GroupsOnly(ToggleGroups) \/ GroupsOnly(SaveKeys)
    \/ \E g \in DOMAIN groups :
           \/ MayAddMember /\ GroupsOnly(AddMember(g, GroupsMayBeSaved))
           \/ ~extreme /\ GroupsOnly(RemoveMember(g, GroupsMayBeSaved))
           \/ ~extreme /\ GroupsOnly(LeaveGroup(g, GroupsMayBeSaved))
    \/ ActivityStarts \/ PanicWipe \/ ProcessDies

Spec == Init /\ [][Next]_vars

----------------------------------------------------------------------------
Lines(s) == {s[i] : i \in DOMAIN s}
BookLines == Lines(book.entries) \cup (IF book.held = Null THEN {} ELSE Lines(book.held))
SavedLines == IF savedBook \in {Null, Torn} THEN {} ELSE Lines(savedBook)

(* Types of the book, the files and the group state.                       *)
TypeOK ==
    /\ extreme \in BOOLEAN /\ condition \in DOMAIN Conditions /\ decoy \in BOOLEAN
    /\ activity \in {"dead", "gone", "shown", "paused", "closing"}
    /\ BookLines \cup SavedLines \subseteq LineRecord
    /\ book.next \in Nat \ {0} /\ book.ephemeral \in BOOLEAN
    /\ ttl \in {0, 1} /\ made \in 0 .. MaxMade /\ now \in 0 .. MaxNow
    /\ Len(voiceQueue) <= MAX_VOICE_CHUNKS /\ Len(book.entries) <= MAX_MESSAGES
    /\ DOMAIN groups \subseteq Groups
    /\ \A g \in DOMAIN groups : \A m \in groups[g] : m \in [slot : Nat, key : 0 .. MaxKeys]
    /\ extreme => ~decoy /\ voiceQueue = <<>>
    /\ answers \subseteq Origin

(* What messages.enc holds can always be read back: its ids differ, across *)
(* parking, eviction, expiry, restarts, and ids given after a reload.      *)
SavedBookLoads == savedBook \notin {Null, Torn} => Loadable(savedBook)

(* No line, waiting chunk, member or key of before a panic wipe is in      *)
(* memory or in a file after it, though the activity saves once more on    *)
(* its way out and the threads go on.  An answer that was on its way at    *)
(* the wipe brings its text back (MainActivity.kt:319), which the dialog   *)
(* denies ("Destroy ALL keys, messages, ratchets?", :580): without one, no *)
(* text of before is there either.                                         *)
WipeForgets ==
    /\ \A e \in BookLines \cup SavedLines :
           e.epoch = wipes /\ (crossing \/ e.text.epoch = wipes)
    /\ \A i \in DOMAIN voiceQueue : voiceQueue[i] = wipes
    /\ wipes > 0 => /\ \A k \in Lines(keys) \cup KeysOf(groups) : k > keysBefore
                    /\ savedKeys # NoFile => \A k \in Lines(savedKeys) : k > keysBefore
                    /\ savedGroups # NoFile => \A k \in KeysOf(savedGroups) : k > keysBefore

(* Lines of the decoy screen never reach messages.enc (the promise of      *)
(* `park`), then or after it is left or the process restarts, unless       *)
(* "Delete chat" or a new activity dropped the transcript parked behind it.*)
(* Nor do their texts, unless an answer was on its way as it was left.     *)
DecoyNotSaved ==
    ~screenLost => \A e \in SavedLines : ~e.onDecoy /\ (crossing \/ ~e.text.onDecoy)

(* As long as no save was cut, no file unreadable and no store too large   *)
(* for its file, the slot of every member holds the key made for it.       *)
MembersKeepTheirKeys ==
    ~mishap => \A g \in DOMAIN groups : \A m \in groups[g] :
        m.key # Legacy => m.slot < Len(keys) /\ keys[m.slot + 1] = m.key
============================================================================
