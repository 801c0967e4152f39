----------------------------- MODULE AndroidChat -----------------------------
(***************************************************************************)
(* The chat of the Android app: the transcript Rust keeps (MessageBook),   *)
(* the decoy screen (ProfileSlot), the inbound voice queue, and the calls  *)
(* the Kotlin activity makes on them over its life: start, pause, resume,  *)
(* recreation in the same process, and death of the process.  Everything   *)
(* but `savedBook`, the file messages.enc, is memory of the process.       *)
(*                                                                         *)
(* A line has the id the book gave it, the time it disappears, and marks   *)
(* the code does not keep: how many panic wipes came before it was put in  *)
(* the book and whether the decoy screen was up, and the same of its text, *)
(* which is older when the line is a delayed answer to an earlier one.     *)
(***************************************************************************)
EXTENDS Integers, FiniteSets, Sequences, SequencesExt, DevicePosture

CONSTANTS
    Builds,                \* values of the build flag EXTREME_MODE, in BOOLEAN
    Conditions,            \* the conditions the device may be found in, by name
    MAX_MESSAGES,          \* lines kept
    MAX_VOICE_CHUNKS,      \* chunks the voice queue holds
    MaxMade,               \* bound on lines made
    MaxNow,                \* bound on the clock
    Null,                  \* no parked transcript; no file
    Torn                   \* a file whose write stopped half way

Never == 0
(* When a text was made, counted in wipes, and on which screen.            *)
Origin == [epoch : Nat, onDecoy : BOOLEAN]
LineRecord == [id : Nat \ {0}, epoch : Nat, exp : Nat, onDecoy : BOOLEAN, text : Origin]

ASSUME ChatAssumption ==
    /\ Builds \subseteq BOOLEAN /\ Builds # {}
    /\ \A c \in DOMAIN Conditions : Conditions[c] \in Devices
    /\ MAX_MESSAGES \in Nat \ {0} /\ MAX_VOICE_CHUNKS \in Nat \ {0}
    /\ MaxMade \in Nat /\ MaxNow \in Nat
    /\ Null # Torn /\ {Null, Torn} \cap Seq(LineRecord) = {}

VARIABLES
    extreme,               \* the build
    condition,             \* the condition it is in
    now,                   \* unix_now
    activity,              \* "dead" (no process), "gone", "shown", "paused", "closing"
    book,                  \* MESSAGE_BOOK
    decoy,                 \* PROFILE_SLOT shows the decoy screen
    ttl,                   \* disappearTtlSecs
    voiceQueue,            \* VOICE_QUEUE
    answers,               \* texts whose answer is on its way to the UI thread
    savedBook,             \* messages.enc: Null, Torn or the lines in it
    made,                  \* lines made so far
    wipes,                 \* panic wipes so far
    screenLost,            \* a parked transcript was dropped by anything but a wipe
    crossing               \* an answer was on its way over a wipe or out of the decoy screen

memory == <<book, decoy, ttl, voiceQueue, answers>>
marks == <<screenLost, crossing>>
chatVars == <<extreme, condition, now, activity, memory, savedBook, made, wipes, marks>>

(* The conditions in which each gate opens.                                *)
StrictConditions == {c \in DOMAIN Conditions : IsStrictModeEnabled(Conditions[c])}
VoiceConditions == {c \in DOMAIN Conditions : VoiceAllowed(Conditions[c])}

clean == condition \in StrictConditions
Running == activity # "dead"
Shown == activity = "shown"

----------------------------------------------------------------------------
(* MessageBook.                                                            *)
NewBook == [entries |-> <<>>, held |-> Null, next |-> 1, ephemeral |-> FALSE]

(* purge_expired on one list of lines, from its first to its last.         *)
Unexpired(lines) ==
    LET kept[n \in 0 .. Len(lines)] ==
            IF n = 0 THEN <<>>
            ELSE IF lines[n].exp = Never \/ now < lines[n].exp
                 THEN Append(kept[n - 1], lines[n]) ELSE kept[n - 1]
    IN  kept[Len(lines)]

Here(onDecoy) == [epoch |-> wipes, onDecoy |-> onDecoy]

Add(b, life, onDecoy, text) ==
    LET line == [id |-> b.next, epoch |-> wipes, onDecoy |-> onDecoy, text |-> text,
                 exp |-> IF life = 0 THEN Never ELSE now + life]
        full == Append(b.entries, line)
    IN  [b EXCEPT !.next = @ + 1,
                  !.entries = IF Len(full) > MAX_MESSAGES THEN Tail(full) ELSE full]

(* Bug: a clear that leaves a parked transcript. *)
ClearScreen(b) == [b EXCEPT !.entries = <<>>]

Clear(b) == [b EXCEPT !.entries = <<>>, !.held = Null]

Park(b) == [b EXCEPT !.held = IF @ = Null THEN b.entries ELSE @, !.entries = <<>>]

Unpark(b) == IF b.held = Null THEN b
             ELSE [b EXCEPT !.entries = b.held, !.held = Null]

PurgeExpired(b) ==
    [b EXCEPT !.entries = Unexpired(@), !.held = IF @ = Null THEN Null ELSE Unexpired(@)]

(* Bug: an export of what the screen shows. *)
ShownEntries(b) == b.entries

PersistedEntries(b) == IF b.held = Null THEN b.entries ELSE b.held

Export(b) == IF b.ephemeral THEN <<>> ELSE PersistedEntries(b)

Ids(lines) == {lines[i].id : i \in DOMAIN lines}

Loadable(file) ==
    /\ file \notin {Null, Torn} /\ Len(file) <= MAX_MESSAGES
    /\ \A i, j \in DOMAIN file : i # j => file[i].id # file[j].id

(* Bug: the next id by the number of lines. *)
NextIdByCount(file) == Len(file) + 1

NextIdAfter(file) ==
    IF file = <<>> THEN 1 ELSE 1 + (CHOOSE m \in Ids(file) : \A k \in Ids(file) : k <= m)

Load(b, file) ==
    [b EXCEPT !.entries = Unexpired(file), !.held = Null, !.next = NextIdAfter(file)]

(* addMessage of the shell: add, then refreshMessagesFromRust purges.      *)
AddMessage(b, onDecoy, text) == PurgeExpired(Add(b, ttl, onDecoy, text))
MakeOne == made < MaxMade /\ made' = made + 1
----------------------------------------------------------------------------
(* A line of this moment, on the screen that is up.                        *)
AddNewLine == MakeOne /\ book' = AddMessage(book, decoy, Here(decoy))
Answered == answers' = answers \cup {Here(decoy)}

(* The send button; the answer, the text decrypted again, follows 900 ms   *)
(* later.                                                                  *)
Send ==
    /\ Shown /\ AddNewLine /\ Answered
    /\ UNCHANGED <<extreme, condition, now, activity, decoy, ttl, voiceQueue, savedBook, marks>>

(* The second press of the voice button: the recording becomes a line, its *)
(* answer follows 1100 ms later; the first press asked the same gates.     *)
SendVoice ==
    /\ Shown /\ ~extreme /\ condition \in VoiceConditions
    /\ AddNewLine /\ Answered
    /\ UNCHANGED <<extreme, condition, now, activity, decoy, ttl, voiceQueue, savedBook, marks>>

(* A line the background thread makes and posts to the UI thread.  It      *)
(* comes whatever became of the activity.                                  *)
PostedLine ==
    /\ Running /\ AddNewLine
    /\ UNCHANGED <<extreme, condition, now, activity, decoy, ttl, voiceQueue, answers,
                   savedBook, marks>>

(* So does an answer: to a line sent, or the line of a voice chunk that a  *)
(* voice thread took.  It goes into the book as it is then.  Of how many   *)
(* answers to texts of one origin are on their way, the set keeps only     *)
(* whether there may be one.                                               *)
Answer ==
    /\ Running /\ MakeOne
    /\ \E text \in answers :
           /\ book' = AddMessage(book, decoy, text)
           /\ answers' \in {answers, answers \ {text}}
    /\ UNCHANGED <<extreme, condition, now, activity, decoy, ttl, voiceQueue, savedBook, marks>>

(* pushReceivedVoiceChunk: Extreme and a full queue drop the chunk.        *)
PushVoiceChunk ==
    /\ Running /\ ~extreme /\ Len(voiceQueue) < MAX_VOICE_CHUNKS
    /\ voiceQueue' = Append(voiceQueue, wipes)
    /\ UNCHANGED <<extreme, condition, now, activity, book, decoy, ttl, answers,
                   savedBook, made, marks>>

(* A voice thread takes a chunk.  It posts a line for it, unless the chunk *)
(* cannot be processed.                                                    *)
TakeVoiceChunk ==
    /\ Running /\ voiceQueue # <<>> /\ voiceQueue' = Tail(voiceQueue)
    /\ LET text == [epoch |-> Head(voiceQueue), onDecoy |-> FALSE]
       IN  answers' \in {answers, answers \cup {text}}
    /\ UNCHANGED <<extreme, condition, now, activity, book, decoy, ttl, savedBook, made, marks>>

----------------------------------------------------------------------------
(* The actions menu.                                                       *)
SetDisappearing ==
    /\ Shown /\ ttl' = 1 - ttl
    /\ UNCHANGED <<extreme, condition, now, activity, book, decoy, voiceQueue, answers,
                   savedBook, made, marks>>

(* "Delete chat": the book, a parked transcript with it, and the file.     *)
ClearMessages ==
    /\ Shown /\ book' = Clear(book) /\ savedBook' = Null
    /\ screenLost' = (screenLost \/ book.held # Null)
    /\ UNCHANGED <<extreme, condition, now, activity, decoy, ttl, voiceQueue, answers, made, crossing>>

(* onToggleDecoyProfile.  A bad environment refuses the way in only.       *)
EnterDecoy ==
    /\ Shown /\ ~extreme /\ ~decoy /\ clean /\ MakeOne
    /\ decoy' = TRUE
    /\ UNCHANGED <<extreme, condition, now, activity, ttl, voiceQueue, answers, savedBook, marks>>
    /\ book' = AddMessage(Park(book), TRUE, Here(TRUE))

LeaveDecoy ==
    /\ Shown /\ ~extreme /\ decoy /\ MakeOne
    /\ decoy' = FALSE
    /\ crossing' = (crossing \/ \E text \in answers : text.onDecoy)
    /\ UNCHANGED <<extreme, condition, now, activity, ttl, voiceQueue, answers, savedBook,
                   screenLost>>
    /\ book' = AddMessage(Unpark(book), FALSE, Here(FALSE))

----------------------------------------------------------------------------
(* The activity's life.                                                    *)

(* persistMessages: in a clean environment nothing is kept on disk.        *)
PersistMessages(outcome) ==
    IF extreme \/ clean
    THEN /\ book' = [book EXCEPT !.ephemeral = TRUE]
         /\ savedBook' = Null
    ELSE /\ savedBook' = CASE outcome = "saved" -> Export(book)
                           [] outcome = "refused" -> savedBook
                           [] outcome = "torn" -> Torn
         /\ UNCHANGED book

OnPause ==
    /\ activity \in {"shown", "closing"}
    /\ \E outcome \in {"saved", "refused", "torn"} : PersistMessages(outcome)
    /\ activity' = IF activity = "shown" THEN "paused" ELSE "gone"
    /\ UNCHANGED <<extreme, condition, now, decoy, ttl, voiceQueue, answers, made, marks>>

OnResume ==
    /\ activity = "paused" /\ activity' = "shown"
    /\ UNCHANGED <<extreme, condition, now, memory, savedBook, made, marks>>

(* The system destroys a paused activity and leaves the process running.   *)
OnDestroy ==
    /\ activity = "paused" /\ activity' = "gone"
    /\ UNCHANGED <<extreme, condition, now, memory, savedBook, made, marks>>

(* onCreate, in a new process or in one an earlier activity left; its two  *)
(* opening lines are one line here.  profileConfigure finds the flag that  *)
(* the build has always had, so it never drops a decoy screen.             *)
OnCreate ==
    /\ activity \in {"dead", "gone"} /\ activity' = "shown" /\ MakeOne
    /\ ttl' = 0
    /\ UNCHANGED <<extreme, condition, now, decoy, voiceQueue, answers, savedBook, crossing>>
    /\ LET ready == [book EXCEPT !.ephemeral = extreme \/ clean]
           loaded == IF Loadable(savedBook) THEN Load(ready, savedBook) ELSE ready
       IN  /\ book' = PurgeExpired(Add(PurgeExpired(loaded), 0, decoy, Here(decoy)))
           /\ screenLost' = (screenLost \/ (decoy /\ book.held # Null /\ Loadable(savedBook)))

ChatForgotten ==
    /\ book' = NewBook /\ decoy' = FALSE /\ ttl' = 0
    /\ voiceQueue' = <<>> /\ answers' = {}

(* wipeAll of the shell; finish() then pauses the activity.  The threads   *)
(* and what they posted go on, and so does every answer on its way.        *)
ChatWiped ==
    /\ Shown /\ activity' = "closing"
    /\ book' = Clear(book) /\ decoy' = FALSE /\ voiceQueue' = <<>>
    /\ savedBook' = Null /\ screenLost' = FALSE /\ crossing' = (answers # {})
    /\ wipes' = wipes + 1
    /\ UNCHANGED <<extreme, condition, now, ttl, answers, made>>

----------------------------------------------------------------------------
(* A debugger comes, airplane mode, a file of a rooting tool; or goes.      *)
EnvironmentChanges ==
    /\ condition' \in DOMAIN Conditions \ {condition}
    /\ UNCHANGED <<extreme, now, activity, memory, savedBook, made, marks>>

Tick ==
    /\ now < MaxNow /\ now' = now + 1
    /\ UNCHANGED <<extreme, condition, activity, memory, savedBook, made, marks>>

ChatInit ==
    /\ extreme \in Builds /\ condition \in DOMAIN Conditions
    /\ now = 0 /\ activity = "dead"
    /\ book = NewBook /\ decoy = FALSE /\ ttl = 0
    /\ voiceQueue = <<>> /\ answers = {}
    /\ savedBook = Null /\ made = 0 /\ wipes = 0
    /\ screenLost = FALSE /\ crossing = FALSE
============================================================================
