------------------------------ MODULE UnlockGuard ------------------------------
(***************************************************************************)
(* The files that guard state.enc and the paths that read them: the count  *)
(* of failed unlocks (failwipe), the duress verifier, the dead-man switch, *)
(* the unlock prompt of the TUI with its cooldown, and the wipe.  The      *)
(* process may die between the count and the check of a passphrase, and in *)
(* the middle of a wipe.                                                   *)
(*                                                                         *)
(* An Option is the empty set or a singleton.  A damaged file is one whose *)
(* limit, or number of days, is out of range.                              *)
(***************************************************************************)
EXTENDS Integers, Sequences

CONSTANTS
    FailLimits,       \* the limits :wipe-after may set
    DeadmanDays,      \* the days :deadman may set
    FAIL_THRESHOLD,   \* UnlockBackoffPolicy::fail_threshold
    MaxTime,          \* bound: days that pass
    MaxBack,          \* bound: days the clock may read too early
    MaxMishaps        \* bound: crashes, failed writes, damaged files

ASSUME RangesAreNat ==
    /\ FailLimits \subseteq Nat \ {0}
    /\ DeadmanDays \subseteq Nat \ {0}
    /\ FAIL_THRESHOLD \in Nat \ {0}
    /\ {MaxTime, MaxBack, MaxMishaps} \subseteq Nat

VARIABLES
    store,       \* what state.enc holds: none, the user's own profile, a decoy
    failwipe,    \* Option<FailWipeConfig>
    duress,      \* Option<DuressAction>, behind the duress passphrase
    deadman,     \* Option<DeadmanConfig>
    time, back,  \* days passed; how far the clock reads behind
    screen,      \* off, unlock (the prompt), main (a session is open)
    createMode,  \* unlock_mode_create
    opener,      \* the passphrase that opened the session
    failures,    \* unlock_fail_count, up to FAIL_THRESHOLD
    cooling,     \* unlock_cooldown_until lies ahead
    attempt,     \* Option: the passphrase being checked
    wiping,      \* what the wipe under way still has to remove
    afterWipe,   \* where the wipe returns to
    wrong,       \* wrong passphrases checked against this store under the limit
    tries,       \* attempts recorded
    lastTouch,   \* day deadman was last written
    leftover,    \* the profile was created beside an old failwipe count
    stuck,       \* state.enc could not be removed once
    mishaps

files   == <<store, failwipe, duress, deadman>>
clock   == <<time, back>>
prompt  == <<createMode, opener, failures, cooling>>
running == <<attempt, wiping, afterWipe>>
history == <<wrong, tries, lastTouch, leftover, stuck, mishaps>>
vars    == <<files, clock, screen, prompt, running, history>>

Passphrase == {"own", "duress", "other"}
Opens(pass) == \/ store = "own" /\ pass = "own"
               \/ store = "decoy" /\ pass = "duress"

OldCount(file) == \E cfg \in file : cfg.count # 0
Damaged(file, field) == \E cfg \in file : cfg[field] = 0

(* unix_now, in days: a clock set back reads early, never below 0.         *)
Now == IF time >= back THEN time - back ELSE 0

(* DeadmanConfig::is_due; wipe_if_deadman_due treats a damaged file as due. *)
(* Bug: days that have begun count as passed.                              *)
DeadmanDueTooSoon == \E cfg \in deadman : Now >= cfg.last /\ Now + 1 - cfg.last >= cfg.days
DeadmanDue == \E cfg \in deadman : Now >= cfg.last /\ Now - cfg.last >= cfg.days
(* Bug: off by one.                                                        *)
FailLimitUsedUpTooSoon == \E cfg \in failwipe : cfg.count + 1 >= cfg.limit
FailLimitUsedUp == \E cfg \in failwipe : cfg.count >= cfg.limit

Mishap == mishaps < MaxMishaps /\ mishaps' = mishaps + 1
Quiet == UNCHANGED mishaps

(* touch_deadman rewrites the file with the clock's time; it does nothing  *)
(* when the switch is off or damaged, and a failed write is ignored.       *)
TouchDeadman ==
    IF deadman = {} \/ Damaged(deadman, "days")
    THEN UNCHANGED <<deadman, lastTouch>>
    ELSE /\ deadman' = {[cfg EXCEPT !.last = Now] : cfg \in deadman}
         /\ lastTouch' = time

(* wipe_disk removes the files in this order.                              *)
(* Bug: the guards go first.                                               *)
BeginWipeGuardsFirst(then) ==
    /\ wiping' = <<"failwipe", "deadman", "duress", "store">>
    /\ afterWipe' = then

BeginWipe(then) ==
    /\ wiping' = <<"store", "duress", "deadman", "failwipe">>
    /\ afterWipe' = then

Init ==
    /\ store = "own"
    /\ failwipe = {} /\ duress = {} /\ deadman = {}
    /\ time = 0 /\ back = 0
    /\ screen = "off" /\ createMode = FALSE /\ opener = "own"
    /\ failures = 0 /\ cooling = FALSE
    /\ attempt = {} /\ wiping = <<>> /\ afterWipe = "off"
    /\ wrong = 0 /\ tries = 0 /\ lastTouch = 0 /\ leftover = FALSE
    /\ stuck = FALSE /\ mishaps = 0

Waiting == attempt = {} /\ wiping = <<>>
AtPrompt == screen = "unlock" /\ Waiting
InSession == screen = "main" /\ Waiting

----------------------------------------------------------------------------
(* run(): the dead-man check comes before the prompt                       *)

ShowPrompt ==
    /\ screen' = "unlock"
    /\ createMode' = (store = "none")
    /\ failures' = 0 /\ cooling' = FALSE
    /\ UNCHANGED opener

Start ==
    /\ screen = "off" /\ Waiting
    /\ ~DeadmanDue /\ ~Damaged(deadman, "days")
    /\ ShowPrompt
    /\ UNCHANGED <<files, clock, running, history>>

StartOverdue ==
    /\ screen = "off" /\ Waiting
    /\ DeadmanDue \/ Damaged(deadman, "days")
    /\ BeginWipe("prompt")
    /\ UNCHANGED <<files, clock, screen, prompt, attempt, history>>

----------------------------------------------------------------------------
(* try_unlock *)

MayTry == AtPrompt /\ ~createMode /\ ~cooling

(* begin_attempt: the limit is off, ...                                    *)
TryUncounted(pass) ==
    /\ MayTry /\ failwipe = {}
    /\ attempt' = {[pass |-> pass, counted |-> FALSE]}
    /\ UNCHANGED <<files, clock, screen, prompt, wiping, afterWipe, history>>

(* ... or the attempt is counted on disk before it is checked, ...         *)
(* Bug: the count is left for attempt_failed to save.                      *)
TryCountedLater(pass) ==
    /\ MayTry /\ failwipe # {} /\ ~Damaged(failwipe, "limit") /\ ~FailLimitUsedUp
    /\ attempt' = {[pass |-> pass, counted |-> TRUE]}
    /\ tries' = tries + 1
    /\ UNCHANGED <<files, clock, screen, prompt, wiping, afterWipe, wrong, lastTouch,
                   leftover, stuck, mishaps>>

TryCounted(pass) ==
    /\ MayTry /\ failwipe # {} /\ ~Damaged(failwipe, "limit") /\ ~FailLimitUsedUp
    /\ failwipe' = {[cfg EXCEPT !.count = @ + 1] : cfg \in failwipe}
    /\ attempt' = {[pass |-> pass, counted |-> TRUE]}
    /\ tries' = tries + 1
    /\ UNCHANGED <<store, duress, deadman, clock, screen, prompt, wiping, afterWipe,
                   wrong, lastTouch, leftover, stuck, mishaps>>

(* ... or it is not tried at all: the limit is used up, the file is        *)
(* damaged, or the count cannot be saved.                                  *)
TryWipes ==
    /\ MayTry /\ failwipe # {}
    /\ \/ (FailLimitUsedUp \/ Damaged(failwipe, "limit")) /\ Quiet
       \/ Mishap
    /\ BeginWipe("failed")
    /\ UNCHANGED <<files, clock, screen, prompt, attempt, wrong, tries, lastTouch,
                   leftover, stuck>>

(* attempt_succeeded: the count is cleared unless that write fails.        *)
AttemptSucceeded ==
    \/ Quiet /\ failwipe' = {[cfg EXCEPT !.count = 0] : cfg \in failwipe} /\ tries' = 0
    \/ Mishap /\ UNCHANGED <<failwipe, tries>>

(* The passphrase opens state.enc.                                         *)
UnlockSucceeds ==
    /\ \E a \in attempt : Opens(a.pass) /\ opener' = a.pass
    /\ AttemptSucceeded /\ TouchDeadman
    /\ attempt' = {} /\ wrong' = 0
    /\ screen' = "main" /\ failures' = 0 /\ cooling' = FALSE
    /\ UNCHANGED <<store, duress, clock, createMode, wiping, afterWipe, leftover, stuck>>

CountWrong == wrong' = IF store = "none" \/ failwipe = {} THEN wrong ELSE wrong + 1

FailUnlock ==
    LET n == IF failures < FAIL_THRESHOLD THEN failures + 1 ELSE failures
    IN  failures' = n /\ cooling' = (n >= FAIL_THRESHOLD)

IsDuress(a) == duress # {} /\ a.pass = "duress"

(* wipe_on_duress                                                          *)
DuressMatches ==
    /\ \E a \in attempt : ~Opens(a.pass) /\ IsDuress(a)
    /\ \E action \in duress : BeginWipe(IF action = "decoy" THEN "decoy" ELSE "failed")
    /\ attempt' = {}
    /\ UNCHANGED <<files, clock, screen, prompt, history>>

(* The last allowed attempt was wrong.                                     *)
LastAttemptFails ==
    /\ \E a \in attempt : ~Opens(a.pass) /\ ~IsDuress(a) /\ a.counted
    /\ FailLimitUsedUp
    /\ BeginWipe("failed")
    /\ attempt' = {} /\ CountWrong
    /\ UNCHANGED <<files, clock, screen, prompt, tries, lastTouch, leftover, stuck, mishaps>>

AttemptFails ==
    /\ \E a \in attempt : ~Opens(a.pass) /\ ~IsDuress(a) /\ (a.counted => ~FailLimitUsedUp)
    /\ FailUnlock
    /\ attempt' = {} /\ CountWrong
    /\ UNCHANGED <<files, clock, screen, createMode, opener, wiping, afterWipe, tries,
                   lastTouch, leftover, stuck, mishaps>>

CooldownEnds ==
    /\ cooling /\ cooling' = FALSE
    /\ UNCHANGED <<files, clock, screen, createMode, opener, failures, running, history>>

----------------------------------------------------------------------------
(* wipe_local_sensitive *)

WipeFile ==
    /\ wiping # <<>> /\ wiping' = Tail(wiping)
    /\ store' = IF Head(wiping) = "store" THEN "none" ELSE store
    /\ duress' = IF Head(wiping) = "duress" THEN {} ELSE duress
    /\ deadman' = IF Head(wiping) = "deadman" THEN {} ELSE deadman
    /\ failwipe' = IF Head(wiping) = "failwipe" THEN {} ELSE failwipe
    /\ wrong' = IF Head(wiping) = "store" THEN 0 ELSE wrong
    /\ UNCHANGED <<clock, screen, prompt, attempt, afterWipe, tries, lastTouch, leftover, stuck,
                   mishaps>>

(* A file that cannot be removed is left, and the wipe goes on.            *)
RemovalFails ==
    /\ wiping # <<>> /\ wiping' = Tail(wiping)
    /\ Mishap
    /\ stuck' = (stuck \/ Head(wiping) = "store")
    /\ UNCHANGED <<files, clock, screen, prompt, attempt, afterWipe, wrong, tries, lastTouch,
                   leftover>>

WipeDone(then) == Waiting /\ afterWipe = then /\ afterWipe' = "off"

(* The prompt stays as it was: create mode is not entered.                 *)
FailAfterWipe ==
    /\ WipeDone("failed") /\ FailUnlock
    /\ UNCHANGED <<files, clock, screen, createMode, opener, attempt, wiping, history>>

(* open_decoy_session: the new profile replaces whatever was left.         *)
DecoyAfterWipe ==
    /\ WipeDone("decoy")
    /\ store' = "decoy" /\ opener' = "duress"
    /\ AttemptSucceeded /\ TouchDeadman
    /\ wrong' = 0 /\ leftover' = OldCount(failwipe')
    /\ screen' = "main" /\ failures' = 0 /\ cooling' = FALSE
    /\ UNCHANGED <<duress, clock, createMode, attempt, wiping, stuck>>

(* The decoy could not be written: an ordinary failure.                    *)
DecoyFails ==
    /\ WipeDone("decoy") /\ Mishap /\ FailUnlock
    /\ UNCHANGED <<files, clock, screen, createMode, opener, attempt, wiping, wrong,
                   tries, lastTouch, leftover, stuck>>

PromptAfterWipe ==
    /\ WipeDone("prompt") /\ ShowPrompt
    /\ UNCHANGED <<files, clock, attempt, wiping, history>>

(* After :wipe-confirm the prompt always asks for a new profile.           *)
CreateAfterWipe ==
    /\ WipeDone("create")
    /\ screen' = "unlock" /\ createMode' = TRUE
    /\ failures' = 0 /\ cooling' = FALSE
    /\ UNCHANGED <<files, clock, opener, attempt, wiping, history>>

QuitAfterWipe ==
    /\ WipeDone("quit") /\ screen' = "off"
    /\ UNCHANGED <<files, clock, prompt, attempt, wiping, history>>

----------------------------------------------------------------------------
(* The create screen and the open session *)

CreateProfile ==
    /\ AtPrompt /\ afterWipe = "off" /\ createMode
    /\ store' = "own" /\ opener' = "own"
    /\ wrong' = 0 /\ tries' = 0 /\ leftover' = OldCount(failwipe)
    /\ screen' = "main" /\ failures' = 0 /\ cooling' = FALSE
    /\ UNCHANGED <<failwipe, duress, deadman, clock, createMode, running, lastTouch, stuck,
                   mishaps>>

SetFailwipe(limit) ==
    /\ InSession
    /\ failwipe' = {[limit |-> limit, count |-> 0]}
    /\ wrong' = 0 /\ tries' = 0 /\ leftover' = FALSE
    /\ UNCHANGED <<store, duress, deadman, clock, screen, prompt, running, lastTouch, stuck,
                   mishaps>>

ClearFailwipe ==
    /\ InSession /\ failwipe' = {}
    /\ UNCHANGED <<store, duress, deadman, clock, screen, prompt, running, history>>

(* Refused when the passphrase also opens the profile.                     *)
SetDuress(action) ==
    /\ InSession /\ ~Opens("duress") /\ duress' = {action}
    /\ UNCHANGED <<store, failwipe, deadman, clock, screen, prompt, running, history>>

ClearDuress ==
    /\ InSession /\ duress' = {}
    /\ UNCHANGED <<store, failwipe, deadman, clock, screen, prompt, running, history>>

SetDeadman(days) ==
    /\ InSession
    /\ deadman' = {[days |-> days, last |-> Now]} /\ lastTouch' = time
    /\ UNCHANGED <<store, failwipe, duress, clock, screen, prompt, running, wrong, tries,
                   leftover, stuck, mishaps>>

ClearDeadman ==
    /\ InSession /\ deadman' = {}
    /\ UNCHANGED <<store, failwipe, duress, clock, screen, prompt, running, history>>

(* lock_ui: the backoff of the process goes on.                            *)
LockUi ==
    /\ InSession /\ TouchDeadman
    /\ screen' = "unlock" /\ createMode' = (store = "none")
    /\ UNCHANGED <<store, failwipe, duress, clock, opener, failures, cooling, running,
                   wrong, tries, leftover, stuck, mishaps>>

(* :wipe-confirm                                                           *)
WipeConfirm ==
    /\ InSession /\ BeginWipe("create")
    /\ UNCHANGED <<files, clock, screen, prompt, attempt, history>>

(* The panic key, and `hashchat-tui --wipe` when no other process runs.    *)
PanicWipe ==
    /\ Waiting /\ afterWipe = "off" /\ BeginWipe("quit")
    /\ UNCHANGED <<files, clock, screen, prompt, attempt, history>>

(* :quit, Ctrl+C and SIGTERM.  Each calls emergency_scrub_fields, which    *)
(* takes the session; run() touches the dead-man file on the way out only  *)
(* if there still is a session.                                            *)
Quit ==
    /\ screen # "off" /\ Waiting /\ afterWipe = "off"
    /\ screen' = "off"
    /\ UNCHANGED <<files, clock, prompt, running, history>>

Crash ==
    /\ Mishap
    /\ screen' = "off"
    /\ attempt' = {} /\ wiping' = <<>> /\ afterWipe' = "off"
    /\ UNCHANGED <<files, clock, prompt, wrong, tries, lastTouch, leftover, stuck>>

----------------------------------------------------------------------------
(* The world *)

DayPasses ==
    /\ time < MaxTime /\ time' = time + 1
    /\ UNCHANGED <<files, back, screen, prompt, running, history>>

ClockIsSet ==
    /\ \E days \in 0 .. MaxBack : back' = days
    /\ UNCHANGED <<files, time, screen, prompt, running, history>>

FileGetsDamaged ==
    /\ Mishap
    /\ \/ failwipe # {} /\ failwipe' = {[limit |-> 0, count |-> 0]} /\ UNCHANGED deadman
       \/ deadman # {} /\ deadman' = {[days |-> 0, last |-> 0]} /\ UNCHANGED failwipe
    /\ UNCHANGED <<store, duress, clock, screen, prompt, running, wrong, tries, lastTouch,
                   leftover, stuck>>

Next ==
    \/ Start \/ StartOverdue
    \/ \E pass \in Passphrase : TryUncounted(pass) \/ TryCounted(pass)
    \/ TryWipes \/ UnlockSucceeds \/ DuressMatches \/ LastAttemptFails \/ AttemptFails
    \/ CooldownEnds
    \/ WipeFile \/ RemovalFails \/ FailAfterWipe \/ DecoyAfterWipe \/ DecoyFails \/ PromptAfterWipe
    \/ CreateAfterWipe \/ QuitAfterWipe
    \/ CreateProfile \/ LockUi \/ WipeConfirm \/ PanicWipe \/ Quit \/ Crash
    \/ \E limit \in FailLimits : SetFailwipe(limit)
    \/ \E action \in {"wipe", "decoy"} : SetDuress(action)
    \/ \E days \in DeadmanDays : SetDeadman(days)
    \/ ClearFailwipe \/ ClearDuress \/ ClearDeadman
    \/ DayPasses \/ ClockIsSet \/ FileGetsDamaged

Spec == Init /\ [][Next]_vars

----------------------------------------------------------------------------
(* Properties *)

FailWipeConfig == [limit : FailLimits, count : Nat] \cup [limit : {0}, count : {0}]
DeadmanConfig == [days : DeadmanDays, last : Nat] \cup [days : {0}, last : {0}]

WipeStages == {<<>>,
               <<"failwipe">>,
               <<"deadman", "failwipe">>,
               <<"duress", "deadman", "failwipe">>,
               <<"store", "duress", "deadman", "failwipe">>}

FilesTyped ==
    /\ store \in {"none", "own", "decoy"}
    /\ failwipe \in SUBSET FailWipeConfig /\ deadman \in SUBSET DeadmanConfig
    /\ duress \in SUBSET {"wipe", "decoy"}
    /\ \A c, d \in failwipe : c = d
    /\ \A c, d \in deadman : c = d

NumbersTyped ==
    /\ time \in 0 .. MaxTime /\ back \in 0 .. MaxBack
    /\ failures \in 0 .. FAIL_THRESHOLD /\ mishaps \in 0 .. MaxMishaps
    /\ wrong \in Nat /\ tries \in Nat /\ lastTouch \in Nat

ControlTyped ==
    /\ screen \in {"off", "unlock", "main"}
    /\ opener \in Passphrase
    /\ attempt \subseteq [pass : Passphrase, counted : BOOLEAN]
    /\ wiping \in WipeStages
    /\ afterWipe \in {"off", "failed", "decoy", "prompt", "create", "quit"}

FlagsTyped == /\ createMode \in BOOLEAN /\ cooling \in BOOLEAN
              /\ leftover \in BOOLEAN /\ stuck \in BOOLEAN

(* Type invariant.                                                         *)
TypeOK == FilesTyped /\ NumbersTyped /\ ControlTyped /\ FlagsTyped

(* failwipe.rs: "killing the process mid-attempt does not give a free      *)
(* guess".  While the limit is set, no store is tested with more wrong     *)
(* passphrases than the limit, and the count on disk never falls behind.   *)
GuessesLimited ==
    \A cfg \in failwipe : cfg.limit # 0 => wrong <= cfg.count /\ cfg.count <= cfg.limit

(* wipe_disk removes state.enc first: wherever a wipe is interrupted, a     *)
(* profile that is still there keeps its limit, its duress passphrase and  *)
(* its dead-man switch.  Only its own open session takes them away (or the *)
(* disk, when it refuses to remove state.enc alone).                       *)
GuardsOutliveProfile ==
    [][(store # "none" /\ store' = store /\ ~InSession /\ ~stuck')
        => /\ failwipe # {} => failwipe' # {}
           /\ duress # {} => duress' # {}
           /\ deadman # {} => deadman' # {}]_vars

(* The limit wipes only after that many recorded attempts since the last   *)
(* right passphrase.  (A damaged file or an unsaved count wipes at once.)  *)
LimitWipesAreEarned ==
    [][(/\ wiping = <<>> /\ wiping' # <<>> /\ afterWipe' = "failed"
         /\ ~leftover /\ ~Damaged(failwipe, "limit") /\ mishaps' = mishaps
         /\ ~\E a \in attempt : IsDuress(a))
        => \E cfg \in failwipe : tries >= cfg.limit]_vars

(* The dead-man switch wipes no sooner than its days after the last        *)
(* unlock, lock or setting.  "A clock moved back only delays it", but the  *)
(* days it was back at the last of them count as absence later.            *)
DeadmanNotEarly ==
    [][StartOverdue => \A cfg \in deadman : time - lastTouch + MaxBack >= cfg.days]_vars

============================================================================
