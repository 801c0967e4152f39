--------------------------------- MODULE Shell ---------------------------------
(***************************************************************************)
(* The memory of the TUI: the screens, the buffers in which passphrases    *)
(* and commands are typed, the transcript, and the secrets of an open      *)
(* session, through unlock, lock, idle lock, wipe, backup entry and exit.  *)
(* The loop draws the screen, waits for one key and handles it.            *)
(*                                                                         *)
(* A buffer is abstracted to the set of purposes its characters were typed *)
(* for; what is in state.enc to whose profile it is and to the settings    *)
(* the loop reads.  An Option is the empty set or a singleton.             *)
(***************************************************************************)
EXTENDS Integers

CONSTANTS
    Contacts,
    Timeouts, Ttls,                   \* settings, in ticks; 0 is off
    DEFAULT_LOCK_TIMEOUT, EXTREME_LOCK_TIMEOUT, EXTREME_TTL,
    MaxIdle,                          \* bound: ticks counted since the last key
    MaxProfiles,                      \* bound: profiles ever made
    MaxMishaps                        \* bound: failed writes and kills

ASSUME ShellBounds ==
    /\ Timeouts \subseteq Nat /\ Ttls \subseteq Nat
    /\ {DEFAULT_LOCK_TIMEOUT, EXTREME_LOCK_TIMEOUT} \subseteq Timeouts
    /\ EXTREME_LOCK_TIMEOUT # 0 /\ EXTREME_TTL \in Ttls \ {0}
    /\ MaxIdle \in Nat /\ \A t \in Timeouts : t <= MaxIdle
    /\ {MaxProfiles, MaxMishaps} \subseteq Nat
    /\ "own" \notin Contacts

VARIABLES
    pc,          \* where run is: top of the loop, or poll, waiting for a key
    screen,      \* Screen, or exit
    phase,       \* backup_phase
    step,        \* unlock_step
    createMode,  \* unlock_mode_create
    passphrase, confirm, input,       \* the buffers
    session,     \* whose profile is open; 0 is none
    mem,         \* what else of a session or a restore is in memory
    contacts,    \* of the session
    deleting,    \* Option: pending_delete_contact
    lines,       \* messages
    prefs,       \* lock_timeout_secs, disappear_ttl_secs, net.posture
    idle,        \* ticks since last_input_at
    sinceKey,    \* ticks since the last key
    disk,        \* state.enc
    profiles,    \* profiles ever made
    mishaps

buffers == <<passphrase, confirm, input>>
place   == <<screen, phase, step, createMode>>
book    == <<session, mem, contacts, deleting>>
stored  == <<disk, profiles, mishaps>>
vars    == <<pc, place, buffers, book, lines, prefs, idle, sinceKey, stored>>

Phases == {"ExportPass", "RestorePath", "RestoreFilePass", "RestoreProfilePass"}
Panels == {"SasGrid", "ContactCard", "Support"}
Screens == Panels \cup {"Unlock", "Main", "ConfirmWipe", "ConfirmDeleteContact",
                        "SetDuress", "SetBackup", "exit"}

(* store_key, my_sas and my_contact_link, held_sends, hs, backup_target,   *)
(* backup_bytes, pending_restore                                           *)
Secrets == {"key", "link", "held", "service", "target", "bytes", "restored"}

Prefs == [timeout : Timeouts, ttl : Ttls, extreme : BOOLEAN]
NewPrefs(extreme) == [timeout |-> DEFAULT_LOCK_TIMEOUT, ttl |-> 0, extreme |-> extreme]

Open == session # 0

NoState == [owner |-> 0, contacts |-> {}, prefs |-> NewPrefs(FALSE)]
StateExists == disk.owner # 0

----------------------------------------------------------------------------
(* The transcript: ChatLine::chat and ChatLine::sys *)

Chat(c) == [of |-> c, left |-> IF prefs.ttl = 0 THEN {} ELSE {prefs.ttl}]
Note == [of |-> "own", left |-> {}]

(* expire_messages; Older is what time does to expires_at.                 *)
Unexpired(ls) == {l \in ls : 0 \notin l.left}
Older(ls) == {[l EXCEPT !.left = {n - 1 : n \in @ \ {0}} \cup (@ \cap {0})] : l \in ls}

ClearContactLines(c) == {l \in lines : l.of # c}

Say == lines' = lines \cup {Note}       \* push_msg

----------------------------------------------------------------------------
(* The store *)

Mishap == mishaps < MaxMishaps /\ mishaps' = mishaps + 1

(* persist_session of profile p; under Extreme no contacts are written.    *)
PersistAs(p, cs, prf) ==
    /\ \/ /\ disk' = [owner |-> p, prefs |-> prf,
                      contacts |-> IF prf.extreme THEN {} ELSE cs]
          /\ UNCHANGED mishaps
       \/ Mishap /\ UNCHANGED disk
    /\ UNCHANGED profiles

Persist == PersistAs(session, contacts', prefs')

(* apply_extreme_ttl_default and apply_extreme_lock_default                *)
ExtremeDefaults(p) ==
    IF ~p.extreme THEN p
    ELSE [p EXCEPT !.ttl = IF @ = 0 THEN EXTREME_TTL ELSE @,
                   !.timeout = IF @ = 0 \/ @ > EXTREME_LOCK_TIMEOUT
                               THEN EXTREME_LOCK_TIMEOUT ELSE @]

----------------------------------------------------------------------------
(* Buffers *)

Purpose == CASE screen = "Unlock"    -> {IF createMode THEN "create" ELSE "unlock"}
             [] screen = "SetDuress" -> {"duress"}
             [] screen = "SetBackup" -> {phase} \ {"RestorePath"}
             [] OTHER -> {}
Purposes == {"create", "unlock", "duress"} \cup Phases

InputPurpose == CASE screen = "Main" -> {"command"}
                  [] screen \in {"ConfirmWipe", "ConfirmDeleteContact"} -> {"confirm"}
                  [] screen = "SetBackup" /\ phase = "RestorePath" -> {"path"}
                  [] OTHER -> {}

ForgetPassphrases == passphrase' = {} /\ confirm' = {}
ForgetBuffers == ForgetPassphrases /\ input' = {}

(* clear_restore_scratch; pending_restore is wiped.                        *)
(* Bug: the opened backup stays.                                           *)
ScratchKeepsRestored == mem \ {"target", "bytes"}
ScratchCleared == mem \ {"target", "bytes", "restored"}

----------------------------------------------------------------------------
(* The session opens and closes *)

Init ==
    /\ pc = "top" /\ screen = "Unlock" /\ phase = "ExportPass" /\ step = "EnterPass"
    /\ createMode = TRUE
    /\ passphrase = {} /\ confirm = {} /\ input = {}
    /\ session = 0 /\ mem = {} /\ contacts = {} /\ deleting = {} /\ lines = {}
    /\ \E extreme \in BOOLEAN : prefs = NewPrefs(extreme)
    /\ idle = 0 /\ sinceKey = 0
    /\ disk = NoState /\ profiles = 0 /\ mishaps = 0

(* lock_ui                                                                 *)
(* Bug: the prompt keeps the mode it was in.                               *)
LockUiSameMode ==
    /\ IF Open /\ "key" \in mem
       THEN PersistAs(session, contacts, prefs) ELSE UNCHANGED stored
    /\ ForgetBuffers
    /\ session' = 0 /\ mem' = {} /\ contacts' = {} /\ deleting' = {} /\ lines' = {}
    /\ screen' = "Unlock" /\ phase' = "ExportPass" /\ step' = "EnterPass"
    /\ UNCHANGED <<createMode, prefs>>

LockUi ==
    /\ IF Open /\ "key" \in mem
       THEN PersistAs(session, contacts, prefs) ELSE UNCHANGED stored
    /\ ForgetBuffers
    /\ session' = 0 /\ mem' = {} /\ contacts' = {} /\ deleting' = {} /\ lines' = {}
    /\ screen' = "Unlock" /\ phase' = "ExportPass" /\ step' = "EnterPass"
    /\ createMode' = (disk'.owner = 0)
    /\ UNCHANGED prefs

(* emergency_scrub_fields, after which run ends                            *)
Scrub ==
    /\ ForgetBuffers
    /\ session' = 0 /\ mem' = {} /\ contacts' = {} /\ deleting' = {} /\ lines' = {}
    /\ screen' = "exit" /\ phase' = "ExportPass"
    /\ UNCHANGED <<step, createMode, prefs>>

(* adopt_new_session, for the profile just written by                      *)
(* create_session_on_disk                                                  *)
AdoptNewSession ==
    /\ profiles' = profiles + 1 /\ session' = profiles + 1
    /\ mem' = mem \cup {"key", "link"}
    /\ contacts' = {}
    /\ prefs' = ExtremeDefaults(NewPrefs(prefs.extreme))
    /\ \/ /\ disk' = [owner |-> profiles + 1, contacts |-> {}, prefs |-> prefs']
          /\ UNCHANGED mishaps
       \/ /\ Mishap
          /\ disk' = [owner |-> profiles + 1, contacts |-> {},
                      prefs |-> NewPrefs(prefs.extreme)]
    /\ screen' = "Main"
    /\ Say
    /\ UNCHANGED <<phase, step, createMode, deleting>>

----------------------------------------------------------------------------
(* The loop *)

(* the screens idle_should_lock names                                      *)
(* Bug: one screen is left out.                                            *)
IdleScreensButSupport == Screens \ {"Unlock", "exit", "Support"}
IdleScreens == Screens \ {"Unlock", "exit"}

(* the screens on which run resets the timer                               *)
TouchScreens == Screens \ {"Unlock", "exit"}

IdleShouldLock ==
    /\ prefs.timeout # 0 /\ screen \in IdleScreens /\ Open
    /\ idle >= prefs.timeout

(* From the top of the loop to the draw: messages come in and are flushed, *)
(* expired lines go, and an idle session is locked.                        *)
Pass ==
    /\ pc = "top" /\ screen # "exit"
    /\ pc' = "poll"
    /\ IF IdleShouldLock THEN LockUi
       ELSE /\ \E heard \in SUBSET (IF "service" \in mem THEN contacts ELSE {}) :
                   lines' = Unexpired(lines \cup {Chat(c) : c \in heard})
            /\ \/ UNCHANGED mem
               \/ mem' = mem \ {"held"}         \* flush_held_sends
               \/ mem' = mem \ {"service"}      \* recheck_bridges_while_listening
            /\ UNCHANGED <<place, buffers, session, contacts, deleting, prefs, stored>>
    /\ UNCHANGED <<idle, sinceKey>>

NoKey ==                                \* event::poll times out
    /\ pc = "poll" /\ pc' = "top"
    /\ UNCHANGED <<place, buffers, book, lines, prefs, idle, sinceKey, stored>>

Count(n) == IF n < MaxIdle THEN n + 1 ELSE n

Tick ==
    /\ pc = "top" /\ screen # "exit"
    /\ idle' = Count(idle) /\ sinceKey' = Count(sinceKey)
    /\ lines' = Older(lines)
    /\ UNCHANGED <<pc, place, buffers, book, prefs, stored>>

(* A key is handled; `touched` when the handler itself calls touch_input.  *)
Key(touched) ==
    /\ pc = "poll" /\ pc' = "top" /\ sinceKey' = 0
    /\ idle' = IF touched \/ screen \in TouchScreens THEN 0 ELSE idle

(* Ctrl-C on any screen, and an error of the terminal                      *)
CtrlC == Key(FALSE) /\ screen # "exit" /\ Scrub /\ UNCHANGED stored

(* SIGTERM: seen at the top of the loop                                    *)
Terminated ==
    /\ pc = "top" /\ screen # "exit"
    /\ Scrub
    /\ UNCHANGED <<pc, idle, sinceKey, stored>>

PanicKey ==                             \* Ctrl-\
    /\ Key(FALSE) /\ screen # "exit"
    /\ Scrub
    /\ disk' = NoState /\ UNCHANGED <<profiles, mishaps>>

(* The process starts again, after an exit or a kill.                      *)
Start ==
    /\ IF screen = "exit" THEN UNCHANGED mishaps ELSE Mishap
    /\ pc' = "top" /\ screen' = "Unlock" /\ phase' = "ExportPass" /\ step' = "EnterPass"
    /\ createMode' = ~StateExists
    /\ ForgetBuffers
    /\ session' = 0 /\ mem' = {} /\ contacts' = {} /\ deleting' = {} /\ lines' = {}
    /\ \E extreme \in BOOLEAN : prefs' = NewPrefs(extreme)
    /\ idle' = 0 /\ sinceKey' = 0
    /\ UNCHANGED <<disk, profiles>>

----------------------------------------------------------------------------
(* Typing *)

InEntry == Purpose # {}                 \* a passphrase is being asked for

TypeSecret ==
    /\ Key(FALSE) /\ InEntry
    /\ IF step = "ConfirmPass"
       THEN confirm' = confirm \cup Purpose /\ UNCHANGED passphrase
       ELSE passphrase' = passphrase \cup Purpose /\ UNCHANGED confirm
    /\ UNCHANGED <<place, input, book, lines, prefs, stored>>

EraseSecret ==                          \* Backspace takes the last character
    /\ Key(FALSE) /\ InEntry
    /\ IF step = "ConfirmPass"
       THEN confirm # {} /\ confirm' = {} /\ UNCHANGED passphrase
       ELSE passphrase # {} /\ passphrase' = {} /\ UNCHANGED confirm
    /\ UNCHANGED <<place, input, book, lines, prefs, stored>>

TypeInput ==
    /\ Key(FALSE) /\ InputPurpose # {}
    /\ input' = input \cup InputPurpose
    /\ UNCHANGED <<place, passphrase, confirm, book, lines, prefs, stored>>

EraseInput ==                           \* Backspace; on Main also Esc
    /\ Key(FALSE) /\ InputPurpose # {}
    /\ input # {} /\ input' = {}
    /\ UNCHANGED <<place, passphrase, confirm, book, lines, prefs, stored>>

----------------------------------------------------------------------------
(* Unlock: Enter, Esc, Ctrl-R *)

EscUnlock ==
    /\ Key(FALSE) /\ screen = "Unlock"
    /\ ForgetPassphrases /\ step' = "EnterPass"
    /\ UNCHANGED <<screen, phase, createMode, input, book, lines, prefs, stored>>

EnterUnlock == screen = "Unlock" /\ passphrase # {}

(* A cooldown, a refused state.enc or a weak new passphrase                *)
Refused ==
    /\ Key(FALSE) /\ EnterUnlock
    /\ ~createMode \/ step = "EnterPass"
    /\ passphrase' = {}
    /\ UNCHANGED <<place, confirm, input, book, lines, prefs, stored>>

CreateFirst ==
    /\ Key(FALSE) /\ EnterUnlock /\ createMode /\ step = "EnterPass"
    /\ step' = "ConfirmPass"
    /\ UNCHANGED <<screen, phase, createMode, buffers, book, lines, prefs, stored>>

CreateMismatch ==
    /\ Key(FALSE) /\ EnterUnlock /\ createMode /\ step = "ConfirmPass"
    /\ ForgetPassphrases /\ step' = "EnterPass"
    /\ UNCHANGED <<screen, phase, createMode, input, book, lines, prefs, stored>>

CreateSaved ==
    /\ Key(TRUE) /\ EnterUnlock /\ createMode /\ step = "ConfirmPass" /\ confirm # {}
    /\ profiles < MaxProfiles
    /\ AdoptNewSession
    /\ ForgetPassphrases /\ UNCHANGED input

CreateFails ==
    /\ Key(FALSE) /\ EnterUnlock /\ createMode /\ step = "ConfirmPass" /\ confirm # {}
    /\ Mishap
    /\ ForgetPassphrases
    /\ UNCHANGED <<place, input, book, lines, prefs, disk, profiles>>

(* try_unlock with the right passphrase                                    *)
Unlocks ==
    /\ Key(TRUE) /\ EnterUnlock /\ ~createMode /\ StateExists
    /\ session' = disk.owner /\ contacts' = disk.contacts
    /\ mem' = mem \cup {"key", "link"}
    /\ prefs' = ExtremeDefaults(disk.prefs)
    /\ PersistAs(disk.owner, disk.contacts, prefs')
    /\ screen' = "Main"
    /\ Say
    /\ ForgetPassphrases
    /\ UNCHANGED <<phase, step, createMode, input, deleting>>

(* ... a wrong one; duress or the failure limit may have wiped the disk.   *)
UnlockFails ==
    /\ Key(FALSE) /\ EnterUnlock /\ ~createMode
    /\ ForgetPassphrases
    /\ disk' \in {disk, NoState}
    /\ UNCHANGED <<place, input, book, lines, prefs, profiles, mishaps>>

(* ... the duress passphrase that opens a decoy, made after the wipe       *)
UnlocksDecoy ==
    /\ Key(TRUE) /\ EnterUnlock /\ ~createMode /\ StateExists
    /\ profiles < MaxProfiles
    /\ AdoptNewSession
    /\ passphrase' = {} /\ UNCHANGED <<confirm, input>>

(* begin_restore                                                           *)
BeginRestore ==
    /\ Key(FALSE) /\ screen = "Unlock" /\ createMode /\ ~StateExists
    /\ mem' = ScratchCleared
    /\ ForgetBuffers
    /\ screen' = "SetBackup" /\ phase' = "RestorePath" /\ step' = "EnterPass"
    /\ UNCHANGED <<createMode, session, contacts, deleting, lines, prefs, stored>>

----------------------------------------------------------------------------
(* SetBackup: `:backup export`, and a restore into a fresh profile *)

(* cancel_backup_entry                                                     *)
CancelBackupEntry ==
    /\ mem' = ScratchCleared
    /\ ForgetBuffers
    /\ step' = "EnterPass" /\ phase' = "ExportPass"
    /\ screen' = IF phase # "ExportPass" /\ ~Open THEN "Unlock" ELSE "Main"
    /\ UNCHANGED <<createMode, session, contacts, deleting, prefs>>

EscBackup ==
    /\ Key(FALSE) /\ screen = "SetBackup"
    /\ CancelBackupEntry
    /\ UNCHANGED <<lines, stored>>

EnterBackup(ph) == Key(FALSE) /\ screen = "SetBackup" /\ phase = ph

NewPassRefused ==                       \* check_new_passphrase
    /\ \E ph \in {"ExportPass", "RestoreProfilePass"} : EnterBackup(ph)
    /\ passphrase # {} /\ step = "EnterPass"
    /\ passphrase' = {}
    /\ UNCHANGED <<place, confirm, input, book, lines, prefs, stored>>

NewPassAccepted ==
    /\ \E ph \in {"ExportPass", "RestoreProfilePass"} : EnterBackup(ph)
    /\ passphrase # {} /\ step = "EnterPass"
    /\ step' = "ConfirmPass"
    /\ UNCHANGED <<screen, phase, createMode, buffers, book, lines, prefs, stored>>

SubmitExport ==                         \* written, or refused
    /\ EnterBackup("ExportPass") /\ passphrase # {} /\ step = "ConfirmPass"
    /\ CancelBackupEntry
    /\ Say /\ UNCHANGED stored

SubmitRestorePath ==
    /\ EnterBackup("RestorePath") /\ input # {}
    /\ mem' = mem \cup {"bytes", "target"}
    /\ input' = {}
    /\ phase' = "RestoreFilePass"
    /\ UNCHANGED <<screen, step, createMode, passphrase, confirm, session, contacts,
                   deleting, lines, prefs, stored>>

(* submit_restore_file_pass: the bytes are gone after an Extreme backup    *)
(* was refused.                                                            *)
SubmitFilePass ==
    /\ EnterBackup("RestoreFilePass") /\ passphrase # {}
    /\ passphrase' = {}
    /\ \/ "bytes" \notin mem /\ phase' = "RestorePath" /\ UNCHANGED <<step, mem>>
       \/ "bytes" \in mem /\ UNCHANGED <<phase, step, mem>>             \* wrong
       \/ /\ "bytes" \in mem /\ mem' = mem \ {"bytes"}                  \* Extreme
          /\ UNCHANGED <<phase, step>>
       \/ /\ "bytes" \in mem /\ mem' = (mem \ {"bytes"}) \cup {"restored"}
          /\ phase' = "RestoreProfilePass" /\ step' = "EnterPass"
    /\ UNCHANGED <<screen, createMode, confirm, input, session, contacts, deleting,
                   lines, prefs, stored>>

ProfilePassMismatch ==
    /\ EnterBackup("RestoreProfilePass") /\ passphrase # {} /\ step = "ConfirmPass"
    /\ ForgetPassphrases /\ step' = "EnterPass"
    /\ UNCHANGED <<screen, phase, createMode, input, book, lines, prefs, stored>>

EnterProfilePass ==
    /\ screen = "SetBackup" /\ phase = "RestoreProfilePass"
    /\ step = "ConfirmPass" /\ passphrase # {} /\ confirm # {}

RestoreFails ==
    /\ Key(FALSE) /\ EnterProfilePass /\ ~StateExists
    /\ Mishap
    /\ ForgetPassphrases
    /\ mem' = ScratchCleared
    /\ screen' = "Unlock" /\ phase' = "ExportPass" /\ step' = "EnterPass"
    /\ UNCHANGED <<createMode, input, session, contacts, deleting, lines, prefs,
                   disk, profiles>>

(* install_fresh_profile and open_restored_session.  One process has the   *)
(* data directory, so a profile never appears during a restore.            *)
Restores ==
    /\ Key(TRUE) /\ EnterProfilePass /\ ~StateExists
    /\ profiles < MaxProfiles /\ profiles' = profiles + 1
    /\ \E cs \in SUBSET Contacts, t \in Timeouts, ttl \in Ttls :
          /\ contacts' = cs
          /\ prefs' = [timeout |-> t, ttl |-> ttl, extreme |-> FALSE]
    /\ session' = profiles + 1
    /\ mem' = (mem \ {"target", "restored"}) \cup {"key", "link"}
    /\ disk' = [owner |-> profiles + 1, contacts |-> contacts', prefs |-> prefs']
    /\ screen' = "Main" /\ phase' = "ExportPass" /\ step' = "EnterPass"
    /\ createMode' = FALSE
    /\ ForgetPassphrases
    /\ Say
    /\ UNCHANGED <<input, deleting, mishaps>>

----------------------------------------------------------------------------
(* SetDuress, ConfirmWipe, ConfirmDeleteContact and the panels *)

(* cancel_duress_entry                                                     *)
(* Bug: what was typed stays.                                              *)
CancelDuressKeepsTyped ==
    /\ step' = "EnterPass" /\ screen' = "Main"
    /\ UNCHANGED <<phase, createMode, buffers, book, prefs>>

CancelDuressEntry ==
    /\ ForgetPassphrases
    /\ step' = "EnterPass" /\ screen' = "Main"
    /\ UNCHANGED <<phase, createMode, input, book, prefs>>

EscDuress ==
    /\ Key(FALSE) /\ screen = "SetDuress"
    /\ CancelDuressEntry
    /\ UNCHANGED <<lines, stored>>

DuressFirst ==
    /\ Key(FALSE) /\ screen = "SetDuress" /\ passphrase # {} /\ step = "EnterPass"
    /\ step' = "ConfirmPass"
    /\ UNCHANGED <<screen, phase, createMode, buffers, book, lines, prefs, stored>>

(* submit_duress_entry: refused, or set and recorded (record_wipe_settings) *)
DuressSecond ==
    /\ Key(FALSE) /\ screen = "SetDuress" /\ passphrase # {} /\ step = "ConfirmPass"
    /\ CancelDuressEntry
    /\ \/ UNCHANGED stored
       \/ confirm # {} /\ Persist
    /\ Say

Back ==                                 \* Esc, or Enter with another word
    /\ Key(FALSE) /\ screen \in {"ConfirmWipe", "ConfirmDeleteContact"}
    /\ deleting' = IF screen = "ConfirmWipe" THEN deleting ELSE {}
    /\ screen' = "Main" /\ input' = {}
    /\ UNCHANGED <<phase, step, createMode, passphrase, confirm, session, mem, contacts,
                   lines, prefs, stored>>

BackFromPanel ==
    /\ Key(FALSE) /\ screen \in Panels
    /\ screen' = "Main"
    /\ UNCHANGED <<phase, step, createMode, buffers, book, lines, prefs, stored>>

(* `:wipe-confirm`, on the confirm screen or typed as a command            *)
WipeConfirm ==
    /\ Key(FALSE) /\ screen \in {"ConfirmWipe", "Main"} /\ input # {}
    /\ disk' = NoState
    /\ session' = 0 /\ mem' = {} /\ contacts' = {} /\ deleting' = {} /\ lines' = {}
    /\ ForgetBuffers
    /\ \E extreme \in BOOLEAN : prefs' = NewPrefs(extreme)
    /\ createMode' = TRUE
    /\ screen' = "Unlock" /\ phase' = "ExportPass" /\ step' = "EnterPass"
    /\ UNCHANGED <<profiles, mishaps>>

(* handle_delete_contact_confirm                                           *)
ConfirmDelete ==
    /\ Key(FALSE) /\ screen = "ConfirmDeleteContact" /\ input # {}
    /\ input' = {} /\ deleting' = {}
    /\ \E c \in deleting : /\ contacts' = contacts \ {c}
                          /\ lines' = ClearContactLines(c) \cup {Note}
    /\ screen' = "Main"
    /\ PersistAs(session, contacts', prefs)
    /\ UNCHANGED <<phase, step, createMode, passphrase, confirm, session, mem, prefs>>

----------------------------------------------------------------------------
(* Commands: run takes the line out of the buffer before handle_command *)

Command ==
    /\ Key(FALSE) /\ screen = "Main" /\ input # {}
    /\ input' = {}
    /\ UNCHANGED createMode

Stay == UNCHANGED <<screen, phase, step, passphrase, confirm>>

Quit == Command /\ Scrub /\ UNCHANGED stored

Lock == Command /\ Open /\ LockUi

Clear ==
    /\ Command /\ Stay
    /\ lines' = {}
    /\ UNCHANGED <<book, prefs, stored>>

Wipe ==
    /\ Command
    /\ lines' = {} /\ screen' = "ConfirmWipe"
    /\ UNCHANGED <<phase, step, passphrase, confirm, book, prefs, stored>>

(* `:sas-grid`, `:contact-card`, `:support`                                *)
Panel(s) ==
    /\ Command
    /\ s = "SasGrid" => Open /\ contacts # {}
    /\ s = "ContactCard" => ~prefs.extreme /\ "link" \in mem
    /\ screen' = s
    /\ UNCHANGED <<phase, step, passphrase, confirm, book, lines, prefs, stored>>

DuressSet ==                            \* `:duress set`
    /\ Command /\ Open
    /\ ForgetPassphrases /\ step' = "EnterPass" /\ screen' = "SetDuress"
    /\ UNCHANGED <<phase, book, lines, prefs, stored>>

BackupExport ==                         \* `:backup export PATH`
    /\ Command /\ Open /\ ~prefs.extreme
    /\ mem' = ScratchCleared \cup {"target"}
    /\ ForgetPassphrases
    /\ phase' = "ExportPass" /\ step' = "EnterPass" /\ screen' = "SetBackup"
    /\ UNCHANGED <<session, contacts, deleting, lines, prefs, stored>>

DeleteContact(c) ==                     \* `:delete-contact`
    /\ Command /\ c \in contacts
    /\ deleting' = {c} /\ screen' = "ConfirmDeleteContact"
    /\ UNCHANGED <<phase, step, passphrase, confirm, session, mem, contacts, lines, prefs, stored>>

AddContact(c) ==                        \* a link, or an invite that was accepted
    /\ Command /\ Open /\ Stay
    /\ contacts' = contacts \cup {c}
    /\ Say
    /\ PersistAs(session, contacts', prefs)
    /\ UNCHANGED <<session, mem, deleting, prefs>>

SendText(c) ==                          \* sent, queued, or held for jitter
    /\ Command /\ Open /\ Stay /\ c \in contacts
    /\ lines' = lines \cup {Chat(c)}
    /\ mem' \in {mem, mem \cup {"held"}}
    /\ PersistAs(session, contacts, prefs)
    /\ UNCHANGED <<session, contacts, deleting, prefs>>

Listen ==                               \* not kept when the save fails
    /\ Command /\ Open /\ Stay /\ "service" \notin mem
    /\ PersistAs(session, contacts, prefs)
    /\ mem' = IF mishaps' = mishaps THEN mem \cup {"service"} ELSE mem
    /\ Say
    /\ UNCHANGED <<session, contacts, deleting, prefs>>

(* handle_lock_timeout and handle_disappear                                *)
SetPrefs ==
    /\ Command /\ Stay
    /\ \/ \E t \in Timeouts : prefs' = [prefs EXCEPT !.timeout = t]
       \/ \E t \in Ttls : prefs' = [prefs EXCEPT !.ttl = t]
    /\ Say
    /\ PersistAs(session, contacts, prefs')
    /\ UNCHANGED book

(* handle_mode: entering Extreme clears the transcript.                    *)
SetPosture(extreme) ==
    /\ Command /\ Stay
    /\ prefs' = ExtremeDefaults([prefs EXCEPT !.extreme = extreme])
    /\ lines' = (IF extreme /\ ~prefs.extreme THEN {} ELSE lines) \cup {Note}
    /\ PersistAs(session, contacts, prefs')
    /\ UNCHANGED book

(* The commands that only say something, or change state of other modules. *)
OtherCommand ==
    /\ Command /\ Stay
    /\ Say
    /\ UNCHANGED <<book, prefs, stored>>

HandleCommand ==
    \/ Quit \/ Lock \/ Clear \/ Wipe \/ DuressSet \/ BackupExport
    \/ Listen \/ SetPrefs \/ OtherCommand
    \/ \E s \in Panels : Panel(s)
    \/ \E c \in Contacts : DeleteContact(c) \/ AddContact(c) \/ SendText(c)
    \/ \E b \in BOOLEAN : SetPosture(b)

----------------------------------------------------------------------------
Typing == TypeSecret \/ EraseSecret \/ TypeInput \/ EraseInput

UnlockKey == \/ EscUnlock \/ Refused \/ CreateFirst \/ CreateMismatch \/ CreateSaved
             \/ CreateFails \/ Unlocks \/ UnlockFails \/ UnlocksDecoy \/ BeginRestore

BackupKey == \/ EscBackup \/ NewPassRefused \/ NewPassAccepted \/ SubmitExport
             \/ SubmitRestorePath \/ SubmitFilePass \/ ProfilePassMismatch
             \/ RestoreFails \/ Restores

DuressKey == EscDuress \/ DuressFirst \/ DuressSecond

Next ==
    \/ Pass \/ NoKey \/ Tick \/ Terminated \/ Start
    \/ CtrlC \/ PanicKey \/ Typing
    \/ UnlockKey \/ BackupKey \/ DuressKey
    \/ Back \/ BackFromPanel \/ WipeConfirm \/ ConfirmDelete
    \/ HandleCommand

Spec == Init /\ [][Next]_vars

----------------------------------------------------------------------------
TypeOK ==
    /\ pc \in {"top", "poll"} /\ screen \in Screens /\ phase \in Phases
    /\ step \in {"EnterPass", "ConfirmPass"} /\ createMode \in BOOLEAN
    /\ passphrase \subseteq Purposes /\ confirm \subseteq Purposes
    /\ input \subseteq {"command", "confirm", "path"}
    /\ session \in 0..MaxProfiles /\ mem \subseteq Secrets
    /\ contacts \subseteq Contacts /\ deleting \subseteq contacts
    /\ prefs \in Prefs
    /\ idle \in 0..MaxIdle /\ sinceKey \in 0..MaxIdle
    /\ disk \in [owner : 0..MaxProfiles, contacts : SUBSET Contacts, prefs : Prefs]
    /\ profiles \in 0..MaxProfiles /\ mishaps \in 0..MaxMishaps

(* Once the session is closed nothing of it, and nothing of a restore, is  *)
(* in memory: no key, link, queue, service, backup or line, whichever of   *)
(* the dozen ways out was taken (THREATMODEL.md:44).  While it is open no  *)
(* line of a deleted contact is left.                                      *)
NothingLeft ==
    /\ screen \in {"Unlock", "exit"} =>
           /\ session = 0 /\ mem = {} /\ contacts = {} /\ deleting = {}
           /\ input = {} /\ lines = {}
    /\ screen = "exit" => passphrase = {} /\ confirm = {}
    /\ \A l \in lines : l.of \in contacts \cup {"own"}

(* What was typed for one screen never reaches another: no passphrase is   *)
(* tried as another one, no draft is run as a path or a confirmation.      *)
TypedForThisScreen ==
    /\ passphrase \cup confirm \subseteq Purpose
    /\ input \subseteq InputPurpose

(* What is drawn is current: no line past its time, and no session that    *)
(* has been without a key for its lock timeout.                            *)
DrawnIsCurrent ==
    pc = "poll" /\ screen # "exit" =>
        /\ \A l \in lines : 0 \notin l.left
        /\ Open /\ prefs.timeout # 0 => sinceKey < prefs.timeout

(* A profile on disk is never replaced by another one, except by the decoy *)
(* of a duress passphrase, which wipes it first.                           *)
ProfileNotReplaced ==
    [][StateExists /\ disk'.owner # disk.owner => disk'.owner = 0 \/ UnlocksDecoy]_vars
============================================================================
