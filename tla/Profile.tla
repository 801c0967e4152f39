------------------------------- MODULE Profile -------------------------------
(***************************************************************************)
(* state.enc over its life: the two writes of a save (state.enc, then      *)
(* state.mark), what an unlock compares before it saves again (save mark,  *)
(* clock, binary, wipe settings), and the backup, which is exported from   *)
(* an open session and restored where no profile is.                       *)
(*                                                                         *)
(* A save id is the number of the save, so that ids never repeat.  Of the  *)
(* session only what these parts read is kept; `key` stands for all the    *)
(* ratchets: which session it is of and the next message key in it.  The   *)
(* profile may be one that an older build left.  The posture is Standard:  *)
(* Extreme refuses to export and to restore, and writes no ratchets (see   *)
(* Outbox).                                                                *)
(***************************************************************************)
EXTENDS Integers

CONSTANTS
    Times,                         \* readings of the clock
    CLOCK_MARK_STEP_SECS,
    CLOCK_ROLLBACK_TOLERANCE_SECS,
    Settings, Off,                 \* contents of the wipe setting files; none of them
    Binaries,                      \* digests of executables
    None,                          \* no file, no session, nothing recorded
    OldVersions,                   \* blob versions older builds may have left behind
    MaxSaves,                      \* bound on saves
    MaxMishaps                     \* bound on failed writes, on meddling with the files, and
                                   \* on a clock set back or another executable

BLOB_VERSION == 13

Key == [gen : Nat, n : Nat]

StateRecord == [id : Nat \cup {None}, mark : Nat, digest : Binaries \cup {None},
                settings : Settings \cup {None}, key : Key \cup {None}]

Blob == [version : 1..BLOB_VERSION, body : StateRecord]

ASSUME ProfileAssumption ==
    /\ Times \subseteq Nat /\ 0 \in Times
    /\ CLOCK_MARK_STEP_SECS \in Nat \ {0} /\ CLOCK_ROLLBACK_TOLERANCE_SECS \in Nat
    /\ Off \in Settings
    /\ None \notin Settings \cup Binaries \cup Nat \cup Key \cup StateRecord \cup Blob
    /\ MaxSaves \in Nat \ {0} /\ MaxMishaps \in Nat
    /\ OldVersions \subseteq 1..12

VARIABLES
    stateFile,     \* state.enc: the version of its blob, and what is in it
    markFile,      \* state.mark: the id of a save
    settingsFile,  \* deadman, failwipe and duress.enc, as WipeSettings::from_disk reads them
    backup,        \* a backup file
    copy,          \* a copy of state.enc that somebody kept
    session,       \* SessionState in memory
    warn,          \* clock_behind_secs, binary_changed, wipe_settings_changed, save_mark
    screen,        \* "off" (not running), "create", "unlock", "main", or a screen of SetBackup
    restoring,     \* backup_bytes, later pending_restore
    running,       \* running_binary_digest(); None if it cannot be read
    clock,         \* unix_now()
    marking,       \* state.enc was written, this id is still to be written to state.mark
    saves, mishaps,
    sealed,        \* the message keys used
    last,          \* the id in the state.enc this program wrote last
    unmarked,      \* ... and its mark was not written
    older,         \* this profile was opened from another state.enc than that
    lost,          \* a session ended with records its state.enc does not have
    known,         \* the settings and the binary the profile last recorded
    savedAt,       \* the clock when state.enc was last written
    latest         \* the clock at the last save of a session, the latest of those since
                   \* :clock-reset

files   == <<stateFile, markFile, settingsFile, backup, copy>>
program == <<session, warn, screen, restoring, running>>
history == <<sealed, last, unmarked, older, lost, known, savedAt, latest>>
profileVars == <<files, program, clock, marking, saves, mishaps, history>>

NoWarning == [clock |-> FALSE, binary |-> FALSE, settings |-> FALSE, mark |-> "unrecorded"]
RestoreScreens == {"restorePath", "restoreFilePass", "restoreProfilePass", "opening"}

Idle == marking = None
Mishap == mishaps < MaxMishaps /\ mishaps' = mishaps + 1
StateExists == stateFile # None

----------------------------------------------------------------------------
(* What is compared and recorded.                                          *)
RoundedDown(t) == t - (t % CLOCK_MARK_STEP_SECS)

(* Bug: a mark that follows the clock back. *)
AdvanceClockMarkBack(previous, now) == RoundedDown(now)

AdvanceClockMark(previous, now) ==
    IF previous > RoundedDown(now) THEN previous ELSE RoundedDown(now)

ClockRollback(mark, now) == mark - now > CLOCK_ROLLBACK_TOLERANCE_SECS

BinaryStatus(stored) ==
    CASE running = None -> "unavailable"
      [] running # None /\ stored = None -> "unrecorded"
      [] running # None /\ stored = running -> "same"
      [] OTHER -> "changed"

SaveMarkStatus(id, onDisk) ==
    CASE id = None -> "unrecorded"
      [] id # None /\ onDisk = None -> "mark-missing"
      [] id # None /\ onDisk = id -> "ok"
      [] OTHER -> "older-copy"

ChangesSince(recorded) == recorded # None /\ recorded # settingsFile

(* The first unlock with a binary or with settings records them.  The id is not used again. *)
Stamped(s) ==
    [s EXCEPT !.id = None,
              !.digest = IF BinaryStatus(s.digest) = "unrecorded" THEN running ELSE @,
              !.settings = IF @ = None THEN settingsFile ELSE @]

(* Bug: the checks are made after the save that follows them. *)
ChecksAfterSave(s) ==
    [clock |-> ClockRollback(s.mark, clock), binary |-> BinaryStatus(s.digest) = "changed",
     settings |-> ChangesSince(s.settings), mark |-> "ok"]

Checks(s) ==
    [clock |-> ClockRollback(s.mark, clock), binary |-> BinaryStatus(s.digest) = "changed",
     settings |-> ChangesSince(s.settings), mark |-> SaveMarkStatus(s.id, markFile)]

----------------------------------------------------------------------------
(* Saving.                                                                 *)

SerializeBlob(s, id) ==
    [version |-> BLOB_VERSION,
     body |-> [s EXCEPT !.id = id, !.mark = AdvanceClockMark(@, clock)]]

(* Fields that came with a later version are at their defaults. *)
DeserializeBlob(blob) ==
    LET Since(v, field, default) == IF blob.version >= v THEN blob.body[field] ELSE default
    IN  [key      |-> Since(2, "key", None),
         mark     |-> Since(9, "mark", 0),
         digest   |-> Since(10, "digest", None),
         settings |-> Since(11, "settings", None),
         id       |-> Since(12, "id", None)]

(* save_session_wrapped up to the new state.enc; the mark is written next. *)
StateWritten(s) ==
    /\ saves' = saves + 1
    /\ stateFile' = SerializeBlob(s, saves')
    /\ marking' = saves' /\ last' = saves' /\ unmarked' = TRUE /\ savedAt' = clock
    /\ saves < MaxSaves
    /\ UNCHANGED mishaps

(* write_private_file fails: the old file is whole. *)
SaveFails ==
    /\ Mishap
    /\ UNCHANGED <<saves, stateFile, marking, last, unmarked, savedAt>>

Save(s) == StateWritten(s) \/ SaveFails

MarkWritten ==
    /\ marking # None
    /\ markFile' = marking /\ marking' = None /\ unmarked' = FALSE
    /\ UNCHANGED <<stateFile, settingsFile, backup, copy, program, clock, saves, mishaps,
                   sealed, last, older, lost, known, savedAt, latest>>

(* The error is ignored: state.enc is already in place. *)
MarkFails ==
    /\ marking # None /\ marking' = None
    /\ Mishap
    /\ UNCHANGED <<files, program, clock, saves, history>>

----------------------------------------------------------------------------
(* Starting, creating, unlocking, locking.                                 *)
SavedByOldBuild(binary) ==
    [id |-> 1, mark |-> 0, digest |-> binary, settings |-> Off, key |-> [gen |-> 0, n |-> 0]]

(* What goes with that, as far as it is recorded. *)
KnownFrom(s) ==
    /\ markFile = (IF s = None THEN None ELSE s.id) /\ last = markFile
    /\ known = IF s = None THEN [settings |-> None, binary |-> None]
               ELSE [settings |-> s.settings, binary |-> s.digest]

ProfileInit ==
    /\ settingsFile = Off
    /\ backup = None /\ copy = None
    /\ session = None /\ warn = NoWarning /\ screen = "off" /\ restoring = None
    /\ running = None /\ clock \in Times /\ marking = None
    /\ mishaps = 0
    /\ sealed = {} /\ unmarked = FALSE
    /\ older = FALSE /\ lost = FALSE /\ savedAt = 0 /\ latest = 0
    /\ \/ stateFile = None /\ saves = 0 /\ KnownFrom(None)
       \/ \E v \in OldVersions, b \in Binaries :
              /\ stateFile = [version |-> v, body |-> SavedByOldBuild(b)]
              /\ saves = 1 /\ KnownFrom(DeserializeBlob(stateFile))

Start ==
    /\ screen = "off"
    /\ running' \in Binaries \cup {None}
    /\ IF known.binary \in {running', None} THEN UNCHANGED mishaps ELSE Mishap
    /\ screen' = IF StateExists THEN "unlock" ELSE "create"
    /\ UNCHANGED <<files, session, warn, restoring, clock, marking, saves, history>>

(* A new profile: what older ones recorded is no longer of interest. *)
NewProfile(s) ==
    /\ known' = [settings |-> s.settings, binary |-> s.digest]
    /\ older' = FALSE /\ lost' = FALSE /\ latest' = 0

(* create_session_on_disk and adopt_new_session, which saves the same once more. *)
CreateSession ==
    LET s == Stamped([id |-> None, mark |-> 0, digest |-> None, settings |-> None,
                      key |-> None])
    IN  /\ screen = "create" /\ Idle
        /\ StateWritten(s)
        /\ session' = s /\ warn' = NoWarning /\ screen' = "main"
        /\ NewProfile(s)
        /\ UNCHANGED <<markFile, settingsFile, backup, copy, restoring, running, clock,
                       sealed>>

(* try_unlock, once the passphrase has opened state.enc (see UnlockGuard).  The checks read *)
(* the files before the save replaces the mark.                                          *)
TryUnlock ==
    LET loaded == DeserializeBlob(stateFile)
        s == Stamped(loaded)
    IN  /\ screen = "unlock" /\ Idle /\ StateExists
        /\ session' = s /\ warn' = Checks(loaded) /\ screen' = "main"
        /\ older' = (older \/ loaded.id # last)
        /\ known' = [settings |-> IF loaded.settings = None THEN s.settings ELSE known.settings,
                      binary |-> IF loaded.digest = None THEN s.digest ELSE known.binary]
        /\ Save(s)
        /\ UNCHANGED <<markFile, settingsFile, backup, copy, restoring, running, clock,
                       sealed, lost, latest>>

(* What is remembered of a session when it ends. *)
SessionEnds(file) ==
    /\ lost' = (lost \/ file = None
                     \/ LET kept == DeserializeBlob(file)
                        IN  <<kept.settings, kept.digest>> # <<session.settings, session.digest>>)
    /\ latest' = IF file = None THEN 0 ELSE IF savedAt' > latest THEN savedAt' ELSE latest

(* lock_ui: saves if it can. *)
LockUi ==
    /\ screen \in {"main", "exportPass"} /\ Idle
    /\ Save(session)
    /\ SessionEnds(stateFile')
    /\ session' = None /\ warn' = NoWarning /\ restoring' = None
    /\ screen' = IF stateFile' # None THEN "unlock" ELSE "create"
    /\ UNCHANGED <<markFile, settingsFile, backup, copy, running, clock, sealed, older,
                   known>>

(* :quit, Ctrl+C, a signal or a crash, also between the two writes of a save. *)
Stop ==
    /\ screen # "off"
    /\ IF Idle THEN UNCHANGED mishaps ELSE Mishap
    /\ UNCHANGED <<files, clock, saves, sealed, last, unmarked, older, known, savedAt>>
    /\ IF session # None THEN SessionEnds(stateFile) ELSE UNCHANGED <<lost, latest>>
    /\ session' = None /\ warn' = NoWarning /\ restoring' = None
    /\ screen' = "off" /\ running' = None /\ marking' = None

----------------------------------------------------------------------------
(* Commands of an open session.                                            *)
InSession == screen = "main" /\ Idle

(* A command changed the session to s and saves it. *)
SaveSession(s) ==
    /\ session' = s /\ Save(s)
    /\ UNCHANGED <<markFile, backup, copy, screen, restoring, running, clock>>

Invite ==
    /\ InSession
    /\ SaveSession([session EXCEPT !.key = [gen |-> saves + 1, n |-> 0]])
    /\ UNCHANGED <<settingsFile, warn, sealed, older, lost, known, latest>>

(* send_text: the ratchet is saved past the key before the frame is on its way. *)
SendText ==
    /\ InSession /\ session.key # None
    /\ SaveSession([session EXCEPT !.key.n = @ + 1])
    /\ stateFile' # stateFile
    /\ sealed' = sealed \cup {session.key}
    /\ UNCHANGED <<settingsFile, warn, older, lost, known, latest>>

(* record_wipe_settings: the files as they are now are the trusted ones. *)
RecordWipeSettings ==
    /\ SaveSession([session EXCEPT !.settings = settingsFile'])
    /\ warn' = [warn EXCEPT !.settings = FALSE]
    /\ known' = [known EXCEPT !.settings = settingsFile']
    /\ UNCHANGED <<sealed, older, lost, latest>>

(* :deadman, :wipe-after and :duress of an open session. *)
SetWipeSettings(v) ==
    /\ InSession /\ v # settingsFile
    /\ settingsFile' = v
    /\ RecordWipeSettings

WipeSettingsAccept ==
    /\ InSession
    /\ UNCHANGED settingsFile
    /\ RecordWipeSettings

BinaryAccept ==
    /\ InSession /\ running # None
    /\ SaveSession([session EXCEPT !.digest = running])
    /\ warn' = [warn EXCEPT !.binary = FALSE]
    /\ known' = [known EXCEPT !.binary = running]
    /\ UNCHANGED <<settingsFile, sealed, older, lost, latest>>

(* :clock-reset saves with no mark, then keeps the time, not rounded, in memory. *)
ClockReset ==
    /\ InSession
    /\ session' = [session EXCEPT !.mark = clock]
    /\ Save([session EXCEPT !.mark = 0])
    /\ warn' = [warn EXCEPT !.clock = FALSE]
    /\ latest' = 0
    /\ UNCHANGED <<markFile, settingsFile, backup, copy, screen, restoring, running, clock,
                   sealed, older, lost, known>>

(* The wipe of an open session (in one step: UnlockGuard takes it file by file). *)
Wipe ==
    /\ InSession
    /\ stateFile' = None /\ markFile' = None /\ settingsFile' = Off
    /\ SessionEnds(None)
    /\ session' = None /\ warn' = NoWarning /\ screen' = "create"
    /\ UNCHANGED <<backup, copy, restoring, running, clock, marking, saves, mishaps,
                   sealed, last, unmarked, older, known, savedAt>>

----------------------------------------------------------------------------
(* Backup.                                                                 *)

(* Bug: a view that keeps the ratchets. *)
BackupViewWithRatchets(s) == [s EXCEPT !.id = None, !.settings = None]

BackupView(s) == [s EXCEPT !.id = None, !.settings = None, !.key = None]

ExportBackup(s) == SerializeBlob(BackupView(s), None)

(* The view is taken again from what is opened ... *)
OpenBackup(file) == BackupView(DeserializeBlob(file))

(* ... and from what is installed. *)
InstallFreshProfile(s) == ~StateExists /\ StateWritten(BackupView(s))

(* What no step of an export or a restore touches, the install excepted. *)
EntryOnly == UNCHANGED <<stateFile, markFile, settingsFile, copy, session, warn, running, clock,
                         marking, saves, mishaps, history>>

HandleBackup ==
    /\ InSession /\ backup = None
    /\ screen' = "exportPass" /\ restoring' = None
    /\ EntryOnly /\ UNCHANGED backup

(* export_backup and write_backup_file.  It may fail, and leaves the screen all the same. *)
SubmitBackupExport ==
    /\ screen = "exportPass" /\ Idle
    /\ \/ backup' = ExportBackup(session)
       \/ UNCHANGED backup
    /\ screen' = "main" /\ restoring' = None
    /\ EntryOnly

CancelBackupEntry ==
    /\ screen \in RestoreScreens \ {"opening"} /\ Idle
    /\ screen' = "create" /\ restoring' = None
    /\ EntryOnly /\ UNCHANGED backup

(* Ctrl+R on the create screen, if no profile has come meanwhile. *)
BeginRestore ==
    /\ screen = "create" /\ Idle /\ ~StateExists
    /\ screen' = "restorePath" /\ restoring' = None
    /\ EntryOnly /\ UNCHANGED backup

(* read_backup_file. *)
SubmitRestorePath ==
    /\ screen = "restorePath" /\ backup # None
    /\ restoring' = backup /\ screen' = "restoreFilePass"
    /\ EntryOnly /\ UNCHANGED backup

(* open_backup with the file's passphrase; a wrong one keeps the file for another try. *)
SubmitRestoreFilePass ==
    /\ screen = "restoreFilePass"
    /\ restoring' = OpenBackup(restoring)
    /\ screen' = "restoreProfilePass"
    /\ EntryOnly /\ UNCHANGED backup

(* If the save fails the opened state is wiped. *)
SubmitRestoreProfilePass ==
    /\ screen = "restoreProfilePass" /\ Idle /\ ~StateExists
    /\ \/ /\ InstallFreshProfile(restoring)
          /\ screen' = "opening" /\ UNCHANGED restoring
       \/ SaveFails /\ screen' = "create" /\ restoring' = None
    /\ UNCHANGED <<markFile, settingsFile, backup, copy, session, warn, running, clock,
                   sealed, older, lost, known, latest>>

(* A profile came while the passphrases were typed. *)
RestoreFindsProfile ==
    /\ screen = "restoreProfilePass" /\ Idle /\ StateExists
    /\ screen' = "create" /\ restoring' = None
    /\ EntryOnly /\ UNCHANGED backup

(* open_restored_session: this process has just written the file. *)
OpenRestoredSession ==
    LET s == Stamped(restoring)
    IN  /\ screen = "opening" /\ Idle
        /\ session' = s /\ screen' = "main" /\ restoring' = None
        /\ warn' = [Checks(restoring) EXCEPT !.mark = "ok"]
        /\ Save(s) /\ NewProfile(s)
        /\ UNCHANGED <<markFile, settingsFile, backup, copy, running, clock, sealed>>

----------------------------------------------------------------------------
(* The world outside.                                                      *)
ClockIsSet ==
    /\ Idle
    /\ clock' \in Times \ {clock}
    /\ IF clock' > clock THEN UNCHANGED mishaps ELSE Mishap
    /\ UNCHANGED <<files, program, marking, saves, history>>

TakeCopy ==
    /\ Idle /\ StateExists /\ copy = None
    /\ Mishap
    /\ copy' = stateFile
    /\ UNCHANGED <<stateFile, markFile, settingsFile, backup, program, clock, marking, saves,
                   history>>

PutCopyBack ==
    /\ Idle /\ session = None /\ copy # None
    /\ stateFile' = copy /\ copy' = None
    /\ UNCHANGED <<markFile, settingsFile, backup, program, clock, marking, saves, mishaps,
                   history>>

RemoveMark ==
    /\ Idle /\ markFile # None
    /\ Mishap
    /\ markFile' = None
    /\ UNCHANGED <<stateFile, settingsFile, backup, copy, program, clock, marking, saves, history>>

ChangeSettingsByHand ==
    /\ Idle
    /\ Mishap
    /\ settingsFile' \in Settings \ {settingsFile}
    /\ UNCHANGED <<stateFile, markFile, backup, copy, program, clock, marking, saves, history>>

ProfileNext ==
    \/ MarkWritten \/ MarkFails
    \/ Start \/ TryUnlock \/ LockUi \/ Stop
    \/ CreateSession \/ Invite \/ SendText
    \/ \E v \in Settings : SetWipeSettings(v)
    \/ WipeSettingsAccept \/ BinaryAccept \/ ClockReset \/ Wipe
    \/ HandleBackup \/ SubmitBackupExport \/ CancelBackupEntry
    \/ BeginRestore \/ SubmitRestorePath \/ SubmitRestoreFilePass
    \/ SubmitRestoreProfilePass \/ RestoreFindsProfile \/ OpenRestoredSession
    \/ ClockIsSet \/ TakeCopy \/ PutCopyBack \/ RemoveMark \/ ChangeSettingsByHand

ProfileSpec == ProfileInit /\ [][ProfileNext]_profileVars

----------------------------------------------------------------------------
ProfileTypeOK ==
    /\ {stateFile, backup, copy} \subseteq Blob \cup {None}
    /\ session \in StateRecord \cup {None}
    /\ markFile \in Nat \cup {None} /\ settingsFile \in Settings
    /\ warn \in [clock : BOOLEAN, binary : BOOLEAN, settings : BOOLEAN,
                 mark : {"unrecorded", "ok", "mark-missing", "older-copy"}]
    /\ screen \in {"off", "create", "unlock", "main", "exportPass"} \cup RestoreScreens
    /\ running \in Binaries \cup {None} /\ clock \in Times /\ marking \in Nat \cup {None}
    /\ saves \in 0..MaxSaves /\ mishaps \in 0..MaxMishaps
    /\ sealed \subseteq Key /\ last \in Nat \cup {None} /\ {savedAt, latest} \subseteq Nat
    /\ unmarked \in BOOLEAN /\ older \in BOOLEAN /\ lost \in BOOLEAN
    /\ known \in [settings : Settings \cup {None}, binary : Binaries \cup {None}]

(* Properties.                                                             *)
Unlocks == screen = "unlock" /\ screen' = "main"

(* An unlock warns (save_mark.rs) if state.enc is not the file this program wrote last, and   *)
(* does not warn if it is and its mark is there.  Nothing is claimed for a save whose mark    *)
(* was not written: then the last file draws a false warning, and the one before passes; and  *)
(* nothing for a copy of before the upgrade that brought ids, which passes as unrecorded.     *)
OlderCopyWarned ==
    [][(Unlocks /\ ~unmarked) =>
         LET id == DeserializeBlob(stateFile).id
         IN  /\ (id \notin {last, None}) => warn'.mark \in {"older-copy", "mark-missing"}
             /\ (id = last /\ markFile # None) => warn'.mark = "ok"]_profileVars

(* An unlock warns of wipe settings other than those last recorded (wipe_settings.rs), of a   *)
(* binary other than the one last recorded (binary_check.rs), and of a clock further back     *)
(* than the tolerance from where any earlier session left it (clock_check.rs), however many   *)
(* sessions that found it so came between.  Excepted: an older state.enc was opened, or a     *)
(* session ended before it could save what it recorded.                                       *)
ChangesWarned ==
    [][(Unlocks /\ ~older' /\ ~lost) =>
         /\ (known.settings \notin {settingsFile, None}) => warn'.settings
         /\ (None \notin {running, known.binary} /\ running # known.binary) => warn'.binary
         /\ ClockRollback(RoundedDown(latest), clock) => warn'.clock]_profileVars

(* No message key is used twice, whatever is backed up, wiped, restored, saved or not saved,  *)
(* unless an older state.enc was opened (backup.rs: an older ratchet would rewind the chain). *)
NoKeyReused == [][SendText => session.key \notin sealed \/ older]_profileVars

============================================================================
