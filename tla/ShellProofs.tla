----------------------------- MODULE ShellProofs -----------------------------
(***************************************************************************)
(* The properties of Shell, for any contacts, lock timeouts, lifetimes and *)
(* number of profiles.                                                     *)
(*                                                                         *)
(* IInv says where nothing of a session may be (Places), that a second     *)
(* buffer is in use only where a passphrase is typed twice (Steps), and    *)
(* that the idle timer counts every tick since the last key (Clock).       *)
(***************************************************************************)
EXTENDS Shell, TLAPS

(* Settings, whatever their choices. *)
Settings == [timeout : Nat, ttl : Nat, extreme : BOOLEAN]

Quiet == session = 0 /\ contacts = {} /\ deleting = {} /\ lines = {}

Restoring == screen = "SetBackup" /\ phase # "ExportPass"

(* Where no session is open nothing of one is in memory, and a restore begins where there is *)
(* no profile.                                                                              *)
Places ==
    /\ createMode \in BOOLEAN
    /\ screen \in {"Unlock", "exit"} => Quiet /\ mem = {}
    /\ Restoring => Quiet /\ mem \subseteq {"target", "bytes", "restored"} /\ disk.owner = 0
    /\ \A l \in lines : l = [of |-> l.of, left |-> l.left] /\ l.of \in contacts \cup {"own"}
    /\ session # 0 => disk.owner = session
    /\ screen = "Unlock" /\ createMode => disk.owner = 0

(* The second buffer is in use only where a passphrase is typed twice. *)
Steps ==
    \/ (screen = "Unlock" /\ ~createMode)
    \/ (screen = "SetBackup" /\ phase \in {"RestorePath", "RestoreFilePass"})
    => step = "EnterPass" /\ confirm = {}

Clock ==
    /\ screen \in Screens
    /\ prefs \in Settings /\ disk.prefs \in Settings
    /\ idle \in 0 .. MaxIdle /\ sinceKey \in 0 .. idle

-----------------------------------------------------------------------------
(* Places *)

(* Whatever closes the session and ends at the prompt or the exit keeps it. *)
LEMMA CloseUp ==
    ASSUME session' = 0, mem' = {}, contacts' = {}, deleting' = {}, lines' = {},
           screen' \in {"Unlock", "exit"}, createMode' \in BOOLEAN,
           screen' = "Unlock" /\ createMode' => disk'.owner = 0
    PROVE  Places'
BY DEF Places, Quiet, Restoring

(* Locking does. *)
LEMMA LockCloses ==
    ASSUME LockUi PROVE Places'
BY CloseUp DEF LockUi

(* Places is inductive. *)
LEMMA NextPlaces == Places /\ [Next]_vars => Places'
<1> SUFFICES ASSUME Places, [Next]_vars PROVE Places'
  OBVIOUS
<1> USE DEF Places, Quiet, Restoring, place, buffers, book, stored, Key
<1>1. CASE Pass
  <2>1. CASE IdleShouldLock
    BY <1>1, <2>1, LockCloses DEF Pass
  <2>2. CASE ~IdleShouldLock
    BY <1>1, <2>2 DEF Pass, Unexpired, Chat
  <2> QED
    BY <2>1, <2>2
<1>2. CASE NoKey \/ UNCHANGED vars
  BY <1>2 DEF NoKey, vars
<1>3. CASE Tick
  <2>1. lines' = Older(lines) /\ UNCHANGED <<screen, phase, createMode, session, mem, contacts,
                                            deleting, disk>>
    BY <1>3 DEF Tick
  <2>2. ASSUME NEW k \in Older(lines)
        PROVE  k = [of |-> k.of, left |-> k.left] /\ k.of \in contacts \cup {"own"}
    <3>1. PICK l \in lines :
             k = [l EXCEPT !.left = {n - 1 : n \in @ \ {0}} \cup (@ \cap {0})]
      BY <2>2 DEF Older
    <3> PICK left : left = {n - 1 : n \in l.left \ {0}} \cup (l.left \cap {0})
      OBVIOUS
    <3>2. k = [of |-> l.of, left |-> left]
      BY <3>1
    <3> QED
      BY <3>2
  <2>3. lines = {} => Older(lines) = {}
    BY DEF Older
  <2> HIDE DEF Restoring
  <2> QED
    BY <2>1, <2>2, <2>3 DEF Restoring
<1>4. CASE Terminated
  BY <1>4, CloseUp DEF Terminated, Scrub
<1>5. CASE Start
  BY <1>5, CloseUp DEF Start, StateExists
<1>6. CASE CtrlC
  BY <1>6, CloseUp DEF CtrlC, Scrub
<1>7. CASE PanicKey
  BY <1>7, CloseUp DEF PanicKey, Scrub
<1>8. CASE Typing
  BY <1>8 DEF Typing, TypeSecret, EraseSecret, TypeInput, EraseInput
<1>9. CASE EscUnlock \/ Refused \/ CreateFirst \/ CreateMismatch \/ CreateFails
  BY <1>9 DEF EscUnlock, Refused, CreateFirst, CreateMismatch, CreateFails
<1>10. CASE AdoptNewSession /\ screen = "Unlock"
  BY <1>10 DEF AdoptNewSession, Say, Note
<1>11. CASE CreateSaved \/ UnlocksDecoy
  BY <1>10, <1>11 DEF CreateSaved, UnlocksDecoy, EnterUnlock
<1>12. CASE Unlocks
  BY <1>12 DEF Unlocks, EnterUnlock, Say, Note, PersistAs
<1>13. CASE UnlockFails
  BY <1>13 DEF UnlockFails, EnterUnlock, NoState
<1>14. CASE BeginRestore
  BY <1>14 DEF BeginRestore, ScratchCleared, StateExists
<1>15. CASE EscBackup \/ SubmitExport
  <2>1. /\ screen = "SetBackup" /\ mem' = ScratchCleared
        /\ screen' = IF phase # "ExportPass" /\ ~Open THEN "Unlock" ELSE "Main"
        /\ UNCHANGED <<createMode, session, contacts, deleting, disk>>
    BY <1>15 DEF EscBackup, SubmitExport, EnterBackup, CancelBackupEntry
  <2>2. lines' = lines \/ (lines' = lines \cup {Note} /\ phase = "ExportPass")
    BY <1>15 DEF EscBackup, SubmitExport, EnterBackup, Say
  <2>3. CASE phase # "ExportPass"
    <3>1. mem' = {} /\ session = 0 /\ lines' = {}
      BY <2>1, <2>2, <2>3 DEF ScratchCleared
    <3> QED
      BY <2>1, <2>3, <3>1 DEF Open
  <2>4. CASE phase = "ExportPass"
    <3>1. screen' = "Main"
      BY <2>1, <2>4
    <3>2. \A l \in lines' : l = [of |-> l.of, left |-> l.left] /\ l.of \in contacts \cup {"own"}
      BY <2>2 DEF Note
    <3> QED
      BY <2>1, <3>1, <3>2
  <2> QED
    BY <2>3, <2>4
<1>16. CASE NewPassRefused \/ NewPassAccepted \/ SubmitRestorePath \/ SubmitFilePass
            \/ ProfilePassMismatch \/ RestoreFails
  BY <1>16 DEF NewPassRefused, NewPassAccepted, SubmitRestorePath, SubmitFilePass,
     ProfilePassMismatch, RestoreFails, EnterBackup, EnterProfilePass, ScratchCleared, StateExists
<1>17. CASE Restores
  <2>1. lines' = {Note}
    BY <1>17 DEF Restores, EnterProfilePass, Say
  <2>2. \A l \in lines' : l = [of |-> l.of, left |-> l.left] /\ l.of \in contacts' \cup {"own"}
    BY <2>1 DEF Note
  <2>3. /\ screen' = "Main" /\ createMode' = FALSE /\ session' = profiles + 1
        /\ disk'.owner = profiles + 1
    BY <1>17 DEF Restores
  <2> QED
    BY <2>2, <2>3
<1>18. CASE EscDuress \/ DuressFirst \/ DuressSecond
  BY <1>18 DEF EscDuress, DuressFirst, DuressSecond, CancelDuressEntry, Say, Note, Persist, PersistAs
<1>19. CASE Back \/ BackFromPanel
  BY <1>19 DEF Back, BackFromPanel, Panels
<1>20. CASE WipeConfirm
  BY <1>20, CloseUp DEF WipeConfirm, NoState
<1>21. CASE ConfirmDelete
  BY <1>21 DEF ConfirmDelete, ClearContactLines, Note, PersistAs
<1>22. CASE HandleCommand
  <2>1. CASE Quit
    BY <2>1, CloseUp DEF Quit, Scrub, Command
  <2>2. CASE Lock
    BY <2>2, LockCloses DEF Lock
  <2>3. CASE Clear \/ Wipe \/ DuressSet \/ BackupExport \/ OtherCommand
    BY <2>3 DEF Clear, Wipe, DuressSet, BackupExport, OtherCommand, Command, Stay, Say, Note
  <2>4. CASE Listen \/ SetPrefs
    BY <2>4 DEF Listen, SetPrefs, Command, Stay, Say, Note, PersistAs
  <2>5. CASE \E s \in Panels : Panel(s)
    BY <2>5 DEF Panel, Panels, Command
  <2>6. CASE \E c \in Contacts : DeleteContact(c) \/ AddContact(c) \/ SendText(c)
    BY <2>6 DEF DeleteContact, AddContact, SendText, Command, Stay, Say, Note, Chat, PersistAs
  <2>7. CASE \E b \in BOOLEAN : SetPosture(b)
    BY <2>7 DEF SetPosture, Command, Stay, Note, PersistAs
  <2> QED
    BY <1>22, <2>1, <2>2, <2>3, <2>4, <2>5, <2>6, <2>7 DEF HandleCommand
<1> QED
  BY <1>1, <1>2, <1>3, <1>4, <1>5, <1>6, <1>7, <1>8, <1>9, <1>11, <1>12, <1>13, <1>14, <1>15,
     <1>16, <1>17, <1>18, <1>19, <1>20, <1>21, <1>22, Zenon
     DEF Next, UnlockKey, BackupKey, DuressKey

-----------------------------------------------------------------------------
(* What was typed *)

TInv == TypedForThisScreen /\ Steps

(* A screen is entered with empty buffers, for the first passphrase if for one. *)
LEMMA Emptied ==
    ASSUME passphrase' = {}, confirm' = {}, input' = {},
           screen' \in {"Unlock", "SetBackup"} => step' = "EnterPass"
    PROVE  TInv'
BY DEF TInv, TypedForThisScreen, Steps

(* Locking empties the buffers. *)
LEMMA LockEmpties ==
    ASSUME LockUi PROVE TInv'
BY Emptied DEF LockUi, ForgetBuffers, ForgetPassphrases

(* What was typed stays for its screen. *)
LEMMA NextTyped == Places /\ TInv /\ [Next]_vars => TInv'
<1> SUFFICES ASSUME Places, TInv, [Next]_vars PROVE TInv'
  OBVIOUS
<1>create. createMode \in BOOLEAN
  BY DEF Places
<1> USE DEF place, buffers, book, stored, Key, ForgetPassphrases, ForgetBuffers
(* the place stays, and no buffer has more in it *)
<1>0. ASSUME UNCHANGED place, passphrase' \subseteq passphrase, confirm' \subseteq confirm,
             input' \subseteq input
      PROVE  TInv'
  BY <1>0 DEF TInv, TypedForThisScreen, Steps, Purpose, InputPurpose
<1>1. CASE Pass
  <2>1. CASE IdleShouldLock
    BY <1>1, <2>1, LockEmpties DEF Pass
  <2>2. CASE ~IdleShouldLock
    BY <1>0, <1>1, <2>2 DEF Pass
  <2> QED
    BY <2>1, <2>2
<1>2. CASE NoKey \/ Tick \/ UNCHANGED vars
  BY <1>0, <1>2 DEF NoKey, Tick, vars
<1>4. CASE Terminated \/ CtrlC \/ PanicKey
  BY <1>4, Emptied DEF Terminated, CtrlC, PanicKey, Scrub
<1>5. CASE Start
  BY <1>5, Emptied DEF Start
<1>6. CASE TypeSecret
  BY <1>6 DEF TypeSecret, TInv, TypedForThisScreen, Steps, Purpose, InputPurpose
<1>7. CASE EraseSecret
  BY <1>0, <1>7 DEF EraseSecret
<1>8. CASE TypeInput \/ EraseInput
  BY <1>8 DEF TypeInput, EraseInput, TInv, TypedForThisScreen, Steps, Purpose, InputPurpose
<1>9. CASE Refused \/ CreateFails \/ UnlockFails
  BY <1>0, <1>9 DEF Refused, CreateFails, UnlockFails
<1>10. CASE EscUnlock \/ CreateFirst \/ CreateMismatch
  BY <1>10 DEF EscUnlock, CreateFirst, CreateMismatch, EnterUnlock,
     TInv, TypedForThisScreen, Steps, Purpose, InputPurpose
<1>11. CASE CreateSaved \/ UnlocksDecoy \/ Unlocks
  <2>1. screen = "Unlock" /\ screen' = "Main" /\ passphrase' = {} /\ input' = input
    BY <1>11 DEF CreateSaved, UnlocksDecoy, Unlocks, AdoptNewSession, EnterUnlock
  <2>2. confirm' = {}
    BY <1>11, <2>1 DEF CreateSaved, UnlocksDecoy, Unlocks, TInv, Steps
  <2>3. input = {}
    BY <2>1 DEF TInv, TypedForThisScreen, InputPurpose
  <2> QED
    BY <2>1, <2>2, <2>3, Emptied
<1>12. CASE BeginRestore
  BY <1>12, Emptied DEF BeginRestore
<1>13. CASE EscBackup \/ SubmitExport
  BY <1>13, Emptied DEF EscBackup, SubmitExport, CancelBackupEntry
<1>14. CASE NewPassRefused
  BY <1>0, <1>14 DEF NewPassRefused
<1>15. CASE NewPassAccepted
  BY <1>15 DEF NewPassAccepted, EnterBackup,
     TInv, TypedForThisScreen, Steps, Purpose, InputPurpose
<1>16. CASE SubmitRestorePath \/ SubmitFilePass
  <2>1. /\ screen = "SetBackup" /\ phase \in {"RestorePath", "RestoreFilePass"}
        /\ screen' = screen /\ confirm' = confirm
        /\ \/ (phase = "RestorePath" /\ passphrase' = passphrase /\ input' = {})
           \/ (phase = "RestoreFilePass" /\ passphrase' = {} /\ input' = input)
        /\ step' = step \/ step' = "EnterPass"
    BY <1>16 DEF SubmitRestorePath, SubmitFilePass, EnterBackup
  <2>2. step = "EnterPass" /\ confirm = {}
    BY <2>1 DEF TInv, Steps
  <2>3. passphrase' = {} /\ input' = {}
    BY <2>1 DEF TInv, TypedForThisScreen, Purpose, InputPurpose
  <2> QED
    BY <2>1, <2>2, <2>3, Emptied
<1>17. CASE ProfilePassMismatch
  BY <1>17 DEF ProfilePassMismatch, EnterBackup,
     TInv, TypedForThisScreen, Steps, Purpose, InputPurpose
<1>18. CASE RestoreFails \/ Restores
  <2>1. /\ screen = "SetBackup" /\ phase = "RestoreProfilePass" /\ passphrase' = {}
        /\ confirm' = {} /\ input' = input /\ step' = "EnterPass"
    BY <1>18 DEF RestoreFails, Restores, EnterProfilePass
  <2>2. input' = {}
    BY <2>1 DEF TInv, TypedForThisScreen, InputPurpose
  <2> QED
    BY <2>1, <2>2, Emptied
<1>19. CASE EscDuress \/ DuressSecond
  BY <1>19 DEF EscDuress, DuressSecond, CancelDuressEntry,
     TInv, TypedForThisScreen, Steps, Purpose, InputPurpose
<1>20. CASE DuressFirst
  BY <1>20 DEF DuressFirst, TInv, TypedForThisScreen, Steps, Purpose, InputPurpose
<1>21. CASE Back \/ ConfirmDelete \/ BackFromPanel
  BY <1>21 DEF Back, ConfirmDelete, BackFromPanel, Panels,
     TInv, TypedForThisScreen, Steps, Purpose, InputPurpose
<1>22. CASE WipeConfirm
  BY <1>22, Emptied DEF WipeConfirm
<1>23. CASE HandleCommand
  <2>1. CASE Quit
    BY <2>1, Emptied DEF Quit, Scrub
  <2>2. CASE Lock
    BY <2>2, LockEmpties DEF Lock
  <2>3. CASE Command
    <3>1. screen = "Main" /\ input' = {} /\ passphrase = {} /\ confirm = {}
      BY <2>3 DEF Command, TInv, TypedForThisScreen, Purpose
    <3>2. ASSUME Stay PROVE TInv'
      BY <3>1, <3>2, Emptied DEF Stay
    <3>3. CASE Clear \/ Listen \/ SetPrefs \/ OtherCommand
      BY <3>2, <3>3 DEF Clear, Listen, SetPrefs, OtherCommand
    <3>4. CASE Wipe \/ \E s \in Panels : Panel(s)
      BY <3>1, <3>4, Emptied DEF Wipe, Panel, Panels
    <3>5. CASE DuressSet \/ BackupExport
      BY <3>1, <3>5, Emptied DEF DuressSet, BackupExport
    <3>6. CASE \E c \in Contacts : DeleteContact(c)
      BY <3>1, <3>6, Emptied DEF DeleteContact
    <3>7. CASE \E c \in Contacts : AddContact(c) \/ SendText(c)
      BY <3>2, <3>7 DEF AddContact, SendText
    <3>8. CASE \E b \in BOOLEAN : SetPosture(b)
      BY <3>2, <3>8 DEF SetPosture
    <3> QED
      BY <1>23, <2>1, <2>2, <3>3, <3>4, <3>5, <3>6, <3>7, <3>8 DEF HandleCommand
  <2>4. \/ Command \/ Lock \/ Quit
    BY <1>23 DEF HandleCommand, Clear, Listen, SetPrefs, OtherCommand, Wipe, Panel, DuressSet,
       BackupExport, DeleteContact, AddContact, SendText, SetPosture
  <2> QED
    BY <2>1, <2>2, <2>3, <2>4
<1> QED
  BY <1>1, <1>2, <1>4, <1>5, <1>6, <1>7, <1>8, <1>9, <1>10, <1>11, <1>12, <1>13, <1>14, <1>15,
     <1>16, <1>17, <1>18, <1>19, <1>20, <1>21, <1>22, <1>23, Zenon
     DEF Next, Typing, UnlockKey, BackupKey, DuressKey

-----------------------------------------------------------------------------
(* The clock and the settings *)

(* The settings of a new profile are settings, and so are those Extreme corrects. *)
LEMMA SettingsKept ==
    /\ \A b \in BOOLEAN : NewPrefs(b) \in Settings
    /\ \A p \in Settings : ExtremeDefaults(p) \in Settings
    /\ \A t \in Timeouts, ttl \in Ttls, b \in BOOLEAN :
          [timeout |-> t, ttl |-> ttl, extreme |-> b] \in Settings
<1>1. /\ Timeouts \subseteq Nat /\ Ttls \subseteq Nat /\ DEFAULT_LOCK_TIMEOUT \in Nat
      /\ EXTREME_LOCK_TIMEOUT \in Nat /\ EXTREME_TTL \in Nat
  BY ShellBounds
<1>2. \A b \in BOOLEAN : NewPrefs(b) \in Settings
  BY <1>1 DEF NewPrefs, Settings
<1>3. ASSUME NEW p \in Settings PROVE ExtremeDefaults(p) \in Settings
  <2>1. CASE ~p.extreme
    BY <2>1 DEF ExtremeDefaults
  <2>2. CASE p.extreme
    <3> PICK t : t = IF p.ttl = 0 THEN EXTREME_TTL ELSE p.ttl
      OBVIOUS
    <3> PICK l : l = IF p.timeout = 0 \/ p.timeout > EXTREME_LOCK_TIMEOUT
                     THEN EXTREME_LOCK_TIMEOUT ELSE p.timeout
      OBVIOUS
    <3>1. t \in Nat /\ l \in Nat
      BY <1>1 DEF Settings
    <3>2. ExtremeDefaults(p) = [p EXCEPT !.ttl = t, !.timeout = l]
      BY <2>2 DEF ExtremeDefaults, Settings
    <3> QED
      BY <3>1, <3>2 DEF Settings
  <2> QED
    BY <2>1, <2>2
<1> QED
  BY <1>1, <1>2, <1>3 DEF Settings

(* Every step keeps both times and resets the one with the other, or lets both pass. *)
LEMMA Times ==
    ASSUME Clock, [Next]_vars
    PROVE  idle' \in 0 .. MaxIdle /\ sinceKey' \in 0 .. idle'
<1>1. MaxIdle \in Nat /\ idle \in 0 .. MaxIdle /\ sinceKey \in 0 .. idle
  BY ShellBounds DEF Clock
<1>2. \/ (idle' = idle /\ sinceKey' = sinceKey)
      \/ (sinceKey' = 0 /\ idle' \in {0, idle})
      \/ (idle' = Count(idle) /\ sinceKey' = Count(sinceKey))
  <2>1. CASE \E touched : Key(touched)
    BY <2>1 DEF Key
  <2>2. CASE NoKey \/ Terminated \/ UNCHANGED vars
    BY <2>2 DEF NoKey, Terminated, vars
  <2>3. CASE Pass
    BY <2>3 DEF Pass
  <2>4. CASE Start
    BY <2>4 DEF Start
  <2>5. CASE Tick
    BY <2>5 DEF Tick
  <2>6. \/ \E touched : Key(touched)
        \/ NoKey \/ Terminated \/ UNCHANGED vars \/ Pass \/ Start \/ Tick
    <3> USE DEF Command
    <3>1. ASSUME CtrlC \/ PanicKey \/ Typing \/ UnlockKey \/ DuressKey
          PROVE  \E touched : Key(touched)
      BY <3>1 DEF CtrlC, PanicKey, Typing, TypeSecret, EraseSecret, TypeInput, EraseInput,
         UnlockKey, EscUnlock, Refused, CreateFirst, CreateMismatch, CreateSaved, CreateFails,
         Unlocks, UnlockFails, UnlocksDecoy, BeginRestore, DuressKey, EscDuress, DuressFirst,
         DuressSecond
    <3>2. ASSUME BackupKey \/ Back \/ BackFromPanel \/ WipeConfirm \/ ConfirmDelete
          PROVE  \E touched : Key(touched)
      BY <3>2 DEF BackupKey, EscBackup, NewPassRefused, NewPassAccepted, SubmitExport,
         SubmitRestorePath, SubmitFilePass, ProfilePassMismatch, RestoreFails, Restores,
         EnterBackup, Back, BackFromPanel, WipeConfirm, ConfirmDelete
    <3>3. ASSUME HandleCommand PROVE \E touched : Key(touched)
      BY <3>3 DEF HandleCommand, Quit, Lock, Clear, Wipe, DuressSet, BackupExport, Listen,
         SetPrefs, OtherCommand, Panel, DeleteContact, AddContact, SendText, SetPosture
    <3> QED
      BY <3>1, <3>2, <3>3, Zenon DEF Next
  <2> QED
    BY <2>1, <2>2, <2>3, <2>4, <2>5, <2>6, Zenon
<1> QED
  BY <1>1, <1>2 DEF Count

(* The screen is one there is, and settings are settings, in memory and on disk. *)
LEMMA NextClock == Clock /\ [Next]_vars => Clock'
<1> SUFFICES ASSUME Clock, [Next]_vars PROVE Clock'
  OBVIOUS
<1> DEFINE Goal == screen' \in Screens /\ prefs' \in Settings /\ disk'.prefs \in Settings
<1> SUFFICES Goal
  BY Times DEF Clock
<1>0. screen \in Screens /\ prefs \in Settings /\ disk.prefs \in Settings
  BY DEF Clock
<1>new. /\ \A b \in BOOLEAN : NewPrefs(b) \in Settings
        /\ NoState.prefs \in Settings
        /\ \A p \in Settings : ExtremeDefaults(p) \in Settings
  BY SettingsKept DEF NoState
<1> USE DEF place, buffers, book, stored, Panels, Screens
<1>1. ASSUME UNCHANGED <<prefs, disk>>, screen' \in Screens PROVE Goal
  BY <1>0, <1>1
<1>2. ASSUME NEW p, NEW cs, NEW prf \in Settings, PersistAs(p, cs, prf) PROVE disk'.prefs \in Settings
  BY <1>0, <1>2 DEF PersistAs
<1>3. ASSUME LockUi PROVE Goal
  BY <1>0, <1>2, <1>3 DEF LockUi
<1>4. CASE Pass
  BY <1>0, <1>3, <1>4 DEF Pass
<1>5. CASE NoKey \/ Tick \/ Typing \/ UNCHANGED vars
  BY <1>0, <1>5 DEF NoKey, Tick, Typing, TypeSecret, EraseSecret, TypeInput, EraseInput, vars
<1>6. CASE Terminated \/ CtrlC \/ PanicKey
  BY <1>0, <1>new, <1>6 DEF Terminated, CtrlC, PanicKey, Scrub
<1>7. CASE Start
  BY <1>0, <1>new, <1>7 DEF Start
<1>8. CASE EscUnlock \/ Refused \/ CreateFirst \/ CreateMismatch \/ CreateFails \/ UnlockFails
           \/ BeginRestore
  BY <1>0, <1>new, <1>8 DEF EscUnlock, Refused, CreateFirst, CreateMismatch, CreateFails,
     UnlockFails, BeginRestore
<1>9. CASE CreateSaved \/ UnlocksDecoy
  <2>1. AdoptNewSession
    BY <1>9 DEF CreateSaved, UnlocksDecoy
  <2>2. prefs.extreme \in BOOLEAN
    BY <1>0 DEF Settings
  <2>3. NewPrefs(prefs.extreme) \in Settings /\ prefs' \in Settings
    BY <1>new, <2>1, <2>2 DEF AdoptNewSession
  <2> QED
    BY <2>1, <2>3 DEF AdoptNewSession
<1>10. CASE Unlocks
  BY <1>0, <1>new, <1>2, <1>10 DEF Unlocks
<1>11. CASE BackupKey
  <2>1. CASE Restores
    <3>1. prefs' \in Settings
      BY <2>1, SettingsKept DEF Restores
    <3> QED
      BY <2>1, <3>1 DEF Restores
  <2>2. CASE ~Restores
    BY <1>0, <1>11, <2>2 DEF BackupKey, EscBackup, NewPassRefused, NewPassAccepted, SubmitExport,
       SubmitRestorePath, SubmitFilePass, ProfilePassMismatch, RestoreFails, CancelBackupEntry,
       EnterBackup
  <2> QED
    BY <2>1, <2>2
<1>12. CASE DuressKey
  BY <1>0, <1>2, <1>12 DEF DuressKey, EscDuress, DuressFirst, DuressSecond, CancelDuressEntry, Persist
<1>13. CASE Back \/ BackFromPanel
  BY <1>0, <1>13 DEF Back, BackFromPanel
<1>14. CASE WipeConfirm
  BY <1>new, <1>14 DEF WipeConfirm
<1>15. CASE ConfirmDelete
  BY <1>0, <1>2, <1>15 DEF ConfirmDelete
<1>16. CASE HandleCommand
  <2>1. CASE Quit
    BY <1>0, <2>1 DEF Quit, Scrub
  <2>2. CASE Lock
    BY <1>3, <2>2 DEF Lock
  <2>3. CASE Clear \/ Wipe \/ DuressSet \/ BackupExport \/ OtherCommand
    BY <1>0, <2>3 DEF Clear, Wipe, DuressSet, BackupExport, OtherCommand, Stay
  <2>4. CASE Listen
    BY <1>0, <1>2, <2>4 DEF Listen, Stay
  <2>5. CASE SetPrefs
    <3>1. screen' = screen /\ PersistAs(session, contacts, prefs')
      BY <2>5 DEF SetPrefs, Stay
    <3>2. prefs' \in Settings
      <4>1. \/ \E t \in Timeouts : prefs' = [prefs EXCEPT !.timeout = t]
            \/ \E t \in Ttls : prefs' = [prefs EXCEPT !.ttl = t]
        BY <2>5 DEF SetPrefs
      <4> QED
        BY <1>0, <4>1, ShellBounds DEF Settings
    <3> QED
      BY <1>0, <1>2, <3>1, <3>2
  <2>6. CASE \E s \in Panels : Panel(s)
    BY <1>0, <2>6 DEF Panel
  <2>7. CASE \E c \in Contacts : DeleteContact(c) \/ AddContact(c) \/ SendText(c)
    BY <1>0, <1>2, <2>7 DEF DeleteContact, AddContact, SendText, Stay
  <2>8. CASE \E b \in BOOLEAN : SetPosture(b)
    <3>1. PICK b \in BOOLEAN : SetPosture(b)
      BY <2>8
    <3>2. [prefs EXCEPT !.extreme = b] \in Settings
      BY <1>0 DEF Settings
    <3> QED
      BY <1>0, <1>new, <1>2, <3>1, <3>2 DEF SetPosture, Stay
  <2> QED
    BY <1>16, <2>1, <2>2, <2>3, <2>4, <2>5, <2>6, <2>7, <2>8 DEF HandleCommand
<1> HIDE DEF Goal
<1> QED
  BY <1>4, <1>5, <1>6, <1>7, <1>8, <1>9, <1>10, <1>11, <1>12, <1>13, <1>14, <1>15, <1>16, Zenon
     DEF Next, UnlockKey

(* What is drawn comes of the pass before it. *)
LEMMA NextDrawn == Places /\ Clock /\ DrawnIsCurrent /\ [Next]_vars => DrawnIsCurrent'
<1> SUFFICES ASSUME Places, Clock, DrawnIsCurrent, [Next]_vars, pc' = "poll", screen' # "exit"
             PROVE  /\ \A l \in lines' : 0 \notin l.left
                    /\ session' # 0 /\ prefs'.timeout # 0 => sinceKey' < prefs'.timeout
  BY DEF DrawnIsCurrent, Open
<1>1. CASE UNCHANGED vars
  BY <1>1 DEF DrawnIsCurrent, Open, vars, place, buffers, book, stored
<1>2. CASE Pass
  <2>1. CASE IdleShouldLock
    BY <1>2, <2>1 DEF Pass, LockUi
  <2>2. CASE ~IdleShouldLock
    <3>1. \E heard : lines' = Unexpired(lines \cup {Chat(c) : c \in heard})
      BY <1>2, <2>2 DEF Pass
    <3>2. \A l \in lines' : 0 \notin l.left
      BY <3>1 DEF Unexpired
    <3>3. UNCHANGED <<screen, session, prefs, idle, sinceKey>>
      BY <1>2, <2>2 DEF Pass, place
    <3>4. ASSUME session # 0, prefs.timeout # 0 PROVE sinceKey < prefs.timeout
      <4>1. screen \in IdleScreens
        BY <3>4 DEF Places, Quiet, Clock, IdleScreens
      <4>2. ~(idle >= prefs.timeout)
        BY <2>2, <3>4, <4>1 DEF IdleShouldLock, Open
      <4>3. idle \in Nat /\ sinceKey \in 0 .. idle /\ prefs.timeout \in Nat
        BY ShellBounds DEF Clock, Settings
      <4> QED
        BY <4>2, <4>3
    <3> QED
      BY <3>2, <3>3, <3>4
  <2> QED
    BY <2>1, <2>2
<1>3. pc' = "top" \/ Pass \/ UNCHANGED vars
  <2> USE DEF Key, Command
  <2>1. ASSUME CtrlC \/ PanicKey \/ Typing \/ UnlockKey \/ DuressKey \/ NoKey \/ Tick \/ Terminated
               \/ Start
        PROVE  pc' = "top"
    BY <2>1 DEF CtrlC, PanicKey, Typing, TypeSecret, EraseSecret, TypeInput, EraseInput,
       UnlockKey, EscUnlock, Refused, CreateFirst, CreateMismatch, CreateSaved, CreateFails,
       Unlocks, UnlockFails, UnlocksDecoy, BeginRestore, DuressKey, EscDuress, DuressFirst,
       DuressSecond, NoKey, Tick, Terminated, Start
  <2>2. ASSUME BackupKey \/ Back \/ BackFromPanel \/ WipeConfirm \/ ConfirmDelete
        PROVE  pc' = "top"
    BY <2>2 DEF BackupKey, EscBackup, NewPassRefused, NewPassAccepted, SubmitExport,
       SubmitRestorePath, SubmitFilePass, ProfilePassMismatch, RestoreFails, Restores,
       EnterBackup, Back, BackFromPanel, WipeConfirm, ConfirmDelete
  <2>3. ASSUME HandleCommand PROVE pc' = "top"
    BY <2>3 DEF HandleCommand, Quit, Lock, Clear, Wipe, DuressSet, BackupExport, Listen,
       SetPrefs, OtherCommand, Panel, DeleteContact, AddContact, SendText, SetPosture
  <2> QED
    BY <2>1, <2>2, <2>3, Zenon DEF Next
<1> QED
  BY <1>1, <1>2, <1>3

-----------------------------------------------------------------------------
(* The inductive invariant *)

IInv == Places /\ TInv /\ Clock /\ DrawnIsCurrent

(* The invariant holds at first, ... *)
LEMMA InitIInv == Init => IInv
<1> SUFFICES ASSUME Init PROVE IInv
  OBVIOUS
<1>1. Places
  BY DEF Init, Places, Quiet, Restoring, NoState
<1>2. TInv
  BY DEF Init, TInv, TypedForThisScreen, Steps
<1>3. Clock
  <2>1. prefs \in Settings /\ disk.prefs \in Settings
    BY SettingsKept DEF Init, NoState
  <2>2. screen \in Screens /\ idle \in 0 .. MaxIdle /\ sinceKey \in 0 .. idle
    BY ShellBounds DEF Init, Screens
  <2> QED
    BY <2>1, <2>2 DEF Clock
<1>4. DrawnIsCurrent
  BY DEF Init, DrawnIsCurrent
<1> QED
  BY <1>1, <1>2, <1>3, <1>4 DEF IInv

(* ... after every step, ... *)
LEMMA NextIInv == IInv /\ [Next]_vars => IInv'
BY NextPlaces, NextTyped, NextClock, NextDrawn DEF IInv

(* ... and so throughout. *)
LEMMA Invariant == Spec => []IInv
BY InitIInv, NextIInv, PTL DEF Spec

-----------------------------------------------------------------------------
(* THREATMODEL.md:44, for any contacts, settings and profiles: once the session is closed no *)
(* key, link, queue, service, backup, draft or line is in memory, by whichever of the dozen   *)
(* ways out; and of a deleted contact no line is left.                                      *)
THEOREM NothingIsLeft == Spec => []NothingLeft
<1>1. IInv => NothingLeft
  BY DEF IInv, Places, Quiet, TInv, TypedForThisScreen, Purpose, InputPurpose, NothingLeft
<1> QED
  BY <1>1, Invariant, PTL

(* What was typed for one screen never reaches another. *)
THEOREM TypedStaysHere == Spec => []TypedForThisScreen
<1>1. IInv => TypedForThisScreen
  BY DEF IInv, TInv
<1> QED
  BY <1>1, Invariant, PTL

(* expire_messages and idle_should_lock, for all lifetimes and timeouts: no line past its     *)
(* time is drawn, and no session that was without a key for its lock timeout.               *)
THEOREM ScreenIsCurrent == Spec => []DrawnIsCurrent
<1>1. IInv => DrawnIsCurrent
  BY DEF IInv
<1> QED
  BY <1>1, Invariant, PTL

(* No step puts a profile in place of another one but the decoy of a duress passphrase: an    *)
(* open session is the one on disk, and a prompt that creates one finds none there.          *)
THEOREM ProfilesStay == Spec => ProfileNotReplaced
<1> DEFINE Stays == StateExists /\ disk'.owner # disk.owner => disk'.owner = 0 \/ UnlocksDecoy
<1>1. ASSUME Places, [Next]_vars, StateExists, disk'.owner # disk.owner, disk'.owner # 0
      PROVE  UnlocksDecoy
  <2> USE <1>1 DEF Places, stored, StateExists
  <2>1. ASSUME NEW cs, NEW prf, PersistAs(session, cs, prf) PROVE FALSE
    BY <2>1 DEF PersistAs
  <2>2. ASSUME NEW cs, NEW prf, PersistAs(disk.owner, cs, prf) PROVE FALSE
    BY <2>2 DEF PersistAs
  <2>3. ASSUME UNCHANGED disk PROVE FALSE
    BY <2>3
  <2>4. ASSUME LockUi PROVE FALSE
    BY <2>1, <2>3, <2>4 DEF LockUi
  <2>5. ASSUME Pass \/ NoKey \/ Tick \/ Terminated \/ Start \/ UNCHANGED vars PROVE FALSE
    BY <2>3, <2>4, <2>5 DEF Pass, NoKey, Tick, Terminated, Start, vars
  <2>6. ASSUME CtrlC \/ PanicKey \/ WipeConfirm \/ UnlockFails PROVE FALSE
    <3>1. disk' = disk \/ disk' = NoState
      BY <2>6 DEF CtrlC, PanicKey, WipeConfirm, UnlockFails
    <3>2. NoState.owner = 0
      BY DEF NoState
    <3> QED
      BY <2>3, <3>1, <3>2
  <2>7. ASSUME Typing \/ EscUnlock \/ Refused \/ CreateFirst \/ CreateMismatch \/ CreateFails
               \/ BeginRestore
        PROVE  FALSE
    BY <2>3, <2>7 DEF Typing, TypeSecret, EraseSecret, TypeInput, EraseInput, EscUnlock, Refused,
       CreateFirst, CreateMismatch, CreateFails, BeginRestore
  <2>8. ASSUME CreateSaved PROVE FALSE
    BY <2>8 DEF CreateSaved, EnterUnlock
  <2>9. ASSUME Unlocks PROVE FALSE
    BY <2>2, <2>9 DEF Unlocks
  <2>10. ASSUME BackupKey PROVE FALSE
    BY <2>3, <2>10 DEF BackupKey, EscBackup, NewPassRefused, NewPassAccepted, SubmitExport,
       SubmitRestorePath, SubmitFilePass, ProfilePassMismatch, RestoreFails, Restores
  <2>11. ASSUME DuressKey PROVE FALSE
    BY <2>1, <2>3, <2>11 DEF DuressKey, EscDuress, DuressFirst, DuressSecond, Persist
  <2>12. ASSUME Back \/ BackFromPanel \/ ConfirmDelete PROVE FALSE
    BY <2>1, <2>3, <2>12 DEF Back, BackFromPanel, ConfirmDelete
  <2>13. ASSUME HandleCommand PROVE FALSE
    BY <2>1, <2>3, <2>4, <2>13 DEF HandleCommand, Quit, Lock, Clear, Wipe, DuressSet,
       BackupExport, Listen, SetPrefs, OtherCommand, Panel, DeleteContact, AddContact, SendText,
       SetPosture
  <2> QED
    BY <2>5, <2>6, <2>7, <2>8, <2>9, <2>10, <2>11, <2>12, <2>13, Zenon DEF Next, UnlockKey
<1>2. IInv /\ [Next]_vars => [Stays]_vars
  BY <1>1 DEF IInv
<1>3. Spec => [][Stays]_vars
  BY <1>2, Invariant, PTL DEF Spec
<1> QED
  BY <1>3 DEF ProfileNotReplaced
==============================================================================
