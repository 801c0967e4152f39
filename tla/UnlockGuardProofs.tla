--------------------------- MODULE UnlockGuardProofs ---------------------------
(***************************************************************************)
(* Proofs about UnlockGuard, for all limits, thresholds and bounds.        *)
(*                                                                         *)
(* On top of the types, CountInv ties the count on disk to the passphrases *)
(* tested and the attempts recorded, WipeInv says how far a wipe has come, *)
(* and ClockInv that the dead-man file holds the day it was last written,  *)
(* but for the days the clock was set back.  Each is inductive.            *)
(***************************************************************************)
EXTENDS UnlockGuard, TLAPS

(* Types *)

(* The bounds are numbers.                                                 *)
LEMMA Bounds == /\ MaxTime \in Nat /\ MaxBack \in Nat /\ MaxMishaps \in Nat
                /\ FAIL_THRESHOLD \in Nat \ {0}
                /\ \A n \in FailLimits \cup DeadmanDays : n \in Nat \ {0}
  BY RangesAreNat

(* The initial state has the types.                                        *)
LEMMA TypeInit == Init => TypeOK
<1> SUFFICES ASSUME Init PROVE TypeOK
  OBVIOUS
<1>1. FilesTyped
  BY DEF Init, FilesTyped
<1>2. NumbersTyped
  BY Bounds DEF Init, NumbersTyped
<1>3. ControlTyped
  BY DEF Init, ControlTyped, Passphrase, WipeStages
<1>4. FlagsTyped
  BY DEF Init, FlagsTyped
<1> QED
  BY <1>1, <1>2, <1>3, <1>4 DEF TypeOK

(* Every step keeps the types of the files.                                *)
LEMMA FilesStep == TypeOK /\ [Next]_vars => FilesTyped'
<1> SUFFICES ASSUME TypeOK, [Next]_vars PROVE FilesTyped'
  OBVIOUS
<1> USE DEF FilesTyped, files
<1> FilesTyped /\ time \in Nat /\ back \in Nat
  BY Bounds DEF TypeOK, NumbersTyped
<1>1. Now \in Nat
  BY DEF Now
<1>2. ASSUME TouchDeadman
      PROVE  deadman' \in SUBSET DeadmanConfig /\ \A c, d \in deadman' : c = d
  <2>1. CASE deadman' = deadman
    BY <2>1
  <2>2. CASE /\ ~Damaged(deadman, "days")
             /\ deadman' = {[cfg EXCEPT !.last = Now] : cfg \in deadman}
    BY <1>1, <2>2 DEF Damaged, DeadmanConfig
  <2> QED
    BY <1>2, <2>1, <2>2 DEF TouchDeadman
<1>3. ASSUME AttemptSucceeded
      PROVE  failwipe' \in SUBSET FailWipeConfig /\ \A c, d \in failwipe' : c = d
  BY <1>3 DEF AttemptSucceeded, FailWipeConfig
<1>4. ASSUME UNCHANGED files PROVE FilesTyped'
  BY <1>4
<1>5. CASE UNCHANGED vars
  BY <1>4, <1>5 DEF vars
<1>6. CASE \/ Start \/ StartOverdue \/ TryWipes \/ DuressMatches \/ LastAttemptFails
           \/ AttemptFails \/ CooldownEnds
           \/ \E pass \in Passphrase : TryUncounted(pass)
  BY <1>4, <1>6 DEF Start, StartOverdue, TryWipes, DuressMatches, LastAttemptFails,
     AttemptFails, CooldownEnds, TryUncounted
<1>7. ASSUME NEW pass \in Passphrase, TryCounted(pass) PROVE FilesTyped'
  BY <1>7 DEF TryCounted, Damaged, FailWipeConfig
<1>8. CASE UnlockSucceeds
  BY <1>2, <1>3, <1>8 DEF UnlockSucceeds
<1>9. CASE WipeFile
  BY <1>9 DEF WipeFile
<1>10. CASE \/ RemovalFails \/ FailAfterWipe \/ DecoyFails \/ PromptAfterWipe
            \/ CreateAfterWipe \/ QuitAfterWipe \/ WipeConfirm \/ PanicWipe \/ Quit \/ Crash
            \/ DayPasses \/ ClockIsSet
  BY <1>4, <1>10 DEF RemovalFails, FailAfterWipe, DecoyFails, PromptAfterWipe,
     CreateAfterWipe, QuitAfterWipe, WipeConfirm, PanicWipe, Quit, Crash, DayPasses, ClockIsSet
<1>11. CASE DecoyAfterWipe
  BY <1>2, <1>3, <1>11 DEF DecoyAfterWipe
<1>12. CASE CreateProfile
  BY <1>12 DEF CreateProfile
<1>13. CASE LockUi
  BY <1>2, <1>13 DEF LockUi
<1>14. ASSUME NEW limit \in FailLimits, SetFailwipe(limit) PROVE FilesTyped'
  BY <1>14 DEF SetFailwipe, FailWipeConfig
<1>15. ASSUME NEW action \in {"wipe", "decoy"}, SetDuress(action) PROVE FilesTyped'
  BY <1>15 DEF SetDuress
<1>16. ASSUME NEW days \in DeadmanDays, SetDeadman(days) PROVE FilesTyped'
  BY <1>1, <1>16 DEF SetDeadman, DeadmanConfig
<1>17. CASE ClearFailwipe \/ ClearDuress \/ ClearDeadman
  BY <1>17 DEF ClearFailwipe, ClearDuress, ClearDeadman
<1>18. CASE FileGetsDamaged
  BY <1>18 DEF FileGetsDamaged, FailWipeConfig, DeadmanConfig
<1> QED
  BY <1>5, <1>6, <1>7, <1>8, <1>9, <1>10, <1>11, <1>12, <1>13, <1>14, <1>15, <1>16, <1>17,
     <1>18 DEF Next

(* Every step keeps the types of the numbers.                              *)
LEMMA NumbersStep == TypeOK /\ [Next]_vars => NumbersTyped'
<1> SUFFICES ASSUME TypeOK, [Next]_vars PROVE NumbersTyped'
  OBVIOUS
<1> USE Bounds DEF NumbersTyped
<1> NumbersTyped
  BY DEF TypeOK
<1>1. ASSUME Mishap \/ Quiet PROVE mishaps' \in 0 .. MaxMishaps
  BY <1>1 DEF Mishap, Quiet
<1>2. ASSUME FailUnlock PROVE failures' \in 0 .. FAIL_THRESHOLD
  BY <1>2 DEF FailUnlock
<1>3. ASSUME CountWrong PROVE wrong' \in Nat
  BY <1>3 DEF CountWrong
<1>4. ASSUME TouchDeadman PROVE lastTouch' \in Nat
  BY <1>4 DEF TouchDeadman
<1>5. ASSUME AttemptSucceeded PROVE tries' \in Nat /\ mishaps' \in 0 .. MaxMishaps
  BY <1>1, <1>5 DEF AttemptSucceeded
<1> USE DEF clock, prompt, history
<1>6. CASE UNCHANGED vars
  BY <1>6 DEF vars
<1>7. CASE \/ Start \/ StartOverdue \/ DuressMatches \/ CooldownEnds
           \/ \E pass \in Passphrase : TryUncounted(pass) \/ TryCounted(pass)
  BY <1>7 DEF Start, StartOverdue, ShowPrompt, DuressMatches, CooldownEnds, TryUncounted,
     TryCounted
<1>8. CASE TryWipes
  BY <1>1, <1>8 DEF TryWipes
<1>9. CASE UnlockSucceeds
  BY <1>4, <1>5, <1>9 DEF UnlockSucceeds
<1>10. CASE LastAttemptFails \/ AttemptFails
  BY <1>2, <1>3, <1>10 DEF LastAttemptFails, AttemptFails
<1>11. CASE WipeFile
  BY <1>11 DEF WipeFile
<1>12. CASE RemovalFails \/ Crash \/ FileGetsDamaged
  BY <1>1, <1>12 DEF RemovalFails, Crash, FileGetsDamaged
<1>13. CASE FailAfterWipe \/ DecoyFails
  BY <1>1, <1>2, <1>13 DEF FailAfterWipe, DecoyFails
<1>14. CASE DecoyAfterWipe
  BY <1>4, <1>5, <1>14 DEF DecoyAfterWipe
<1>15. CASE \/ PromptAfterWipe \/ CreateAfterWipe \/ QuitAfterWipe \/ CreateProfile
            \/ WipeConfirm \/ PanicWipe \/ Quit
  BY <1>15 DEF PromptAfterWipe, ShowPrompt, CreateAfterWipe, QuitAfterWipe, CreateProfile,
     WipeConfirm, PanicWipe, Quit
<1>16. CASE LockUi
  BY <1>4, <1>16 DEF LockUi
<1>17. CASE \/ ClearFailwipe \/ ClearDuress \/ ClearDeadman
            \/ \E limit \in FailLimits : SetFailwipe(limit)
            \/ \E action \in {"wipe", "decoy"} : SetDuress(action)
            \/ \E days \in DeadmanDays : SetDeadman(days)
  BY <1>17 DEF ClearFailwipe, ClearDuress, ClearDeadman, SetFailwipe, SetDuress, SetDeadman
<1>18. CASE DayPasses \/ ClockIsSet
  BY <1>18 DEF DayPasses, ClockIsSet
<1> QED
  BY <1>6, <1>7, <1>8, <1>9, <1>10, <1>11, <1>12, <1>13, <1>14, <1>15, <1>16, <1>17, <1>18
  DEF Next

(* A wipe goes from one of its stages to the next.                         *)
LEMMA WipeGoesOn ==
    ASSUME NEW stage \in WipeStages, stage # <<>>
    PROVE  Tail(stage) \in WipeStages /\ (Tail(stage) = <<>> \/ Head(Tail(stage)) # "store")
<1>1. CASE stage = <<"failwipe">>
  BY <1>1 DEF WipeStages
<1>2. CASE stage = <<"deadman", "failwipe">>
  BY <1>2 DEF WipeStages
<1>3. CASE stage = <<"duress", "deadman", "failwipe">>
  BY <1>3 DEF WipeStages
<1>4. CASE stage = <<"store", "duress", "deadman", "failwipe">>
  BY <1>4 DEF WipeStages
<1> QED
  BY <1>1, <1>2, <1>3, <1>4 DEF WipeStages

(* Every step keeps the types of the rest.                                 *)
LEMMA ControlStep == TypeOK /\ [Next]_vars => ControlTyped'
<1> SUFFICES ASSUME TypeOK, [Next]_vars PROVE ControlTyped'
  OBVIOUS
<1> USE DEF ControlTyped, Passphrase
<1> ControlTyped
  BY DEF TypeOK
<1> DEFINE Places == {"off", "failed", "decoy", "prompt", "create", "quit"}
<1>1. ASSUME NEW then \in Places, BeginWipe(then)
      PROVE  wiping' \in WipeStages /\ afterWipe' \in Places
  BY <1>1 DEF BeginWipe, WipeStages
<1> USE DEF prompt, running
<1>2. CASE UNCHANGED vars
  BY <1>2 DEF vars
<1>3. CASE Start
  BY <1>3 DEF Start, ShowPrompt
<1>4. CASE StartOverdue \/ TryWipes \/ DuressMatches \/ LastAttemptFails \/ WipeConfirm
           \/ PanicWipe
  BY <1>1, <1>4 DEF StartOverdue, TryWipes, DuressMatches, LastAttemptFails, WipeConfirm,
     PanicWipe
<1>5. ASSUME NEW pass \in Passphrase, TryUncounted(pass) \/ TryCounted(pass)
      PROVE  ControlTyped'
  <2>1. PICK counted \in BOOLEAN : attempt' = {[pass |-> pass, counted |-> counted]}
    BY <1>5 DEF TryUncounted, TryCounted
  <2>2. UNCHANGED <<screen, opener, wiping, afterWipe>>
    BY <1>5 DEF TryUncounted, TryCounted
  <2> QED
    BY <2>1, <2>2
<1>6. CASE UnlockSucceeds
  BY <1>6 DEF UnlockSucceeds
<1>7. CASE AttemptFails \/ CooldownEnds \/ ClockIsSet \/ DayPasses \/ FileGetsDamaged
  BY <1>7 DEF AttemptFails, CooldownEnds, ClockIsSet, DayPasses, FileGetsDamaged
<1>8. CASE WipeFile \/ RemovalFails
  BY <1>8, WipeGoesOn DEF WipeFile, RemovalFails
<1>9. CASE \/ FailAfterWipe \/ DecoyAfterWipe \/ DecoyFails \/ PromptAfterWipe
           \/ CreateAfterWipe \/ QuitAfterWipe
  BY <1>9 DEF FailAfterWipe, DecoyAfterWipe, DecoyFails, PromptAfterWipe, CreateAfterWipe,
     QuitAfterWipe, WipeDone, ShowPrompt
<1>10. CASE CreateProfile \/ LockUi \/ Quit
  BY <1>10 DEF CreateProfile, LockUi, Quit
<1>11. CASE Crash
  BY <1>11 DEF Crash, WipeStages
<1>12. CASE \/ ClearFailwipe \/ ClearDuress \/ ClearDeadman
            \/ \E limit \in FailLimits : SetFailwipe(limit)
            \/ \E action \in {"wipe", "decoy"} : SetDuress(action)
            \/ \E days \in DeadmanDays : SetDeadman(days)
  BY <1>12 DEF ClearFailwipe, ClearDuress, ClearDeadman, SetFailwipe, SetDuress, SetDeadman
<1> QED
  BY <1>2, <1>3, <1>4, <1>5, <1>6, <1>7, <1>8, <1>9, <1>10, <1>11, <1>12 DEF Next

(* Every step keeps the flags Boolean.                                     *)
LEMMA FlagsStep == TypeOK /\ [Next]_vars => FlagsTyped'
<1> SUFFICES ASSUME TypeOK, [Next]_vars PROVE FlagsTyped'
  OBVIOUS
<1> USE DEF FlagsTyped
<1> FlagsTyped
  BY DEF TypeOK
<1>0. ASSUME FailUnlock PROVE cooling' \in BOOLEAN
  BY <1>0 DEF FailUnlock
<1> USE DEF prompt, history, ShowPrompt, OldCount
<1>1. CASE UNCHANGED vars
  BY <1>1 DEF vars
<1>2. CASE \/ Start \/ StartOverdue \/ TryWipes \/ UnlockSucceeds \/ DuressMatches
           \/ LastAttemptFails
           \/ \E pass \in Passphrase : TryUncounted(pass) \/ TryCounted(pass)
  BY <1>2 DEF Start, StartOverdue, TryWipes, UnlockSucceeds, DuressMatches, LastAttemptFails,
     TryUncounted, TryCounted
<1>3. CASE AttemptFails \/ CooldownEnds \/ FailAfterWipe \/ DecoyFails
  BY <1>0, <1>3 DEF AttemptFails, CooldownEnds, FailAfterWipe, DecoyFails
<1>4. CASE WipeFile \/ RemovalFails
  BY <1>4 DEF WipeFile, RemovalFails
<1>5. CASE DecoyAfterWipe \/ CreateProfile
  BY <1>5 DEF DecoyAfterWipe, CreateProfile
<1>6. CASE PromptAfterWipe \/ CreateAfterWipe \/ QuitAfterWipe \/ LockUi
  BY <1>6 DEF PromptAfterWipe, CreateAfterWipe, QuitAfterWipe, LockUi
<1>7. CASE WipeConfirm \/ PanicWipe \/ Quit \/ Crash \/ DayPasses \/ ClockIsSet \/ FileGetsDamaged
  BY <1>7 DEF WipeConfirm, PanicWipe, Quit, Crash, DayPasses, ClockIsSet, FileGetsDamaged
<1>8. CASE \/ ClearFailwipe \/ ClearDuress \/ ClearDeadman
           \/ \E limit \in FailLimits : SetFailwipe(limit)
           \/ \E action \in {"wipe", "decoy"} : SetDuress(action)
           \/ \E days \in DeadmanDays : SetDeadman(days)
  BY <1>8 DEF ClearFailwipe, ClearDuress, ClearDeadman, SetFailwipe, SetDuress, SetDeadman
<1> QED
  BY <1>1, <1>2, <1>3, <1>4, <1>5, <1>6, <1>7, <1>8 DEF Next

(* TypeOK: the types hold in every state.                                  *)
THEOREM TypeCorrect == Spec => []TypeOK
<1>1. TypeOK /\ [Next]_vars => TypeOK'
  BY FilesStep, NumbersStep, ControlStep, FlagsStep DEF TypeOK
<1> QED
  BY TypeInit, <1>1, PTL DEF Spec

----------------------------------------------------------------------------
Attempt == [pass : Passphrase, counted : BOOLEAN]
RawConfig == [limit : Nat, count : Nat]
Typed == /\ wrong \in Nat /\ tries \in Nat
         /\ failwipe \subseteq RawConfig /\ attempt \subseteq Attempt

(* An attempt under way was counted before; it has not been judged yet, so *)
(* the count is ahead of the wrong passphrases by one.                     *)
CountInv ==
    /\ \A cfg \in failwipe : cfg.limit # 0 =>
          wrong <= cfg.count /\ cfg.count <= cfg.limit
    /\ \A a \in attempt : IF a.counted
                          THEN \A cfg \in failwipe : cfg.limit # 0 => wrong < cfg.count
                          ELSE failwipe = {}
    /\ ~leftover => \A cfg \in failwipe : cfg.limit # 0 => cfg.count <= tries

----------------------------------------------------------------------------
(* The count *)

(* What the proofs about the count use of TypeOK.                          *)
LEMMA TypedCounts == TypeOK => Typed
<1> SUFFICES ASSUME TypeOK PROVE Typed
  OBVIOUS
<1>1. FailWipeConfig \subseteq RawConfig
  BY Bounds DEF FailWipeConfig, RawConfig
<1> QED
  BY <1>1 DEF TypeOK, FilesTyped, NumbersTyped, ControlTyped, Typed, Attempt

(* The count starts right.                                                 *)
LEMMA CountInit == Init => CountInv
  BY DEF Init, CountInv

(* Every step keeps the count right.                                       *)
LEMMA CountStep == TypeOK /\ CountInv /\ [Next]_vars => CountInv'
<1> SUFFICES ASSUME Typed, CountInv, [Next]_vars PROVE CountInv'
  BY TypedCounts
<1> USE DEF Typed, CountInv, RawConfig, Attempt
<1>1. ASSUME UNCHANGED <<wrong, tries, failwipe, attempt, leftover>> PROVE CountInv'
  BY <1>1
<1>2. ASSUME UNCHANGED <<wrong, tries, failwipe, leftover>>, attempt' = {} PROVE CountInv'
  BY <1>2
<1>3. CASE UNCHANGED vars
  BY <1>1, <1>3 DEF vars, files, running, history
<1>4. CASE Start \/ StartOverdue
  BY <1>1, <1>4 DEF Start, StartOverdue, files, running, history
<1>5. ASSUME NEW pass \in Passphrase, TryUncounted(pass) PROVE CountInv'
  BY <1>5 DEF TryUncounted, MayTry, files, history
<1>6. ASSUME NEW pass \in Passphrase, TryCounted(pass) PROVE CountInv'
  <2>1. /\ UNCHANGED <<wrong, leftover>> /\ tries' = tries + 1
        /\ failwipe' = {[cfg EXCEPT !.count = @ + 1] : cfg \in failwipe}
        /\ attempt' = {[pass |-> pass, counted |-> TRUE]}
    BY <1>6 DEF TryCounted
  <2>2. \A cfg \in failwipe : cfg.count < cfg.limit
    BY <1>6 DEF TryCounted, FailLimitUsedUp
  <2>3. \A new \in failwipe' : \E old \in failwipe :
            new = [limit |-> old.limit, count |-> old.count + 1]
    BY <2>1
  <2> QED
    BY <2>1, <2>2, <2>3
<1>7. CASE TryWipes
  BY <1>1, <1>7 DEF TryWipes, files
<1>8. ASSUME AttemptSucceeded, attempt' \subseteq attempt, attempt' = {}, wrong' = 0,
             ~leftover' => ~leftover \/ ~OldCount(failwipe')
      PROVE  CountInv'
  <2>1. CASE UNCHANGED <<failwipe, tries>>
    BY <1>8, <2>1 DEF OldCount
  <2>2. CASE failwipe' = {[cfg EXCEPT !.count = 0] : cfg \in failwipe} /\ tries' = 0
    <3>1. \A new \in failwipe' : \E old \in failwipe :
              new = [limit |-> old.limit, count |-> 0]
      BY <2>2
    <3> QED
      BY <1>8, <2>2, <3>1
  <2> QED
    BY <1>8, <2>1, <2>2 DEF AttemptSucceeded
<1>9. CASE UnlockSucceeds
  BY <1>8, <1>9 DEF UnlockSucceeds
<1>10. CASE DuressMatches
  BY <1>2, <1>10 DEF DuressMatches, files, history
<1>11. ASSUME \E a \in attempt : TRUE, CountWrong, attempt' = {},
              UNCHANGED <<tries, failwipe, leftover>>
       PROVE  CountInv'
  <2>1. CASE failwipe = {}
    BY <1>11, <2>1 DEF CountWrong
  <2>2. CASE failwipe # {}
    <3>1. wrong' = wrong \/ wrong' = wrong + 1
      BY <1>11 DEF CountWrong
    <3>2. \A cfg \in failwipe : cfg.limit # 0 => wrong < cfg.count
      BY <1>11, <2>2
    <3> QED
      BY <1>11, <3>1, <3>2
  <2> QED
    BY <2>1, <2>2
<1>12. CASE LastAttemptFails
  BY <1>11, <1>12 DEF LastAttemptFails, files
<1>13. CASE AttemptFails
  BY <1>11, <1>13 DEF AttemptFails, files
<1>14. CASE CooldownEnds
  BY <1>1, <1>14 DEF CooldownEnds, files, running, history
<1>15. CASE WipeFile
  <2>1. UNCHANGED <<attempt, tries, leftover>> /\ wrong' \in {0, wrong}
        /\ failwipe' \in {{}, failwipe}
    BY <1>15 DEF WipeFile
  <2> QED
    BY <2>1
<1>16. CASE RemovalFails \/ FailAfterWipe \/ DecoyFails \/ PromptAfterWipe
            \/ CreateAfterWipe \/ QuitAfterWipe
  BY <1>1, <1>16 DEF RemovalFails, FailAfterWipe, DecoyFails, PromptAfterWipe,
     CreateAfterWipe, QuitAfterWipe, files, history
<1>17. CASE DecoyAfterWipe
  <2>1. attempt' = {} /\ wrong' = 0 /\ AttemptSucceeded
    BY <1>17 DEF DecoyAfterWipe, WipeDone, Waiting
  <2>2. leftover' = OldCount(failwipe')
    BY <1>17 DEF DecoyAfterWipe
  <2>3. ~leftover' => ~leftover \/ ~OldCount(failwipe')
    BY <2>2, Zenon
  <2> QED
    BY <1>8, <2>1, <2>3
<1>18. CASE CreateProfile
  BY <1>18 DEF CreateProfile, OldCount, running
<1>19. CASE LockUi \/ WipeConfirm \/ PanicWipe \/ Quit
  BY <1>1, <1>19 DEF LockUi, WipeConfirm, PanicWipe, Quit, files, running, history
<1>20. CASE Crash
  BY <1>2, <1>20 DEF Crash, files
<1>21. ASSUME NEW limit \in FailLimits, SetFailwipe(limit) PROVE CountInv'
  BY <1>21, RangesAreNat DEF SetFailwipe, InSession, Waiting, running
<1>22. CASE ClearFailwipe
  BY <1>22 DEF ClearFailwipe, running, history
<1>23. CASE ClearDuress \/ ClearDeadman \/ (\E action \in {"wipe", "decoy"} : SetDuress(action))
            \/ \E days \in DeadmanDays : SetDeadman(days)
  BY <1>1, <1>23 DEF ClearDuress, ClearDeadman, SetDuress, SetDeadman, running, history
<1>24. CASE DayPasses \/ ClockIsSet
  BY <1>1, <1>24 DEF DayPasses, ClockIsSet, files, running, history
<1>25. CASE FileGetsDamaged
  <2>1. UNCHANGED <<wrong, tries, attempt, leftover>>
    BY <1>25 DEF FileGetsDamaged, running
  <2>2. \/ failwipe' = failwipe
        \/ failwipe # {} /\ failwipe' = {[limit |-> 0, count |-> 0]}
    BY <1>25 DEF FileGetsDamaged
  <2> QED
    BY <2>1, <2>2
<1> QED
  BY <1>3, <1>4, <1>5, <1>6, <1>7, <1>9, <1>10, <1>12, <1>13, <1>14, <1>15, <1>16, <1>17,
     <1>18, <1>19, <1>20, <1>21, <1>22, <1>23, <1>24, <1>25 DEF Next

(* GuessesLimited: while the limit is set, killing the process, failed     *)
(* writes and interrupted wipes never let more wrong passphrases be tested *)
(* than the limit.                                                         *)
THEOREM NoFreeGuess == Spec => []GuessesLimited
<1>1. CountInv => GuessesLimited
  BY DEF CountInv, GuessesLimited
<1> QED
  BY TypeCorrect, CountInit, CountStep, <1>1, PTL DEF Spec

(* LimitWipesAreEarned: the limit wipes only after that many attempts were *)
(* recorded since the last right passphrase.                               *)
THEOREM WipesEarned == Spec => LimitWipesAreEarned
<1> DEFINE Starts == /\ wiping = <<>> /\ wiping' # <<>> /\ afterWipe' = "failed"
                     /\ ~leftover /\ ~Damaged(failwipe, "limit") /\ mishaps' = mishaps
                     /\ ~\E a \in attempt : IsDuress(a)
           Earned == \E cfg \in failwipe : tries >= cfg.limit
<1>1. TypeOK /\ CountInv /\ [Next]_vars => [Starts => Earned]_vars
  <2> SUFFICES ASSUME Typed, mishaps \in Nat, CountInv, Next, Starts PROVE Earned
    BY TypedCounts, Bounds DEF TypeOK, NumbersTyped
  <2>1. FailLimitUsedUp => Earned
    BY DEF FailLimitUsedUp, Damaged, CountInv, Typed, RawConfig
  <2>2. CASE TryWipes
    <3>1. ~Mishap
      BY DEF Mishap
    <3> QED
      BY <2>1, <2>2, <3>1 DEF TryWipes
  <2>3. CASE DuressMatches
    BY <2>3 DEF DuressMatches
  <2>4. CASE LastAttemptFails
    BY <2>1, <2>4 DEF LastAttemptFails
  <2>5. ASSUME StartOverdue \/ WipeConfirm \/ PanicWipe PROVE FALSE
    BY <2>5 DEF StartOverdue, WipeConfirm, PanicWipe, BeginWipe
  <2>6. ASSUME wiping' = wiping \/ wiping' = <<>> \/ wiping # <<>> PROVE FALSE
    BY <2>6
  <2> HIDE DEF Starts
  <2>7. ASSUME \/ Start \/ UnlockSucceeds \/ AttemptFails \/ CooldownEnds \/ WipeFile
               \/ RemovalFails \/ FailAfterWipe \/ DecoyAfterWipe \/ DecoyFails
               \/ PromptAfterWipe \/ CreateAfterWipe \/ QuitAfterWipe
               \/ \E pass \in Passphrase : TryUncounted(pass) \/ TryCounted(pass)
        PROVE  FALSE
    BY <2>6, <2>7 DEF Start, UnlockSucceeds, AttemptFails, CooldownEnds, WipeFile,
       RemovalFails, FailAfterWipe, DecoyAfterWipe, DecoyFails, PromptAfterWipe,
       CreateAfterWipe, QuitAfterWipe, TryUncounted, TryCounted, running
  <2>8. ASSUME \/ CreateProfile \/ LockUi \/ Quit \/ Crash \/ DayPasses \/ ClockIsSet
               \/ FileGetsDamaged \/ ClearFailwipe \/ ClearDuress \/ ClearDeadman
               \/ \E limit \in FailLimits : SetFailwipe(limit)
               \/ \E action \in {"wipe", "decoy"} : SetDuress(action)
               \/ \E days \in DeadmanDays : SetDeadman(days)
        PROVE  FALSE
    BY <2>6, <2>8 DEF CreateProfile, LockUi, Quit, Crash, DayPasses, ClockIsSet,
       FileGetsDamaged, ClearFailwipe, ClearDuress, ClearDeadman, SetFailwipe, SetDuress,
       SetDeadman, running
  <2> QED
    BY <2>2, <2>3, <2>4, <2>5, <2>7, <2>8 DEF Next
<1> QED
  BY TypeCorrect, CountInit, CountStep, <1>1, PTL DEF Spec, LimitWipesAreEarned

----------------------------------------------------------------------------
(* The wipe *)

(* Once a wipe is past state.enc, state.enc is gone or could not be        *)
(* removed.                                                                *)
WipeInv == (wiping # <<>> /\ Head(wiping) # "store") => store = "none" \/ stuck

(* No wipe is under way at first.                                          *)
LEMMA WipeInit == Init => WipeInv
  BY DEF Init, WipeInv

(* No step brings state.enc back during a wipe.                            *)
LEMMA WipeStep == TypeOK /\ WipeInv /\ [Next]_vars => WipeInv'
<1> SUFFICES ASSUME wiping \in WipeStages, WipeInv, [Next]_vars PROVE WipeInv'
  BY DEF TypeOK, ControlTyped
<1>1. ASSUME UNCHANGED <<wiping, store, stuck>> PROVE WipeInv'
  BY <1>1 DEF WipeInv
<1>2. ASSUME wiping' = <<>> PROVE WipeInv'
  BY <1>2 DEF WipeInv
<1>3. ASSUME NEW then, BeginWipe(then) PROVE WipeInv'
  <2>1. Head(wiping') = "store"
    BY <1>3 DEF BeginWipe
  <2> QED
    BY <2>1 DEF WipeInv
<1>4. CASE UNCHANGED vars
  BY <1>1, <1>4 DEF vars, files, running, history
<1>5. CASE StartOverdue \/ TryWipes \/ DuressMatches \/ LastAttemptFails \/ WipeConfirm
           \/ PanicWipe
  BY <1>3, <1>5 DEF StartOverdue, TryWipes, DuressMatches, LastAttemptFails, WipeConfirm,
     PanicWipe
<1>6. CASE \/ Start \/ UnlockSucceeds \/ AttemptFails \/ CooldownEnds \/ FailAfterWipe
           \/ DecoyFails \/ PromptAfterWipe \/ CreateAfterWipe \/ QuitAfterWipe
           \/ \E pass \in Passphrase : TryUncounted(pass) \/ TryCounted(pass)
  BY <1>1, <1>6 DEF Start, UnlockSucceeds, AttemptFails, CooldownEnds, FailAfterWipe,
     DecoyFails, PromptAfterWipe, CreateAfterWipe, QuitAfterWipe, TryUncounted, TryCounted,
     files, running, history
<1>7. CASE WipeFile
  BY <1>7 DEF WipeFile, WipeInv, history
<1>8. CASE RemovalFails
  BY <1>8 DEF RemovalFails, WipeInv, files
<1>9. CASE DecoyAfterWipe \/ CreateProfile
  BY <1>2, <1>9 DEF DecoyAfterWipe, WipeDone, CreateProfile, AtPrompt, Waiting, running
<1>10. CASE Crash
  BY <1>2, <1>10 DEF Crash
<1>11. CASE \/ LockUi \/ Quit \/ DayPasses \/ ClockIsSet \/ FileGetsDamaged
            \/ ClearFailwipe \/ ClearDuress \/ ClearDeadman
            \/ \E limit \in FailLimits : SetFailwipe(limit)
            \/ \E action \in {"wipe", "decoy"} : SetDuress(action)
            \/ \E days \in DeadmanDays : SetDeadman(days)
  BY <1>1, <1>11 DEF LockUi, Quit, DayPasses, ClockIsSet, FileGetsDamaged, ClearFailwipe,
     ClearDuress, ClearDeadman, SetFailwipe, SetDuress, SetDeadman, files, running, history
<1> QED
  BY <1>4, <1>5, <1>6, <1>7, <1>8, <1>9, <1>10, <1>11 DEF Next

(* GuardsOutliveProfile: wherever a wipe is interrupted, a profile that is *)
(* still there keeps its limit, duress passphrase and dead-man switch.     *)
THEOREM NoUnguardedProfile == Spec => GuardsOutliveProfile
<1> DEFINE Locked == store # "none" /\ store' = store /\ ~InSession /\ ~stuck'
           Kept == /\ failwipe # {} => failwipe' # {}
                   /\ duress # {} => duress' # {}
                   /\ deadman # {} => deadman' # {}
<1>1. WipeInv /\ [Next]_vars => [Locked => Kept]_vars
  <2> SUFFICES ASSUME WipeInv, Next, Locked PROVE Kept
    OBVIOUS
  <2>1. ASSUME UNCHANGED <<failwipe, duress, deadman>> PROVE Kept
    BY <2>1
  <2>2. TouchDeadman => (deadman # {} => deadman' # {})
    BY DEF TouchDeadman
  <2>3. AttemptSucceeded => (failwipe # {} => failwipe' # {})
    BY DEF AttemptSucceeded
  <2>4. CASE \/ Start \/ StartOverdue \/ TryWipes \/ DuressMatches \/ LastAttemptFails
             \/ AttemptFails \/ CooldownEnds
             \/ \E pass \in Passphrase : TryUncounted(pass)
    BY <2>1, <2>4 DEF Start, StartOverdue, TryWipes, DuressMatches, LastAttemptFails,
       AttemptFails, CooldownEnds, TryUncounted, files
  <2>5. ASSUME NEW pass \in Passphrase, TryCounted(pass) PROVE Kept
    BY <2>5 DEF TryCounted
  <2>6. CASE UnlockSucceeds
    BY <2>2, <2>3, <2>6 DEF UnlockSucceeds
  <2>7. CASE WipeFile
    <3>1. wiping # <<>> /\ stuck' = stuck
      BY <2>7 DEF WipeFile
    <3>2. Head(wiping) = "store"
      BY <3>1 DEF WipeInv
    <3> QED
      BY <2>1, <2>7, <3>2 DEF WipeFile
  <2>8. CASE \/ RemovalFails \/ FailAfterWipe \/ DecoyFails \/ PromptAfterWipe
             \/ CreateAfterWipe \/ QuitAfterWipe \/ PanicWipe \/ Quit \/ Crash
             \/ DayPasses \/ ClockIsSet
    BY <2>1, <2>8 DEF RemovalFails, FailAfterWipe, DecoyFails, PromptAfterWipe,
       CreateAfterWipe, QuitAfterWipe, PanicWipe, Quit, Crash, DayPasses, ClockIsSet, files
  <2>9. CASE DecoyAfterWipe
    BY <2>2, <2>3, <2>9 DEF DecoyAfterWipe
  <2>10. CASE CreateProfile
    BY <2>1, <2>10 DEF CreateProfile
  <2>11. CASE FileGetsDamaged
    BY <2>11 DEF FileGetsDamaged
  <2>12. ASSUME \/ LockUi \/ WipeConfirm \/ ClearFailwipe \/ ClearDuress \/ ClearDeadman
                \/ \E limit \in FailLimits : SetFailwipe(limit)
                \/ \E action \in {"wipe", "decoy"} : SetDuress(action)
                \/ \E days \in DeadmanDays : SetDeadman(days)
         PROVE  FALSE
    BY <2>12 DEF LockUi, WipeConfirm, ClearFailwipe, ClearDuress, ClearDeadman, SetFailwipe,
       SetDuress, SetDeadman
  <2> QED
    BY <2>4, <2>5, <2>6, <2>7, <2>8, <2>9, <2>10, <2>11, <2>12 DEF Next
<1> QED
  BY TypeCorrect, WipeInit, WipeStep, <1>1, PTL DEF Spec, GuardsOutliveProfile

----------------------------------------------------------------------------
(* The dead-man switch, with a clock that may be set back *)

(* The file holds the day it was last written, or up to MaxBack less.      *)
ClockInv ==
    /\ lastTouch <= time
    /\ \A cfg \in deadman :
          cfg.days # 0 => cfg.last <= lastTouch /\ lastTouch <= cfg.last + MaxBack

(* DeadmanNotEarly: the switch wipes no sooner than its days after the     *)
(* last unlock, lock or setting, but for the days the clock was set back.  *)
THEOREM DeadmanExact == Spec => DeadmanNotEarly
<1> DEFINE InTime == \A cfg \in deadman : time - lastTouch + MaxBack >= cfg.days
           Clocked == /\ MaxBack \in Nat /\ time \in Nat /\ lastTouch \in Nat
                      /\ back \in 0 .. MaxBack
                      /\ deadman \subseteq [days : Nat, last : Nat]
                      /\ \A c, d \in deadman : c = d
<1>1. TypeOK /\ TypeOK' => Clocked
  <2>1. DeadmanConfig \subseteq [days : Nat, last : Nat]
    BY Bounds DEF DeadmanConfig
  <2> QED
    BY <2>1, Bounds DEF TypeOK, FilesTyped, NumbersTyped
<1>2. Init => ClockInv
  BY DEF Init, ClockInv
<1>3. Clocked /\ ClockInv /\ [Next]_vars => ClockInv'
  <2> SUFFICES ASSUME Clocked, ClockInv, [Next]_vars PROVE ClockInv'
    OBVIOUS
  <2>2. Now \in Nat /\ Now <= time /\ time <= Now + MaxBack
    BY DEF Now
  <2>3. ASSUME UNCHANGED <<time, lastTouch>>, deadman' \subseteq deadman PROVE ClockInv'
    BY <2>3 DEF ClockInv
  <2>4. ASSUME TouchDeadman, time' = time PROVE ClockInv'
    <3>1. CASE UNCHANGED <<deadman, lastTouch>>
      BY <2>3, <2>4, <3>1
    <3>2. CASE /\ deadman' = {[cfg EXCEPT !.last = Now] : cfg \in deadman}
               /\ lastTouch' = time
      BY <2>2, <2>4, <3>2 DEF ClockInv
    <3> QED
      BY <2>4, <3>1, <3>2 DEF TouchDeadman
  <2>5. CASE UNCHANGED vars
    BY <2>3, <2>5 DEF vars, files, clock, history
  <2>6. CASE \/ Start \/ StartOverdue \/ TryWipes \/ DuressMatches \/ LastAttemptFails
             \/ AttemptFails \/ CooldownEnds \/ WipeFile \/ RemovalFails
             \/ \E pass \in Passphrase : TryUncounted(pass) \/ TryCounted(pass)
    BY <2>3, <2>6 DEF Start, StartOverdue, TryWipes, DuressMatches, LastAttemptFails,
       AttemptFails, CooldownEnds, WipeFile, RemovalFails, TryUncounted, TryCounted, files,
       clock, history
  <2>7. CASE UnlockSucceeds \/ DecoyAfterWipe \/ LockUi
    BY <2>4, <2>7 DEF UnlockSucceeds, DecoyAfterWipe, LockUi, clock
  <2>8. CASE \/ FailAfterWipe \/ DecoyFails \/ PromptAfterWipe \/ CreateAfterWipe
             \/ QuitAfterWipe \/ CreateProfile \/ WipeConfirm \/ PanicWipe \/ Quit \/ Crash
    BY <2>3, <2>8 DEF FailAfterWipe, DecoyFails, PromptAfterWipe, CreateAfterWipe,
       QuitAfterWipe, CreateProfile, WipeConfirm, PanicWipe, Quit, Crash, files, clock, history
  <2>9. ASSUME NEW days \in DeadmanDays, SetDeadman(days) PROVE ClockInv'
    BY <2>2, <2>9 DEF SetDeadman, ClockInv, clock
  <2>10. CASE \/ ClearFailwipe \/ ClearDuress \/ ClearDeadman
              \/ \E limit \in FailLimits : SetFailwipe(limit)
              \/ \E action \in {"wipe", "decoy"} : SetDuress(action)
    BY <2>3, <2>10 DEF ClearFailwipe, ClearDuress, ClearDeadman, SetFailwipe, SetDuress,
       clock, history
  <2>11. CASE DayPasses
    BY <2>11 DEF DayPasses, ClockInv, files, history
  <2>12. CASE ClockIsSet
    BY <2>3, <2>12 DEF ClockIsSet, files, history
  <2>13. CASE FileGetsDamaged
    BY <2>13 DEF FileGetsDamaged, ClockInv, clock
  <2> QED
    BY <2>5, <2>6, <2>7, <2>8, <2>9, <2>10, <2>11, <2>12, <2>13 DEF Next
<1>4. Clocked /\ ClockInv => [StartOverdue => InTime]_vars
  <2> SUFFICES ASSUME Clocked, ClockInv, StartOverdue PROVE InTime
    OBVIOUS
  <2>1. Now \in Nat /\ Now <= time
    BY DEF Now
  <2>2. PICK due \in deadman : due.days = 0 \/ Now - due.last >= due.days
    BY DEF StartOverdue, DeadmanDue, Damaged
  <2> QED
    BY <2>1, <2>2 DEF ClockInv
<1>5. Spec => [](TypeOK /\ ClockInv)
  BY TypeCorrect, <1>1, <1>2, <1>3, PTL DEF Spec
<1> QED
  BY <1>1, <1>4, <1>5, PTL DEF DeadmanNotEarly

============================================================================
