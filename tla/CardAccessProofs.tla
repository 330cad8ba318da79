-------------------------- MODULE CardAccessProofs --------------------------
(***************************************************************************)
(* The invariants of CardAccess for every set of PINs, PUKs and passwords  *)
(* and every pair of trial limits a BYTE can hold.                         *)
(*                                                                         *)
(* The invariants TLC checks are not inductive by themselves: that a trial *)
(* is left in the modes that compare a PIN rests on what each mode says    *)
(* about the trial counters (ModeFollowsTrials), and the bound on wrong    *)
(* attempts on the sum of attempts made and attempts left.                 *)
(***************************************************************************)
EXTENDS CardAccess, TLAPS

\* A spent PIN locks the card and a spent PUK kills it, and nothing else does.
ModeFollowsTrials ==
  /\ pin_trials = 0 => mode \in {"LOCKED", "DEAD"}
  /\ mode = "LOCKED" => pin_trials = 0
  /\ mode = "DEAD" <=> puk_trials = 0

\* The history counters and the trials left account for each other.
TrialsAccountForAttempts ==
  /\ pin_trials + wrong_pins = MaxPinTrials
  /\ puk_trials + wrong_puks = MaxPukTrials

IInv == TypeOK /\ ModeFollowsTrials /\ TrialsAccountForAttempts

-----------------------------------------------------------------------------
(* Lemmas about the checks.  *)

\* A BYTE decrement above zero is the ordinary one.
LEMMA DecrementAboveZero ==
  ASSUME NEW t \in 1..255
  PROVE  Decrement(t) = t - 1
  BY SMT DEF Decrement


\* A wrong PIN, in a mode that compares PINs, costs a trial and may lock the card.
LEMMA PinFailureKeepsIInv ==
  ASSUME IInv, mode \in PinModes,
         NEW p \in Pins, NEW cmd \in Commands, PinFailure(cmd, p)
  PROVE  IInv'
  <1>1. pin_trials > 0 /\ pin_trials' = pin_trials - 1 /\ wrong_pins' = wrong_pins + 1
    BY DEF IInv, TypeOK, ModeFollowsTrials, PinModes, PinFailure, PinRefused
  <1>2. TypeOK'
    BY <1>1, TrialsAssumption
       DEF IInv, TypeOK, PinFailure, PinRefused, secrets, Answer, Answers, Modes
  <1>3. ModeFollowsTrials'
    BY <1>1 DEF IInv, TypeOK, ModeFollowsTrials, PinModes, PinFailure, PinRefused
  <1>4. TrialsAccountForAttempts'
    BY <1>1, TrialsAssumption
       DEF IInv, TypeOK, TrialsAccountForAttempts, PinFailure
  <1>5. QED
    BY <1>2, <1>3, <1>4 DEF IInv

\* The right PIN renews the PIN trials: as long as the mode stays, the invariants that
\* speak of modes and trials hold, whatever the handler does with its other state.
LEMMA PinAcceptedKeepsTrials ==
  ASSUME IInv, mode \in PinModes, NEW p \in Pins, PinAccepted(p), mode' = mode
  PROVE  /\ ModeFollowsTrials' /\ TrialsAccountForAttempts'
         /\ pin_trials' \in 0..MaxPinTrials /\ puk_trials' \in 0..MaxPukTrials
         /\ wrong_pins' \in Nat /\ wrong_puks' \in Nat
  <1>1. pin_trials' = MaxPinTrials /\ wrong_pins' = 0
        /\ puk_trials' = puk_trials /\ wrong_puks' = wrong_puks
    BY DEF PinAccepted
  <1>2. MaxPinTrials \in 1..255
    BY TrialsAssumption
  <1>3. QED
    BY <1>1, <1>2 DEF IInv, TypeOK, ModeFollowsTrials, TrialsAccountForAttempts, PinModes

\* A step that leaves the mode and the trials alone keeps what relates them.
LEMMA SameTrials ==
  ASSUME IInv, UNCHANGED trials, UNCHANGED mode
  PROVE  ModeFollowsTrials' /\ TrialsAccountForAttempts'
  BY DEF IInv, trials, ModeFollowsTrials, TrialsAccountForAttempts

\* A wiped card has all its trials.
LEMMA EraseKeepsTrials ==
  ASSUME IInv, Erase, mode' \in {"VIRGIN", "ROOT"}, UNCHANGED archives,
         last' \in [command : Commands, answer : Answers]
  PROVE  IInv'
  <1>1. MaxPinTrials \in 1..255 /\ MaxPukTrials \in 1..255
    BY TrialsAssumption
  <1>2. TypeOK'
    <2>1. root_key' \in BOOLEAN
      BY Zenon DEF Erase
    <2>2. mode' \in Modes /\ pin' \in Pins /\ puk' \in Puks
      BY SecretsAssumption DEF Erase, Modes
    <2>3. /\ pin_trials' \in 0..MaxPinTrials /\ puk_trials' \in 0..MaxPukTrials
          /\ wrong_pins' \in Nat /\ wrong_puks' \in Nat
      BY <1>1 DEF Erase
    <2>4. archives' \subseteq Archive /\ buffer' \in archives' \cup {OtherData}
      BY DEF Erase, IInv, TypeOK
    <2>5. QED
      BY <2>1, <2>2, <2>3, <2>4 DEF TypeOK
  <1>3. QED
    BY <1>1, <1>2 DEF IInv, Erase, ModeFollowsTrials, TrialsAccountForAttempts

-----------------------------------------------------------------------------
(* The inductive invariant.  *)

LEMMA InitIInv == Init => IInv
  <1> SUFFICES ASSUME Init PROVE IInv
    OBVIOUS
  <1>1. MaxPinTrials \in 1..255 /\ MaxPukTrials \in 1..255
    BY TrialsAssumption
  <1>2. root_key \in BOOLEAN
    BY Zenon DEF Init, Erased
  <1>3. TypeOK
    BY <1>1, <1>2, SecretsAssumption
       DEF Init, Erased, TypeOK, Modes, Commands, Answers
  <1>4. QED
    BY <1>1, <1>3 DEF Init, Erased, IInv, ModeFollowsTrials, TrialsAccountForAttempts

\* RESET_PIN compares a PUK in the modes where a trial is left, so that the BYTE
\* decrement does not wrap.
LEMMA ResetPinKeepsIInv ==
  ASSUME IInv, NEW u \in Puks, NEW new \in Pins, ResetPin(u, new)
  PROVE  IInv'
  <1>1. puk_trials \in 1..255 /\ MaxPinTrials \in 1..255 /\ MaxPukTrials \in 1..255
    BY TrialsAssumption DEF IInv, TypeOK, ModeFollowsTrials, ResetPin, PukModes
  <1>2. CASE PukRefused(u) /\ Answer("RESET_PIN", "ERROR")
             /\ UNCHANGED <<secrets, pin_trials, wrong_pins>>
    <2>1. puk_trials' = puk_trials - 1 /\ wrong_puks' = wrong_puks + 1
      BY <1>1, <1>2, DecrementAboveZero DEF PukRefused
    <2>2. TypeOK'
      BY <1>1, <1>2, <2>1 DEF IInv, TypeOK, ResetPin, PukRefused, Modes, secrets,
                              Answer, Answers, Commands
    <2>3. ModeFollowsTrials' /\ TrialsAccountForAttempts'
      BY <1>1, <1>2, <2>1 DEF IInv, TypeOK, ModeFollowsTrials,
                              TrialsAccountForAttempts, ResetPin, PukRefused, PukModes
    <2>4. QED
      BY <2>2, <2>3 DEF IInv
  <1>3. CASE PukAccepted(u) /\ pin' = new /\ pin_trials' = MaxPinTrials /\ wrong_pins' = 0
             /\ mode' = "WORKING" /\ Answer("RESET_PIN", "OK") /\ UNCHANGED puk
    <2>1. TypeOK'
      BY <1>1, <1>3 DEF IInv, TypeOK, ResetPin, PukAccepted, Modes, Answer, Answers,
                        Commands
    <2>2. ModeFollowsTrials' /\ TrialsAccountForAttempts'
      BY <1>1, <1>3 DEF ModeFollowsTrials, TrialsAccountForAttempts, PukAccepted
    <2>3. QED
      BY <2>1, <2>2 DEF IInv
  <1>4. QED
    BY <1>2, <1>3 DEF ResetPin

LEMMA BackupKeepsIInv ==
  ASSUME IInv, NEW cmd \in Commands, NEW p \in Pins, NEW archive \in Archive,
         Backup(cmd, p, archive)
  PROVE  IInv'
  <1>1. mode \in PinModes
    BY DEF Backup
  <1>2. CASE PinFailure(cmd, p)
    BY <1>1, <1>2, PinFailureKeepsIInv
  <1>3. CASE ~PinFailure(cmd, p)
    <2>1. PinAccepted(p) /\ UNCHANGED <<mode, secrets, root_key>>
          /\ buffer' = archive /\ archives' = archives \cup {archive}
          /\ Answer(cmd, "OK")
      BY <1>3 DEF Backup
    <2>2. TypeOK'
      BY <1>1, <2>1, PinAcceptedKeepsTrials
         DEF IInv, TypeOK, secrets, Answer, Answers
    <2>3. QED
      BY <1>1, <2>1, <2>2, PinAcceptedKeepsTrials DEF IInv
  <1>4. QED
    BY <1>2, <1>3

\* The archive in the buffer names the PIN and PUK it was made with.
LEMMA DecipheredContent ==
  ASSUME IInv, NEW pw \in Passwords, Decipher(DeviceLabel, pw)
  PROVE  /\ buffer \in archives
         /\ buffer \in [label : {DeviceLabel}, password : Passwords, content : Pins \X Puks]
         /\ buffer.password = pw
  <1>1. buffer \in archives /\ buffer \in Archive
    BY DEF IInv, TypeOK, Decipher
  <1>2. buffer \notin [label : {CountersLabel}, password : Passwords,
                       content : {CountersImage}]
    BY DEF Decipher, DeviceLabel, CountersLabel
  <1>3. QED
    BY <1>1, <1>2 DEF Archive, Decipher

LEMMA RestoreDeviceKeepsIInv ==
  ASSUME IInv, NEW p \in Pins, NEW pw \in Passwords, RestoreDevice(p, pw)
  PROVE  IInv'
  <1>1. mode \in PinModes
    BY DEF RestoreDevice
  <1>2. CASE PinFailure("RESTORE_DEVICE", p)
    BY <1>1, <1>2, PinFailureKeepsIInv DEF Commands
  <1>3. CASE ~PinFailure("RESTORE_DEVICE", p)
    <2>1. PinAccepted(p) /\ UNCHANGED <<mode, root_key, archives>>
      BY <1>3 DEF RestoreDevice
    <2>2. pin' \in Pins /\ puk' \in Puks /\ buffer' \in {buffer, OtherData}
      BY <1>3, DecipheredContent DEF RestoreDevice, IInv, TypeOK, secrets
    <2>3. last' \in [command : Commands, answer : Answers]
      BY <1>3 DEF RestoreDevice, Answer, Commands, Answers
    <2>4. TypeOK'
      BY <1>1, <2>1, <2>2, <2>3, PinAcceptedKeepsTrials DEF IInv, TypeOK
    <2>5. QED
      BY <1>1, <2>1, <2>4, PinAcceptedKeepsTrials DEF IInv
  <1>4. QED
    BY <1>2, <1>3
\* Every step of the card keeps the inductive invariant.
LEMMA StepKeepsIInv == IInv /\ [Next]_vars => IInv'
  <1> SUFFICES ASSUME IInv, [Next]_vars PROVE IInv'
    OBVIOUS
  <1>types. MaxPinTrials \in 1..255 /\ MaxPukTrials \in 1..255 /\ TypeOK
    BY TrialsAssumption DEF IInv
  <1>1. CASE SetRootMode
    <2>1. TypeOK'
      BY <1>1, <1>types
         DEF SetRootMode, TypeOK, trials, secrets, Modes, Answer, Answers, Commands
    <2>2. QED
      BY <1>1, <2>1
         DEF SetRootMode, IInv, ModeFollowsTrials, TrialsAccountForAttempts, trials
  <1>2. CASE SetWorkingMode
    <2>1. TypeOK'
      BY <1>2, <1>types
         DEF SetWorkingMode, TypeOK, trials, secrets, Modes, Answer, Answers, Commands
    <2>2. QED
      BY <1>2, <2>1
         DEF SetWorkingMode, IInv, ModeFollowsTrials, TrialsAccountForAttempts, trials
  <1>3. CASE SetVirginMode
    BY <1>3, EraseKeepsTrials DEF SetVirginMode, Answer, Commands, Answers
  <1>4. CASE Restart
    BY <1>4, EraseKeepsTrials DEF Restart, Answer, Commands, Answers
  <1>5. CASE Reject
    <2>1. TypeOK'
      BY <1>5, <1>types DEF Reject, TypeOK, trials, secrets, Answer, Answers, Commands
    <2>2. QED
      BY <1>5, <2>1, SameTrials DEF Reject, IInv
  <1>6. ASSUME NEW p \in Pins, UsePin(p)
        PROVE  IInv'
    <2>1. CASE PinFailure("USE_PIN", p)
      BY <1>6, <2>1, PinFailureKeepsIInv DEF UsePin, Commands
    <2>2. CASE ~PinFailure("USE_PIN", p)
      <3>1. TypeOK'
        BY <1>6, <1>types, <2>2, PinAcceptedKeepsTrials
           DEF UsePin, TypeOK, secrets, Answer, Answers, Commands
      <3>2. QED
        BY <1>6, <2>2, <3>1, PinAcceptedKeepsTrials DEF UsePin, IInv
    <2>3. QED
      BY <2>1, <2>2
  <1>7. ASSUME NEW p \in Pins, NEW new \in Pins, ChangePin(p, new)
        PROVE  IInv'
    <2>1. CASE PinFailure("CHANGE_PIN", p)
      BY <1>7, <2>1, PinFailureKeepsIInv DEF ChangePin, Commands
    <2>2. CASE ~PinFailure("CHANGE_PIN", p)
      <3>1. TypeOK'
        BY <1>7, <1>types, <2>2, PinAcceptedKeepsTrials
           DEF ChangePin, TypeOK, Answer, Answers, Commands
      <3>2. QED
        BY <1>7, <2>2, <3>1, PinAcceptedKeepsTrials DEF ChangePin, IInv
    <2>3. QED
      BY <2>1, <2>2
  <1>8. ASSUME NEW u \in Puks, NEW new \in Pins, ResetPin(u, new)
        PROVE  IInv'
    BY <1>8, ResetPinKeepsIInv
  <1>9. ASSUME NEW p \in Pins, NEW u \in Puks, InitializeDevice(p, u)
        PROVE  IInv'
    <2>1. last' \in [command : Commands, answer : Answers]
      BY <1>9 DEF InitializeDevice, Answer, Answers, Commands
    <2>2. TypeOK'
      BY <1>9, <1>types, <2>1 DEF InitializeDevice, TypeOK, trials
    <2>3. QED
      BY <1>9, <2>2, SameTrials DEF InitializeDevice, IInv
  <1>10. ASSUME NEW data \in archives \cup {OtherData}, PutData(data)
         PROVE  IInv'
    <2>1. TypeOK'
      BY <1>10, <1>types DEF PutData, TypeOK, trials, secrets, Answer, Answers, Commands
    <2>2. QED
      BY <1>10, <2>1, SameTrials DEF PutData, IInv
  <1>11. ASSUME NEW present \in BOOLEAN, ChangeRootKey(present)
         PROVE  IInv'
    <2>1. root_key' \in BOOLEAN
      BY <1>11, Zenon DEF ChangeRootKey
    <2>2. UNCHANGED <<mode, secrets, trials, buffer, archives>>
          /\ Answer("AUTHENTICATION_KEY", "OK")
      BY <1>11, Zenon DEF ChangeRootKey
    <2>3. TypeOK'
      BY <1>types, <2>1, <2>2
         DEF TypeOK, trials, secrets, Answer, Answers, Commands
    <2>4. QED
      BY <2>2, <2>3, SameTrials DEF IInv
  <1>12. ASSUME NEW p \in Pins, NEW pw \in Passwords, BackupDevice(p, pw)
         PROVE  IInv'
    <2>1. Encipher(DeviceLabel, pw, secrets) \in Archive
      BY <1>types DEF Encipher, Archive, TypeOK, secrets
    <2>2. QED
      BY <1>12, <2>1, BackupKeepsIInv DEF BackupDevice, Commands
  <1>13. ASSUME NEW p \in Pins, NEW pw \in Passwords, BackupCounters(p, pw)
         PROVE  IInv'
    <2>1. CASE Backup("BACKUP_COUNTERS", p, Encipher(CountersLabel, pw, CountersImage))
      <3>1. Encipher(CountersLabel, pw, CountersImage) \in Archive
        BY DEF Encipher, Archive
      <3>2. QED
        BY <2>1, <3>1, BackupKeepsIInv DEF Commands
    <2>2. CASE ~Backup("BACKUP_COUNTERS", p, Encipher(CountersLabel, pw, CountersImage))
      <3>1. mode \in PinModes /\ PinAccepted(p) /\ buffer' = OtherData
            /\ Answer("BACKUP_COUNTERS", "ERROR")
            /\ UNCHANGED <<mode, secrets, root_key, archives>>
        BY <1>13, <2>2 DEF BackupCounters
      <3>2. TypeOK'
        BY <1>types, <3>1, PinAcceptedKeepsTrials
           DEF TypeOK, secrets, Answer, Answers, Commands
      <3>3. QED
        BY <3>1, <3>2, PinAcceptedKeepsTrials DEF IInv
    <2>3. QED
      BY <2>1, <2>2
  <1>14. ASSUME NEW p \in Pins, NEW pw \in Passwords, RestoreDevice(p, pw)
         PROVE  IInv'
    BY <1>14, RestoreDeviceKeepsIInv
  <1>15. ASSUME NEW p \in Pins, NEW pw \in Passwords, RestoreCounters(p, pw)
         PROVE  IInv'
    <2>1. CASE PinFailure("RESTORE_COUNTERS", p)
      BY <1>15, <2>1, PinFailureKeepsIInv DEF RestoreCounters, Commands
    <2>2. CASE ~PinFailure("RESTORE_COUNTERS", p)
      <3>1. mode \in PinModes /\ PinAccepted(p)
            /\ UNCHANGED <<mode, secrets, root_key, archives>>
            /\ buffer' \in {buffer, OtherData}
            /\ last' \in [command : Commands, answer : Answers]
        BY <1>15, <2>2 DEF RestoreCounters, Answer, Answers, Commands
      <3>2. TypeOK'
        BY <1>types, <3>1, PinAcceptedKeepsTrials DEF TypeOK, secrets
      <3>3. QED
        BY <3>1, <3>2, PinAcceptedKeepsTrials DEF IInv
    <2>3. QED
      BY <2>1, <2>2
  <1>16. CASE UNCHANGED vars
    <2>1. TypeOK'
      BY <1>16, <1>types DEF vars, TypeOK, trials, secrets
    <2>2. QED
      BY <1>16, <2>1, SameTrials DEF vars, IInv
  <1>17. QED
    BY <1>1, <1>2, <1>3, <1>4, <1>5, <1>6, <1>7, <1>8, <1>9, <1>10, <1>11, <1>12,
       <1>13, <1>14, <1>15, <1>16 DEF Next

\* The invariant holds in every reachable state, for every value of the constants.
THEOREM CardInvariant == Spec => []IInv
  BY InitIInv, StepKeepsIInv, PTL DEF Spec

-----------------------------------------------------------------------------
(* What the runs check, for every value of the constants.  *)

\* Every variable keeps its type; in particular the PUK counter never wraps.
THEOREM TypeCorrect == Spec => []TypeOK
  <1>1. IInv => TypeOK
    BY DEF IInv
  <1>2. QED
    BY <1>1, CardInvariant, PTL

\* checkPin and checkPuk only run while a trial is left.
THEOREM TrialLeft == Spec => []TrialLeftWhereChecked
  <1>1. IInv => TrialLeftWhereChecked
    BY DEF IInv, TypeOK, ModeFollowsTrials, TrialLeftWhereChecked, PinModes, PukModes
  <1>2. QED
    BY <1>1, CardInvariant, PTL

\* Nobody has more wrong attempts than the limits allow.
THEOREM AttemptsAreBounded == Spec => []AttemptsBounded
  <1>1. IInv => AttemptsBounded
    BY TrialsAssumption DEF IInv, TypeOK, TrialsAccountForAttempts, AttemptsBounded
  <1>2. QED
    BY <1>1, CardInvariant, PTL
-----------------------------------------------------------------------------
(* Action properties.  *)

\* Only RESTORE_DEVICE answers as RESTORE_DEVICE.
LEMMA OnlyRestoreAnswersRestore ==
  ASSUME Next, last' = [command |-> "RESTORE_DEVICE", answer |-> "OK"]
  PROVE  \E p \in Pins, pw \in Passwords : RestoreDevice(p, pw)
  <1>1. last'.command = "RESTORE_DEVICE"
    OBVIOUS
  <1>2. ASSUME NEW cmd, NEW p, PinFailure(cmd, p)
        PROVE  FALSE
    <2>1. last' = [command |-> cmd, answer |-> "ERROR"]
      BY <1>2 DEF PinFailure, Answer
    <2>2. last'.answer = "ERROR" /\ last'.answer = "OK"
      BY <2>1
    <2>3. QED
      BY <2>2
  <1>3. /\ ~SetRootMode /\ ~SetWorkingMode /\ ~SetVirginMode /\ ~Restart /\ ~Reject
    BY <1>1 DEF SetRootMode, SetWorkingMode, SetVirginMode, Restart, Reject, Answer
  <1>4. ASSUME NEW p, NEW new PROVE ~UsePin(p) /\ ~ChangePin(p, new)
    BY <1>1, <1>2 DEF UsePin, ChangePin, Answer
  <1>5. ASSUME NEW p, NEW u PROVE ~ResetPin(u, p) /\ ~InitializeDevice(p, u)
    BY <1>1 DEF ResetPin, InitializeDevice, Answer
  <1>6. ASSUME NEW data, NEW present PROVE ~PutData(data) /\ ~ChangeRootKey(present)
    BY <1>1 DEF PutData, ChangeRootKey, Answer
  <1>7. ASSUME NEW p, NEW pw
        PROVE  ~BackupDevice(p, pw) /\ ~BackupCounters(p, pw) /\ ~RestoreCounters(p, pw)
    BY <1>1, <1>2
       DEF BackupDevice, BackupCounters, RestoreCounters, Backup, Answer
  <1>8. QED
    BY <1>3, <1>4, <1>5, <1>6, <1>7 DEF Next

\* A restored PIN and PUK were backed up together, under the password given.
THEOREM RestoreIsFaithful == Spec => RestoredPairWasBackedUp
  <1> DEFINE Faithful ==
        last' = [command |-> "RESTORE_DEVICE", answer |-> "OK"]
          => \E pw \in Passwords :
               [label |-> DeviceLabel, password |-> pw, content |-> secrets'] \in archives
  <1>1. IInv /\ [Next]_vars => [Faithful]_vars
    <2> SUFFICES ASSUME IInv, Next,
                        last' = [command |-> "RESTORE_DEVICE", answer |-> "OK"]
                 PROVE  \E pw \in Passwords :
                          [label |-> DeviceLabel, password |-> pw, content |-> secrets']
                            \in archives
      OBVIOUS
    <2>1. PICK p \in Pins, pw \in Passwords : RestoreDevice(p, pw)
      BY OnlyRestoreAnswersRestore
    <2>2. last'.answer = "OK"
      OBVIOUS
    <2>3. /\ Decipher(DeviceLabel, pw)
          /\ pin' = buffer.content[1] /\ puk' = buffer.content[2]
      BY <2>1, <2>2 DEF RestoreDevice, PinFailure, Answer
    <2>4. /\ buffer \in archives /\ buffer.password = pw
          /\ buffer \in [label : {DeviceLabel}, password : Passwords,
                         content : Pins \X Puks]
      BY <2>3, DecipheredContent
    <2>5. buffer.content = secrets'
      BY <2>3, <2>4 DEF secrets
    <2>6. buffer = [label |-> DeviceLabel, password |-> pw, content |-> secrets']
      BY <2>4, <2>5
    <2>7. QED
      BY <2>4, <2>6
  <1>2. QED
    BY <1>1, CardInvariant, PTL DEF Spec, RestoredPairWasBackedUp
\* A locked card is only unlocked by the PUK, a dead one not at all, unless erased.
THEOREM StoppedStaysStopped == Spec => StoppedUnlessUnlockedOrErased
  <1> DEFINE Stopped ==
        /\ mode = "LOCKED" /\ mode' # "LOCKED"
             => \/ last' = [command |-> "RESET_PIN", answer |-> "OK"] /\ wrong_puks' = 0
                \/ mode' = "DEAD"
                \/ Erased'
        /\ mode = "DEAD" /\ mode' # "DEAD" => Erased'
  <1>1. Next => Stopped
    <2> SUFFICES ASSUME Next, mode \in {"LOCKED", "DEAD"}, mode' # mode PROVE Stopped
      OBVIOUS
    <2>1. CASE SetVirginMode \/ Restart
      <3>1. Erased'
        BY <2>1, Zenon DEF SetVirginMode, Restart, Erase, Erased
      <3>2. QED
        BY <3>1
    <2>2. ASSUME NEW u \in Puks, NEW new \in Pins, ResetPin(u, new)
          PROVE  Stopped
      <3>1. CASE PukRefused(u)
        BY <2>2, <3>1 DEF ResetPin, PukModes, PukRefused
      <3>2. CASE ~PukRefused(u)
        BY <2>2, <3>2 DEF ResetPin, PukModes, PukAccepted, Answer
      <3>3. QED
        BY <3>1, <3>2
    <2>3. mode \notin PinModes /\ mode # "VIRGIN" /\ mode # "ROOT"
      BY DEF PinModes
    <2>4. QED
      BY <2>1, <2>2, <2>3
         DEF Next, SetRootMode, SetWorkingMode, Reject, UsePin, ChangePin,
             InitializeDevice, PutData, ChangeRootKey, BackupDevice, BackupCounters,
             Backup, RestoreDevice, RestoreCounters
  <1>2. QED
    BY <1>1, PTL DEF Spec, StoppedUnlessUnlockedOrErased

\* A check that refuses leaves both secrets alone; only INITIALIZE_DEVICE draws them before
\* it knows its answer.
THEOREM ErrorsKeepSecrets == Spec => ErrorKeepsSecrets
  <1> DEFINE Kept == /\ last'.answer = "ERROR"
                     /\ last'.command # "INITIALIZE_DEVICE"
                     => UNCHANGED secrets
  <1>1. Next => Kept
    <2> SUFFICES ASSUME Next, last'.answer = "ERROR", last'.command # "INITIALIZE_DEVICE"
                 PROVE  UNCHANGED secrets
      OBVIOUS
    <2>1. ~SetVirginMode /\ ~Restart
      BY DEF SetVirginMode, Restart, Answer
    <2>2. ASSUME NEW p, NEW u PROVE ~InitializeDevice(p, u)
      BY DEF InitializeDevice, Answer
    <2>3. ASSUME NEW p, NEW new, ChangePin(p, new) PROVE UNCHANGED secrets
      BY <2>3 DEF ChangePin, PinFailure, Answer
    <2>4. ASSUME NEW u, NEW new, ResetPin(u, new) PROVE UNCHANGED secrets
      BY <2>4 DEF ResetPin, Answer
    <2>5. ASSUME NEW p, NEW pw, RestoreDevice(p, pw) PROVE UNCHANGED secrets
      BY <2>5 DEF RestoreDevice, PinFailure, Answer
    <2>6. ASSUME NEW p, NEW pw, BackupDevice(p, pw) \/ BackupCounters(p, pw) \/ RestoreCounters(p, pw)
          PROVE  UNCHANGED secrets
      BY <2>6 DEF BackupDevice, BackupCounters, RestoreCounters, Backup, PinFailure
    <2>7. QED
      BY <2>1, <2>2, <2>3, <2>4, <2>5, <2>6
         DEF Next, SetRootMode, SetWorkingMode, Reject, UsePin, PinFailure, PutData, ChangeRootKey
  <1>2. QED
    BY <1>1, PTL DEF Spec, ErrorKeepsSecrets
=============================================================================
