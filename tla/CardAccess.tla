----------------------------- MODULE CardAccess -----------------------------
(***************************************************************************)
(* The life cycle of the smart card emulator: its mode, its PIN and PUK,   *)
(* their trial counters, and the encrypted archives that carry PIN and PUK *)
(* from one card to another.                                               *)
(*                                                                         *)
(* Each action is one APDU handler of APDU_handler.c, run to completion:   *)
(* the card serves one connection and one command at a time.  A handler    *)
(* that only reads, or whose effect is on tables other than those of this  *)
(* module, is Reject (it answers an error before it changes anything) or   *)
(* UsePin (what the PIN check alone does to the card).                     *)
(***************************************************************************)
EXTENDS Integers

CONSTANTS
  Pins, Puks,         \* the values a PIN and a PUK can have
  ZeroPin, ZeroPuk,   \* all-zero values of a card that is not initialised
  Passwords,          \* the passwords archives are enciphered under
  CountersImage,      \* content of an archive made by BACKUP_COUNTERS
  OtherData,          \* a buffer that is not an archive
  MaxPinTrials, MaxPukTrials

ASSUME SecretsAssumption == ZeroPin \in Pins /\ ZeroPuk \in Puks
ASSUME TrialsAssumption  == /\ MaxPinTrials \in 1..255
                            /\ MaxPukTrials \in 1..255

VARIABLES
  mode, pin, puk,
  pin_trials, puk_trials,
  root_key,    \* authentication key 0 is installed (auth_keys_sizes[0] # 0)
  buffer,      \* what the I/O buffer holds: an archive or OtherData
  last,        \* the last command handled and how it was answered
  archives,    \* history: the archives the card has handed out
  wrong_pins,  \* history: wrong PINs since the trials were last renewed
  wrong_puks   \* history: wrong PUKs since the trials were last renewed

secrets == <<pin, puk>>
trials  == <<pin_trials, puk_trials, wrong_pins, wrong_puks>>
vars    == <<mode, secrets, trials, root_key, buffer, last, archives>>

Modes == {"VIRGIN", "ROOT", "WORKING", "LOCKED", "DEAD"}

\* The modes whose handlers compare a PIN, and those whose handlers compare a PUK.
PinModes == {"ROOT", "WORKING"}
PukModes == {"ROOT", "WORKING", "LOCKED"}

\* The label byte that tells a device archive from a counters archive.
DeviceLabel   == 1
CountersLabel == 2

Archive == [label : {DeviceLabel}, password : Passwords, content : Pins \X Puks]
           \cup [label : {CountersLabel}, password : Passwords, content : {CountersImage}]

Commands == {"none", "SET_ROOT_MODE", "SET_WORKING_MODE", "SET_VIRGIN_MODE",
             "CHANGE_PIN", "RESET_PIN", "INITIALIZE_DEVICE", "PUT_DATA",
             "AUTHENTICATION_KEY", "BACKUP_DEVICE", "RESTORE_DEVICE",
             "BACKUP_COUNTERS", "RESTORE_COUNTERS", "USE_PIN", "ANY", "RESTART"}
Answers  == {"OK", "ERROR"}

Answer(cmd, sw) == last' = [command |-> cmd, answer |-> sw]

-----------------------------------------------------------------------------
(* The PIN and PUK checks.  *)

\* The counters are BYTEs: a decrement at zero would wrap.
Decrement(trialsLeft) == (trialsLeft + 255) % 256

\* checkPin with the right PIN.
PinAccepted(p) ==
  /\ p = pin
  /\ pin_trials' = MaxPinTrials /\ wrong_pins' = 0
  /\ UNCHANGED <<puk_trials, wrong_puks>>

\* (Faulty variant: the card is not locked at zero.)
PinRefusedNeverLocks(p) ==
  /\ p # pin
  /\ pin_trials' = IF pin_trials # 0 THEN pin_trials - 1 ELSE pin_trials
  /\ wrong_pins' = wrong_pins + 1
  /\ mode' = mode

\* checkPin with a wrong PIN: one trial less, and the card locks at zero.
PinRefused(p) ==
  /\ p # pin
  /\ pin_trials' = IF pin_trials # 0 THEN pin_trials - 1 ELSE pin_trials
  /\ wrong_pins' = wrong_pins + 1
  /\ mode' = IF pin_trials' = 0 THEN "LOCKED" ELSE mode

\* checkPuk with the right PUK.
PukAccepted(u) == u = puk /\ puk_trials' = MaxPukTrials /\ wrong_puks' = 0

\* checkPuk with a wrong PUK: one trial less, and the card dies at zero.
PukRefused(u) ==
  /\ u # puk
  /\ puk_trials' = Decrement(puk_trials)
  /\ wrong_puks' = wrong_puks + 1
  /\ mode' = IF puk_trials' = 0 THEN "DEAD" ELSE mode

\* What a handler does when the PIN it was given is wrong: nothing but the check.
PinFailure(cmd, p) ==
  /\ PinRefused(p)
  /\ Answer(cmd, "ERROR")
  /\ UNCHANGED <<secrets, puk_trials, wrong_puks, root_key, buffer, archives>>

-----------------------------------------------------------------------------
(* Modes.  *)

\* Every static table at zero, the trials full: a new card and a wiped one.
Erased == /\ pin = ZeroPin /\ puk = ZeroPuk
          /\ pin_trials = MaxPinTrials /\ puk_trials = MaxPukTrials
          /\ root_key = FALSE
          /\ buffer = OtherData

\* (Faulty variant: the authentication keys are not wiped.)
EraseExceptKeys == /\ pin' = ZeroPin /\ puk' = ZeroPuk
                   /\ pin_trials' = MaxPinTrials /\ wrong_pins' = 0
                   /\ puk_trials' = MaxPukTrials /\ wrong_puks' = 0
                   /\ buffer' = OtherData
                   /\ UNCHANGED root_key

Erase == /\ pin' = ZeroPin /\ puk' = ZeroPuk
         /\ pin_trials' = MaxPinTrials /\ wrong_pins' = 0
         /\ puk_trials' = MaxPukTrials /\ wrong_puks' = 0
         /\ root_key' = FALSE
         /\ buffer' = OtherData

SetRootMode ==
  /\ mode = "VIRGIN"
  /\ mode' = "ROOT"
  /\ Answer("SET_ROOT_MODE", "OK")
  /\ UNCHANGED <<secrets, trials, root_key, buffer, archives>>

SetWorkingMode ==
  /\ mode = "ROOT"
  /\ mode' = "WORKING"
  /\ Answer("SET_WORKING_MODE", "OK")
  /\ UNCHANGED <<secrets, trials, root_key, buffer, archives>>

\* In any mode, given the MAC of the pending challenge under the resurrection key
\* (the challenge is not in this module: the MAC may or may not be right).
SetVirginMode ==
  /\ mode' = "VIRGIN"
  /\ Erase
  /\ Answer("SET_VIRGIN_MODE", "OK")
  /\ UNCHANGED archives

\* The process is started again: main calls create_json, whatever ran before.
Restart ==
  /\ mode' = "ROOT"
  /\ Erase
  /\ Answer("RESTART", "OK")
  /\ UNCHANGED archives

-----------------------------------------------------------------------------
(* PIN and PUK.  *)

ChangePin(old, new) ==
  /\ mode \in PinModes
  /\ \/ PinFailure("CHANGE_PIN", old)
     \/ /\ PinAccepted(old)
        /\ pin' = new
        /\ Answer("CHANGE_PIN", "OK")
        /\ UNCHANGED <<mode, puk, root_key, buffer, archives>>

\* (Faulty variant: the mode is not checked, so a dead card still compares PUKs.)
ResetPinInAnyMode(u, new) ==
  /\ \/ /\ PukRefused(u)
        /\ Answer("RESET_PIN", "ERROR")
        /\ UNCHANGED <<secrets, pin_trials, wrong_pins>>
     \/ /\ PukAccepted(u)
        /\ pin' = new
        /\ pin_trials' = MaxPinTrials /\ wrong_pins' = 0
        /\ mode' = "WORKING"
        /\ Answer("RESET_PIN", "OK")
        /\ UNCHANGED puk
  /\ UNCHANGED <<root_key, buffer, archives>>

ResetPin(u, new) ==
  /\ mode \in PukModes
  /\ \/ /\ PukRefused(u)
        /\ Answer("RESET_PIN", "ERROR")
        /\ UNCHANGED <<secrets, pin_trials, wrong_pins>>
     \/ /\ PukAccepted(u)
        /\ pin' = new
        /\ pin_trials' = MaxPinTrials /\ wrong_pins' = 0
        /\ mode' = "WORKING"
        /\ Answer("RESET_PIN", "OK")
        /\ UNCHANGED puk
  /\ UNCHANGED <<root_key, buffer, archives>>

\* The secrets are drawn before key 0 is looked up, and are only sent when it is
\* there: without key 0 the answer is an error and the PIN and PUK are new.
InitializeDevice(newPin, newPuk) ==
  /\ mode = "ROOT"
  /\ pin' = newPin /\ puk' = newPuk
  /\ Answer("INITIALIZE_DEVICE", IF root_key THEN "OK" ELSE "ERROR")
  /\ UNCHANGED <<mode, trials, root_key, buffer, archives>>

\* Any other handler that checks the PIN: it answers, and may use the buffer.
UsePin(p) ==
  /\ mode \in PinModes
  /\ \/ PinFailure("USE_PIN", p)
     \/ /\ PinAccepted(p)
        /\ buffer' \in {buffer, OtherData}
        /\ \E sw \in Answers : Answer("USE_PIN", sw)
        /\ UNCHANGED <<mode, secrets, root_key, archives>>

-----------------------------------------------------------------------------
(* The buffer, key 0 and the archives.  *)

\* The client sends any data, or an archive that a card has produced.  Without a PIN,
\* INCREMENT_COUNTER and AUTHENTICATE_DATA put other data in the buffer as well.
PutData(data) ==
  /\ mode \in PinModes
  /\ buffer' = data
  /\ Answer("PUT_DATA", "OK")
  /\ UNCHANGED <<mode, secrets, trials, root_key, archives>>

\* SET_ or REMOVE_AUTHENTICATION_KEY for key 0: at will in ROOT, and in WORKING when
\* the buffer holds the authenticated command (not in this module: it may or may not).
\* An archive is too short for a key and is not a command.
ChangeRootKey(present) ==
  /\ mode \in PinModes
  /\ present \/ mode = "WORKING" => buffer = OtherData
  /\ ~present => root_key
  /\ root_key' = present
  /\ Answer("AUTHENTICATION_KEY", "OK")
  /\ UNCHANGED <<mode, secrets, trials, buffer, archives>>

Encipher(label, pw, content) ==
  [label |-> label, password |-> pw, content |-> content]

\* decipher accepts what cipher produced under the same label and password.
Decipher(label, pw) ==
  buffer # OtherData /\ buffer.label = label /\ buffer.password = pw

\* BACKUP_DEVICE and BACKUP_COUNTERS: the archive is built in the buffer and sent.
Backup(cmd, p, archive) ==
  /\ mode \in PinModes
  /\ \/ PinFailure(cmd, p)
     \/ /\ PinAccepted(p)
        /\ buffer' = archive
        /\ archives' = archives \cup {archive}
        /\ Answer(cmd, "OK")
        /\ UNCHANGED <<mode, secrets, root_key>>

BackupDevice(p, pw) ==
  Backup("BACKUP_DEVICE", p, Encipher(DeviceLabel, pw, secrets))

\* With no counter to back up, the buffer is left empty (ERR_NO_CONTENT_TO_BACKUP).
BackupCounters(p, pw) ==
  \/ Backup("BACKUP_COUNTERS", p, Encipher(CountersLabel, pw, CountersImage))
  \/ /\ mode \in PinModes
     /\ PinAccepted(p)
     /\ buffer' = OtherData
     /\ Answer("BACKUP_COUNTERS", "ERROR")
     /\ UNCHANGED <<mode, secrets, root_key, archives>>

\* (Faulty variant: the PIN is restored and the PUK is not.)
RestoreDevicePinOnly(p, pw) ==
  /\ mode \in PinModes
  /\ PinAccepted(p)
  /\ Decipher(DeviceLabel, pw)
  /\ pin' = buffer.content[1]
  /\ buffer' = OtherData
  /\ Answer("RESTORE_DEVICE", "OK")
  /\ UNCHANGED <<mode, puk, root_key, archives>>

\* (Faulty variant: the secrets are replaced before the archive is known to be good.)
RestoreDeviceTooEarly(p, pw) ==
  /\ mode \in PinModes
  /\ PinAccepted(p)
  /\ buffer # OtherData /\ buffer.label = DeviceLabel
  /\ pin' = buffer.content[1] /\ puk' = buffer.content[2]
  /\ Answer("RESTORE_DEVICE", IF Decipher(DeviceLabel, pw) THEN "OK" ELSE "ERROR")
  /\ UNCHANGED <<mode, root_key, buffer, archives>>

RestoreDevice(p, pw) ==
  /\ mode \in PinModes
  /\ \/ PinFailure("RESTORE_DEVICE", p)
     \/ /\ PinAccepted(p)
        /\ Decipher(DeviceLabel, pw)
        /\ pin' = buffer.content[1] /\ puk' = buffer.content[2]
        /\ buffer' = OtherData
        /\ Answer("RESTORE_DEVICE", "OK")
        /\ UNCHANGED <<mode, root_key, archives>>
     \/ /\ PinAccepted(p)
        /\ ~Decipher(DeviceLabel, pw)
        /\ Answer("RESTORE_DEVICE", "ERROR")
        /\ UNCHANGED <<mode, secrets, root_key, buffer, archives>>

\* The counters are not in this module; the buffer ends up with their plain image.
RestoreCounters(p, pw) ==
  /\ mode \in PinModes
  /\ \/ PinFailure("RESTORE_COUNTERS", p)
     \/ /\ PinAccepted(p)
        /\ Decipher(CountersLabel, pw)
        /\ buffer' = OtherData
        /\ \E sw \in Answers : Answer("RESTORE_COUNTERS", sw)
        /\ UNCHANGED <<mode, secrets, root_key, archives>>
     \/ /\ PinAccepted(p)
        /\ ~Decipher(CountersLabel, pw)
        /\ Answer("RESTORE_COUNTERS", "ERROR")
        /\ UNCHANGED <<mode, secrets, root_key, buffer, archives>>

\* A command of the wrong ISO case or size, in the wrong mode, or with a parameter
\* out of range: the handler answers an error and returns.
Reject == /\ Answer("ANY", "ERROR")
          /\ UNCHANGED <<mode, secrets, trials, root_key, buffer, archives>>

-----------------------------------------------------------------------------
Init == /\ mode = "ROOT"
        /\ Erased
        /\ wrong_pins = 0 /\ wrong_puks = 0
        /\ archives = {}
        /\ last = [command |-> "none", answer |-> "OK"]

Next == \/ SetRootMode \/ SetWorkingMode \/ SetVirginMode \/ Restart \/ Reject
        \/ \E p \in Pins : UsePin(p)
        \/ \E p, new \in Pins : ChangePin(p, new)
        \/ \E u \in Puks, new \in Pins : ResetPin(u, new)
        \/ \E p \in Pins, u \in Puks : InitializeDevice(p, u)
        \/ \E data \in archives \cup {OtherData} : PutData(data)
        \/ \E present \in BOOLEAN : ChangeRootKey(present)
        \/ \E p \in Pins, pw \in Passwords :
             \/ BackupDevice(p, pw) \/ RestoreDevice(p, pw)
             \/ BackupCounters(p, pw) \/ RestoreCounters(p, pw)

Spec == Init /\ [][Next]_vars

-----------------------------------------------------------------------------
(* Properties.  *)

TypeOK ==
  /\ mode \in Modes
  /\ pin \in Pins /\ puk \in Puks
  /\ pin_trials \in 0..MaxPinTrials /\ puk_trials \in 0..MaxPukTrials
  /\ wrong_pins \in Nat /\ wrong_puks \in Nat
  /\ root_key \in BOOLEAN
  /\ archives \subseteq Archive
  /\ buffer \in archives \cup {OtherData}
  /\ last \in [command : Commands, answer : Answers]

\* checkPin and checkPuk do "NOT check whether pin_trials > 0" (subroutines.c:96, 126):
\* every handler that calls them relies on the mode.  So in a mode that accepts a PIN
\* (or a PUK) there must be a trial left; otherwise the PUK counter would wrap to 255.
TrialLeftWhereChecked == /\ mode \in PinModes => pin_trials > 0
                         /\ mode \in PukModes => puk_trials > 0

\* Whatever the mix of handlers, nobody can present more than MaxPinTrials wrong PINs
\* or MaxPukTrials wrong PUKs between two renewals of the trials.
AttemptsBounded == /\ wrong_pins <= MaxPinTrials
                   /\ wrong_puks <= MaxPukTrials

\* A locked card works again only through RESET_PIN with the right PUK, a dead one
\* never: the only other way out is to lose everything the card holds.
StoppedUnlessUnlockedOrErased ==
  [][ /\ mode = "LOCKED" /\ mode' # "LOCKED"
         => \/ last' = [command |-> "RESET_PIN", answer |-> "OK"] /\ wrong_puks' = 0
            \/ mode' = "DEAD"
            \/ Erased'
      /\ mode = "DEAD" /\ mode' # "DEAD" => Erased' ]_vars

\* PIN and PUK survive every command that answers an error, with one exception the
\* code makes: INITIALIZE_DEVICE looks up key 0 after it has drawn both.
ErrorKeepsSecrets ==
  [][ /\ last'.answer = "ERROR"
      /\ last'.command # "INITIALIZE_DEVICE"
      => UNCHANGED secrets ]_vars

\* A restored PIN and PUK are a pair that some card backed up together under the same
\* password; an archive of counters is never mistaken for one of a device.
RestoredPairWasBackedUp ==
  [][ last' = [command |-> "RESTORE_DEVICE", answer |-> "OK"]
      => \E pw \in Passwords :
           [label |-> DeviceLabel, password |-> pw, content |-> secrets'] \in archives
    ]_vars
=============================================================================
