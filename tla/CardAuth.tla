------------------------------ MODULE CardAuth ------------------------------
(***************************************************************************)
(* Authenticated configuration.  In ROOT the card is configured at will;   *)
(* in WORKING a command that configures it must stand in the buffer, put   *)
(* there by PUT_DATA under a signature and laid open by AUTHENTICATE_DATA: *)
(*                                                                         *)
(*   GET_CHALLENGE, PUT_DATA, AUTHENTICATE_DATA, then the command itself.  *)
(*                                                                         *)
(* Each is an APDU of its own, and others may come in between.  A          *)
(* signature covers a challenge of the card; challenges are numbered in    *)
(* the order they are drawn, 0 is one that is not there any more.          *)
(*                                                                         *)
(* The run of one program: a restart draws the same challenges again.      *)
(***************************************************************************)
EXTENDS Integers, FiniteSets

CONSTANTS
  KeyIds,           \* 0..NUM_AUTH_KEYS-1; 0 is the root key
  AfterLast,        \* NUM_ISSUERS: where LIST_AUTHENTICATION_KEYS leaves authKeyId
  Keys,             \* the public keys of those who sign
  NoKey, OddKey,    \* no key; a key nobody signs for
  PrefixCommands, EqualCommands,   \* configuration that is not about keys
  Increments,       \* the messages INCREMENT_COUNTER is for
  SignedBy,         \* the messages a key is used to sign
  ChallengeSizes,   \* the sizes asked for
  Nothing,          \* no data: size 0
  OtherData         \* data that is none of the others

ASSUME AuthAssumption ==
  /\ 0 \in KeyIds /\ KeyIds \subseteq Nat /\ AfterLast \in Nat \ {0}
  /\ ChallengeSizes \subseteq 1..255
  /\ NoKey \notin Keys \cup {OddKey} /\ Nothing \notin Keys \cup {OtherData}

VARIABLES
  mode,             \* STOPPED is LOCKED or DEAD
  auth_keys,
  buffer,
  authData, authKeyId,
  challenge, challenge_size,   \* mem_session.challenge
  drawn,            \* challenges drawn
  signed,           \* the signatures that exist
  accepted, acceptances,   \* history: the challenges of accepted signatures, and how many
  root_auths,       \* history: how often data was authenticated under key 0
  changes,          \* history: commands that configured the card in WORKING
  origin            \* history: key and message of the last authentication, as long
                    \* as the buffer holds what it laid open

keyState  == <<auth_keys, authData, authKeyId>>
challenges == <<challenge, challenge_size, drawn>>
history   == <<accepted, acceptances, root_auths, changes>>
authVars  == <<mode, keyState, buffer, challenges, signed, history, origin>>

Modes     == {"VIRGIN", "ROOT", "WORKING", "STOPPED"}
\* What SET_ROOT_MODE, SET_WORKING_MODE, wrong PINs and RESET_PIN do to the mode.
ModeChanges == {<<"VIRGIN", "ROOT">>, <<"ROOT", "WORKING">>, <<"ROOT", "STOPPED">>,
                <<"WORKING", "STOPPED">>, <<"STOPPED", "WORKING">>}
SetKey(k)    == [ins |-> "SET_AUTHENTICATION_KEY", keyId |-> k]
RemoveKey(k) == [ins |-> "REMOVE_AUTHENTICATION_KEY", keyId |-> k]
KeyCommands  == {SetKey(k) : k \in KeyIds} \cup {RemoveKey(k) : k \in KeyIds}
Commands  == KeyCommands \cup PrefixCommands \cup EqualCommands

\* ins || parameters || rest, or the five bytes of an increment.
Rests      == Keys \cup {Nothing}
Message(c, rest) == [cmd |-> c, rest |-> rest]
Messages   == {Message(c, rest) : c \in Commands, rest \in Rests} \cup Increments
Signature  == [signer : Keys, challenge : Nat, msg : Messages]

Plain == {OtherData} \cup Keys \cup UNION {SignedBy[s] : s \in Keys}
NoOrigin   == [key |-> AfterLast, msg |-> Nothing]

MinChallenge == 16

Served == mode \in {"ROOT", "WORKING"}

-----------------------------------------------------------------------------
(* Signatures.  *)

ASSUME SignedAssumption == SignedBy \in [Keys -> SUBSET Messages]

\* Whoever has a key signs a message for a challenge the card has given.  (Environment.)
Sign(s) ==
  /\ s.challenge \in 1..drawn
  /\ signed' = signed \cup {s}
  /\ UNCHANGED <<mode, keyState, buffer, challenges, history, origin>>

\* extraction under key k succeeds.
Extracts(k, data) ==
  /\ data \in signed
  /\ data.signer = auth_keys[k]
  /\ data.challenge = challenge
  /\ challenge_size >= MinChallenge

\* (Faulty variant: the challenge is good for another signature.)
ExtractKeepingChallenge(data) ==
  /\ challenge' = challenge
  /\ accepted' = accepted \cup {data.challenge}
  /\ acceptances' = acceptances + 1
  /\ buffer' = data.msg

\* extract: the challenge goes, its size stays, the message replaces the signature.
Extract(data) ==
  /\ challenge' = 0
  /\ accepted' = accepted \cup {data.challenge}
  /\ acceptances' = acceptances + 1
  /\ buffer' = data.msg

GetChallenge(size) ==
  /\ drawn' = drawn + 1
  /\ challenge' = drawn + 1 /\ challenge_size' = size
  /\ UNCHANGED <<mode, keyState, buffer, signed, history, origin>>

\* authData stays as it is.
PutData(data) ==
  /\ Served
  /\ buffer' = data
  /\ origin' = NoOrigin
  /\ UNCHANGED <<mode, keyState, challenges, signed, history>>

AuthenticateData(k) ==
  /\ Served
  /\ auth_keys[k] # NoKey
  /\ Extracts(k, buffer)
  /\ Extract(buffer)
  /\ authData' = TRUE /\ authKeyId' = k
  /\ root_auths' = IF k = 0 THEN root_auths + 1 ELSE root_auths
  /\ origin' = [key |-> k, msg |-> buffer.msg]
  /\ UNCHANGED <<mode, auth_keys, challenge_size, drawn, signed, changes>>

\* The key is there (or is read from beyond the table: getKey takes ids up to
\* NUM_ISSUERS), the signature is not good under it.
AuthenticateDataFails ==
  /\ Served
  /\ authData' = FALSE
  /\ UNCHANGED <<mode, auth_keys, authKeyId, buffer, challenges, signed, history, origin>>

-----------------------------------------------------------------------------
(* checkBufferPrefix and checkBufferEqual.  *)

\* (Faulty variant: which key it was is not looked at.)
AuthenticatedByAnyKey == mode = "WORKING" /\ authData

Authenticated == mode = "WORKING" /\ authData /\ authKeyId = 0

\* The buffer holds command c, with rest behind it.
Holds(c, rest) == buffer = Message(c, rest)

\* (Faulty variant: the authentication is good for the next command as well.)
UseKeepingAuthentication(c) ==
  /\ Authenticated
  /\ authData' = TRUE
  /\ changes' = changes + 1

\* The command is configured in WORKING: its authentication is used up.
Use(c) ==
  /\ Authenticated
  /\ authData' = FALSE
  /\ changes' = changes + 1

\* A command that is not the one in the buffer, or has data behind it that must not be
\* there, or none where there must be a key.  A buffer that is too short keeps its
\* authentication, and one that holds the command keeps what is behind it.
RefuseCommand ==
  /\ Authenticated
  /\ \/ UNCHANGED <<authData, buffer>>
     \/ authData' = FALSE /\ UNCHANGED buffer
     \/ /\ authData' = FALSE
        /\ \E c \in Commands, rest \in Rests : Holds(c, rest) /\ buffer' = rest
  /\ origin' = IF buffer' = buffer THEN origin ELSE NoOrigin
  /\ UNCHANGED <<mode, auth_keys, authKeyId, challenges, signed, history>>

\* (Faulty variant: what the buffer holds becomes the key as it is.)
SetAuthenticationKeyAnyData(k) ==
  /\ mode = "ROOT"
  /\ auth_keys' = [auth_keys EXCEPT ![k] = buffer]
  /\ buffer' = Nothing
  /\ origin' = NoOrigin
  /\ UNCHANGED <<mode, authData, authKeyId, challenges, signed, history>>

\* In ROOT, data that is long enough is taken for a key.
SetAuthenticationKeyRoot(k) ==
  /\ mode = "ROOT"
  /\ buffer # Nothing
  /\ auth_keys' = [auth_keys EXCEPT ![k] = IF buffer \in Keys THEN buffer ELSE OddKey]
  /\ buffer' = Nothing
  /\ origin' = NoOrigin
  /\ UNCHANGED <<mode, authData, authKeyId, challenges, signed, history>>

SetAuthenticationKey(k, key) ==
  /\ Use(SetKey(k))
  /\ Holds(SetKey(k), key)
  /\ auth_keys' = [auth_keys EXCEPT ![k] = key]
  /\ buffer' = Nothing
  /\ origin' = NoOrigin
  /\ UNCHANGED <<mode, authKeyId, challenges, signed, accepted, acceptances, root_auths>>

RemoveAuthenticationKeyRoot(k) ==
  /\ mode = "ROOT"
  /\ auth_keys[k] # NoKey
  /\ auth_keys' = [auth_keys EXCEPT ![k] = NoKey]
  /\ UNCHANGED <<mode, authData, authKeyId, buffer, challenges, signed, history, origin>>

\* (Faulty variant: any authenticated command will do.)
RemoveAuthenticationKeyUnchecked(k) ==
  /\ auth_keys[k] # NoKey
  /\ Use(RemoveKey(k))
  /\ auth_keys' = [auth_keys EXCEPT ![k] = NoKey]
  /\ buffer' = Nothing
  /\ origin' = NoOrigin
  /\ UNCHANGED <<mode, authKeyId, challenges, signed, accepted, acceptances, root_auths>>

RemoveAuthenticationKey(k) ==
  /\ auth_keys[k] # NoKey
  /\ Use(RemoveKey(k))
  /\ Holds(RemoveKey(k), Nothing)
  /\ auth_keys' = [auth_keys EXCEPT ![k] = NoKey]
  /\ buffer' = Nothing
  /\ origin' = NoOrigin
  /\ UNCHANGED <<mode, authKeyId, challenges, signed, accepted, acceptances, root_auths>>

\* What any other command that configures the card in WORKING does here.
Configured(c) ==
  /\ Use(c)
  /\ \E rest \in IF c \in PrefixCommands THEN Rests ELSE {Nothing} :
       Holds(c, rest) /\ buffer' = rest
  /\ origin' = NoOrigin
  /\ UNCHANGED <<mode, auth_keys, authKeyId, challenges, signed,
                 accepted, acceptances, root_auths>>

\* The loop variable is authKeyId itself.
ListAuthenticationKeys ==
  /\ Served
  /\ authKeyId' = AfterLast
  /\ UNCHANGED <<mode, auth_keys, authData, buffer, challenges, signed, history, origin>>

-----------------------------------------------------------------------------
(* The other users of the buffer and of mem_session.  *)

\* INCREMENT_COUNTER: the signature comes with it, and goes through the buffer.
IncrementCounter(k, data) ==
  /\ mode = "WORKING"
  /\ auth_keys[k] # NoKey /\ Extracts(k, data)
  /\ Extract(data)
  /\ origin' = NoOrigin
  /\ UNCHANGED <<mode, keyState, challenge_size, drawn, signed, root_auths, changes>>

IncrementCounterFails(data) ==
  /\ mode = "WORKING"
  /\ buffer' = data
  /\ origin' = NoOrigin
  /\ UNCHANGED <<mode, keyState, challenges, signed, history>>

\* Proofs, archives and lists leave their own data in the buffer, or nothing; archives
\* and INITIALIZE_DEVICE write over mem_session, which holds the challenge.
UseBuffer ==
  /\ Served
  /\ buffer' \in {Nothing, OtherData}
  /\ challenge' \in {challenge, 0}
  /\ origin' = NoOrigin
  /\ UNCHANGED <<mode, keyState, challenge_size, drawn, signed, history>>

\* SET_VIRGIN_MODE with the wrong MAC: the challenge is used up.
EraseRefused ==
  /\ challenge_size >= MinChallenge
  /\ challenge' = 0 /\ challenge_size' = 0
  /\ UNCHANGED <<mode, keyState, buffer, drawn, signed, history, origin>>

\* SET_VIRGIN_MODE with the right MAC.  authKeyId stays.
Erase ==
  /\ challenge_size >= MinChallenge
  /\ mode' = "VIRGIN"
  /\ auth_keys' = [k \in KeyIds |-> NoKey]
  /\ authData' = FALSE
  /\ buffer' = Nothing
  /\ challenge' = 0 /\ challenge_size' = 0
  /\ origin' = NoOrigin
  /\ UNCHANGED <<authKeyId, drawn, signed, history>>

ChangeMode(m) ==
  /\ <<mode, m>> \in ModeChanges
  /\ mode' = m
  /\ UNCHANGED <<keyState, buffer, challenges, signed, history, origin>>

-----------------------------------------------------------------------------

AuthInit ==
  /\ mode = "ROOT"
  /\ auth_keys = [k \in KeyIds |-> NoKey]
  /\ authData = FALSE /\ authKeyId = 0
  /\ buffer = Nothing
  /\ challenge = 0 /\ challenge_size = 0 /\ drawn = 0
  /\ signed = {}
  /\ accepted = {} /\ acceptances = 0 /\ root_auths = 0 /\ changes = 0
  /\ origin = NoOrigin

KeyStep(k) == \/ AuthenticateData(k)
              \/ SetAuthenticationKeyRoot(k) \/ RemoveAuthenticationKeyRoot(k)
              \/ RemoveAuthenticationKey(k)
              \/ \E key \in Keys : SetAuthenticationKey(k, key)

\* Everything but the counters.
AuthStep ==
  \/ \E s \in Keys, n \in 1..drawn : \E m \in SignedBy[s] :
       Sign([signer |-> s, challenge |-> n, msg |-> m])
  \/ \E size \in ChallengeSizes : GetChallenge(size)
  \/ \E data \in Plain \cup signed : PutData(data)
  \/ \E k \in KeyIds : KeyStep(k)
  \/ AuthenticateDataFails \/ RefuseCommand
  \/ ListAuthenticationKeys \/ UseBuffer \/ EraseRefused
  \/ \E m \in Modes : ChangeMode(m)

Next ==
  \/ AuthStep \/ Erase
  \/ \E c \in PrefixCommands \cup EqualCommands : Configured(c)
  \/ \E k \in KeyIds, data \in signed : IncrementCounter(k, data)
  \/ \E data \in signed \cup {OtherData} : IncrementCounterFails(data)

Spec == AuthInit /\ [][Next]_authVars

-----------------------------------------------------------------------------
(* Properties.  *)

TypeOK ==
  /\ mode \in Modes
  /\ auth_keys \in [KeyIds -> Keys \cup {NoKey, OddKey}]
  /\ buffer \in {Nothing, OtherData} \cup Keys \cup Messages \cup signed
  /\ authData \in BOOLEAN /\ authKeyId \in KeyIds \cup {AfterLast}
  /\ drawn \in Nat /\ challenge \in 0..drawn /\ challenge_size \in {0} \cup ChallengeSizes
  /\ signed \subseteq Signature
  /\ accepted \subseteq Nat
  /\ acceptances \in Nat /\ root_auths \in Nat /\ changes \in Nat

\* A challenge is good for one signature, whichever commands look at it:
\* AUTHENTICATE_DATA and INCREMENT_COUNTER share it, and other commands write over it.
ChallengeAcceptedOnce == acceptances = Cardinality(accepted)

\* In WORKING the card is never configured more often than data was authenticated under
\* the root key: one authentication is good for one command, also when it is refused,
\* when the buffer is written in between and when another key authenticates.
ChangesAuthenticated ==
  changes + (IF authData /\ authKeyId = 0 THEN 1 ELSE 0) <= root_auths

\* As long as the buffer still holds what was authenticated, a key of the card changes in
\* WORKING as the signed message says: by its command, to its key.
KeysChangeAsSigned ==
  [][ mode = "WORKING" /\ mode' = "WORKING" /\ auth_keys' # auth_keys /\ origin # NoOrigin
      => /\ origin.key = 0
         /\ \E k \in KeyIds :
              \/ /\ origin.msg = Message(RemoveKey(k), Nothing)
                 /\ auth_keys' = [auth_keys EXCEPT ![k] = NoKey]
              \/ \E key \in Keys :
                   /\ origin.msg = Message(SetKey(k), key)
                   /\ auth_keys' = [auth_keys EXCEPT ![k] = key] ]_authVars
=============================================================================
