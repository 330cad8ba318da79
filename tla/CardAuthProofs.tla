--------------------------- MODULE CardAuthProofs ---------------------------
(***************************************************************************)
(* CardAuth for any number of keys, signers, commands and signatures.      *)
(*                                                                         *)
(* That a challenge is accepted once needs to know that the one the card   *)
(* holds has not been accepted yet, and that accepted ones are in the      *)
(* past.  That a key changes as it was signed needs to know that, while    *)
(* data is authenticated, the buffer is what origin says, and authKeyId    *)
(* the key of origin unless a listing of the keys has moved it.            *)
(***************************************************************************)
EXTENDS CardAuth, FiniteSetTheorems, TLAPS

\* The challenges of signatures are in the past; the pending one was never accepted.
ChallengeInv ==
  /\ accepted \subseteq 1..drawn
  /\ challenge \notin accepted
  /\ \A s \in signed : s.challenge \in 1..drawn
  /\ ChallengeAcceptedOnce

Origins == {NoOrigin} \cup [key : KeyIds, msg : Messages]

OriginInv ==
  /\ origin \in Origins
  /\ authData /\ origin # NoOrigin
       => buffer = origin.msg /\ authKeyId \in {origin.key, AfterLast}

AuthInv == TypeOK /\ ChallengeInv /\ ChangesAuthenticated /\ OriginInv

USE DEF MinChallenge

-----------------------------------------------------------------------------
(* Messages and signatures.  *)

LEMMA KeyMessages ==
  /\ \A k \in KeyIds : SetKey(k) \in Commands /\ RemoveKey(k) \in Commands
  /\ \A c \in Commands, rest \in Rests : Message(c, rest) \in Messages
  /\ Increments \subseteq Messages
  /\ Nothing \in Rests /\ Keys \subseteq Rests
  BY DEF Commands, KeyCommands, Messages, Rests

LEMMA SignatureFields ==
  ASSUME TypeOK, NEW s \in signed
  PROVE  s.msg \in Messages /\ s.challenge \in Nat /\ s.signer \in Keys
  BY DEF TypeOK, Signature

LEMMA SignedMessages ==
  ASSUME NEW s \in Keys
  PROVE  SignedBy[s] \subseteq Messages
  BY SignedAssumption

LEMMA PlainData ==
  ASSUME NEW data \in Plain
  PROVE  data \in {Nothing, OtherData} \cup Keys \cup Messages
  BY SignedMessages DEF Plain

LEMMA KeyIdTypes == 0 \in KeyIds /\ KeyIds \subseteq Nat /\ AfterLast \in Nat /\ AfterLast # 0
  BY AuthAssumption

-----------------------------------------------------------------------------
(* Type correctness.  *)

LEMMA TypeInit == AuthInit => TypeOK
  <1> SUFFICES ASSUME AuthInit PROVE TypeOK
    OBVIOUS
  <1>1. authData \in BOOLEAN
    BY Zenon DEF AuthInit
  <1>2. QED
    BY <1>1, KeyIdTypes DEF AuthInit, TypeOK, Modes

LEMMA SignType ==
  ASSUME TypeOK, NEW s \in Keys, NEW n \in 1..drawn, NEW m \in SignedBy[s],
         Sign([signer |-> s, challenge |-> n, msg |-> m])
  PROVE  TypeOK'
  <1>1. [signer |-> s, challenge |-> n, msg |-> m] \in Signature
    BY SignedMessages DEF Signature, TypeOK
  <1>2. QED
    BY <1>1 DEF Sign, TypeOK, keyState, challenges, history

LEMMA GetChallengeType ==
  ASSUME TypeOK, NEW size \in ChallengeSizes, GetChallenge(size)
  PROVE  TypeOK'
  BY DEF GetChallenge, TypeOK, keyState, history

LEMMA UseType ==
  ASSUME TypeOK
  PROVE  \A c \in Commands : Use(c) => authData' \in BOOLEAN /\ changes' \in Nat
  <1> SUFFICES ASSUME NEW c \in Commands, Use(c)
               PROVE  authData' \in BOOLEAN /\ changes' \in Nat
    OBVIOUS
  <1>1. authData' \in BOOLEAN
    BY Zenon DEF Use
  <1>2. changes' \in Nat
    BY DEF Use, TypeOK
  <1>3. QED
    BY <1>1, <1>2

LEMMA KeyStepType ==
  ASSUME TypeOK, NEW k \in KeyIds, KeyStep(k)
  PROVE  TypeOK'
  <1>1. CASE AuthenticateData(k)
    <2>1. buffer \in signed
      BY <1>1 DEF AuthenticateData, Extracts
    <2>2. buffer.msg \in Messages /\ buffer.challenge \in Nat
      BY <2>1, SignatureFields
    <2>3. root_auths' \in Nat
      BY <1>1 DEF AuthenticateData, TypeOK
    <2>4. QED
      BY <1>1, <2>2, <2>3, KeyIdTypes DEF AuthenticateData, Extract, TypeOK
  <1>2. CASE SetAuthenticationKeyRoot(k)
    BY <1>2 DEF SetAuthenticationKeyRoot, TypeOK, challenges, history
  <1>3. CASE RemoveAuthenticationKeyRoot(k)
    BY <1>3 DEF RemoveAuthenticationKeyRoot, TypeOK, challenges, history
  <1>4. CASE RemoveAuthenticationKey(k)
    <2>1. authData' \in BOOLEAN /\ changes' \in Nat
      BY <1>4, UseType, KeyMessages DEF RemoveAuthenticationKey
    <2>2. QED
      BY <1>4, <2>1 DEF RemoveAuthenticationKey, TypeOK, challenges
  <1>5. CASE \E key \in Keys : SetAuthenticationKey(k, key)
    <2>1. authData' \in BOOLEAN /\ changes' \in Nat
      BY <1>5, UseType, KeyMessages DEF SetAuthenticationKey
    <2>2. QED
      BY <1>5, <2>1 DEF SetAuthenticationKey, TypeOK, challenges
  <1>6. QED
    BY <1>1, <1>2, <1>3, <1>4, <1>5 DEF KeyStep

LEMMA AuthStepType ==
  ASSUME TypeOK, AuthStep
  PROVE  TypeOK'
  <1>1. CASE \E s \in Keys, n \in 1..drawn : \E m \in SignedBy[s] :
               Sign([signer |-> s, challenge |-> n, msg |-> m])
    BY <1>1, SignType
  <1>2. CASE \E size \in ChallengeSizes : GetChallenge(size)
    BY <1>2, GetChallengeType
  <1>3. CASE \E data \in Plain \cup signed : PutData(data)
    BY <1>3, PlainData DEF PutData, TypeOK, keyState, challenges, history
  <1>4. CASE \E k \in KeyIds : KeyStep(k)
    BY <1>4, KeyStepType
  <1>5. CASE AuthenticateDataFails
    BY <1>5 DEF AuthenticateDataFails, TypeOK, challenges, history
  <1>6. CASE RefuseCommand
    BY <1>6 DEF RefuseCommand, Rests, TypeOK, challenges, history
  <1>7. CASE ListAuthenticationKeys
    BY <1>7 DEF ListAuthenticationKeys, TypeOK, challenges, history
  <1>8. CASE UseBuffer
    BY <1>8 DEF UseBuffer, TypeOK, keyState, history
  <1>9. CASE EraseRefused
    BY <1>9 DEF EraseRefused, TypeOK, keyState, history
  <1>10. CASE \E m \in Modes : ChangeMode(m)
    BY <1>10 DEF ChangeMode, TypeOK, keyState, challenges, history
  <1>11. QED
    BY <1>1, <1>2, <1>3, <1>4, <1>5, <1>6, <1>7, <1>8, <1>9, <1>10 DEF AuthStep

LEMMA TypeStep ==
  ASSUME TypeOK, [Next]_authVars
  PROVE  TypeOK'
  <1>1. CASE AuthStep
    BY <1>1, AuthStepType
  <1>2. CASE Erase
    <2>1. authData' \in BOOLEAN
      BY <1>2, Zenon DEF Erase
    <2>2. challenge' \in 0..drawn'
      BY <1>2 DEF Erase, TypeOK
    <2>3. QED
      BY <1>2, <2>1, <2>2 DEF Erase, TypeOK, history, Modes
  <1>3. CASE \E c \in PrefixCommands \cup EqualCommands : Configured(c)
    <2>1. PICK c \in PrefixCommands \cup EqualCommands : Configured(c)
      BY <1>3
    <2>2. buffer' \in Rests
      BY <2>1 DEF Configured, Rests
    <2>3. authData' \in BOOLEAN /\ changes' \in Nat
      BY <2>1, UseType DEF Configured, Commands
    <2>4. QED
      BY <2>1, <2>2, <2>3 DEF Configured, TypeOK, challenges, Rests
  <1>4. CASE \E k \in KeyIds, data \in signed : IncrementCounter(k, data)
    BY <1>4, SignatureFields DEF IncrementCounter, Extract, TypeOK, keyState
  <1>5. CASE \E data \in signed \cup {OtherData} : IncrementCounterFails(data)
    BY <1>5 DEF IncrementCounterFails, TypeOK, keyState, challenges, history
  <1>6. CASE UNCHANGED authVars
    BY <1>6 DEF authVars, TypeOK, keyState, challenges, history
  <1>7. QED
    BY <1>1, <1>2, <1>3, <1>4, <1>5, <1>6 DEF Next

\* All variables of CardAuth keep their types.
THEOREM AuthTypeCorrect == Spec => []TypeOK
  <1>1. AuthInit => TypeOK
    BY TypeInit
  <1>2. TypeOK /\ [Next]_authVars => TypeOK'
    BY TypeStep
  <1>3. QED
    BY <1>1, <1>2, PTL DEF Spec

-----------------------------------------------------------------------------
(* Each challenge is accepted once.  *)

\* A step that draws no challenge, makes no signature and accepts none.
LEMMA NothingAccepted ==
  ASSUME TypeOK, ChallengeInv, UNCHANGED <<drawn, signed, accepted, acceptances>>,
         challenge' \in {challenge, 0}
  PROVE  ChallengeInv'
  BY DEF TypeOK, ChallengeInv, ChallengeAcceptedOnce

\* A signature that is good is one for the pending challenge.
LEMMA OneAccepted ==
  ASSUME TypeOK, ChallengeInv, NEW k \in KeyIds, NEW data,
         Extracts(k, data), Extract(data), UNCHANGED <<drawn, signed>>
  PROVE  ChallengeInv'
  <1>1. /\ data.challenge = challenge /\ data.challenge \in 1..drawn
        /\ data.challenge \notin accepted
    BY DEF Extracts, ChallengeInv
  <1>2. drawn \in Nat /\ IsFiniteSet(1..drawn)
    BY FS_Interval DEF TypeOK
  <1>3. IsFiniteSet(accepted)
    BY <1>2, FS_Subset DEF ChallengeInv
  <1>4. Cardinality(accepted \cup {data.challenge}) = Cardinality(accepted) + 1
    BY <1>1, <1>3, FS_AddElement
  <1>5. challenge' = 0 /\ accepted' = accepted \cup {data.challenge}
        /\ acceptances' = acceptances + 1
    BY DEF Extract
  <1>6. acceptances' = Cardinality(accepted')
    BY <1>4, <1>5 DEF ChallengeInv, ChallengeAcceptedOnce
  <1>7. accepted' \subseteq 1..drawn' /\ challenge' \notin accepted'
    <2>1. accepted' \subseteq 1..drawn
      BY <1>1, <1>5 DEF ChallengeInv
    <2>2. 0 \notin 1..drawn
      BY <1>2
    <2>3. QED
      BY <2>1, <2>2, <1>5
  <1>8. \A s \in signed' : s.challenge \in 1..drawn'
    BY DEF ChallengeInv
  <1>9. QED
    BY <1>6, <1>7, <1>8 DEF ChallengeInv, ChallengeAcceptedOnce

LEMMA ChallengeStep ==
  ASSUME TypeOK, ChallengeInv, [Next]_authVars
  PROVE  ChallengeInv'
  <1>1. CASE \E s \in Keys, n \in 1..drawn : \E m \in SignedBy[s] :
               Sign([signer |-> s, challenge |-> n, msg |-> m])
    BY <1>1 DEF Sign, TypeOK, ChallengeInv, ChallengeAcceptedOnce, challenges, history
  <1>2. CASE \E size \in ChallengeSizes : GetChallenge(size)
    BY <1>2 DEF GetChallenge, TypeOK, ChallengeInv, ChallengeAcceptedOnce, history
  <1>3. CASE \E k \in KeyIds : AuthenticateData(k)
    BY <1>3, OneAccepted DEF AuthenticateData
  <1>4. CASE \E k \in KeyIds, data \in signed : IncrementCounter(k, data)
    BY <1>4, OneAccepted DEF IncrementCounter
  <1>5. CASE Erase
    BY <1>5, NothingAccepted DEF Erase, history
  <1>6. CASE UseBuffer \/ EraseRefused
    BY <1>6, NothingAccepted DEF UseBuffer, EraseRefused, history
  <1>7. CASE \E k \in KeyIds : \/ SetAuthenticationKeyRoot(k) \/ RemoveAuthenticationKeyRoot(k)
                              \/ RemoveAuthenticationKey(k)
                              \/ \E key \in Keys : SetAuthenticationKey(k, key)
    BY <1>7, NothingAccepted
       DEF SetAuthenticationKeyRoot, RemoveAuthenticationKeyRoot, RemoveAuthenticationKey,
           SetAuthenticationKey, challenges, history
  <1>8. CASE \E c \in PrefixCommands \cup EqualCommands : Configured(c)
    BY <1>8, NothingAccepted DEF Configured, challenges
  <1>9. CASE \/ \E data \in Plain \cup signed : PutData(data)
             \/ \E data \in signed \cup {OtherData} : IncrementCounterFails(data)
             \/ \E m \in Modes : ChangeMode(m)
    BY <1>9, NothingAccepted DEF PutData, IncrementCounterFails, ChangeMode, challenges, history
  <1>10. CASE AuthenticateDataFails \/ RefuseCommand \/ ListAuthenticationKeys
    BY <1>10, NothingAccepted
       DEF AuthenticateDataFails, RefuseCommand, ListAuthenticationKeys, challenges, history
  <1>11. CASE UNCHANGED authVars
    BY <1>11, NothingAccepted DEF authVars, challenges, history
  <1>12. QED
    BY <1>1, <1>2, <1>3, <1>4, <1>5, <1>6, <1>7, <1>8, <1>9, <1>10, <1>11
       DEF Next, AuthStep, KeyStep

-----------------------------------------------------------------------------
(* Every change has an authentication of its own.  *)

RootAuthenticated == authData /\ authKeyId = 0

\* A step that neither authenticates under the root key nor changes anything.
LEMMA NoNewChange ==
  ASSUME TypeOK, ChangesAuthenticated, UNCHANGED <<changes, root_auths>>,
         RootAuthenticated' => RootAuthenticated
  PROVE  ChangesAuthenticated'
  <1>1. changes \in Nat /\ root_auths \in Nat
    BY DEF TypeOK
  <1>2. CASE RootAuthenticated
    BY <1>1, <1>2 DEF ChangesAuthenticated, RootAuthenticated
  <1>3. CASE ~RootAuthenticated
    BY <1>1, <1>3 DEF ChangesAuthenticated, RootAuthenticated
  <1>4. QED
    BY <1>2, <1>3

\* A command used in WORKING takes the authentication with it.
LEMMA OneUse ==
  ASSUME TypeOK, ChangesAuthenticated, NEW c, Use(c), UNCHANGED root_auths
  PROVE  ChangesAuthenticated'
  <1>1. changes \in Nat /\ root_auths \in Nat /\ changes' = changes + 1
    BY DEF TypeOK, Use
  <1>2. RootAuthenticated /\ ~authData'
    BY Zenon DEF Use, Authenticated, RootAuthenticated
  <1>3. changes + 1 <= root_auths
    BY <1>1, <1>2 DEF ChangesAuthenticated, RootAuthenticated
  <1>4. QED
    BY <1>1, <1>2, <1>3 DEF ChangesAuthenticated

\* An authentication under the root key is counted; under another key it takes one away.
LEMMA OneAuthentication ==
  ASSUME TypeOK, ChangesAuthenticated, NEW k \in KeyIds, AuthenticateData(k)
  PROVE  ChangesAuthenticated'
  <1>1. changes \in Nat /\ root_auths \in Nat /\ changes <= root_auths
    BY DEF TypeOK, ChangesAuthenticated
  <1>2. authKeyId' = k /\ changes' = changes
        /\ root_auths' = IF k = 0 THEN root_auths + 1 ELSE root_auths
    BY DEF AuthenticateData
  <1>3. QED
    BY <1>1, <1>2 DEF ChangesAuthenticated

LEMMA ChangesStep ==
  ASSUME TypeOK, ChangesAuthenticated, [Next]_authVars
  PROVE  ChangesAuthenticated'
  <1>1. CASE \E k \in KeyIds : AuthenticateData(k)
    BY <1>1, OneAuthentication
  <1>2. CASE \E k \in KeyIds : \/ RemoveAuthenticationKey(k)
                              \/ \E key \in Keys : SetAuthenticationKey(k, key)
    BY <1>2, OneUse DEF RemoveAuthenticationKey, SetAuthenticationKey
  <1>3. CASE \E c \in PrefixCommands \cup EqualCommands : Configured(c)
    BY <1>3, OneUse DEF Configured
  <1>4. CASE \E k \in KeyIds : SetAuthenticationKeyRoot(k) \/ RemoveAuthenticationKeyRoot(k)
    BY <1>4, NoNewChange
       DEF SetAuthenticationKeyRoot, RemoveAuthenticationKeyRoot, RootAuthenticated, history
  <1>5. CASE \/ \E s \in Keys, n \in 1..drawn : \E m \in SignedBy[s] :
                  Sign([signer |-> s, challenge |-> n, msg |-> m])
             \/ \E size \in ChallengeSizes : GetChallenge(size)
             \/ \E data \in Plain \cup signed : PutData(data)
    BY <1>5, NoNewChange
       DEF Sign, GetChallenge, PutData, RootAuthenticated, keyState, history
  <1>m. CASE \E m \in Modes : ChangeMode(m)
    <2>1. UNCHANGED <<keyState, history>>
      BY <1>m, Zenon DEF ChangeMode
    <2>2. QED
      BY <2>1, NoNewChange DEF RootAuthenticated, keyState, history
  <1>6. CASE AuthenticateDataFails
    BY <1>6, NoNewChange DEF AuthenticateDataFails, RootAuthenticated, history
  <1>7. CASE RefuseCommand
    BY <1>7, NoNewChange DEF RefuseCommand, RootAuthenticated, history
  <1>8. CASE ListAuthenticationKeys
    BY <1>8, NoNewChange, KeyIdTypes DEF ListAuthenticationKeys, RootAuthenticated, history
  <1>9. CASE UseBuffer \/ EraseRefused
    BY <1>9, NoNewChange DEF UseBuffer, EraseRefused, RootAuthenticated, keyState, history
  <1>10. CASE Erase
    BY <1>10, NoNewChange DEF Erase, RootAuthenticated, history
  <1>11. CASE \/ \E k \in KeyIds, data \in signed : IncrementCounter(k, data)
              \/ \E data \in signed \cup {OtherData} : IncrementCounterFails(data)
    BY <1>11, NoNewChange
       DEF IncrementCounter, IncrementCounterFails, RootAuthenticated, keyState, history
  <1>12. CASE UNCHANGED authVars
    BY <1>12, NoNewChange DEF authVars, RootAuthenticated, keyState, history
  <1>13. QED
    BY <1>1, <1>2, <1>3, <1>4, <1>5, <1>m, <1>6, <1>7, <1>8, <1>9, <1>10, <1>11, <1>12
       DEF Next, AuthStep, KeyStep

-----------------------------------------------------------------------------
(* What origin says of the buffer.  *)

\* A step after which the buffer does not hold authenticated data.
LEMMA OriginDropped ==
  ASSUME origin' = NoOrigin
  PROVE  OriginInv'
  BY DEF OriginInv, Origins

\* A step that touches neither the buffer nor whose data it is.
LEMMA OriginKept ==
  ASSUME OriginInv, UNCHANGED <<buffer, origin>>, authData' => authData,
         authKeyId' \in {authKeyId, AfterLast}
  PROVE  OriginInv'
  BY DEF OriginInv, Origins

LEMMA OriginSet ==
  ASSUME TypeOK, NEW k \in KeyIds, AuthenticateData(k)
  PROVE  OriginInv'
  <1>1. buffer.msg \in Messages
    BY SignatureFields DEF AuthenticateData, Extracts
  <1>2. /\ origin' = [key |-> k, msg |-> buffer.msg] /\ buffer' = buffer.msg
        /\ authKeyId' = k
    BY DEF AuthenticateData, Extract
  <1>3. origin' \in Origins
    BY <1>1, <1>2 DEF Origins
  <1>4. buffer' = origin'.msg /\ authKeyId' = origin'.key
    BY <1>2
  <1>5. QED
    BY <1>3, <1>4 DEF OriginInv, Origins

LEMMA OriginStep ==
  ASSUME TypeOK, OriginInv, [Next]_authVars
  PROVE  OriginInv'
  <1>1. CASE \E k \in KeyIds : AuthenticateData(k)
    BY <1>1, OriginSet
  <1>2. CASE \E k \in KeyIds : RemoveAuthenticationKeyRoot(k)
    BY <1>2, OriginKept DEF RemoveAuthenticationKeyRoot
  <1>3. CASE \E k \in KeyIds : \/ SetAuthenticationKeyRoot(k) \/ RemoveAuthenticationKey(k)
                              \/ \E key \in Keys : SetAuthenticationKey(k, key)
    BY <1>3, OriginDropped
       DEF SetAuthenticationKeyRoot, RemoveAuthenticationKey, SetAuthenticationKey
  <1>4. CASE \/ \E c \in PrefixCommands \cup EqualCommands : Configured(c)
             \/ \E data \in Plain \cup signed : PutData(data)
             \/ \E k \in KeyIds, data \in signed : IncrementCounter(k, data)
             \/ \E data \in signed \cup {OtherData} : IncrementCounterFails(data)
             \/ UseBuffer \/ Erase
    BY <1>4, OriginDropped
       DEF Configured, PutData, IncrementCounter, IncrementCounterFails, UseBuffer, Erase
  <1>5. CASE \/ \E s \in Keys, n \in 1..drawn : \E m \in SignedBy[s] :
                  Sign([signer |-> s, challenge |-> n, msg |-> m])
             \/ \E size \in ChallengeSizes : GetChallenge(size)
             \/ EraseRefused
    BY <1>5, OriginKept DEF Sign, GetChallenge, EraseRefused, keyState
  <1>m. CASE \E m \in Modes : ChangeMode(m)
    <2>1. UNCHANGED <<keyState, buffer, origin>>
      BY <1>m, Zenon DEF ChangeMode
    <2>2. QED
      BY <2>1, OriginKept DEF keyState
  <1>6. CASE AuthenticateDataFails
    BY <1>6, OriginKept DEF AuthenticateDataFails
  <1>7. CASE RefuseCommand
    <2>1. CASE buffer' = buffer
      <3>1. UNCHANGED <<buffer, origin, authKeyId>> /\ (authData' => authData)
        BY <1>7, <2>1 DEF RefuseCommand, Authenticated
      <3>2. QED
        BY <3>1, OriginKept
    <2>2. CASE buffer' # buffer
      BY <1>7, <2>2, OriginDropped DEF RefuseCommand
    <2>3. QED
      BY <2>1, <2>2
  <1>8. CASE ListAuthenticationKeys
    BY <1>8, OriginKept DEF ListAuthenticationKeys
  <1>9. CASE UNCHANGED authVars
    BY <1>9, OriginKept DEF authVars, keyState
  <1>10. QED
    BY <1>1, <1>2, <1>3, <1>4, <1>5, <1>m, <1>6, <1>7, <1>8, <1>9 DEF Next, AuthStep, KeyStep

-----------------------------------------------------------------------------
(* The invariant and what follows from it.  *)

THEOREM AuthInvariant == Spec => []AuthInv
  <1>1. AuthInit => AuthInv
    <2> SUFFICES ASSUME AuthInit PROVE AuthInv
      OBVIOUS
    <2>1. ChallengeInv
      BY FS_EmptySet DEF AuthInit, ChallengeInv, ChallengeAcceptedOnce
    <2>2. ChangesAuthenticated
      BY DEF AuthInit, ChangesAuthenticated
    <2>3. OriginInv
      BY DEF AuthInit, OriginInv, Origins
    <2>4. QED
      BY <2>1, <2>2, <2>3, TypeInit DEF AuthInv
  <1>2. AuthInv /\ [Next]_authVars => AuthInv'
    BY TypeStep, ChallengeStep, ChangesStep, OriginStep DEF AuthInv
  <1>3. QED
    BY <1>1, <1>2, PTL DEF Spec

\* AUTHENTICATE_DATA and INCREMENT_COUNTER together accept each challenge once.
THEOREM EachChallengeOnce == Spec => []ChallengeAcceptedOnce
  <1>1. AuthInv => ChallengeAcceptedOnce
    BY DEF AuthInv, ChallengeInv
  <1>2. QED
    BY <1>1, AuthInvariant, PTL

\* In WORKING the card is configured as often as the root key has authenticated data,
\* or less often.
THEOREM EveryChangeAuthenticated == Spec => []ChangesAuthenticated
  <1>1. AuthInv => ChangesAuthenticated
    BY DEF AuthInv
  <1>2. QED
    BY <1>1, AuthInvariant, PTL

\* The keys change as the root has signed it, while the buffer holds what it signed.
THEOREM SignedKeyChanges == Spec => KeysChangeAsSigned
  <1> DEFINE AsSigned ==
        mode = "WORKING" /\ mode' = "WORKING" /\ auth_keys' # auth_keys /\ origin # NoOrigin
        => /\ origin.key = 0
           /\ \E k \in KeyIds :
                \/ /\ origin.msg = Message(RemoveKey(k), Nothing)
                   /\ auth_keys' = [auth_keys EXCEPT ![k] = NoKey]
                \/ \E key \in Keys :
                     /\ origin.msg = Message(SetKey(k), key)
                     /\ auth_keys' = [auth_keys EXCEPT ![k] = key]
  <1>1. ASSUME AuthInv, [Next]_authVars PROVE AsSigned
    <2> SUFFICES ASSUME mode = "WORKING", mode' = "WORKING", auth_keys' # auth_keys,
                        origin # NoOrigin
                 PROVE  AsSigned
      OBVIOUS
    <2>1. \/ \E k \in KeyIds : RemoveAuthenticationKey(k)
          \/ \E k \in KeyIds, key \in Keys : SetAuthenticationKey(k, key)
      BY <1>1 DEF Next, AuthStep, KeyStep, authVars, keyState, Sign, GetChallenge, PutData,
           AuthenticateData, AuthenticateDataFails, SetAuthenticationKeyRoot,
           RemoveAuthenticationKeyRoot, RefuseCommand, Configured, ListAuthenticationKeys,
           IncrementCounter, IncrementCounterFails, UseBuffer, EraseRefused, Erase, ChangeMode
    <2>2. Authenticated
      BY <2>1 DEF RemoveAuthenticationKey, SetAuthenticationKey, Use
    <2>3. buffer = origin.msg /\ origin.key = 0
      BY <1>1, <2>2, KeyIdTypes DEF AuthInv, OriginInv, Authenticated
    <2>4. QED
      BY <2>1, <2>3 DEF RemoveAuthenticationKey, SetAuthenticationKey, Holds
  <1>2. QED
    BY <1>1, AuthInvariant, PTL DEF Spec, KeysChangeAsSigned
=============================================================================
