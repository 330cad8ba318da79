--------------------------- MODULE CountersProofs ---------------------------
(***************************************************************************)
(* Counters for any counters, lectures, keys and signatures.               *)
(*                                                                         *)
(* Seen without its counters the card is that of CardAuth, so that what    *)
(* CardAuthProofs says of challenges holds here.  That an attendance       *)
(* counts once follows: what has been counted is at most the number of     *)
(* signatures whose challenge has been accepted.  That an index is earned  *)
(* needs the same of the indices in the archives.                          *)
(***************************************************************************)
EXTENDS Counters, CardAuthProofs

\* The signed attendances of counter n whose challenge was accepted.
Used(n) ==
  {s \in signed : s.msg \in Increments /\ s.msg.counter_id = n /\ s.challenge \in accepted}

CounterTypes ==
  /\ counters \in [CounterIds -> Counter]
  /\ counter_archives \subseteq Archives
  /\ granted \in [CounterIds -> 0..ByteSize-1]
  /\ counted \in [CounterIds -> Nat]

CountedInv ==
  /\ IsFiniteSet(signed)
  /\ \A n \in CounterIds : counted[n] <= Cardinality(Used(n))

EarnedInv ==
  /\ IndexEarned
  /\ \A a \in counter_archives : \A n \in DOMAIN a : a[n].index <= granted[n] + counted[n]

CounterInv == CounterTypes /\ CountedInv /\ EarnedInv

-----------------------------------------------------------------------------
(* The card without its counters.  *)

LEMMA StepWithoutCounters ==
  ASSUME [CounterNext]_vars
  PROVE  [Next]_authVars
  <1>1. CASE OtherStep
    BY <1>1 DEF OtherStep, Next
  <1>2. CASE \E n \in CounterIds : RemoveCounter(n) \/ \E v \in NewCounters : SetCounter(n, v)
    <2>1. UNCHANGED authVars \/ \E c \in CounterCommands : Configured(c)
      BY <1>2 DEF RemoveCounter, SetCounter, CounterCommands
    <2> QED
      BY <2>1, CountersAssumption DEF Next
  <1>3. CASE \E k \in KeyIds, data \in signed : Increment(k, data)
    BY <1>3 DEF Increment, Next
  <1>4. CASE BackupCounters
    <2>1. UseBuffer
      BY <1>4 DEF BackupCounters, UseBuffer, challenges
    <2> QED
      BY <2>1 DEF Next, AuthStep
  <1>5. CASE \E a \in counter_archives : RestoreCounters(a)
    <2>1. UseBuffer
      BY <1>5 DEF RestoreCounters, UseBuffer
    <2> QED
      BY <2>1 DEF Next, AuthStep
  <1>6. CASE EraseCounters
    BY <1>6 DEF EraseCounters, Next
  <1>7. CASE UNCHANGED vars
    BY <1>7 DEF vars
  <1> QED
    BY <1>1, <1>2, <1>3, <1>4, <1>5, <1>6, <1>7 DEF CounterNext

\* The counters take nothing from what CardAuth promises: their commands are among those
\* whose authentication and buffer it describes.
THEOREM CountersKeepAuth == CounterSpec => Spec
  <1>1. CounterInit => AuthInit
    BY DEF CounterInit
  <1>2. [CounterNext]_vars => [Next]_authVars
    BY StepWithoutCounters
  <1> QED
    BY <1>1, <1>2, PTL DEF CounterSpec, Spec

-----------------------------------------------------------------------------
(* What has been counted.  *)

LEMMA SignedAndAcceptedGrow ==
  ASSUME IsFiniteSet(signed), [Next]_authVars
  PROVE  accepted \subseteq accepted' /\ signed \subseteq signed' /\ IsFiniteSet(signed')
  <1>1. CASE \E s \in Keys, n \in 1..drawn : \E m \in SignedBy[s] :
               Sign([signer |-> s, challenge |-> n, msg |-> m])
    <2>1. PICK s : signed' = signed \cup {s} /\ accepted' = accepted
      BY <1>1 DEF Sign, history
    <2> QED
      BY <2>1, FS_AddElement
  <1>2. CASE signed' = signed /\ accepted \subseteq accepted'
    BY <1>2
  <1>3. CASE AuthStep
    <2>1. CASE \E k \in KeyIds : KeyStep(k)
      <3>1. signed' = signed /\ accepted \subseteq accepted'
        BY <2>1 DEF KeyStep, AuthenticateData, Extract, SetAuthenticationKeyRoot,
                    RemoveAuthenticationKeyRoot, RemoveAuthenticationKey,
                    SetAuthenticationKey, history
      <3> QED
        BY <3>1, <1>2
    <2>2. CASE \/ \E size \in ChallengeSizes : GetChallenge(size)
               \/ \E data \in Plain \cup signed : PutData(data)
               \/ AuthenticateDataFails \/ RefuseCommand
               \/ ListAuthenticationKeys \/ UseBuffer \/ EraseRefused
               \/ \E m \in Modes : ChangeMode(m)
      <3>1. signed' = signed /\ accepted' = accepted
        BY <2>2 DEF GetChallenge, PutData, AuthenticateDataFails, RefuseCommand,
                    ListAuthenticationKeys, UseBuffer, EraseRefused, ChangeMode, history
      <3> QED
        BY <3>1, <1>2
    <2> QED
      BY <1>1, <1>3, <2>1, <2>2 DEF AuthStep
  <1>4. CASE \/ Erase \/ UNCHANGED authVars
             \/ \E c \in PrefixCommands \cup EqualCommands : Configured(c)
             \/ \E k \in KeyIds, data \in signed : IncrementCounter(k, data)
             \/ \E data \in signed \cup {OtherData} : IncrementCounterFails(data)
    <2>1. signed' = signed /\ accepted \subseteq accepted'
      BY <1>4 DEF Erase, Configured, IncrementCounter, Extract, IncrementCounterFails,
                  authVars, history
    <2> QED
      BY <2>1, <1>2
  <1> QED
    BY <1>3, <1>4 DEF Next

LEMMA UsedGrows ==
  ASSUME IsFiniteSet(signed), [Next]_authVars, NEW n
  PROVE  /\ Used(n) \subseteq Used(n)' /\ IsFiniteSet(Used(n)')
         /\ Cardinality(Used(n)) \in Nat /\ Cardinality(Used(n)') \in Nat
         /\ Cardinality(Used(n)) <= Cardinality(Used(n)')
  <1>1. accepted \subseteq accepted' /\ signed \subseteq signed' /\ IsFiniteSet(signed')
    BY SignedAndAcceptedGrow
  <1>2. Used(n) \subseteq signed /\ Used(n)' \subseteq signed' /\ Used(n) \subseteq Used(n)'
    BY <1>1 DEF Used
  <1>3. IsFiniteSet(Used(n)) /\ IsFiniteSet(Used(n)')
    BY <1>1, <1>2, FS_Subset
  <1> QED
    BY <1>2, <1>3, FS_Subset, FS_CardinalityType

\* What counts is a signature whose challenge was not accepted before.
LEMMA CountingUses ==
  ASSUME AuthInv, IsFiniteSet(signed), [Next]_authVars,
         NEW k \in KeyIds, NEW data \in signed,
         IncrementCounter(k, data), Counts(k, data.msg)
  PROVE  Cardinality(Used(data.msg.counter_id)) + 1 <= Cardinality(Used(data.msg.counter_id)')
  <1> DEFINE n == data.msg.counter_id
  <1>1. data.challenge = challenge /\ challenge \notin accepted
    BY DEF IncrementCounter, Extracts, AuthInv, ChallengeInv
  <1>2. data \notin Used(n)
    BY <1>1 DEF Used
  <1>3. data \in Used(n)'
    BY DEF Used, IncrementCounter, Extract, Counts
  <1>4. /\ Used(n) \subseteq Used(n)' /\ IsFiniteSet(Used(n)')
        /\ Cardinality(Used(n)') \in Nat
    BY UsedGrows
  <1> HIDE DEF n
  <1>5. IsFiniteSet(Used(n))
    BY <1>4, FS_Subset
  <1>6. Cardinality(Used(n) \cup {data}) = Cardinality(Used(n)) + 1
    BY <1>2, <1>5, FS_AddElement
  <1>7. Used(n) \cup {data} \subseteq Used(n)'
    BY <1>3, <1>4
  <1>8. Cardinality(Used(n) \cup {data}) <= Cardinality(Used(n)')
    BY <1>4, <1>7, FS_Subset
  <1> QED
    BY <1>6, <1>8 DEF n

LEMMA OnlyIncrementsCount ==
  ASSUME [CounterNext]_vars
  PROVE  \/ counted' = counted
         \/ \E k \in KeyIds, data \in signed : Increment(k, data) /\ Counts(k, data.msg)
  <1>1. CASE \E k \in KeyIds, data \in signed : Increment(k, data)
    BY <1>1 DEF Increment
  <1>2. CASE ~ \E k \in KeyIds, data \in signed : Increment(k, data)
    BY <1>2 DEF CounterNext, OtherStep, RemoveCounter, SetCounter, WriteCounter, BackupCounters,
                RestoreCounters, EraseCounters, vars, counterVars
  <1> QED
    BY <1>1, <1>2

LEMMA CountedStep ==
  ASSUME AuthInv, CounterTypes, CountedInv, [CounterNext]_vars
  PROVE  CountedInv'
  <1>1. [Next]_authVars
    BY StepWithoutCounters
  <1>2. IsFiniteSet(signed')
    BY <1>1, SignedAndAcceptedGrow DEF CountedInv
  <1>3. SUFFICES ASSUME NEW n \in CounterIds
                 PROVE  counted'[n] <= Cardinality(Used(n)')
    BY <1>2 DEF CountedInv, Used
  <1>4. /\ Cardinality(Used(n)) \in Nat /\ Cardinality(Used(n)') \in Nat
        /\ Cardinality(Used(n)) <= Cardinality(Used(n)')
    BY <1>1, UsedGrows DEF CountedInv
  <1>5. counted[n] \in Nat /\ counted[n] <= Cardinality(Used(n))
    BY DEF CounterTypes, CountedInv
  <1>6. CASE counted' = counted
    BY <1>4, <1>5, <1>6
  <1>7. ASSUME NEW k \in KeyIds, NEW data \in signed,
               Increment(k, data), Counts(k, data.msg)
        PROVE  counted'[n] <= Cardinality(Used(n)')
    <2> DEFINE m == data.msg.counter_id
    <2>1. counted' = [counted EXCEPT ![m] = @ + 1]
      BY <1>7 DEF Increment
    <2>2. Cardinality(Used(m)) + 1 <= Cardinality(Used(m)')
      BY <1>1, <1>7, CountingUses DEF Increment, CountedInv
    <2> HIDE DEF m
    <2>3. CASE n = m
      <3>1. counted'[n] = counted[n] + 1
        BY <2>1, <2>3 DEF CounterTypes
      <3> QED
        BY <1>4, <1>5, <2>2, <2>3, <3>1
    <2>4. CASE n # m
      <3>1. counted'[n] = counted[n]
        BY <2>1, <2>4 DEF CounterTypes
      <3> QED
        BY <1>4, <1>5, <3>1
    <2> QED
      BY <2>3, <2>4
  <1> QED
    BY <1>6, <1>7, OnlyIncrementsCount

-----------------------------------------------------------------------------
(* Types, and what an index was earned by.  *)

LEMMA WriteTypes ==
  ASSUME CounterTypes, NEW n \in CounterIds, NEW v \in Counter, WriteCounter(n, v)
  PROVE  CounterTypes'
  <1>1. counters' \in [CounterIds -> Counter]
    BY DEF WriteCounter, CounterTypes
  <1>2. v.index \in 0..ByteSize-1
    BY DEF Counter
  <1>3. granted' \in [CounterIds -> 0..ByteSize-1]
    BY <1>2 DEF WriteCounter, CounterTypes
  <1> QED
    BY <1>1, <1>3 DEF WriteCounter, CounterTypes

LEMMA IndexType ==
  ASSUME CounterTypes, NEW n \in CounterIds
  PROVE  counters[n] \in Counter /\ counters[n].index \in Nat /\ counters[n].index \in 0..255
  <1>1. counters[n] \in Counter
    BY DEF CounterTypes
  <1>2. counters[n].index \in 0..255
    BY <1>1 DEF Counter, ByteSize
  <1> QED
    BY <1>1, <1>2

\* The counter is given the index it gets; that of the others is what it was.
LEMMA WriteEarned ==
  ASSUME CounterTypes, EarnedInv, NEW n \in CounterIds, NEW v \in Counter, WriteCounter(n, v)
  PROVE  EarnedInv'
  <1>1. counted' = counted /\ counter_archives' = counter_archives
    BY DEF WriteCounter
  <1>2. v.index \in 0..ByteSize-1
    BY DEF Counter
  <1>3. ASSUME NEW x \in CounterIds
        PROVE  /\ granted[x] \in Nat /\ granted'[x] \in Nat /\ counted[x] \in Nat
               /\ granted[x] <= granted'[x]
               /\ x = n => v.index <= granted'[x]
    <2>1. /\ granted \in [CounterIds -> 0..255] /\ granted[x] \in 0..255
          /\ counted[x] \in Nat /\ v.index \in 0..255
      BY <1>2 DEF CounterTypes, ByteSize
    <2>2. CASE v.index > granted[n]
      <3>1. granted' = [granted EXCEPT ![n] = v.index]
        BY <2>2 DEF WriteCounter
      <3>2. CASE x = n
        <4>1. granted'[x] = v.index /\ granted[x] < v.index
          BY <2>1, <2>2, <3>1, <3>2
        <4>2. granted[x] \in Nat /\ v.index \in Nat
          BY <2>1
        <4>3. granted[x] <= v.index /\ v.index <= v.index
          BY <4>1, <4>2
        <4> QED
          BY <2>1, <4>1, <4>2, <4>3
      <3>3. CASE x # n
        <4>1. granted'[x] = granted[x]
          BY <2>1, <3>1, <3>3
        <4> QED
          BY <2>1, <3>3, <4>1
      <3> QED
        BY <3>2, <3>3
    <2>3. CASE ~(v.index > granted[n])
      <3>1. granted' = granted
        BY <2>3 DEF WriteCounter
      <3> QED
        BY <2>1, <2>3, <3>1
    <2> QED
      BY <2>2, <2>3
  <1>4. v.index <= granted'[n]
    BY <1>3
  <1>5. ASSUME NEW x \in CounterIds
        PROVE  counters'[x].index <= granted'[x] + counted'[x]
    <2>1. CASE x = n
      <3>1. counters'[x].index = v.index
        BY <2>1 DEF WriteCounter, CounterTypes
      <3> QED
        BY <1>1, <1>2, <1>3, <1>4, <2>1, <3>1 DEF ByteSize
    <2>2. CASE x # n
      <3>1. counters'[x].index = counters[x].index
        BY <2>2 DEF WriteCounter, CounterTypes
      <3>2. counters[x].index \in Nat /\ counters[x].index <= granted[x] + counted[x]
        BY IndexType DEF EarnedInv, IndexEarned
      <3> QED
        BY <1>1, <1>3, <3>1, <3>2
    <2> QED
      BY <2>1, <2>2
  <1>6. ASSUME NEW a \in counter_archives', NEW x \in DOMAIN a
        PROVE  a[x].index <= granted'[x] + counted'[x]
    <2>1. a \in Archives /\ a[x].index <= granted[x] + counted[x]
      BY <1>1, <1>6 DEF CounterTypes, EarnedInv
    <2>2. x \in CounterIds /\ a[x].index \in Int
      BY <2>1, <1>6 DEF Archives, ByteSize
    <2> QED
      BY <1>1, <1>3, <2>1, <2>2
  <1> QED
    BY <1>5, <1>6 DEF EarnedInv, IndexEarned

LEMMA ZeroIsCounter == ZeroCounter \in Counter /\ NewCounters \subseteq Counter
  BY CountersAssumption DEF ZeroCounter, Counter, ByteSize

LEMMA ConfigurationStep ==
  ASSUME CounterTypes, EarnedInv, NEW n \in CounterIds,
         RemoveCounter(n) \/ \E v \in NewCounters : SetCounter(n, v)
  PROVE  CounterTypes' /\ EarnedInv'
  <1>1. PICK v \in Counter : WriteCounter(n, v)
    BY ZeroIsCounter DEF RemoveCounter, SetCounter
  <1> QED
    BY <1>1, WriteTypes, WriteEarned

\* One more is counted; the index goes up by one, or wraps to zero.
LEMMA IncrementStep ==
  ASSUME CounterTypes, EarnedInv, NEW k \in KeyIds, NEW data \in signed, Increment(k, data)
  PROVE  CounterTypes' /\ EarnedInv'
  <1> DEFINE n == data.msg.counter_id
  <1>1. counter_archives' = counter_archives /\ granted' = granted
    BY DEF Increment
  <1>2. CASE UNCHANGED <<counters, counted>>
    BY <1>1, <1>2 DEF CounterTypes, EarnedInv, IndexEarned
  <1>3. CASE /\ Counts(k, data.msg)
             /\ counters' = [counters EXCEPT ![n].index = (@ + 1) % ByteSize,
                                             ![n].cursor = data.msg.cursor]
             /\ counted' = [counted EXCEPT ![n] = @ + 1]
    <2>1. n \in CounterIds /\ data.msg.cursor \in Cursors
      BY <1>3, CountersAssumption DEF Counts
    <2> HIDE DEF n
    <2>2. counters[n] \in Counter /\ counters[n].index \in 0..255
      BY <2>1, IndexType
    <2>3. /\ (counters[n].index + 1) % ByteSize \in 0..255
          /\ (counters[n].index + 1) % ByteSize <= counters[n].index + 1
      BY <2>2 DEF ByteSize
    <2> DEFINE new == [counters[n] EXCEPT !.index = (@ + 1) % ByteSize,
                                          !.cursor = data.msg.cursor]
    <2>4. counters' = [counters EXCEPT ![n] = new]
      BY <1>3, <2>1, <2>2 DEF CounterTypes, Counter
    <2>5. new \in Counter /\ new.index = (counters[n].index + 1) % ByteSize
      <3>1. (counters[n].index + 1) % ByteSize \in 0..ByteSize-1
        BY <2>3 DEF ByteSize
      <3> QED
        BY <2>1, <2>2, <3>1 DEF Counter
    <2> HIDE DEF new
    <2>6. counters' \in [CounterIds -> Counter] /\ counted' \in [CounterIds -> Nat]
      <3>1. counters' \in [CounterIds -> Counter]
        BY <2>1, <2>4, <2>5 DEF CounterTypes
      <3>2. counted' \in [CounterIds -> Nat]
        BY <1>3, <2>1 DEF CounterTypes
      <3> QED
        BY <3>1, <3>2
    <2>7. ASSUME NEW x \in CounterIds
          PROVE  /\ counted[x] \in Nat /\ counted'[x] \in Nat /\ counted[x] <= counted'[x]
                 /\ granted[x] \in Nat
                 /\ counters'[x].index <= granted[x] + counted'[x]
      <3>1. counters[x].index \in Nat /\ counters[x].index <= granted[x] + counted[x]
        BY IndexType DEF EarnedInv, IndexEarned
      <3>4. counted[x] \in Nat /\ granted[x] \in Nat
        BY DEF CounterTypes, ByteSize
      <3>2. CASE x = n
        <4>1. /\ counted'[x] = counted[x] + 1
              /\ counters'[x].index = (counters[x].index + 1) % ByteSize
          BY <1>3, <2>1, <2>4, <2>5, <3>2 DEF CounterTypes
        <4> QED
          BY <2>3, <3>1, <3>2, <3>4, <4>1
      <3>3. CASE x # n
        <4>1. counted'[x] = counted[x] /\ counters'[x] = counters[x]
          BY <1>3, <2>4, <3>3 DEF CounterTypes
        <4> QED
          BY <3>1, <3>4, <4>1
      <3> QED
        BY <3>2, <3>3
    <2>8. ASSUME NEW a \in counter_archives, NEW x \in DOMAIN a
          PROVE  a[x].index <= granted[x] + counted'[x]
      <3>1. a \in Archives /\ a[x].index <= granted[x] + counted[x]
        BY <2>8 DEF CounterTypes, EarnedInv
      <3>2. x \in CounterIds /\ a[x].index \in Int
        BY <3>1, <2>8 DEF Archives, ByteSize
      <3> QED
        BY <2>7, <3>1, <3>2
    <2> QED
      BY <1>1, <2>6, <2>7, <2>8 DEF CounterTypes, EarnedInv, IndexEarned
  <1> QED
    BY <1>2, <1>3 DEF Increment

LEMMA BackupStep ==
  ASSUME CounterTypes, EarnedInv, BackupCounters
  PROVE  CounterTypes' /\ EarnedInv'
  <1> DEFINE archive == [n \in Existing |-> [index |-> counters[n].index,
                                             cursor |-> counters[n].cursor]]
  <1>1. /\ counter_archives' = counter_archives \cup {archive}
        /\ UNCHANGED <<counters, granted, counted>>
    BY DEF BackupCounters
  <1>2. Existing \subseteq CounterIds
    BY DEF Existing
  <1>3. archive \in [Existing -> [index : 0..ByteSize-1, cursor : Cursors]]
    BY <1>2 DEF CounterTypes, Counter
  <1>4. archive \in Archives
    BY <1>2, <1>3 DEF Archives
  <1>5. \A n \in DOMAIN archive : archive[n].index <= granted[n] + counted[n]
    BY <1>2 DEF EarnedInv, IndexEarned
  <1> HIDE DEF archive
  <1>6. CounterTypes'
    BY <1>1, <1>4 DEF CounterTypes
  <1>7. EarnedInv'
    BY <1>1, <1>5 DEF EarnedInv, IndexEarned
  <1> QED
    BY <1>6, <1>7

LEMMA RestoreStep ==
  ASSUME CounterTypes, EarnedInv, NEW a \in counter_archives, RestoreCounters(a)
  PROVE  CounterTypes' /\ EarnedInv'
  <1>1. UNCHANGED <<counter_archives, granted, counted>>
    BY DEF RestoreCounters
  <1>2. ASSUME NEW n \in CounterIds
        PROVE  /\ Restored(a)[n] \in Counter
               /\ \/ Restored(a)[n].index = counters[n].index
                  \/ n \in DOMAIN a /\ Restored(a)[n].index = a[n].index
    <2>1. counters[n] \in Counter
      BY DEF CounterTypes
    <2>2. CASE Restored(a)[n] = counters[n]
      BY <2>1, <2>2
    <2>3. CASE /\ n \in DOMAIN a
               /\ Restored(a)[n] = [counters[n] EXCEPT !.index = a[n].index,
                                                       !.cursor = a[n].cursor]
      <3>1. a[n] \in [index : 0..ByteSize-1, cursor : Cursors]
        BY <2>3 DEF CounterTypes, Archives
      <3> QED
        BY <2>1, <2>3, <3>1 DEF Counter
    <2> QED
      BY <2>2, <2>3 DEF Restored
  <1>3. counters' = [n \in CounterIds |-> Restored(a)[n]]
    BY DEF RestoreCounters, Restored
  <1>4. counters' \in [CounterIds -> Counter]
    BY <1>2, <1>3
  <1>5. ASSUME NEW n \in CounterIds
        PROVE  counters'[n].index <= granted[n] + counted[n]
    BY <1>2, <1>3 DEF EarnedInv, IndexEarned
  <1> QED
    BY <1>1, <1>4, <1>5 DEF CounterTypes, EarnedInv, IndexEarned

LEMMA EraseStep ==
  ASSUME CounterTypes, EarnedInv, EraseCounters
  PROVE  CounterTypes' /\ EarnedInv'
  <1>1. /\ counters' = [n \in CounterIds |-> ZeroCounter]
        /\ UNCHANGED <<counter_archives, granted, counted>>
    BY DEF EraseCounters
  <1>2. CounterTypes'
    BY <1>1, ZeroIsCounter DEF CounterTypes
  <1>3. \A n \in CounterIds : counters'[n].index = 0
    BY <1>1 DEF ZeroCounter
  <1>4. \A n \in CounterIds : granted[n] \in Nat /\ counted[n] \in Nat
    BY DEF CounterTypes, ByteSize
  <1>5. IndexEarned'
    BY <1>1, <1>3, <1>4 DEF IndexEarned
  <1> QED
    BY <1>1, <1>2, <1>5 DEF EarnedInv

LEMMA TypesAndEarnedStep ==
  ASSUME CounterTypes, EarnedInv, [CounterNext]_vars
  PROVE  CounterTypes' /\ EarnedInv'
  <1>1. CASE OtherStep \/ UNCHANGED vars
    BY <1>1 DEF OtherStep, vars, counterVars, CounterTypes, EarnedInv, IndexEarned
  <1> QED
    BY <1>1, ConfigurationStep, IncrementStep, BackupStep, RestoreStep, EraseStep
    DEF CounterNext

-----------------------------------------------------------------------------
(* What follows.  *)

LEMMA CounterInitInv ==
  ASSUME CounterInit
  PROVE  CounterInv
  <1>1. CounterTypes
    BY ZeroIsCounter DEF CounterInit, CounterTypes, ByteSize
  <1>2. signed = {} /\ \A n \in CounterIds : counted[n] = 0
    BY DEF CounterInit, AuthInit
  <1>3. CountedInv
    <2>1. \A n : Used(n) = {}
      BY <1>2 DEF Used
    <2> QED
      BY <1>2, <2>1, FS_EmptySet DEF CountedInv
  <1>4. EarnedInv
    BY DEF CounterInit, EarnedInv, IndexEarned, ZeroCounter
  <1> QED
    BY <1>1, <1>3, <1>4 DEF CounterInv

\* Types, counts and indices of Counters stay in step with the signatures and the archives.
THEOREM CounterInvariant == CounterSpec => []CounterInv
  <1>1. CounterInit => CounterInv
    BY CounterInitInv
  <1>2. CounterInv /\ AuthInv /\ [CounterNext]_vars => CounterInv'
    BY CountedStep, TypesAndEarnedStep DEF CounterInv
  <1> QED
    BY <1>1, <1>2, CountersKeepAuth, AuthInvariant, PTL DEF CounterSpec

\* CountersTypeOK: the handlers of the counters keep the types, the index that wraps included.
THEOREM CountersTypeCorrect == CounterSpec => []CountersTypeOK
  <1>1. CounterInv /\ TypeOK => CountersTypeOK
    BY DEF CounterInv, CounterTypes, CountersTypeOK
  <1> QED
    BY <1>1, CounterInvariant, CountersKeepAuth, AuthTypeCorrect, PTL

\* AttendanceCountedOnce: INCREMENT_COUNTER counts a signed attendance at most once, in any
\* order of lectures, keys, backups and restores.
THEOREM AttendancesCountOnce == CounterSpec => []AttendanceCountedOnce
  <1>1. ASSUME CounterInv
        PROVE  AttendanceCountedOnce
    <2>1. SUFFICES ASSUME NEW n \in CounterIds
                   PROVE  counted[n] <= Cardinality({s \in signed : /\ s.msg \in Increments
                                                                    /\ s.msg.counter_id = n})
      BY DEF AttendanceCountedOnce
    <2> DEFINE S == {s \in signed : s.msg \in Increments /\ s.msg.counter_id = n}
    <2>2. Used(n) \subseteq S /\ S \subseteq signed /\ IsFiniteSet(signed)
      BY <1>1 DEF CounterInv, CountedInv, Used
    <2> HIDE DEF S
    <2>3. IsFiniteSet(S) /\ IsFiniteSet(Used(n)) /\ Cardinality(Used(n)) <= Cardinality(S)
      BY <2>2, FS_Subset
    <2>4. /\ Cardinality(S) \in Nat /\ Cardinality(Used(n)) \in Nat
          /\ counted[n] \in Nat /\ counted[n] <= Cardinality(Used(n))
      BY <1>1, <2>3, FS_CardinalityType DEF CounterInv, CounterTypes, CountedInv
    <2>5. counted[n] <= Cardinality(S)
      BY <2>3, <2>4
    <2> QED
      BY <2>5 DEF S
  <1> QED
    BY <1>1, CounterInvariant, PTL

\* IndexEarned: no restore of a counter gives it an index it was not given and has not counted.
THEOREM IndicesAreEarned == CounterSpec => []IndexEarned
  <1>1. CounterInv => IndexEarned
    BY DEF CounterInv, EarnedInv
  <1> QED
    BY <1>1, CounterInvariant, PTL
=============================================================================
