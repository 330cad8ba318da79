------------------------- MODULE ProofSessionProofs -------------------------
(***************************************************************************)
(* The nonces of ProofSession for any number of provers, credentials,      *)
(* issuers and challenges, and the presentation limit.                     *)
(*                                                                         *)
(* That no nonce is answered under two challenges is not inductive.  It    *)
(* rests on where the live nonces are: drawn already, no two holders of    *)
(* one nonce, unused while a commitment is open, and answered under the    *)
(* session's challenge alone while it responds.                            *)
(***************************************************************************)
EXTENDS ProofSession, TLAPS

Live(p) == provers[p].proofstatus # Idle

\* Every nonce in use came out of the random stream of this run.
NoncesDrawn ==
  /\ \A p \in ProverIds : Live(p) => provers[p].kx <= drawn
  /\ \A k \in CredIds : OpenCredential(k) => credentials[k].kv <= drawn
  /\ \A a \in answered : a.nonce <= drawn

\* No nonce has two holders.
NoncesNotShared ==
  /\ \A p, q \in ProverIds : p # q /\ Live(p) /\ Live(q) => provers[p].kx # provers[q].kx
  /\ \A p \in ProverIds, k \in CredIds :
       Live(p) /\ OpenCredential(k) => provers[p].kx # credentials[k].kv

\* A session that responds has one challenge, and its nonce was answered under it alone.
SessionHasOneChallenge ==
  \A p \in ProverIds : provers[p].proofstatus = Responding
    => /\ provers[p].c \in Challenges
       /\ \A a \in answered : a.nonce = provers[p].kx => a.c = provers[p].c

NonceInv == /\ TypeOK
            /\ NoncesDrawn /\ NoncesNotShared
            /\ OpenNoncesUnused
            /\ SessionHasOneChallenge
            /\ OneChallengePerNonce

USE DEF Idle, Committing, Responding, Fresh, Issuing, Issued, Presenting, Exhausted

-----------------------------------------------------------------------------
(* Type correctness.  *)

LEMMA ZeroTypes ==
  /\ ZeroProver \in Prover /\ ZeroProver.proofstatus = Idle
  /\ NewProver \in Prover /\ NewProver.proofstatus = Idle
  /\ ZeroIssuer \in Issuer
  /\ ZeroCredential \in Credential /\ ZeroCredential.status = Fresh
  /\ \A i \in IssuerIds : NewCredential(i) \in Credential /\ NewCredential(i).status = Fresh
  <1>1. TRUE \in BOOLEAN /\ FALSE \in BOOLEAN /\ 0 \in 0..255 /\ 0 \in 0..4 /\ 0 \in Nat
    OBVIOUS
  <1>2. ZeroProver \in Prover
    BY <1>1, Zenon DEF ZeroProver, Prover
  <1>3. NewProver \in Prover
    BY <1>1, <1>2, Zenon DEF NewProver, Prover
  <1>4. ZeroIssuer \in Issuer
    BY <1>1, Zenon DEF ZeroIssuer, Issuer
  <1>5. ZeroCredential \in Credential
    BY <1>1, Zenon DEF ZeroCredential, Credential
  <1>6. ASSUME NEW i \in IssuerIds PROVE NewCredential(i) \in Credential
    BY <1>1, <1>5, <1>6 DEF NewCredential, Credential
  <1>7. /\ ZeroProver.proofstatus = Idle /\ NewProver.proofstatus = Idle
        /\ ZeroCredential.status = Fresh
        /\ \A i \in IssuerIds : NewCredential(i).status = Fresh
    BY DEF ZeroProver, NewProver, ZeroCredential, NewCredential
  <1>8. QED
    BY <1>2, <1>3, <1>4, <1>5, <1>6, <1>7

LEMMA LimitType ==
  ASSUME NEW n \in 0..255
  PROVE  Limit(n) \in 0..ByteSize /\ Limit(n) >= 1 /\ 0 \in 0..ByteSize
  BY DEF Limit, ByteSize

LEMMA ProverUpdateTypes ==
  ASSUME NEW pr \in Prover
  PROVE  /\ \A n \in Nat : [pr EXCEPT !.kx = n, !.proofstatus = Committing] \in Prover
         /\ \A c \in Challenges : [pr EXCEPT !.c = c, !.proofstatus = Responding] \in Prover
  BY DEF Prover

LEMMA CredentialUpdateTypes ==
  ASSUME NEW cr \in Credential, NEW s \in Fresh..Exhausted
  PROVE  /\ \A n \in Nat : [cr EXCEPT !.kv = n, !.status = s] \in Credential
         /\ [cr EXCEPT !.status = s] \in Credential
         /\ \A n \in 0..255 : [cr EXCEPT !.prescount = n, !.status = s] \in Credential
  BY DEF Credential

\* What every step but those of a nonce's life leaves alone.
LEMMA SameNonces ==
  ASSUME NonceInv, TypeOK', UNCHANGED <<provers, credentials, drawn, answered>>
  PROVE  NonceInv'
  BY DEF NonceInv, NoncesDrawn, NoncesNotShared, OpenNoncesUnused, Live, OpenCredential,
         SessionHasOneChallenge, OneChallengePerNonce

\* A prover that is set, set again or removed gives up its session.
LEMMA IdleProver ==
  ASSUME NonceInv, TypeOK', NEW p \in ProverIds, NEW pr \in Prover, pr.proofstatus = Idle,
         provers' = [provers EXCEPT ![p] = pr],
         UNCHANGED <<credentials, drawn, answered>>
  PROVE  NonceInv'
  <1>1. \A q \in ProverIds : /\ q = p => provers'[q].proofstatus = Idle
                             /\ q # p => provers'[q] = provers[q]
    BY DEF NonceInv, TypeOK
  <1>2. QED
    BY <1>1 DEF NonceInv, NoncesDrawn, NoncesNotShared, OpenNoncesUnused, Live,
                OpenCredential, SessionHasOneChallenge, OneChallengePerNonce

\* A credential that is set or removed gives up its commitment.
LEMMA ClosedCredential ==
  ASSUME NonceInv, TypeOK', NEW k \in CredIds, NEW cr \in Credential,
         cr.status \notin {Issuing, Presenting},
         credentials' = [credentials EXCEPT ![k] = cr],
         UNCHANGED <<provers, drawn, answered>>
  PROVE  NonceInv'
  <1>1. \A l \in CredIds : /\ l = k => ~OpenCredential(l)'
                           /\ l # k => credentials'[l] = credentials[l]
    BY DEF NonceInv, TypeOK, OpenCredential
  <1>2. QED
    BY <1>1 DEF NonceInv, NoncesDrawn, NoncesNotShared, OpenNoncesUnused, Live,
                OpenCredential, SessionHasOneChallenge, OneChallengePerNonce

\* Empty tables hold no nonce.
LEMMA ClearedTables ==
  ASSUME TypeOK', ClearTables, OneChallengePerNonce',
         \A a \in answered' : a.nonce <= drawn'
  PROVE  NonceInv'
  <1>1. /\ \A p \in ProverIds : provers'[p].proofstatus = Idle
        /\ \A k \in CredIds : ~OpenCredential(k)'
    BY DEF ClearTables, ZeroProver, ZeroCredential, OpenCredential
  <1>2. QED
    BY <1>1 DEF NonceInv, NoncesDrawn, NoncesNotShared, OpenNoncesUnused, Live,
                SessionHasOneChallenge

-----------------------------------------------------------------------------
(* The steps of a nonce's life.  *)

LEMMA StartCommitmentsKeepsNonceInv ==
  ASSUME NonceInv, TypeOK', NEW p \in ProverIds, StartCommitments(p)
  PROVE  NonceInv'
  <1>1. \A q \in ProverIds :
          /\ q = p => provers'[q].proofstatus = Committing /\ provers'[q].kx = drawn + 1
          /\ q # p => provers'[q] = provers[q]
    BY DEF NonceInv, TypeOK, StartCommitments, Prover
  <1>2. UNCHANGED <<credentials, answered>> /\ drawn' = drawn + 1 /\ drawn \in Nat
    BY DEF NonceInv, TypeOK, StartCommitments
  <1>3. /\ \A q \in ProverIds : provers[q].kx \in Nat
        /\ \A k \in CredIds : credentials[k].kv \in Nat
        /\ \A a \in answered : a.nonce \in Nat
    BY DEF NonceInv, TypeOK, Prover, Credential
  <1>4. NoncesDrawn' /\ NoncesNotShared'
    BY <1>1, <1>2, <1>3 DEF NonceInv, NoncesDrawn, NoncesNotShared, Live, OpenCredential
  <1>5. OpenNoncesUnused'
    BY <1>1, <1>2, <1>3 DEF NonceInv, NoncesDrawn, OpenNoncesUnused, OpenCredential
  <1>6. SessionHasOneChallenge' /\ OneChallengePerNonce'
    BY <1>1, <1>2 DEF NonceInv, SessionHasOneChallenge, OneChallengePerNonce
  <1>7. QED
    BY <1>4, <1>5, <1>6 DEF NonceInv

LEMMA StartResponsesKeepsNonceInv ==
  ASSUME NonceInv, TypeOK', NEW p \in ProverIds, NEW c \in Challenges,
         StartResponses(p, c)
  PROVE  NonceInv'
  <1>1. \A q \in ProverIds :
          /\ q = p => /\ provers'[q].proofstatus = Responding /\ provers'[q].c = c
                      /\ provers'[q].kx = provers[q].kx
                      /\ provers[q].proofstatus = Committing
          /\ q # p => provers'[q] = provers[q]
    BY DEF NonceInv, TypeOK, StartResponses, Prover
  <1>2. UNCHANGED <<credentials, answered, drawn>>
    BY DEF StartResponses
  <1>3. NoncesDrawn' /\ NoncesNotShared'
    BY <1>1, <1>2 DEF NonceInv, NoncesDrawn, NoncesNotShared, Live, OpenCredential
  <1>4. OpenNoncesUnused'
    BY <1>1, <1>2 DEF NonceInv, OpenNoncesUnused, OpenCredential
  <1>5. SessionHasOneChallenge' /\ OneChallengePerNonce'
    BY <1>1, <1>2
       DEF NonceInv, SessionHasOneChallenge, OpenNoncesUnused, OneChallengePerNonce
  <1>6. QED
    BY <1>3, <1>4, <1>5 DEF NonceInv

LEMMA CommitKeepsNonceInv ==
  ASSUME NonceInv, TypeOK', NEW k \in CredIds, NEW from, NEW to, Commit(k, from, to)
  PROVE  NonceInv'
  <1>1. \A l \in CredIds : /\ l = k => credentials'[l].kv = drawn + 1
                           /\ l # k => credentials'[l] = credentials[l]
    BY DEF NonceInv, TypeOK, Commit, Credential
  <1>2. UNCHANGED <<provers, answered>> /\ drawn' = drawn + 1 /\ drawn \in Nat
    BY DEF NonceInv, TypeOK, Commit
  <1>3. /\ \A q \in ProverIds : provers[q].kx \in Nat
        /\ \A l \in CredIds : credentials[l].kv \in Nat
        /\ \A a \in answered : a.nonce \in Nat
    BY DEF NonceInv, TypeOK, Prover, Credential
  <1>4. NoncesDrawn' /\ NoncesNotShared'
    BY <1>1, <1>2, <1>3 DEF NonceInv, NoncesDrawn, NoncesNotShared, Live, OpenCredential
  <1>5. OpenNoncesUnused'
    BY <1>1, <1>2, <1>3 DEF NonceInv, NoncesDrawn, OpenNoncesUnused, OpenCredential
  <1>6. SessionHasOneChallenge' /\ OneChallengePerNonce'
    BY <1>2 DEF NonceInv, SessionHasOneChallenge, OneChallengePerNonce
  <1>7. QED
    BY <1>4, <1>5, <1>6 DEF NonceInv

\* A response spends the nonces it answers: kx under the challenge of its session, and
\* kv, which no response has used, with its commitment closed by the same step.
LEMMA AnswerKeepsNonceInv ==
  ASSUME NonceInv, TypeOK', InSession(Responding),
         NEW kv, NEW S \in SUBSET {Current.kx, kv},
         answered' = answered \cup {[nonce |-> n, c |-> Current.c] : n \in S},
         kv = Current.kx
           \/ \E k \in CredIds : /\ OpenCredential(k) /\ credentials[k].kv = kv
                                 /\ ~OpenCredential(k)',
         \A k \in CredIds : OpenCredential(k)' => /\ OpenCredential(k)
                                                  /\ credentials'[k].kv = credentials[k].kv,
         UNCHANGED <<provers, drawn>>
  PROVE  NonceInv'
  <1> DEFINE p == current_prover_id
  <1>1. p \in ProverIds /\ provers[p].proofstatus = Responding /\ Live(p)
        /\ Current = provers[p]
    BY DEF InSession, NonceInv, TypeOK, Live, Current
  <1>2. \A a \in answered' : a \in answered \/ (a.nonce \in S /\ a.c = Current.c)
    OBVIOUS
  <1>3. \A q \in ProverIds : q # p /\ Live(q) => provers[q].kx \notin S
    BY <1>1 DEF NonceInv, NoncesNotShared
  <1>4. \A k \in CredIds : OpenCredential(k)' => credentials[k].kv \notin S
    BY <1>1 DEF NonceInv, NoncesNotShared, OpenNoncesUnused
  <1>5. \A n \in S : n = Current.kx \/ \A a \in answered : a.nonce # n
    BY DEF NonceInv, OpenNoncesUnused
  <1>6. NoncesDrawn'
    <2>1. \A n \in S : n <= drawn
      BY <1>1 DEF NonceInv, NoncesDrawn
    <2>2. QED
      BY <1>2, <2>1 DEF NonceInv, NoncesDrawn, Live
  <1>7. NoncesNotShared'
    BY DEF NonceInv, NoncesNotShared, Live
  <1>8. OpenNoncesUnused'
    BY <1>1, <1>2, <1>3, <1>4 DEF NonceInv, OpenNoncesUnused, Live
  <1>9. SessionHasOneChallenge'
    BY <1>1, <1>2, <1>3, <1>5 DEF NonceInv, SessionHasOneChallenge, Live
  <1>10. OneChallengePerNonce'
    BY <1>1, <1>2, <1>5 DEF NonceInv, SessionHasOneChallenge, OneChallengePerNonce
  <1>11. QED
    BY <1>6, <1>7, <1>8, <1>9, <1>10 DEF NonceInv

-----------------------------------------------------------------------------
(* Every step keeps the types.  *)

LEMMA ResponseTypes ==
  ASSUME NonceInv, NEW k \in CredIds, InSession(Responding)
  PROVE  /\ Current.kx \in Nat /\ Current.c \in Challenges
         /\ answered \cup Responses(k) \subseteq [nonce : Nat, c : Challenges]
  <1>1. Current.kx \in Nat /\ Current.c \in Challenges
    BY DEF InSession, Current, NonceInv, TypeOK, SessionHasOneChallenge, Prover
  <1>2. credentials[k].kv \in Nat
    BY DEF NonceInv, TypeOK, Credential
  <1>3. QED
    BY <1>1, <1>2 DEF Responses, NonceInv, TypeOK

LEMMA ProverTypes ==
  ASSUME NonceInv, NEW p \in ProverIds, ProverStep(p)
  PROVE  TypeOK'
  <1> USE DEF TypeOK, NonceInv, limits
  <1>1. CASE SetProver(p)
    BY <1>1, ZeroTypes DEF SetProver
  <1>2. CASE RemoveProver(p)
    BY <1>2, ZeroTypes DEF RemoveProver
  <1>3. CASE StartCommitments(p)
    <2>1. [provers[p] EXCEPT !.kx = drawn + 1, !.proofstatus = Committing] \in Prover
      BY provers[p] \in Prover, drawn + 1 \in Nat, ProverUpdateTypes
    <2>2. QED
      BY <1>3, <2>1 DEF StartCommitments
  <1>4. ASSUME NEW c \in Challenges, StartResponses(p, c) PROVE TypeOK'
    <2>1. [provers[p] EXCEPT !.c = c, !.proofstatus = Responding] \in Prover
      BY ProverUpdateTypes
    <2>2. QED
      BY <1>4, <2>1 DEF StartResponses
  <1>5. QED
    BY <1>1, <1>2, <1>3, <1>4 DEF ProverStep

LEMMA IssuerTypes ==
  ASSUME NonceInv, NEW i \in IssuerIds, IssuerStep(i)
  PROVE  TypeOK'
  <1> USE DEF TypeOK, NonceInv, limits
  <1>1. CASE RemoveIssuer(i)
    BY <1>1, ZeroTypes DEF RemoveIssuer
  <1>2. ASSUME NEW n \in Presentations, NEW d \in BOOLEAN, SetIssuer(i, n, d)
        PROVE  TypeOK'
    <2>1. [exists |-> TRUE, numpres |-> n, double |-> d] \in Issuer
      BY Zenon DEF Issuer
    <2>2. Limit(n) \in 0..ByteSize
      BY LimitType, PresentationsAssumption
    <2>3. allowance' \in [CredIds -> 0..ByteSize]
      BY <1>2, <2>2 DEF SetIssuer
    <2>4. QED
      BY <1>2, <2>1, <2>3 DEF SetIssuer
  <1>3. QED
    BY <1>1, <1>2 DEF IssuerStep

LEMMA NumpresTypes ==
  ASSUME issuers \in [IssuerIds -> Issuer], NEW i \in IssuerIds
  PROVE  issuers[i].numpres \in 0..255 /\ Limit(issuers[i].numpres) \in 0..ByteSize
  <1>1. issuers[i].numpres \in Presentations \cup {0}
    BY Zenon DEF Issuer
  <1>2. issuers[i].numpres \in 0..255
    <2>1. \A n \in Presentations \cup {0} : n \in 0..255
      BY PresentationsAssumption
    <2>2. QED
      BY <1>1, <2>1, Zenon
  <1>3. QED
    BY <1>2, LimitType

LEMMA CredentialTypes ==
  ASSUME NonceInv, NEW k \in CredIds, CredentialStep(k)
  PROVE  TypeOK'
  <1> USE DEF TypeOK, NonceInv, limits
  <1>0. credentials[k] \in Credential
    OBVIOUS
  <1>1. CASE RemoveCredential(k)
    BY <1>1, ZeroTypes DEF RemoveCredential
  <1>2. ASSUME NEW i \in IssuerIds, SetCredential(k, i) PROVE TypeOK'
    <2>1. credentials' \in [CredIds -> Credential]
      BY <1>2, ZeroTypes DEF SetCredential
    <2>2. Limit(issuers[i].numpres) \in 0..ByteSize
      BY NumpresTypes
    <2>3. allowance' \in [CredIds -> 0..ByteSize]
      BY <1>2, <2>2 DEF SetCredential
    <2>4. QED
      BY <1>2, <2>1, <2>3 DEF SetCredential
  <1>3. ASSUME NEW from, NEW to \in Fresh..Exhausted, Commit(k, from, to) PROVE TypeOK'
    <2>1. [credentials[k] EXCEPT !.kv = drawn + 1, !.status = to] \in Credential
      BY <1>0, drawn + 1 \in Nat, CredentialUpdateTypes
    <2>2. QED
      BY <1>3, <2>1 DEF Commit
  <1>4. CASE IssuanceResponse(k)
    <2>1. [credentials[k] EXCEPT !.status = Issued] \in Credential
      BY <1>0, Issued \in Fresh..Exhausted, CredentialUpdateTypes
    <2>2. QED
      BY <1>4, <2>1, ResponseTypes DEF IssuanceResponse
  <1>5. CASE PresentationResponse(k)
    <2> DEFINE count == (credentials[k].prescount + 1) % ByteSize
    <2>1. count \in 0..255
      BY <1>0 DEF Credential, ByteSize
    <2>2. StatusAfter(k, count) \in Fresh..Exhausted
      BY DEF StatusAfter
    <2>3. [credentials[k] EXCEPT !.prescount = count,
                                 !.status = StatusAfter(k, count)] \in Credential
      BY <1>0, <2>1, <2>2, CredentialUpdateTypes
    <2>4. QED
      BY <1>5, <2>3, ResponseTypes DEF PresentationResponse
  <1>6. QED
    BY <1>1, <1>2, <1>3, <1>4, <1>5
       DEF CredentialStep, IssuanceCommitment, PresentationCommitment

LEMMA OtherTypes ==
  ASSUME NonceInv,
         \/ DeviceResponse \/ (\E m \in Modes : ChangeMode(m))
         \/ Erase \/ Restart \/ OtherDraw \/ UNCHANGED vars
  PROVE  TypeOK'
  <1> USE DEF TypeOK, NonceInv, limits
  <1>1. CASE DeviceResponse
    <2>1. Current.kx \in Nat /\ Current.c \in Challenges
      BY <1>1 DEF DeviceResponse, InSession, Current, SessionHasOneChallenge, Prover
    <2>2. QED
      BY <1>1, <2>1 DEF DeviceResponse, cardState, limits
  <1>2. CASE \E m \in Modes : ChangeMode(m)
    BY <1>2 DEF ChangeMode, limits
  <1>3. CASE Erase
    BY <1>3, ZeroTypes DEF Erase, ClearTables, Modes, limits
  <1>4. CASE Restart
    BY <1>4, ZeroTypes DEF Restart, ClearTables, Modes, limits
  <1>5. CASE OtherDraw
    BY <1>5 DEF OtherDraw, cardState, limits
  <1>6. CASE UNCHANGED vars
    BY <1>6 DEF vars, cardState, limits
  <1>7. QED
    BY <1>1, <1>2, <1>3, <1>4, <1>5, <1>6

-----------------------------------------------------------------------------
(* The inductive step.  *)

LEMMA InitNonceInv == Init => NonceInv
  <1> SUFFICES ASSUME Init PROVE NonceInv
    OBVIOUS
  <1>1. TypeOK
    BY ZeroTypes DEF Init, ZeroTables, TypeOK, Modes, ByteSize
  <1>2. /\ \A p \in ProverIds : provers[p].proofstatus = Idle
        /\ \A k \in CredIds : ~OpenCredential(k)
        /\ answered = {}
    BY DEF Init, ZeroTables, ZeroProver, ZeroCredential, OpenCredential
  <1>3. QED
    BY <1>1, <1>2 DEF NonceInv, NoncesDrawn, NoncesNotShared, OpenNoncesUnused, Live,
                      SessionHasOneChallenge, OneChallengePerNonce

LEMMA CredentialKeepsNonceInv ==
  ASSUME NonceInv, NEW k \in CredIds, CredentialStep(k)
  PROVE  NonceInv'
  <1>t. TypeOK'
    BY CredentialTypes
  <1>0. credentials[k] \in Credential
    BY DEF NonceInv, TypeOK
  <1>c. Fresh \notin {Issuing, Presenting}
    OBVIOUS
  <1>1. CASE RemoveCredential(k)
    BY <1>1, <1>t, <1>c, ZeroTypes, ClosedCredential DEF RemoveCredential
  <1>2. ASSUME NEW i \in IssuerIds, SetCredential(k, i) PROVE NonceInv'
    BY <1>2, <1>t, <1>c, ZeroTypes, ClosedCredential DEF SetCredential
  <1>3. CASE IssuanceCommitment(k)
    BY <1>3, <1>t, CommitKeepsNonceInv DEF IssuanceCommitment
  <1>4. CASE PresentationCommitment(k)
    BY <1>4, <1>t, CommitKeepsNonceInv DEF PresentationCommitment
  <1>5. CASE IssuanceResponse(k) \/ PresentationResponse(k)
    <2> DEFINE kv == credentials[k].kv
               S == IF IssuerOf(k).double THEN {Current.kx, kv} ELSE {Current.kx}
    <2>1. PICK status \in {Issued, Exhausted}, count \in 0..255 :
            credentials' = [credentials EXCEPT ![k].prescount = count, ![k].status = status]
      <3>1. CASE IssuanceResponse(k)
        <4>1. credentials' = [credentials EXCEPT ![k].prescount = credentials[k].prescount,
                                                 ![k].status = Issued]
          BY <1>0, <3>1 DEF IssuanceResponse, NonceInv, TypeOK, Credential
        <4>2. credentials[k].prescount \in 0..255
          BY <1>0 DEF Credential
        <4>3. QED
          BY <4>1, <4>2
      <3>2. CASE PresentationResponse(k)
        <4>1. (credentials[k].prescount + 1) % ByteSize \in 0..255
          BY <1>0 DEF Credential, ByteSize
        <4>2. QED
          BY <3>2, <4>1 DEF PresentationResponse, StatusAfter
      <3>3. QED
        BY <1>5, <3>1, <3>2
    <2>2. /\ ~OpenCredential(k)'
          /\ \A l \in CredIds : OpenCredential(l)' =>
               OpenCredential(l) /\ credentials'[l].kv = credentials[l].kv
      BY <2>1 DEF OpenCredential, NonceInv, TypeOK, Credential
    <2>3. /\ OpenCredential(k) /\ InSession(Responding)
          /\ answered' = answered \cup Responses(k)
          /\ UNCHANGED <<provers, drawn>>
      BY <1>5 DEF IssuanceResponse, PresentationResponse, OpenCredential
    <2>4. Responses(k) = {[nonce |-> n, c |-> Current.c] : n \in S}
      BY DEF Responses
    <2>5. S \in SUBSET {Current.kx, kv}
      OBVIOUS
    <2>6. \E l \in CredIds : OpenCredential(l) /\ credentials[l].kv = kv
                             /\ ~OpenCredential(l)'
      BY <2>2, <2>3
    <2>7. answered' = answered \cup {[nonce |-> n, c |-> Current.c] : n \in S}
      BY <2>3, <2>4
    <2> HIDE DEF kv, S
    <2>8. QED
      BY <1>t, <2>2, <2>3, <2>5, <2>6, <2>7, AnswerKeepsNonceInv
  <1>6. QED
    BY <1>1, <1>2, <1>3, <1>4, <1>5 DEF CredentialStep

LEMMA StepKeepsNonceInv == NonceInv /\ [Next]_vars => NonceInv'
  <1> SUFFICES ASSUME NonceInv, [Next]_vars PROVE NonceInv'
    OBVIOUS
  <1>1. ASSUME NEW p \in ProverIds, ProverStep(p) PROVE NonceInv'
    <2>t. TypeOK'
      BY <1>1, ProverTypes
    <2>1. CASE SetProver(p)
      BY <2>1, <2>t, ZeroTypes, IdleProver DEF SetProver
    <2>2. CASE RemoveProver(p)
      BY <2>2, <2>t, ZeroTypes, IdleProver DEF RemoveProver
    <2>3. CASE StartCommitments(p)
      BY <2>3, <2>t, StartCommitmentsKeepsNonceInv
    <2>4. CASE \E c \in Challenges : StartResponses(p, c)
      BY <2>4, <2>t, StartResponsesKeepsNonceInv
    <2>5. QED
      BY <1>1, <2>1, <2>2, <2>3, <2>4 DEF ProverStep
  <1>2. ASSUME NEW i \in IssuerIds, IssuerStep(i) PROVE NonceInv'
    <2>1. UNCHANGED <<provers, credentials, drawn, answered>>
      BY <1>2 DEF IssuerStep, SetIssuer, RemoveIssuer
    <2>2. QED
      BY <1>2, <2>1, IssuerTypes, SameNonces
  <1>3. ASSUME NEW k \in CredIds, CredentialStep(k) PROVE NonceInv'
    BY <1>3, CredentialKeepsNonceInv
  <1>4. CASE DeviceResponse
    <2>1. TypeOK'
      BY <1>4, OtherTypes
    <2>2. {Current.kx} \in SUBSET {Current.kx, Current.kx}
      OBVIOUS
    <2>3. answered' = answered \cup {[nonce |-> n, c |-> Current.c] : n \in {Current.kx}}
      BY <1>4 DEF DeviceResponse
    <2>4. \A k \in CredIds : OpenCredential(k)'
            => OpenCredential(k) /\ credentials'[k].kv = credentials[k].kv
      BY <1>4 DEF DeviceResponse, cardState, OpenCredential
    <2>5. InSession(Responding) /\ UNCHANGED <<provers, drawn>>
      BY <1>4 DEF DeviceResponse, cardState
    <2>6. QED
      BY <2>1, <2>2, <2>3, <2>4, <2>5, AnswerKeepsNonceInv
  <1>5. CASE (\E m \in Modes : ChangeMode(m)) \/ UNCHANGED vars
    <2>1. UNCHANGED <<provers, credentials, drawn, answered>>
      BY <1>5 DEF ChangeMode, vars, cardState
    <2>2. QED
      BY <1>5, <2>1, OtherTypes, SameNonces
  <1>6. CASE Erase
    BY <1>6, OtherTypes, ClearedTables
       DEF Erase, NonceInv, NoncesDrawn, OneChallengePerNonce
  <1>7. CASE Restart
    BY <1>7, OtherTypes, ClearedTables DEF Restart, OneChallengePerNonce
  <1>8. CASE OtherDraw
    <2>1. TypeOK'
      BY <1>8, OtherTypes
    <2>2. /\ UNCHANGED <<provers, credentials, answered>>
          /\ drawn' = drawn + 1 /\ drawn \in Nat
      BY <1>8 DEF OtherDraw, cardState, NonceInv, TypeOK
    <2>3. /\ \A q \in ProverIds : provers[q].kx \in Nat
          /\ \A k \in CredIds : credentials[k].kv \in Nat
          /\ \A a \in answered : a.nonce \in Nat
      BY DEF NonceInv, TypeOK, Prover, Credential
    <2>4. QED
      BY <2>1, <2>2, <2>3
         DEF NonceInv, NoncesDrawn, NoncesNotShared, OpenNoncesUnused, Live,
             OpenCredential, SessionHasOneChallenge, OneChallengePerNonce
  <1>9. QED
    BY <1>1, <1>2, <1>3, <1>4, <1>5, <1>6, <1>7, <1>8 DEF Next

\* The inductive invariant holds in every state of the specification.
THEOREM NonceInvariant == Spec => []NonceInv
  BY InitNonceInv, StepKeepsNonceInv, PTL DEF Spec

\* The tables, the random stream and the answers keep their types; in particular a
\* response is only ever given under a challenge a verifier has sent.
THEOREM SessionTypeCorrect == Spec => []TypeOK
  BY NonceInvariant, PTL DEF NonceInv

\* Whatever the provers, credentials and challenges, and in whatever order sessions are
\* started, replaced, locked out and resumed, no nonce is answered under two challenges.
THEOREM NonceAnsweredOnce == Spec => []OneChallengePerNonce
  BY NonceInvariant, PTL DEF NonceInv

\* The nonce of a commitment still open belongs to it alone and has answered nothing.
THEOREM OpenNoncesAreUnused == Spec => []OpenNoncesUnused
  BY NonceInvariant, PTL DEF NonceInv

-----------------------------------------------------------------------------
(* The presentation limit.  prescount is a BYTE that wraps; it counts the     *)
(* presentations exactly as long as a limit holds them below 256.             *)

\* A limit in force is one the credential was under.
LimitsRecorded ==
  \A k \in CredIds : credentials[k].exists
    => /\ credentials[k].issuer_id \in IssuerIds
       /\ IssuerOf(k).exists => Limit(IssuerOf(k).numpres) <= allowance[k]

\* Under a limit the count is exact, and a credential that may still be presented is
\* below the limit.
CountsExact ==
  \A k \in CredIds : credentials[k].exists /\ allowance[k] < ByteSize
    => /\ credentials[k].prescount = presented[k]
       /\ presented[k] <= allowance[k]
       /\ credentials[k].status \in {Fresh, Issuing} => presented[k] = 0
       /\ credentials[k].status \in {Issued, Presenting}
            => presented[k] = 0 \/ presented[k] < allowance[k]

LimitInv == LimitsRecorded /\ CountsExact

LEMMA ZeroExists == ~ZeroCredential.exists /\ ~ZeroIssuer.exists
  BY Zenon DEF ZeroCredential, ZeroIssuer

LEMMA LargerLimit ==
  ASSUME NEW a \in 0..ByteSize, NEW b \in 0..ByteSize, NEW m,
         m = IF b > a THEN b ELSE a
  PROVE  m \in 0..ByteSize /\ a <= m /\ b <= m
  BY DEF ByteSize

LEMMA UnderLargerLimit ==
  ASSUME NEW n \in Nat, NEW a \in 0..ByteSize, NEW b \in 0..ByteSize, a <= b
  PROVE  (n <= a => n <= b) /\ (n < a => n < b)
  BY DEF ByteSize

LEMMA SameCounts ==
  ASSUME LimitInv, UNCHANGED <<issuers, credentials, limits>>
  PROVE  LimitInv'
  BY DEF LimitInv, LimitsRecorded, CountsExact, IssuerOf, limits

LEMMA IssuerKeepsLimitInv ==
  ASSUME TypeOK, LimitInv, NEW i \in IssuerIds, IssuerStep(i)
  PROVE  LimitInv'
  <1>1. UNCHANGED <<credentials, presented>>
    BY DEF IssuerStep, SetIssuer, RemoveIssuer, limits
  <1>2. /\ \A k \in CredIds : allowance[k] \in 0..ByteSize /\ allowance'[k] \in 0..ByteSize
        /\ \A k \in CredIds : allowance[k] <= allowance'[k]
    <2>1. CASE RemoveIssuer(i)
      BY <2>1 DEF RemoveIssuer, limits, TypeOK
    <2>2. ASSUME NEW n \in Presentations, NEW d \in BOOLEAN, SetIssuer(i, n, d)
          PROVE  \A k \in CredIds : /\ allowance[k] \in 0..ByteSize /\ allowance'[k] \in 0..ByteSize
                                   /\ allowance[k] <= allowance'[k]
      <3>1. Limit(n) \in 0..ByteSize
        BY LimitType, PresentationsAssumption
      <3>2. allowance \in [CredIds -> 0..ByteSize]
        BY DEF TypeOK
      <3>3. allowance' = [k \in CredIds |->
                            IF credentials[k].issuer_id = i /\ Limit(n) > allowance[k]
                              THEN Limit(n) ELSE allowance[k]]
        BY <2>2 DEF SetIssuer
      <3>4. QED
        <4> SUFFICES ASSUME NEW k \in CredIds
                     PROVE  /\ allowance[k] \in 0..ByteSize /\ allowance'[k] \in 0..ByteSize
                            /\ allowance[k] <= allowance'[k]
          OBVIOUS
        <4>1. allowance[k] \in 0..ByteSize
          BY <3>2
        <4>2. allowance'[k] = allowance[k]
                \/ allowance'[k] = IF Limit(n) > allowance[k] THEN Limit(n) ELSE allowance[k]
          BY <3>3
        <4>3. \A a \in 0..ByteSize : a <= a
          BY DEF ByteSize
        <4>4. QED
          BY <3>1, <4>1, <4>2, <4>3, LargerLimit
    <2>3. QED
      BY <2>1, <2>2 DEF IssuerStep
  <1>3. LimitsRecorded'
    <2> SUFFICES ASSUME NEW k \in CredIds, credentials'[k].exists, IssuerOf(k)'.exists
                 PROVE  /\ credentials'[k].issuer_id \in IssuerIds
                        /\ Limit(IssuerOf(k)'.numpres) <= allowance'[k]
      BY <1>1 DEF LimitsRecorded, LimitInv
    <2>1. credentials[k].issuer_id \in IssuerIds
      BY <1>1 DEF LimitInv, LimitsRecorded
    <2>2. CASE credentials[k].issuer_id # i
      <3>1. IssuerOf(k)' = IssuerOf(k)
        BY <1>1, <2>1, <2>2 DEF IssuerStep, SetIssuer, RemoveIssuer, IssuerOf, TypeOK
      <3>2. IssuerOf(k).numpres \in 0..255
        BY <2>1, NumpresTypes DEF TypeOK, IssuerOf
      <3>3. Limit(IssuerOf(k).numpres) \in 0..ByteSize
        BY <3>2, LimitType
      <3>4. Limit(IssuerOf(k).numpres) <= allowance[k]
        BY <1>1, <3>1 DEF LimitInv, LimitsRecorded
      <3>5. allowance[k] \in 0..ByteSize /\ allowance'[k] \in 0..ByteSize
            /\ allowance[k] <= allowance'[k]
        BY <1>2
      <3>6. Limit(IssuerOf(k).numpres) <= allowance'[k]
        BY <3>3, <3>4, <3>5, \A n \in 0..ByteSize : n \in Nat, UnderLargerLimit
      <3>7. QED
        BY <2>1, <3>1, <3>6, <1>1
    <2>3. CASE credentials[k].issuer_id = i
      <3>1. CASE RemoveIssuer(i)
        <4>1. IssuerOf(k)' = ZeroIssuer
          BY <1>1, <2>3, <3>1 DEF RemoveIssuer, IssuerOf, TypeOK
        <4>2. QED
          BY <4>1, ZeroExists
      <3>2. ASSUME NEW n \in Presentations, NEW d \in BOOLEAN, SetIssuer(i, n, d)
            PROVE  Limit(IssuerOf(k)'.numpres) <= allowance'[k]
        <4>1. IssuerOf(k)'.numpres = n
          BY <1>1, <2>3, <3>2 DEF SetIssuer, IssuerOf, TypeOK
        <4>2. Limit(n) \in 0..ByteSize
          BY LimitType, PresentationsAssumption
        <4>3. allowance'[k] = IF Limit(n) > allowance[k] THEN Limit(n) ELSE allowance[k]
          BY <2>3, <3>2 DEF SetIssuer
        <4>4. QED
          BY <1>2, <4>1, <4>2, <4>3, LargerLimit
      <3>3. QED
        BY <1>1, <2>1, <3>1, <3>2 DEF IssuerStep
    <2>4. QED
      BY <2>2, <2>3
  <1>4. CountsExact'
    <2> SUFFICES ASSUME NEW k \in CredIds, credentials'[k].exists, allowance'[k] < ByteSize
                 PROVE  /\ credentials[k].prescount = presented[k]
                        /\ presented[k] <= allowance'[k]
                        /\ credentials[k].status \in {Fresh, Issuing} => presented[k] = 0
                        /\ credentials[k].status \in {Issued, Presenting}
                             => presented[k] = 0 \/ presented[k] < allowance'[k]
      BY <1>1 DEF CountsExact
    <2>1. presented[k] \in Nat
      BY DEF TypeOK
    <2>2. /\ allowance[k] \in 0..ByteSize /\ allowance'[k] \in 0..ByteSize
          /\ allowance[k] <= allowance'[k]
      BY <1>2
    <2>3. allowance[k] < ByteSize
      BY <2>2 DEF ByteSize
    <2>4. /\ credentials[k].prescount = presented[k]
          /\ presented[k] <= allowance[k]
          /\ credentials[k].status \in {Fresh, Issuing} => presented[k] = 0
          /\ credentials[k].status \in {Issued, Presenting}
               => presented[k] = 0 \/ presented[k] < allowance[k]
      BY <1>1, <2>3 DEF LimitInv, CountsExact
    <2>5. presented[k] <= allowance'[k]
      BY <2>1, <2>2, <2>4, UnderLargerLimit
    <2>6. presented[k] < allowance[k] => presented[k] < allowance'[k]
      BY <2>1, <2>2, UnderLargerLimit
    <2>7. QED
      BY <2>4, <2>5, <2>6
  <1>5. QED
    BY <1>3, <1>4 DEF LimitInv

LEMMA PresentationKeepsCounts ==
  ASSUME TypeOK, LimitInv, NEW k \in CredIds, PresentationResponse(k),
         credentials'[k].exists, allowance'[k] < ByteSize
  PROVE  /\ credentials'[k].prescount = presented'[k]
         /\ presented'[k] <= allowance'[k]
         /\ credentials'[k].status \in {Issued, Exhausted}
         /\ credentials'[k].status = Issued => presented'[k] < allowance'[k]
  <1> DEFINE count == (credentials[k].prescount + 1) % ByteSize
             n == IssuerOf(k).numpres
  <1>1. /\ allowance' = allowance /\ allowance[k] \in 0..ByteSize
        /\ presented[k] \in Nat /\ presented'[k] = presented[k] + 1
    BY DEF PresentationResponse, TypeOK
  <1>2. credentials[k] \in Credential
    BY DEF TypeOK
  <1>3. /\ credentials'[k].prescount = count
        /\ credentials'[k].status = StatusAfter(k, count)
    BY <1>2 DEF PresentationResponse, TypeOK, Credential
  <1>4. credentials[k].exists /\ IssuerOf(k).exists /\ credentials[k].status = Presenting
    BY DEF PresentationResponse, CredentialAccess
  <1>5. n \in 0..255 /\ Limit(n) <= allowance[k]
    BY <1>4, NumpresTypes DEF LimitInv, LimitsRecorded, IssuerOf, TypeOK
  <1>6. /\ credentials[k].prescount = presented[k]
        /\ presented[k] = 0 \/ presented[k] < allowance[k]
    BY <1>1, <1>4 DEF LimitInv, CountsExact
  <1>7. n # 0 /\ n <= allowance[k] /\ allowance[k] < 256
    BY <1>1, <1>5 DEF Limit, ByteSize
  <1>8. count = presented[k] + 1 /\ count <= allowance[k]
    BY <1>1, <1>5, <1>6, <1>7 DEF ByteSize
  <1>9. credentials'[k].status = IF count < n THEN Issued ELSE Exhausted
    BY <1>3, <1>7 DEF StatusAfter
  <1> HIDE DEF count, n
  <1>10. QED
    BY <1>1, <1>3, <1>5, <1>7, <1>8, <1>9

LEMMA CredentialKeepsLimitInv ==
  ASSUME TypeOK, TypeOK', LimitInv, NEW k \in CredIds, CredentialStep(k)
  PROVE  LimitInv'
  <1>1. /\ UNCHANGED issuers
        /\ \A l \in CredIds \ {k} : /\ credentials'[l] = credentials[l]
                                    /\ presented'[l] = presented[l]
                                    /\ allowance'[l] = allowance[l]
    BY DEF CredentialStep, RemoveCredential, SetCredential, IssuanceCommitment,
           PresentationCommitment, Commit, IssuanceResponse, PresentationResponse,
           limits, TypeOK
  <1>2. credentials[k] \in Credential
    BY DEF TypeOK
  <1>3. \/ ~credentials'[k].exists
        \/ /\ credentials'[k].issuer_id \in IssuerIds
           /\ Limit(IssuerOf(k)'.numpres) <= allowance'[k] \/ ~IssuerOf(k)'.exists
    <2>1. CASE RemoveCredential(k)
      <3>1. credentials'[k] = ZeroCredential
        BY <2>1 DEF RemoveCredential, TypeOK
      <3>2. QED
        BY <3>1, ZeroExists
    <2>2. ASSUME NEW i \in IssuerIds, SetCredential(k, i)
          PROVE  /\ credentials'[k].issuer_id \in IssuerIds
                 /\ Limit(IssuerOf(k)'.numpres) <= allowance'[k]
      <3>1. credentials'[k].issuer_id = i
        BY <2>2 DEF SetCredential, NewCredential, ZeroCredential, TypeOK
      <3>2. allowance'[k] = Limit(issuers[i].numpres)
        BY <2>2 DEF SetCredential, TypeOK
      <3>3. IssuerOf(k)' = issuers[i]
        BY <1>1, <3>1 DEF IssuerOf
      <3>4. Limit(issuers[i].numpres) \in 0..ByteSize
        BY NumpresTypes DEF TypeOK
      <3>5. QED
        BY <3>1, <3>2, <3>3, <3>4 DEF ByteSize
    <2>3. CASE ~RemoveCredential(k) /\ ~\E i \in IssuerIds : SetCredential(k, i)
      <3>1. /\ credentials'[k].issuer_id = credentials[k].issuer_id
            /\ credentials'[k].exists = credentials[k].exists
            /\ credentials[k].exists
            /\ allowance' = allowance
        BY <1>2, <2>3
           DEF CredentialStep, IssuanceCommitment, PresentationCommitment, Commit,
               IssuanceResponse, PresentationResponse, CredentialAccess, limits, TypeOK,
               Credential
      <3>2. IssuerOf(k)' = IssuerOf(k)
        BY <1>1, <3>1 DEF IssuerOf
      <3>3. QED
        BY <3>1, <3>2 DEF LimitInv, LimitsRecorded
    <2>4. QED
      BY <2>1, <2>2, <2>3
  <1>4. LimitsRecorded'
    BY <1>1, <1>3 DEF LimitInv, LimitsRecorded, IssuerOf
  <1>5. ASSUME credentials'[k].exists, allowance'[k] < ByteSize
        PROVE  /\ credentials'[k].prescount = presented'[k]
               /\ presented'[k] <= allowance'[k]
               /\ credentials'[k].status \in {Fresh, Issuing} => presented'[k] = 0
               /\ credentials'[k].status \in {Issued, Presenting}
                    => presented'[k] = 0 \/ presented'[k] < allowance'[k]
    <2>1. CASE RemoveCredential(k)
      <3>1. credentials'[k] = ZeroCredential
        BY <2>1 DEF RemoveCredential, TypeOK
      <3>2. QED
        BY <1>5, <3>1, ZeroExists
    <2>2. CASE \E i \in IssuerIds : SetCredential(k, i)
      <3>1. /\ credentials'[k].prescount = 0 /\ credentials'[k].status = Fresh
            /\ presented'[k] = 0
        BY <2>2 DEF SetCredential, NewCredential, ZeroCredential, TypeOK
      <3>2. allowance'[k] \in 0..ByteSize
        BY DEF TypeOK
      <3>3. QED
        BY <3>1, <3>2 DEF ByteSize
    <2>3. CASE \/ IssuanceCommitment(k) \/ IssuanceResponse(k)
               \/ PresentationCommitment(k)
      <3>1. /\ credentials'[k].prescount = credentials[k].prescount
            /\ credentials'[k].exists = credentials[k].exists
            /\ UNCHANGED <<presented, allowance>>
            /\ \/ credentials[k].status = Fresh /\ credentials'[k].status = Issuing
               \/ credentials[k].status = Issuing /\ credentials'[k].status = Issued
               \/ credentials[k].status = Issued /\ credentials'[k].status = Presenting
        BY <1>2, <2>3
           DEF IssuanceCommitment, PresentationCommitment, Commit, IssuanceResponse,
               limits, TypeOK, Credential
      <3>2. QED
        BY <1>5, <3>1 DEF LimitInv, CountsExact
    <2>4. CASE PresentationResponse(k)
      BY <1>5, <2>4, PresentationKeepsCounts
    <2>5. QED
      BY <2>1, <2>2, <2>3, <2>4 DEF CredentialStep
  <1>6. CountsExact'
    BY <1>1, <1>5 DEF LimitInv, CountsExact
  <1>7. QED
    BY <1>4, <1>6 DEF LimitInv

LEMMA StepKeepsLimitInv == NonceInv /\ TypeOK' /\ LimitInv /\ [Next]_vars => LimitInv'
  <1> SUFFICES ASSUME NonceInv, TypeOK', LimitInv, [Next]_vars PROVE LimitInv'
    OBVIOUS
  <1>t. TypeOK
    BY DEF NonceInv
  <1>1. ASSUME NEW i \in IssuerIds, IssuerStep(i) PROVE LimitInv'
    BY <1>1, <1>t, IssuerKeepsLimitInv
  <1>2. ASSUME NEW k \in CredIds, CredentialStep(k) PROVE LimitInv'
    BY <1>2, <1>t, CredentialKeepsLimitInv
  <1>3. CASE Erase \/ Restart
    <2>1. \A k \in CredIds : credentials'[k] = ZeroCredential
      BY <1>3 DEF Erase, Restart, ClearTables
    <2>2. \A k \in CredIds : ~credentials'[k].exists
      BY <2>1, ZeroExists
    <2>3. QED
      BY <2>2 DEF LimitInv, LimitsRecorded, CountsExact
  <1>4. ASSUME NEW p \in ProverIds, ProverStep(p) PROVE LimitInv'
    BY <1>4, SameCounts
       DEF ProverStep, SetProver, RemoveProver, StartCommitments, StartResponses
  <1>5. CASE DeviceResponse \/ (\E m \in Modes : ChangeMode(m)) \/ OtherDraw \/ UNCHANGED vars
    BY <1>5, SameCounts DEF DeviceResponse, ChangeMode, OtherDraw, vars, cardState
  <1>6. QED
    BY <1>1, <1>2, <1>3, <1>4, <1>5 DEF Next

LEMMA InitLimitInv == Init => LimitInv
  <1> SUFFICES ASSUME Init PROVE LimitInv
    OBVIOUS
  <1>1. \A k \in CredIds : credentials[k] = ZeroCredential
    BY DEF Init, ZeroTables
  <1>2. \A k \in CredIds : ~credentials[k].exists
    BY <1>1, ZeroExists
  <1>3. QED
    BY <1>2 DEF LimitInv, LimitsRecorded, CountsExact

\* Whatever limits an issuer is given over time, a credential is not presented more
\* often than the largest of them.
THEOREM PresentationsLimited == Spec => []PresentationsWithinLimit
  <1>1. NonceInv /\ LimitInv /\ [Next]_vars => (NonceInv /\ LimitInv)'
    BY StepKeepsNonceInv, StepKeepsLimitInv DEF NonceInv
  <1>2. LimitInv => PresentationsWithinLimit
    BY DEF LimitInv, CountsExact, PresentationsWithinLimit
  <1>3. QED
    BY InitNonceInv, InitLimitInv, <1>1, <1>2, PTL DEF Spec

=============================================================================
