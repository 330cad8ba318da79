---------------------------- MODULE ProofSession ----------------------------
(***************************************************************************)
(* Proof sessions of the card: provers, issuers, credentials, and the      *)
(* commitments and responses of the zero-knowledge proofs that use them.   *)
(*                                                                         *)
(* A response is  nonce - c * secret:  two responses for one nonce under   *)
(* two challenges give the secret away.  The card therefore draws a nonce  *)
(* kx for each session of a prover and a nonce kv for each commitment of a *)
(* credential, and lets status bytes decide which command may use them.    *)
(*                                                                         *)
(* Random values are numbered in the order they are drawn: drawn is the    *)
(* position in the random stream, and a nonce is the position it came      *)
(* from.  0 is the all-zero value of a field that is not in use.           *)
(*                                                                         *)
(* The commands take a PIN; a wrong one changes the mode at most, which    *)
(* the module leaves to ChangeMode.  GET_DEVICE_COMMITMENT, GET_SCOPE_     *)
(* EXCLUSIVE_COMMITMENT and the public keys change nothing here.           *)
(***************************************************************************)
EXTENDS Integers

CONSTANTS
  ProverIds, CredIds, IssuerIds,
  NoProver, NoIssuer,
  Challenges, NoChallenge,   \* values of c a verifier may send
  Presentations              \* the values of numpres in use; 0 means no limit

ASSUME IdsAssumption == /\ NoProver \notin ProverIds
                        /\ NoIssuer \notin IssuerIds
                        /\ NoChallenge \notin Challenges
ASSUME PresentationsAssumption == Presentations \subseteq 0..255

VARIABLES
  mode,
  provers, current_prover_id,
  issuers, credentials,
  drawn,       \* random values drawn since the program started
  answered,    \* history: [nonce, c] of the responses given since then
  presented,   \* history: presentation responses per credential since it was set
  allowance    \* history: the largest limit a credential was under since it was set

cardState == <<mode, provers, current_prover_id, issuers, credentials>>
limits    == <<presented, allowance>>
vars      == <<cardState, drawn, answered, limits>>

\* STOPPED is LOCKED or DEAD: none of the commands below is served there or in VIRGIN.
Modes == {"VIRGIN", "ROOT", "WORKING", "STOPPED"}
\* What SET_ROOT_MODE, SET_WORKING_MODE, wrong PINs and RESET_PIN do to the mode.
ModeChanges == {<<"VIRGIN", "ROOT">>, <<"ROOT", "WORKING">>, <<"ROOT", "STOPPED">>,
                <<"WORKING", "STOPPED">>, <<"STOPPED", "WORKING">>}

\* proofstatus of a prover
Idle       == 0
Committing == 1
Responding == 2

\* status of a credential
Fresh       == 0
Issuing     == 1
Issued      == 2
Presenting  == 3
Exhausted   == 4

ByteSize  == 256
\* The limit numpres sets; no limit is above every BYTE.
Limit(n) == IF n = 0 THEN ByteSize ELSE n

Prover     == [exists : BOOLEAN, kx : Nat, c : Challenges \cup {NoChallenge},
               proofstatus : {Idle, Committing, Responding}]
Issuer     == [exists : BOOLEAN, numpres : Presentations \cup {0}, double : BOOLEAN]
Credential == [exists : BOOLEAN, issuer_id : IssuerIds \cup {NoIssuer}, kv : Nat,
               status : Fresh..Exhausted, prescount : 0..255]

\* Tables filled with zeroes.
ZeroProver     == [exists |-> FALSE, kx |-> 0, c |-> NoChallenge, proofstatus |-> Idle]
ZeroIssuer     == [exists |-> FALSE, numpres |-> 0, double |-> FALSE]
ZeroCredential == [exists |-> FALSE, issuer_id |-> NoIssuer, kv |-> 0,
                   status |-> Fresh, prescount |-> 0]

\* What SET_PROVER and SET_CREDENTIAL write.
NewProver        == [ZeroProver EXCEPT !.exists = TRUE]
NewCredential(i) == [ZeroCredential EXCEPT !.exists = TRUE, !.issuer_id = i]

Current  == provers[current_prover_id]
IssuerOf(k) == issuers[credentials[k].issuer_id]

-----------------------------------------------------------------------------
(* The tables.  In ROOT they are set at will, in WORKING by an authenticated *)
(* command; authentication is not in this module.                            *)

Configurable == mode \in {"ROOT", "WORKING"}

\* (Faulty variant: the session of the replaced prover goes on.)
SetProverKeepingSession(p) ==
  /\ Configurable
  /\ provers' = [provers EXCEPT ![p].exists = TRUE, ![p].c = NoChallenge,
                                ![p].proofstatus =
                                   IF @ = Responding THEN Committing ELSE @]
  /\ UNCHANGED <<mode, current_prover_id, issuers, credentials, drawn, answered, limits>>

SetProver(p) ==
  /\ Configurable
  /\ provers' = [provers EXCEPT ![p] = NewProver]
  /\ UNCHANGED <<mode, current_prover_id, issuers, credentials, drawn, answered, limits>>

RemoveProver(p) ==
  /\ Configurable
  /\ provers[p].exists
  /\ provers' = [provers EXCEPT ![p] = ZeroProver]
  /\ UNCHANGED <<mode, current_prover_id, issuers, credentials, drawn, answered, limits>>

\* An issuer may be set again while credentials of it exist.
SetIssuer(i, n, double) ==
  /\ Configurable
  /\ issuers' = [issuers EXCEPT ![i] = [exists |-> TRUE, numpres |-> n, double |-> double]]
  /\ allowance' = [k \in CredIds |->
                     IF credentials[k].issuer_id = i /\ Limit(n) > allowance[k]
                       THEN Limit(n) ELSE allowance[k]]
  /\ UNCHANGED <<mode, provers, current_prover_id, credentials, drawn, answered, presented>>

RemoveIssuer(i) ==
  /\ Configurable
  /\ issuers[i].exists
  /\ issuers' = [issuers EXCEPT ![i] = ZeroIssuer]
  /\ UNCHANGED <<mode, provers, current_prover_id, credentials, drawn, answered, limits>>

\* Also draws the blinding v of the credential itself; a credential that exists is
\* replaced, whatever its status.
SetCredential(k, i) ==
  /\ mode = "WORKING"
  /\ issuers[i].exists
  /\ credentials' = [credentials EXCEPT ![k] = NewCredential(i)]
  /\ presented' = [presented EXCEPT ![k] = 0]
  /\ allowance' = [allowance EXCEPT ![k] = Limit(issuers[i].numpres)]
  /\ UNCHANGED <<mode, provers, current_prover_id, issuers, drawn, answered>>

RemoveCredential(k) ==
  /\ mode = "WORKING"
  /\ credentials[k].exists
  /\ credentials' = [credentials EXCEPT ![k] = ZeroCredential]
  /\ UNCHANGED <<mode, provers, current_prover_id, issuers, drawn, answered, limits>>

-----------------------------------------------------------------------------
(* Sessions.  *)

StartCommitments(p) ==
  /\ mode = "WORKING"
  /\ provers[p].exists
  /\ drawn' = drawn + 1
  /\ provers' = [provers EXCEPT ![p].kx = drawn + 1, ![p].proofstatus = Committing]
  /\ current_prover_id' = p
  /\ UNCHANGED <<mode, issuers, credentials, answered, limits>>

\* (Faulty variant: a session that responds already takes another challenge.)
StartResponsesAgain(p, c) ==
  /\ mode = "WORKING"
  /\ provers[p].exists
  /\ current_prover_id = p
  /\ provers[p].proofstatus # Idle
  /\ provers' = [provers EXCEPT ![p].c = c, ![p].proofstatus = Responding]
  /\ UNCHANGED <<mode, current_prover_id, issuers, credentials, drawn, answered, limits>>

StartResponses(p, c) ==
  /\ mode = "WORKING"
  /\ provers[p].exists
  /\ current_prover_id = p
  /\ provers[p].proofstatus = Committing
  /\ provers' = [provers EXCEPT ![p].c = c, ![p].proofstatus = Responding]
  /\ UNCHANGED <<mode, current_prover_id, issuers, credentials, drawn, answered, limits>>

\* (Faulty variant: the stage of the session is not looked at.)
InAnySession(stage) ==
  /\ current_prover_id # NoProver
  /\ Current.exists

\* checkAccessSession: which credentials the prover may use (cred_ids) is not looked at.
InSession(stage) ==
  /\ current_prover_id # NoProver
  /\ Current.exists
  /\ Current.proofstatus = stage

\* checkAccessCredential
CredentialAccess(k) == mode = "WORKING" /\ credentials[k].exists

\* Commit the credential to a nonce kv of its own.  The commitment may still be refused
\* for want of a group, a generator or a counter at its threshold: Reject.
Commit(k, from, to) ==
  /\ CredentialAccess(k)
  /\ credentials[k].status = from
  /\ InSession(Committing)
  /\ IssuerOf(k).exists
  /\ drawn' = drawn + 1
  /\ credentials' = [credentials EXCEPT ![k].kv = drawn + 1, ![k].status = to]
  /\ UNCHANGED <<mode, provers, current_prover_id, issuers, answered, limits>>

IssuanceCommitment(k)     == Commit(k, Fresh, Issuing)
PresentationCommitment(k) == Commit(k, Issued, Presenting)

\* The response for kx, and for kv when the issuer has a second generator.
Responses(k) ==
  {[nonce |-> Current.kx, c |-> Current.c]}
  \cup IF IssuerOf(k).double THEN {[nonce |-> credentials[k].kv, c |-> Current.c]} ELSE {}

\* (Faulty variant: the status of an issuance is not advanced.)
IssuanceResponseRepeatable(k) ==
  /\ CredentialAccess(k)
  /\ credentials[k].status = Issuing
  /\ InSession(Responding)
  /\ IssuerOf(k).exists
  /\ answered' = answered \cup Responses(k)
  /\ UNCHANGED <<cardState, drawn, limits>>

IssuanceResponse(k) ==
  /\ CredentialAccess(k)
  /\ credentials[k].status = Issuing
  /\ InSession(Responding)
  /\ IssuerOf(k).exists
  /\ answered' = answered \cup Responses(k)
  /\ credentials' = [credentials EXCEPT ![k].status = Issued]
  /\ UNCHANGED <<mode, provers, current_prover_id, issuers, drawn, limits>>

\* (Faulty variant: the limit is compared before the presentation is counted.)
StatusCountingLate(k, count) ==
  IF IssuerOf(k).numpres = 0 \/ credentials[k].prescount < IssuerOf(k).numpres
    THEN Issued ELSE Exhausted

\* The status after a presentation that brings the count to count.
StatusAfter(k, count) ==
  IF IssuerOf(k).numpres = 0 \/ count < IssuerOf(k).numpres THEN Issued ELSE Exhausted

PresentationResponse(k) ==
  LET count == (credentials[k].prescount + 1) % ByteSize
  IN  /\ CredentialAccess(k)
      /\ credentials[k].status = Presenting
      /\ InSession(Responding)
      /\ IssuerOf(k).exists
      /\ answered' = answered \cup Responses(k)
      /\ credentials' = [credentials EXCEPT ![k].prescount = count,
                                            ![k].status = StatusAfter(k, count)]
      /\ presented' = [presented EXCEPT ![k] = @ + 1]
      /\ UNCHANGED <<mode, provers, current_prover_id, issuers, drawn, allowance>>

\* GET_DEVICE_RESPONSE and GET_SCOPE_EXCLUSIVE_RESPONSE: kx only, as often as asked.
DeviceResponse ==
  /\ mode = "WORKING"
  /\ InSession(Responding)
  /\ answered' = answered \cup {[nonce |-> Current.kx, c |-> Current.c]}
  /\ UNCHANGED <<cardState, drawn, limits>>

-----------------------------------------------------------------------------
(* The rest of the card.  *)

\* ROOT is only left for good; WORKING comes back after RESET_PIN.  The session and the
\* credentials are as they were before the card was locked.
ChangeMode(m) ==
  /\ <<mode, m>> \in ModeChanges
  /\ mode' = m
  /\ UNCHANGED <<provers, current_prover_id, issuers, credentials, drawn, answered, limits>>

ZeroTables ==
  /\ provers = [p \in ProverIds |-> ZeroProver]
  /\ current_prover_id = NoProver
  /\ issuers = [i \in IssuerIds |-> ZeroIssuer]
  /\ credentials = [k \in CredIds |-> ZeroCredential]

ClearTables ==
  /\ provers' = [p \in ProverIds |-> ZeroProver]
  /\ current_prover_id' = NoProver
  /\ issuers' = [i \in IssuerIds |-> ZeroIssuer]
  /\ credentials' = [k \in CredIds |-> ZeroCredential]

\* SET_VIRGIN_MODE, in any mode.  The random stream goes on.
Erase ==
  /\ mode' = "VIRGIN"
  /\ ClearTables
  /\ UNCHANGED <<drawn, answered, limits>>

\* The program starts again: create_json, and srand with the seed of the last start.
Restart ==
  /\ mode' = "ROOT"
  /\ ClearTables
  /\ drawn' = 0
  /\ answered' = {}
  /\ UNCHANGED limits

\* Any other command that uses random bytes (GET_CHALLENGE, INITIALIZE_DEVICE, ...).
OtherDraw ==
  /\ drawn' = drawn + 1
  /\ UNCHANGED <<cardState, answered, limits>>

Init ==
  /\ mode = "ROOT"
  /\ ZeroTables
  /\ drawn = 0
  /\ answered = {}
  /\ presented = [k \in CredIds |-> 0]
  /\ allowance = [k \in CredIds |-> 0]

ProverStep(p) == \/ SetProver(p) \/ RemoveProver(p) \/ StartCommitments(p)
                 \/ \E c \in Challenges : StartResponses(p, c)
IssuerStep(i) == \/ RemoveIssuer(i)
                 \/ \E n \in Presentations, double \in BOOLEAN : SetIssuer(i, n, double)
CredentialStep(k) == \/ RemoveCredential(k)
                     \/ \E i \in IssuerIds : SetCredential(k, i)
                     \/ IssuanceCommitment(k) \/ IssuanceResponse(k)
                     \/ PresentationCommitment(k) \/ PresentationResponse(k)

Next == \/ \E p \in ProverIds : ProverStep(p)
        \/ \E i \in IssuerIds : IssuerStep(i)
        \/ \E k \in CredIds : CredentialStep(k)
        \/ DeviceResponse
        \/ \E m \in Modes : ChangeMode(m)
        \/ Erase \/ Restart \/ OtherDraw

Spec == Init /\ [][Next]_vars

-----------------------------------------------------------------------------
(* Properties.  *)

TypeOK ==
  /\ mode \in Modes
  /\ provers \in [ProverIds -> Prover]
  /\ current_prover_id \in ProverIds \cup {NoProver}
  /\ issuers \in [IssuerIds -> Issuer]
  /\ credentials \in [CredIds -> Credential]
  /\ drawn \in Nat
  /\ answered \subseteq [nonce : Nat, c : Challenges]
  /\ presented \in [CredIds -> Nat]
  /\ allowance \in [CredIds -> 0..ByteSize]

\* No nonce is ever answered under two challenges, whatever the order of sessions,
\* provers and credentials: a credential committed in one session and answered in
\* another, a prover set again in the middle of its session, a card locked and
\* unlocked.  (Two such answers would disclose a secret.)
OneChallengePerNonce ==
  \A a, b \in answered : a.nonce = b.nonce => a.c = b.c

\* A commitment that is still open, of a session or of a credential, is on a nonce of
\* its own that no response has used.
OpenCredential(k) == credentials[k].status \in {Issuing, Presenting}
OpenNoncesUnused ==
  /\ \A p \in ProverIds : provers[p].proofstatus = Committing
       => \A a \in answered : a.nonce # provers[p].kx
  /\ \A k \in CredIds : OpenCredential(k)
       => /\ \A a \in answered : a.nonce # credentials[k].kv
          /\ \A l \in CredIds \ {k} : OpenCredential(l)
               => credentials[l].kv # credentials[k].kv

\* A credential is never presented more often than the largest limit its issuer has set
\* since the credential was: raising and lowering numpres, and removing the issuer, do
\* not give it presentations nobody allowed.
PresentationsWithinLimit ==
  \A k \in CredIds :
    credentials[k].exists /\ allowance[k] < ByteSize => presented[k] <= allowance[k]
=============================================================================
