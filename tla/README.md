# Specification and verification of the ABC4Trust smart card emulator

The program under `src/IoT smart card toolkit/util_sc` is an ABC4Trust smart card in
software: a single process that keeps the tables of a card in global variables, accepts
one TCP connection and answers APDU commands one after the other. The Java code under
`src/P2ABCE` is the host that drives it. This directory holds TLA+ modules of the card and
of the parts of the host that matter to it, the TLC configurations that check them on
small instances, and TLAPS proofs for all instances.

Short names used below: `APDU_handler.c`, `subroutines.c`, `m_adapted_API.c` are in
`p2abc_iot_toolkit_src/smartcard_common`, `BIOSC.c` is the main program,
`HardwareSmartcard.java` the driver of the host.

## 1. Inventory

### How the system works

`main` (BIOSC.c) seeds the random stream with a constant, fills every table with zeroes,
sets the mode to ROOT, writes `status.json`, reads it back, and accepts one connection.
`receive_commands` reads length-prefixed APDUs; `handle_APDU` dispatches each on its
instruction byte to one handler. A handler checks the ISO case, the mode, the size, the
PIN, then its parameters, and returns with an error status at the first that fails; it ends
in `mExit`, which saves the status file and writes the response. There is no concurrency
inside the card. What is hard is the *order* of commands: the state of the card is a set of
globals, several of them shared by commands that have nothing to do with each other, any
command may come between two others, and the sequences that belong together (a challenge
and its signature, a commitment and its response, the pages of a list) are separate APDUs.

| component | state | operations | correct when |
|---|---|---|---|
| Life cycle, PIN, PUK | `mode`, `pin`, `puk`, `pin_trials`, `puk_trials` | SET_ROOT/WORKING/VIRGIN_MODE, CHANGE_PIN, RESET_PIN, INITIALIZE_DEVICE, `checkPin`, `checkPuk`, restart | attempts are bounded whatever the mix of commands; a stopped card stays stopped; secrets change only by a command that succeeds |
| Device archives | the buffer, what the host keeps | BACKUP_DEVICE, RESTORE_DEVICE, `cipher`, `decipher` | a restored pair was backed up as a pair; archives of different kinds are not mistaken |
| Authenticated configuration | `auth_keys`, `buffer`, `authData`, `authKeyId`, `mem_session.challenge` | GET_CHALLENGE, PUT_DATA, AUTHENTICATE_DATA, SET/REMOVE/LIST_AUTHENTICATION_KEY(S), `checkBufferPrefix`, `checkBufferEqual`, `extraction` | a challenge and an authentication serve once; the card is configured as signed |
| Counters | `counters` | SET/INCREMENT/REMOVE_COUNTER, BACKUP/RESTORE_COUNTERS | an attendance counts once; no index that was not earned |
| Proof sessions | `provers`, `issuers`, `credentials`, `current_prover_id` | SET/REMOVE_PROVER/ISSUER/CREDENTIAL, START_COMMITMENTS, START_RESPONSES, the commitments and responses of issuance, presentation, device and pseudonym | no nonce is answered under two challenges; a credential is presented as often as its issuer allows |
| Groups, generators | `groups`, numbers of a size of their own in blocks of a fixed size | SET_GROUP_COMPONENT, SET_GENERATOR, REMOVE_GROUP, readers; `singleOrDoubleExpo`, `singleResponse` and the arithmetic they call | what is read and computed with is what was set, whatever lay in the block before; a response is k - c u |
| Blob store | `blob_catalog`, `blob_store`, `buffer` | STORE_, READ_, REMOVE_BLOB | behaves as a bounded map |
| Blob listing | a cursor the host keeps | LIST_BLOBS, `getBlobUris` | complete, also while blobs are stored; ends; every page fits |
| Long responses | `remaining_size`, `remaining_position`, and the buffer they point into | `output_large_data`, GET_RESPONSE, `manageGetResponse` | the parts make up one response |
| Framing, connection | the socket of the program, the connection of the host's terminal | `receive_commands`, `parse_APDU_command`, `accept`, `IoTsmartcardConnection`, `IoTCardTerminal` | a command is executed at most once, and once if it is answered; every call ends |
| Status file | `status.json` | `save_status`, `create_json`, `init_smartcard_from_json_file` | what was answered is in it |
| Host driver | `blobCache`, `blobUrisCache`, ids kept in blobs | `storeBlob`, `deleteBlob`, `getNewCredentialID`, issuance, pseudonyms, backup | cache and card agree; ids are unique; what was stored is read back |
| Services, crypto and big-number adaptors, vendored code | - | - | not modelled |

The components meet in five places: `mode` and the PIN check guard all of them (CardAccess;
the other modules say which modes their commands are served in and leave the PIN out);
`buffer` carries blobs, archives, keys, signed commands and proof data (CardAuth lets every
other user of it overwrite it at any time); `mem_session` holds the challenge, and scratch
data of the archives (CardAuth, Counters); and INCREMENT_COUNTER uses the challenge of the
authentication (Counters extends CardAuth). Every command comes and is answered over the link
(CardLink), which is what the other modules take a step of the card to be.

Every hazard found is listed under "hazards" in `PROJECT.json` at its line, with the
properties that cover it.

## 2. Modules

| module | models | builds on |
|---|---|---|
| `CardAccess` | life cycle, PIN, PUK, archives | - |
| `CardAuth` | authenticated configuration | - |
| `Counters` | counters, composed with the authentication they share the challenge with | `CardAuth` |
| `ProofSession` | provers, issuers, credentials, proofs | - |
| `Numbers` | numbers in blocks of bytes, and the arithmetic of the adaptors on them | - |
| `Groups` | groups and generators, and what the proofs compute with them | `Numbers` |
| `BlobMap` | what the blob store promises: a bounded map | - |
| `BlobStore` | slots and catalog | implements `BlobMap` (`INSTANCE ... WITH`) |
| `BlobListing` | LIST_BLOBS and the host that lists | `BlobStore` |
| `CardCalls` | what the link promises: calls that are executed at most once, in order, and answered whole | - |
| `CardLink` | the program of the card and the driver of the host, joined by a connection; long responses; the status file | implements `CardCalls` |
| `HostCredentials` | the credentials, blobs and caches of the driver on the host | `BlobMap` (the card, by `INSTANCE`) |
| `MC...` | constants, bounds, symmetry and views for TLC | the module of the same name |
| `CardAccessProofs`, `CardAuthProofs`, `CountersProofs`, `ProofSessionProofs`, `GroupsProofs`, `BlobStoreProofs`, `CardLinkProofs`, `HostCredentialsProofs` | theorems | the module of the same name (`CountersProofs` also `CardAuthProofs`, `BlobStoreProofs` also `BlobListing`) |

Each action is one handler from its first check to its response. Commands that answer an
error before they change anything are stuttering steps, except in CardAccess, which keeps the
last answer (`Reject`). Names follow the code. Definitions marked "Faulty variant" are not used
by the specifications: each is a mutation of the definition that follows it, and is there to
show that a property is able to fail.

**CardAccess.** `mode`, `pin`, `puk` and the trials are the globals of the same name.
`root_key` stands for `auth_keys_sizes[0] # 0`, the only thing this component asks of the
keys. `buffer` is an archive or `OtherData`. An archive is its label byte, its password and
its content: decipher succeeds on what cipher made under the same label and password. The
history variables `archives`, `wrong_pins`, `wrong_puks` are written and never read by a guard
(`archives` is also what the client may send back). The device key that travels with PIN and
PUK is left out. The random PIN and PUK are any values. The MAC that SET_VIRGIN_MODE asks for
may or may not be right, in any state.

**CardAuth.** A signature is its signer, the challenge it covers and its message; challenges
are numbered in the order they are drawn. `Sign` is the environment: whoever has a key signs a
message for any challenge that the card has drawn, at any time, so that late, repeated and
unused signatures occur. `Use` is what `checkBufferPrefix` and `checkBufferEqual` do when they
succeed, `RefuseCommand` the three ways in which they fail, including the one that drops the
command from the buffer and then finds data behind it. `AfterLast` is where
LIST_AUTHENTICATION_KEYS leaves `authKeyId`, its loop variable. `UseBuffer` is every other
command that writes the buffer or the memory of the challenge.

**Counters.** An archive is a function from the counters that exist to index and cursor. The
entries are restored in the order of their ids until one of them has no counter, and the
entries before stay written, as in the loop of RESTORE_COUNTERS. Two archives and counters of
a different set meet because counters are set and removed in between.

**ProofSession.** The random stream is a counter and a nonce its position in the stream, so
that "the same nonce" is an equality of numbers. `answered` records the challenge each nonce
was answered under. `Commit` is shared by the two commitments, which differ in the status they
start from and end in. `Restart` puts the stream back to its start, as the fixed seed does, and
the history with it.

**BlobStore, BlobMap, BlobListing.** A slot is a catalog entry and a content; the refinement
maps the used slots to a map from URIs to contents. The loop of LIST_BLOBS answers in one of two
places, before a URI that does not fit (`EarlyReply`) or when the catalog is through
(`PageReply`); `Replies` computes what it writes from the sizes of the URIs, with the test of the
code. The reader is `getBlobUris` with its loop.

**Numbers, Groups.** Here bytes are modelled as bytes, of a base that is a parameter, because what
can go wrong is *where* they are: a number is copied to the right of its block, `SET_GENERATOR`
leaves what lay left of it and `SET_GROUP_COMPONENT` clears it for the modulus only, REMOVE_GROUP
resets sizes, the powers are taken of the whole width of the modulus, the products are written over
their operands, and `mModularReduction` puts its result where its operand begins. `Export` is
`mpz_export`, which writes nothing for zero. `stored` keeps what was set. The buffer is
what is left of it when `checkBufferPrefix` has taken the command away.

**CardLink, CardCalls.** A turn of `receive_commands` is several steps: the handler up to its exit,
`fopen` of the status file, which truncates it, `fputs`, and the response; either end may stop
between any two. The program accepts one connection in its life: a host that connects while the
program serves the last one is queued by `listen` and never accepted. The driver keeps the terminal's
card and its socket, also one that is dead. `OutputLargeData` is `output_large_data`; the driver
asks with GET_RESPONSE as long as the status announces more, and joins the parts. What the calls are
is left open: a call is a number and the size of its answer, an answer its bytes, each named by call
and place, so that a byte of another answer or out of place is seen. The state of the card and of the
status file is the set of calls executed.

**HostCredentials.** The driver of the host with a card in WORKING: `blobs` is the card as
`BlobMap` describes it (the actions are those of the instance), `secret` its credential table,
`cache` and `uris` the two caches. An operation is the sequence of exchanges that `op`
walks through. `Exchange` is an exchange that is answered, or one that throws with or without
effect on the card. `getCredential` reads one blob a step: `getBlob` returns null for a blob the
card does not have and for a READ_BLOB that fails, and `getCredential` takes either for the end of
the credential and unserializes what it has read (`ReadPiece`). The reads of `getNewCredentialID`
are one step, since they change nothing but the caches and, if the list of URIs was not cached yet,
the buffer, which LIST_BLOBS empties; any of them may fail, as may the listing (`ListingLost`), and
the search for a slot then ends in an exception when it comes to the blob that it could not read. The content of a blob is its length class (a full
blob, a shorter one, a single byte) and the issuance and piece it belongs to. The client issues
one credential at a time under a URI that is not used again, and gives up on an issuance by
starting another; `kept` records what it was told is stored. The reload blob of deleteCredential
is stored by code that is not in the repository and is left out.

## 3. What is checked

Two cores, a few seconds to two and a half minutes each.

| run | module | what it shows | bounds |
|---|---|---|---|
| `CardAccess` | `MCCardAccess` | types; a trial is left in every mode that compares a PIN or a PUK; wrong attempts are bounded; a stopped card stays stopped; an error keeps the secrets; a restored pair was backed up | two PINs, PUKs and passwords, the trial limits of the code (3), two archives |
| `ProofSession` | `MCProofSession` | types; one challenge per nonce; open nonces are unused; presentations stay within the largest limit | two provers, two credentials of one issuer with one or two generators and a limit of one presentation, two challenges; six random values in a run of the program, four of them while both provers or both credentials are in use (an issuance and two presentations need six) |
| `CardAuth` | `MCCardAuth` | types; challenges serve once; authentications serve once; keys change as signed | the root key and one other, two signers, two challenges, two signatures, an increment as the message that is no command |
| `Counters` | `MCCounters` | types; attendances count once; indices are earned | two counters of one key, two lectures, two challenges, two signatures, one archive |
| `BlobListing` | `MCBlobListing` | types; one slot per URI; the slots implement `BlobMap`; a listing is complete, also when blobs are stored while it goes on, and ends | three URIs on three slots, two contents, responses that hold one URI |
| `CardLink` | `MCCardLink` | types; a call over the link is an operation of `CardCalls`; what was answered is saved; every call ends | three calls with answers of none, one, two and three responses, any number of stops and starts of both ends |
| `Groups` | `MCGroups` | types; what is read is what was set; the modulus is padded; the generators are counted; powers are of the generators; responses are right | one group, two generators (symmetric), bytes of four values, orders of two bytes and other numbers of three, four contents of the buffer (of each length); five nonces, two challenges, three secrets |
| `HostCredentials` | `MCHostCredentials` | types; a stored credential stays usable, is read back whole unless a read failed, and is deleted whole; the caches follow the card | three credentials of one or two blobs, two slots, five blobs, a host that believes in three slots, three secrets drawn, two restarts of the host, one lost exchange |

Two provers and two credentials are enough for a session to meet another, for a credential to
be committed in one session and answered in the next, and for two open commitments at once;
two challenges are needed to see one nonce answered twice; a third would be a copy. Two
counters are needed to see one restored for another. Three slots with pages of one URI give
listings of three pages with free slots before, between and behind. Answers of up to three responses
have a first, a middle and a last one, one of them full, and an end that stops at each; three calls
give one that is executed late, after it has failed, before the next. With three bytes a number may
be shorter or longer than another by one and by two, and a product longer than an order. The
generators of a group do not meet but in their count, so that two are enough. Three credentials on two slots give one that
takes the slot of an abandoned one while another is stored, and one that the card refuses; five
blobs do not hold three credentials, so that stores are refused at an ID blob and at a second
piece. Views leave out what no action and no property of the run
reads (the last answer in CardAccess, the history of CardAuth in Counters).

**Fairness.** Two runs have a liveness property. In `BlobListing` the only fairness is weak
fairness of `ReadPage`: a host inside `getBlobUris` sends the next LIST_BLOBS as soon as it has
the answer to the last (`while(true)`), and the card answers every command. Nothing is assumed
of the commands in between, which may go on forever. In `CardLink` it is weak fairness of `CardStep`
and of `DriverStep`: a program that runs goes on in its sequential code until it waits for the
other end, and so does a caller inside `transmitCommand`. Nobody has to call, to stop, or to start
anything again: a call ends although its card may never come back. The end of a program closes
its connections, as the system does.

**Properties with exceptions.** `BaseIsGenerator`, `GeneratorsCounted` and `ResponsesRight` name the
cases that the code gets right: a generator as long as the modulus, or shorter and no shorter than
those before it in its place (the bytes of a longer one stay); no generator set from an empty buffer
(an empty one has no size and is counted each time it is set); an order that is no shorter than c and u together and no
borrow, or no order.

**Disagreements between code and documentation.** Four runs look for a violation and find one.

* `BlobPages` (`PagesFit`): before it writes a URI, the loop of LIST_BLOBS compares the space
  left with the size in slot `temp_nread`, the count of URIs read, and not in slot `i`, the one
  it writes. With free slots in the catalog the two differ, and a fourth URI of 64 bytes goes
  into a page that has room for three. The page is longer than 255 bytes, which a comment in the
  handler rules out, and its length wraps in the byte that carries it.
* `CounterCursor` (`CursorAdvances`): INCREMENT_COUNTER is meant to count a lecture later than
  the last one counted; it tests `mem_cmp(...) > 0`, and `mem_cmp` returns an unsigned byte, so
  that an earlier lecture counts as well.
* `GroupResponses` (`ResponseIsModuloOrder`): with an order q, `singleResponse` is to "compute (k -
  c*u) mod q" and adds q when k is below c u; it asks so with `mem_cmp(...) < 0`, which is never true
  of an unsigned byte, and the difference is exported without its sign. When c and u together are
  longer than q, the reduction leaves its result on the left of the operand and the subtraction takes
  the bytes on the right.
* `HostOneByte` (`TakesOverIdBlobs`): `getNewCredentialID` recognizes an ID blob by its length
  of one byte. The last blob of a credential whose length is one more than a multiple of
  `max_blob_bytes` has it too; if its byte is the number of the slot looked for, the search deletes
  it as left over by a failed issuance. The passing run has such credentials with a byte that is
  no slot number.

In the histories that `CredentialsKept` excepts, the code overlooks a failure: `putData` catches
its exception, and the status of the deletion of an ID blob is not looked at. Both need an
exchange that fails between two that do not.

`AttendanceCountedOnce` does hold in spite of `CounterCursor`, because a signature is good for one
challenge and a challenge for one signature.

## 4. What is proved

TLAPS proves, for all values of the constants that satisfy the named assumptions
(`SecretsAssumption`, `TrialsAssumption`, `IdsAssumption`, `PresentationsAssumption`,
`AuthAssumption`, `SignedAssumption`, `CountersAssumption`, `BlobsAssumption`, `LinkAssumption`,
`BaseAssumption`, `GroupsAssumption`, `HostAssumption`):

* **CardAccess**: type correctness, `TrialLeftWhereChecked`, `AttemptsBounded`,
  `RestoredPairWasBackedUp`, `StoppedUnlessUnlockedOrErased`, `ErrorKeepsSecrets`. The inductive
  invariant ties each trial byte to the wrong attempts since it was renewed (trials plus attempts do
  not exceed the limit) and says that zero trials mean a stopped mode. The link is what makes the
  bound inductive: the number of attempts alone says nothing about the next one.
* **ProofSession**: type correctness, `OneChallengePerNonce`, `OpenNoncesUnused`,
  `PresentationsWithinLimit`. The inductive invariant says which nonces may still be answered: every
  nonce in use was drawn, no two holders share an open one, and a nonce that was answered belongs to
  a session in the response stage with that challenge or to nobody any more. For the limit it
  relates the count of the card, its status byte, the presentations given and the largest limit;
  that the count is a byte is where the limits below 256 come in.
* **CardAuth**: type correctness, `ChallengeAcceptedOnce`, `ChangesAuthenticated`,
  `KeysChangeAsSigned`. The challenge pending is not among those accepted, every accepted one was
  drawn; and `OriginInv` says that as long as no command has written the buffer, it holds the
  message of the last authentication and `authKeyId` is the key of it or the end of the list.
* **BlobStore**: type correctness, `OneSlotPerUri`, and the refinement `ImplementsMap`. The search
  of the code is shown to return the slot that has the URI, whatever slots are free, and the number
  of used slots to be the number of URIs, so that the store is full when the map is.
* **BlobListing** (in `BlobStoreProofs`): that a card that lists is the store (`ListingKeepsStore`),
  so that the theorems above hold of it; `ListingComplete` and `StoringLosesNothing`, for any number
  of slots and any sizes of URIs and responses. The cursor a page answers with counts the URIs met
  so far and not the slots, and the handler skips as many. `Met(i)` is the number of URIs that the
  loop has met when it comes to slot `i`: it is another one for every slot in use, so that a page
  gives the URIs of those that the count of the reader leaves (`PageOfNext`), and storing a blob
  makes it larger and never smaller (`CatalogGrows`). The invariant (`ListInv`) says for a reader
  under whom nothing was removed that it has, of the URIs that were there when it began, those met
  within its count: a slot that is taken moves others on, so that one may be given twice, but none
  back.
* **Counters**: that without its counters the card is `CardAuth`'s (`CountersKeepAuth`), so that the
  theorems above hold of it; type correctness, `AttendanceCountedOnce`, `IndexEarned`. A counter has
  counted at most as many messages as there are signatures on messages for it whose challenge was
  accepted (`Used`): counting one takes a challenge that was not accepted before, so that its
  signature is a new member of that set. For the indices, those in every archive are bounded like
  those of the counters.
* **Groups**: type correctness, `ReadsWhatWasSet`, `ModulusPadded`, `GeneratorsCounted`,
  `BaseIsGenerator`, `ResponsesRight`, for blocks and numbers of any size and bytes of any base.
  That `Right` after `SetRight` gives back the number is the lemma the rest stands on
  (`SetRightGivesRight`); the count does not wrap since a byte has more values than there are
  generators (NUM_GEN is 3 at most). The invariant drops the condition that the group exists: a
  group that was removed reads as nothing. The last two are about what `Value`, `Power` and `Digits`
  compute, recursive functions over sequences and numbers of any length. What they are is proved by
  induction stated over sets of numbers (`Induction`, `InductionOnBytes`), from the well-founded
  order on the naturals: what is exported has the value that was exported (`ValueOfExport`), the
  product lies in the last bytes of the place it is written to (`ValueOfProduct`), and a number that
  is no longer than the order is reduced to its remainder (`ValueOfReduced`). That the bytes of a
  longer generator are still there is an invariant of its own (`LongestInv`): left of the longest
  number that a generator has been, its block was never written.
* **CardLink**: type correctness, `AnsweredIsSaved`, and the refinement `ImplementsCalls`. The
  inductive invariant (`Inv`) says which states of one end go with which of the other (`EndsInv`),
  that at most one frame is on the wire and whose (`WireInv`), that what the open call has got and
  what the card has left make up the answer (`CallInv`), and when the file is that of the card
  (`FileInv`). A response under way is needed in each: a call that waits is only right if what it
  will receive is.
* **HostCredentials**: type correctness, `CacheFollowsCard`, `DeletionIsComplete`, `CredentialsKept`
  and `ReadsBack`. The inductive invariant says what an operation has in hand at each exchange
  (`OpInv`: a slot whose secret is drawn before its ID is stored, a piece of the pending credential
  no later than its last) and that from `putData` until STORE_BLOB is answered the caches have the
  content already (`StoringInv`), so that the answer makes them agree. A deletion ends at the first
  piece that the card does not have, so that it is complete only if the pieces have no gaps
  (`GapInv`). What an allocation takes for the ID of an abandoned credential may be a piece of
  another; it leaves no gap, for a piece of one byte is the last (`ByteIsLast`), which needs that
  all pieces of a credential are of one issuance (`OneIssue`). For what is stored, `StoredInv` says
  which slot each ID blob names, on the card and in the cache: no two credentials claim one
  (`OneClaim`), and an ID in the cache that is not the one on the card names a smaller slot
  (`HidesSmaller`), so that the search for a free slot, which sees only the cache, comes to it
  first. `StoredStaysStored` and `StoredReadsBack` have a hypothesis, `NoNumberedByte`: no
  credential ends in a piece of one byte with the number of a slot. Without it they are false; the
  run `HostOneByte` shows the allocation that takes such a piece for an ID blob. `DeletedIsGone`
  needs no such hypothesis. `ReadsBack` is about the end of a reading: its invariant,
  `ReadingInv`, says that the pieces before the one asked for are cached until the reading ends, so
  that at its end they are what is accumulated; `StoredInv` says that they are the right ones. A
  reading that one READ_BLOB cuts short is what the code makes of it, and gives a credential without
  its last pieces; the property says that these are the only incomplete ones.

The strengthened invariants `ListInv`, `DeletionInv`, `StoredInv`, `ReadingInv` and `LongestInv` were
also checked with TLC, on the constants of the runs of their modules.

What is only model-checked: liveness (`ListingEnds`, `CallEnds`), which with fairness and ENABLED is
beyond the prover, and the four disagreements, whose runs show a behaviour that violates what the
code's words say. Every other property of a run is a theorem.

## 5. What is not modelled, and why

* Exponentiation, signatures, hashes and ciphers: functions of their inputs. In `ProofSession` a
  response is the nonce and the challenge that it is computed from (its arithmetic is in `Groups`), a
  signature what it covers, an archive what it contains.
* ISO cases, sizes and parameter ranges: each fails before anything is changed.
* Readers that answer from a table and change nothing (READ_ISSUER, LIST_COUNTERS, ...).
* How TCP cuts a frame: in `CardLink` one read gives a whole frame, as the code on both sides takes
  it to. The cases of an APDU and the fields of the JSON in the status file (`serialize_util.c`).
  The loss of the whole device, which closes no connection.
* Commands with two responses or none: `CardLink` has one response per command. A handler that goes on
  after a function it called has answered with an error answers twice (`m_adapted_API.c:120-122` for
  an exponent longer than the modulus, `APDU_handler.c:2734` after `singleResponse`), and
  SET_FAST_VIRGIN_MODE answers nothing (486-488). With the sizes the driver sets and the commands it
  sends neither happens.
* Two threads of the host in the driver: the services that would call it so are not in this repository
  but for resources that pass calls on.
* Of the host what is neither the link, the blobs nor the credentials: the plan below.
* Code that is not compiled with the constants of the build (BACKUP_CREDENTIAL and
  RESTORE_CREDENTIAL, the test handlers), the alternatives that CMakeLists.txt leaves out
  (`arithmetic_implementation_v1.c`, mini-gmp, `tiny-*`, `cryptodev-*`) and vendored code.

## 6. Plan

In the order in which it is worth doing:

1. The thresholds of the counters in a presentation: `Counters` composed with `ProofSession`, so that a
   presentation given is an attendance earned, also across restores and the index that wraps; and
   `Groups` composed with `ProofSession`, for a group that is set again between a commitment and its
   response.
2. `HostCredentials`, extended: pseudonyms (of which `deletePseudonym` removes
   the first blob only, for it appends each number to the URI it has extended), two issuances at a time,
   the set-up of issuers, and backup and restore as
   sequences of exchanges over `CardCalls`.
3. Frames that TCP cuts, as a refinement of the streams of `CardLink`.
4. Proofs: that each page of a listing takes its reader further, and each step of a call nearer to its end,
   the safety half of `ListingEnds` and `CallEnds`; then what the extensions above add.

## 7. Running it

    tlc -workers 2 -config MCCardAccess.cfg MCCardAccess
    tlapm CardAccessProofs.tla
