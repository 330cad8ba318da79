--------------------------- MODULE HostCredentials ---------------------------
(***************************************************************************)
(* Credentials as HardwareSmartcard.java keeps them: a slot of the card's  *)
(* credential table with the secret in it, a blob that maps the URI of the *)
(* credential to that slot, and the serialized credential in the blobs     *)
(* uri_1, uri_2, ...  Each operation is several exchanges with the card;   *)
(* the host may stop between two of them, an exchange may end in a         *)
(* CardException before or after the card has served it, and the caches of *)
(* the host are written before the card has answered.                      *)
(*                                                                         *)
(* The card is WORKING and the PIN is the right one.  Its blob store is    *)
(* BlobMap, which BlobStore implements.  getCredential reads one blob a    *)
(* step; the reads of the other operations are a single step, since they   *)
(* change no state but the caches and, in a listing, the buffer.           *)
(***************************************************************************)
EXTENDS Naturals, FiniteSets, TLC

CONSTANTS
  Creds, NoCred,      \* URIs of credentials
  NumCreds,           \* slots of the card's credential table
  MaxNoOfCredentials, \* slots the host believes the card has
  MaxBlobs,           \* blobs the card holds
  Shapes, MaxParts,   \* sizes of serialized credentials, and the most pieces of one
  MaxIssued, MaxRestarts, MaxLosses   \* bounds of the exploration

\* A shape is a number of pieces and the size of the last: max_blob_bytes, less, or a
\* single byte and its value.
ASSUME HostAssumption ==
  /\ NoCred \notin Creds
  /\ NumCreds \in 1..255 /\ MaxNoOfCredentials \in 1..255 /\ MaxBlobs \in Nat \ {0}
  /\ MaxIssued \in Nat /\ MaxRestarts \in Nat /\ MaxLosses \in Nat /\ MaxParts \in Nat
  /\ Shapes \subseteq [parts : 1..MaxParts, last : {"full", "short", "byte"}, value : 0..255]

VARIABLES
  blobs, answer,      \* the card's blobs and its last answer about them
  buffer,             \* what STORE_BLOB stores
  secret,             \* slot -> number of the SET_CREDENTIAL that drew it, 0 if none
  issued,             \* SET_CREDENTIALs served
  cache,              \* blobCache
  uris, loaded,       \* blobUrisCache, loadedBlobUris
  op,                 \* the exchange the running operation is at
  pending,            \* the credential being issued, once its slot is allocated
  kept,               \* credential -> what storeCredential was told is stored
  used,               \* credentials whose storing has begun
  doubtful,           \* URIs the card did not confirm since the host started
  overlooked,         \* an exchange failed and the host went on as if it had not
  restarts, lost

cardVars == <<blobs, answer, buffer, secret, issued>>
hostVars == <<cache, uris, loaded, op, pending>>
hostHist == <<kept, used, doubtful, overlooked, restarts, lost>>
credVars == <<cardVars, hostVars, hostHist>>

\* The URI of the ID blob of c is <<c, 0>>, the one of its k-th piece <<c, k>>.
Uris   == Creds \X (0..MaxParts)
NoUri  == <<NoCred, 0>>
Idle   == [at |-> "idle", cred |-> NoCred, id |-> 0, part |-> 0, uri |-> NoUri]
Nobody == [cred |-> NoCred, gen |-> 0, shape |-> [parts |-> 0, last |-> "short", value |-> 0]]

OtherData   == [gen |-> 0, part |-> 0, size |-> "short", value |-> 0]
NoData      == [gen |-> 0, part |-> 0, size |-> "none", value |-> 0]
IdBlob(i)   == [gen |-> 0, part |-> 0, size |-> "byte", value |-> i]
Piece(x, k) == LET final == k = x.shape.parts IN
  [gen |-> x.gen, part |-> k, size |-> IF final THEN x.shape.last ELSE "full",
   value |-> IF final THEN x.shape.value ELSE 0]

IdBlobs  == {IdBlob(i) : i \in 1..NumCreds}
Pieces   == {Piece([gen |-> g, shape |-> s], k) : g \in 1..MaxIssued, s \in Shapes, k \in 1..MaxParts}
Contents == {OtherData, NoData} \cup IdBlobs \cup Pieces
Card == INSTANCE BlobMap WITH Uris <- Uris

-----------------------------------------------------------------------------
(* What the host does around an exchange *)

Changed(f, u, x) == [v \in DOMAIN f \cup {u} |-> IF v = u THEN x ELSE f[v]]

Put(u, x) == cache' = Changed(cache, u, x) /\ uris' = uris \cup {u}

\* (Faulty variant: the blob stays cached.)
ForgetUriOnly(u) == cache' = cache /\ uris' = uris \ {u}

Forget(u) == /\ cache' = [v \in DOMAIN cache \ {u} |-> cache[v]]
             /\ uris' = uris \ {u}

\* The command is served and answered; or transmit throws, and the card may have
\* served it or not.
Exchange(served, notServed) ==
  \/ served /\ UNCHANGED lost
  \/ lost < MaxLosses /\ lost' = lost + 1 /\ (served \/ notServed)
heard == lost' = lost

\* storeBlob: PUT_DATA and STORE_BLOB, for the ID blob (part 0) or a piece.
Target  == <<op.cred, op.part>>
Content == IF op.part = 0 THEN IdBlob(op.id) ELSE Piece(pending, op.part)

StoreBlob ==
  /\ op.at = "storeBlob"
  /\ Exchange(Card!Store(Target, buffer) \/ Card!RefuseStore, UNCHANGED <<blobs, answer>>)
stored == heard /\ answer' = "done"

DeleteBlob(u) ==
  /\ Forget(u)
  /\ Exchange(Card!Remove(u), UNCHANGED <<blobs, answer>>)
  /\ overlooked' = (overlooked \/ (u[2] = 0 /\ u \in DOMAIN blobs'))

Confirm(u, ok) == doubtful' = IF ok THEN doubtful \ {u} ELSE doubtful \cup {u}

\* getBlob: the cached blob, else the card's; null for a blob that the card does not
\* have, or if READ_BLOB fails.
Known(u)  == u \in DOMAIN cache \cup DOMAIN blobs
BlobOf(u) == IF u \in DOMAIN cache THEN cache[u] ELSE blobs[u]
ReadAll(us) == cache' = [u \in DOMAIN cache \cup us |-> BlobOf(u)]
GetBlob(u) ==
  \/ ReadAll({u} \cap (DOMAIN cache \cup DOMAIN blobs)) /\ UNCHANGED lost
  \/ u \notin DOMAIN cache /\ lost < MaxLosses /\ lost' = lost + 1 /\ UNCHANGED cache

\* getBlobs: the cached list of URIs, once there is one.  LIST_BLOBS empties the buffer.
SeenUris == IF loaded THEN uris ELSE DOMAIN blobs
Seen     == [u \in SeenUris |-> BlobOf(u)]
Listed   == IF loaded THEN buffer ELSE NoData

\* The caches come first, and putData catches the exception.
PutData ==
  /\ op.at = "putData"
  /\ Put(Target, Content)
  /\ Exchange(buffer' = Content, UNCHANGED buffer)
  /\ overlooked' = (overlooked \/ buffer' # Content)
  /\ doubtful' = doubtful \cup {Target}
  /\ op' = [op EXCEPT !.at = "storeBlob"]
  /\ UNCHANGED <<blobs, answer, secret, issued, loaded, pending, kept, used, restarts>>

-----------------------------------------------------------------------------
(* allocateCredential *)

\* The blobs that are taken for the ID blob of slot i.
Holders(i) == {u \in SeenUris : Seen[u].size = "byte" /\ Seen[u].value = i}

\* (Faulty variant: looks for a second piece.)
LiveFromTwo(u) == u[2] = 0 /\ <<u[1], 2>> \in SeenUris

\* An ID blob whose credential has a first piece.
Live(u) == u[2] = 0 /\ <<u[1], 1>> \in SeenUris

\* getNewCredentialID: the first slot without holder, or with one that is not live.
FreeIds == {i \in 1..MaxNoOfCredentials : Holders(i) = {} \/ \E u \in Holders(i) : ~Live(u)}
SlotFor(c) ==
  IF FreeIds = {} THEN op' = Idle
  ELSE \E i \in FreeIds :
         /\ \A j \in FreeIds : i <= j
         /\ \/ /\ Holders(i) = {}
               /\ op' = [Idle EXCEPT !.at = "setCredential", !.cred = c, !.id = i]
            \/ \E u \in {v \in Holders(i) : ~Live(v)} :
                 op' = [Idle EXCEPT !.at = "takeOver", !.cred = c, !.id = i, !.uri = u]

\* A blob that is null or empty has no first byte: the search for slot 1 ends in an
\* exception when it comes to it, or before, with a holder that is not live.
NoSlotFor(c, unread) ==
  \/ op' = Idle
  \/ \E u \in {v \in Holders(1) \ unread : ~Live(v)} :
       op' = [Idle EXCEPT !.at = "takeOver", !.cred = c, !.id = 1, !.uri = u]

\* A credential has a URI of its own; one that got no further may be tried again.
\* What is not read was lost, in one loss.
AllocateCredential(c) ==
  /\ op = Idle /\ c \notin used /\ issued < MaxIssued
  /\ \E unread \in SUBSET (SeenUris \ DOMAIN cache) :
       /\ IF unread = {} THEN UNCHANGED lost ELSE lost < MaxLosses /\ lost' = lost + 1
       /\ ReadAll(SeenUris \ unread)
       /\ IF unread = {} /\ \A u \in SeenUris : Seen[u] # NoData THEN SlotFor(c)
                                                                ELSE NoSlotFor(c, unread)
  /\ uris' = SeenUris /\ loaded' = TRUE
  /\ buffer' = Listed
  /\ pending' = Nobody
  /\ UNCHANGED <<blobs, answer, secret, issued, kept, used, doubtful, overlooked, restarts>>

\* An allocation whose LIST_BLOBS fails ends in an exception.
ListingLost ==
  /\ op = Idle /\ ~loaded
  /\ lost < MaxLosses /\ lost' = lost + 1
  /\ buffer' \in {buffer, NoData}
  /\ UNCHANGED <<blobs, answer, secret, issued, hostVars, kept, used, doubtful, overlooked, restarts>>

\* The status of this deletion is not looked at.
TakeOver ==
  /\ op.at = "takeOver"
  /\ DeleteBlob(op.uri)
  /\ Confirm(op.uri, heard)
  /\ op' = [op EXCEPT !.at = "setCredential", !.uri = NoUri]
  /\ UNCHANGED <<buffer, secret, issued, loaded, pending, kept, used, restarts>>

\* (Faulty variant: without the range check of SET_CREDENTIAL.)
DrawSecretAnySlot == /\ issued' = issued + 1
                     /\ secret' = Changed(secret, op.id, issued')

DrawSecret == /\ op.id <= NumCreds
              /\ issued' = issued + 1
              /\ secret' = [secret EXCEPT ![op.id] = issued']

SetCredential ==
  /\ op.at = "setCredential"
  /\ Exchange(DrawSecret \/ (op.id > NumCreds /\ UNCHANGED <<secret, issued>>),
              UNCHANGED <<secret, issued>>)
  /\ op' = IF heard /\ op.id <= NumCreds THEN [op EXCEPT !.at = "putData"] ELSE Idle
  /\ UNCHANGED <<blobs, answer, buffer, cache, uris, loaded, pending, kept, used, doubtful,
                 overlooked, restarts>>

\* storeCredentialUriAndID.  The issuance protocol then makes a credential of some shape.
StoreId ==
  /\ StoreBlob /\ op.part = 0
  /\ Confirm(Target, stored /\ buffer = Content)
  /\ pending' \in IF ~stored THEN {Nobody}
                  ELSE {[cred |-> op.cred, gen |-> secret[op.id], shape |-> s] : s \in Shapes}
  /\ op' = Idle
  /\ UNCHANGED <<buffer, secret, issued, cache, uris, loaded, kept, used, overlooked, restarts>>

-----------------------------------------------------------------------------
(* storeCredential, getCredential *)

\* What the card did in between has used the buffer or not.
StoreCredential ==
  /\ op = Idle /\ pending # Nobody
  /\ op' = [Idle EXCEPT !.at = "putData", !.cred = pending.cred, !.part = 1]
  /\ used' = used \cup {pending.cred}
  /\ buffer' \in {buffer, OtherData, NoData}
  /\ UNCHANGED <<blobs, answer, secret, issued, cache, uris, loaded, pending, kept, doubtful,
                 overlooked, restarts, lost>>

\* Anything but OK ends the operation; the client may call it again.
StorePiece ==
  LET final == op.part = pending.shape.parts IN
  /\ StoreBlob /\ op.part > 0
  /\ Confirm(Target, stored /\ buffer = Content)
  /\ op' = IF stored /\ ~final THEN [op EXCEPT !.at = "putData", !.part = @ + 1] ELSE Idle
  /\ kept' = IF stored /\ final THEN Changed(kept, op.cred, pending) ELSE kept
  /\ pending' = IF stored /\ final THEN Nobody ELSE pending
  /\ UNCHANGED <<buffer, secret, issued, cache, uris, loaded, used, overlooked, restarts>>

\* (Faulty variant: stops at the first piece.)
ContinuesNever(b) == b.size = "nowhere"

Continues(b) == b.size = "full"

GetCredential(c) ==
  /\ op = Idle
  /\ op' = [Idle EXCEPT !.at = "getBlob", !.cred = c, !.part = 1]
  /\ UNCHANGED <<cardVars, cache, uris, loaded, pending, hostHist>>

\* A blob that is null is taken for the end, as one that is not full: what was
\* accumulated is unserialized.
ReadPiece ==
  /\ op.at = "getBlob"
  /\ GetBlob(Target)
  /\ op' = IF Target \in DOMAIN cache' /\ Continues(cache'[Target])
           THEN [op EXCEPT !.part = @ + 1] ELSE Idle
  /\ UNCHANGED <<cardVars, uris, loaded, pending, kept, used, doubtful, overlooked, restarts>>
Accumulated == {k \in 1..op.part : <<op.cred, k>> \in DOMAIN cache'}

-----------------------------------------------------------------------------
(* deleteCredential *)

\* getCredentialIDFromUri ends in an exception, and nothing has changed, if the ID blob
\* is null or empty.
DeleteCredential(c) ==
  LET u == <<c, 0>> IN
  /\ op = Idle /\ Known(u) /\ BlobOf(u) # NoData
  /\ ReadAll({u})
  /\ op' = [Idle EXCEPT !.at = "removeId", !.cred = c, !.id = BlobOf(u).value]
  /\ kept' = [d \in DOMAIN kept \ {c} |-> kept[d]]
  /\ pending' = IF pending.cred = c THEN Nobody ELSE pending
  /\ UNCHANGED <<cardVars, uris, loaded, used, doubtful, overlooked, restarts, lost>>

\* (Faulty variant: the loop begins with the second piece.)
RemoveIdThenSecond ==
  /\ op.at = "removeId"
  /\ DeleteBlob(<<op.cred, 0>>)
  /\ Confirm(<<op.cred, 0>>, heard)
  /\ op' = [op EXCEPT !.at = "removePiece", !.part = 2]
  /\ UNCHANGED <<buffer, secret, issued, loaded, pending, kept, used, restarts>>

RemoveId ==
  /\ op.at = "removeId"
  /\ DeleteBlob(<<op.cred, 0>>)
  /\ Confirm(<<op.cred, 0>>, heard)
  /\ op' = [op EXCEPT !.at = "removePiece", !.part = 1]
  /\ UNCHANGED <<buffer, secret, issued, loaded, pending, kept, used, restarts>>

\* removeCredentialUri: until a deletion is not answered with OK.
RemovePiece ==
  LET u == <<op.cred, op.part>> IN
  /\ op.at = "removePiece"
  /\ DeleteBlob(u)
  /\ Confirm(u, heard)
  /\ op' = IF heard /\ answer' = "done" THEN [op EXCEPT !.part = @ + 1]
                                       ELSE [op EXCEPT !.at = "removeCredential"]
  /\ UNCHANGED <<buffer, secret, issued, loaded, pending, kept, used, restarts>>

RemoveCredential ==
  /\ op.at = "removeCredential"
  /\ Exchange(secret' = [i \in DOMAIN secret |-> IF i = op.id THEN 0 ELSE secret[i]],
              UNCHANGED secret)
  /\ op' = Idle
  /\ UNCHANGED <<blobs, answer, buffer, issued, cache, uris, loaded, pending, kept, used,
                 doubtful, overlooked, restarts>>

\* The program on the host ends, wherever it is, and is started again.
HostRestart ==
  /\ restarts < MaxRestarts /\ restarts' = restarts + 1
  /\ cache' = [u \in {} |-> IdBlob(0)] /\ uris' = {} /\ loaded' = FALSE
  /\ op' = Idle /\ pending' = Nobody /\ doubtful' = {}
  /\ UNCHANGED <<cardVars, kept, used, overlooked, lost>>

HostInit ==
  /\ Card!Init /\ buffer = OtherData
  /\ secret = [i \in 1..NumCreds |-> 0] /\ issued = 0
  /\ cache = [u \in {} |-> IdBlob(0)] /\ uris = {} /\ loaded = FALSE
  /\ op = Idle /\ pending = Nobody
  /\ kept = [c \in {} |-> Nobody] /\ used = {} /\ doubtful = {} /\ overlooked = FALSE
  /\ restarts = 0 /\ lost = 0

HostNext ==
  \/ \E c \in Creds : AllocateCredential(c) \/ GetCredential(c) \/ DeleteCredential(c)
  \/ ListingLost \/ TakeOver \/ SetCredential \/ StoreId
  \/ StoreCredential \/ PutData \/ StorePiece \/ ReadPiece
  \/ RemoveId \/ RemovePiece \/ RemoveCredential
  \/ HostRestart

HostSpec == HostInit /\ [][HostNext]_credVars

-----------------------------------------------------------------------------
(* Every variable is what its declaration says it is: a slot the card serves *)
(* is in its table, and whatever is cached is a blob the host can store.     *)
HostTypeOK ==
  /\ DOMAIN blobs \subseteq Uris /\ \A u \in DOMAIN blobs : blobs[u] \in Contents
  /\ DOMAIN cache \subseteq Uris /\ \A u \in DOMAIN cache : cache[u] \in Contents
  /\ uris \subseteq Uris /\ doubtful \subseteq Creds \X (0..MaxParts + 1)
  /\ secret \in [1..NumCreds -> 0..MaxIssued]
  /\ op.id \in 0..255 /\ op.part \in 0..MaxParts + 1
  /\ buffer \in Contents /\ pending.cred \in Creds \cup {NoCred}
  /\ DOMAIN kept \subseteq used /\ used \subseteq Creds

(* A credential the client was told is stored stays usable until it is deleted: *)
(* its ID blob and its pieces are on the card and the slot still has the secret *)
(* it was issued for, whatever allocations, restarts and refused stores of      *)
(* others come between.  Excepted are the histories in which the host has       *)
(* overlooked that an ID blob outlived its removal or that a PUT_DATA was not   *)
(* served: the code looks at the status of neither.                             *)
CredentialsKept ==
  ~overlooked => \A c \in DOMAIN kept :
    /\ <<c, 0>> \in DOMAIN blobs
    /\ secret[blobs[<<c, 0>>].value] = kept[c].gen
    /\ \A k \in 1..kept[c].shape.parts :
         <<c, k>> \in DOMAIN blobs /\ blobs[<<c, k>>] = Piece(kept[c], k)

(* What getCredential unserializes of a credential that is stored are pieces that *)
(* storeCredential was given, none of an earlier attempt, and all of them, unless  *)
(* a READ_BLOB of it has failed: the code takes that for the end of the            *)
(* credential.  What it read until then, and the caches that it leaves, do not     *)
(* make a later reading incomplete.                                                *)
ReadsBack ==
  [][(/\ op.at = "getBlob" /\ op' = Idle /\ restarts' = restarts
      /\ ~overlooked /\ op.cred \in DOMAIN kept)
       => /\ \A k \in Accumulated :
               /\ k <= kept[op.cred].shape.parts
               /\ cache'[<<op.cred, k>>] = Piece(kept[op.cred], k)
          /\ heard => Accumulated = 1..kept[op.cred].shape.parts]_credVars

(* The caches and the card differ at most on the URIs whose last store or        *)
(* deletion the card did not confirm or is under way: blobCache has no other     *)
(* content than the card, and a list of URIs once read stays the card's through  *)
(* every operation.                                                              *)
CacheFollowsCard ==
  /\ \A u \in DOMAIN cache \ doubtful : u \in DOMAIN blobs /\ blobs[u] = cache[u]
  /\ loaded => uris \ doubtful = DOMAIN blobs \ doubtful

(* When deleteCredential is through, none of the blobs of the credential is in   *)
(* doubt and no failure was overlooked (a deletion taken up again stops at a     *)
(* first piece that is already gone), nothing of the credential is left: no blob *)
(* under its URI, no secret in its slot, no trace in the caches.                 *)
DeletionIsComplete ==
  [][(/\ op.at = "removeCredential" /\ op' = Idle /\ restarts' = restarts /\ heard /\ ~overlooked
      /\ \A u \in doubtful : u[1] # op.cred)
       => /\ \A u \in DOMAIN blobs \cup DOMAIN cache : u[1] # op.cred
          /\ secret'[op.id] = 0]_credVars

(* getNewCredentialID deletes only what its comment names, an ID blob without    *)
(* credential: "we only have the "URI to ID blob". Delete the URI to ID blob".   *)
TakesOverIdBlobs == op.at = "takeOver" => op.uri[2] = 0
=============================================================================
