------------------------ MODULE HostCredentialsProofs ------------------------
(***************************************************************************)
(* Proofs about the credentials of the host, for any number of             *)
(* credentials, slots, pieces, restarts and lost exchanges: the caches     *)
(* follow the card, a deletion that is through leaves nothing, and what    *)
(* the client was told is stored stays stored and is read back whole.      *)
(*                                                                         *)
(* The inductive invariants say what an operation has in hand at each of   *)
(* its exchanges: a slot whose secret is drawn before its ID is stored, a  *)
(* piece of the credential that is pending, and, while the card has not    *)
(* answered STORE_BLOB, a cache that has its content already.  Each        *)
(* section adds what its theorem needs: no gaps between the pieces for the *)
(* deletion, one claim per slot for what is stored.                        *)
(***************************************************************************)
EXTENDS HostCredentials, TLAPS

Steps == {"idle", "takeOver", "setCredential", "putData", "storeBlob", "getBlob", "removeId",
          "removePiece", "removeCredential"}

Issues == [cred : Creds, gen : 1..MaxIssued, shape : Shapes]

IsBlobMap(f) == DOMAIN f \subseteq Uris /\ \A u \in DOMAIN f : f[u] \in Contents

CardTypes ==
  /\ IsBlobMap(blobs)
  /\ buffer \in Contents
  /\ secret \in [1..NumCreds -> 0..MaxIssued]
  /\ issued \in 0..MaxIssued

OpTypes == [at : Steps, cred : Creds \cup {NoCred}, id : 0..255, part : 0..MaxParts + 1,
            uri : Uris \cup {NoUri}]

HostTypes ==
  /\ IsBlobMap(cache)
  /\ uris \in SUBSET Uris /\ uris \subseteq DOMAIN cache \cup DOMAIN blobs
  /\ loaded \in BOOLEAN
  /\ op \in OpTypes
  /\ pending \in Issues \cup {Nobody}

HistTypes ==
  /\ DOMAIN kept \subseteq used
  /\ used \in SUBSET Creds
  /\ doubtful \in SUBSET (Creds \X (0..MaxParts + 1))
  /\ restarts \in Nat /\ lost \in Nat

\* What the operation has in hand.
OpInv ==
  /\ op.at # "idle" => op.cred \in Creds
  /\ op.at \in {"takeOver", "setCredential"} => issued < MaxIssued /\ op.part = 0 /\ op.id # 0
  /\ op.at = "takeOver" => op.uri \in Uris
  /\ op.at \in {"putData", "storeBlob"} /\ op.part = 0
       => op.id \in 1..NumCreds /\ secret[op.id] # 0
  /\ op.at \in {"putData", "storeBlob"} /\ op.part # 0
       => /\ pending # Nobody /\ op.cred = pending.cred /\ op.cred \in used
          /\ op.part <= pending.shape.parts
  /\ op.at = "getBlob" => op.part # 0

TypeInv == CardTypes /\ HostTypes /\ HistTypes /\ OpInv

\* The caches were written before the card stores.
StoringInv == op.at = "storeBlob" => /\ Target \in uris
                                     /\ Target \in DOMAIN cache /\ cache[Target] = Content

-----------------------------------------------------------------------------
(* Blobs and the maps of them *)

LEMMA Bounds ==
  /\ NumCreds \in 1..255 /\ MaxNoOfCredentials \in 1..255
  /\ MaxIssued \in Nat /\ MaxParts \in Nat
  BY HostAssumption

\* What the host stores is a content.
LEMMA ContentIsContent ==
  ASSUME HostTypes, OpInv, op.at \in {"putData", "storeBlob"}
  PROVE  Content \in Contents /\ Target \in Uris
<1>1. CASE op.part = 0
  <2>1. op.id \in 1..NumCreds
    BY <1>1 DEF OpInv
  <2>2. Content \in Contents
    BY <1>1, <2>1 DEF Content, Contents, IdBlobs
  <2>3. op.cred \in Creds /\ op.part \in 0..MaxParts
    BY <1>1, Bounds DEF OpInv, HostTypes, OpTypes
  <2> QED BY <2>2, <2>3 DEF Target, Uris
<1>2. CASE op.part # 0
  <2>1. pending \in Issues /\ op.part \in 1..pending.shape.parts /\ op.cred \in Creds
    BY <1>2 DEF OpInv, HostTypes, OpTypes, Issues
  <2>2. pending.shape.parts \in 1..MaxParts /\ pending.shape \in Shapes /\ pending.gen \in 1..MaxIssued
    BY <2>1, HostAssumption DEF Issues
  <2>3. op.part \in 1..MaxParts
    BY <2>1, <2>2, Bounds
  <2>4. Piece(pending, op.part) = Piece([gen |-> pending.gen, shape |-> pending.shape], op.part)
    BY DEF Piece
  <2>5. Content \in Contents
    BY <1>2, <2>2, <2>3, <2>4 DEF Content, Contents, Pieces
  <2>6. op.part \in 0..MaxParts
    BY <2>3
  <2> QED BY <2>1, <2>5, <2>6 DEF Target, Uris
<1> QED BY <1>1, <1>2

\* The value of a content is a byte.
LEMMA ContentValue ==
  ASSUME NEW x \in Contents
  PROVE  x.value \in 0..255
<1>1. OtherData.value \in 0..255 /\ NoData.value \in 0..255
  BY DEF OtherData, NoData
<1>2. ASSUME NEW i \in 1..NumCreds
      PROVE  IdBlob(i).value \in 0..255
  BY Bounds DEF IdBlob
<1>3. ASSUME NEW g \in 1..MaxIssued, NEW s \in Shapes, NEW k \in 1..MaxParts
      PROVE  Piece([gen |-> g, shape |-> s], k).value \in 0..255
  <2>1. s.value \in 0..255
    BY HostAssumption
  <2> QED BY <2>1 DEF Piece
<1>4. CASE x \in Pieces
  <2> PICK g \in 1..MaxIssued, s \in Shapes, k \in 1..MaxParts :
             x = Piece([gen |-> g, shape |-> s], k)
    BY <1>4 DEF Pieces
  <2> QED BY <1>3
<1>5. CASE x \in IdBlobs
  BY <1>2, <1>5 DEF IdBlobs
<1> QED BY <1>1, <1>4, <1>5 DEF Contents

\* What the maps of blobs become.
LEMMA ChangedMap ==
  ASSUME NEW f, IsBlobMap(f), NEW u \in Uris, NEW x \in Contents
  PROVE  IsBlobMap(Changed(f, u, x))
  BY DEF IsBlobMap, Changed

\* The blobs us are read; each was cached or on the card.
Reads(us) == /\ \A u \in us : Known(u)
             /\ DOMAIN cache' = DOMAIN cache \cup us
             /\ \A u \in DOMAIN cache' : cache'[u] = BlobOf(u)

LEMMA ReadAllReads ==
  ASSUME NEW us, ReadAll(us), \A u \in us : Known(u)
  PROVE  Reads(us)
  BY DEF ReadAll, Reads

LEMMA ReadMap ==
  ASSUME IsBlobMap(cache), IsBlobMap(blobs), NEW us, Reads(us)
  PROVE  IsBlobMap(cache') /\ DOMAIN cache \subseteq DOMAIN cache'
  BY DEF IsBlobMap, Reads, Known, BlobOf

LEMMA ForgetMap ==
  ASSUME IsBlobMap(cache), uris \in SUBSET Uris, uris \subseteq DOMAIN cache \cup DOMAIN blobs,
         NEW u, Forget(u), DOMAIN blobs \ {u} \subseteq DOMAIN blobs'
  PROVE  IsBlobMap(cache') /\ uris' \in SUBSET Uris /\ uris' \subseteq DOMAIN cache' \cup DOMAIN blobs'
  BY DEF IsBlobMap, Forget

LEMMA CardStores ==
  ASSUME IsBlobMap(blobs), NEW u \in Uris, NEW x \in Contents, Card!Store(u, x) \/ Card!RefuseStore
  PROVE  IsBlobMap(blobs')
  BY DEF IsBlobMap, Card!Store, Card!RefuseStore

LEMMA CardRemoves ==
  ASSUME IsBlobMap(blobs), NEW u, Card!Remove(u)
  PROVE  IsBlobMap(blobs')
  BY DEF IsBlobMap, Card!Remove

LEMMA SeenAreUris ==
  ASSUME CardTypes, HostTypes
  PROVE  SeenUris \subseteq Uris /\ \A u \in SeenUris : Known(u)
  BY DEF SeenUris, Known, CardTypes, HostTypes, IsBlobMap

\* What an allocation reads, and the slot it settles on; without an answer to all it has
\* read, that slot is the first one.
LEMMA AllocateReads ==
  ASSUME CardTypes, HostTypes, NEW c, AllocateCredential(c)
  PROVE  /\ \E us \in SUBSET SeenUris : Reads(us)
         /\ op' = Idle \/ SlotFor(c)
         /\ op'.at \in {"idle", "takeOver", "setCredential"}
<1> PICK unread \in SUBSET (SeenUris \ DOMAIN cache) :
          /\ ReadAll(SeenUris \ unread)
          /\ SlotFor(c) \/ NoSlotFor(c, unread)
  BY DEF AllocateCredential
<1>1. Reads(SeenUris \ unread)
  BY SeenAreUris, ReadAllReads
<1>2. ASSUME NEW u \in {v \in Holders(1) \ unread : ~Live(v)},
             op' = [Idle EXCEPT !.at = "takeOver", !.cred = c, !.id = 1, !.uri = u]
      PROVE  SlotFor(c)
  <2>1. 1 \in FreeIds /\ u \in {v \in Holders(1) : ~Live(v)}
    BY <1>2, Bounds DEF FreeIds
  <2>2. \A j \in FreeIds : 1 <= j
    BY Bounds DEF FreeIds
  <2> QED BY <1>2, <2>1, <2>2 DEF SlotFor
<1>3. op' = Idle \/ SlotFor(c)
  BY <1>2 DEF NoSlotFor
<1>4. op'.at \in {"idle", "takeOver", "setCredential"}
  <2>1. CASE op' = Idle
    BY <2>1 DEF Idle
  <2>2. ASSUME NEW i, op' = [Idle EXCEPT !.at = "setCredential", !.cred = c, !.id = i]
        PROVE  op'.at = "setCredential"
    BY <2>2 DEF Idle
  <2>3. ASSUME NEW i, NEW u,
               op' = [Idle EXCEPT !.at = "takeOver", !.cred = c, !.id = i, !.uri = u]
        PROVE  op'.at = "takeOver"
    BY <2>3 DEF Idle
  <2> QED BY <1>3, <2>1, <2>2, <2>3 DEF SlotFor
<1> QED BY <1>1, <1>3, <1>4

\* A read that is answered caches the blob if there is one.
LEMMA GetBlobReads ==
  ASSUME HistTypes, NEW u, GetBlob(u)
  PROVE  /\ \E us \in SUBSET {u} : Reads(us)
         /\ lost' \in Nat
         /\ heard => (u \in DOMAIN cache' <=> Known(u))
<1>1. lost \in Nat /\ lost + 1 # lost
  BY DEF HistTypes
<1>2. CASE ReadAll({u} \cap (DOMAIN cache \cup DOMAIN blobs)) /\ UNCHANGED lost
  <2>1. Reads({u} \cap (DOMAIN cache \cup DOMAIN blobs))
    BY <1>2, ReadAllReads DEF Known
  <2> QED BY <1>1, <1>2, <2>1 DEF Reads, Known
<1>3. CASE lost' = lost + 1 /\ UNCHANGED cache
  <2>1. Reads({})
    BY <1>3 DEF Reads, BlobOf
  <2> QED BY <1>1, <1>3, <2>1 DEF heard
<1> QED BY <1>2, <1>3 DEF GetBlob

-----------------------------------------------------------------------------
(* Type correctness *)

LEMMA InitTypes == HostInit => TypeInv
<1> SUFFICES ASSUME HostInit PROVE TypeInv
  OBVIOUS
<1>1. OtherData \in Contents
  BY DEF Contents
<1>2. CardTypes
  BY <1>1, Bounds DEF HostInit, CardTypes, IsBlobMap, Card!Init
<1>3. HostTypes
  <2>1. op \in OpTypes
    BY Bounds DEF HostInit, OpTypes, Idle, Steps
  <2> QED BY <2>1 DEF HostInit, HostTypes, IsBlobMap
<1>4. HistTypes
  BY DEF HostInit, HistTypes
<1>5. OpInv
  BY DEF HostInit, OpInv, Idle
<1> QED BY <1>2, <1>3, <1>4, <1>5 DEF TypeInv

LEMMA AllocateTypes ==
  ASSUME TypeInv, NEW c \in Creds, AllocateCredential(c)
  PROVE  TypeInv'
<1>1. SeenUris \subseteq Uris /\ \A u \in SeenUris : Known(u)
  BY SeenAreUris DEF TypeInv
<1>2. IsBlobMap(cache') /\ DOMAIN cache \subseteq DOMAIN cache'
  BY AllocateReads, ReadMap DEF TypeInv, CardTypes, HostTypes
<1>3. /\ uris' \in SUBSET Uris /\ uris' \subseteq DOMAIN cache' \cup DOMAIN blobs'
      /\ loaded' \in BOOLEAN
  BY <1>1, <1>2 DEF AllocateCredential, Known
<1>4. CardTypes' /\ HistTypes'
  <2>1. NoData \in Contents /\ lost' \in Nat
    BY DEF Contents, AllocateCredential, TypeInv, HistTypes
  <2> QED BY <2>1 DEF TypeInv, CardTypes, HistTypes, AllocateCredential, Listed, IsBlobMap
<1> DEFINE Begun == /\ op' \in OpTypes
                    /\ op'.at \in {"idle", "takeOver", "setCredential"}
                    /\ op'.at # "idle" => op'.cred \in Creds /\ op'.part = 0 /\ op'.id # 0
                    /\ op'.at = "takeOver" => op'.uri \in Uris
<1>5. Begun
  <2>1. CASE op' = Idle
    BY <2>1, Bounds DEF Idle, OpTypes, Steps
  <2>2. ASSUME NEW i \in FreeIds, op' = [Idle EXCEPT !.at = "setCredential", !.cred = c, !.id = i]
        PROVE  Begun
    <3>1. op' = [at |-> "setCredential", cred |-> c, id |-> i, part |-> 0, uri |-> NoUri]
      BY <2>2 DEF Idle
    <3>2. i \in 1..255
      BY Bounds DEF FreeIds
    <3> QED BY <3>1, <3>2, Bounds DEF OpTypes, Steps
  <2>3. ASSUME NEW i \in FreeIds, NEW u \in Holders(i),
               op' = [Idle EXCEPT !.at = "takeOver", !.cred = c, !.id = i, !.uri = u]
        PROVE  Begun
    <3>1. op' = [at |-> "takeOver", cred |-> c, id |-> i, part |-> 0, uri |-> u]
      BY <2>3 DEF Idle
    <3>2. i \in 1..255
      BY Bounds DEF FreeIds
    <3>3. u \in Uris
      BY <1>1 DEF Holders
    <3> QED BY <3>1, <3>2, <3>3, Bounds DEF OpTypes, Steps
  <2>4. op' = Idle \/ SlotFor(c)
    BY AllocateReads DEF TypeInv
  <2> QED BY <2>1, <2>2, <2>3, <2>4 DEF SlotFor
<1>6. HostTypes'
  BY <1>2, <1>3, <1>5 DEF AllocateCredential, HostTypes
<1>7. OpInv'
  BY <1>5 DEF AllocateCredential, OpInv
<1> QED BY <1>4, <1>6, <1>7 DEF TypeInv

\* An allocation whose listing is lost.
LEMMA ListingLostTypes ==
  ASSUME TypeInv, ListingLost
  PROVE  TypeInv'
<1>1. NoData \in Contents /\ lost' \in Nat
  BY DEF Contents, ListingLost, TypeInv, HistTypes
<1>2. CardTypes' /\ HistTypes'
  BY <1>1 DEF ListingLost, TypeInv, CardTypes, HistTypes, IsBlobMap
<1>3. HostTypes' /\ OpInv'
  BY DEF ListingLost, TypeInv, HostTypes, OpInv, hostVars, IsBlobMap
<1> QED BY <1>2, <1>3 DEF TypeInv

\* Deleting a blob.
LEMMA DeleteTypes ==
  ASSUME TypeInv, NEW u, DeleteBlob(u)
  PROVE  /\ IsBlobMap(blobs') /\ IsBlobMap(cache')
         /\ uris' \in SUBSET Uris /\ uris' \subseteq DOMAIN cache' \cup DOMAIN blobs' /\ lost' \in Nat
         /\ heard => Card!Remove(u)
<1>1. /\ IsBlobMap(cache')
      /\ uris' \in SUBSET Uris /\ uris' \subseteq DOMAIN cache' \cup DOMAIN blobs'
  <2>1. DOMAIN blobs \ {u} \subseteq DOMAIN blobs'
    BY DEF DeleteBlob, Exchange, Card!Remove
  <2> QED BY <2>1, ForgetMap DEF TypeInv, HostTypes, DeleteBlob
<1>2. lost' \in Nat /\ (heard => Card!Remove(u))
  BY DEF TypeInv, HistTypes, DeleteBlob, Exchange, heard
<1>3. ASSUME Card!Remove(u) PROVE IsBlobMap(blobs')
  BY <1>3, CardRemoves DEF TypeInv, CardTypes
<1>4. ASSUME UNCHANGED <<blobs, answer>> PROVE IsBlobMap(blobs')
  BY <1>4 DEF TypeInv, CardTypes, IsBlobMap
<1> QED BY <1>1, <1>2, <1>3, <1>4 DEF DeleteBlob, Exchange

LEMMA ConfirmTypes ==
  ASSUME doubtful \in SUBSET (Creds \X (0..MaxParts + 1)), NEW u, NEW ok, Confirm(u, ok),
         u \in Uris \/ u \in Creds \X (0..MaxParts + 1)
  PROVE  doubtful' \in SUBSET (Creds \X (0..MaxParts + 1))
<1>1. Uris \subseteq Creds \X (0..MaxParts + 1)
  BY Bounds DEF Uris
<1> QED BY <1>1 DEF Confirm

LEMMA TakeOverTypes ==
  ASSUME TypeInv, TakeOver
  PROVE  TypeInv'
<1>1. DeleteBlob(op.uri) /\ Confirm(op.uri, heard)
  BY DEF TakeOver
<1>2. op.uri \in Uris /\ op.cred \in Creds /\ issued < MaxIssued /\ op.part = 0 /\ op.id # 0
  BY DEF TakeOver, TypeInv, OpInv
<1>3. CardTypes'
  BY <1>1, DeleteTypes DEF TakeOver, TypeInv, CardTypes
<1>4. op' \in OpTypes /\ op'.at = "setCredential" /\ op'.cred = op.cred /\ op'.part = op.part
      /\ op'.id = op.id
  BY DEF TakeOver, TypeInv, HostTypes, OpTypes, Steps
<1>5. HostTypes'
  BY <1>1, <1>4, DeleteTypes DEF TakeOver, TypeInv, HostTypes
<1>6. doubtful' \in SUBSET (Creds \X (0..MaxParts + 1))
  BY <1>1, <1>2, ConfirmTypes DEF TypeInv, HistTypes
<1>7. HistTypes'
  BY <1>1, <1>6, DeleteTypes DEF TakeOver, TypeInv, HistTypes
<1>8. OpInv'
  BY <1>2, <1>4 DEF TakeOver, OpInv
<1> QED BY <1>3, <1>5, <1>7, <1>8 DEF TypeInv

LEMMA SetCredentialTypes ==
  ASSUME TypeInv, SetCredential
  PROVE  TypeInv'
<1>1. issued \in 0..MaxIssued - 1 /\ op.cred \in Creds /\ op.id \in 1..255
  BY Bounds DEF SetCredential, TypeInv, OpInv, CardTypes, HostTypes, OpTypes
<1>2. DrawSecret \/ UNCHANGED <<secret, issued>>
  BY DEF SetCredential, Exchange
<1>3. CardTypes'
  <2>1. secret' \in [1..NumCreds -> 0..MaxIssued] /\ issued' \in 0..MaxIssued
    <3>1. issued + 1 \in 0..MaxIssued
      BY <1>1, Bounds
    <3> QED BY <1>2, <3>1 DEF DrawSecret, TypeInv, CardTypes
  <2> QED BY <2>1 DEF SetCredential, TypeInv, CardTypes, IsBlobMap
<1>4. lost' \in Nat /\ (heard /\ op.id <= NumCreds => DrawSecret)
  <2>1. op.id <= NumCreds => ~(op.id > NumCreds)
    BY <1>1, Bounds
  <2>2. lost \in Nat /\ (lost' = lost \/ lost' = lost + 1)
    BY DEF SetCredential, Exchange, TypeInv, HistTypes
  <2>3. lost' # lost + 1 =>
          DrawSecret \/ (op.id > NumCreds /\ UNCHANGED <<secret, issued>>)
    BY DEF SetCredential, Exchange
  <2> QED BY <2>1, <2>2, <2>3 DEF heard
<1>5. HistTypes'
  BY <1>4 DEF SetCredential, TypeInv, HistTypes
<1>6. CASE op' = Idle
  <2>1. HostTypes'
    BY <1>6, Bounds DEF Idle, SetCredential, TypeInv, HostTypes, OpTypes, Steps, IsBlobMap
  <2>2. OpInv'
    BY <1>6 DEF Idle, OpInv
  <2> QED BY <1>3, <1>5, <2>1, <2>2 DEF TypeInv
<1>7. CASE heard /\ op.id <= NumCreds /\ op' = [op EXCEPT !.at = "putData"]
  <2>1. op' \in OpTypes /\ op'.at = "putData" /\ op'.cred = op.cred /\ op'.id = op.id
        /\ op'.part = op.part
    BY <1>7 DEF TypeInv, HostTypes, OpTypes, Steps
  <2>2. HostTypes'
    BY <2>1 DEF SetCredential, TypeInv, HostTypes, IsBlobMap
  <2>3. op.id \in 1..NumCreds /\ secret'[op.id] # 0 /\ op.part = 0
    <3>1. op.id \in 1..NumCreds /\ issued' = issued + 1 /\ secret' = [secret EXCEPT ![op.id] = issued']
      BY <1>1, <1>4, <1>7, Bounds DEF DrawSecret
    <3>2. secret'[op.id] = issued + 1
      BY <3>1 DEF TypeInv, CardTypes
    <3>3. op.part = 0
      BY DEF TypeInv, OpInv, SetCredential
    <3> QED BY <1>1, <3>1, <3>2, <3>3
  <2>4. OpInv'
    BY <1>1, <2>1, <2>3 DEF OpInv
  <2> QED BY <1>3, <1>5, <2>2, <2>4 DEF TypeInv
<1> QED BY <1>6, <1>7 DEF SetCredential

LEMMA PutDataTypes ==
  ASSUME TypeInv, PutData
  PROVE  TypeInv'
<1>1. Content \in Contents /\ Target \in Uris
  BY ContentIsContent DEF TypeInv, PutData
<1>2. buffer' \in Contents /\ lost' \in Nat
  BY <1>1 DEF PutData, Exchange, TypeInv, CardTypes, HistTypes
<1>3. CardTypes'
  BY <1>2 DEF PutData, TypeInv, CardTypes, IsBlobMap
<1>4. /\ IsBlobMap(cache')
      /\ uris' \in SUBSET Uris /\ uris' \subseteq DOMAIN cache' \cup DOMAIN blobs'
  <2>1. IsBlobMap(cache')
    BY <1>1, ChangedMap DEF PutData, Put, TypeInv, HostTypes
  <2> QED BY <1>1, <2>1 DEF PutData, Put, Changed, TypeInv, HostTypes
<1>5. op' \in OpTypes /\ op' = [op EXCEPT !.at = "storeBlob"]
  BY DEF PutData, TypeInv, HostTypes, OpTypes, Steps
<1>6. HostTypes'
  BY <1>4, <1>5 DEF PutData, TypeInv, HostTypes
<1>7. doubtful' \in SUBSET (Creds \X (0..MaxParts + 1))
  <2>1. Uris \subseteq Creds \X (0..MaxParts + 1)
    BY Bounds DEF Uris
  <2> QED BY <1>1, <2>1 DEF PutData, TypeInv, HistTypes
<1>8. HistTypes'
  BY <1>2, <1>7 DEF PutData, TypeInv, HistTypes
<1>9. OpInv'
  <2>1. op'.at = "storeBlob" /\ op'.cred = op.cred /\ op'.id = op.id /\ op'.part = op.part
    BY <1>5 DEF TypeInv, HostTypes, OpTypes
  <2> QED BY <2>1 DEF PutData, TypeInv, OpInv
<1> QED BY <1>3, <1>6, <1>8, <1>9 DEF TypeInv

\* STORE_BLOB on the card.
LEMMA StoreTypes ==
  ASSUME TypeInv, StoreBlob
  PROVE  /\ IsBlobMap(blobs') /\ lost' \in Nat
         /\ Content \in Contents /\ Target \in Uris
         /\ stored => blobs' = Changed(blobs, Target, buffer)
         /\ blobs' \in {blobs, Changed(blobs, Target, buffer)}
         /\ DOMAIN blobs \subseteq DOMAIN blobs'
<1>1. Content \in Contents /\ Target \in Uris
  BY ContentIsContent DEF TypeInv, StoreBlob
<1>2. Card!Store(Target, buffer) =>
        blobs' = Changed(blobs, Target, buffer) /\ answer' = "done"
  BY DEF Card!Store, Changed
<1>3. Card!RefuseStore => blobs' = blobs /\ answer' = "full"
  BY DEF Card!RefuseStore
<1>4. lost' \in Nat /\ (heard => Card!Store(Target, buffer) \/ Card!RefuseStore)
  BY DEF TypeInv, HistTypes, StoreBlob, Exchange, heard
<1>5. blobs' \in {blobs, Changed(blobs, Target, buffer)}
  BY <1>2, <1>3 DEF StoreBlob, Exchange
<1>6. IsBlobMap(blobs')
  BY <1>1, <1>5, ChangedMap DEF TypeInv, CardTypes
<1>7. DOMAIN blobs \subseteq DOMAIN blobs'
  BY <1>5 DEF Changed
<1> QED BY <1>1, <1>2, <1>3, <1>4, <1>5, <1>6, <1>7 DEF stored

LEMMA StoreIdTypes ==
  ASSUME TypeInv, StoreId
  PROVE  TypeInv'
<1>1. StoreBlob /\ op.part = 0 /\ op.at = "storeBlob" /\ op' = Idle
  BY DEF StoreId, StoreBlob
<1>2. CardTypes'
  BY <1>1, StoreTypes DEF StoreId, TypeInv, CardTypes
<1>3. op.cred \in Creds /\ op.id \in 1..NumCreds /\ secret[op.id] \in 1..MaxIssued
  BY <1>1, Bounds DEF TypeInv, OpInv, CardTypes
<1>4. pending' \in Issues \cup {Nobody}
  BY <1>3 DEF StoreId, Issues
<1>5. HostTypes'
  <2>1. DOMAIN blobs \subseteq DOMAIN blobs'
    BY <1>1, StoreTypes
  <2> QED BY <1>1, <1>4, <2>1, Bounds
          DEF StoreId, TypeInv, HostTypes, Idle, OpTypes, Steps, IsBlobMap
<1>6. doubtful' \in SUBSET (Creds \X (0..MaxParts + 1))
  BY <1>1, StoreTypes, ConfirmTypes DEF StoreId, TypeInv, HistTypes
<1>7. HistTypes'
  BY <1>1, <1>6, StoreTypes DEF StoreId, TypeInv, HistTypes
<1>8. OpInv'
  BY <1>1 DEF Idle, OpInv
<1> QED BY <1>2, <1>5, <1>7, <1>8 DEF TypeInv

LEMMA StoreCredentialTypes ==
  ASSUME TypeInv, StoreCredential
  PROVE  TypeInv'
<1>1. pending \in Issues /\ pending # Nobody
  BY DEF StoreCredential, TypeInv, HostTypes
<1>2. pending.cred \in Creds /\ pending.shape.parts \in 1..MaxParts
  BY <1>1, HostAssumption DEF Issues
<1>3. OtherData \in Contents /\ NoData \in Contents
  BY DEF Contents
<1>4. CardTypes'
  BY <1>3 DEF StoreCredential, TypeInv, CardTypes, IsBlobMap
<1>5. op' = [at |-> "putData", cred |-> pending.cred, id |-> 0, part |-> 1, uri |-> NoUri]
  BY DEF StoreCredential, Idle
<1>6. HostTypes'
  <2>1. op' \in OpTypes
    BY <1>2, <1>5, Bounds DEF OpTypes, Steps
  <2> QED BY <2>1 DEF StoreCredential, TypeInv, HostTypes, IsBlobMap
<1>7. HistTypes'
  BY <1>2 DEF StoreCredential, TypeInv, HistTypes
<1>8. OpInv'
  BY <1>1, <1>2, <1>5, Bounds DEF StoreCredential, OpInv
<1> QED BY <1>4, <1>6, <1>7, <1>8 DEF TypeInv

LEMMA StorePieceTypes ==
  ASSUME TypeInv, StorePiece
  PROVE  TypeInv'
<1>1. StoreBlob /\ op.at = "storeBlob" /\ op.part > 0 /\ op \in OpTypes
  BY DEF StorePiece, StoreBlob, TypeInv, HostTypes
<1>2. /\ pending \in Issues /\ op.cred \in Creds /\ op.cred \in used /\ op.cred = pending.cred
      /\ op.part \in 1..pending.shape.parts /\ pending.shape.parts \in 1..MaxParts
  <2>1. pending \in Issues /\ op.part \in Nat
    BY <1>1, Bounds DEF TypeInv, OpInv, HostTypes, OpTypes
  <2>2. pending.shape.parts \in 1..MaxParts
    BY <2>1, HostAssumption DEF Issues
  <2> QED BY <1>1, <2>1, <2>2, Bounds DEF TypeInv, OpInv
<1>3. CardTypes'
  BY <1>1, StoreTypes DEF StorePiece, TypeInv, CardTypes
<1>4. pending' \in Issues \cup {Nobody}
  BY <1>2 DEF StorePiece
<1>5. DOMAIN kept' \subseteq used
  BY <1>2 DEF StorePiece, Changed, TypeInv, HistTypes
<1>6. doubtful' \in SUBSET (Creds \X (0..MaxParts + 1))
  BY <1>1, StoreTypes, ConfirmTypes DEF StorePiece, TypeInv, HistTypes
<1>7. HistTypes'
  BY <1>1, <1>5, <1>6, StoreTypes DEF StorePiece, TypeInv, HistTypes
<1>8. CASE op' = Idle
  <2>1. HostTypes'
    <3>1. DOMAIN blobs \subseteq DOMAIN blobs'
      BY <1>1, StoreTypes
    <3> QED BY <1>4, <1>8, <3>1, Bounds
            DEF StorePiece, TypeInv, HostTypes, Idle, OpTypes, Steps, IsBlobMap
  <2>2. OpInv'
    BY <1>8 DEF Idle, OpInv
  <2> QED BY <1>3, <1>7, <2>1, <2>2 DEF TypeInv
<1>9. CASE /\ stored /\ op.part # pending.shape.parts
           /\ op' = [op EXCEPT !.at = "putData", !.part = op.part + 1]
  <2>1. op.part + 1 \in 1..pending.shape.parts /\ op.part + 1 \in 0..MaxParts + 1
    BY <1>2, <1>9, Bounds
  <2>2. /\ op' \in OpTypes /\ op'.at = "putData" /\ op'.cred = op.cred
        /\ op'.part = op.part + 1
    BY <1>1, <1>9, <2>1 DEF OpTypes, Steps
  <2>3. pending' = pending /\ used' = used
    BY <1>9 DEF StorePiece
  <2>4. HostTypes'
    <3>1. DOMAIN blobs \subseteq DOMAIN blobs'
      BY <1>1, StoreTypes
    <3> QED BY <2>2, <2>3, <3>1 DEF StorePiece, TypeInv, HostTypes, IsBlobMap
  <2>5. OpInv'
    BY <1>1, <1>2, <2>1, <2>2, <2>3 DEF TypeInv, OpInv
  <2> QED BY <1>3, <1>7, <2>4, <2>5 DEF TypeInv
<1> QED BY <1>8, <1>9 DEF StorePiece

LEMMA GetCredentialTypes ==
  ASSUME TypeInv, NEW c \in Creds, GetCredential(c)
  PROVE  TypeInv'
<1>1. op' = [at |-> "getBlob", cred |-> c, id |-> 0, part |-> 1, uri |-> NoUri]
  BY DEF GetCredential, Idle
<1>2. op' \in OpTypes
  BY <1>1, Bounds DEF OpTypes, Steps
<1>3. CardTypes' /\ HistTypes'
  BY DEF GetCredential, TypeInv, CardTypes, HistTypes, cardVars, hostHist, IsBlobMap
<1>4. HostTypes'
  BY <1>2 DEF GetCredential, TypeInv, HostTypes, cardVars, IsBlobMap
<1>5. OpInv'
  BY <1>1 DEF OpInv
<1> QED BY <1>3, <1>4, <1>5 DEF TypeInv

LEMMA ReadPieceTypes ==
  ASSUME TypeInv, ReadPiece
  PROVE  TypeInv'
<1>1. op \in OpTypes /\ op.at = "getBlob" /\ op.cred \in Creds /\ op.part # 0
  BY DEF ReadPiece, TypeInv, OpInv, HostTypes
<1>2. GetBlob(Target)
  BY DEF ReadPiece
<1>3. IsBlobMap(cache') /\ DOMAIN cache \subseteq DOMAIN cache' /\ lost' \in Nat
  BY <1>2, GetBlobReads, ReadMap DEF TypeInv, CardTypes, HostTypes
<1>4. CardTypes' /\ HistTypes'
  BY <1>3 DEF ReadPiece, TypeInv, CardTypes, HistTypes, cardVars, IsBlobMap
<1>5. op' \in OpTypes /\ (op' = Idle \/ (op'.at = "getBlob" /\ op'.cred \in Creds /\ op'.part # 0))
  <2>1. CASE op' = Idle
    BY <2>1, Bounds DEF Idle, OpTypes, Steps
  <2>2. CASE Target \in DOMAIN cache' /\ op' = [op EXCEPT !.part = @ + 1]
    <3>1. op.part \in 0..MaxParts
      BY <1>3, <2>2 DEF IsBlobMap, Uris, Target
    <3>2. op.part + 1 \in 0..MaxParts + 1 /\ op.part + 1 # 0
      BY <3>1, Bounds
    <3> QED BY <1>1, <2>2, <3>2 DEF OpTypes
  <2> QED BY <2>1, <2>2 DEF ReadPiece
<1>6. HostTypes'
  BY <1>3, <1>5 DEF ReadPiece, TypeInv, HostTypes, cardVars
<1>7. OpInv'
  BY <1>5 DEF OpInv, Idle
<1> QED BY <1>4, <1>6, <1>7 DEF TypeInv

LEMMA DeleteCredentialTypes ==
  ASSUME TypeInv, NEW c \in Creds, DeleteCredential(c)
  PROVE  TypeInv'
<1> DEFINE u == <<c, 0>>
<1>1. Known(u) /\ Reads({u})
  BY ReadAllReads DEF DeleteCredential
<1>2. IsBlobMap(cache') /\ DOMAIN cache \subseteq DOMAIN cache'
  BY <1>1, ReadMap DEF TypeInv, CardTypes, HostTypes
<1>3. BlobOf(u) \in Contents
  BY <1>1 DEF Known, BlobOf, TypeInv, CardTypes, HostTypes, IsBlobMap
<1>4. BlobOf(u).value \in 0..255
  BY <1>3, ContentValue
<1>5. op' = [at |-> "removeId", cred |-> c, id |-> BlobOf(u).value, part |-> 0, uri |-> NoUri]
  BY DEF DeleteCredential, Idle
<1>6. op' \in OpTypes
  BY <1>4, <1>5, Bounds DEF OpTypes, Steps
<1>7. CardTypes' /\ HistTypes'
  BY DEF DeleteCredential, TypeInv, CardTypes, HistTypes, cardVars, IsBlobMap
<1>8. HostTypes'
  BY <1>2, <1>6 DEF DeleteCredential, TypeInv, HostTypes, cardVars
<1>9. OpInv'
  BY <1>5 DEF OpInv
<1> QED BY <1>7, <1>8, <1>9 DEF TypeInv

LEMMA RemoveIdTypes ==
  ASSUME TypeInv, RemoveId
  PROVE  TypeInv'
<1> DEFINE u == <<op.cred, 0>>
<1>1. DeleteBlob(u) /\ Confirm(u, heard)
  BY DEF RemoveId
<1>2. op.cred \in Creds /\ u \in Creds \X (0..MaxParts + 1) /\ op \in OpTypes
  BY Bounds DEF RemoveId, TypeInv, OpInv, HostTypes
<1>3. CardTypes'
  BY <1>1, DeleteTypes DEF RemoveId, TypeInv, CardTypes
<1>4. op' \in OpTypes /\ op'.at = "removePiece" /\ op'.cred = op.cred
  <2>1. 1 \in 0..MaxParts + 1
    BY Bounds
  <2>2. op' = [op EXCEPT !.at = "removePiece", !.part = 1]
    BY DEF RemoveId
  <2> QED BY <1>2, <2>1, <2>2 DEF OpTypes, Steps
<1>5. HostTypes'
  BY <1>1, <1>4, DeleteTypes DEF RemoveId, TypeInv, HostTypes
<1>6. doubtful' \in SUBSET (Creds \X (0..MaxParts + 1))
  BY <1>1, <1>2, ConfirmTypes DEF TypeInv, HistTypes
<1>7. HistTypes'
  BY <1>1, <1>6, DeleteTypes DEF RemoveId, TypeInv, HistTypes
<1>8. OpInv'
  BY <1>2, <1>4 DEF OpInv
<1> QED BY <1>3, <1>5, <1>7, <1>8 DEF TypeInv

LEMMA RemovePieceTypes ==
  ASSUME TypeInv, RemovePiece
  PROVE  TypeInv'
<1> DEFINE u == <<op.cred, op.part>>
<1>1. DeleteBlob(u) /\ Confirm(u, heard)
  BY DEF RemovePiece
<1>2. op.cred \in Creds /\ op \in OpTypes /\ u \in Creds \X (0..MaxParts + 1)
  BY DEF RemovePiece, TypeInv, OpInv, HostTypes, OpTypes
<1>3. CardTypes'
  BY <1>1, DeleteTypes DEF RemovePiece, TypeInv, CardTypes
<1>4. op' \in OpTypes /\ op'.at \in {"removePiece", "removeCredential"} /\ op'.cred = op.cred
  <2>1. CASE heard /\ answer' = "done" /\ op' = [op EXCEPT !.part = op.part + 1]
    <3>1. u \in DOMAIN blobs
      BY <1>1, <2>1, DeleteTypes DEF Card!Remove
    <3>2. op.part \in 0..MaxParts
      BY <3>1 DEF TypeInv, CardTypes, IsBlobMap, Uris
    <3>3. op.part + 1 \in 0..MaxParts + 1
      BY <3>2, Bounds
    <3> QED BY <1>2, <2>1, <3>3 DEF RemovePiece, OpTypes
  <2>2. CASE op' = [op EXCEPT !.at = "removeCredential"]
    BY <1>2, <2>2 DEF OpTypes, Steps
  <2> QED BY <2>1, <2>2 DEF RemovePiece
<1>5. HostTypes'
  BY <1>1, <1>4, DeleteTypes DEF RemovePiece, TypeInv, HostTypes
<1>6. doubtful' \in SUBSET (Creds \X (0..MaxParts + 1))
  BY <1>1, <1>2, ConfirmTypes DEF TypeInv, HistTypes
<1>7. HistTypes'
  BY <1>1, <1>6, DeleteTypes DEF RemovePiece, TypeInv, HistTypes
<1>8. OpInv'
  BY <1>2, <1>4 DEF OpInv
<1> QED BY <1>3, <1>5, <1>7, <1>8 DEF TypeInv

LEMMA RemoveCredentialTypes ==
  ASSUME TypeInv, RemoveCredential
  PROVE  TypeInv'
<1>1. secret' \in [1..NumCreds -> 0..MaxIssued] /\ lost' \in Nat
  BY Bounds DEF RemoveCredential, Exchange, TypeInv, CardTypes, HistTypes
<1>2. CardTypes'
  BY <1>1 DEF RemoveCredential, TypeInv, CardTypes, IsBlobMap
<1>3. HostTypes'
  BY Bounds DEF RemoveCredential, TypeInv, HostTypes, Idle, OpTypes, Steps, IsBlobMap
<1>4. HistTypes'
  BY <1>1 DEF RemoveCredential, TypeInv, HistTypes
<1>5. OpInv'
  BY DEF RemoveCredential, Idle, OpInv
<1> QED BY <1>2, <1>3, <1>4, <1>5 DEF TypeInv

LEMMA RestartTypes ==
  ASSUME TypeInv, HostRestart
  PROVE  TypeInv'
<1>1. CardTypes'
  BY DEF HostRestart, TypeInv, CardTypes, cardVars, IsBlobMap
<1>2. HostTypes'
  <2>1. op' \in OpTypes
    BY Bounds DEF HostRestart, Idle, OpTypes, Steps
  <2> QED BY <2>1 DEF HostRestart, HostTypes, IsBlobMap
<1>3. HistTypes'
  BY DEF HostRestart, TypeInv, HistTypes
<1>4. OpInv'
  BY DEF HostRestart, Idle, OpInv
<1> QED BY <1>1, <1>2, <1>3, <1>4 DEF TypeInv

LEMMA StepTypes == TypeInv /\ [HostNext]_credVars => TypeInv'
<1> SUFFICES ASSUME TypeInv, [HostNext]_credVars PROVE TypeInv'
  OBVIOUS
<1>1. CASE UNCHANGED credVars
  BY <1>1 DEF credVars, cardVars, hostVars, hostHist, TypeInv, CardTypes, HostTypes, HistTypes,
              OpInv, IsBlobMap
<1> QED BY <1>1, AllocateTypes, ListingLostTypes, TakeOverTypes, SetCredentialTypes, PutDataTypes,
           StoreIdTypes, StoreCredentialTypes, StorePieceTypes, GetCredentialTypes, ReadPieceTypes,
           DeleteCredentialTypes, RemoveIdTypes, RemovePieceTypes, RemoveCredentialTypes,
           RestartTypes DEF HostNext

LEMMA TypeInvImplies == TypeInv => HostTypeOK
<1> SUFFICES ASSUME TypeInv PROVE HostTypeOK
  OBVIOUS
<1>1. /\ DOMAIN blobs \subseteq Uris /\ \A u \in DOMAIN blobs : blobs[u] \in Contents
      /\ DOMAIN cache \subseteq Uris /\ \A u \in DOMAIN cache : cache[u] \in Contents
  BY DEF TypeInv, CardTypes, HostTypes, IsBlobMap
<1>2. pending.cred \in Creds \cup {NoCred}
  BY DEF TypeInv, HostTypes, Issues, Nobody
<1> QED BY <1>1, <1>2 DEF HostTypeOK, TypeInv, CardTypes, HostTypes, HistTypes, OpTypes

(* Every variable of the driver and of the card's tables is what its           *)
(* declaration says it is: a slot the card serves is in its table, and whatever *)
(* is cached is a blob the host can store.                                      *)
THEOREM HostTypeCorrect == HostSpec => []HostTypeOK
<1>1. HostSpec => []TypeInv
  BY InitTypes, StepTypes, PTL DEF HostSpec
<1> QED BY <1>1, TypeInvImplies, PTL

-----------------------------------------------------------------------------
(* The caches *)

CacheInv == StoringInv /\ CacheFollowsCard

LEMMA InitCaches == HostInit => CacheInv
  BY DEF HostInit, CacheInv, StoringInv, CacheFollowsCard, Idle

\* Reading: what is not cached comes from the card.
LEMMA ReadCaches ==
  ASSUME CacheFollowsCard, NEW us, Reads(us), UNCHANGED <<blobs, doubtful>>
  PROVE  \A u \in DOMAIN cache' \ doubtful' : u \in DOMAIN blobs' /\ blobs'[u] = cache'[u]
  BY DEF CacheFollowsCard, Reads, Known, BlobOf

\* Deleting: the blob is in none of the three, or in doubt.
LEMMA DeleteCaches ==
  ASSUME TypeInv, CacheFollowsCard, NEW u, DeleteBlob(u), Confirm(u, heard), UNCHANGED loaded
  PROVE  CacheFollowsCard'
<1>1. CASE Card!Remove(u)
  <2>1. /\ DOMAIN blobs' = DOMAIN blobs \ {u}
        /\ \A v \in DOMAIN blobs \ {u} : blobs'[v] = blobs[v]
    BY <1>1 DEF Card!Remove
  <2>2. /\ DOMAIN cache' = DOMAIN cache \ {u} /\ uris' = uris \ {u}
        /\ \A v \in DOMAIN cache \ {u} : cache'[v] = cache[v]
    BY DEF DeleteBlob, Forget
  <2>3. doubtful' \in {doubtful \ {u}, doubtful \cup {u}}
    BY DEF Confirm
  <2> QED BY <2>1, <2>2, <2>3 DEF CacheFollowsCard
<1>2. CASE UNCHANGED blobs /\ ~heard
  BY <1>2 DEF DeleteBlob, Forget, Confirm, CacheFollowsCard
<1>3. lost + 1 # lost
  BY DEF TypeInv, HistTypes
<1> QED BY <1>1, <1>2, <1>3 DEF DeleteBlob, Exchange, heard

\* Storing: the card has what the cache has, or the blob is in doubt.
LEMMA StoreCaches ==
  ASSUME TypeInv, CacheInv, StoreBlob, Confirm(Target, stored /\ buffer = Content),
         UNCHANGED <<cache, uris, loaded>>
  PROVE  CacheFollowsCard'
<1>1. Target \in DOMAIN cache /\ cache[Target] = Content /\ Target \in uris
  BY DEF CacheInv, StoringInv, StoreBlob
<1>2. CASE stored /\ buffer = Content
  <2>1. blobs' = Changed(blobs, Target, Content) /\ doubtful' = doubtful \ {Target}
    BY <1>2, StoreTypes DEF Confirm
  <2>2. /\ DOMAIN blobs' = DOMAIN blobs \cup {Target} /\ blobs'[Target] = Content
        /\ \A v \in DOMAIN blobs \ {Target} : blobs'[v] = blobs[v]
    BY <2>1 DEF Changed
  <2> QED BY <1>1, <2>1, <2>2 DEF CacheInv, CacheFollowsCard
<1>3. CASE ~(stored /\ buffer = Content)
  <2>1. doubtful' = doubtful \cup {Target}
    BY <1>3 DEF Confirm
  <2>2. blobs' \in {blobs, Changed(blobs, Target, buffer)}
    BY StoreTypes
  <2>3. /\ DOMAIN blobs' \ {Target} = DOMAIN blobs \ {Target}
        /\ \A v \in DOMAIN blobs \ {Target} : blobs'[v] = blobs[v]
    BY <2>2 DEF Changed
  <2> QED BY <2>1, <2>3 DEF CacheInv, CacheFollowsCard
<1> QED BY <1>2, <1>3

LEMMA StepCaches == TypeInv /\ CacheInv /\ [HostNext]_credVars => CacheInv'
<1> SUFFICES ASSUME TypeInv, CacheInv, [HostNext]_credVars PROVE CacheInv'
  OBVIOUS
<1> op \in OpTypes /\ CacheFollowsCard
  BY DEF TypeInv, HostTypes, CacheInv
<1>1. ASSUME NEW c \in Creds, AllocateCredential(c) PROVE CacheInv'
  <2>1. \A u \in DOMAIN cache' \ doubtful' : u \in DOMAIN blobs' /\ blobs'[u] = cache'[u]
    BY <1>1, AllocateReads, ReadCaches DEF AllocateCredential, TypeInv
  <2>2. uris' \ doubtful' = DOMAIN blobs' \ doubtful'
    BY <1>1 DEF AllocateCredential, SeenUris, CacheFollowsCard
  <2>3. op'.at # "storeBlob"
    BY <1>1, AllocateReads DEF TypeInv
  <2> QED BY <2>1, <2>2, <2>3 DEF CacheInv, StoringInv, CacheFollowsCard
<1>2. CASE TakeOver
  <2>1. CacheFollowsCard'
    BY <1>2, DeleteCaches DEF TakeOver
  <2>2. op'.at # "storeBlob"
    BY <1>2 DEF TakeOver, OpTypes
  <2> QED BY <2>1, <2>2 DEF CacheInv, StoringInv
<1>3. CASE SetCredential
  <2>1. op'.at # "storeBlob"
    BY <1>3 DEF SetCredential, OpTypes, Idle
  <2> QED BY <1>3, <2>1 DEF SetCredential, CacheInv, StoringInv, CacheFollowsCard
<1>4. CASE PutData
  <2>1. /\ DOMAIN cache' = DOMAIN cache \cup {Target} /\ cache'[Target] = Content
        /\ \A v \in DOMAIN cache \ {Target} : cache'[v] = cache[v]
        /\ uris' = uris \cup {Target}
    BY <1>4 DEF PutData, Put, Changed
  <2>2. doubtful' = doubtful \cup {Target} /\ UNCHANGED <<blobs, loaded, pending>>
    BY <1>4 DEF PutData
  <2>3. CacheFollowsCard'
    BY <2>1, <2>2 DEF CacheFollowsCard
  <2>4. op'.cred = op.cred /\ op'.part = op.part /\ op'.id = op.id
    BY <1>4 DEF PutData, OpTypes
  <2>5. Target' = Target /\ Content' = Content
    BY <2>2, <2>4 DEF Target, Content
  <2> QED BY <2>1, <2>3, <2>5 DEF CacheInv, StoringInv
<1>5. CASE StoreId
  <2>1. CacheFollowsCard'
    BY <1>5, StoreCaches DEF StoreId
  <2> QED BY <1>5, <2>1 DEF StoreId, CacheInv, StoringInv, Idle
<1>6. CASE StoreCredential
  BY <1>6 DEF StoreCredential, CacheInv, StoringInv, CacheFollowsCard, Idle
<1>7. CASE StorePiece
  <2>1. CacheFollowsCard'
    BY <1>7, StoreCaches DEF StorePiece
  <2>2. op'.at # "storeBlob"
    BY <1>7 DEF StorePiece, OpTypes, Idle
  <2> QED BY <2>1, <2>2 DEF CacheInv, StoringInv
<1>8. ASSUME NEW c \in Creds, GetCredential(c) PROVE CacheInv'
  BY <1>8 DEF GetCredential, CacheInv, StoringInv, CacheFollowsCard, cardVars, hostHist, Idle
<1>9. ASSUME NEW c \in Creds, DeleteCredential(c) PROVE CacheInv'
  <2>1. \A u \in DOMAIN cache' \ doubtful' : u \in DOMAIN blobs' /\ blobs'[u] = cache'[u]
    BY <1>9, ReadAllReads, ReadCaches DEF DeleteCredential, cardVars
  <2>2. op'.at # "storeBlob"
    BY <1>9 DEF DeleteCredential, Idle
  <2> QED BY <1>9, <2>1, <2>2 DEF DeleteCredential, CacheInv, StoringInv, CacheFollowsCard, cardVars
<1>10. CASE RemoveId
  <2>1. CacheFollowsCard'
    BY <1>10, DeleteCaches DEF RemoveId
  <2>2. op'.at # "storeBlob"
    BY <1>10 DEF RemoveId, OpTypes
  <2> QED BY <2>1, <2>2 DEF CacheInv, StoringInv
<1>11. CASE RemovePiece
  <2>1. CacheFollowsCard'
    BY <1>11, DeleteCaches DEF RemovePiece
  <2>2. op'.at # "storeBlob"
    BY <1>11 DEF RemovePiece, OpTypes
  <2> QED BY <2>1, <2>2 DEF CacheInv, StoringInv
<1>12. CASE RemoveCredential
  BY <1>12 DEF RemoveCredential, CacheInv, StoringInv, CacheFollowsCard, Idle
<1>13. CASE HostRestart
  BY <1>13 DEF HostRestart, CacheInv, StoringInv, CacheFollowsCard, Idle
<1>14. CASE UNCHANGED credVars
  BY <1>14 DEF credVars, cardVars, hostVars, hostHist, CacheInv, StoringInv, CacheFollowsCard,
               Target, Content
<1>15. CASE ListingLost
  BY <1>15 DEF ListingLost, CacheInv, StoringInv, CacheFollowsCard, hostVars, Idle
<1>16. CASE ReadPiece
  <2>1. \A u \in DOMAIN cache' \ doubtful' : u \in DOMAIN blobs' /\ blobs'[u] = cache'[u]
    BY <1>16, GetBlobReads, ReadCaches DEF ReadPiece, cardVars, TypeInv
  <2>2. op'.at # "storeBlob"
    BY <1>16 DEF ReadPiece, OpTypes, Idle
  <2> QED BY <1>16, <2>1, <2>2 DEF ReadPiece, CacheInv, StoringInv, CacheFollowsCard, cardVars
<1> QED BY <1>1, <1>2, <1>3, <1>4, <1>5, <1>6, <1>7, <1>8, <1>9, <1>10, <1>11, <1>12, <1>13, <1>14,
           <1>15, <1>16 DEF HostNext

(* The caches of the driver and the blobs of the card differ at most on the URIs *)
(* whose last store or deletion the card did not confirm or is under way, for    *)
(* any number of lost exchanges and restarts of the host.                        *)
THEOREM CachesAgree == HostSpec => []CacheFollowsCard
<1>1. CacheInv => CacheFollowsCard
  BY DEF CacheInv
<1> QED BY <1>1, InitTypes, StepTypes, InitCaches, StepCaches, PTL DEF HostSpec

-----------------------------------------------------------------------------
(* Deletion                                                                  *)
(*                                                                           *)
(* As long as no failure is overlooked: whatever there is of a credential    *)
(* belongs to one issuance, since storing begins once; so the blob that an   *)
(* allocation takes for an ID without credential is one, or the last piece,  *)
(* and the pieces of a credential that has its ID are there without gaps.    *)
(* A deletion, which ends at the first piece the card does not have, has     *)
(* then met them all.                                                        *)

\* STORE_BLOB stores what PUT_DATA has left in the buffer.
BufferReady == op.at = "storeBlob" => buffer = Content

\* Of a credential whose storing has not begun there is no piece.
UnusedInv == \A c \in Creds \ used, k \in 1..MaxParts : <<c, k>> \notin DOMAIN blobs \cup DOMAIN cache

IdsInPlace == \A c \in Creds :
  /\ <<c, 0>> \in DOMAIN blobs => blobs[<<c, 0>>] \in IdBlobs
  /\ <<c, 0>> \in DOMAIN cache => cache[<<c, 0>>] \in IdBlobs

\* Whatever there is of c is a piece of x, on the card and in the cache.
PiecesOf(c, x) == \A k \in 1..MaxParts :
  /\ <<c, k>> \in DOMAIN blobs => k <= x.shape.parts /\ blobs[<<c, k>>] = Piece(x, k)
  /\ <<c, k>> \in DOMAIN cache => k <= x.shape.parts /\ cache[<<c, k>>] = Piece(x, k)
OneIssue ==
  /\ \A c \in Creds : \E x \in Issues \cup {Nobody} : PiecesOf(c, x)
  /\ pending # Nobody => PiecesOf(pending.cred, pending)

\* An operation that allocates, one that deletes.
Allocating == op.at \in {"takeOver", "setCredential"}
              \/ (op.at \in {"putData", "storeBlob"} /\ op.part = 0)
Deleting   == op.at \in {"removeId", "removePiece", "removeCredential"}

\* What an operation relies on between its exchanges: a piece that is taken for an ID is the
\* last one, and the pieces before the one that is stored are stored.
HandInv ==
  /\ Allocating => op.cred \notin used
  /\ op.at = "takeOver" /\ op.uri[2] # 0 =>
       \A k \in op.uri[2] + 1..MaxParts : <<op.uri[1], k>> \notin DOMAIN blobs
  /\ op.at \in {"putData", "storeBlob"} =>
       \A k \in 1..op.part - 1 : <<op.cred, k>> \in DOMAIN blobs
  /\ Deleting => op.id \in 1..NumCreds

\* From the first piece to the last of those that are there.
FromOn(c, first) == \A k \in first..MaxParts : <<c, k>> \in DOMAIN blobs =>
                      \A j \in first..k : <<c, j>> \in DOMAIN blobs
GapInv ==
  /\ \A c \in Creds : <<c, 0>> \in DOMAIN blobs \cup DOMAIN cache => FromOn(c, 1)
  /\ op.at = "removeId" => FromOn(op.cred, 1)
  /\ op.at = "removePiece" => /\ op.part # 0 /\ FromOn(op.cred, op.part)
                              /\ <<op.cred, 0>> \notin DOMAIN cache
                              /\ \A k \in 0..op.part - 1 : <<op.cred, k>> \notin DOMAIN blobs
  /\ op.at = "removeCredential" => \/ \A k \in 0..MaxParts : <<op.cred, k>> \notin DOMAIN blobs
                                   \/ \E u \in doubtful : u[1] = op.cred

ContentInv  == UnusedInv /\ IdsInPlace /\ OneIssue
WholeInv    == BufferReady /\ ContentInv /\ HandInv /\ GapInv
DeletionInv == ~overlooked => WholeInv

\* What a deletion does, whatever the host hears of it.
LEMMA DeleteEffect ==
  ASSUME TypeInv, NEW u, DeleteBlob(u)
  PROVE  /\ DOMAIN blobs \ {u} \subseteq DOMAIN blobs' /\ DOMAIN blobs' \subseteq DOMAIN blobs
         /\ \A v \in DOMAIN blobs' : blobs'[v] = blobs[v]
         /\ DOMAIN cache' = DOMAIN cache \ {u} /\ \A v \in DOMAIN cache' : cache'[v] = cache[v]
         /\ uris' = uris \ {u}
         /\ heard => u \notin DOMAIN blobs' /\ (answer' = "done" <=> u \in DOMAIN blobs)
         /\ ~overlooked' => ~overlooked /\ (u[2] = 0 => u \notin DOMAIN blobs')
<1>1. Card!Remove(u) => /\ DOMAIN blobs' = DOMAIN blobs \ {u}
                        /\ \A v \in DOMAIN blobs \ {u} : blobs'[v] = blobs[v]
                        /\ answer' = "done" <=> u \in DOMAIN blobs
  BY DEF Card!Remove
<1>2. /\ DOMAIN cache' = DOMAIN cache \ {u} /\ \A v \in DOMAIN cache' : cache'[v] = cache[v]
      /\ uris' = uris \ {u}
  BY DEF DeleteBlob, Forget
<1>3. Card!Remove(u) \/ UNCHANGED <<blobs, answer>>
  BY DEF DeleteBlob, Exchange
<1>4. heard => Card!Remove(u)
  BY DeleteTypes
<1>5. ~overlooked' => ~overlooked /\ (u[2] = 0 => u \notin DOMAIN blobs')
  BY DEF DeleteBlob
<1> QED BY <1>1, <1>2, <1>3, <1>4, <1>5

\* The fields an operation keeps from one exchange to the next.
LEMMA OpStep ==
  ASSUME op \in OpTypes, NEW s, NEW n,
         op' = [op EXCEPT !.at = s] \/ op' = [op EXCEPT !.at = s, !.part = n]
                                    \/ op' = [op EXCEPT !.at = s, !.uri = NoUri]
  PROVE  op'.at = s /\ op'.cred = op.cred /\ op'.id = op.id
  BY DEF OpTypes

\* What is overlooked stays overlooked.
LEMMA OverlookedStays == [HostNext]_credVars /\ ~overlooked' => ~overlooked
  BY DEF HostNext, credVars, hostHist, AllocateCredential, GetCredential, DeleteCredential, TakeOver,
         SetCredential, StoreId, StoreCredential, PutData, StorePiece, RemoveId, RemovePiece,
         RemoveCredential, HostRestart, DeleteBlob, ListingLost, ReadPiece

\* Steps that store nothing: the cache is read and forgotten, and blobs are deleted.
LEMMA ContentStays ==
  ASSUME ContentInv,
         DOMAIN blobs' \subseteq DOMAIN blobs, \A v \in DOMAIN blobs' : blobs'[v] = blobs[v],
         \A v \in DOMAIN cache' : \/ v \in DOMAIN cache /\ cache'[v] = cache[v]
                                  \/ v \in DOMAIN blobs /\ cache'[v] = blobs[v],
         used \subseteq used', pending' \in {pending, Nobody}
  PROVE  ContentInv'
<1>1. \A c, x : PiecesOf(c, x) => PiecesOf(c, x)'
  BY DEF PiecesOf
<1>2. UnusedInv'
  BY DEF ContentInv, UnusedInv
<1>3. IdsInPlace'
  BY DEF ContentInv, IdsInPlace
<1>4. OneIssue'
  <2>1. \A c \in Creds : \E x \in Issues \cup {Nobody} : PiecesOf(c, x)'
    BY <1>1 DEF ContentInv, OneIssue
  <2>2. pending' # Nobody => pending' = pending /\ PiecesOf(pending.cred, pending)'
    BY <1>1 DEF ContentInv, OneIssue
  <2> QED BY <2>1, <2>2 DEF OneIssue, Issues, Nobody
<1> QED BY <1>2, <1>3, <1>4 DEF ContentInv

\* Reading fills the cache with what the card has.
LEMMA ReadWhole ==
  ASSUME ContentInv, GapInv, NEW us, Reads(us),
         UNCHANGED <<blobs, used>>, pending' \in {pending, Nobody}
  PROVE  /\ ContentInv'
         /\ \A c \in Creds : <<c, 0>> \in DOMAIN blobs' \cup DOMAIN cache' => FromOn(c, 1)'
<1>1. \A v \in DOMAIN cache' : \/ v \in DOMAIN cache /\ cache'[v] = cache[v]
                               \/ v \in DOMAIN blobs /\ cache'[v] = blobs[v]
  BY DEF Reads, Known, BlobOf
<1>2. ContentInv'
  BY <1>1, ContentStays
<1>3. \A c : FromOn(c, 1) => FromOn(c, 1)'
  BY DEF FromOn
<1> QED BY <1>1, <1>2, <1>3 DEF GapInv

\* A blob that could be the ID blob of a slot is one, or the last piece of its credential.
LEMMA ByteIsLast ==
  ASSUME TypeInv, OneIssue, NEW u \in SeenUris, Seen[u].size = "byte", u[2] # 0
  PROVE  \A k \in u[2] + 1..MaxParts : <<u[1], k>> \notin DOMAIN blobs
<1>1. PICK c \in Creds, n \in 0..MaxParts : u = <<c, n>>
  BY SeenAreUris DEF TypeInv, Uris
<1>2. n \in 1..MaxParts /\ MaxParts \in Nat
  BY <1>1, Bounds
<1>3. PICK x \in Issues \cup {Nobody} : PiecesOf(c, x)
  BY DEF OneIssue
<1>4. BlobOf(u) = Piece(x, n)
  <2>1. u \in DOMAIN cache \cup DOMAIN blobs
    BY SeenAreUris DEF TypeInv, Known
  <2> QED BY <1>1, <1>2, <1>3, <2>1 DEF PiecesOf, BlobOf
<1>5. n = x.shape.parts
  <2>1. Piece(x, n).size = "byte"
    BY <1>4 DEF Seen
  <2>2. n # x.shape.parts => Piece(x, n).size = "full"
    BY DEF Piece
  <2> QED BY <2>1, <2>2
<1> SUFFICES ASSUME NEW k \in n + 1..MaxParts, <<c, k>> \in DOMAIN blobs
             PROVE  FALSE
  BY <1>1
<1>6. k \in 1..MaxParts /\ ~(k <= n)
  BY <1>2
<1> QED BY <1>3, <1>5, <1>6 DEF PiecesOf

LEMMA AllocateWhole ==
  ASSUME TypeInv, WholeInv, NEW c \in Creds, AllocateCredential(c)
  PROVE  WholeInv'
<1>1. op' = Idle \/ SlotFor(c)
  BY AllocateReads DEF TypeInv
<1>2. UNCHANGED <<blobs, used>> /\ pending' = Nobody /\ c \notin used
  BY DEF AllocateCredential
<1>3. /\ ContentInv'
      /\ \A d \in Creds : <<d, 0>> \in DOMAIN blobs' \cup DOMAIN cache' => FromOn(d, 1)'
  BY <1>2, AllocateReads, ReadWhole DEF WholeInv, TypeInv
<1>4. \/ op'.at = "idle"
      \/ op'.at = "setCredential" /\ op'.cred = c
      \/ /\ op'.at = "takeOver" /\ op'.cred = c
         /\ op'.uri[2] # 0 => \A k \in op'.uri[2] + 1..MaxParts : <<op'.uri[1], k>> \notin DOMAIN blobs
  <2>1. CASE op' = Idle
    BY <2>1 DEF Idle
  <2>2. ASSUME NEW i, op' = [Idle EXCEPT !.at = "setCredential", !.cred = c, !.id = i]
        PROVE  op'.at = "setCredential" /\ op'.cred = c
    BY <2>2 DEF Idle
  <2>3. ASSUME NEW i, NEW u \in Holders(i),
               op' = [Idle EXCEPT !.at = "takeOver", !.cred = c, !.id = i, !.uri = u]
        PROVE  /\ op'.at = "takeOver" /\ op'.cred = c
               /\ op'.uri[2] # 0 => \A k \in op'.uri[2] + 1..MaxParts : <<op'.uri[1], k>> \notin DOMAIN blobs
    <3>1. op'.at = "takeOver" /\ op'.cred = c /\ op'.uri = u
      BY <2>3 DEF Idle
    <3>2. u \in SeenUris /\ Seen[u].size = "byte"
      BY DEF Holders
    <3> QED BY <3>1, <3>2, ByteIsLast DEF WholeInv, ContentInv
  <2> QED BY <1>1, <2>1, <2>2, <2>3 DEF SlotFor
<1>5. HandInv'
  BY <1>2, <1>4 DEF HandInv, Allocating, Deleting
<1>6. GapInv' /\ BufferReady'
  BY <1>3, <1>4 DEF GapInv, BufferReady
<1> QED BY <1>3, <1>5, <1>6 DEF WholeInv

LEMMA ReadPieceWhole ==
  ASSUME TypeInv, WholeInv, ReadPiece
  PROVE  WholeInv'
<1>1. op \in OpTypes /\ UNCHANGED <<blobs, used, pending>> /\ GetBlob(Target)
  BY DEF ReadPiece, cardVars, TypeInv, HostTypes
<1>2. /\ ContentInv'
      /\ \A d \in Creds : <<d, 0>> \in DOMAIN blobs' \cup DOMAIN cache' => FromOn(d, 1)'
  BY <1>1, GetBlobReads, ReadWhole DEF WholeInv, TypeInv
<1>3. op'.at \in {"getBlob", "idle"}
  BY <1>1 DEF ReadPiece, OpTypes, Idle
<1>4. HandInv' /\ GapInv' /\ BufferReady'
  BY <1>2, <1>3 DEF HandInv, Allocating, Deleting, GapInv, BufferReady
<1> QED BY <1>2, <1>4 DEF WholeInv

LEMMA DeleteCredentialWhole ==
  ASSUME TypeInv, WholeInv, NEW c \in Creds, DeleteCredential(c)
  PROVE  WholeInv'
<1>1. /\ UNCHANGED <<blobs, used>> /\ Known(<<c, 0>>) /\ Reads({<<c, 0>>})
      /\ op' = [Idle EXCEPT !.at = "removeId", !.cred = c, !.id = BlobOf(<<c, 0>>).value]
      /\ pending' \in {pending, Nobody}
  BY ReadAllReads DEF DeleteCredential, cardVars
<1>2. op'.at = "removeId" /\ op'.cred = c /\ op'.id = BlobOf(<<c, 0>>).value
  BY <1>1 DEF Idle
<1>3. /\ ContentInv'
      /\ \A d \in Creds : <<d, 0>> \in DOMAIN blobs' \cup DOMAIN cache' => FromOn(d, 1)'
  BY <1>1, ReadWhole DEF WholeInv
<1>4. op'.id \in 1..NumCreds
  <2>1. BlobOf(<<c, 0>>) \in IdBlobs
    BY <1>1 DEF WholeInv, ContentInv, IdsInPlace, Known, BlobOf
  <2>2. PICK i \in 1..NumCreds : BlobOf(<<c, 0>>) = IdBlob(i)
    BY <2>1 DEF IdBlobs
  <2>3. BlobOf(<<c, 0>>).value = i
    BY <2>2 DEF IdBlob
  <2> QED BY <1>2, <2>3
<1>5. FromOn(op.cred, 1)'
  <2>1. <<c, 0>> \in DOMAIN blobs' \cup DOMAIN cache'
    BY <1>1 DEF Reads
  <2> QED BY <1>2, <1>3, <2>1
<1>6. HandInv' /\ BufferReady'
  BY <1>2, <1>4 DEF HandInv, Allocating, Deleting, BufferReady
<1>7. GapInv'
  BY <1>2, <1>3, <1>5 DEF GapInv
<1> QED BY <1>3, <1>6, <1>7 DEF WholeInv

\* Steps that store and delete no blob, and read none.
LEMMA SameWhole ==
  ASSUME WholeInv, UNCHANGED blobs, used \subseteq used', pending' \in {pending, Nobody},
         cache' = cache \/ DOMAIN cache' = {}
  PROVE  /\ ContentInv'
         /\ \A c \in Creds : <<c, 0>> \in DOMAIN blobs' \cup DOMAIN cache' => FromOn(c, 1)'
<1>1. ContentInv'
  BY ContentStays DEF WholeInv
<1>2. \A c : FromOn(c, 1) => FromOn(c, 1)'
  BY DEF FromOn
<1> QED BY <1>1, <1>2 DEF WholeInv, GapInv

LEMMA RestWhole ==
  ASSUME TypeInv, WholeInv,
         \/ SetCredential \/ StoreCredential \/ RemoveCredential \/ HostRestart
         \/ ListingLost \/ \E c \in Creds : GetCredential(c)
  PROVE  WholeInv'
<1>1. /\ UNCHANGED blobs /\ used \subseteq used' /\ pending' \in {pending, Nobody}
      /\ cache' = cache \/ DOMAIN cache' = {}
  BY DEF SetCredential, StoreCredential, RemoveCredential, HostRestart, ListingLost, GetCredential,
         cardVars, hostVars, hostHist
<1>2. /\ ContentInv'
      /\ \A c \in Creds : <<c, 0>> \in DOMAIN blobs' \cup DOMAIN cache' => FromOn(c, 1)'
  BY <1>1, SameWhole
<1>3. \/ op'.at \in {"idle", "getBlob"}
      \/ op'.at = "putData" /\ op'.part = 0 /\ op'.cred = op.cred /\ op.cred \notin used /\ used' = used
      \/ op'.at = "putData" /\ op'.part = 1
  <2>1. CASE op' = Idle
    BY <2>1 DEF Idle
  <2>2. CASE SetCredential /\ op' = [op EXCEPT !.at = "putData"]
    <3>1. op \in OpTypes /\ op.at = "setCredential" /\ op.part = 0
      BY <2>2 DEF SetCredential, TypeInv, OpInv, HostTypes
    <3>2. op'.at = "putData" /\ op'.part = 0 /\ op'.cred = op.cred
      BY <2>2, <3>1 DEF OpTypes
    <3> QED BY <2>2, <3>1, <3>2 DEF WholeInv, HandInv, Allocating, SetCredential
  <2>3. CASE StoreCredential
    BY <2>3 DEF StoreCredential, Idle
  <2>4. ASSUME NEW c \in Creds, GetCredential(c) PROVE op'.at = "getBlob"
    BY <2>4 DEF GetCredential, Idle
  <2> QED BY <2>1, <2>2, <2>3, <2>4 DEF SetCredential, RemoveCredential, HostRestart, ListingLost, hostVars
<1>4. HandInv' /\ BufferReady'
  BY <1>3 DEF HandInv, Allocating, Deleting, BufferReady
<1>5. GapInv'
  BY <1>2, <1>3 DEF GapInv
<1> QED BY <1>2, <1>4, <1>5 DEF WholeInv

\* A blob is deleted of which the credential has no piece further on.
LEMMA DeleteWhole ==
  ASSUME TypeInv, ContentInv, GapInv, NEW d \in Creds, NEW n \in 0..MaxParts + 1,
         DeleteBlob(<<d, n>>), UNCHANGED <<used, pending>>,
         n # 0 => \A k \in n + 1..MaxParts : <<d, k>> \notin DOMAIN blobs
  PROVE  /\ ContentInv'
         /\ \A c : FromOn(c, 1) => FromOn(c, 1)'
         /\ \A c \in Creds : <<c, 0>> \in DOMAIN blobs' \cup DOMAIN cache' => FromOn(c, 1)'
<1> DEFINE u == <<d, n>>
<1>1. /\ DOMAIN blobs \ {u} \subseteq DOMAIN blobs' /\ DOMAIN blobs' \subseteq DOMAIN blobs
      /\ \A v \in DOMAIN blobs' : blobs'[v] = blobs[v]
      /\ DOMAIN cache' = DOMAIN cache \ {u} /\ \A v \in DOMAIN cache' : cache'[v] = cache[v]
  BY DeleteEffect
<1>2. ContentInv'
  BY <1>1, ContentStays
<1>3. ASSUME NEW c, FromOn(c, 1)
      PROVE  FromOn(c, 1)'
  <2> SUFFICES ASSUME NEW k \in 1..MaxParts, <<c, k>> \in DOMAIN blobs', NEW j \in 1..k
               PROVE  <<c, j>> \in DOMAIN blobs'
    BY DEF FromOn
  <2>1. <<c, k>> \in DOMAIN blobs /\ <<c, j>> \in DOMAIN blobs
    BY <1>1, <1>3 DEF FromOn
  <2>2. CASE <<c, j>> # u
    BY <1>1, <2>1, <2>2
  <2>3. CASE <<c, j>> = u
    <3>1. c = d /\ j = n /\ n \in 1..k
      BY <2>3
    <3>2. k = n \/ k \in n + 1..MaxParts
      BY <3>1, Bounds
    <3>3. <<d, k>> \in DOMAIN blobs' /\ k = n
      BY <1>1, <2>1, <3>1, <3>2
    <3> QED BY <3>1, <3>3
  <2> QED BY <2>2, <2>3
<1> QED BY <1>1, <1>2, <1>3 DEF GapInv

LEMMA TakeOverWhole ==
  ASSUME TypeInv, WholeInv, TakeOver
  PROVE  WholeInv'
<1>1. op \in OpTypes /\ op.at = "takeOver" /\ DeleteBlob(op.uri) /\ op.uri \in Uris
  BY DEF TakeOver, TypeInv, HostTypes, OpInv
<1>2. UNCHANGED <<used, pending>> /\ op' = [op EXCEPT !.at = "setCredential", !.uri = NoUri]
  BY DEF TakeOver
<1>3. op'.at = "setCredential" /\ op'.cred = op.cred
  BY <1>1, <1>2, OpStep
<1>4. PICK d \in Creds, n \in 0..MaxParts : op.uri = <<d, n>>
  BY <1>1 DEF Uris
<1>5. n \in 0..MaxParts + 1 /\ (n # 0 => \A k \in n + 1..MaxParts : <<d, k>> \notin DOMAIN blobs)
  BY <1>1, <1>4, Bounds DEF WholeInv, HandInv
<1>6. /\ ContentInv'
      /\ \A c \in Creds : <<c, 0>> \in DOMAIN blobs' \cup DOMAIN cache' => FromOn(c, 1)'
  BY <1>1, <1>2, <1>4, <1>5, DeleteWhole DEF WholeInv
<1>7. HandInv' /\ BufferReady'
  BY <1>1, <1>2, <1>3 DEF WholeInv, HandInv, Allocating, Deleting, BufferReady
<1>8. GapInv'
  BY <1>3, <1>6 DEF GapInv
<1> QED BY <1>6, <1>7, <1>8 DEF WholeInv

LEMMA RemoveIdWhole ==
  ASSUME TypeInv, WholeInv, RemoveId, ~overlooked'
  PROVE  WholeInv'
<1> DEFINE c == op.cred
<1>1. /\ op \in OpTypes /\ op.at = "removeId" /\ c \in Creds /\ DeleteBlob(<<c, 0>>)
      /\ UNCHANGED <<used, pending>> /\ op' = [op EXCEPT !.at = "removePiece", !.part = 1]
  BY DEF RemoveId, TypeInv, OpInv, HostTypes
<1>2. op'.at = "removePiece" /\ op'.cred = c /\ op'.id = op.id /\ op'.part = 1
  BY <1>1 DEF OpTypes
<1>3. 0 \in 0..MaxParts + 1
  BY Bounds
<1>4. /\ ContentInv'
      /\ \A d : FromOn(d, 1) => FromOn(d, 1)'
      /\ \A d \in Creds : <<d, 0>> \in DOMAIN blobs' \cup DOMAIN cache' => FromOn(d, 1)'
  BY <1>1, <1>3, DeleteWhole DEF WholeInv
<1>5. <<c, 0>> \notin DOMAIN blobs' \cup DOMAIN cache'
  <2>1. <<c, 0>>[2] = 0
    OBVIOUS
  <2>2. /\ <<c, 0>>[2] = 0 => <<c, 0>> \notin DOMAIN blobs'
        /\ DOMAIN cache' = DOMAIN cache \ {<<c, 0>>}
    BY <1>1, DeleteEffect
  <2> QED BY <2>1, <2>2
<1>6. FromOn(op.cred, op.part)'
  <2>1. FromOn(c, 1)'
    BY <1>1, <1>4 DEF WholeInv, GapInv
  <2> QED BY <1>2, <2>1
<1>7. GapInv'
  <2>1. \A k \in 0..op'.part - 1 : k = 0
    BY <1>2
  <2> QED BY <1>2, <1>4, <1>5, <1>6, <2>1 DEF GapInv
<1>8. HandInv' /\ BufferReady'
  BY <1>1, <1>2 DEF WholeInv, HandInv, Allocating, Deleting, BufferReady
<1> QED BY <1>4, <1>7, <1>8 DEF WholeInv

LEMMA RemovePieceWhole ==
  ASSUME TypeInv, WholeInv, RemovePiece
  PROVE  WholeInv'
<1> DEFINE c == op.cred
           p == op.part
           u == <<c, p>>
<1>1. /\ op \in OpTypes /\ op.at = "removePiece" /\ c \in Creds /\ p \in 0..MaxParts + 1
      /\ DeleteBlob(u) /\ Confirm(u, heard)
  BY DEF RemovePiece, TypeInv, OpInv, HostTypes, OpTypes
<1>2. UNCHANGED <<used, pending>>
  BY DEF RemovePiece
<1>3. /\ DOMAIN blobs \ {u} \subseteq DOMAIN blobs' /\ DOMAIN blobs' \subseteq DOMAIN blobs
      /\ \A v \in DOMAIN blobs' : blobs'[v] = blobs[v]
      /\ DOMAIN cache' = DOMAIN cache \ {u} /\ \A v \in DOMAIN cache' : cache'[v] = cache[v]
      /\ heard => u \notin DOMAIN blobs' /\ (answer' = "done" <=> u \in DOMAIN blobs)
  BY <1>1, DeleteEffect
<1>4. ContentInv'
  BY <1>2, <1>3, ContentStays DEF WholeInv
<1>5. /\ p \in 1..MaxParts + 1 /\ FromOn(c, p) /\ <<c, 0>> \notin DOMAIN blobs \cup DOMAIN cache
      /\ \A k \in 0..p - 1 : <<c, k>> \notin DOMAIN blobs
  <2>1. /\ p # 0 /\ FromOn(c, p) /\ <<c, 0>> \notin DOMAIN cache
        /\ \A k \in 0..p - 1 : <<c, k>> \notin DOMAIN blobs
    BY <1>1 DEF WholeInv, GapInv
  <2>2. p \in 1..MaxParts + 1 /\ 0 \in 0..p - 1
    BY <1>1, <2>1, Bounds
  <2> QED BY <2>1, <2>2
<1>6. \A d \in Creds : <<d, 0>> \in DOMAIN blobs' \cup DOMAIN cache' => FromOn(d, 1)'
  <2> SUFFICES ASSUME NEW d \in Creds, <<d, 0>> \in DOMAIN blobs' \cup DOMAIN cache'
               PROVE  FromOn(d, 1)'
    OBVIOUS
  <2>1. <<d, 0>> \in DOMAIN blobs \cup DOMAIN cache
    BY <1>3
  <2>2. d # c /\ FromOn(d, 1)
    BY <1>5, <2>1 DEF WholeInv, GapInv
  <2> QED BY <1>3, <2>2 DEF FromOn
<1>7. CASE heard /\ answer' = "done" /\ op' = [op EXCEPT !.part = p + 1]
  <2>1. op'.at = "removePiece" /\ op'.cred = c /\ op'.id = op.id /\ op'.part = p + 1
    BY <1>1, <1>7 DEF OpTypes
  <2>2. FromOn(op.cred, op.part)'
    <3> SUFFICES ASSUME NEW k \in p + 1..MaxParts, <<c, k>> \in DOMAIN blobs', NEW j \in p + 1..k
                 PROVE  <<c, j>> \in DOMAIN blobs'
      BY <2>1 DEF FromOn
    <3>1. k \in p..MaxParts /\ j \in p..k /\ j # p
      BY <1>5
    <3>2. <<c, j>> \in DOMAIN blobs
      BY <1>3, <1>5, <3>1 DEF FromOn
    <3> QED BY <1>3, <3>1, <3>2
  <2>3. \A k \in 0..op'.part - 1 : <<c, k>> \notin DOMAIN blobs'
    <3> SUFFICES ASSUME NEW k \in 0..p PROVE <<c, k>> \notin DOMAIN blobs'
      BY <1>5, <2>1
    <3>1. k = p \/ k \in 0..p - 1
      BY <1>5
    <3> QED BY <1>3, <1>5, <1>7, <3>1
  <2>4. <<c, 0>> \notin DOMAIN cache' /\ op'.part # 0
    BY <1>3, <1>5, <2>1
  <2>5. GapInv'
    BY <1>6, <2>1, <2>2, <2>3, <2>4 DEF GapInv
  <2>6. HandInv' /\ BufferReady'
    BY <1>1, <2>1 DEF WholeInv, HandInv, Allocating, Deleting, BufferReady
  <2> QED BY <1>4, <2>5, <2>6 DEF WholeInv
<1>8. CASE ~(heard /\ answer' = "done") /\ op' = [op EXCEPT !.at = "removeCredential"]
  <2>1. op'.at = "removeCredential" /\ op'.cred = c /\ op'.id = op.id
    BY <1>1, <1>8, OpStep
  <2>2. HandInv' /\ BufferReady'
    BY <1>1, <2>1 DEF WholeInv, HandInv, Allocating, Deleting, BufferReady
  <2>3. CASE heard
    <3> SUFFICES ASSUME NEW k \in 0..MaxParts, <<c, k>> \in DOMAIN blobs PROVE FALSE
      BY <1>3, <1>4, <1>6, <2>1, <2>2 DEF WholeInv, GapInv
    <3>1. k \in p..MaxParts /\ p \in p..k
      BY <1>5
    <3>2. u \in DOMAIN blobs
      BY <1>5, <3>1 DEF FromOn
    <3> QED BY <1>3, <1>8, <2>3, <3>2
  <2>4. CASE ~heard
    <3>1. u \in doubtful' /\ u[1] = op'.cred
      BY <1>1, <2>1, <2>4 DEF Confirm
    <3> QED BY <1>4, <1>6, <2>1, <2>2, <3>1 DEF WholeInv, GapInv
  <2> QED BY <2>3, <2>4
<1> QED BY <1>7, <1>8 DEF RemovePiece

\* What is stored is an ID of a slot, under its URI, or a piece of the pending credential.
LEMMA StoringTarget ==
  ASSUME TypeInv, HandInv, op.at \in {"putData", "storeBlob"}
  PROVE  /\ op.cred \in Creds /\ op.part \in Nat /\ Target = <<op.cred, op.part>>
         /\ op.part = 0 => Content \in IdBlobs /\ op.cred \notin used
         /\ op.part # 0 => /\ pending # Nobody /\ op.cred = pending.cred /\ op.cred \in used
                           /\ pending \in Issues /\ op.part <= pending.shape.parts
                           /\ Content = Piece(pending, op.part)
<1>1. op.cred \in Creds /\ op.part \in Nat /\ Target = <<op.cred, op.part>>
  BY Bounds DEF TypeInv, OpInv, HostTypes, OpTypes, Target
<1>2. op.part = 0 => Content \in IdBlobs /\ op.cred \notin used
  BY DEF TypeInv, OpInv, HandInv, Allocating, Content, IdBlobs
<1>3. op.part # 0 => /\ pending # Nobody /\ op.cred = pending.cred /\ op.cred \in used
                     /\ pending \in Issues /\ op.part <= pending.shape.parts
                     /\ Content = Piece(pending, op.part)
  BY DEF TypeInv, OpInv, HostTypes, Content
<1> QED BY <1>1, <1>2, <1>3

\* A blob is stored, in the cache and then on the card.
LEMMA ContentStored ==
  ASSUME TypeInv, ContentInv, HandInv, op.at \in {"putData", "storeBlob"}, UNCHANGED used,
         \A v \in DOMAIN blobs' : \/ v = Target /\ blobs'[v] = Content
                                  \/ v \in DOMAIN blobs /\ blobs'[v] = blobs[v],
         \A v \in DOMAIN cache' : \/ v = Target /\ cache'[v] = Content
                                  \/ v \in DOMAIN cache /\ cache'[v] = cache[v],
         \/ pending' \in {pending, Nobody}
         \/ op.part = 0 /\ pending'.cred = op.cred
  PROVE  ContentInv'
<1>1. /\ op.cred \in Creds /\ op.part \in Nat /\ Target = <<op.cred, op.part>>
      /\ op.part = 0 => Content \in IdBlobs /\ op.cred \notin used
      /\ op.part # 0 => /\ pending # Nobody /\ op.cred = pending.cred /\ op.cred \in used
                        /\ pending \in Issues /\ op.part <= pending.shape.parts
                        /\ Content = Piece(pending, op.part)
  BY StoringTarget
<1>2. UnusedInv'
  <2> SUFFICES ASSUME NEW c \in Creds \ used, NEW k \in 1..MaxParts
               PROVE  <<c, k>> \notin DOMAIN blobs' \cup DOMAIN cache'
    BY DEF UnusedInv
  <2>1. <<c, k>> \notin DOMAIN blobs \cup DOMAIN cache
    BY DEF ContentInv, UnusedInv
  <2>2. <<c, k>> # Target
    BY <1>1
  <2> QED BY <2>1, <2>2
<1>3. IdsInPlace'
  <2> SUFFICES ASSUME NEW c \in Creds
               PROVE  /\ <<c, 0>> \in DOMAIN blobs' => blobs'[<<c, 0>>] \in IdBlobs
                      /\ <<c, 0>> \in DOMAIN cache' => cache'[<<c, 0>>] \in IdBlobs
    BY DEF IdsInPlace, IdBlobs
  <2>1. <<c, 0>> = Target => Content \in IdBlobs
    BY <1>1
  <2> QED BY <2>1 DEF ContentInv, IdsInPlace
<1>4. ASSUME NEW c \in Creds, NEW x, PiecesOf(c, x), op.part # 0 /\ c = op.cred => x = pending
      PROVE  PiecesOf(c, x)'
  <2> SUFFICES ASSUME NEW k \in 1..MaxParts
               PROVE  /\ <<c, k>> \in DOMAIN blobs' => k <= x.shape.parts /\ blobs'[<<c, k>>] = Piece(x, k)
                      /\ <<c, k>> \in DOMAIN cache' => k <= x.shape.parts /\ cache'[<<c, k>>] = Piece(x, k)
    BY DEF PiecesOf
  <2>1. <<c, k>> = Target => k <= x.shape.parts /\ Content = Piece(x, k)
    <3> SUFFICES ASSUME <<c, k>> = Target PROVE k <= x.shape.parts /\ Content = Piece(x, k)
      OBVIOUS
    <3>1. c = op.cred /\ k = op.part /\ op.part # 0
      BY <1>1
    <3> QED BY <1>1, <1>4, <3>1
  <2> QED BY <1>4, <2>1 DEF PiecesOf
<1>5. pending # Nobody => pending.cred \in Creds /\ PiecesOf(pending.cred, pending)
  BY DEF ContentInv, OneIssue, TypeInv, HostTypes, Issues
<1>6. ASSUME NEW c \in Creds
      PROVE  \E x \in Issues \cup {Nobody} : PiecesOf(c, x)'
  <2>1. CASE op.part # 0 /\ c = op.cred
    BY <1>1, <1>4, <1>5, <2>1
  <2>2. CASE ~(op.part # 0 /\ c = op.cred)
    <3>1. PICK x \in Issues \cup {Nobody} : PiecesOf(c, x)
      BY DEF ContentInv, OneIssue
    <3> QED BY <1>4, <2>2, <3>1
  <2> QED BY <2>1, <2>2
<1>7. pending' # Nobody => PiecesOf(pending.cred, pending)'
  <2>1. CASE pending' = pending
    <3>1. pending # Nobody => \A x : x = pending => PiecesOf(pending.cred, x)'
      BY <1>4, <1>5, <2>1
    <3> QED BY <2>1, <3>1 DEF PiecesOf
  <2>2. CASE op.part = 0 /\ pending'.cred = op.cred
    BY <1>1, <1>2, <2>2 DEF UnusedInv, PiecesOf
  <2> QED BY <2>1, <2>2
<1>8. OneIssue'
  BY <1>6, <1>7 DEF OneIssue, Issues, Nobody
<1> QED BY <1>2, <1>3, <1>8 DEF ContentInv

LEMMA PutDataWhole ==
  ASSUME TypeInv, WholeInv, PutData, ~overlooked'
  PROVE  WholeInv'
<1>1. /\ op \in OpTypes /\ op.at = "putData" /\ op' = [op EXCEPT !.at = "storeBlob"]
      /\ UNCHANGED <<blobs, pending, used, secret>> /\ buffer' = Content
      /\ cache' = Changed(cache, Target, Content)
  BY DEF PutData, Put, TypeInv, HostTypes
<1>2. op'.at = "storeBlob" /\ op'.cred = op.cred /\ op'.part = op.part /\ op'.id = op.id
  BY <1>1 DEF OpTypes
<1>3. /\ DOMAIN cache' = DOMAIN cache \cup {Target}
      /\ \A v \in DOMAIN cache' : \/ v = Target /\ cache'[v] = Content
                                  \/ v \in DOMAIN cache /\ cache'[v] = cache[v]
  BY <1>1 DEF Changed
<1>4. ContentInv'
  BY <1>1, <1>3, ContentStored DEF WholeInv
<1>5. HandInv'
  BY <1>1, <1>2 DEF WholeInv, HandInv, Allocating, Deleting
<1>6. BufferReady'
  BY <1>1, <1>2 DEF BufferReady, Content
<1>7. \A c \in Creds : <<c, 0>> \in DOMAIN blobs' \cup DOMAIN cache' => FromOn(c, 1)'
  <2> SUFFICES ASSUME NEW c \in Creds, <<c, 0>> \in DOMAIN blobs \cup DOMAIN cache \cup {Target}
               PROVE  FromOn(c, 1)'
    BY <1>1, <1>3
  <2>1. FromOn(c, 1) => FromOn(c, 1)'
    BY <1>1 DEF FromOn
  <2>2. CASE <<c, 0>> = Target
    <3>1. c \notin used
      BY <1>1, <2>2, StoringTarget DEF WholeInv
    <3> QED BY <2>1, <3>1 DEF WholeInv, ContentInv, UnusedInv, FromOn
  <2> QED BY <2>1, <2>2 DEF WholeInv, GapInv
<1>8. GapInv'
  BY <1>2, <1>7 DEF GapInv
<1> QED BY <1>4, <1>5, <1>6, <1>8 DEF WholeInv

\* STORE_BLOB, of an ID or a piece.
LEMMA StoreWhole ==
  ASSUME TypeInv, WholeInv, StoreId \/ StorePiece
  PROVE  WholeInv'
<1>1. /\ op \in OpTypes /\ op.at = "storeBlob" /\ StoreBlob /\ UNCHANGED <<cache, used>>
      /\ Confirm(Target, stored /\ buffer = Content)
  BY DEF StoreId, StorePiece, StoreBlob, TypeInv, HostTypes
<1>2. /\ op.cred \in Creds /\ op.part \in Nat /\ Target = <<op.cred, op.part>>
      /\ op.part = 0 => op.cred \notin used
      /\ op.part # 0 => pending # Nobody /\ op.cred = pending.cred
  BY <1>1, StoringTarget DEF WholeInv
<1>3. /\ blobs' \in {blobs, Changed(blobs, Target, Content)}
      /\ stored => blobs' = Changed(blobs, Target, Content)
  BY <1>1, StoreTypes DEF WholeInv, BufferReady
<1>4. /\ \A v \in DOMAIN blobs' : \/ v = Target /\ blobs'[v] = Content
                                  \/ v \in DOMAIN blobs /\ blobs'[v] = blobs[v]
      /\ DOMAIN blobs \subseteq DOMAIN blobs' /\ DOMAIN blobs' \subseteq DOMAIN blobs \cup {Target}
      /\ stored => Target \in DOMAIN blobs'
  BY <1>3 DEF Changed
<1>5. pending' \in {pending, Nobody} \/ (op.part = 0 /\ pending'.cred = op.cred)
  BY DEF StoreId, StorePiece
<1>6. ContentInv'
  BY <1>1, <1>4, <1>5, ContentStored DEF WholeInv
<1>7. \/ op'.at = "idle"
      \/ /\ stored /\ op'.at = "putData" /\ op'.cred = op.cred /\ op'.part = op.part + 1
         /\ op.part # 0
  <2>1. CASE op' = Idle
    BY <2>1 DEF Idle
  <2>2. CASE StorePiece /\ stored /\ op' = [op EXCEPT !.at = "putData", !.part = op.part + 1]
    <3>1. op'.at = "putData" /\ op'.cred = op.cred /\ op'.part = op.part + 1
      BY <1>1, <2>2 DEF OpTypes
    <3> QED BY <2>2, <3>1 DEF StorePiece
  <2> QED BY <2>1, <2>2 DEF StoreId, StorePiece
<1>8. \A k \in 1..op.part - 1 : <<op.cred, k>> \in DOMAIN blobs
  BY <1>1 DEF WholeInv, HandInv
<1>9. HandInv'
  <2>1. CASE op'.at = "idle"
    BY <2>1 DEF HandInv, Allocating, Deleting
  <2>2. CASE stored /\ op'.at = "putData" /\ op'.cred = op.cred /\ op'.part = op.part + 1 /\ op.part # 0
    <3>1. ASSUME NEW k \in 1..op'.part - 1
          PROVE  <<op.cred, k>> \in DOMAIN blobs'
      <4>1. k = op.part \/ k \in 1..op.part - 1
        BY <1>2, <2>2
      <4> QED BY <1>2, <1>4, <1>8, <2>2, <4>1
    <3>2. op'.part # 0
      BY <1>2, <2>2
    <3> QED BY <2>2, <3>1, <3>2 DEF HandInv, Allocating, Deleting
  <2> QED BY <1>7, <2>1, <2>2
<1>10. \A c \in Creds : <<c, 0>> \in DOMAIN blobs' \cup DOMAIN cache' => FromOn(c, 1)'
  <2> SUFFICES ASSUME NEW c \in Creds, <<c, 0>> \in DOMAIN blobs' \cup DOMAIN cache',
                      NEW k \in 1..MaxParts, <<c, k>> \in DOMAIN blobs', NEW j \in 1..k
               PROVE  <<c, j>> \in DOMAIN blobs'
    BY DEF FromOn
  <2>1. CASE <<c, k>> = Target
    <3>1. c = op.cred /\ k = op.part /\ (j = k \/ j \in 1..k - 1)
      BY <1>2, <2>1
    <3> QED BY <1>4, <1>8, <3>1
  <2>2. CASE <<c, k>> # Target /\ <<c, 0>> = Target
    <3>1. c \notin used
      BY <1>2, <2>2
    <3> QED BY <1>1, <1>6, <3>1 DEF ContentInv, UnusedInv
  <2>3. CASE <<c, k>> # Target /\ <<c, 0>> # Target
    <3>1. FromOn(c, 1) /\ <<c, k>> \in DOMAIN blobs
      BY <1>1, <1>4, <2>3 DEF WholeInv, GapInv
    <3> QED BY <1>4, <3>1 DEF FromOn
  <2> QED BY <2>1, <2>2, <2>3
<1>11. GapInv' /\ BufferReady'
  BY <1>7, <1>10 DEF GapInv, BufferReady
<1> QED BY <1>6, <1>9, <1>11 DEF WholeInv

LEMMA InitDeletion == HostInit => DeletionInv
<1> SUFFICES ASSUME HostInit PROVE WholeInv
  BY DEF DeletionInv
<1>1. DOMAIN blobs = {} /\ DOMAIN cache = {} /\ op.at = "idle" /\ pending = Nobody
  BY DEF HostInit, Card!Init, Idle
<1>2. ContentInv
  BY <1>1 DEF ContentInv, UnusedInv, IdsInPlace, OneIssue, PiecesOf
<1>3. HandInv /\ GapInv /\ BufferReady
  BY <1>1 DEF HandInv, Allocating, Deleting, GapInv, BufferReady
<1> QED BY <1>2, <1>3 DEF WholeInv

LEMMA StepDeletion ==
  ASSUME TypeInv, DeletionInv, [HostNext]_credVars
  PROVE  DeletionInv'
<1> SUFFICES ASSUME ~overlooked' PROVE WholeInv'
  BY DEF DeletionInv
<1>1. WholeInv
  BY OverlookedStays DEF DeletionInv
<1>2. ASSUME NEW c \in Creds, AllocateCredential(c) PROVE WholeInv'
  BY <1>1, <1>2, AllocateWhole
<1>3. CASE ReadPiece
  BY <1>1, <1>3, ReadPieceWhole
<1>4. ASSUME NEW c \in Creds, DeleteCredential(c) PROVE WholeInv'
  BY <1>1, <1>4, DeleteCredentialWhole
<1>5. CASE TakeOver
  BY <1>1, <1>5, TakeOverWhole
<1>6. CASE \/ SetCredential \/ StoreCredential \/ RemoveCredential \/ HostRestart
           \/ ListingLost \/ \E c \in Creds : GetCredential(c)
  BY <1>1, <1>6, RestWhole
<1>7. CASE PutData
  BY <1>1, <1>7, PutDataWhole
<1>8. CASE StoreId \/ StorePiece
  BY <1>1, <1>8, StoreWhole
<1>9. CASE RemoveId
  BY <1>1, <1>9, RemoveIdWhole
<1>10. CASE RemovePiece
  BY <1>1, <1>10, RemovePieceWhole
<1>11. CASE UNCHANGED credVars
  <2> USE <1>11 DEF credVars, cardVars, hostVars, hostHist
  <2>1. ContentInv' /\ BufferReady'
    BY <1>1 DEF WholeInv, ContentInv, UnusedInv, IdsInPlace, OneIssue, PiecesOf, BufferReady, Content
  <2>2. HandInv' /\ GapInv'
    BY <1>1 DEF WholeInv, HandInv, Allocating, Deleting, GapInv, FromOn
  <2> QED BY <2>1, <2>2 DEF WholeInv
<1> QED BY <1>2, <1>3, <1>4, <1>5, <1>6, <1>7, <1>8, <1>9, <1>10, <1>11 DEF HostNext

DeletionInvs == TypeInv /\ CacheInv /\ DeletionInv

LEMMA DeletionHolds == HostSpec => []DeletionInvs
<1>1. HostInit => DeletionInvs
  BY InitTypes, InitCaches, InitDeletion DEF DeletionInvs
<1>2. DeletionInvs /\ [HostNext]_credVars => DeletionInvs'
  BY StepTypes, StepCaches, StepDeletion DEF DeletionInvs
<1> QED BY <1>1, <1>2, PTL DEF HostSpec

LEMMA DeletionStep ==
  ASSUME DeletionInvs, [HostNext]_credVars, op.at = "removeCredential", op' = Idle,
         restarts' = restarts, heard, ~overlooked, \A u \in doubtful : u[1] # op.cred
  PROVE  /\ \A u \in DOMAIN blobs \cup DOMAIN cache : u[1] # op.cred
         /\ secret'[op.id] = 0
<1>1. TypeInv /\ op # Idle /\ restarts \in Nat /\ lost \in Nat
  BY DEF DeletionInvs, TypeInv, HistTypes, Idle
<1>2. RemoveCredential
  <2>1. \A c \in Creds : ~AllocateCredential(c) /\ ~GetCredential(c) /\ ~DeleteCredential(c)
    BY <1>1 DEF AllocateCredential, GetCredential, DeleteCredential
  <2>2. ~TakeOver /\ ~SetCredential /\ ~PutData /\ ~StoreId /\ ~StorePiece /\ ~ReadPiece
    BY DEF TakeOver, SetCredential, PutData, StoreId, StorePiece, StoreBlob, ReadPiece
  <2>3. ~StoreCredential /\ ~RemoveId /\ ~RemovePiece /\ ~ListingLost
    BY <1>1 DEF StoreCredential, RemoveId, RemovePiece, ListingLost
  <2>4. ~HostRestart
    BY <1>1 DEF HostRestart
  <2>5. ~UNCHANGED credVars
    BY <1>1 DEF credVars, hostVars
  <2> QED BY <2>1, <2>2, <2>3, <2>4, <2>5 DEF HostNext
<1>3. op.id \in 1..NumCreds
  BY DEF DeletionInvs, DeletionInv, WholeInv, HandInv, Deleting
<1>4. secret'[op.id] = 0
  <2>1. lost' = lost /\ lost + 1 # lost
    BY <1>1 DEF heard
  <2>2. secret' = [i \in DOMAIN secret |-> IF i = op.id THEN 0 ELSE secret[i]]
    BY <1>2, <2>1 DEF RemoveCredential, Exchange
  <2>3. DOMAIN secret = 1..NumCreds
    BY <1>1 DEF TypeInv, CardTypes
  <2> QED BY <1>3, <2>2, <2>3
<1>5. \A k \in 0..MaxParts : <<op.cred, k>> \notin DOMAIN blobs
  BY DEF DeletionInvs, DeletionInv, WholeInv, GapInv
<1>6. \A u \in DOMAIN blobs : u[1] # op.cred
  <2> SUFFICES ASSUME NEW u \in DOMAIN blobs, u[1] = op.cred PROVE FALSE
    OBVIOUS
  <2>1. PICK c \in Creds, k \in 0..MaxParts : u = <<c, k>>
    BY <1>1 DEF TypeInv, CardTypes, IsBlobMap, Uris
  <2> QED BY <1>5, <2>1
<1>7. \A u \in DOMAIN cache : u \in doubtful \/ u \in DOMAIN blobs
  BY DEF DeletionInvs, CacheInv, CacheFollowsCard
<1> QED BY <1>4, <1>6, <1>7

(* When deleteCredential is through, none of its blobs is in doubt and no        *)
(* failure was overlooked, nothing of the credential is left: no blob, nothing   *)
(* cached, no secret in its slot; for any number of credentials, slots, pieces,  *)
(* restarts and lost exchanges, and also when an allocation took the last piece  *)
(* of the credential for an ID blob.                                             *)
THEOREM DeletedIsGone == HostSpec => DeletionIsComplete
<1>1. DeletionInvs /\ [HostNext]_credVars =>
        [(/\ op.at = "removeCredential" /\ op' = Idle /\ restarts' = restarts /\ heard /\ ~overlooked
          /\ \A u \in doubtful : u[1] # op.cred)
           => /\ \A u \in DOMAIN blobs \cup DOMAIN cache : u[1] # op.cred
              /\ secret'[op.id] = 0]_credVars
  BY DeletionStep
<1> QED BY <1>1, DeletionHolds, PTL DEF HostSpec, DeletionIsComplete

-----------------------------------------------------------------------------
(* Stored credentials                                                        *)
(*                                                                           *)
(* As long as no failure is overlooked, three things hold together: no two   *)
(* credentials claim one slot, neither on the card nor in the cache; what    *)
(* hides a blob of the card in the cache names a smaller slot, so that the   *)
(* search never passes it by; and a credential whose ID is stored has its    *)
(* blobs on the card without doubt.                                          *)

\* No credential ends in a single byte that could be read as the number of a slot.
NoNumberedByte == \A s \in Shapes : s.last = "byte" => s.value \notin 1..MaxNoOfCredentials

\* ID blobs under the URIs of IDs, pieces under the others.
InPlace(u, b) == IF u[2] = 0 THEN b \in IdBlobs /\ b.value <= MaxNoOfCredentials ELSE b \in Pieces
BlobsInPlace ==
  /\ \A u \in DOMAIN blobs : InPlace(u, blobs[u])
  /\ \A u \in DOMAIN cache : InPlace(u, cache[u])

\* The ID blob of c, on the card or in the cache, names slot i.
Claims(c, i) == \/ <<c, 0>> \in DOMAIN blobs /\ blobs[<<c, 0>>].value = i
                \/ <<c, 0>> \in DOMAIN cache /\ cache[<<c, 0>>].value = i
OneClaim == \A c, d \in Creds, i \in 1..NumCreds : Claims(c, i) /\ Claims(d, i) => c = d

\* Once the list is read, the host overlooks no ID; before, it caches none the card has not.
IdsListed == \A c \in Creds :
  IF loaded THEN <<c, 0>> \in DOMAIN blobs \cup DOMAIN cache => <<c, 0>> \in uris
            ELSE <<c, 0>> \in DOMAIN cache =>
                   <<c, 0>> \in DOMAIN blobs /\ blobs[<<c, 0>>] = cache[<<c, 0>>]

\* A cached ID that is not the card's is one that is not used yet, of a smaller slot.
HidesSmaller == \A c \in Creds :
  <<c, 0>> \in DOMAIN blobs \cap DOMAIN cache =>
    \/ cache[<<c, 0>>] = blobs[<<c, 0>>]
    \/ c \notin used /\ cache[<<c, 0>>].value < blobs[<<c, 0>>].value

\* When it allocates, nobody else claims the slot, but who is about to lose it.
AllocInv == Allocating =>
  /\ op.cred \notin used /\ op.id \in 1..MaxNoOfCredentials /\ loaded /\ pending = Nobody
  /\ <<op.cred, 0>> \in DOMAIN blobs => op.id <= blobs[<<op.cred, 0>>].value
  /\ \A d \in Creds : Claims(d, op.id) =>
       d = op.cred \/ (op.at = "takeOver" /\ op.uri = <<d, 0>>)
  /\ op.at = "takeOver" => \E d \in Creds \ DOMAIN kept : op.uri = <<d, 0>>

\* When it deletes, nobody else claims the slot, and the client does not rely on the credential.
ReleaseInv == Deleting =>
  /\ op.id \in 1..NumCreds
  /\ op.cred \notin DOMAIN kept /\ op.cred # pending.cred
  /\ \A d \in Creds : Claims(d, op.id) => d = op.cred

MapInv  == BlobsInPlace /\ OneClaim /\ IdsListed /\ HidesSmaller
SlotInv == MapInv /\ BufferReady /\ AllocInv /\ ReleaseInv

\* The card has the ID of c and the secret it was issued for, and no piece too many.
Held(c, x) ==
  /\ <<c, 0>> \in DOMAIN blobs \ doubtful
  /\ secret[blobs[<<c, 0>>].value] = x.gen
  /\ \A k \in 1..MaxParts : <<c, k>> \in DOMAIN blobs \cup DOMAIN cache => k <= x.shape.parts

\* The card has the k-th piece.
HasPiece(c, x, k) == /\ <<c, k>> \in DOMAIN blobs \ doubtful
                     /\ blobs[<<c, k>>] = Piece(x, k)

KeptInv == \A c \in DOMAIN kept :
  /\ kept[c] \in Issues /\ Held(c, kept[c])
  /\ \A k \in 1..kept[c].shape.parts : HasPiece(c, kept[c], k)

PendingInv ==
  /\ pending # Nobody => pending.cred \notin DOMAIN kept /\ Held(pending.cred, pending)
  /\ op.at \in {"putData", "storeBlob"} =>
       \A k \in 1..op.part - 1 : HasPiece(pending.cred, pending, k)

HeldInv   == KeptInv /\ PendingInv /\ UnusedInv
StoredInv == ~overlooked => SlotInv /\ HeldInv

-----------------------------------------------------------------------------
(* Slots *)

\* What a step of the map variables may do without anybody claiming a slot anew.
NoNewClaim == \A c \in Creds, i \in 1..255 : Claims(c, i)' => Claims(c, i)

LEMMA PieceNoNumber ==
  ASSUME NoNumberedByte, NEW b \in Pieces, b.size = "byte"
  PROVE  b.value \notin 1..MaxNoOfCredentials
<1> PICK g \in 1..MaxIssued, s \in Shapes, k \in 1..MaxParts :
           b = Piece([gen |-> g, shape |-> s], k)
  BY DEF Pieces
<1>1. b.size = (IF k = s.parts THEN s.last ELSE "full")
  BY DEF Piece
<1>2. k = s.parts /\ s.last = "byte" /\ b.value = s.value
  BY <1>1 DEF Piece
<1> QED BY <1>2 DEF NoNumberedByte

\* What lies under the URI of an ID names a slot that the card and the host know.
LEMMA IdInPlace ==
  ASSUME NEW c, NEW b, InPlace(<<c, 0>>, b)
  PROVE  /\ b.size = "byte" /\ b = IdBlob(b.value)
         /\ b.value \in 1..NumCreds /\ b.value \in 1..MaxNoOfCredentials /\ b.value \in 1..255
<1>1. b \in IdBlobs /\ b.value <= MaxNoOfCredentials
  BY DEF InPlace
<1> PICK i \in 1..NumCreds : b = IdBlob(i)
  BY <1>1 DEF IdBlobs
<1>2. b.size = "byte" /\ b.value = i
  BY DEF IdBlob
<1> QED BY <1>1, <1>2, Bounds

LEMMA ClaimBounds ==
  ASSUME BlobsInPlace, NEW c, NEW i, Claims(c, i)
  PROVE  i \in 1..NumCreds /\ i \in 1..MaxNoOfCredentials /\ i \in 1..255
  BY IdInPlace DEF BlobsInPlace, Claims

\* Reading caches what the card has.
LEMMA ReadMaps ==
  ASSUME MapInv, NEW us, Reads(us), UNCHANGED <<blobs, used>>
  PROVE  BlobsInPlace' /\ OneClaim' /\ HidesSmaller' /\ NoNewClaim
<1>1. /\ DOMAIN cache' = DOMAIN cache \cup us
      /\ \A u \in DOMAIN cache : cache'[u] = cache[u]
      /\ \A u \in us \ DOMAIN cache : u \in DOMAIN blobs /\ cache'[u] = blobs[u]
  BY DEF Reads, BlobOf, Known
<1>2. \A c \in Creds, i \in 1..255 : Claims(c, i)' => Claims(c, i)
  BY <1>1 DEF Claims
<1>3. BlobsInPlace'
  BY <1>1 DEF MapInv, BlobsInPlace, InPlace
<1>4. HidesSmaller'
  BY <1>1 DEF MapInv, HidesSmaller
<1>5. OneClaim'
  BY <1>2, Bounds DEF MapInv, OneClaim
<1> QED BY <1>2, <1>3, <1>4, <1>5 DEF NoNewClaim

LEMMA DeleteMaps ==
  ASSUME TypeInv, MapInv, NEW u, DeleteBlob(u), ~overlooked', UNCHANGED <<loaded, used>>
  PROVE  MapInv' /\ NoNewClaim
<1>1. \A c \in Creds, i \in 1..255 : Claims(c, i)' => Claims(c, i)
  BY DeleteEffect DEF Claims
<1>2. BlobsInPlace'
  BY DeleteEffect DEF MapInv, BlobsInPlace, InPlace
<1>3. HidesSmaller'
  BY DeleteEffect DEF MapInv, HidesSmaller
<1>4. OneClaim'
  BY <1>1, Bounds DEF MapInv, OneClaim
<1>5. IdsListed'
  <2>1. ASSUME NEW c \in Creds, u = <<c, 0>>
        PROVE  u \notin DOMAIN blobs' /\ u \notin DOMAIN cache'
    <3>1. u[2] = 0
      BY <2>1
    <3>2. u[2] = 0 => u \notin DOMAIN blobs'
      BY DeleteEffect
    <3>3. DOMAIN cache' = DOMAIN cache \ {u}
      BY DeleteEffect
    <3> QED BY <3>1, <3>2, <3>3
  <2>2. ASSUME NEW c \in Creds, loaded, <<c, 0>> \in DOMAIN blobs' \cup DOMAIN cache'
        PROVE  <<c, 0>> \in uris'
    <3>1. <<c, 0>> \in DOMAIN blobs \cup DOMAIN cache /\ <<c, 0>> # u
      BY <2>1, <2>2, DeleteEffect
    <3> QED BY <2>2, <3>1, DeleteEffect DEF MapInv, IdsListed
  <2>3. ASSUME NEW c \in Creds, ~loaded, <<c, 0>> \in DOMAIN cache'
        PROVE  <<c, 0>> \in DOMAIN blobs' /\ blobs'[<<c, 0>>] = cache'[<<c, 0>>]
    <3>1. <<c, 0>> \in DOMAIN cache /\ <<c, 0>> # u
      BY <2>1, <2>3, DeleteEffect
    <3>2. <<c, 0>> \in DOMAIN blobs /\ blobs[<<c, 0>>] = cache[<<c, 0>>]
      BY <2>3, <3>1 DEF MapInv, IdsListed
    <3> QED BY <2>3, <3>1, <3>2, DeleteEffect
  <2> QED BY <2>2, <2>3 DEF IdsListed
<1> QED BY <1>1, <1>2, <1>3, <1>4, <1>5 DEF NoNewClaim, MapInv

\* What STORE_BLOB stores is cached already.
LEMMA StoreMaps ==
  ASSUME TypeInv, StoringInv, MapInv, AllocInv, BufferReady, StoreBlob,
         UNCHANGED <<cache, uris, loaded, used>>
  PROVE  MapInv' /\ NoNewClaim
<1>1. /\ Target \in uris /\ Target \in DOMAIN cache /\ cache[Target] = Content /\ buffer = Content
      /\ Target = <<op.cred, op.part>> /\ op.at = "storeBlob"
  BY DEF StoringInv, BufferReady, StoreBlob, Target
<1>2. /\ DOMAIN blobs' \in {DOMAIN blobs, DOMAIN blobs \cup {Target}}
      /\ \A v \in DOMAIN blobs' : IF v = Target THEN blobs'[v] \in {blobs[v], Content}
                                                 ELSE v \in DOMAIN blobs /\ blobs'[v] = blobs[v]
      /\ Target \in DOMAIN blobs' \ DOMAIN blobs => blobs'[Target] = Content
  BY <1>1, StoreTypes DEF Changed
<1>3. \A c \in Creds, i \in 1..255 : Claims(c, i)' => Claims(c, i)
  BY <1>1, <1>2 DEF Claims
<1>4. BlobsInPlace'
  BY <1>1, <1>2 DEF MapInv, BlobsInPlace, InPlace
<1>5. HidesSmaller'
  BY <1>1, <1>2 DEF MapInv, HidesSmaller
<1>6. OneClaim'
  BY <1>3, Bounds DEF MapInv, OneClaim
<1>7. IdsListed'
  <2>1. op.part = 0 => loaded
    BY <1>1 DEF AllocInv, Allocating
  <2> QED BY <1>1, <1>2, <2>1 DEF MapInv, IdsListed
<1> QED BY <1>3, <1>4, <1>5, <1>6, <1>7 DEF NoNewClaim, MapInv

\* What an allocation finds out: the smallest slot that is free, and who may claim it.
LEMMA FreeSlot ==
  ASSUME TypeInv, CacheFollowsCard, NoNumberedByte, SlotInv, KeptInv, UnusedInv,
         NEW c \in Creds \ used, NEW i \in FreeIds, \A j \in FreeIds : i <= j
  PROVE  /\ i \in 1..MaxNoOfCredentials
         /\ <<c, 0>> \in DOMAIN blobs => i <= blobs[<<c, 0>>].value
         /\ \A u \in Holders(i) : \E d \in Creds : u = <<d, 0>> /\ Claims(d, i)
         /\ \A d \in Creds : Claims(d, i) => <<d, 0>> \in Holders(i)
         /\ \A d \in DOMAIN kept : Live(<<d, 0>>)
<1> MapInv /\ BlobsInPlace /\ HidesSmaller /\ IdsListed
  BY DEF SlotInv, MapInv
<1>1. i \in 1..MaxNoOfCredentials
  BY DEF FreeIds
<1>2. SeenUris \subseteq Uris /\ \A u \in SeenUris : Known(u)
  BY SeenAreUris DEF TypeInv
<1>3. \A d \in Creds : <<d, 0>> \in DOMAIN blobs \cup DOMAIN cache => <<d, 0>> \in SeenUris
  BY DEF IdsListed, SeenUris
<1>4. \A u \in SeenUris : InPlace(u, BlobOf(u))
  BY <1>2 DEF BlobsInPlace, Known, BlobOf
<1>5. \A u \in Holders(i) : \E d \in Creds : u = <<d, 0>> /\ Claims(d, i)
  <2> SUFFICES ASSUME NEW u \in Holders(i)
               PROVE  \E d \in Creds : u = <<d, 0>> /\ Claims(d, i)
    OBVIOUS
  <2>1. u \in SeenUris /\ BlobOf(u).size = "byte" /\ BlobOf(u).value = i
    BY DEF Holders, Seen
  <2>2. PICK d \in Creds, k \in 0..MaxParts : u = <<d, k>>
    BY <1>2, <2>1 DEF Uris
  <2>3. k = 0
    <3>1. ASSUME k # 0 PROVE BlobOf(u) \in Pieces
      <4>1. u[2] # 0
        BY <2>2, <3>1
      <4> QED BY <1>4, <2>1, <4>1 DEF InPlace
    <3> QED BY <1>1, <2>1, <3>1, PieceNoNumber
  <2>4. Known(u)
    BY <1>2, <2>1
  <2> QED BY <2>1, <2>2, <2>3, <2>4 DEF Claims, Known, BlobOf
<1>6. \A d \in Creds \ used : ~Live(<<d, 0>>)
  <2> SUFFICES ASSUME NEW d \in Creds \ used, <<d, 1>> \in SeenUris
               PROVE  FALSE
    BY DEF Live
  <2>1. <<d, 1>> \in Uris /\ Known(<<d, 1>>)
    BY <1>2
  <2>2. 1 \in 1..MaxParts
    BY <2>1, Bounds DEF Uris
  <2> QED BY <2>1, <2>2 DEF UnusedInv, Known
\* A credential that is not used yet gives its slot back.
<1>7. ASSUME NEW d \in Creds \ used, <<d, 0>> \in DOMAIN blobs \cup DOMAIN cache
      PROVE  i <= BlobOf(<<d, 0>>).value
  <2> DEFINE j == BlobOf(<<d, 0>>).value
  <2>1. <<d, 0>> \in SeenUris
    BY <1>3, <1>7
  <2>2. j \in 1..MaxNoOfCredentials /\ BlobOf(<<d, 0>>).size = "byte"
    BY <1>4, <2>1, IdInPlace
  <2>3. <<d, 0>> \in Holders(j)
    BY <2>1, <2>2 DEF Holders, Seen
  <2>4. j \in FreeIds
    BY <1>6, <2>2, <2>3 DEF FreeIds
  <2> QED BY <2>4
<1>8. ASSUME NEW d \in Creds, <<d, 0>> \in DOMAIN blobs
      PROVE  /\ <<d, 0>> \in DOMAIN cache => BlobOf(<<d, 0>>) = cache[<<d, 0>>]
             /\ \/ BlobOf(<<d, 0>>) = blobs[<<d, 0>>]
                \/ d \notin used /\ BlobOf(<<d, 0>>).value < blobs[<<d, 0>>].value
  BY <1>8 DEF HidesSmaller, BlobOf
<1>9. \A d \in Creds : Claims(d, i) => <<d, 0>> \in Holders(i)
  <2> SUFFICES ASSUME NEW d \in Creds, Claims(d, i) PROVE <<d, 0>> \in Holders(i)
    OBVIOUS
  <2>1. <<d, 0>> \in SeenUris
    BY <1>3 DEF Claims
  <2>2. BlobOf(<<d, 0>>).size = "byte" /\ BlobOf(<<d, 0>>).value \in 1..MaxNoOfCredentials
    BY <1>4, <2>1, IdInPlace
  <2>3. BlobOf(<<d, 0>>).value = i
    <3>1. CASE <<d, 0>> \in DOMAIN cache /\ cache[<<d, 0>>].value = i
      BY <3>1 DEF BlobOf
    <3>2. CASE <<d, 0>> \in DOMAIN blobs /\ blobs[<<d, 0>>].value = i
      BY <1>1, <1>7, <1>8, <2>2, <3>2, Bounds
    <3> QED BY <3>1, <3>2 DEF Claims
  <2> QED BY <2>1, <2>2, <2>3 DEF Holders, Seen
<1>10. ASSUME <<c, 0>> \in DOMAIN blobs
       PROVE  i <= blobs[<<c, 0>>].value
  <2>1. i <= BlobOf(<<c, 0>>).value
    BY <1>7, <1>10
  <2>2. BlobOf(<<c, 0>>).value \in 1..MaxNoOfCredentials
    BY <1>3, <1>4, <1>10, IdInPlace
  <2>3. blobs[<<c, 0>>].value \in 1..MaxNoOfCredentials
    BY <1>10, IdInPlace DEF BlobsInPlace
  <2> QED BY <1>1, <1>8, <1>10, <2>1, <2>2, <2>3, Bounds
<1>11. \A d \in DOMAIN kept : Live(<<d, 0>>)
  <2> SUFFICES ASSUME NEW d \in DOMAIN kept PROVE <<d, 1>> \in SeenUris
    BY DEF Live
  <2>1. 1 \in 1..kept[d].shape.parts
    BY HostAssumption DEF KeptInv, Issues
  <2>2. <<d, 1>> \in DOMAIN blobs \ doubtful
    BY <2>1 DEF KeptInv, HasPiece
  <2> QED BY <2>2 DEF CacheFollowsCard, SeenUris
<1> QED BY <1>1, <1>5, <1>9, <1>10, <1>11

LEMMA AllocateSlots ==
  ASSUME TypeInv, CacheFollowsCard, NoNumberedByte, SlotInv, KeptInv, UnusedInv,
         NEW c \in Creds, AllocateCredential(c)
  PROVE  SlotInv' /\ NoNewClaim
<1>1. PICK us \in SUBSET SeenUris : Reads(us)
  BY AllocateReads DEF TypeInv
<1>2. UNCHANGED <<blobs, used, kept>> /\ c \in Creds \ used
  BY DEF AllocateCredential
<1>3. BlobsInPlace' /\ OneClaim' /\ HidesSmaller' /\ NoNewClaim
  BY <1>1, <1>2, ReadMaps DEF SlotInv
<1>4. IdsListed'
  <2>1. uris' = SeenUris /\ loaded' = TRUE /\ DOMAIN cache' \subseteq DOMAIN cache \cup SeenUris
    BY <1>1 DEF AllocateCredential, Reads
  <2> QED BY <1>2, <2>1 DEF SlotInv, MapInv, IdsListed, SeenUris
<1>5. CASE op' = Idle
  BY <1>3, <1>4, <1>5 DEF SlotInv, MapInv, Idle, BufferReady, AllocInv, Allocating, ReleaseInv, Deleting
<1>6. ASSUME NEW i \in FreeIds, \A j \in FreeIds : i <= j,
             \/ /\ Holders(i) = {}
                /\ op' = [Idle EXCEPT !.at = "setCredential", !.cred = c, !.id = i]
             \/ \E u \in {v \in Holders(i) : ~Live(v)} :
                  op' = [Idle EXCEPT !.at = "takeOver", !.cred = c, !.id = i, !.uri = u]
      PROVE  AllocInv' /\ BufferReady' /\ ReleaseInv'
  <2>0. c \in Creds \ used /\ i \in FreeIds /\ \A j \in FreeIds : i <= j
    BY <1>2, <1>6
  <2>1. /\ i \in 1..MaxNoOfCredentials
        /\ <<c, 0>> \in DOMAIN blobs => i <= blobs[<<c, 0>>].value
        /\ \A u \in Holders(i) : \E d \in Creds : u = <<d, 0>> /\ Claims(d, i)
        /\ \A d \in Creds : Claims(d, i) => <<d, 0>> \in Holders(i)
        /\ \A d \in DOMAIN kept : Live(<<d, 0>>)
    BY <2>0, FreeSlot
  <2>2. /\ used' = used /\ kept' = kept /\ blobs' = blobs
        /\ loaded' = TRUE /\ pending' = Nobody
    BY <1>2 DEF AllocateCredential
  <2>3. \A d \in Creds : Claims(d, i)' => Claims(d, i)
    <3>1. i \in 1..255
      BY <2>1, Bounds
    <3> QED BY <1>3, <3>1 DEF NoNewClaim
  <2>4. CASE /\ Holders(i) = {}
             /\ op' = [Idle EXCEPT !.at = "setCredential", !.cred = c, !.id = i]
    <3>1. op'.at = "setCredential" /\ op'.cred = c /\ op'.id = i
      BY <2>4 DEF Idle
    <3>2. \A d \in Creds : ~Claims(d, i)'
      BY <2>1, <2>3, <2>4
    <3> QED BY <1>2, <2>1, <2>2, <3>1, <3>2
            DEF AllocInv, BufferReady, ReleaseInv, Deleting
  <2>5. ASSUME NEW u \in Holders(i), ~Live(u),
               op' = [Idle EXCEPT !.at = "takeOver", !.cred = c, !.id = i, !.uri = u]
        PROVE  AllocInv' /\ BufferReady' /\ ReleaseInv'
    <3>1. op'.at = "takeOver" /\ op'.cred = c /\ op'.id = i /\ op'.uri = u
      BY <2>5 DEF Idle
    <3>2. PICK e \in Creds : u = <<e, 0>> /\ Claims(e, i)
      BY <2>1
    <3>3. e \notin DOMAIN kept
      BY <2>1, <2>5, <3>2
    <3>4. \A d \in Creds : Claims(d, i)' => d = e
      BY <2>3, <3>2, ClaimBounds DEF SlotInv, MapInv, OneClaim
    <3> QED BY <1>2, <2>1, <2>2, <3>1, <3>2, <3>3, <3>4
            DEF AllocInv, BufferReady, ReleaseInv, Deleting
  <2> QED BY <1>6, <2>4, <2>5
<1>7. op' = Idle \/ SlotFor(c)
  BY AllocateReads DEF TypeInv
<1> QED BY <1>3, <1>4, <1>5, <1>6, <1>7 DEF SlotFor, SlotInv, MapInv

\* Once nobody claims a slot anew, what was true of the slot in hand stays true.
LEMMA SameRelease ==
  ASSUME TypeInv, ReleaseInv, NoNewClaim, UNCHANGED <<kept, pending>>, Deleting,
         op'.cred = op.cred, op'.id = op.id
  PROVE  ReleaseInv'
<1>1. op.id \in 1..255
  BY Bounds DEF ReleaseInv
<1> QED BY <1>1 DEF ReleaseInv, NoNewClaim

LEMMA TakeOverSlots ==
  ASSUME TypeInv, SlotInv, TakeOver, ~overlooked'
  PROVE  SlotInv'
<1>1. op \in OpTypes /\ op.at = "takeOver" /\ DeleteBlob(op.uri)
  BY DEF TakeOver, TypeInv, HostTypes
<1>2. UNCHANGED <<buffer, loaded, pending, kept, used>> /\ op' = [op EXCEPT !.at = "setCredential", !.uri = NoUri]
  BY DEF TakeOver
<1>3. MapInv' /\ NoNewClaim
  BY <1>1, <1>2, DeleteMaps DEF SlotInv
<1>4. op'.at = "setCredential" /\ op'.cred = op.cred /\ op'.id = op.id
  BY <1>1, <1>2, OpStep
<1>5. /\ op.cred \notin used /\ op.id \in 1..MaxNoOfCredentials /\ op.id \in 1..255 /\ loaded
      /\ pending = Nobody
      /\ <<op.cred, 0>> \in DOMAIN blobs => op.id <= blobs[<<op.cred, 0>>].value
      /\ \A d \in Creds : Claims(d, op.id) => d = op.cred \/ op.uri = <<d, 0>>
      /\ \E d \in Creds \ DOMAIN kept : op.uri = <<d, 0>>
  BY <1>1, Bounds DEF SlotInv, AllocInv, Allocating
<1>6. op.uri \notin DOMAIN blobs' /\ op.uri \notin DOMAIN cache'
  <2>1. op.uri[2] = 0
    BY <1>5
  <2>2. op.uri[2] = 0 => op.uri \notin DOMAIN blobs'
    BY <1>1, DeleteEffect
  <2>3. DOMAIN cache' = DOMAIN cache \ {op.uri}
    BY <1>1, DeleteEffect
  <2> QED BY <2>1, <2>2, <2>3
<1>7. \A d \in Creds : Claims(d, op.id)' => d = op.cred
  <2> SUFFICES ASSUME NEW d \in Creds, Claims(d, op.id)' PROVE d = op.cred
    OBVIOUS
  <2>1. Claims(d, op.id)
    BY <1>3, <1>4, <1>5 DEF NoNewClaim
  <2>2. op.uri # <<d, 0>>
    BY <1>6 DEF Claims
  <2> QED BY <1>5, <2>1, <2>2
<1>8. <<op.cred, 0>> \in DOMAIN blobs' =>
        <<op.cred, 0>> \in DOMAIN blobs /\ blobs'[<<op.cred, 0>>] = blobs[<<op.cred, 0>>]
  BY <1>1, DeleteEffect
<1>9. AllocInv'
  BY <1>2, <1>4, <1>5, <1>7, <1>8 DEF AllocInv
<1> QED BY <1>3, <1>4, <1>9 DEF SlotInv, BufferReady, ReleaseInv, Deleting

LEMMA SetCredentialSlots ==
  ASSUME TypeInv, SlotInv, SetCredential
  PROVE  SlotInv'
<1>1. op \in OpTypes /\ op.at = "setCredential"
  BY DEF SetCredential, TypeInv, HostTypes
<1>2. UNCHANGED <<blobs, cache, uris, loaded, buffer, pending, kept, used>>
  BY DEF SetCredential
<1>3. MapInv'
  BY <1>2 DEF SlotInv, MapInv, BlobsInPlace, OneClaim, IdsListed, HidesSmaller, Claims, InPlace
<1>4. CASE op' = Idle
  BY <1>3, <1>4 DEF SlotInv, Idle, BufferReady, AllocInv, Allocating, ReleaseInv, Deleting
<1>5. CASE op' = [op EXCEPT !.at = "putData"]
  <2>1. op'.at = "putData" /\ op'.cred = op.cred /\ op'.id = op.id
    BY <1>1, <1>5 DEF OpTypes
  <2>2. AllocInv'
    BY <1>1, <1>2, <2>1 DEF SlotInv, AllocInv, Allocating, Claims
  <2> QED BY <1>3, <2>1, <2>2 DEF SlotInv, BufferReady, ReleaseInv, Deleting
<1> QED BY <1>4, <1>5 DEF SetCredential

\* What is written into the caches before the card has it.
LEMMA PutMaps ==
  ASSUME TypeInv, SlotInv, PutData
  PROVE  /\ MapInv'
         /\ \A c \in Creds, i \in 1..255 :
              Claims(c, i)' => Claims(c, i) \/ (op.part = 0 /\ c = op.cred /\ i = op.id)
<1>1. /\ Target = <<op.cred, op.part>> /\ op.cred \in Creds /\ op.at = "putData"
      /\ op.part \in 0..MaxParts + 1
  BY DEF PutData, Target, TypeInv, OpInv, HostTypes, OpTypes
<1>2. /\ DOMAIN cache' = DOMAIN cache \cup {Target} /\ cache'[Target] = Content
      /\ \A v \in DOMAIN cache \ {Target} : cache'[v] = cache[v]
      /\ uris' = uris \cup {Target} /\ UNCHANGED <<blobs, loaded, used>>
  BY DEF PutData, Put, Changed
<1> MapInv
  BY DEF SlotInv
<1>3. CASE op.part = 0
  <2>1. Target = <<op.cred, 0>> /\ Content = IdBlob(op.id)
    BY <1>1, <1>3 DEF Content
  <2>2. op.id \in 1..NumCreds
    BY <1>1, <1>3 DEF TypeInv, OpInv
  <2>3. /\ op.cred \notin used /\ op.id \in 1..MaxNoOfCredentials /\ loaded
        /\ <<op.cred, 0>> \in DOMAIN blobs => op.id <= blobs[<<op.cred, 0>>].value
        /\ \A d \in Creds : Claims(d, op.id) => d = op.cred
    BY <1>1, <1>3 DEF SlotInv, AllocInv, Allocating
  <2>4. Content \in IdBlobs /\ Content.value = op.id
    BY <2>1, <2>2 DEF IdBlobs, IdBlob
  <2>5. \A c \in Creds, i \in 1..255 :
          Claims(c, i)' => Claims(c, i) \/ (op.part = 0 /\ c = op.cred /\ i = op.id)
    BY <1>2, <1>3, <2>1, <2>4 DEF Claims
  <2>6. BlobsInPlace'
    <3>1. InPlace(Target, Content)
      BY <2>1, <2>3, <2>4 DEF InPlace
    <3>2. \A v, b : InPlace(v, b)' <=> InPlace(v, b)
      BY DEF InPlace
    <3> QED BY <1>2, <3>1, <3>2 DEF MapInv, BlobsInPlace
  <2>7. OneClaim'
    <3> SUFFICES ASSUME NEW c \in Creds, NEW d \in Creds, NEW i \in 1..NumCreds,
                        Claims(c, i)', Claims(d, i)'
                 PROVE  c = d
      BY DEF OneClaim
    <3>1. i \in 1..255
      BY Bounds
    <3> QED BY <2>3, <2>5, <3>1 DEF MapInv, OneClaim
  <2>8. IdsListed'
    BY <1>2, <2>3 DEF MapInv, IdsListed
  <2>9. HidesSmaller'
    <3>1. ASSUME <<op.cred, 0>> \in DOMAIN blobs
          PROVE  Content = blobs[<<op.cred, 0>>] \/ Content.value < blobs[<<op.cred, 0>>].value
      <4>1. blobs[<<op.cred, 0>>] = IdBlob(blobs[<<op.cred, 0>>].value)
            /\ blobs[<<op.cred, 0>>].value \in 1..NumCreds
        BY <3>1, IdInPlace DEF MapInv, BlobsInPlace
      <4> QED BY <2>1, <2>2, <2>3, <2>4, <3>1, <4>1, Bounds
    <3> QED BY <1>2, <2>1, <2>3, <3>1 DEF MapInv, HidesSmaller
  <2> QED BY <2>5, <2>6, <2>7, <2>8, <2>9 DEF MapInv
<1>4. CASE op.part # 0
  <2>1. Content \in Pieces /\ Target[2] # 0
    <3>1. pending \in Issues /\ op.part \in 1..pending.shape.parts
      BY <1>1, <1>4 DEF TypeInv, OpInv, HostTypes, Issues
    <3>2. op.part \in 1..MaxParts /\ pending.shape \in Shapes /\ pending.gen \in 1..MaxIssued
      BY <3>1, HostAssumption, Bounds DEF Issues
    <3>3. Content = Piece([gen |-> pending.gen, shape |-> pending.shape], op.part)
      BY <1>4 DEF Content, Piece
    <3> QED BY <1>1, <1>4, <3>2, <3>3 DEF Pieces
  <2>2. \A c : <<c, 0>> # Target
    BY <2>1
  <2>3. \A c : /\ <<c, 0>> \in DOMAIN cache' <=> <<c, 0>> \in DOMAIN cache
               /\ <<c, 0>> \in DOMAIN cache => cache'[<<c, 0>>] = cache[<<c, 0>>]
               /\ <<c, 0>> \in uris' <=> <<c, 0>> \in uris
    BY <1>2, <2>2
  <2>4. \A c \in Creds, i \in 1..255 : Claims(c, i)' => Claims(c, i)
    BY <1>2, <2>3 DEF Claims
  <2>5. BlobsInPlace'
    BY <1>2, <2>1 DEF MapInv, BlobsInPlace, InPlace
  <2>6. OneClaim'
    BY <2>4, Bounds DEF MapInv, OneClaim
  <2>7. IdsListed'
    BY <1>2, <2>3 DEF MapInv, IdsListed
  <2>8. HidesSmaller'
    BY <1>2, <2>3 DEF MapInv, HidesSmaller
  <2> QED BY <2>4, <2>5, <2>6, <2>7, <2>8 DEF MapInv
<1> QED BY <1>3, <1>4

LEMMA PutDataSlots ==
  ASSUME TypeInv, SlotInv, PutData, ~overlooked'
  PROVE  SlotInv'
<1>1. op \in OpTypes /\ op.at = "putData" /\ op' = [op EXCEPT !.at = "storeBlob"]
  BY DEF PutData, TypeInv, HostTypes
<1>2. op'.at = "storeBlob" /\ op'.cred = op.cred /\ op'.id = op.id /\ op'.part = op.part
  BY <1>1 DEF OpTypes
<1>3. UNCHANGED <<blobs, loaded, pending, kept, used>>
  BY DEF PutData
<1>4. BufferReady'
  <2>1. Content' = Content
    BY <1>2, <1>3 DEF Content
  <2> QED BY <2>1 DEF PutData, BufferReady
<1>5. AllocInv'
  <2> SUFFICES ASSUME op.part = 0 PROVE AllocInv'
    BY <1>2 DEF AllocInv, Allocating
  <2>1. /\ op.cred \notin used /\ op.id \in 1..MaxNoOfCredentials /\ op.id \in 1..255 /\ loaded
        /\ pending = Nobody
        /\ <<op.cred, 0>> \in DOMAIN blobs => op.id <= blobs[<<op.cred, 0>>].value
        /\ \A d \in Creds : Claims(d, op.id) => d = op.cred
    BY <1>1, Bounds DEF SlotInv, AllocInv, Allocating
  <2>2. \A d \in Creds : Claims(d, op.id)' => d = op.cred
    BY <1>2, <2>1, PutMaps
  <2> QED BY <1>2, <1>3, <2>1, <2>2 DEF AllocInv
<1>6. MapInv'
  BY PutMaps
<1> QED BY <1>2, <1>4, <1>5, <1>6 DEF SlotInv, ReleaseInv, Deleting

LEMMA StoreSlots ==
  ASSUME TypeInv, StoringInv, SlotInv, StoreId \/ StorePiece
  PROVE  SlotInv'
<1>1. op \in OpTypes /\ StoreBlob /\ UNCHANGED <<cache, uris, loaded, used>>
  BY DEF StoreId, StorePiece, TypeInv, HostTypes
<1>2. MapInv'
  BY <1>1, StoreMaps DEF SlotInv
<1>3. op'.at = "idle" \/ (op'.at = "putData" /\ op'.part # 0)
  <2>1. CASE op' = Idle
    BY <2>1 DEF Idle
  <2>2. CASE StorePiece /\ op' = [op EXCEPT !.at = "putData", !.part = op.part + 1]
    <3>1. op.part \in Nat
      BY <1>1, Bounds DEF OpTypes
    <3> QED BY <1>1, <2>2, <3>1 DEF OpTypes
  <2> QED BY <2>1, <2>2 DEF StoreId, StorePiece
<1> QED BY <1>2, <1>3 DEF SlotInv, BufferReady, AllocInv, Allocating, ReleaseInv, Deleting

LEMMA StoreCredentialSlots ==
  ASSUME TypeInv, CacheFollowsCard, SlotInv, PendingInv, StoreCredential
  PROVE  SlotInv'
<1>1. /\ UNCHANGED <<blobs, cache, uris, loaded>> /\ pending # Nobody
      /\ used' = used \cup {pending.cred} /\ op'.at = "putData" /\ op'.part = 1
  BY DEF StoreCredential, Idle
<1>2. <<pending.cred, 0>> \in DOMAIN blobs \ doubtful
  BY <1>1 DEF PendingInv, Held
<1>3. HidesSmaller'
  BY <1>1, <1>2 DEF SlotInv, MapInv, HidesSmaller, CacheFollowsCard
<1>4. BlobsInPlace' /\ OneClaim' /\ IdsListed'
  BY <1>1 DEF SlotInv, MapInv, BlobsInPlace, OneClaim, IdsListed, Claims, InPlace
<1> QED BY <1>1, <1>3, <1>4 DEF SlotInv, MapInv, BufferReady, AllocInv, Allocating, ReleaseInv, Deleting

LEMMA ReadPieceSlots ==
  ASSUME TypeInv, SlotInv, ReadPiece
  PROVE  SlotInv'
<1>1. /\ op \in OpTypes /\ op.part # 0 /\ GetBlob(Target)
      /\ UNCHANGED <<blobs, uris, loaded, used>>
  BY DEF ReadPiece, cardVars, TypeInv, OpInv, HostTypes
<1>2. PICK us \in SUBSET {Target} : Reads(us)
  BY <1>1, GetBlobReads DEF TypeInv
<1>3. BlobsInPlace' /\ OneClaim' /\ HidesSmaller'
  BY <1>1, <1>2, ReadMaps DEF SlotInv
<1>4. IdsListed'
  <2>1. \A d : <<d, 0>> \notin us
    BY <1>1, <1>2 DEF Target
  <2>2. \A d : <<d, 0>> \in DOMAIN cache' =>
          <<d, 0>> \in DOMAIN cache /\ cache'[<<d, 0>>] = cache[<<d, 0>>]
    BY <1>2, <2>1 DEF Reads, BlobOf
  <2> QED BY <1>1, <2>2 DEF SlotInv, MapInv, IdsListed
<1>5. op'.at \in {"getBlob", "idle"}
  BY <1>1 DEF ReadPiece, OpTypes, Idle
<1> QED BY <1>3, <1>4, <1>5 DEF SlotInv, MapInv, BufferReady, AllocInv, Allocating, ReleaseInv, Deleting

LEMMA DeleteCredentialSlots ==
  ASSUME TypeInv, SlotInv, NEW c \in Creds, DeleteCredential(c)
  PROVE  SlotInv'
<1>1. /\ Known(<<c, 0>>) /\ Reads({<<c, 0>>}) /\ UNCHANGED <<blobs, uris, loaded, used>>
  BY ReadAllReads DEF DeleteCredential, cardVars
<1>2. BlobsInPlace' /\ OneClaim' /\ HidesSmaller' /\ NoNewClaim
  BY <1>1, ReadMaps DEF SlotInv
<1>3. IdsListed'
  BY <1>1 DEF Reads, BlobOf, Known, SlotInv, MapInv, IdsListed
<1>4. op' = [at |-> "removeId", cred |-> c, id |-> BlobOf(<<c, 0>>).value, part |-> 0, uri |-> NoUri]
  BY DEF DeleteCredential, Idle
<1> PICK i : i = BlobOf(<<c, 0>>).value
  OBVIOUS
<1>5. Claims(c, i) /\ i \in 1..NumCreds /\ i \in 1..255
  <2>1. Claims(c, i)
    BY <1>1 DEF Claims, Known, BlobOf
  <2> QED BY <2>1, ClaimBounds DEF SlotInv, MapInv
<1>6. ReleaseInv'
  <2>1. c \notin DOMAIN kept'
    BY DEF DeleteCredential
  <2>2. c # pending'.cred
    BY HostAssumption DEF DeleteCredential, Nobody
  <2>3. \A d \in Creds : Claims(d, i)' => d = c
    BY <1>2, <1>5 DEF NoNewClaim, SlotInv, MapInv, OneClaim
  <2> QED BY <1>4, <1>5, <2>1, <2>2, <2>3 DEF ReleaseInv
<1> QED BY <1>2, <1>3, <1>4, <1>6 DEF SlotInv, MapInv, BufferReady, AllocInv, Allocating

LEMMA RemoveSlots ==
  ASSUME TypeInv, SlotInv, RemoveId \/ RemovePiece, ~overlooked'
  PROVE  SlotInv'
<1>1. op \in OpTypes /\ Deleting /\ UNCHANGED <<loaded, used, kept, pending>>
  BY DEF RemoveId, RemovePiece, Deleting, TypeInv, HostTypes
<1>2. MapInv' /\ NoNewClaim
  BY <1>1, DeleteMaps DEF RemoveId, RemovePiece, SlotInv
<1>3. op'.at \in {"removePiece", "removeCredential"} /\ op'.cred = op.cred /\ op'.id = op.id
  BY <1>1 DEF RemoveId, RemovePiece, OpTypes
<1>4. ReleaseInv'
  BY <1>1, <1>2, <1>3, SameRelease DEF SlotInv
<1> QED BY <1>2, <1>3, <1>4 DEF SlotInv, BufferReady, AllocInv, Allocating

LEMMA RestSlots ==
  ASSUME TypeInv, SlotInv,
         RemoveCredential \/ HostRestart \/ ListingLost \/ \E c \in Creds : GetCredential(c)
  PROVE  SlotInv'
<1>1. op'.at \in {"idle", "getBlob"} /\ UNCHANGED <<blobs, used>>
  <2>1. ASSUME NEW c \in Creds, GetCredential(c)
        PROVE  op'.at = "getBlob" /\ UNCHANGED <<blobs, used>>
    BY <2>1 DEF GetCredential, cardVars, hostHist, Idle
  <2>2. CASE RemoveCredential \/ HostRestart
    BY <2>2 DEF RemoveCredential, HostRestart, cardVars, Idle
  <2>3. CASE ListingLost
    BY <2>3 DEF ListingLost, hostVars, Idle
  <2> QED BY <2>1, <2>2, <2>3
<1>2. CASE UNCHANGED <<cache, uris, loaded>>
  <2>1. MapInv'
    BY <1>1, <1>2 DEF SlotInv, MapInv, BlobsInPlace, OneClaim, IdsListed, HidesSmaller, Claims, InPlace
  <2> QED BY <1>1, <2>1 DEF SlotInv, BufferReady, AllocInv, Allocating, ReleaseInv, Deleting
<1>3. CASE HostRestart
  <2>1. DOMAIN cache' = {} /\ loaded' = FALSE
    BY <1>3 DEF HostRestart
  <2>2. MapInv'
    BY <1>1, <2>1 DEF SlotInv, MapInv, BlobsInPlace, OneClaim, IdsListed, HidesSmaller, Claims, InPlace
  <2> QED BY <1>1, <2>2 DEF SlotInv, BufferReady, AllocInv, Allocating, ReleaseInv, Deleting
<1> QED BY <1>2, <1>3 DEF RemoveCredential, ListingLost, GetCredential, hostVars

-----------------------------------------------------------------------------
(* What the card holds of a credential *)

\* Steps that store and delete no blob leave what the card holds.
LEMMA Frame ==
  ASSUME UNCHANGED blobs, doubtful' \subseteq doubtful,
         DOMAIN cache' \subseteq DOMAIN blobs \cup DOMAIN cache
  PROVE  /\ \A c, x : Held(c, x) /\ secret'[blobs[<<c, 0>>].value] = secret[blobs[<<c, 0>>].value]
                        => Held(c, x)'
         /\ \A c, x, k : HasPiece(c, x, k) => HasPiece(c, x, k)'
         /\ UnusedInv /\ used \subseteq used' => UnusedInv'
<1>1. \A c, x : Held(c, x) /\ secret'[blobs[<<c, 0>>].value] = secret[blobs[<<c, 0>>].value]
                  => Held(c, x)'
  BY DEF Held
<1>2. \A c, x, k : HasPiece(c, x, k) => HasPiece(c, x, k)'
  BY DEF HasPiece
<1>3. UnusedInv /\ used \subseteq used' => UnusedInv'
  BY DEF UnusedInv
<1> QED BY <1>1, <1>2, <1>3

\* The slot of a credential that is kept or pending is not the one in hand.
LEMMA SlotOfOthers ==
  ASSUME TypeInv, SlotInv, NEW c \in Creds, NEW x, Held(c, x), c # op.cred,
         op.at = "setCredential" \/ Deleting
  PROVE  blobs[<<c, 0>>].value \in 1..NumCreds /\ blobs[<<c, 0>>].value # op.id
<1> DEFINE i == blobs[<<c, 0>>].value
<1>1. Claims(c, i)
  BY DEF Held, Claims
<1>2. i \in 1..NumCreds
  BY <1>1, ClaimBounds DEF SlotInv, MapInv
<1>3. Claims(c, op.id) => c = op.cred
  BY DEF SlotInv, AllocInv, Allocating, ReleaseInv
<1> QED BY <1>1, <1>2, <1>3

LEMMA ReadHeld ==
  ASSUME TypeInv, HeldInv, NEW us, Reads(us),
         UNCHANGED <<blobs, secret, used, doubtful>>
  PROVE  /\ \A c, x : Held(c, x) => Held(c, x)'
         /\ \A c, x, k : HasPiece(c, x, k) => HasPiece(c, x, k)'
         /\ UnusedInv'
<1>1. DOMAIN cache' \subseteq DOMAIN blobs \cup DOMAIN cache
  BY DEF Reads, Known
<1>2. /\ \A c, x : Held(c, x) => Held(c, x)'
      /\ \A c, x, k : HasPiece(c, x, k) => HasPiece(c, x, k)'
      /\ UnusedInv'
  BY <1>1, Frame DEF HeldInv
<1> QED BY <1>2

LEMMA AllocateHeld ==
  ASSUME TypeInv, HeldInv, NEW c \in Creds, AllocateCredential(c)
  PROVE  HeldInv'
<1>1. UNCHANGED <<blobs, secret, used, doubtful, kept>> /\ pending' = Nobody
  BY DEF AllocateCredential
<1>2. /\ \A d, x : Held(d, x) => Held(d, x)'
      /\ \A d, x, k : HasPiece(d, x, k) => HasPiece(d, x, k)'
      /\ UnusedInv'
  BY <1>1, AllocateReads, ReadHeld DEF TypeInv
<1>3. op'.at \in {"idle", "takeOver", "setCredential"}
  BY AllocateReads DEF TypeInv
<1>4. KeptInv'
  BY <1>1, <1>2 DEF HeldInv, KeptInv
<1> QED BY <1>1, <1>2, <1>3, <1>4 DEF HeldInv, PendingInv

LEMMA ReadPieceHeld ==
  ASSUME TypeInv, HeldInv, ReadPiece
  PROVE  HeldInv'
<1>1. /\ op \in OpTypes /\ GetBlob(Target)
      /\ UNCHANGED <<blobs, secret, used, doubtful, kept, pending>>
  BY DEF ReadPiece, cardVars, TypeInv, HostTypes
<1>2. /\ \A d, x : Held(d, x) => Held(d, x)'
      /\ \A d, x, k : HasPiece(d, x, k) => HasPiece(d, x, k)'
      /\ UnusedInv'
  BY <1>1, GetBlobReads, ReadHeld DEF TypeInv
<1>3. op'.at \in {"getBlob", "idle"}
  BY <1>1 DEF ReadPiece, OpTypes, Idle
<1>4. KeptInv'
  BY <1>1, <1>2 DEF HeldInv, KeptInv
<1> QED BY <1>1, <1>2, <1>3, <1>4 DEF HeldInv, PendingInv

LEMMA DeleteCredentialHeld ==
  ASSUME TypeInv, HeldInv, NEW c \in Creds, DeleteCredential(c)
  PROVE  HeldInv'
<1>1. /\ UNCHANGED <<blobs, secret, used, doubtful>> /\ Reads({<<c, 0>>})
      /\ op'.at = "removeId" /\ pending' \in {pending, Nobody}
      /\ DOMAIN kept' = DOMAIN kept \ {c} /\ \A d \in DOMAIN kept' : kept'[d] = kept[d]
  BY ReadAllReads DEF DeleteCredential, cardVars, Idle
<1>2. /\ \A d, x : Held(d, x) => Held(d, x)'
      /\ \A d, x, k : HasPiece(d, x, k) => HasPiece(d, x, k)'
      /\ UnusedInv'
  BY <1>1, ReadHeld
<1>3. KeptInv'
  BY <1>1, <1>2 DEF HeldInv, KeptInv
<1>4. PendingInv'
  BY <1>1, <1>2 DEF HeldInv, PendingInv
<1> QED BY <1>2, <1>3, <1>4 DEF HeldInv

\* Drawing and erasing a secret: the ones of the others stay.
LEMMA SecretHeld ==
  ASSUME TypeInv, SlotInv, HeldInv, SetCredential \/ RemoveCredential
  PROVE  HeldInv'
<1>1. /\ UNCHANGED <<blobs, cache, doubtful, used, kept, pending>> /\ op.cred \notin DOMAIN kept
      /\ op.at = "setCredential" \/ Deleting
      /\ pending # Nobody => pending.cred # op.cred
  BY DEF SetCredential, RemoveCredential, Deleting, SlotInv, AllocInv, Allocating, ReleaseInv,
         TypeInv, HistTypes
<1>2. \A i \in 1..NumCreds : i # op.id => secret'[i] = secret[i]
  <2>1. CASE UNCHANGED secret
    BY <2>1
  <2>2. CASE secret' = [secret EXCEPT ![op.id] = issued']
    BY <2>2 DEF TypeInv, CardTypes
  <2>3. CASE secret' = [i \in DOMAIN secret |-> IF i = op.id THEN 0 ELSE secret[i]]
    BY <2>3 DEF TypeInv, CardTypes
  <2> QED BY <2>1, <2>2, <2>3 DEF SetCredential, RemoveCredential, Exchange, DrawSecret
<1>3. ASSUME NEW c \in Creds, NEW x, Held(c, x), c # op.cred
      PROVE  Held(c, x)'
  <2>1. blobs[<<c, 0>>].value \in 1..NumCreds /\ blobs[<<c, 0>>].value # op.id
    BY <1>1, <1>3, SlotOfOthers
  <2>2. secret'[blobs[<<c, 0>>].value] = secret[blobs[<<c, 0>>].value]
    BY <1>2, <2>1
  <2> QED BY <1>1, <1>3, <2>2 DEF Held
<1>4. /\ \A c, x, k : HasPiece(c, x, k) => HasPiece(c, x, k)'
      /\ UnusedInv'
  BY <1>1, Frame DEF HeldInv
<1>5. KeptInv'
  BY <1>1, <1>3, <1>4 DEF HeldInv, KeptInv, TypeInv, HistTypes
<1>6. op'.at = "idle" \/ (op'.at = "putData" /\ op'.part = 0)
  <2>1. CASE op' = Idle
    BY <2>1 DEF Idle
  <2>2. CASE SetCredential /\ op' = [op EXCEPT !.at = "putData"]
    BY <2>2 DEF SetCredential, TypeInv, OpInv, HostTypes, OpTypes
  <2> QED BY <2>1, <2>2 DEF SetCredential, RemoveCredential
<1>7. PendingInv'
  <2>1. pending # Nobody => pending.cred \in Creds
    BY DEF TypeInv, HostTypes, Issues
  <2> QED BY <1>1, <1>3, <1>6, <2>1 DEF HeldInv, PendingInv
<1> QED BY <1>1, <1>4, <1>5, <1>6, <1>7 DEF HeldInv

\* An operation that begins, and a listing that is lost.
LEMMA BeginHeld ==
  ASSUME TypeInv, HeldInv, StoreCredential \/ ListingLost \/ \E c \in Creds : GetCredential(c)
  PROVE  HeldInv'
<1>1. /\ UNCHANGED <<blobs, cache, secret, doubtful, kept, pending>> /\ used \subseteq used'
      /\ op'.at \in {"getBlob", "idle"} \/ (op'.at = "putData" /\ op'.part = 1)
  <2>1. CASE StoreCredential
    BY <2>1 DEF StoreCredential, Idle
  <2>2. CASE ListingLost
    BY <2>2 DEF ListingLost, hostVars, Idle
  <2>3. ASSUME NEW c \in Creds, GetCredential(c)
        PROVE  /\ UNCHANGED <<blobs, cache, secret, doubtful, kept, pending, used>>
               /\ op'.at = "getBlob"
    BY <2>3 DEF GetCredential, cardVars, hostHist, Idle
  <2> QED BY <2>1, <2>2, <2>3
<1>2. /\ \A c, x : Held(c, x) => Held(c, x)'
      /\ \A c, x, k : HasPiece(c, x, k) => HasPiece(c, x, k)'
      /\ UnusedInv'
  BY <1>1, Frame DEF HeldInv
<1>3. KeptInv' /\ PendingInv'
  BY <1>1, <1>2 DEF HeldInv, KeptInv, PendingInv
<1> QED BY <1>1, <1>2, <1>3 DEF HeldInv

LEMMA RestartHeld ==
  ASSUME TypeInv, HeldInv, HostRestart
  PROVE  HeldInv'
<1>1. /\ UNCHANGED <<blobs, secret, kept, used>> /\ DOMAIN cache' = {} /\ doubtful' = {}
      /\ pending' = Nobody /\ op'.at = "idle"
  BY DEF HostRestart, cardVars, Idle
<1>2. /\ \A c, x : Held(c, x) => Held(c, x)'
      /\ \A c, x, k : HasPiece(c, x, k) => HasPiece(c, x, k)'
      /\ UnusedInv'
  BY <1>1, Frame DEF HeldInv
<1>3. KeptInv'
  BY <1>1, <1>2 DEF HeldInv, KeptInv
<1> QED BY <1>1, <1>2, <1>3 DEF HeldInv, PendingInv

\* Deleting a blob of one credential leaves what the card holds of the others.
LEMMA DeleteHeld ==
  ASSUME TypeInv, HeldInv, NEW d \in Creds, NEW n \in 0..MaxParts + 1, NEW ok,
         DeleteBlob(<<d, n>>), Confirm(<<d, n>>, ok), UNCHANGED <<secret, used, kept, pending>>,
         d \notin DOMAIN kept, pending # Nobody => d # pending.cred
  PROVE  KeptInv' /\ UnusedInv' /\ (pending # Nobody => Held(pending.cred, pending)')
<1> DEFINE u == <<d, n>>
<1>1. /\ DOMAIN blobs \ {u} \subseteq DOMAIN blobs' /\ DOMAIN blobs' \subseteq DOMAIN blobs
      /\ \A v \in DOMAIN blobs' : blobs'[v] = blobs[v]
      /\ DOMAIN cache' = DOMAIN cache \ {u}
  BY DeleteEffect
<1>2. doubtful' \ {u} = doubtful \ {u}
  BY DEF Confirm
<1>3. \A c, x : c # d /\ Held(c, x) => Held(c, x)'
  BY <1>1, <1>2 DEF Held
<1>4. \A c, x, k : c # d /\ HasPiece(c, x, k) => HasPiece(c, x, k)'
  BY <1>1, <1>2 DEF HasPiece
<1>5. UnusedInv'
  BY <1>1 DEF HeldInv, UnusedInv
<1>6. KeptInv'
  BY <1>3, <1>4 DEF HeldInv, KeptInv
<1> QED BY <1>3, <1>5, <1>6 DEF HeldInv, PendingInv

LEMMA TakeOverHeld ==
  ASSUME TypeInv, SlotInv, HeldInv, TakeOver
  PROVE  HeldInv'
<1>1. op \in OpTypes /\ op.at = "takeOver" /\ DeleteBlob(op.uri) /\ Confirm(op.uri, heard)
  BY DEF TakeOver, TypeInv, HostTypes
<1>2. /\ UNCHANGED <<secret, used, kept, pending>>
      /\ op' = [op EXCEPT !.at = "setCredential", !.uri = NoUri]
  BY DEF TakeOver
<1>3. op'.at = "setCredential"
  BY <1>1, <1>2, OpStep
<1>4. pending = Nobody
  BY <1>1 DEF SlotInv, AllocInv, Allocating
<1>5. PICK d \in Creds \ DOMAIN kept : op.uri = <<d, 0>>
  BY <1>1 DEF SlotInv, AllocInv, Allocating
<1>6. DeleteBlob(<<d, 0>>) /\ Confirm(<<d, 0>>, heard)
  BY <1>1, <1>5
<1>7. 0 \in 0..MaxParts + 1
  BY Bounds
<1>8. KeptInv' /\ UnusedInv'
  BY <1>2, <1>4, <1>6, <1>7, DeleteHeld
<1> QED BY <1>2, <1>3, <1>4, <1>8 DEF HeldInv, PendingInv

LEMMA RemoveIdHeld ==
  ASSUME TypeInv, SlotInv, HeldInv, RemoveId
  PROVE  HeldInv'
<1> DEFINE c == op.cred
<1>1. /\ op \in OpTypes /\ op.at = "removeId" /\ c \in Creds
      /\ DeleteBlob(<<c, 0>>) /\ Confirm(<<c, 0>>, heard)
  BY DEF RemoveId, TypeInv, OpInv, HostTypes
<1>2. /\ UNCHANGED <<secret, used, kept, pending>>
      /\ op' = [op EXCEPT !.at = "removePiece", !.part = 1]
  BY DEF RemoveId
<1>3. op'.at = "removePiece" /\ op'.cred = c /\ op'.part = 1
  BY <1>1, <1>2 DEF OpTypes
<1>4. c \notin DOMAIN kept /\ c # pending.cred
  BY <1>1 DEF SlotInv, ReleaseInv, Deleting
<1>5. 0 \in 0..MaxParts + 1
  BY Bounds
<1>6. KeptInv' /\ UnusedInv' /\ (pending # Nobody => Held(pending.cred, pending)')
  BY <1>1, <1>2, <1>4, <1>5, DeleteHeld
<1> QED BY <1>2, <1>3, <1>4, <1>6 DEF HeldInv, PendingInv

LEMMA RemovePieceHeld ==
  ASSUME TypeInv, SlotInv, HeldInv, RemovePiece
  PROVE  HeldInv'
<1> DEFINE c == op.cred
           u == <<c, op.part>>
<1>1. /\ op \in OpTypes /\ op.at = "removePiece" /\ c \in Creds /\ op.part \in 0..MaxParts + 1
      /\ DeleteBlob(u) /\ Confirm(u, heard)
  BY DEF RemovePiece, TypeInv, OpInv, HostTypes, OpTypes
<1>2. UNCHANGED <<secret, used, kept, pending>>
  BY DEF RemovePiece
<1>3. c \notin DOMAIN kept /\ c # pending.cred
  BY <1>1 DEF SlotInv, ReleaseInv, Deleting
<1>4. KeptInv' /\ UnusedInv' /\ (pending # Nobody => Held(pending.cred, pending)')
  BY <1>1, <1>2, <1>3, DeleteHeld
<1>5. op'.at \in {"removePiece", "removeCredential"}
  <2>1. CASE op' = [op EXCEPT !.part = @ + 1]
    BY <1>1, <2>1 DEF OpTypes
  <2>2. CASE op' = [op EXCEPT !.at = "removeCredential"]
    BY <1>1, <2>2, OpStep
  <2> QED BY <2>1, <2>2 DEF RemovePiece
<1> QED BY <1>2, <1>3, <1>4, <1>5 DEF HeldInv, PendingInv

\* What STORE_BLOB does, whatever the host hears of it.
LEMMA StoreEffect ==
  ASSUME TypeInv, BufferReady, StoreBlob, Confirm(Target, stored /\ buffer = Content)
  PROVE  /\ DOMAIN blobs \subseteq DOMAIN blobs' /\ DOMAIN blobs' \subseteq DOMAIN blobs \cup {Target}
         /\ \A v \in DOMAIN blobs \ {Target} : blobs'[v] = blobs[v]
         /\ doubtful' \ {Target} = doubtful \ {Target}
         /\ stored => /\ Target \in DOMAIN blobs' \ doubtful'
                      /\ blobs'[Target] = Content
<1>1. buffer = Content
  BY DEF BufferReady, StoreBlob
<1>2. /\ blobs' \in {blobs, Changed(blobs, Target, Content)}
      /\ stored => blobs' = Changed(blobs, Target, Content)
  BY <1>1, StoreTypes
<1>3. doubtful' = IF stored THEN doubtful \ {Target} ELSE doubtful \cup {Target}
  BY <1>1 DEF Confirm
<1> QED BY <1>2, <1>3 DEF Changed

\* The blob of one credential: what the card holds of the others stays.
LEMMA OthersHeld ==
  ASSUME HeldInv, NEW d, NEW n,
         DOMAIN blobs \subseteq DOMAIN blobs', DOMAIN blobs' \subseteq DOMAIN blobs \cup {<<d, n>>},
         \A v \in DOMAIN blobs \ {<<d, n>>} : blobs'[v] = blobs[v],
         doubtful' \ {<<d, n>>} = doubtful \ {<<d, n>>},
         DOMAIN cache' \subseteq DOMAIN cache \cup {<<d, n>>}, UNCHANGED secret
  PROVE  /\ \A c, x : c # d /\ Held(c, x) => Held(c, x)'
         /\ \A c, x, k : (c # d \/ k # n) /\ HasPiece(c, x, k) => HasPiece(c, x, k)'
         /\ \A c, k : c # d => (<<c, k>> \in DOMAIN blobs' \cup DOMAIN cache'
                                  => <<c, k>> \in DOMAIN blobs \cup DOMAIN cache)
<1>1. \A c, x : c # d /\ Held(c, x) => Held(c, x)'
  BY DEF Held
<1>2. \A c, x, k : (c # d \/ k # n) /\ HasPiece(c, x, k) => HasPiece(c, x, k)'
  BY DEF HasPiece
<1> QED BY <1>1, <1>2

\* A piece of the pending credential: what the card holds of it already stays.
LEMMA PieceHeld ==
  ASSUME TypeInv, HeldInv, pending # Nobody, NEW n \in 1..pending.shape.parts,
         DOMAIN blobs \subseteq DOMAIN blobs',
         DOMAIN blobs' \subseteq DOMAIN blobs \cup {<<pending.cred, n>>},
         \A v \in DOMAIN blobs \ {<<pending.cred, n>>} : blobs'[v] = blobs[v],
         doubtful' \ {<<pending.cred, n>>} = doubtful \ {<<pending.cred, n>>},
         DOMAIN cache' \subseteq DOMAIN cache \cup {<<pending.cred, n>>}, UNCHANGED secret
  PROVE  /\ pending.cred \notin DOMAIN kept
         /\ /\ <<pending.cred, 0>> \in DOMAIN blobs' \ doubtful'
            /\ secret'[blobs'[<<pending.cred, 0>>].value] = pending.gen
            /\ \A k \in 1..MaxParts : <<pending.cred, k>> \in DOMAIN blobs' \cup DOMAIN cache'
                                        => k <= pending.shape.parts
         /\ \A c \in Creds : <<c, 0>> \in DOMAIN blobs' \cup DOMAIN cache' =>
                             <<c, 0>> \in DOMAIN blobs \cup DOMAIN cache
<1> DEFINE c == pending.cred
<1>1. /\ c \notin DOMAIN kept /\ <<c, 0>> \in DOMAIN blobs \ doubtful
      /\ secret[blobs[<<c, 0>>].value] = pending.gen
      /\ \A k \in 1..MaxParts : <<c, k>> \in DOMAIN blobs \cup DOMAIN cache => k <= pending.shape.parts
  BY DEF HeldInv, PendingInv, Held
<1>2. pending.shape.parts \in Nat
  BY HostAssumption DEF TypeInv, HostTypes, Issues
<1>3. <<c, 0>> # <<c, n>>
  BY <1>2
<1>4. <<c, 0>> \in DOMAIN blobs' \ doubtful' /\ secret'[blobs'[<<c, 0>>].value] = pending.gen
  BY <1>1, <1>3
<1>5. \A k \in 1..MaxParts : <<c, k>> \in DOMAIN blobs' \cup DOMAIN cache' => k <= pending.shape.parts
  BY <1>1, <1>2
<1>6. \A d \in Creds : <<d, 0>> # <<c, n>>
  BY <1>2
<1> QED BY <1>1, <1>4, <1>5, <1>6

LEMMA PutDataHeld ==
  ASSUME TypeInv, SlotInv, HeldInv, PutData
  PROVE  HeldInv'
<1>1. /\ op \in OpTypes /\ op.at = "putData" /\ op' = [op EXCEPT !.at = "storeBlob"]
      /\ Target = <<op.cred, op.part>> /\ op.cred \in Creds /\ op.part \in Nat
  BY Bounds DEF PutData, Target, TypeInv, OpInv, HostTypes, OpTypes
<1>2. op'.at = "storeBlob" /\ op'.cred = op.cred /\ op'.part = op.part
  BY <1>1 DEF OpTypes
<1>3. /\ UNCHANGED <<blobs, secret, pending, kept, used>>
      /\ DOMAIN cache' = DOMAIN cache \cup {<<op.cred, op.part>>}
      /\ doubtful' = doubtful \cup {<<op.cred, op.part>>}
  BY <1>1 DEF PutData, Put, Changed
<1>4. /\ \A c, x : c # op.cred /\ Held(c, x) => Held(c, x)'
      /\ \A c, x, k : (c # op.cred \/ k # op.part) /\ HasPiece(c, x, k) => HasPiece(c, x, k)'
      /\ \A c, k : c # op.cred => (<<c, k>> \in DOMAIN blobs' \cup DOMAIN cache'
                                     => <<c, k>> \in DOMAIN blobs \cup DOMAIN cache)
  BY <1>3, OthersHeld
<1>5. CASE op.part = 0
  <2>1. op.cred \in Creds \ used /\ pending = Nobody
    BY <1>1, <1>5 DEF SlotInv, AllocInv, Allocating
  <2>2. KeptInv'
    BY <1>3, <1>4, <2>1 DEF HeldInv, KeptInv, TypeInv, HistTypes
  <2>3. UnusedInv'
    <3>1. \A d, k : k \in 1..MaxParts => <<d, k>> # <<op.cred, op.part>>
      BY <1>5
    <3> QED BY <1>3, <3>1 DEF HeldInv, UnusedInv
  <2>4. PendingInv'
    BY <1>2, <1>3, <1>5, <2>1 DEF PendingInv
  <2> QED BY <2>2, <2>3, <2>4 DEF HeldInv
<1>6. CASE op.part # 0
  <2>1. /\ pending # Nobody /\ op.cred = pending.cred /\ op.cred \in used
        /\ op.part \in 1..pending.shape.parts
    BY <1>1, <1>6 DEF TypeInv, OpInv
  <2>2. /\ pending.cred \notin DOMAIN kept
        /\ /\ <<pending.cred, 0>> \in DOMAIN blobs' \ doubtful'
           /\ secret'[blobs'[<<pending.cred, 0>>].value] = pending.gen
           /\ \A k \in 1..MaxParts : <<pending.cred, k>> \in DOMAIN blobs' \cup DOMAIN cache'
                                       => k <= pending.shape.parts
        /\ \A c \in Creds : <<c, 0>> \in DOMAIN blobs' \cup DOMAIN cache' =>
                            <<c, 0>> \in DOMAIN blobs \cup DOMAIN cache
    BY <1>3, <2>1, PieceHeld
  <2>3. KeptInv'
    BY <1>3, <1>4, <2>1, <2>2 DEF HeldInv, KeptInv
  <2>4. UnusedInv'
    BY <1>3, <1>4, <2>1 DEF HeldInv, UnusedInv
  <2>5. Held(pending.cred, pending)'
    BY <1>3, <2>2 DEF Held
  <2>6. \A k \in 1..op.part - 1 : HasPiece(pending.cred, pending, k)'
    <3>1. \A k \in 1..op.part - 1 : k # op.part /\ HasPiece(pending.cred, pending, k)
      BY <1>1 DEF HeldInv, PendingInv
    <3> QED BY <1>2, <1>3, <1>4, <3>1
  <2>7. PendingInv'
    BY <1>2, <1>3, <2>2, <2>5, <2>6 DEF PendingInv
  <2> QED BY <2>3, <2>4, <2>7 DEF HeldInv
<1> QED BY <1>5, <1>6

LEMMA StoreIdHeld ==
  ASSUME TypeInv, SlotInv, HeldInv, StoreId
  PROVE  HeldInv'
<1> DEFINE c == op.cred
<1>1. /\ op \in OpTypes /\ op.at = "storeBlob" /\ op.part = 0 /\ StoreBlob
      /\ Target = <<c, 0>> /\ c \in Creds /\ Content = IdBlob(op.id)
      /\ Confirm(Target, stored /\ buffer = Content) /\ BufferReady
  BY DEF StoreId, StoreBlob, Target, Content, TypeInv, OpInv, HostTypes, SlotInv
<1>2. /\ UNCHANGED <<secret, cache, kept, used>> /\ op'.at = "idle"
      /\ pending' \in IF ~stored THEN {Nobody}
                      ELSE {[cred |-> c, gen |-> secret[op.id], shape |-> s] : s \in Shapes}
  BY DEF StoreId, Idle
<1>3. c \in Creds \ used
  BY <1>1 DEF SlotInv, AllocInv, Allocating
<1>4. /\ DOMAIN blobs \subseteq DOMAIN blobs' /\ DOMAIN blobs' \subseteq DOMAIN blobs \cup {<<c, 0>>}
      /\ \A v \in DOMAIN blobs \ {<<c, 0>>} : blobs'[v] = blobs[v]
      /\ doubtful' \ {<<c, 0>>} = doubtful \ {<<c, 0>>}
      /\ stored => <<c, 0>> \in DOMAIN blobs' \ doubtful' /\ blobs'[<<c, 0>>] = IdBlob(op.id)
  BY <1>1, StoreEffect
<1>5. /\ \A d, x : d # c /\ Held(d, x) => Held(d, x)'
      /\ \A d, x, k : (d # c \/ k # 0) /\ HasPiece(d, x, k) => HasPiece(d, x, k)'
      /\ \A d, k : d # c => (<<d, k>> \in DOMAIN blobs' \cup DOMAIN cache'
                               => <<d, k>> \in DOMAIN blobs \cup DOMAIN cache)
  BY <1>2, <1>4, OthersHeld
<1>6. KeptInv'
  BY <1>2, <1>3, <1>5 DEF HeldInv, KeptInv, TypeInv, HistTypes
<1>7. UnusedInv'
  <2>1. \A d, k : k \in 1..MaxParts => <<d, k>> # <<c, 0>>
    OBVIOUS
  <2> QED BY <1>2, <1>4, <2>1 DEF HeldInv, UnusedInv
<1>8. \A k \in 1..MaxParts : <<c, k>> \notin DOMAIN blobs' \cup DOMAIN cache'
  BY <1>2, <1>3, <1>7 DEF UnusedInv
<1>9. PendingInv'
  <2>1. CASE pending' = Nobody
    BY <1>2, <2>1 DEF PendingInv
  <2>2. ASSUME stored, NEW s \in Shapes,
               pending' = [cred |-> c, gen |-> secret[op.id], shape |-> s]
        PROVE  PendingInv'
    <3>1. pending'.cred = c /\ pending'.gen = secret[op.id]
      BY <2>2
    <3>2. c \notin DOMAIN kept'
      BY <1>2, <1>3 DEF TypeInv, HistTypes
    <3>3. blobs'[<<c, 0>>].value = op.id
      BY <1>4, <2>2 DEF IdBlob
    <3>4. Held(pending.cred, pending)'
      BY <1>2, <1>4, <1>8, <2>2, <3>1, <3>3 DEF Held
    <3> QED BY <1>2, <3>1, <3>2, <3>4 DEF PendingInv
  <2> QED BY <1>2, <2>1, <2>2
<1> QED BY <1>6, <1>7, <1>9 DEF HeldInv

LEMMA StorePieceHeld ==
  ASSUME TypeInv, SlotInv, HeldInv, StorePiece
  PROVE  HeldInv'
<1> DEFINE c == pending.cred
           p == op.part
<1>1. /\ op \in OpTypes /\ op.at = "storeBlob" /\ p \in Nat /\ p # 0 /\ StoreBlob
      /\ Confirm(Target, stored /\ buffer = Content) /\ BufferReady
  <2>1. StoreBlob /\ p > 0 /\ Confirm(Target, stored /\ buffer = Content)
    BY DEF StorePiece
  <2>2. op \in OpTypes /\ p \in Nat
    BY Bounds DEF TypeInv, HostTypes, OpTypes
  <2>3. op.at = "storeBlob"
    BY <2>1 DEF StoreBlob
  <2> QED BY <2>1, <2>2, <2>3 DEF SlotInv
<1>2. /\ pending # Nobody /\ pending \in Issues /\ op.cred = c /\ c \in used /\ c \in Creds
      /\ p \in 1..pending.shape.parts /\ pending.shape.parts \in 1..MaxParts
      /\ Target = <<c, p>> /\ Content = Piece(pending, p)
  BY <1>1, HostAssumption DEF TypeInv, OpInv, HostTypes, Issues, Target, Content
<1>3. UNCHANGED <<secret, cache, used>>
  BY DEF StorePiece
<1>4. /\ DOMAIN blobs \subseteq DOMAIN blobs' /\ DOMAIN blobs' \subseteq DOMAIN blobs \cup {<<c, p>>}
      /\ \A v \in DOMAIN blobs \ {<<c, p>>} : blobs'[v] = blobs[v]
      /\ doubtful' \ {<<c, p>>} = doubtful \ {<<c, p>>}
      /\ stored => <<c, p>> \in DOMAIN blobs' \ doubtful' /\ blobs'[<<c, p>>] = Piece(pending, p)
  BY <1>1, <1>2, StoreEffect
<1>5. /\ \A d, x : d # c /\ Held(d, x) => Held(d, x)'
      /\ \A d, x, k : (d # c \/ k # p) /\ HasPiece(d, x, k) => HasPiece(d, x, k)'
      /\ \A d, k : d # c => (<<d, k>> \in DOMAIN blobs' \cup DOMAIN cache'
                               => <<d, k>> \in DOMAIN blobs \cup DOMAIN cache)
  BY <1>3, <1>4, OthersHeld
<1>6. /\ c \notin DOMAIN kept
      /\ /\ <<c, 0>> \in DOMAIN blobs' \ doubtful'
         /\ secret'[blobs'[<<c, 0>>].value] = pending.gen
         /\ \A k \in 1..MaxParts : <<c, k>> \in DOMAIN blobs' \cup DOMAIN cache'
                                     => k <= pending.shape.parts
      /\ \A d \in Creds : <<d, 0>> \in DOMAIN blobs' \cup DOMAIN cache' =>
                          <<d, 0>> \in DOMAIN blobs \cup DOMAIN cache
  BY <1>2, <1>3, <1>4, PieceHeld
<1>7. UnusedInv'
  BY <1>2, <1>3, <1>5 DEF HeldInv, UnusedInv
<1>8. \A k \in 1..p - 1 : HasPiece(c, pending, k)
  BY <1>1 DEF HeldInv, PendingInv
\* What the card holds of the pending credential, whatever becomes of it.
<1> DEFINE HasNow(k) == /\ <<c, k>> \in DOMAIN blobs' \ doubtful'
                        /\ blobs'[<<c, k>>] = Piece(pending, k)
<1>9. /\ \A k \in 1..p - 1 : HasNow(k)
      /\ stored => \A k \in 1..p : HasNow(k)
  <2>1. \A k \in 1..p - 1 : HasNow(k)
    <3>1. \A k \in 1..p - 1 : <<c, k>> # <<c, p>>
      BY <1>1
    <3> QED BY <1>4, <1>8, <3>1 DEF HasPiece
  <2>2. \A k \in 1..p : k = p \/ k \in 1..p - 1
    BY <1>1
  <2> QED BY <1>4, <2>1, <2>2
<1>10. op'.at = "idle" \/ (stored /\ p # pending.shape.parts /\ op'.at = "putData" /\ op'.part = p + 1)
  <2>1. CASE op' = Idle
    BY <2>1 DEF Idle
  <2>2. CASE /\ stored /\ p # pending.shape.parts
             /\ op' = [op EXCEPT !.at = "putData", !.part = p + 1]
    BY <1>1, <2>2 DEF OpTypes
  <2> QED BY <2>1, <2>2 DEF StorePiece
<1>11. CASE stored /\ p = pending.shape.parts
  <2>1. /\ pending' = Nobody /\ kept' = Changed(kept, c, pending) /\ op' = Idle
    BY <1>2, <1>11 DEF StorePiece
  <2>2. KeptInv'
    <3> SUFFICES ASSUME NEW d \in DOMAIN kept'
                 PROVE  /\ kept'[d] \in Issues /\ Held(d, kept[d])'
                        /\ \A k \in 1..kept'[d].shape.parts : HasPiece(d, kept[d], k)'
      BY DEF KeptInv, Issues
    <3>1. CASE d = c
      <4>1. kept'[d] = pending
        BY <2>1, <3>1 DEF Changed
      <4>2. Held(d, kept[d])'
        BY <1>6, <3>1, <4>1 DEF Held
      <4>3. \A k \in 1..pending.shape.parts : HasPiece(d, kept[d], k)'
        BY <1>9, <1>11, <3>1, <4>1 DEF HasPiece
      <4> QED BY <1>2, <4>1, <4>2, <4>3
    <3>2. CASE d # c
      <4>1. d \in DOMAIN kept /\ kept'[d] = kept[d]
        BY <2>1, <3>2 DEF Changed
      <4>2. /\ kept[d] \in Issues /\ Held(d, kept[d])
            /\ \A k \in 1..kept[d].shape.parts : HasPiece(d, kept[d], k)
        BY <4>1 DEF HeldInv, KeptInv
      <4> QED BY <1>5, <3>2, <4>1, <4>2
    <3> QED BY <3>1, <3>2
  <2>3. PendingInv'
    BY <2>1 DEF PendingInv, Idle
  <2> QED BY <1>7, <2>2, <2>3 DEF HeldInv
<1>12. CASE ~(stored /\ p = pending.shape.parts)
  <2>1. pending' = pending /\ kept' = kept
    BY <1>12 DEF StorePiece
  <2>2. KeptInv'
    BY <1>5, <1>6, <2>1 DEF HeldInv, KeptInv
  <2>3. Held(pending.cred, pending)'
    BY <1>6, <2>1 DEF Held
  <2>4. ASSUME op'.at = "putData", NEW k \in 1..op'.part - 1
        PROVE  HasPiece(pending.cred, pending, k)'
    <3>1. k \in 1..p /\ stored
      BY <1>1, <1>10, <2>4
    <3> QED BY <1>9, <2>1, <3>1 DEF HasPiece
  <2>5. PendingInv'
    BY <1>6, <1>10, <2>1, <2>3, <2>4 DEF PendingInv
  <2> QED BY <1>7, <2>2, <2>5 DEF HeldInv
<1> QED BY <1>11, <1>12

-----------------------------------------------------------------------------
(* The invariant and what follows from it *)

LEMMA InitStored == HostInit => StoredInv
<1> SUFFICES ASSUME HostInit PROVE StoredInv
  OBVIOUS
<1>1. /\ DOMAIN blobs = {} /\ DOMAIN cache = {} /\ DOMAIN kept = {} /\ op.at = "idle" /\ ~loaded
      /\ pending = Nobody
  BY DEF HostInit, Card!Init, Idle
<1>2. SlotInv
  BY <1>1 DEF SlotInv, MapInv, BlobsInPlace, OneClaim, Claims, IdsListed, HidesSmaller, BufferReady,
              AllocInv, Allocating, ReleaseInv, Deleting
<1>3. HeldInv
  BY <1>1 DEF HeldInv, KeptInv, PendingInv, UnusedInv
<1> QED BY <1>2, <1>3 DEF StoredInv

LEMMA StepStored ==
  ASSUME NoNumberedByte, TypeInv, CacheInv, StoredInv, [HostNext]_credVars
  PROVE  StoredInv'
<1> SUFFICES ASSUME ~overlooked' PROVE SlotInv' /\ HeldInv'
  BY DEF StoredInv
<1>1. SlotInv /\ HeldInv
  BY OverlookedStays DEF StoredInv
<1>2. CacheFollowsCard /\ StoringInv /\ KeptInv /\ PendingInv /\ UnusedInv
  BY <1>1 DEF CacheInv, HeldInv
<1>3. ASSUME NEW c \in Creds, AllocateCredential(c) PROVE SlotInv' /\ HeldInv'
  BY <1>1, <1>2, <1>3, AllocateSlots, AllocateHeld
<1>4. CASE ListingLost \/ \E c \in Creds : GetCredential(c)
  BY <1>1, <1>4, RestSlots, BeginHeld
<1>5. ASSUME NEW c \in Creds, DeleteCredential(c) PROVE SlotInv' /\ HeldInv'
  BY <1>1, <1>5, DeleteCredentialSlots, DeleteCredentialHeld
<1>6. CASE TakeOver
  BY <1>1, <1>6, TakeOverSlots, TakeOverHeld
<1>7. CASE SetCredential
  BY <1>1, <1>7, SetCredentialSlots, SecretHeld
<1>8. CASE StoreId
  BY <1>1, <1>2, <1>8, StoreSlots, StoreIdHeld
<1>9. CASE StoreCredential
  BY <1>1, <1>2, <1>9, StoreCredentialSlots, BeginHeld
<1>10. CASE PutData
  BY <1>1, <1>10, PutDataSlots, PutDataHeld
<1>11. CASE StorePiece
  BY <1>1, <1>2, <1>11, StoreSlots, StorePieceHeld
<1>12. CASE RemoveId
  BY <1>1, <1>12, RemoveSlots, RemoveIdHeld
<1>13. CASE RemovePiece
  BY <1>1, <1>13, RemoveSlots, RemovePieceHeld
<1>14. CASE RemoveCredential
  BY <1>1, <1>14, RestSlots, SecretHeld
<1>15. CASE HostRestart
  BY <1>1, <1>15, RestSlots, RestartHeld
<1>16. CASE UNCHANGED credVars
  <2> USE <1>16 DEF credVars, cardVars, hostVars, hostHist
  <2>1. SlotInv'
    BY <1>1 DEF SlotInv, MapInv, BlobsInPlace, InPlace, OneClaim, Claims, IdsListed, HidesSmaller,
                BufferReady, Content, AllocInv, Allocating, ReleaseInv, Deleting
  <2>2. HeldInv'
    BY <1>1 DEF HeldInv, KeptInv, PendingInv, UnusedInv, Held, HasPiece
  <2> QED BY <2>1, <2>2
<1>17. CASE ReadPiece
  BY <1>1, <1>17, ReadPieceSlots, ReadPieceHeld
<1> QED BY <1>3, <1>4, <1>5, <1>6, <1>7, <1>8, <1>9, <1>10, <1>11, <1>12, <1>13, <1>14, <1>15, <1>16,
           <1>17 DEF HostNext

\* A reading has cached what it has read, which nothing else touches until it ends.
ReadingInv == op.at = "getBlob" => \A k \in 1..op.part - 1 : <<op.cred, k>> \in DOMAIN cache

LEMMA StepReading ==
  ASSUME TypeInv, ReadingInv, [HostNext]_credVars
  PROVE  ReadingInv'
<1> op \in OpTypes
  BY DEF TypeInv, HostTypes
<1>1. CASE ReadPiece
  <2>1. PICK us \in SUBSET {Target} : Reads(us)
    BY <1>1, GetBlobReads DEF ReadPiece, TypeInv
  <2>2. DOMAIN cache \subseteq DOMAIN cache'
    BY <2>1 DEF Reads
  <2>3. CASE op' = Idle
    BY <2>3 DEF ReadingInv, Idle
  <2>4. CASE Target \in DOMAIN cache' /\ op' = [op EXCEPT !.part = @ + 1]
    <3>1. op'.cred = op.cred /\ op'.part = op.part + 1 /\ op.part \in Nat /\ op.at = "getBlob"
      BY <1>1, <2>4, Bounds DEF OpTypes, ReadPiece
    <3>2. \A k \in 1..op'.part - 1 : k = op.part \/ k \in 1..op.part - 1
      BY <3>1
    <3> QED BY <2>2, <2>4, <3>1, <3>2 DEF ReadingInv, Target
  <2> QED BY <1>1, <2>3, <2>4 DEF ReadPiece
<1>2. ASSUME NEW c \in Creds, GetCredential(c) PROVE ReadingInv'
  BY <1>2 DEF GetCredential, Idle, ReadingInv
<1>3. ASSUME NEW c \in Creds, AllocateCredential(c) PROVE ReadingInv'
  BY <1>3, AllocateReads DEF ReadingInv, TypeInv
<1>4. ASSUME NEW c \in Creds, DeleteCredential(c) PROVE ReadingInv'
  BY <1>4 DEF DeleteCredential, Idle, ReadingInv
<1>5. ASSUME \/ TakeOver \/ SetCredential \/ StoreId \/ StoreCredential \/ PutData \/ StorePiece
             \/ RemoveId \/ RemovePiece \/ RemoveCredential \/ HostRestart
      PROVE  op'.at # "getBlob"
  <2>1. CASE TakeOver \/ PutData \/ RemoveId
    BY <2>1 DEF TakeOver, PutData, RemoveId, OpTypes
  <2>2. CASE SetCredential
    BY <2>2 DEF SetCredential, Idle, OpTypes
  <2>3. CASE StorePiece
    BY <2>3 DEF StorePiece, Idle, OpTypes
  <2>4. CASE RemovePiece
    BY <2>4 DEF RemovePiece, OpTypes
  <2>5. CASE StoreCredential
    BY <2>5 DEF StoreCredential, Idle
  <2>6. CASE op' = Idle
    BY <2>6 DEF Idle
  <2> QED BY <1>5, <2>1, <2>2, <2>3, <2>4, <2>5, <2>6 DEF StoreId, RemoveCredential, HostRestart
<1>6. CASE ListingLost \/ UNCHANGED credVars
  BY <1>6 DEF ListingLost, credVars, hostVars, ReadingInv
<1> QED BY <1>1, <1>2, <1>3, <1>4, <1>5, <1>6 DEF HostNext, ReadingInv

StoringInvs == TypeInv /\ CacheInv /\ StoredInv /\ ReadingInv

LEMMA StoringHolds == NoNumberedByte => (HostSpec => []StoringInvs)
<1> SUFFICES ASSUME NoNumberedByte PROVE HostSpec => []StoringInvs
  OBVIOUS
<1>1. HostInit => StoringInvs
  <2>1. HostInit => ReadingInv
    BY DEF HostInit, Idle, ReadingInv
  <2> QED BY <2>1, InitTypes, InitCaches, InitStored DEF StoringInvs
<1>2. StoringInvs /\ [HostNext]_credVars => StoringInvs'
  BY StepTypes, StepCaches, StepStored, StepReading DEF StoringInvs
<1> QED BY <1>1, <1>2, PTL DEF HostSpec

LEMMA KeptOnCard == StoringInvs => CredentialsKept
<1> SUFFICES ASSUME StoringInvs, ~overlooked, NEW c \in DOMAIN kept
             PROVE  /\ <<c, 0>> \in DOMAIN blobs
                    /\ secret[blobs[<<c, 0>>].value] = kept[c].gen
                    /\ \A k \in 1..kept[c].shape.parts :
                         <<c, k>> \in DOMAIN blobs /\ blobs[<<c, k>>] = Piece(kept[c], k)
  BY DEF CredentialsKept
<1>1. Held(c, kept[c]) /\ \A k \in 1..kept[c].shape.parts : HasPiece(c, kept[c], k)
  BY DEF StoringInvs, StoredInv, HeldInv, KeptInv
<1> QED BY <1>1 DEF Held, HasPiece

(* A credential the client was told is stored keeps its ID blob, its pieces and  *)
(* the secret it was issued for until it is deleted, for any number of           *)
(* credentials, slots, sizes, restarts and lost exchanges, unless a failure was  *)
(* overlooked.  The hypothesis keeps out the credentials whose last piece is one *)
(* byte with the number of a slot: getNewCredentialID takes such a piece for an  *)
(* ID blob and deletes it.                                                       *)
THEOREM StoredStaysStored == NoNumberedByte => (HostSpec => []CredentialsKept)
  BY StoringHolds, KeptOnCard, PTL

LEMMA ReadingStep ==
  ASSUME StoringInvs, [HostNext]_credVars, op.at = "getBlob", op' = Idle, restarts' = restarts,
         ~overlooked, op.cred \in DOMAIN kept
  PROVE  /\ \A k \in Accumulated : /\ k <= kept[op.cred].shape.parts
                                   /\ cache'[<<op.cred, k>>] = Piece(kept[op.cred], k)
         /\ heard => Accumulated = 1..kept[op.cred].shape.parts
<1> DEFINE c == op.cred
           p == op.part
           x == kept[c]
           n == x.shape.parts
<1>1. TypeInv /\ op # Idle /\ restarts \in Nat /\ p \in Nat /\ p # 0
  BY Bounds DEF StoringInvs, TypeInv, OpInv, HostTypes, OpTypes, HistTypes, Idle
<1>2. ReadPiece
  <2>1. \A d \in Creds : ~AllocateCredential(d) /\ ~GetCredential(d) /\ ~DeleteCredential(d)
    BY <1>1 DEF AllocateCredential, GetCredential, DeleteCredential
  <2>2. ~TakeOver /\ ~SetCredential /\ ~PutData /\ ~StoreId /\ ~StorePiece /\ ~RemoveCredential
    BY DEF TakeOver, SetCredential, PutData, StoreId, StorePiece, StoreBlob, RemoveCredential
  <2>3. ~StoreCredential /\ ~RemoveId /\ ~RemovePiece /\ ~ListingLost
    BY <1>1 DEF StoreCredential, RemoveId, RemovePiece, ListingLost
  <2>4. ~HostRestart
    BY <1>1 DEF HostRestart
  <2>5. ~UNCHANGED credVars
    BY <1>1 DEF credVars, hostVars
  <2> QED BY <2>1, <2>2, <2>3, <2>4, <2>5 DEF HostNext
<1>3. PICK us \in SUBSET {Target} : Reads(us)
  BY <1>1, <1>2, GetBlobReads DEF ReadPiece, TypeInv
<1>4. /\ x \in Issues /\ Held(c, x) /\ \A k \in 1..n : HasPiece(c, x, k)
  BY DEF StoringInvs, StoredInv, HeldInv, KeptInv
<1>5. n \in 1..MaxParts
  BY <1>4, HostAssumption DEF Issues
\* What is there of c are its pieces, in the cache as on the card.
<1>6. \A k \in 1..n : Known(<<c, k>>) /\ BlobOf(<<c, k>>) = Piece(x, k)
  BY <1>4 DEF HasPiece, Known, BlobOf, StoringInvs, CacheInv, CacheFollowsCard
<1>7. ASSUME NEW k \in 1..p, <<c, k>> \in DOMAIN cache'
      PROVE  k \in 1..n /\ cache'[<<c, k>>] = Piece(x, k)
  <2>1. <<c, k>> \in DOMAIN cache \cup DOMAIN blobs /\ cache'[<<c, k>>] = BlobOf(<<c, k>>)
    BY <1>3, <1>7 DEF Reads, Known
  <2>2. k \in 1..MaxParts
    BY <1>1, <2>1 DEF TypeInv, CardTypes, HostTypes, IsBlobMap, Uris
  <2>3. k \in 1..n
    BY <1>4, <1>5, <2>1, <2>2 DEF Held
  <2> QED BY <1>6, <2>1, <2>3
\* A reading whose last read was answered has read them all.
<1>8. ASSUME heard
      PROVE  \A k \in 1..n : k \in 1..p /\ <<c, k>> \in DOMAIN cache'
  <2>1. \A k \in 1..p - 1 : <<c, k>> \in DOMAIN cache'
    BY <1>3 DEF StoringInvs, ReadingInv, Reads
  <2>2. CASE Target \notin DOMAIN cache'
    <3>1. ~Known(Target)
      BY <1>1, <1>2, <1>8, <2>2, GetBlobReads DEF ReadPiece, TypeInv
    <3>2. p \notin 1..n
      BY <1>6, <3>1 DEF Target
    <3>3. \A k \in 1..n : k \in 1..p - 1
      BY <1>1, <1>5, <3>2
    <3> QED BY <1>1, <2>1, <3>3
  <2>3. CASE Target \in DOMAIN cache' /\ ~Continues(cache'[Target])
    <3>1. p \in 1..p
      BY <1>1
    <3>2. p \in 1..n /\ cache'[Target] = Piece(x, p)
      BY <1>7, <2>3, <3>1 DEF Target
    <3>3. p # n => Piece(x, p).size = "full"
      BY DEF Piece
    <3>4. p = n
      BY <2>3, <3>2, <3>3 DEF Continues
    <3>5. \A k \in 1..n : k \in 1..p /\ (k = p \/ k \in 1..p - 1)
      BY <1>1, <3>4
    <3> QED BY <2>1, <2>3, <3>5 DEF Target
  <2>4. op' # [op EXCEPT !.part = @ + 1]
    BY <1>1 DEF TypeInv, HostTypes, OpTypes, Idle
  <2> QED BY <1>2, <2>2, <2>3, <2>4 DEF ReadPiece
<1>9. \A k \in Accumulated : k \in 1..p /\ <<c, k>> \in DOMAIN cache'
  BY DEF Accumulated
<1>10. \A k \in Accumulated : k <= n /\ cache'[<<c, k>>] = Piece(x, k)
  BY <1>5, <1>7, <1>9
<1>11. heard => Accumulated = 1..n
  BY <1>7, <1>8 DEF Accumulated
<1> QED BY <1>10, <1>11

(* What getCredential unserializes of a credential that is stored are pieces     *)
(* that storeCredential was given, and all of them unless a READ_BLOB of that    *)
(* reading has failed, for any number of credentials, sizes, restarts and lost   *)
(* exchanges; also when the last piece fills its blob and the loop looks for     *)
(* another one, and when an earlier reading was cut short.  Under the hypothesis *)
(* of StoredStaysStored.                                                         *)
THEOREM StoredReadsBack == NoNumberedByte => (HostSpec => ReadsBack)
<1> SUFFICES ASSUME NoNumberedByte PROVE HostSpec => ReadsBack
  OBVIOUS
<1>1. StoringInvs /\ [HostNext]_credVars =>
        [(/\ op.at = "getBlob" /\ op' = Idle /\ restarts' = restarts
          /\ ~overlooked /\ op.cred \in DOMAIN kept)
           => /\ \A k \in Accumulated :
                   /\ k <= kept[op.cred].shape.parts
                   /\ cache'[<<op.cred, k>>] = Piece(kept[op.cred], k)
              /\ heard => Accumulated = 1..kept[op.cred].shape.parts]_credVars
  BY ReadingStep
<1> QED BY <1>1, StoringHolds, PTL DEF HostSpec, ReadsBack

=============================================================================
