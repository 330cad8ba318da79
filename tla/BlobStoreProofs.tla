-------------------------- MODULE BlobStoreProofs --------------------------
(***************************************************************************)
(* BlobStore and BlobListing for any number of slots, URIs and contents:   *)
(* no URI has two slots, the store implements the map of BlobMap, and a    *)
(* listing gives the URIs that were there all along.                       *)
(***************************************************************************)
EXTENDS BlobListing, FiniteSetTheorems, SequenceTheorems, WellFoundedInduction, TLAPS

StoreInv == TypeOK /\ OneSlotPerUri

-----------------------------------------------------------------------------
(* Slots.  *)

LEMMA SlotSet ==
  /\ Slots \subseteq Nat
  /\ IsFiniteSet(Slots) /\ Cardinality(Slots) = MaxBlobs
  <1>1. MaxBlobs \in Nat
    BY BlobsAssumption
  <1>2. IsFiniteSet(1..MaxBlobs) /\ Cardinality(1..MaxBlobs) = MaxBlobs
    BY <1>1, FS_Interval
  <1>3. QED
    BY <1>1, <1>2 DEF Slots

\* The least element of a set of numbers exists.
LEMMA LeastElement ==
  ASSUME NEW S \in SUBSET Nat, S # {}
  PROVE  Min(S) \in S
  <1> DEFINE R == {xy \in Nat \X Nat : xy[1] < xy[2]}
  <1>1. IsWellFoundedOn(R, Nat)
    BY NatLessThanWellFounded, Zenon DEF OpToRel
  <1>2. \A x, y \in Nat : x < y => <<x, y>> \in R
    OBVIOUS
  <1> HIDE DEF R
  <1>3. PICK x \in S : \A y \in S : ~ (<<y, x>> \in R)
    BY <1>1, WFMin
  <1>4. \A y \in S : x <= y
    <2> SUFFICES ASSUME NEW y \in S PROVE x <= y
      OBVIOUS
    <2>1. x \in Nat /\ y \in Nat
      OBVIOUS
    <2>2. ~ (y < x)
      BY <1>2, <1>3, <2>1
    <2>3. QED
      BY <2>1, <2>2
  <1>5. QED
    BY <1>4 DEF Min

\* As long as not all slots are used, there is a free one.
LEMMA FreeSlotExists ==
  ASSUME blobcount # MaxBlobs
  PROVE  first_available_index \in Slots \ UsedSlots
  <1>1. UsedSlots \in SUBSET Slots
    BY DEF UsedSlots
  <1>2. UsedSlots # Slots
    BY <1>1, SlotSet DEF blobcount
  <1>3. Slots \ UsedSlots # {}
    BY <1>1, <1>2
  <1>4. QED
    BY <1>3, SlotSet, LeastElement DEF first_available_index

\* The slot of a URI that has only one is the one a search finds.
LEMMA FoundSlot ==
  StoreInv => \A i \in UsedSlots : /\ SlotsOf(blob_catalog[i].uri) = {i}
                                   /\ uri_index(blob_catalog[i].uri) = i
  <1> SUFFICES ASSUME StoreInv, NEW i \in UsedSlots
               PROVE  /\ SlotsOf(blob_catalog[i].uri) = {i}
                      /\ uri_index(blob_catalog[i].uri) = i
    OBVIOUS
  <1>1. SlotsOf(blob_catalog[i].uri) = {i}
    BY DEF StoreInv, OneSlotPerUri, SlotsOf
  <1>2. i \in Nat
    BY SlotSet DEF UsedSlots
  <1>3. Max({i}) = i
    BY <1>2 DEF Max
  <1>4. QED
    BY <1>1, <1>3 DEF uri_index

LEMMA SearchedSlot ==
  ASSUME StoreInv, NEW u \in Uris, SlotsOf(u) # {}
  PROVE  /\ uri_index(u) \in UsedSlots
         /\ blob_catalog[uri_index(u)].uri = u
  <1>1. PICK i \in UsedSlots : blob_catalog[i].uri = u
    BY DEF SlotsOf
  <1>2. QED
    BY <1>1, FoundSlot

LEMMA UsedSlotTypes ==
  ASSUME TypeOK, NEW i \in Slots
  PROVE  /\ i \in UsedSlots => blob_catalog[i].uri \in Uris
         /\ i \in UsedSlots => blob_catalog[i] = [exists |-> TRUE, uri |-> blob_catalog[i].uri]
         /\ i \notin UsedSlots => blob_catalog[i] = FreeSlot
  <1>1. CASE blob_catalog[i] = FreeSlot
    <2>1. ~FreeSlot.exists
      BY Zenon DEF FreeSlot
    <2>2. i \notin UsedSlots
      BY <1>1, <2>1, Zenon DEF UsedSlots
    <2>3. QED
      BY <1>1, <2>2
  <1>2. CASE blob_catalog[i] \in [exists : {TRUE}, uri : Uris]
    <2>1. PICK u \in Uris : blob_catalog[i] = [exists |-> TRUE, uri |-> u]
      BY <1>2
    <2>2. [exists |-> TRUE, uri |-> u].exists /\ [exists |-> TRUE, uri |-> u].uri = u
      BY Zenon
    <2>3. i \in UsedSlots
      BY <2>1, <2>2, Zenon DEF UsedSlots
    <2>4. QED
      BY <2>1, <2>2, <2>3, Zenon
  <1>3. QED
    BY <1>1, <1>2 DEF TypeOK

-----------------------------------------------------------------------------
(* The invariant.  *)

\* STORE_BLOB writes to the slot of the URI, or to a free slot when it has none.
LEMMA WrittenSlot ==
  ASSUME StoreInv, NEW u \in Uris, blobcount # MaxBlobs
  PROVE  /\ SlotFor(u) \in Slots
         /\ \A i \in UsedSlots : blob_catalog[i].uri = u => i = SlotFor(u)
         /\ SlotFor(u) \in UsedSlots => blob_catalog[SlotFor(u)].uri = u
  <1>1. CASE SlotsOf(u) # {}
    <2>1. SlotFor(u) = uri_index(u)
      BY <1>1 DEF SlotFor
    <2>2. QED
      BY <1>1, <2>1, SearchedSlot DEF StoreInv, OneSlotPerUri, UsedSlots
  <1>2. CASE SlotsOf(u) = {}
    <2>1. SlotFor(u) = first_available_index
      BY <1>2 DEF SlotFor
    <2>2. QED
      BY <1>2, <2>1, FreeSlotExists DEF SlotsOf
  <1>3. QED
    BY <1>1, <1>2

LEMMA StoreBlobInv ==
  ASSUME StoreInv, NEW u \in Uris, StoreBlob(u)
  PROVE  StoreInv'
  <1> DEFINE j == SlotFor(u)
  <1>1. /\ j \in Slots
        /\ \A i \in UsedSlots : blob_catalog[i].uri = u => i = j
    BY WrittenSlot DEF StoreBlob
  <1> HIDE DEF j
  <1>2. blob_catalog' = [blob_catalog EXCEPT ![j] = [exists |-> TRUE, uri |-> u]]
        /\ blob_store' = [blob_store EXCEPT ![j] = buffer] /\ buffer' = buffer
        /\ answer' = "done"
    BY DEF StoreBlob, j
  <1>3. [exists |-> TRUE, uri |-> u] \in [exists : {TRUE}, uri : Uris]
    OBVIOUS
  <1>4. TypeOK'
    BY <1>1, <1>2, <1>3 DEF StoreInv, TypeOK
  <1>5. /\ blob_catalog'[j].uri = u
        /\ \A i \in Slots : i # j => blob_catalog'[i] = blob_catalog[i]
    BY <1>1, <1>2 DEF StoreInv, TypeOK
  <1>6. OneSlotPerUri'
    BY <1>1, <1>5 DEF StoreInv, OneSlotPerUri, UsedSlots
  <1>7. QED
    BY <1>4, <1>6 DEF StoreInv

LEMMA RemoveBlobInv ==
  ASSUME StoreInv, NEW u \in Uris, RemoveBlob(u)
  PROVE  StoreInv'
  <1> DEFINE j == uri_index(u)
  <1>1. j \in Slots
    BY SearchedSlot DEF RemoveBlob, UsedSlots
  <1> HIDE DEF j
  <1>2. /\ blob_catalog' = [blob_catalog EXCEPT ![j] = FreeSlot]
        /\ UNCHANGED <<blob_store, buffer>> /\ answer' = "done"
    BY DEF RemoveBlob, j
  <1>3. TypeOK'
    BY <1>1, <1>2 DEF StoreInv, TypeOK
  <1>4. ~FreeSlot.exists
    BY Zenon DEF FreeSlot
  <1>5. UsedSlots' \subseteq UsedSlots
        /\ \A i \in UsedSlots' : blob_catalog'[i] = blob_catalog[i]
    BY <1>1, <1>2, <1>4 DEF StoreInv, TypeOK, UsedSlots
  <1>6. OneSlotPerUri'
    BY <1>5 DEF StoreInv, OneSlotPerUri
  <1>7. QED
    BY <1>3, <1>6 DEF StoreInv

LEMMA EmptyCatalog ==
  ASSUME blob_catalog = [i \in Slots |-> FreeSlot]
  PROVE  UsedSlots = {} /\ OneSlotPerUri
  <1>1. ~FreeSlot.exists
    BY Zenon DEF FreeSlot
  <1>2. UsedSlots = {}
    BY <1>1 DEF UsedSlots
  <1>3. QED
    BY <1>2 DEF OneSlotPerUri

\* A step that leaves the catalog alone.
LEMMA SameCatalog ==
  ASSUME OneSlotPerUri, UNCHANGED blob_catalog
  PROVE  OneSlotPerUri'
  BY DEF OneSlotPerUri, UsedSlots

LEMMA StoreInvStep ==
  ASSUME StoreInv, [StoreNext]_storeVars
  PROVE  StoreInv'
  <1>1. CASE \E c \in Contents : PutData(c)
    BY <1>1, SameCatalog DEF PutData, StoreInv, TypeOK
  <1>2. CASE \E u \in Uris : StoreBlob(u)
    BY <1>2, StoreBlobInv
  <1>3. CASE \E u \in Uris : ReadBlob(u)
    <2>1. PICK u \in Uris : ReadBlob(u)
      BY <1>3
    <2>2. answer' \in Contents \cup {"done", "full", "missing"}
      BY <2>1, SearchedSlot DEF ReadBlob, StoreInv, TypeOK, UsedSlots
    <2>3. QED
      BY <2>1, <2>2, SameCatalog DEF ReadBlob, StoreInv, TypeOK
  <1>4. CASE \E u \in Uris : RemoveBlob(u)
    BY <1>4, RemoveBlobInv
  <1>5. CASE \E u \in Uris : RemoveBlobMissing(u)
    BY <1>5, SameCatalog DEF RemoveBlobMissing, StoreInv, TypeOK
  <1>6. CASE StoreBlobFull
    BY <1>6, SameCatalog DEF StoreBlobFull, StoreInv, TypeOK
  <1>7. CASE Erase
    <2>1. OneSlotPerUri'
      <3>1. blob_catalog' = [i \in Slots |-> FreeSlot]
        BY <1>7 DEF Erase
      <3>2. ~FreeSlot.exists
        BY Zenon DEF FreeSlot
      <3>3. UsedSlots' = {}
        BY <3>1, <3>2 DEF UsedSlots
      <3>4. QED
        BY <3>3 DEF OneSlotPerUri
    <2>2. QED
      BY <1>7, <2>1, BlobsAssumption DEF Erase, StoreInv, TypeOK
  <1>8. CASE ListBlobs
    BY <1>8, SameCatalog, BlobsAssumption DEF ListBlobs, StoreInv, TypeOK
  <1>9. CASE UNCHANGED storeVars
    BY <1>9, SameCatalog DEF storeVars, StoreInv, TypeOK
  <1>10. QED
    BY <1>1, <1>2, <1>3, <1>4, <1>5, <1>6, <1>7, <1>8, <1>9 DEF StoreNext, UriStep

THEOREM StoreInvariant == StoreSpec => []StoreInv
  <1>1. StoreInit => StoreInv
    BY EmptyCatalog, BlobsAssumption DEF StoreInit, StoreInv, TypeOK
  <1>2. StoreInv /\ [StoreNext]_storeVars => StoreInv'
    BY StoreInvStep
  <1>3. QED
    BY <1>1, <1>2, PTL DEF StoreSpec

\* The catalog and the contents keep their types.
THEOREM StoreTypeCorrect == StoreSpec => []TypeOK
  <1>1. StoreInv => TypeOK
    BY DEF StoreInv
  <1>2. QED
    BY <1>1, StoreInvariant, PTL

\* Whatever is stored, replaced and removed, a URI has one slot.
THEOREM EveryUriHasOneSlot == StoreSpec => []OneSlotPerUri
  <1>1. StoreInv => OneSlotPerUri
    BY DEF StoreInv
  <1>2. QED
    BY <1>1, StoreInvariant, PTL

-----------------------------------------------------------------------------
(* The store implements the map.  *)

Blobs == [u \in StoredUris |-> blob_store[uri_index(u)]]

\* What the map holds, slot by slot.
MapOfSlots ==
  /\ \A i \in UsedSlots : /\ blob_catalog[i].uri \in StoredUris
                          /\ Blobs[blob_catalog[i].uri] = blob_store[i]
  /\ \A u \in StoredUris : \E i \in UsedSlots : u = blob_catalog[i].uri
  /\ \A u : u \in StoredUris <=> SlotsOf(u) # {}
  /\ \A u \in StoredUris : Blobs[u] = blob_store[uri_index(u)]

LEMMA MapHoldsSlots == StoreInv => MapOfSlots
  <1> SUFFICES ASSUME StoreInv PROVE MapOfSlots
    OBVIOUS
  <1>1. \A u : u \in StoredUris <=> SlotsOf(u) # {}
    BY DEF StoredUris, SlotsOf
  <1>2. \A u \in StoredUris : \E i \in UsedSlots : u = blob_catalog[i].uri
    BY DEF StoredUris
  <1>3. \A i \in UsedSlots : blob_catalog[i].uri \in StoredUris
    BY DEF StoredUris
  <1>4. \A u \in StoredUris : Blobs[u] = blob_store[uri_index(u)]
    BY DEF Blobs
  <1>5. \A i \in UsedSlots : Blobs[blob_catalog[i].uri] = blob_store[i]
    BY <1>3, <1>4, FoundSlot
  <1>6. QED
    BY <1>1, <1>2, <1>3, <1>4, <1>5 DEF MapOfSlots

\* There are as many URIs as used slots.
LEMMA MapSize ==
  ASSUME StoreInv
  PROVE  Cardinality(StoredUris) = blobcount /\ blobcount \in 0..MaxBlobs
  <1>1. IsFiniteSet(UsedSlots) /\ Cardinality(UsedSlots) <= MaxBlobs
    BY SlotSet, FS_Subset DEF UsedSlots
  <1>2. Cardinality(UsedSlots) \in Nat /\ MaxBlobs \in Nat
    BY <1>1, FS_CardinalityType, BlobsAssumption
  <1> DEFINE f == [i \in UsedSlots |-> blob_catalog[i].uri]
  <1>3. f \in [UsedSlots -> StoredUris]
    BY DEF StoredUris
  <1>4. \A i, j \in UsedSlots : f[i] = f[j] => i = j
    BY DEF StoreInv, OneSlotPerUri
  <1>5. \A u \in StoredUris : \E i \in UsedSlots : f[i] = u
    BY DEF StoredUris
  <1> HIDE DEF f
  <1>6. f \in Bijection(UsedSlots, StoredUris)
    BY <1>3, <1>4, <1>5 DEF Bijection, Injection, Surjection, IsInjective
  <1>7. Cardinality(StoredUris) = Cardinality(UsedSlots)
    BY <1>1, <1>6, FS_Bijection DEF ExistsBijection
  <1>8. QED
    BY <1>1, <1>2, <1>7 DEF blobcount

\* Two maps with the same slots are the same.
LEMMA SameSlotsSameMap ==
  ASSUME UNCHANGED <<blob_catalog, blob_store>>
  PROVE  Blobs' = Blobs
  BY DEF Blobs, StoredUris, UsedSlots, uri_index, SlotsOf

LEMMA StoreBlobMaps ==
  ASSUME StoreInv, StoreInv', MapOfSlots', NEW u \in Uris, StoreBlob(u)
  PROVE  Blobs' = [v \in StoredUris \cup {u} |-> IF v = u THEN buffer ELSE Blobs[v]]
  <1> DEFINE j == SlotFor(u)
  <1>1. /\ j \in Slots
        /\ \A i \in UsedSlots : blob_catalog[i].uri = u => i = j
        /\ j \in UsedSlots => blob_catalog[j].uri = u
    BY WrittenSlot DEF StoreBlob
  <1> HIDE DEF j
  <1>2. /\ blob_catalog' = [blob_catalog EXCEPT ![j] = [exists |-> TRUE, uri |-> u]]
        /\ blob_store' = [blob_store EXCEPT ![j] = buffer]
    BY DEF StoreBlob, j
  <1>3. /\ blob_catalog'[j] = [exists |-> TRUE, uri |-> u]
        /\ \A i \in Slots : i # j => blob_catalog'[i] = blob_catalog[i]
        /\ blob_store'[j] = buffer
        /\ \A i \in Slots : i # j => blob_store'[i] = blob_store[i]
    BY <1>1, <1>2 DEF StoreInv, TypeOK
  <1>4. UsedSlots' = UsedSlots \cup {j}
    <2>1. [exists |-> TRUE, uri |-> u].exists
      BY Zenon
    <2>2. QED
      BY <1>1, <1>3, <2>1 DEF UsedSlots
  <1>5. blob_catalog'[j].uri = u
    BY <1>3
  <1>6. MapOfSlots
    BY MapHoldsSlots
  <1>7. StoredUris' = StoredUris \cup {u}
    <2>1. \A v : v \in StoredUris' <=> \E i \in UsedSlots' : v = blob_catalog'[i].uri
      BY DEF StoredUris
    <2>2. \A v : v \in StoredUris <=> \E i \in UsedSlots : v = blob_catalog[i].uri
      BY DEF StoredUris
    <2>3. UsedSlots \subseteq Slots
      BY DEF UsedSlots
    <2>4. QED
      BY <1>1, <1>3, <1>4, <1>5, <2>1, <2>2, <2>3
  <1>8. \A v \in StoredUris' : Blobs'[v] = IF v = u THEN buffer ELSE Blobs[v]
    <2> SUFFICES ASSUME NEW v \in StoredUris'
                 PROVE  Blobs'[v] = IF v = u THEN buffer ELSE Blobs[v]
      OBVIOUS
    <2>1. PICK i \in UsedSlots' : v = blob_catalog'[i].uri /\ Blobs'[v] = blob_store'[i]
      BY DEF MapOfSlots
    <2>2. CASE i = j
      BY <1>3, <1>5, <2>1, <2>2
    <2>3. CASE i # j
      <3>1. i \in UsedSlots /\ i \in Slots
        BY <1>4, <2>3 DEF UsedSlots
      <3>2. v = blob_catalog[i].uri /\ Blobs'[v] = blob_store[i]
        BY <1>3, <2>1, <2>3, <3>1
      <3>3. v # u
        BY <1>1, <2>3, <3>1, <3>2
      <3>4. Blobs[v] = blob_store[i]
        BY <1>6, <3>1, <3>2 DEF MapOfSlots
      <3>5. QED
        BY <3>2, <3>3, <3>4
    <2>4. QED
      BY <2>2, <2>3
  <1>9. Blobs' = [v \in StoredUris' |-> IF v = u THEN buffer ELSE Blobs[v]]
    BY <1>8 DEF Blobs
  <1>10. QED
    BY <1>7, <1>9

LEMMA RemoveBlobMaps ==
  ASSUME StoreInv, StoreInv', MapOfSlots', NEW u \in Uris, RemoveBlob(u)
  PROVE  Blobs' = [v \in StoredUris \ {u} |-> Blobs[v]]
  <1> DEFINE j == uri_index(u)
  <1>1. /\ j \in UsedSlots /\ j \in Slots
        /\ blob_catalog[j].uri = u
    BY SearchedSlot DEF RemoveBlob, UsedSlots
  <1> HIDE DEF j
  <1>2. blob_catalog' = [blob_catalog EXCEPT ![j] = FreeSlot] /\ blob_store' = blob_store
    BY DEF RemoveBlob, j
  <1>3. /\ blob_catalog'[j] = FreeSlot
        /\ \A i \in Slots : i # j => blob_catalog'[i] = blob_catalog[i]
    BY <1>1, <1>2 DEF StoreInv, TypeOK
  <1>4. UsedSlots' = UsedSlots \ {j}
    <2>1. ~FreeSlot.exists
      BY Zenon DEF FreeSlot
    <2>2. QED
      BY <1>1, <1>3, <2>1 DEF UsedSlots
  <1>5. MapOfSlots
    BY MapHoldsSlots
  <1>6. UsedSlots \subseteq Slots
    BY DEF UsedSlots
  <1>7. \A i \in UsedSlots : blob_catalog[i].uri = u => i = j
    BY <1>1 DEF StoreInv, OneSlotPerUri
  <1>8. StoredUris' = StoredUris \ {u}
    <2>1. \A v : v \in StoredUris' <=> \E i \in UsedSlots' : v = blob_catalog'[i].uri
      BY DEF StoredUris
    <2>2. \A v : v \in StoredUris <=> \E i \in UsedSlots : v = blob_catalog[i].uri
      BY DEF StoredUris
    <2>3. QED
      BY <1>1, <1>3, <1>4, <1>6, <1>7, <2>1, <2>2
  <1>9. \A v \in StoredUris' : Blobs'[v] = Blobs[v]
    <2> SUFFICES ASSUME NEW v \in StoredUris' PROVE Blobs'[v] = Blobs[v]
      OBVIOUS
    <2>1. PICK i \in UsedSlots' : v = blob_catalog'[i].uri /\ Blobs'[v] = blob_store'[i]
      BY DEF MapOfSlots
    <2>2. i \in UsedSlots /\ v = blob_catalog[i].uri
      BY <1>3, <1>4, <1>6, <2>1
    <2>3. Blobs[v] = blob_store[i]
      BY <1>5, <2>2 DEF MapOfSlots
    <2>4. QED
      BY <1>2, <2>1, <2>3
  <1>10. Blobs' = [v \in StoredUris' |-> Blobs[v]]
    BY <1>9 DEF Blobs
  <1>11. QED
    BY <1>8, <1>10

LEMMA NoSlotsNoBlobs ==
  ASSUME UsedSlots = {}
  PROVE  Blobs = [v \in {} |-> "missing"]
  BY DEF Blobs, StoredUris

LEMMA MapInit == StoreInit => Map!Init
  BY EmptyCatalog, NoSlotsNoBlobs DEF StoreInit, Map!Init, Blobs

LEMMA MapStep ==
  ASSUME StoreInv, StoreInv', MapOfSlots', [StoreNext]_storeVars
  PROVE  [Map!Next]_(Map!vars)
  <1>1. MapOfSlots /\ Cardinality(StoredUris) = blobcount /\ blobcount \in 0..MaxBlobs
        /\ MaxBlobs \in Nat
    BY MapHoldsSlots, MapSize, BlobsAssumption
  <1>2. DOMAIN Blobs = StoredUris
    BY DEF Blobs
  <1>3. CASE (\E c \in Contents : PutData(c)) \/ ListBlobs \/ UNCHANGED storeVars
    <2>1. UNCHANGED <<blob_catalog, blob_store, answer>>
      BY <1>3 DEF PutData, ListBlobs, storeVars
    <2>2. Blobs' = Blobs
      BY <2>1, SameSlotsSameMap
    <2>3. QED
      BY <2>1, <2>2 DEF Map!vars, Blobs
  <1>4. ASSUME NEW u \in Uris, StoreBlob(u) PROVE Map!Store(u, buffer)
    <2>1. Blobs' = [v \in StoredUris \cup {u} |-> IF v = u THEN buffer ELSE Blobs[v]]
      BY <1>4, StoreBlobMaps
    <2>2. ~ (Cardinality(StoredUris) >= MaxBlobs)
      BY <1>1, <1>4 DEF StoreBlob
    <2>3. ~ Map!IsFull
      BY <1>2, <2>2, Zenon DEF Map!IsFull, Blobs, Cardinality, Map!Cardinality
    <2>4. QED
      BY <1>2, <1>4, <2>1, <2>3 DEF Map!Store, Blobs, StoreBlob
  <1>5. ASSUME NEW u \in Uris, ReadBlob(u) PROVE Map!Read(u)
    <2>1. Blobs' = Blobs
      BY <1>5, SameSlotsSameMap DEF ReadBlob
    <2>2. answer' = IF u \in StoredUris THEN Blobs[u] ELSE "missing"
      BY <1>1, <1>5 DEF ReadBlob, MapOfSlots
    <2>3. QED
      BY <1>2, <2>1, <2>2 DEF Map!Read, Blobs
  <1>6. ASSUME NEW u \in Uris, RemoveBlob(u) PROVE Map!Remove(u)
    <2>1. Blobs' = [v \in StoredUris \ {u} |-> Blobs[v]]
      BY <1>6, RemoveBlobMaps
    <2>2. u \in StoredUris /\ answer' = "done"
      BY <1>1, <1>6 DEF RemoveBlob, MapOfSlots
    <2>3. QED
      BY <1>2, <2>1, <2>2 DEF Map!Remove, Blobs
  <1>7. ASSUME NEW u \in Uris, RemoveBlobMissing(u) PROVE Map!Remove(u)
    <2>1. Blobs' = Blobs
      BY <1>7, SameSlotsSameMap DEF RemoveBlobMissing
    <2>2. u \notin StoredUris /\ answer' = "missing"
      BY <1>1, <1>7 DEF RemoveBlobMissing, MapOfSlots
    <2>3. Blobs = [v \in StoredUris \ {u} |-> Blobs[v]]
      BY <1>2, <2>2 DEF Blobs
    <2>4. QED
      BY <1>2, <2>1, <2>2, <2>3 DEF Map!Remove, Blobs
  <1>8. CASE StoreBlobFull
    <2>1. Blobs' = Blobs
      BY <1>8, SameSlotsSameMap DEF StoreBlobFull
    <2>2. Cardinality(StoredUris) >= MaxBlobs
      BY <1>1, <1>8 DEF StoreBlobFull
    <2>3. Map!IsFull
      BY <1>2, <2>2, Zenon DEF Map!IsFull, Blobs, Cardinality, Map!Cardinality
    <2>4. Map!RefuseStore
      BY <1>8, <2>1, <2>3 DEF Map!RefuseStore, Blobs, StoreBlobFull
    <2>5. QED
      BY <2>4 DEF Map!Next
  <1>9. CASE Erase
    <2>1. blob_catalog' = [i \in Slots |-> FreeSlot] /\ answer' = "done"
      BY <1>9 DEF Erase
    <2>2. ~FreeSlot.exists
      BY Zenon DEF FreeSlot
    <2>3. UsedSlots' = {}
      BY <2>1, <2>2 DEF UsedSlots
    <2>4. Blobs' = [v \in {} |-> "missing"]
      BY <2>3 DEF Blobs, StoredUris
    <2>5. Map!Clear
      BY <2>1, <2>4 DEF Map!Clear, Blobs
    <2>6. QED
      BY <2>5 DEF Map!Next
  <1>10. buffer \in Contents
    BY DEF StoreInv, TypeOK
  <1>11. CASE \E u \in Uris : UriStep(u)
    <2>1. PICK u \in Uris : UriStep(u)
      BY <1>11
    <2>2. Map!Read(u) \/ Map!Remove(u) \/ Map!Store(u, buffer)
      BY <1>4, <1>5, <1>6, <1>7, <2>1 DEF UriStep
    <2>3. QED
      BY <1>10, <2>2 DEF Map!Next
  <1>12. QED
    BY <1>3, <1>8, <1>9, <1>11 DEF StoreNext

\* The blob store behaves as the map of BlobMap does.
THEOREM StoreImplementsMap == StoreSpec => ImplementsMap
  <1>1. StoreInit => Map!Init
    BY MapInit
  <1>2. StoreInv' => MapOfSlots'
    BY MapHoldsSlots, PTL
  <1>3. StoreInv /\ StoreInv' /\ [StoreNext]_storeVars => [Map!Next]_(Map!vars)
    BY <1>2, MapStep
  <1>4. QED
    BY <1>1, <1>3, StoreInvariant, PTL DEF StoreSpec, ImplementsMap, Map!Spec

-----------------------------------------------------------------------------
(* The pages of a listing.  *)

\* The loop meets every used slot once, in the order of the catalog.
LEMMA MetOnce ==
  /\ blobcount \in Nat
  /\ \A i \in UsedSlots : Met(i) \in 1..blobcount
  /\ \A i, j \in UsedSlots : Met(i) = Met(j) => i = j
  /\ \A m \in 1..blobcount : \E i \in UsedSlots : Met(i) = m
  <1> DEFINE UpTo(i) == {j \in UsedSlots : j <= i}
  <1>1. UsedSlots \subseteq Slots /\ UsedSlots \subseteq Nat
    BY SlotSet DEF UsedSlots
  <1>2. IsFiniteSet(UsedSlots) /\ blobcount \in Nat
    BY <1>1, SlotSet, FS_Subset, FS_CardinalityType DEF blobcount
  <1>3. ASSUME NEW i \in UsedSlots
        PROVE  /\ IsFiniteSet(UpTo(i)) /\ UpTo(i) \in SUBSET UsedSlots /\ i \in UpTo(i)
               /\ Met(i) = Cardinality(UpTo(i)) /\ Met(i) \in 1..blobcount
    <2>1. UpTo(i) \in SUBSET UsedSlots /\ i \in UpTo(i)
      BY <1>1
    <2>2. IsFiniteSet(UpTo(i)) /\ Cardinality(UpTo(i)) <= blobcount
      BY <1>2, <2>1, FS_Subset DEF blobcount
    <2>3. Cardinality(UpTo(i)) \in Nat /\ Cardinality(UpTo(i)) # 0
      BY <2>1, <2>2, FS_CardinalityType, FS_EmptySet
    <2>4. Met(i) = Cardinality(UpTo(i))
      BY DEF Met
    <2>5. QED
      BY <1>2, <2>1, <2>2, <2>3, <2>4
  <1> HIDE DEF UpTo
  <1>4. ASSUME NEW i \in UsedSlots, NEW j \in UsedSlots, i < j
        PROVE  Met(i) # Met(j)
    <2> i \in Nat /\ j \in Nat
      BY <1>1
    <2>1. UpTo(i) \subseteq UpTo(j) /\ j \notin UpTo(i)
      <3>1. ASSUME NEW k \in UpTo(i) PROVE k \in UpTo(j)
        <4>1. k \in UsedSlots /\ k <= i /\ k \in Nat
          BY <1>1, <3>1 DEF UpTo
        <4>2. k <= j
          BY <1>4, <4>1
        <4>3. QED
          BY <4>1, <4>2 DEF UpTo
      <3>2. ~ (j <= i)
        BY <1>4
      <3>3. j \notin UpTo(i)
        BY <3>2 DEF UpTo
      <3>4. QED
        BY <3>1, <3>3
    <2>2. UpTo(i) \in SUBSET UpTo(j) /\ UpTo(i) # UpTo(j)
      BY <1>3, <2>1
    <2>3. QED
      BY <1>3, <2>2, FS_Subset
  <1>5. \A i, j \in UsedSlots : Met(i) = Met(j) => i = j
    <2> SUFFICES ASSUME NEW i \in UsedSlots, NEW j \in UsedSlots, i # j PROVE Met(i) # Met(j)
      OBVIOUS
    <2>1. i < j \/ j < i
      BY <1>1
    <2>2. QED
      BY <1>4, <2>1
  <1>6. \A m \in 1..blobcount : \E i \in UsedSlots : Met(i) = m
    <2> DEFINE F == [i \in UsedSlots |-> Met(i)]
    <2>1. F \in Injection(UsedSlots, 1..blobcount)
      <3>1. F \in [UsedSlots -> 1..blobcount]
        BY <1>3
      <3>2. \A i, j \in UsedSlots : F[i] = F[j] => i = j
        BY <1>5
      <3> HIDE DEF F
      <3>3. QED
        BY <3>1, <3>2 DEF Injection, IsInjective
    <2>2. IsFiniteSet(1..blobcount) /\ Cardinality(1..blobcount) = blobcount
      BY <1>2, FS_Interval
    <2>3. F \in Surjection(UsedSlots, 1..blobcount)
      BY <2>1, <2>2, FS_Injection DEF blobcount
    <2>4. QED
      BY <2>3 DEF Surjection
  <1>7. QED
    BY <1>2, <1>3, <1>5, <1>6

\* A page gives the next slots, as many as it takes.
LEMMA PageOfNext ==
  ASSUME NEW n \in Nat, n < blobcount, NEW page, page = Page(n, Unread(n))
  PROVE  /\ DOMAIN page = 1..Len(page) /\ Len(page) \in 0..blobcount - n
         /\ \A k \in DOMAIN page : page[k] \in UsedSlots
         /\ \A i \in UsedSlots : n < Met(i) /\ Met(i) <= n + Len(page) => \E k \in DOMAIN page : page[k] = i
  <1> DEFINE rest == Unread(n)
             N == blobcount - n
             Stops(m) == m = Len(rest) \/ ~GoesOn(n, SubSeq(rest, 1, m))
             S == {m \in 0..Len(rest) : Stops(m)}
  <1>1. N \in Nat /\ blobcount \in Nat
    BY MetOnce
  <1>2. \A k \in 1..N : rest[k] \in UsedSlots /\ Met(rest[k]) = n + k
    <2> SUFFICES ASSUME NEW k \in 1..N PROVE rest[k] \in UsedSlots /\ Met(rest[k]) = n + k
      OBVIOUS
    <2>1. n + k \in 1..blobcount
      BY <1>1
    <2>2. \E i \in UsedSlots : Met(i) = n + k
      BY <2>1, MetOnce
    <2>3. rest[k] = CHOOSE i \in UsedSlots : Met(i) = n + k
      BY DEF Unread
    <2>4. QED
      BY <2>2, <2>3
  <1>3. Len(rest) = N
    <2>1. rest = [k \in 1..N |-> rest[k]]
      BY DEF Unread
    <2>2. QED
      BY <1>1, <2>1
  <1> HIDE DEF rest
  <1>4. Min(S) \in S
    <2>1. S \in SUBSET Nat /\ Len(rest) \in S
      BY <1>1, <1>3
    <2>2. QED
      BY <2>1, LeastElement
  <1> DEFINE m == Min(S)
  <1>5. m \in 0..N
    BY <1>3, <1>4
  <1>6. page = SubSeq(rest, 1, m)
    BY DEF Page, rest
  <1> HIDE DEF m
  <1>7. page \in Seq(UsedSlots) /\ Len(page) = m /\ \A k \in 1..m : page[k] = rest[k]
    <2>1. \A k \in 1..m : rest[k] \in UsedSlots
      BY <1>1, <1>2, <1>5
    <2>2. /\ SubSeq(rest, 1, m) \in Seq(UsedSlots)
          /\ Len(SubSeq(rest, 1, m)) = IF 1 <= m THEN m - 1 + 1 ELSE 0
          /\ \A k \in 1..m - 1 + 1 : SubSeq(rest, 1, m)[k] = rest[1 + k - 1]
      BY <1>5, <2>1, SubSeqProperties
    <2>3. m - 1 + 1 = m /\ \A k \in 1..m : 1 + k - 1 = k
      BY <1>1, <1>5
    <2>4. (IF 1 <= m THEN m - 1 + 1 ELSE 0) = m
      BY <1>1, <1>5
    <2>5. QED
      BY <1>6, <2>2, <2>3, <2>4
  <1>8. DOMAIN page = 1..m
    BY <1>7
  <1>9. ASSUME NEW i \in UsedSlots, n < Met(i), Met(i) <= n + m
        PROVE  \E k \in 1..m : page[k] = i
    <2> DEFINE k == Met(i) - n
    <2>1. Met(i) \in Nat
      BY MetOnce
    <2>2. k \in 1..m /\ k \in 1..N /\ n + k = Met(i)
      BY <1>1, <1>5, <1>9, <2>1
    <2> HIDE DEF k
    <2>3. rest[k] = i
      BY <1>2, <2>2, MetOnce
    <2>4. QED
      BY <1>7, <2>2, <2>3
  <1>10. QED
    BY <1>1, <1>2, <1>5, <1>7, <1>8, <1>9

\* What a host that has n URIs gets: those of the slots that come next, and the word that
\* nothing is left only when it has read as many as there are.
LEMMA ReplyOfPage ==
  ASSUME StoreInv, NEW n \in 0..255, NEW reply \in Replies(n)
  PROVE  /\ reply.nread \in 0..255 /\ reply.uris \subseteq StoredUris
         /\ \A i \in UsedSlots : n < Met(i) /\ Met(i) <= reply.nread
                                   => blob_catalog[i].uri \in reply.uris
         /\ reply.unread = 0 => reply.nread = blobcount
  <1>1. blobcount \in 0..255
    BY MapSize, SizesAssumption, BlobsAssumption
  <1>2. \A i \in UsedSlots : Met(i) \in 1..blobcount
    BY MetOnce
  <1>3. CASE n >= blobcount
    <2>1. reply = EarlyReply
      BY <1>3 DEF Replies, ReadAll
    <2>2. reply.nread = blobcount /\ reply.uris = {}
      BY <2>1, Zenon DEF EarlyReply
    <2>3. \A i \in UsedSlots : ~ (n < Met(i))
      BY <1>1, <1>2, <1>3
    <2>4. QED
      BY <1>1, <2>2, <2>3
  <1>4. CASE ~ (n >= blobcount)
    <2>1. PICK page : page = Page(n, Unread(n)) /\ reply = PageReply(n, page)
      BY <1>4, Zenon DEF Replies, ReadAll
    <2>2. n \in Nat /\ n < blobcount
      BY <1>1, <1>4
    <2>3. /\ DOMAIN page = 1..Len(page) /\ Len(page) \in 0..blobcount - n
          /\ \A k \in DOMAIN page : page[k] \in UsedSlots
          /\ \A i \in UsedSlots : n < Met(i) /\ Met(i) <= n + Len(page)
                                    => \E k \in DOMAIN page : page[k] = i
      BY <2>1, <2>2, PageOfNext
    <2>4. /\ reply.nread = n + Len(page)
          /\ reply.uris = {blob_catalog[page[k]].uri : k \in DOMAIN page}
          /\ reply.unread = (blobcount - reply.nread) % 256
      BY <2>1, Zenon DEF PageReply
    <2>5. reply.nread \in 0..255 /\ blobcount - reply.nread \in 0..255
      <3>1. PICK m \in 0..blobcount - n : m = Len(page)
        BY <2>3
      <3>2. reply.nread = n + m
        BY <2>4, <3>1
      <3>3. QED
        BY <1>1, <2>2, <3>2
    <2>6. reply.unread = 0 => reply.nread = blobcount
      <3>1. \A x \in 0..255 : x % 256 = x
        OBVIOUS
      <3>2. (blobcount - reply.nread) % 256 = blobcount - reply.nread
        BY <2>5, <3>1
      <3>3. blobcount \in Int /\ reply.nread \in Int
        BY <1>1, <2>5
      <3>4. QED
        BY <2>4, <3>2, <3>3
    <2>7. reply.uris \subseteq StoredUris
      BY <2>3, <2>4 DEF StoredUris
    <2>8. \A i \in UsedSlots : n < Met(i) /\ Met(i) <= reply.nread
                                 => blob_catalog[i].uri \in reply.uris
      BY <2>3, <2>4
    <2>9. QED
      BY <2>5, <2>6, <2>7, <2>8
  <1>5. QED
    BY <1>3, <1>4

-----------------------------------------------------------------------------
(* The catalog under a listing.  *)

\* A step after which every URI is still stored leaves each in its slot, and the loop
\* meets it no sooner than before.
LEMMA CatalogGrows ==
  ASSUME StoreInv, StoreInv', StoreNext, StoredUris \subseteq StoredUris'
  PROVE  /\ UsedSlots \subseteq UsedSlots'
         /\ \A i \in UsedSlots : blob_catalog'[i].uri = blob_catalog[i].uri
         /\ \A i \in UsedSlots : Met(i)' \in Nat /\ Met(i) <= Met(i)'
  <1>1. /\ UsedSlots \subseteq UsedSlots'
        /\ \A i \in UsedSlots : blob_catalog'[i].uri = blob_catalog[i].uri
    <2>1. CASE UNCHANGED blob_catalog
      BY <2>1 DEF UsedSlots
    <2>2. ASSUME NEW u \in Uris, StoreBlob(u)
          PROVE  /\ UsedSlots \subseteq UsedSlots'
                 /\ \A i \in UsedSlots : blob_catalog'[i].uri = blob_catalog[i].uri
      <3> DEFINE j == SlotFor(u)
      <3>1. j \in Slots /\ (j \in UsedSlots => blob_catalog[j].uri = u)
        BY <2>2, WrittenSlot DEF StoreBlob
      <3> HIDE DEF j
      <3>2. blob_catalog' = [blob_catalog EXCEPT ![j] = [exists |-> TRUE, uri |-> u]]
        BY <2>2 DEF StoreBlob, j
      <3>3. /\ blob_catalog'[j].exists /\ blob_catalog'[j].uri = u
            /\ \A i \in Slots : i # j => blob_catalog'[i] = blob_catalog[i]
        BY <3>1, <3>2 DEF StoreInv, TypeOK
      <3>4. QED
        BY <3>1, <3>3 DEF UsedSlots
    <2>3. ASSUME NEW u \in Uris, RemoveBlob(u) PROVE FALSE
      <3> DEFINE j == uri_index(u)
      <3>1. j \in UsedSlots /\ j \in Slots /\ blob_catalog[j].uri = u
        BY <2>3, SearchedSlot DEF RemoveBlob, UsedSlots
      <3> HIDE DEF j
      <3>2. blob_catalog' = [blob_catalog EXCEPT ![j] = FreeSlot]
        BY <2>3 DEF RemoveBlob, j
      <3>3. ~FreeSlot.exists
        BY Zenon DEF FreeSlot
      <3>4. /\ ~blob_catalog'[j].exists
            /\ \A i \in Slots : i # j => blob_catalog'[i] = blob_catalog[i]
        BY <3>1, <3>2, <3>3 DEF StoreInv, TypeOK
      <3>5. u \in StoredUris /\ u \in StoredUris'
        BY <3>1 DEF StoredUris
      <3>6. PICK i \in UsedSlots' : blob_catalog'[i].uri = u
        BY <3>5 DEF StoredUris
      <3>7. i # j /\ i \in UsedSlots /\ blob_catalog[i].uri = u
        BY <3>4, <3>6 DEF UsedSlots
      <3>8. QED
        BY <3>1, <3>7 DEF StoreInv, OneSlotPerUri
    <2>4. CASE Erase
      <3>1. UsedSlots' = {}
        <4>1. blob_catalog' = [i \in Slots |-> FreeSlot]
          BY <2>4 DEF Erase
        <4>2. ~FreeSlot.exists
          BY Zenon DEF FreeSlot
        <4>3. QED
          BY <4>1, <4>2 DEF UsedSlots
      <3>2. StoredUris = {}
        BY <3>1 DEF StoredUris
      <3>3. UsedSlots = {}
        BY <3>2 DEF StoredUris
      <3>4. QED
        BY <3>3
    <2>5. QED
      BY <2>1, <2>2, <2>3, <2>4
      DEF StoreNext, UriStep, PutData, ReadBlob, RemoveBlobMissing, StoreBlobFull, ListBlobs
  <1>2. UsedSlots' \subseteq Slots
    BY DEF UsedSlots
  <1>3. ASSUME NEW i \in UsedSlots PROVE Met(i)' \in Nat /\ Met(i) <= Met(i)'
    <2> DEFINE Before == {j \in UsedSlots : j <= i}
               After  == {j \in UsedSlots' : j <= i}
    <2>1. Before \in SUBSET After /\ After \in SUBSET Slots
      BY <1>1, <1>2
    <2>2. IsFiniteSet(After) /\ Cardinality(After) \in Nat
      BY <2>1, SlotSet, FS_Subset, FS_CardinalityType
    <2>3. Cardinality(Before) <= Cardinality(After)
      BY <2>1, <2>2, FS_Subset
    <2>4. QED
      BY <2>2, <2>3 DEF Met
  <1>4. QED
    BY <1>1, <1>3

-----------------------------------------------------------------------------
(* The listing.  *)

\* Of the URIs that were there when the listing began, the host has those whose slots the
\* loop meets among the first nread.  A slot that is taken moves the rest on, never back.
ReadSoFar ==
  reader.status = "reading" /\ ~reader.removed
    => /\ reader.stored \subseteq StoredUris
       /\ \A i \in UsedSlots : blob_catalog[i].uri \in reader.stored /\ Met(i) <= reader.nread
                                 => blob_catalog[i].uri \in reader.uris

\* As long as the catalog stays as it was, the host gets nothing else.
SameSoFar ==
  reader.status \in {"reading", "done"} /\ ~reader.changed
    => ~reader.removed /\ reader.stored = StoredUris /\ reader.uris \subseteq StoredUris

ListInv == reader \in Readers /\ ReadSoFar /\ SameSoFar /\ StoringLosesNothing

LEMMA ListInit == Init => ListInv
  <1> SUFFICES ASSUME Init PROVE ListInv
    OBVIOUS
  <1>1. /\ reader.status = "idle" /\ reader \in Readers
    BY DEF Init, Readers
  <1>2. QED
    BY <1>1 DEF ListInv, ReadSoFar, SameSoFar, StoringLosesNothing

LEMMA StoredAreUris == ASSUME StoreInv PROVE StoredUris \subseteq Uris
  BY UsedSlotTypes DEF StoreInv, StoredUris, UsedSlots

\* A slot is met at the first number or later.
LEMMA ListStart ==
  ASSUME StoreInv, StartListing
  PROVE  ListInv'
  <1>1. /\ reader'.status = "reading" /\ reader'.nread = 0 /\ reader'.uris = {}
        /\ reader'.stored = StoredUris /\ ~reader'.removed
    BY DEF StartListing
  <1>2. /\ UsedSlots' = UsedSlots /\ StoredUris' = StoredUris
    BY DEF StartListing, storeVars, UsedSlots, StoredUris
  <1>3. \A i \in UsedSlots : Met(i)' = Met(i) /\ ~ (Met(i) <= 0)
    <2>1. \A i \in UsedSlots : Met(i) \in 1..blobcount
      BY MetOnce
    <2>2. \A i \in UsedSlots : Met(i)' = Met(i)
      BY <1>2 DEF Met
    <2>3. QED
      BY <2>1, <2>2, MetOnce
  <1>4. reader' \in Readers
    BY StoredAreUris DEF StartListing, Readers
  <1>5. ReadSoFar'
    BY <1>1, <1>2, <1>3 DEF ReadSoFar
  <1>6. SameSoFar'
    BY <1>1, <1>2 DEF SameSoFar
  <1>7. StoringLosesNothing'
    BY <1>1 DEF StoringLosesNothing
  <1>8. QED
    BY <1>4, <1>5, <1>6, <1>7 DEF ListInv

\* A page moves the mark on and brings the URIs in between; at the last one the mark is
\* behind every slot.
LEMMA ListPage ==
  ASSUME StoreInv, ListInv, ReadPage
  PROVE  ListInv'
  <1> DEFINE n == reader.nread
  <1>1. reader \in Readers /\ n \in 0..255 /\ reader.status = "reading"
    BY DEF ListInv, Readers, ReadPage
  <1>2. PICK reply \in Replies(n) :
          reader' = [reader EXCEPT !.nread  = reply.nread,
                                   !.uris   = @ \cup reply.uris,
                                   !.status = IF ~reply.fits THEN "garbled"
                                              ELSE IF reply.unread = 0 THEN "done"
                                              ELSE "reading"]
    BY DEF ReadPage
  <1> HIDE DEF n
  <1>3. /\ reply.nread \in 0..255 /\ reply.uris \subseteq StoredUris
        /\ \A i \in UsedSlots : n < Met(i) /\ Met(i) <= reply.nread
                                  => blob_catalog[i].uri \in reply.uris
        /\ reply.unread = 0 => reply.nread = blobcount
    BY <1>1, ReplyOfPage
  <1>4. /\ reader'.nread = reply.nread /\ reader'.uris = reader.uris \cup reply.uris
        /\ reader'.stored = reader.stored /\ reader'.changed = reader.changed
        /\ reader'.removed = reader.removed
        /\ reader'.status \in {"garbled", "done", "reading"}
        /\ reader'.status = "done" => reply.unread = 0
        /\ reader' \in [status : {"idle", "reading", "done", "garbled"}, nread : {reply.nread},
                        uris : {reader.uris \cup reply.uris}, stored : {reader.stored},
                        changed : {reader.changed}, removed : {reader.removed}]
    BY <1>1, <1>2 DEF Readers
  <1>5. reader' \in Readers
    BY <1>1, <1>3, <1>4, StoredAreUris DEF Readers
  <1>6. /\ blob_catalog' = blob_catalog /\ UsedSlots' = UsedSlots /\ StoredUris' = StoredUris
        /\ \A i \in UsedSlots : Met(i)' = Met(i) /\ Met(i) \in 1..blobcount
    <2>1. blob_catalog' = blob_catalog
      BY DEF ReadPage, ListBlobs
    <2>2. UsedSlots' = UsedSlots /\ StoredUris' = StoredUris
      BY <2>1 DEF UsedSlots, StoredUris
    <2>3. \A i \in UsedSlots : Met(i)' = Met(i)
      BY <2>2 DEF Met
    <2>4. QED
      BY <2>1, <2>2, <2>3, MetOnce
  <1>7. ~reader.removed
          => /\ reader.stored \subseteq StoredUris
             /\ \A i \in UsedSlots : blob_catalog[i].uri \in reader.stored /\ Met(i) <= n
                                       => blob_catalog[i].uri \in reader.uris
    BY <1>1 DEF ListInv, ReadSoFar, n
  <1>8. ASSUME ~reader.removed, NEW i \in UsedSlots, blob_catalog[i].uri \in reader.stored,
               Met(i) <= reply.nread
        PROVE  blob_catalog[i].uri \in reader'.uris
    <2>1. Met(i) \in Nat /\ n \in Nat
      BY <1>1, <1>6, MetOnce
    <2>2. Met(i) <= n \/ n < Met(i)
      BY <2>1
    <2>3. QED
      BY <1>3, <1>4, <1>7, <1>8, <2>2
  <1>9. ReadSoFar'
    BY <1>4, <1>6, <1>7, <1>8 DEF ReadSoFar
  <1>10. SameSoFar'
    BY <1>1, <1>3, <1>4, <1>6 DEF ListInv, SameSoFar
  <1>11. StoringLosesNothing'
    <2> SUFFICES ASSUME reader'.status = "done", ~reader.removed, NEW u \in reader.stored
                 PROVE  u \in reader'.uris
      BY <1>4 DEF StoringLosesNothing
    <2>1. PICK i \in UsedSlots : blob_catalog[i].uri = u
      BY <1>7 DEF StoredUris
    <2>2. Met(i) <= reply.nread
      BY <1>3, <1>4, <1>6, MetOnce
    <2>3. QED
      BY <1>8, <2>1, <2>2
  <1>12. QED
    BY <1>5, <1>9, <1>10, <1>11 DEF ListInv

\* Another command leaves the slots read among the first nread, or the host learns that a
\* URI went.
LEMMA ListOther ==
  ASSUME StoreInv, StoreInv', ListInv, OtherCommand
  PROVE  ListInv'
  <1>1. reader \in Readers
    BY DEF ListInv
  <1>2. /\ reader'.status = reader.status /\ reader'.nread = reader.nread
        /\ reader'.uris = reader.uris /\ reader'.stored = reader.stored
        /\ reader' \in Readers
        /\ ~reader'.changed => ~reader.changed /\ blob_catalog' = blob_catalog
        /\ ~reader'.removed <=> ~reader.removed /\ StoredUris \subseteq StoredUris'
    BY <1>1 DEF OtherCommand, Readers
  <1>3. ReadSoFar'
    <2> SUFFICES ASSUME reader.status = "reading", ~reader.removed, StoredUris \subseteq StoredUris'
                 PROVE  /\ reader.stored \subseteq StoredUris'
                        /\ \A i \in UsedSlots' :
                             blob_catalog'[i].uri \in reader.stored /\ Met(i)' <= reader.nread
                               => blob_catalog'[i].uri \in reader.uris
      BY <1>2 DEF ReadSoFar
    <2>1. /\ UsedSlots \subseteq UsedSlots'
          /\ \A i \in UsedSlots : blob_catalog'[i].uri = blob_catalog[i].uri
          /\ \A i \in UsedSlots : Met(i)' \in Nat /\ Met(i) <= Met(i)'
      BY CatalogGrows DEF OtherCommand
    <2>2. /\ reader.stored \subseteq StoredUris
          /\ \A i \in UsedSlots :
               blob_catalog[i].uri \in reader.stored /\ Met(i) <= reader.nread
                 => blob_catalog[i].uri \in reader.uris
      BY DEF ListInv, ReadSoFar
    <2>3. ASSUME NEW i \in UsedSlots', blob_catalog'[i].uri \in reader.stored,
                 Met(i)' <= reader.nread
          PROVE  blob_catalog'[i].uri \in reader.uris
      <3>1. PICK j \in UsedSlots : blob_catalog[j].uri = blob_catalog'[i].uri
        BY <2>2, <2>3 DEF StoredUris
      <3>2. j = i
        BY <2>1, <3>1 DEF StoreInv, OneSlotPerUri
      <3>3. Met(i) \in Nat /\ Met(i)' \in Nat /\ reader.nread \in Nat
        <4>1. i \in UsedSlots
          BY <3>1, <3>2
        <4>2. Met(i) \in Nat
          BY <4>1, MetOnce
        <4>3. Met(i)' \in Nat
          BY <2>1, <4>1
        <4>4. reader.nread \in Nat
          BY <1>1 DEF Readers
        <4>5. QED
          BY <4>2, <4>3, <4>4
      <3>4. Met(i) <= reader.nread
        BY <2>1, <2>3, <3>1, <3>2, <3>3
      <3>5. QED
        BY <2>2, <2>3, <3>1, <3>2, <3>4
    <2>4. QED
      BY <2>2, <2>3
  <1>4. SameSoFar'
    <2>1. blob_catalog' = blob_catalog => StoredUris' = StoredUris
      BY DEF StoredUris, UsedSlots
    <2>2. QED
      BY <1>2, <2>1 DEF ListInv, SameSoFar
  <1>5. StoringLosesNothing'
    BY <1>2 DEF ListInv, StoringLosesNothing
  <1>6. QED
    BY <1>2, <1>3, <1>4, <1>5 DEF ListInv

LEMMA ListStutter ==
  ASSUME ListInv, UNCHANGED vars
  PROVE  ListInv'
  BY DEF ListInv, vars, storeVars, ReadSoFar, SameSoFar, StoringLosesNothing, StoredUris,
         UsedSlots, Met

\* The store does under a listing what it does alone: no URI has two slots, and the map of
\* BlobMap is implemented.
THEOREM ListingKeepsStore == Spec => StoreSpec
  <1>1. Init => StoreInit
    BY DEF Init
  <1>2. [Next]_vars => [StoreNext]_storeVars
    BY DEF Next, vars, StartListing, ReadPage, OtherCommand, StoreNext
  <1>3. QED
    BY <1>1, <1>2, PTL DEF Spec, StoreSpec

THEOREM ListInvariant == Spec => []ListInv
  <1>1. StoreInv /\ StoreInv' /\ ListInv /\ [Next]_vars => ListInv'
    BY ListStart, ListPage, ListOther, ListStutter DEF Next
  <1>2. Spec => []StoreInv
    BY ListingKeepsStore, StoreInvariant, PTL
  <1>3. QED
    BY <1>1, <1>2, ListInit, PTL DEF Spec

\* A listing under which nothing changed gives exactly the URIs of the catalog, whatever
\* their sizes and however they fall into pages.
THEOREM ListingIsComplete == Spec => []ListingComplete
  <1>1. ListInv => ListingComplete
    BY DEF ListInv, ListingComplete, StoringLosesNothing, SameSoFar
  <1>2. QED
    BY <1>1, ListInvariant, PTL

\* A blob stored between two pages hides none of the URIs that were there before.
THEOREM StoringHidesNothing == Spec => []StoringLosesNothing
  <1>1. ListInv => StoringLosesNothing
    BY DEF ListInv
  <1>2. QED
    BY <1>1, ListInvariant, PTL
=============================================================================
