------------------------------ MODULE BlobStore ------------------------------
(***************************************************************************)
(* The blob store: MaxBlobs slots, each a catalog entry and a content, and *)
(* the buffer through which contents arrive.  BlobListing adds the host    *)
(* that lists the URIs.                                                    *)
(*                                                                         *)
(* The commands here have passed accessURI: mode and PIN are CardAccess's. *)
(***************************************************************************)
EXTENDS Naturals, FiniteSets, FiniteSetsExt

CONSTANTS
  Uris,
  NoUri,             \* the zeroes of a free slot
  Contents, Empty,   \* what PUT_DATA brings; Empty is a buffer of size 0
  MaxBlobs           \* MAX_NUMBER_OF_BLOBS

ASSUME BlobsAssumption ==
  /\ MaxBlobs \in Nat
  /\ NoUri \notin Uris
  /\ Empty \in Contents

Slots == 1..MaxBlobs

VARIABLES
  blob_catalog,   \* slot -> [exists, uri]
  blob_store,     \* slot -> content; a removed blob leaves its bytes
  buffer,
  answer          \* what the last command answered

storeVars == <<blob_catalog, blob_store, buffer, answer>>

FreeSlot == [exists |-> FALSE, uri |-> NoUri]

-----------------------------------------------------------------------------
(* getBlobstoreInformations: one pass over the catalog.  *)

UsedSlots == {i \in Slots : blob_catalog[i].exists}
blobcount == Cardinality(UsedSlots)
SlotsOf(u) == {i \in UsedSlots : blob_catalog[i].uri = u}

first_available_index == Min(Slots \ UsedSlots)   \* when there is one
uri_index(u)          == Max(SlotsOf(u))          \* when there is one

StoredUris == {blob_catalog[i].uri : i \in UsedSlots}

-----------------------------------------------------------------------------
(* The commands.  *)

PutData(c) ==
  /\ buffer' = c
  /\ UNCHANGED <<blob_catalog, blob_store, answer>>

\* (Faulty variant: the search for the URI is left out.)
SlotForNew(u) == first_available_index

\* The slot STORE_BLOB writes: the one that has the URI, or else the first free one.
SlotFor(u) == IF SlotsOf(u) # {} THEN uri_index(u) ELSE first_available_index

StoreBlob(u) ==
  /\ blobcount # MaxBlobs
  /\ blob_catalog' = [blob_catalog EXCEPT ![SlotFor(u)] = [exists |-> TRUE, uri |-> u]]
  /\ blob_store' = [blob_store EXCEPT ![SlotFor(u)] = buffer]
  /\ answer' = "done"
  /\ UNCHANGED buffer

StoreBlobFull ==
  /\ blobcount = MaxBlobs
  /\ answer' = "full"
  /\ UNCHANGED <<blob_catalog, blob_store, buffer>>

ReadBlob(u) ==
  /\ answer' = IF SlotsOf(u) # {} THEN blob_store[uri_index(u)] ELSE "missing"
  /\ UNCHANGED <<blob_catalog, blob_store, buffer>>

\* (Faulty variant: the URI of a removed blob is not cleared.)
RemoveBlobFlagOnly(u) ==
  /\ SlotsOf(u) # {}
  /\ blob_catalog' = [blob_catalog EXCEPT ![uri_index(u)].exists = FALSE]
  /\ answer' = "done"
  /\ UNCHANGED <<blob_store, buffer>>

RemoveBlob(u) ==
  /\ SlotsOf(u) # {}
  /\ blob_catalog' = [blob_catalog EXCEPT ![uri_index(u)] = FreeSlot]
  /\ answer' = "done"
  /\ UNCHANGED <<blob_store, buffer>>

RemoveBlobMissing(u) ==
  /\ SlotsOf(u) = {}
  /\ answer' = "missing"
  /\ UNCHANGED <<blob_catalog, blob_store, buffer>>

\* SET_VIRGIN_MODE.
Erase ==
  /\ blob_catalog' = [i \in Slots |-> FreeSlot]
  /\ blob_store' = [i \in Slots |-> Empty]
  /\ buffer' = Empty
  /\ answer' = "done"

\* LIST_BLOBS drops what PUT_DATA has brought; its reply is in BlobListing.
ListBlobs ==
  /\ buffer' = Empty
  /\ UNCHANGED <<blob_catalog, blob_store, answer>>

-----------------------------------------------------------------------------

StoreInit ==
  /\ blob_catalog = [i \in Slots |-> FreeSlot]
  /\ blob_store = [i \in Slots |-> Empty]
  /\ buffer = Empty
  /\ answer = "done"

UriStep(u) == StoreBlob(u) \/ ReadBlob(u) \/ RemoveBlob(u) \/ RemoveBlobMissing(u)

StoreNext == \/ \E c \in Contents : PutData(c)
             \/ \E u \in Uris : UriStep(u)
             \/ StoreBlobFull \/ Erase \/ ListBlobs

StoreSpec == StoreInit /\ [][StoreNext]_storeVars

-----------------------------------------------------------------------------
(* Properties.  *)

TypeOK ==
  /\ blob_catalog \in [Slots -> [exists : {TRUE}, uri : Uris] \cup {FreeSlot}]
  /\ blob_store \in [Slots -> Contents]
  /\ buffer \in Contents
  /\ answer \in Contents \cup {"done", "full", "missing"}

\* No URI has two slots: STORE_BLOB, which writes to the first free slot, READ_BLOB and
\* REMOVE_BLOB, which take the last slot with the URI, speak of the same blob.
OneSlotPerUri == \A i, j \in UsedSlots : blob_catalog[i].uri = blob_catalog[j].uri => i = j

\* The slots, free ones in between included, implement the map of BlobMap.
Map == INSTANCE BlobMap
  WITH blobs <- [u \in StoredUris |-> blob_store[uri_index(u)]]
ImplementsMap == Map!Spec
=============================================================================
