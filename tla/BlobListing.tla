----------------------------- MODULE BlobListing -----------------------------
(***************************************************************************)
(* A host that lists the URIs of the blob store while blobs are stored and *)
(* removed.  A page is one response; the host passes the number of URIs it *)
(* has so far and gets the next ones in the order of the catalog.          *)
(***************************************************************************)
EXTENDS BlobStore, Integers, Sequences

CONSTANTS
  UriSize,                \* the size of each URI, in bytes
  MaxUriSize, MaxOutput   \* MAX_URI_SIZE, MAX_APDU_OUTPUT_DATA_SIZE

ASSUME SizesAssumption ==
  /\ MaxUriSize \in Nat /\ MaxOutput \in Nat
  /\ UriSize \in [Uris -> 1..MaxUriSize]
  /\ MaxUriSize + 3 <= MaxOutput
  /\ MaxBlobs < 256

VARIABLE reader   \* the listing of the host

vars == <<storeVars, reader>>

\* stored are the URIs when the listing began; changed and removed record what happened
\* to the catalog since.
Readers == [status : {"idle", "reading", "done", "garbled"}, nread : 0..255,
            uris : SUBSET Uris, stored : SUBSET Uris, changed : BOOLEAN, removed : BOOLEAN]

-----------------------------------------------------------------------------
(* The reply of LIST_BLOBS.  *)

\* uri_size of a slot: 0 where it is free.
UriSizeAt(i) == IF blob_catalog[i].exists THEN UriSize[blob_catalog[i].uri] ELSE 0

\* How many URIs the loop has met when it is through with slot i.
Met(i) == Cardinality({j \in UsedSlots : j <= i})

\* The used slots in the order of the catalog, without the first n.
Unread(n) == [k \in 1..blobcount - n |-> CHOOSE i \in UsedSlots : Met(i) = n + k]

\* Each URI goes out behind a byte with its size.
PageBytes(page) == MapThenSumSet(LAMBDA i : UriSizeAt(page[i]) + 1, DOMAIN page)

\* Whether the loop goes on after the slots in page.  The size it tests is not that of the
\* URI it writes next, but of the slot whose number is the count of URIs read.
GoesOn(n, page) ==
  PageBytes(page) + UriSizeAt(n + Len(page) + 1) + 1 <= MaxOutput - 2

\* The loop, with all that is unread given.
Page(n, unread) ==
  LET stops(m) == m = Len(unread) \/ ~GoesOn(n, SubSeq(unread, 1, m))
  IN  SubSeq(unread, 1, Min({m \in 0..Len(unread) : stops(m)}))

\* (Faulty variant: the early answer is left out.)
ReadAllNever(n) == FALSE

\* (Faulty variant: the early answer comes one URI too soon.)
ReadAllButOne(n) == n + 1 >= blobcount

\* The early answer <<blobcount, 0>> to a host that has read as many URIs as there are.
ReadAll(n) == n >= blobcount

\* What the host gets after n URIs, and whether it fits: of a longer response the size La,
\* a BYTE, is wrong, and the host cannot read it.
EarlyReply == [uris |-> {}, nread |-> blobcount, unread |-> 0, fits |-> TRUE]
PageReply(n, page) ==
  LET read == n + Len(page)
  IN  [uris |-> {blob_catalog[page[i]].uri : i \in DOMAIN page},
       nread |-> read, unread |-> (blobcount - read) % 256,
       fits |-> PageBytes(page) + 2 <= MaxOutput]

\* The one reply to a host that has read n URIs.
Replies(n) ==
  IF ReadAll(n) THEN {EarlyReply}
  ELSE {PageReply(n, page) : page \in {Page(n, unread) : unread \in {Unread(n)}}}

-----------------------------------------------------------------------------

StartListing ==
  /\ reader.status # "reading"
  /\ reader' = [status |-> "reading", nread |-> 0, uris |-> {}, stored |-> StoredUris,
                changed |-> FALSE, removed |-> FALSE]
  /\ UNCHANGED storeVars

\* One round of the host: until nothing is unread.
ReadPage ==
  /\ reader.status = "reading"
  /\ ListBlobs
  /\ \E reply \in Replies(reader.nread) :
       reader' = [reader EXCEPT !.nread  = reply.nread,
                                !.uris   = @ \cup reply.uris,
                                !.status = IF ~reply.fits THEN "garbled"
                                           ELSE IF reply.unread = 0 THEN "done"
                                           ELSE "reading"]

\* Another command, under which the catalog may change.
OtherCommand ==
  /\ StoreNext
  /\ reader' = [reader EXCEPT !.changed = @ \/ blob_catalog' # blob_catalog,
                              !.removed = @ \/ ~(StoredUris \subseteq StoredUris')]

Init ==
  /\ StoreInit
  /\ reader = [status |-> "idle", nread |-> 0, uris |-> {}, stored |-> {},
               changed |-> FALSE, removed |-> FALSE]

Next == StartListing \/ ReadPage \/ OtherCommand

\* A host that lists goes on until the card says that nothing is left.
Spec == Init /\ [][Next]_vars /\ WF_vars(ReadPage)

-----------------------------------------------------------------------------
(* Properties.  *)

\* A listing during which the catalog stayed as it was gives exactly the URIs stored.
ListingComplete ==
  reader.status = "done" /\ ~reader.changed => reader.uris = StoredUris

\* Blobs stored while the listing goes on may take a slot before those already read and
\* move the rest of the catalog by one, but no URI is lost to it.
StoringLosesNothing ==
  reader.status = "done" /\ ~reader.removed => reader.stored \subseteq reader.uris

\* Every listing ends, also when blobs are stored and removed under it.
ListingEnds == reader.status = "reading" ~> reader.status # "reading"

\* "in this particular case, we know that no more than 255 will ever be sent out"
\* (LIST_BLOBS): a page fits into one response.
PagesFit == reader.status # "garbled"
=============================================================================
