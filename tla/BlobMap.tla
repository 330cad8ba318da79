------------------------------- MODULE BlobMap -------------------------------
(***************************************************************************)
(* What the blob store of the card promises: a map from URIs to contents   *)
(* that holds at most MaxBlobs entries.  A store is refused when the map   *)
(* is full, also for a URI that is in it.                                  *)
(***************************************************************************)
EXTENDS Naturals, FiniteSets

CONSTANTS Uris, Contents, MaxBlobs

VARIABLES blobs,   \* URI -> content, for the URIs stored
          answer   \* what the last command answered

vars == <<blobs, answer>>

IsFull == Cardinality(DOMAIN blobs) >= MaxBlobs

Store(u, c) ==
  /\ ~IsFull
  /\ blobs' = [v \in DOMAIN blobs \cup {u} |-> IF v = u THEN c ELSE blobs[v]]
  /\ answer' = "done"

RefuseStore ==
  /\ IsFull
  /\ answer' = "full"
  /\ UNCHANGED blobs

Read(u) ==
  /\ answer' = IF u \in DOMAIN blobs THEN blobs[u] ELSE "missing"
  /\ UNCHANGED blobs

Remove(u) ==
  /\ answer' = IF u \in DOMAIN blobs THEN "done" ELSE "missing"
  /\ blobs' = [v \in DOMAIN blobs \ {u} |-> blobs[v]]

Clear ==
  /\ blobs' = [v \in {} |-> "missing"]
  /\ answer' = "done"

Init == blobs = [v \in {} |-> "missing"] /\ answer = "done"

Next == \/ \E u \in Uris : Read(u) \/ Remove(u) \/ \E c \in Contents : Store(u, c)
        \/ RefuseStore \/ Clear

Spec == Init /\ [][Next]_vars
=============================================================================
