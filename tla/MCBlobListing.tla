--------------------------- MODULE MCBlobListing ---------------------------
(* BlobListing with URIs of the largest size and of one byte.  *)
EXTENDS BlobListing, TLC

CONSTANTS LongUris, ShortUris

MCUris    == LongUris \cup ShortUris
MCUriSize == [u \in MCUris |-> IF u \in LongUris THEN MaxUriSize ELSE 1]

\* For the safety of a listing: it depends on the catalog alone.
CatalogAndReader == <<blob_catalog, reader>>

Symmetry == Permutations(LongUris) \cup Permutations(ShortUris)
=============================================================================
