\* Whether a page fits into one response.
SPECIFICATION Spec
CONSTANTS
  LongUris = {u1, u2, u3, u4}
  ShortUris = {s1}
  Uris <- MCUris
  UriSize <- MCUriSize
  NoUri = noUri
  Contents = {empty}
  Empty = empty
  MaxBlobs = 5
  MaxUriSize = 64
  MaxOutput = 255
SYMMETRY Symmetry
VIEW CatalogAndReader
INVARIANTS PagesFit
