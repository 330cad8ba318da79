\* Three slots, pages of one URI each, two contents.
SPECIFICATION Spec
CONSTANTS
  LongUris = {u1, u2, u3}
  ShortUris = {}
  Uris <- MCUris
  UriSize <- MCUriSize
  NoUri = noUri
  Contents = {empty, b1}
  Empty = empty
  MaxBlobs = 3
  MaxUriSize = 2
  MaxOutput = 7
INVARIANTS TypeOK OneSlotPerUri ListingComplete StoringLosesNothing
PROPERTIES ImplementsMap ListingEnds
