\* Two workers insert the same identifier.
CONSTANTS
  i1 = i1  i2 = i2
  b0 = b0  b1 = b1  b2 = b2
  w1 = w1  w2 = w2
  None = None
  Ids = {i1, i2}
  Workers = {w1, w2}
  NumShards = 2
  Hashes <- MCHashes
  Place <- MCPlace
  MaxRequests = 2
  MaxCrashes = 0
SPECIFICATION Spec
INVARIANTS DuplicateRefused
