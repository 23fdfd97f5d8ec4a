\* Two workers, two shards: three inserts of two identifiers, one after the
\* other or at the same time, and two crashes.
CONSTANTS
  i1 = i1  i2 = i2
  b0 = b0  b1 = b1  b2 = b2
  w1 = w1  w2 = w2
  None = None
  Ids = {i1, i2}
  Workers = {w1, w2}
  NumShards = 2
  Hashes <- MCHashes
  Place <- MCPlace
  MaxRequests = 3
  MaxCrashes = 2
SPECIFICATION Spec
SYMMETRY Symmetry
INVARIANTS TypeOK IndexCoversDisk AckedIsKnown
PROPERTIES NoSecondRow ImplementsRegister
