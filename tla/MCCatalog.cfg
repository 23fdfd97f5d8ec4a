\* Two shards, every change the user can make, with and without import.
CONSTANTS
  n1 = n1  n2 = n2  n3 = n3  n4 = n4
  None = None
  Names = {n1, n2, n3, n4}
  Count = 2
  NoImports = {TRUE, FALSE}
  MaxCrashes = 2
  MaxChanges = 1
  MaxFailures = 2
SPECIFICATION Spec
SYMMETRY Symmetry
INVARIANTS UniqueRows FilesAdopted EnoughShards NoSurplus OwnShardsPresent
CHECK_DEADLOCK FALSE
