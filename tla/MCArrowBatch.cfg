SPECIFICATION Spec
CONSTANTS
  f1 = f1
  f2 = f2
  f3 = f3
  Manifests <- MCManifests
  RowsIn <- MCRowsIn
  MaxFaults = 3
INVARIANTS
  TypeOK
  RemovedOnlyLoaded
  BookmarkLoaded
  MissingWasLoaded
  CountedIsLoaded
  InsertedPerFault
PROPERTY
  Completes
