SPECIFICATION Spec
CONSTANTS
  N = 2
  MaxVersion = 3
  MaxCalls = 3
INVARIANTS
  TypeOK
  ActiveVersionKept
  OlderVersionsLeave
PROPERTY
  DeletionTimeKept
