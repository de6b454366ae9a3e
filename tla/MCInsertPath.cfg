SPECIFICATION Spec
CONSTANTS
  r1 = r1
  r2 = r2
  Rows <- MCRows
  MaxTries = 3
\* A call that raises ends the target; clean_up ends the stream.
CHECK_DEADLOCK FALSE
INVARIANTS
  TypeOK
  StoredWhenReturned
  DuplicateNeedsLostReply
  CopiesBounded
  AttemptBudget
  TruthfulCount
  OptimizedAfterRecords
PROPERTIES
  ContractSpec
  CallEnds
