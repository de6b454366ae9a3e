SPECIFICATION Spec
CONSTANTS
  orders = orders
  users = users
  o1 = o1
  u1 = u1
  u2 = u2
  N = 5
  Streams <- MCStreams
  Keys <- MCKeys
  StreamOf <- MCStreamOf
  KeyOf <- MCKeyOf
  SizeOf <- MCSizeOf
  Batched <- MCBatched
  RowCaps <- MCRowCaps
  ByteCaps <- MCByteCaps
  MaxFaults = 2
\* The target stops when the tap has no more messages.
CHECK_DEADLOCK FALSE
INVARIANTS
  TypeOK
  BookmarkCovered
  LastWriteWins
  BatchWithinCaps
  BytesTally
PROPERTIES
  ContractSpec
  AllDelivered
