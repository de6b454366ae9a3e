SPECIFICATION Spec
CONSTANTS
  orders = orders
  events = events
  main = main
  Main = main
  Streams <- MCStreams
  Rows <- MCRows
  StreamOf <- MCStreamOf
  IdOf <- MCIdOf
  Keyed <- MCKeyed
  SchemaOf <- MCSchemaOf
  Scenarios <- MCScenarios
  MaxRuns = 2
\* The last run ends.
CHECK_DEADLOCK FALSE
INVARIANTS
  TypeOK
  TunnelOnce
  NeverAround
  SetupSuffices
  KeysKept
  FitsColumn
  RepairKeepsAllowed
