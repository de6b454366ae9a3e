SPECIFICATION Spec
CONSTANTS
  c1 = c1
  c2 = c2
  Conns <- MCOneConn
  Units <- MCOneUnits
  Chunk = 2
\* A stopped tunnel whose connections have ended stays so.
CHECK_DEADLOCK FALSE
INVARIANT
  Forwarded
