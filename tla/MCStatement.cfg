CONSTANTS
  Cap = 20
  Bits = 4
  FloatRoom = 3
  DumpMax = 2
  PackMax = 2
  Threshold = 2
  Sinks = 2
  Secs = {0, 1}
  Tid = 7
  MaxOps = 2
  First <- MCFirst
  Nested <- MCNested
  Rendered <- Render
  Numeral10 <- Decimal
SPECIFICATION StatementSpec
INVARIANTS
  StatementTypeOK
  LineAsWritten
  ScratchSafe
