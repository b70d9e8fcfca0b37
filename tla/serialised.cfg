CONSTANTS
  Requests = {r1, r2}
  Tokens = 2
  MaxGas = 1
  Configs <- SigningMode
  Shapes <- MixedShapes
  ExchangeMethods <- Methods
  Exceptions <- ForeignNames
  MaxTransactions = 1
SPECIFICATION Spec
CHECK_DEADLOCK FALSE
INVARIANT AccessSerialised
