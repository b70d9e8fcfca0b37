CONSTANTS
  Requests = {r1, r2, r3}
  Tokens = 2
  MaxGas = 1
  Configs <- OrderMode
  Shapes <- OrderShapes
  ExchangeMethods <- Methods
  Exceptions <- ForeignNames
  MaxTransactions = 2
SPECIFICATION Spec
SYMMETRY RequestSymmetry
CHECK_DEADLOCK FALSE
INVARIANTS ExchangeExclusive NonceNeverReused CallsSendInOneBlock
PROPERTIES NoOvertaking AnswerIsFinal ImplementsSerialBridge
