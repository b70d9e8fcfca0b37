CONSTANTS
  Requests = {r1, r2}
  Tokens = 1
  MaxGas = 1
  Configs <- SigningMode
  Shapes <- MixedShapes
  ExchangeMethods <- Methods
  Exceptions <- ForeignNames
  MaxTransactions = 2
SPECIFICATION FairSpec
CHECK_DEADLOCK FALSE
PROPERTIES EveryRequestAnswered TokensReturned
