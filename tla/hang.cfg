CONSTANTS
  Requests = {r1, r2, r3}
  Tokens = 2
  MaxGas = 0
  Configs <- SigningMode
  Shapes <- HangShapes
  ExchangeMethods <- Methods
  Exceptions <- ForeignNames
  MaxTransactions = 1
SPECIFICATION HangSpec
CHECK_DEADLOCK FALSE
PROPERTIES PingSurvivesHungCall RefusalSurvivesHungCall
INVARIANT HungCallStopsNobody
