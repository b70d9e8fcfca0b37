CONSTANTS
  Requests = {r1, r2}
  Tokens = 2
  MaxGas = 1
  Configs <- AllModes
  Shapes <- AllShapes
  ExchangeMethods <- Methods
  Exceptions <- ForeignNames
  MaxTransactions = 2
SPECIFICATION Spec
CHECK_DEADLOCK FALSE
INVARIANTS TypeOK AnswerTellsEffect OnlyAdmittedRun NobodyStranded NoHoldAndWait EveryOutcomeTaken
PROPERTY EveryStepGetsOn
