CONSTANTS
  Objects <- Five
  Root = 1
  Texts <- AllTexts
  Graphs <- AllGraphs
SPECIFICATION Spec
CHECK_DEADLOCK FALSE
INVARIANTS AnswerIsJson EveryTextArrives 
