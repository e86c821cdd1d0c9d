SPECIFICATION Spec
CONSTANTS
  Clients = {"c", "d"}
  Main = "main"
  Scenarios <- MCScenarios
  Numbers = {1, 2}
  Names = {b}
  MaxCalls = 3
  MaxSessions = 2
INVARIANTS AnswersAreTrue OneEffectPerCall
PROPERTY EveryFileIsTried
CHECK_DEADLOCK FALSE
