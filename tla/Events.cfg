SPECIFICATION Spec
CONSTANTS
  Capacity = 2
  MaxLogs = 3
  Calls <- MCCalls
  Chains <- MCChains
  Declared <- ABI
  None = None
PROPERTIES ImplementsStream IterationEnds UnsubscribeReturns
CHECK_DEADLOCK FALSE
