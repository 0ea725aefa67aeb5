SPECIFICATION Spec
CONSTANTS
  MAX_FUNARGS = 32
  MAX_STACK_DEPTH = 40
  MAX_RECURSION = 7
  MAX_MARK_DEPTH = 5
  MAX_PARENTS = 6
  Codes <- MCCodes
  Meanings <- MCMeanings
  Shape <- MCShape
INVARIANTS
  TypeOK
  ResultAsMeant
  AtAnOperation
  StacksBalance
  ContextsPartition
PROPERTY Terminates
