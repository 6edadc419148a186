SPECIFICATION Spec
CONSTANTS
  e1 = e1
  e2 = e2
  show = show
  wit = wit
  t1 = t1
  t2 = t2
  Evaluators <- MCEvaluators
  Lasting <- MCLasting
  Terms <- MCTerms
  MAX_EVALUATORS = 3
  MaxBuckets = 4
CHECK_DEADLOCK FALSE
INVARIANTS
  TypeOK
  TermListsExact
  ChainsComplete
  NothingLeftBehind
  StatesUnique
  OnlyLastingBreak
PROPERTIES
  ImplementsStates
  RemovalEnds
