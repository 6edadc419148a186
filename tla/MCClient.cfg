SPECIFICATION Spec
CONSTANTS
  NumVars = 3
  Operands <- MCOperands
  Subs <- MCSubs
  Domains <- MCDomains
INVARIANTS
  ResultReduced
  ConnectiveMeaning
  DontCareMeaning
  QuantorMeaning
  ComposeMeaning
  LazyComposeMeaning
  CubeMeaning
