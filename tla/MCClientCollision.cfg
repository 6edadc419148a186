SPECIFICATION Spec
CONSTANTS
  NumVars = 3
  Operands <- MCOperands
  Subs <- OnlyCollision
  Domains <- MCDomains
INVARIANT
  ComposeExistsAssert
