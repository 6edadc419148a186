SPECIFICATION Spec
CONSTANTS
  NumVars = 3
  Operands <- MCOperands
  Subs <- OnlyConstant
  Domains <- MCDomains
INVARIANT
  CITEexistsAssert
