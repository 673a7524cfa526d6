SPECIFICATION SolveSpec
CONSTANTS
  n = 7
  Inputs <- MCPermutations
INVARIANTS
  ForestRepresents
  RaisesIfImpossible
  SignsUniform
CHECK_DEADLOCK FALSE
