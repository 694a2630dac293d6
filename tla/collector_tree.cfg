SPECIFICATION Spec
CONSTANTS
  root = root
  a = a
  b = b
  w1 = w1
  w2 = w2
  Nil = Nil
  Collectors = {root, a, b}
  Workers = {w1, w2}
  Errors = {e1, e2, e3}
  Chain <- ThreeChain
  MaxErrs <- Max221
  Uses <- AllUse
SYMMETRY Symmetry
INVARIANTS
  BudgetRespected
  NothingLostWithinBudget
  JoinExact
