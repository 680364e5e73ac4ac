SPECIFICATION Spec

CONSTANTS
  Ids = {i1, i2, i3}
  Nodes = {n1, n2}
  Lens = {1, 2, 3}
  Budgets <- MCBudgets
  node_capacity = 4
  eligibility_threshold = 1
  evict_age = 2
  gone_age = 3

SYMMETRY Interchangeable

INVARIANTS
  TypeOK
  UsedMatchesEntries
  WithinBudget
  HitsAreWarm

PROPERTIES
  CutsAreLeastRecent
  ImplementsKvStore
