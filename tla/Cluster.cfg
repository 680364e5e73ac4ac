SPECIFICATION Spec

CONSTANTS
  Z = 2
  iters = 4
  op <- MCOp
  Draws <- MCDraws
  ColdDecodes = {1}
  Seeds <- MCSeeds
  FreshKinds <- MCFresh
  ReturnKinds <- MCReturns
  seed_backlog = 0
  eligibility = 1
  global_age_cap = 0
  aff_spill_cap = 0
  node_capacity = 5
  evict_age = 2
  gone_age = 3

INVARIANTS
  AffinityWaitBounded
  HbmClosedLoop
  PrepoKvIsOwn

PROPERTIES
  PopulationConserved
  ShrinksOnlyWhenDry
  OldestForced

\* The programs end after their last round.
CHECK_DEADLOCK FALSE
