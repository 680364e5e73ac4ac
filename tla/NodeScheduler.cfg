SPECIFICATION Spec
CONSTANTS
  Lengths = {1, 4}
  DecodeLengths = {1, 2}
  ctx_balance = 2
  decode_count_target = 2
  kv_operating_target = 4
  decode_pool = 5
  age_cap = 1
  MinIdeal = 1
  MaxArrivals = 7
INVARIANTS
  TypeOK
  NoRequestLost
  WaitBounded
  RoundIsWellFormed
PROPERTIES
  ShrinksOnlyWhenDry
  HealingKeepsTheMix
  WarmFillCentres
