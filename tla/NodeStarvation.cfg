SPECIFICATION Spec
CONSTANTS
  Lengths = {1, 4}
  DecodeLengths = {2}
  ctx_balance = 2
  decode_count_target = 2
  kv_operating_target = 4
  decode_pool = 7
  age_cap = 1
  MinIdeal = 1
  MaxArrivals = 7
INVARIANT
  WaitAtMostAgeCapPlusOne
