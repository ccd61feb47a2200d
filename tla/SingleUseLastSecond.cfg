SPECIFICATION LinkSpec
CONSTANTS
  t1 = t1
  t2 = t2
  c1 = c1
  c2 = c2
  NULL = NULL
  Tokens = {t1, t2}
  Calls = {c1, c2}
  Second = 2
  Ttl = 3
  MaxTime = 6
  MaxRedemptions = 2
SYMMETRY Symmetry
INVARIANTS
  SingleUse
CHECK_DEADLOCK FALSE
