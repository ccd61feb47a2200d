SPECIFICATION Spec
CONSTANTS
  u1 = u1
  u2 = u2
  o1 = o1
  s1 = s1
  s2 = s2
  s3 = s3
  s4 = s4
  t1 = t1
  t2 = t2
  t3 = t3
  t4 = t4
  c1 = c1
  c2 = c2
  NULL = NULL
  NoOrg = NoOrg
  NoLimit = NoLimit
  Users = {u1, u2}
  Orgs = {o1}
  Devices = {}
  SessionIds = {s1, s2, s3, s4}
  Tokens = {t1, t2, t3, t4}
  Calls = {c1, c2}
  UserLimit = 1
  OrgLimit <- OneEach
  RefreshTtl = 1
  MaxTime = 0
  Features = {}
SYMMETRY Symmetry
INVARIANTS
  SessionsAccountedFor
  ActiveWithinSlack
