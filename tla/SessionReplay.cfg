SPECIFICATION FairSpec
CONSTANTS
  u1 = u1
  s1 = s1
  s2 = s2
  t1 = t1
  t2 = t2
  t3 = t3
  c1 = c1
  c2 = c2
  NULL = NULL
  NoOrg = NoOrg
  NoLimit = NoLimit
  Users = {u1}
  Orgs = {}
  Devices = {}
  SessionIds = {s1, s2}
  Tokens = {t1, t2, t3}
  Calls = {c1, c2}
  UserLimit = 1
  OrgLimit <- OneEach
  RefreshTtl = 0
  MaxTime = 1
  Features = {"revoke_user"}
INVARIANTS
  SpentTokenNotLive
PROPERTIES
  ReplayEndsFamily
