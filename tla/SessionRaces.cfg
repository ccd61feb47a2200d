SPECIFICATION Spec
CONSTANTS
  u1 = u1
  d1 = d1
  s1 = s1
  s2 = s2
  t1 = t1
  t2 = t2
  t3 = t3
  t4 = t4
  c1 = c1
  c2 = c2
  NULL = NULL
  NoOrg = NoOrg
  NoLimit = NoLimit
  Users = {u1}
  Orgs = {}
  Devices = {d1}
  SessionIds = {s1, s2}
  Tokens = {t1, t2, t3, t4}
  Calls = {c1, c2}
  UserLimit = 1
  OrgLimit <- OneEach
  RefreshTtl = 1
  MaxTime = 0
  Features = {"revoke_user", "bare_revoke", "logout", "abort"}
SYMMETRY Symmetry
INVARIANTS
  LateRequestNeverRenews
  LostOnlyByDoubleSpend
PROPERTIES
  LifecycleSpec
