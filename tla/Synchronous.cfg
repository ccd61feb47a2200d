SPECIFICATION Spec
CONSTANTS
  u1 = u1
  u2 = u2
  o1 = o1
  o2 = o2
  s1 = s1
  s2 = s2
  s3 = s3
  s4 = s4
  NoOrg = NoOrg
  NoLimit = NoLimit
  t1 = t1
  t2 = t2
  c1 = c1
  c2 = c2
  d1 = d1
  d2 = d2
  k1 = k1
  k2 = k2
  a1 = a1
  v1 = v1
  v2 = v2
  NoSub = NoSub
  NULL = NULL
  Second = 2
  MaxTime = 8
  DeviceTime = 4
  LinkTime = 5
  Shut = o2
  Users = {u1, u2}
  Orgs = {o1, o2}
  SessionIds = {s1, s2, s3, s4}
  UserLimit = 2
  OrgLimit <- TwoOrNone
  Tokens = {t1, t2}
  Calls = {c1, c2}
  Ttl = 3
  MaxRedemptions = 2
  Devices = {d1, d2}
  UserCodes = {k1, k2}
  Clients = {a1}
  Subs = {v1, v2}
  ExpiresIn = 3
  Interval = 1
  SlowDownExtra = 2
  MaxInterval = 5
  MaxTokens = 4
  MaxKeys = 3
  CodeTtl = 2
  RefreshTtl = 1
  RotationInterval = 4
  MaxUses = 2
  Window = 4
  MaxInWindow = 2
  BaseDelay = 1
  MaxDelay = 3
  MaxCounted = 5
  op1 = op1
  r1 = r1
  r2 = r2
  Operations = {op1}
  Requests = {r1, r2}
  ResendBase = 2
  ResendMax = 3
  MaxMails = 4
SYMMETRY Symmetry
INVARIANTS
  TypeOK
  WithinLimits
  OneEffectBeforeExpiry
  CodesMatchDevices
  PaysOnceBeforeExpiry
  OneCredentialPerGrant
  KeyOutlivesToken
  WindowHolds
  RetryAfterSuffices
  MailsWithinOverlap
PROPERTIES
  EvictsOldestWhenFull
  OldIdDies
  PatientClientNeverSlowed
  GrantSpec
CHECK_DEADLOCK FALSE
