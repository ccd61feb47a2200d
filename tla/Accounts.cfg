SPECIFICATION Spec
CONSTANTS
  u1 = u1
  u2 = u2
  e1 = e1
  e2 = e2
  p1 = p1
  n1 = n1
  t1 = t1
  q1 = q1
  q2 = q2
  k1 = k1
  k2 = k2
  NULL = NULL
  UserIds = {u1, u2}
  Addresses = {e1, e2}
  ProviderAccounts = {p1}
  NameIds = {n1}
  LinkTokens = {t1}
  AccountCalls = {q1, q2}
  UserKeys = {u1}
  ErasureCalls = {q1, q2}
  Keys = {k1, k2}
  Counterless = {k2}
  Challenges = {e1, e2}
  PasskeyCalls = {q1, q2}
  MaxSignatures = 2
  MaxPaid = 2
  HookKeys = {u1, u2}
  HookCalls = {q1, q2}
  MaxLists = 4
  Indexes = {e1, e2}
  SsoCalls = {q1, q2}
  MaxLogouts = 2
SYMMETRY Symmetry
INVARIANTS
  TypeOK
  OneUserPerAccount
  PasswordsWithinOverlap
  NothingOutlivesTheRow
  AssertionPaysOnce
  ListSettles
  AnsweredLogoutHolds
CHECK_DEADLOCK FALSE
