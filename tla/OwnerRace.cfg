SPECIFICATION Spec
CONSTANTS
  u1 = u1
  u2 = u2
  u3 = u3
  e1 = e1
  m1 = m1
  m2 = m2
  m3 = m3
  i1 = i1
  i2 = i2
  c1 = c1
  c2 = c2
  Owner = Owner
  Plain = Plain
  NoLimit = NoLimit
  NULL = NULL
  Users = {u1, u2}
  Emails = {e1}
  Roles = {Owner, Plain}
  MemberIds = {m1, m2}
  Invitations = {}
  Calls = {c1, c2}
  MaxMembers = NoLimit
SYMMETRY Symmetry
INVARIANTS
  OwnerRemains
CHECK_DEADLOCK FALSE
