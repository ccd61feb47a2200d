SPECIFICATION Spec
CONSTANTS
  u1 = u1
  u2 = u2
  u3 = u3
  g1 = g1
  g2 = g2
  e1 = e1
  e2 = e2
  e3 = e3
  x1 = x1
  x2 = x2
  y1 = y1
  y2 = y2
  c1 = c1
  c2 = c2
  NULL = NULL
  Users = {u1, u2, u3}
  Groups = {g1, g2}
  Emails = {e1, e2, e3}
  AllowedEmails = {e1, e2}
  ExternalIds = {x1, x2, y1, y2}
  Calls = {c1, c2}
  Requests <- MCRequests
  InitialUsers <- MCInitialUsers
  MaxStarted = 2
SYMMETRY Symmetry
INVARIANTS
  TypeOK
  OnePerExternalId
  PictureTrue
  SyncKeepsListed
CHECK_DEADLOCK FALSE
