SPECIFICATION Spec
CONSTANTS
  r1 = r1
  r2 = r2
  k1 = k1
  k2 = k2
  admin = admin
  user = user
  User = {admin, user}
  Admin = {admin}
  Credential = {k1, k2}
  Request = {r1, r2}
  SessionTtl = 2
  PurgeAfter = 2
  PurgeBatch = 1
  MaxTime = 5
  Attachment = {a1}
  MaxFaults = 1
  None = None
SYMMETRY MCSymmetry
INVARIANT FilesMatchRows ActsByLiveCredential
PROPERTY RefusedOnlyWhenDead
CHECK_DEADLOCK FALSE
