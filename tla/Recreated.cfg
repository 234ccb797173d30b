\* An election created again after it was completed.
SPECIFICATION Spec
CONSTANTS
  r1 = r1 r2 = r2 c1 = c1 c2 = c2 t1 = t1 t2 = t2 k1 = k1 n1 = n1 n2 = n2
  NoRequest = NoRequest NoCredential = NoCredential NoToken = NoToken
  NoKey = NoKey NoBallot = NoBallot
  Requests = {r1, r2}
  Credentials = {c1}
  Tokens = {t1}
  PublicKeys = {k1}
  Ballots <- OneBallot
  Windows <- NoWindow
  MaxTime = 0
  FailureLimit = 1
  FailureWindow = 1
  SessionTTL = 1
  AdminConcurrency = 1
  MaxElections = 2
SYMMETRY Symmetry
PROPERTIES
  CompleteIsImmutable
