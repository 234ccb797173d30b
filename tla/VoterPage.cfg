\* A voter who comes and goes while the voting is open.
SPECIFICATION Spec
CONSTANTS
  c1 = c1 c2 = c2 k1 = k1 h1 = h1 h2 = h2
  None = None Pending = Pending NoCredential = NoCredential
  Passphrases = {c1}
  Credentials = {c1, c2}
  ElectionIds <- TypedIds
  DefaultId <- TheElection
  PublicKeys = {k1}
  Votes = {1}
  Failures = {"Timeout", "CryptoFailed"}
  MaxElections = 1
  MaxExpiries = 1
  Tasks = {h1, h2}
  MaxLate = 1
  VoterLists <- Nothing
  Forms <- Nothing
  ShareLines <- Nothing
  Bounds <- Nothing
  Deals <- Nothing
  Threshold = 2
  Order = 1000003
  LinearBound = 1
  Routes = {"/vote", "/"}
  Elsewhere <- Crossed
  InitialServers <- VotingOpen
SYMMETRY Symmetry
VIEW VoterSees
INVARIANTS
  TypeOK
  ReceiptMeansRecorded
  NeverAnonymous
  BusyMeansRunning
PROPERTIES
  DoubleVoteToldTruly
  SecretsCleared
CHECK_DEADLOCK FALSE
