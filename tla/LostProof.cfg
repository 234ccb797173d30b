\* Trustees who decrypt the sum of an election that others vote in and close.
SPECIFICATION Spec
CONSTANTS
  c1 = c1 c2 = c2 k1 = k1 h1 = h1 h2 = h2
  None = None Pending = Pending NoCredential = NoCredential
  Passphrases = {c1}
  Credentials = {c1}
  ElectionIds <- OneId
  DefaultId <- TheElection
  PublicKeys = {k1}
  Votes = {1}
  Failures = {"Timeout"}
  MaxElections = 1
  MaxExpiries = 0
  Tasks = {h1}
  MaxLate = 0
  VoterLists <- Nothing
  Forms <- Nothing
  ShareLines <- SomeLines
  Bounds = {1}
  Deals <- Nothing
  Threshold = 2
  Order = 1000003
  LinearBound = 1
  Routes = {"/trustee"}
  Elsewhere <- Others
  InitialServers <- VotingOpen
PROPERTIES
  ProofSubmitted
CHECK_DEADLOCK FALSE
