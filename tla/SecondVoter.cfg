\* A voter who was disconnected, and the next one at the same page.
SPECIFICATION Spec
CONSTANTS
  c1 = c1 c2 = c2 k1 = k1 h1 = h1 h2 = h2
  None = None Pending = Pending NoCredential = NoCredential
  Passphrases = {c1, c2}
  Credentials = {c1, c2}
  ElectionIds <- TwoIds
  DefaultId <- TheElection
  PublicKeys = {k1}
  Votes = {1}
  Failures = {"Timeout", "Unreachable"}
  MaxElections = 1
  MaxExpiries = 0
  Tasks = {h1}
  MaxLate = 0
  VoterLists <- Nothing
  Forms <- Nothing
  ShareLines <- Nothing
  Bounds <- Nothing
  Deals <- Nothing
  Threshold = 2
  Order = 1000003
  LinearBound = 1
  Routes = {"/vote"}
  Elsewhere <- Nobody
  InitialServers <- VotingOpen
INVARIANTS
  OneBallotPerVoter
CHECK_DEADLOCK FALSE
