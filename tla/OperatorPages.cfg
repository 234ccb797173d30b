\* Administrator, trustees and an observer in one tab, from the first form on.
SPECIFICATION FairSpec
CONSTANTS
  c1 = c1 c2 = c2 k1 = k1 h1 = h1 h2 = h2
  None = None Pending = Pending NoCredential = NoCredential
  Passphrases = {c1}
  Credentials = {c1}
  ElectionIds <- OneId
  DefaultId <- TheElection
  PublicKeys = {k1}
  Votes = {1}
  Failures = {"Timeout", "Unauthorized", "CryptoFailed"}
  MaxElections = 1
  MaxExpiries = 0
  Tasks = {h1}
  MaxLate = 0
  VoterLists <- SomeVoters
  Forms <- SomeForms
  ShareLines <- SomeLines
  Bounds = {0, 1, 2}
  Deals <- SomeDeals
  Threshold = 2
  Order = 1000003
  LinearBound = 1
  Routes = {"/verify", "/admin", "/trustee"}
  Elsewhere <- Others
  InitialServers <- NoElection
INVARIANTS
  SuccessIsTrue
  CompleteShownWhole
  SharesNotKept
  FoundMeansRecorded
CHECK_DEADLOCK FALSE
PROPERTIES
  HandlersEnd
  SharesSuffice
