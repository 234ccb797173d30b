---------------------------- MODULE ElectionApi ----------------------------
(***************************************************************************)
(* The election server as its clients see it: each request is one step.   *)
(* ServerProofs and BallotProofs show of the detailed handlers what is     *)
(* taken for granted here of the ballots (BallotLedger).                   *)
(*                                                                         *)
(* A request is a record with its operation.  Refusal(q) is the reason of  *)
(* the first early return it meets, "none" when it is accepted.  The clock *)
(* is left out, except that sessions expire: a deadline shows as a refusal *)
(* without a reason of its own.                                            *)
(***************************************************************************)
EXTENDS ElectionCore, Sequences, FiniteSets

CONSTANTS
  Passphrases,    \* what the voters of this application type as passphrase
  Credentials,    \* the codes the server may issue
  NoCredential,
  ElectionIds,    \* what a voter may type as election identifier
  PublicKeys,
  Votes,          \* bound: the buttons that are pressed, of 0 (NO) and 1 (YES)
  MaxElections,   \* bound: elections created
  MaxExpiries     \* bound: how often the sessions of a time expire

ASSUME CredentialsAssumption ==
  NoCredential \notin Passphrases \cup Credentials

ASSUME VotesAssumption == Votes \subseteq {0, 1}

\* Keccak256(secret || election_id), an ideal hash.
Nullifiers == [secret : Passphrases \cup Credentials, domain : ElectionIds]

Ballots == [nullifier : Nullifiers, vote : {0, 1}, pk : PublicKeys]

VARIABLES
  election,  \* phase, key and final tally of the row of elections
  created,   \* elections created so far
  issued,    \* the codes issued
  ledger,    \* the bulletin log: each ballot and the code it consumed
  spent,     \* the codes used
  expiries   \* how often sessions have expired

server == <<election, created, issued, ledger, spent, expiries>>

Ledger == INSTANCE BallotLedger WITH open <- election.phase = "Voting"

\* A session token: the code it was issued for, and when.
Token(code) == [code |-> code, at |-> expiries]

Recorded(nullifier) ==
  \E i \in 1..Len(ledger) : ledger[i].ballot.nullifier = nullifier

\* The number of YES among the first n ballots.
YesAmong(n) == Cardinality({i \in 1..n : ledger[i].ballot.vote = 1})

-----------------------------------------------------------------------------
(* Requests                                                                *)

LoginRequest(code) == [op |-> "Login", code |-> code]
BallotRequest(token, b) == [op |-> "Ballot", token |-> token, ballot |-> b]
BulletinRequest(nullifier) == [op |-> "Bulletin", nullifier |-> nullifier]
CreateRequest(form) ==
  [op |-> "Create", pk |-> form.pk, start |-> form.start, end |-> form.end]
IssueRequest(count) == [op |-> "Issue", count |-> count]
OpenRequest == [op |-> "Open"]
CloseRequest == [op |-> "Close"]
\* A proof about the sum of the first sum ballots, made with a secret key that
\* is the trustees' or not.  It comes from the command line: the web
\* application cannot encode it (TrusteePage).
FinalizeRequest(sum, tally, rightKey) ==
  [op |-> "Finalize", sum |-> sum, tally |-> tally, rightKey |-> rightKey]

\* voter_login: the code, then the phase.
LoginRefusal(q) ==
  CASE q.code \notin issued \ spent -> "Unauthorized"
    [] q.code \in issued \ spent /\ election.phase # "Voting" -> "NotOpen"
    [] OTHER -> "none"

\* submit_ballot: the session, its credential, the phase, the proof, the log.
BallotRefusal(q) ==
  IF q.token.at # expiries THEN "SessionExpired"
  ELSE IF q.token.code \in spent THEN "Consumed"
  ELSE IF election.phase = "None" THEN "NotFound"
  ELSE IF election.phase # "Voting" THEN "NotOpen"
  ELSE IF ~ValidMath(election, q.ballot) THEN "InvalidBallot"
  ELSE IF Recorded(q.ballot.nullifier) THEN "Duplicate"
  ELSE "none"

\* verify_decryption_proof: the tally is what the sum of the whole log decrypts
\* to under the election's key.
ProofVerifies(q) ==
  q.rightKey /\ q.sum = Len(ledger) /\ q.tally = YesAmong(Len(ledger))

\* finalize_tally: the phase, then the proof.
FinalizeRefusal(q) ==
  IF election.phase = "None" THEN "NotFound"
  ELSE IF election.phase # "Tallying" THEN "NotTallying"
  ELSE IF ProofVerifies(q) THEN "none"
  ELSE "ProofRefused"

\* open_voting: the phase, then the credentials.
OpenRefusal ==
  IF election.phase = "None" THEN "NotFound"
  ELSE IF election.phase # "Setup" THEN "NotSetup"
  ELSE IF issued = {} THEN "NoCredentials"
  ELSE "none"

\* issue_credentials: the size of the batch, then the phase.
IssueRefusal(q) ==
  IF q.count \notin 1..1000 THEN "BadBatch"
  ELSE IF election.phase = "None" THEN "NotFound"
  ELSE IF election.phase # "Setup" THEN "RollLocked"
  ELSE "none"

Refusal(q) ==
  CASE q.op = "Login" -> LoginRefusal(q)
    [] q.op = "Ballot" -> BallotRefusal(q)
    [] q.op = "Finalize" -> FinalizeRefusal(q)
    [] q.op = "Open" -> OpenRefusal
    [] q.op = "Create" ->
         IF ValidWindow(q.start, q.end) THEN "none" ELSE "BadSchedule"
    [] q.op = "Issue" -> IssueRefusal(q)
    [] q.op = "Close" -> IF election.phase = "Voting" THEN "none" ELSE "NotVoting"
    [] q.op = "Bulletin" -> "none"

\* What the body of the answer says, as far as the application reads it.
Body(q) ==
  CASE q.op = "Login" -> Token(q.code)
    [] q.op = "Bulletin" -> Recorded(q.nullifier)
    [] q.op = "Finalize" -> q.tally
    [] OTHER -> [message |-> "ok"]

-----------------------------------------------------------------------------
(* What an accepted request does                                           *)

CreateElection(q) ==
  /\ q.op = "Create"
  /\ created < MaxElections
  /\ created' = created + 1
  /\ election' = [phase |-> "Setup", pk |-> q.pk, tally |-> -1]
  /\ UNCHANGED <<issued, ledger, spent, expiries>>

IssueCredentials(q) ==
  /\ q.op = "Issue"
  /\ \E codes \in SUBSET (Credentials \ issued) :
       /\ Cardinality(codes) = q.count
       /\ issued' = issued \cup codes
  /\ UNCHANGED <<election, created, ledger, spent, expiries>>

\* open_voting, close_voting and finalize_tally.
ChangePhase(q) ==
  /\ \/ q.op = "Open" /\ election' = [election EXCEPT !.phase = "Voting"]
     \/ q.op = "Close" /\ election' = [election EXCEPT !.phase = "Tallying"]
     \/ /\ q.op = "Finalize"
        /\ election' = [election EXCEPT !.phase = "Complete", !.tally = q.tally]
  /\ UNCHANGED <<created, issued, ledger, spent, expiries>>

SubmitBallot(q) ==
  /\ q.op = "Ballot"
  /\ UNCHANGED <<election, created, issued, expiries>>
  /\ Ledger!CastWithCredential(q.ballot, q.token.code)

ReadOnly(q) == q.op \in {"Login", "Bulletin"}

\* The server handles request q.
Handle(q) ==
  IF Refusal(q) = "none"
  THEN \/ CreateElection(q)
       \/ IssueCredentials(q)
       \/ ChangePhase(q)
       \/ SubmitBallot(q)
       \/ ReadOnly(q) /\ UNCHANGED server
  ELSE UNCHANGED server

\* Fifteen minutes pass: no session of before is good any more.
SessionsExpire ==
  /\ expiries < MaxExpiries
  /\ expiries' = expiries + 1
  /\ UNCHANGED <<election, created, issued, ledger, spent>>

=============================================================================
