-------------------------- MODULE ServerProperties --------------------------
(***************************************************************************)
(* What the election server is expected to guarantee, stated over the      *)
(* tables of ElectionServer.                                               *)
(***************************************************************************)
EXTENDS ElectionServer

\* The bulletin log is one unbroken hash chain from genesis: each entry names
\* the hash of the entry before it and hashes its own content, although
\* submissions read the head and insert in separate statements.
ChainLinked ==
  \A i \in 1..Len(bulletin_log) :
    /\ bulletin_log[i].prev_hash =
         IF i = 1 THEN GENESIS_HASH ELSE bulletin_log[i - 1].entry_hash
    /\ bulletin_log[i].entry_hash =
         EntryHash(bulletin_log[i].prev_hash, bulletin_log[i].ballot)

\* No nullifier is recorded twice, whichever requests carry it and however
\* often it is sent again.
NullifiersUnique ==
  \A i, j \in 1..Len(bulletin_log) :
    bulletin_log[i].ballot.nullifier = bulletin_log[j].ballot.nullifier => i = j

\* A submission that is about to answer with a receipt has its entry in the
\* log, with the hashes the receipt shows.
ReceiptIsRecorded ==
  \A r \in Requests :
    At(r, "Receipt") =>
      \E i \in 1..Len(bulletin_log) :
        bulletin_log[i] = NewEntry(r)

\* A credential is used exactly when a ballot of the log consumed it, and no
\* two ballots consumed the same one, even if its voter logged in twice and
\* both sessions submit at once.
CredentialsSpentOnce ==
  /\ is_used = {bulletin_log[i].by : i \in 1..Len(bulletin_log)}
                 \ {NoCredential}
  /\ \A i, j \in 1..Len(bulletin_log) :
       bulletin_log[i].by = bulletin_log[j].by /\ i # j =>
         bulletin_log[i].by = NoCredential

\* The roll commitment published with open_voting commits to exactly the
\* credentials that exist while voting, tallying and afterwards.
RollCommitsToIssued ==
  election.phase \in {"Voting", "Tallying", "Complete"} =>
    election.roll = issued

\* A completed election's tally is the tally of the whole log, is at most one
\* vote for each ballot, and every ballot of the log was encrypted under the
\* election's key.
TallyCoversLog ==
  election.phase = "Complete" =>
    /\ election.tally = TallyOf(Len(bulletin_log))
    /\ election.tally <= Len(bulletin_log)
    /\ \A i \in 1..Len(bulletin_log) : bulletin_log[i].ballot.pk = election.pk

\* Logins that run at once can each pass the check before the others record
\* their failure, so the limit can be exceeded by one less than the number
\* of requests the server handles at once, and by no more.
FailuresBounded == RecentFailures < FailureLimit + Cardinality(Requests)

\* The election's deadline is over; the election has begun.
DeadlinePassed == election.end > 0 /\ now > election.end
Begun == election.start > 0 => now >= election.start

\* No session of credential c is good any more.
SessionsOver(c) ==
  \A t \in Tokens :
    voter_sessions[t].credential = c => now > voter_sessions[t].expires

\* Time limits are checked before the transaction commits, and hold for what
\* it commits all the same: no ballot is recorded before the election begins;
\* once the deadline is over the log is frozen, except for the one submission
\* that has the election row by then; and a credential whose sessions are all
\* over is not spent, whatever still waited for its row when they expired.
TimeLimitsHold ==
  [][/\ bulletin_log' # bulletin_log => Begun
     /\ DeadlinePassed /\ ElectionRowFree =>
          /\ bulletin_log' = bulletin_log
          /\ election_lock' = NoRequest
     /\ \A c \in Credentials :
          SessionsOver(c) /\ CredentialRowFree(c) =>
            /\ c \in is_used' => c \in is_used
            /\ credential_lock'[c] = NoRequest]_vars

\* Where a submission with a session holds its credential's row.
Holding == {"Election"} \cup Locked

\* The election row is locked by a submission inside its transaction only.
ElectionHeldByLive == election_lock # NoRequest => pc[election_lock] \in Locked

\* A credential row is locked by a submission that is going to consume it.
CredentialsHeldByLive ==
  \A c \in Credentials :
    credential_lock[c] # NoRequest =>
      /\ pc[credential_lock[c]] \in Holding
      /\ local[credential_lock[c]].credential = c

\* What request r has checked, while it holds the rows it checked.
CheckedStaysTrue(r) ==
  /\ pc[r] \in Locked =>
       /\ election_lock = r
       /\ election.phase = "Voting"
       /\ ValidMath(election, local[r].ballot)
  /\ pc[r] \in Holding /\ local[r].credential # NoCredential =>
       /\ credential_lock[local[r].credential] = r
       /\ local[r].credential \notin is_used
  /\ pc[r] \in {"Insert", "Commit"} => local[r].prev_hash = HeadHash
  /\ pc[r] = "Commit" => ~NullifierRecorded(local[r].ballot.nullifier)

\* Row locks are held by live transactions only, and what a submission has
\* checked stays true until it commits: under the election row's lock voting
\* stays open, the head of the log does not move and no duplicate arrives;
\* under its credential's lock the credential stays unused.
LockDiscipline ==
  /\ ElectionHeldByLive
  /\ CredentialsHeldByLive
  /\ \A r \in Requests : CheckedStaysTrue(r)

\* The ledger a log stands for: its ballots and the credentials they consumed.
LedgerOf(log) ==
  [i \in 1..Len(log) |-> [ballot |-> log[i].ballot, by |-> log[i].by]]

Ledger ==
  INSTANCE BallotLedger WITH
    open <- election.phase = "Voting",
    ledger <- LedgerOf(bulletin_log),
    spent <- is_used

\* Submissions, with their transactions, locks, refusals, drops and restarts,
\* implement the abstract ledger: append-only, frozen when voting is not
\* open, and a credential spent exactly with its ballot.
LedgerImplemented == Ledger!Spec

Lifecycle == INSTANCE ElectionLifecycle WITH state <- election

\* The handlers' updates of the elections row are transitions of
\* election_core's ElectionState.
LifecycleImplemented == Lifecycle!Spec

\* Every request is answered: nobody waits for a row lock for ever.
RequestsAnswered ==
  \A r \in Requests : ~At(r, "Idle") ~> At(r, "Idle")

-----------------------------------------------------------------------------
(* What the repository says and the code does not keep                     *)

\* crates/election_core/src/lib.rs:408 "Tallying cannot re-open voting": once
\* voting is closed the phase is never Voting again.
NoReopening ==
  [][election.phase \in {"Tallying", "Complete"} =>
       election'.phase # "Voting"]_vars

\* crates/election_core/src/lib.rs:29 "the final result is immutable".
CompleteIsImmutable ==
  [][election.phase = "Complete" => election' = election]_vars

\* docs/adr-axum-migration.md, 3.1: the credential is consumed in the
\* transaction that accepts a ballot, so each entry consumes one.
BallotConsumesCredential ==
  [][bulletin_log' # bulletin_log => is_used' # is_used]_vars

\* handlers.rs:390 "max 5 failed attempts in last 5 minutes".
FailuresWithinLimit == RecentFailures <= FailureLimit

=============================================================================
