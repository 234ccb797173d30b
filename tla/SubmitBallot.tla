---------------------------- MODULE SubmitBallot ----------------------------
(***************************************************************************)
(* The handler submit_ballot: one transaction that looks up the voter's    *)
(* session, locks its credential, locks the election row, checks the       *)
(* ballot, marks the credential used, reads the head of the log, inserts   *)
(* the entry and commits.  Each early return drops the transaction, which  *)
(* rolls it back.                                                          *)
(*                                                                         *)
(* A request that names no session of the table goes on without a          *)
(* credential: the handler turns a missing or unknown token into None.     *)
(***************************************************************************)
EXTENDS Database

\* Where a submission holds the election row: from the SELECT ... FOR UPDATE
\* to the end of its transaction.
Locked == {"Consume", "ReadHead", "Insert", "Commit"}

\* Where a submission has an open transaction.
InTransaction == {"Session", "Election"} \cup Locked

Session(r) == voter_sessions[local[r].token]

\* Expired, or its credential has been used since the login.
SessionRefused(s) == now > s.expires \/ s.credential \in is_used

HasSession(r) ==
  local[r].token # NoToken /\ Session(r) # NoSession

-----------------------------------------------------------------------------

\* The nullifier decodes to 32 bytes; the transaction begins.
SubmitBegin(r, t, b) ==
  /\ At(r, "Idle")
  /\ Goto(r, "Session")
  /\ local' = [local EXCEPT ![r].token = t, ![r].ballot = b]
  /\ UNCHANGED <<now, tables, locks, created>>

\* No bearer token, or one that no session has: no credential to consume.
SubmitAnonymous(r) ==
  /\ At(r, "Session")
  /\ ~HasSession(r)
  /\ Goto(r, "Election")
  /\ UNCHANGED <<now, tables, locks, created, local>>

\* The credential row is locked and read: the session is good.
SubmitLockCredential(r) ==
  /\ At(r, "Session")
  /\ HasSession(r)
  /\ CredentialRowFree(Session(r).credential)
  /\ ~SessionRefused(Session(r))
  /\ LockCredential(r, Session(r).credential)
  /\ local' = [local EXCEPT ![r].credential = Session(r).credential]
  /\ Goto(r, "Election")
  /\ UNCHANGED <<now, tables, election_lock, created>>

\* 401 or 409: the session expired or its credential is used.
SubmitSessionRefused(r) ==
  /\ At(r, "Session")
  /\ HasSession(r)
  /\ CredentialRowFree(Session(r).credential)
  /\ SessionRefused(Session(r))
  /\ Finish(r)
  /\ UNCHANGED <<now, tables, locks, created>>

\* What the election row, the clock and the ballot must satisfy, read once
\* the row is locked.
BallotAccepted(r) ==
  /\ election # NoElection
  /\ ValidTiming(election, now)
  /\ ValidMath(election, local[r].ballot)

\* The election row is locked and the ballot is valid.
SubmitLockElection(r) ==
  /\ At(r, "Election")
  /\ ElectionRowFree
  /\ BallotAccepted(r)
  /\ LockElection(r)
  /\ Goto(r, IF local[r].credential = NoCredential THEN "ReadHead"
             ELSE "Consume")
  /\ UNCHANGED <<now, tables, credential_lock, created, local>>

\* No election, out of time, or not a valid ballot: rollback.
SubmitBallotRefused(r) ==
  /\ At(r, "Election")
  /\ ElectionRowFree
  /\ ~BallotAccepted(r)
  /\ ReleaseLocks(r)
  /\ Finish(r)
  /\ UNCHANGED <<now, tables, created>>

\* UPDATE voter_credentials SET is_used = true, seen by others at COMMIT.
SubmitConsume(r) ==
  /\ At(r, "Consume")
  /\ Goto(r, "ReadHead")
  /\ UNCHANGED <<now, tables, locks, created, local>>

SubmitReadHead(r) ==
  /\ At(r, "ReadHead")
  /\ local' = [local EXCEPT ![r].prev_hash = HeadHash]
  /\ Goto(r, "Insert")
  /\ UNCHANGED <<now, tables, locks, created>>

\* INSERT INTO bulletin_log, seen by others at COMMIT.
SubmitInsert(r) ==
  /\ At(r, "Insert")
  /\ ~NullifierRecorded(local[r].ballot.nullifier)
  /\ Goto(r, "Commit")
  /\ UNCHANGED <<now, tables, locks, created, local>>

\* A duplicate that is answered like the ballot recorded before it.
SubmitDuplicate_Receipt(r) ==
  /\ At(r, "Insert")
  /\ NullifierRecorded(local[r].ballot.nullifier)
  /\ ReleaseLocks(r)
  /\ Goto(r, "Receipt")
  /\ UNCHANGED <<now, tables, created, local>>

\* 409: the unique constraint refuses the row and the use of the credential
\* is rolled back with it.
SubmitDuplicate(r) ==
  /\ At(r, "Insert")
  /\ NullifierRecorded(local[r].ballot.nullifier)
  /\ ReleaseLocks(r)
  /\ Finish(r)
  /\ UNCHANGED <<now, tables, created>>

\* The row the transaction inserts.
NewEntry(r) ==
  Entry(local[r].prev_hash, local[r].ballot, local[r].credential)

\* COMMIT, had the credential not been updated in the transaction.
CommitBallot_NoCredential(r) ==
  bulletin_log' = Append(bulletin_log, NewEntry(r)) /\ is_used' = is_used

\* COMMIT, had the credential been updated without asking for a session.
CommitBallot_AnyCredential(r) ==
  /\ bulletin_log' = Append(bulletin_log, NewEntry(r))
  /\ is_used' = is_used \cup {local[r].credential}

\* What COMMIT makes visible: the entry and the used credential, together.
CommitBallot(r) ==
  /\ bulletin_log' = Append(bulletin_log, NewEntry(r))
  /\ is_used' = is_used \cup ({local[r].credential} \ {NoCredential})

SubmitCommit(r) ==
  /\ At(r, "Commit")
  /\ CommitBallot(r)
  /\ ReleaseLocks(r)
  /\ Goto(r, "Receipt")
  /\ UNCHANGED <<now, election, issued, voter_sessions, failed_logins, created,
                 local>>

\* 200: the receipt with the entry's hash and its predecessor's.
SubmitReceipt(r) ==
  /\ At(r, "Receipt")
  /\ Finish(r)
  /\ UNCHANGED <<now, tables, locks, created>>

SubmitStep(r) ==
  \/ SubmitAnonymous(r)
  \/ SubmitLockCredential(r)
  \/ SubmitSessionRefused(r)
  \/ SubmitLockElection(r)
  \/ SubmitBallotRefused(r)
  \/ SubmitConsume(r)
  \/ SubmitReadHead(r)
  \/ SubmitInsert(r)
  \/ SubmitDuplicate(r)
  \/ SubmitCommit(r)
  \/ SubmitReceipt(r)

\* A ballot arrives, with a bearer token or without one.
SubmitArrives(r) ==
  \E t \in Tokens \cup {NoToken}, b \in Ballots : SubmitBegin(r, t, b)

=============================================================================
