----------------------------- MODULE VoterLogin -----------------------------
(***************************************************************************)
(* The handler voter_login: five statements, none of them in a common      *)
(* transaction.  It counts recent failures, looks the credential up,       *)
(* records a failure or goes on to read the phase, and stores a session.   *)
(*                                                                         *)
(* client_ip is "unknown" for every client, because main.rs serves the     *)
(* router without connect info: there is one bucket of failures.  Rows     *)
(* that record a success are never read, so they are left out.             *)
(***************************************************************************)
EXTENDS Database

CONSTANTS
  FailureLimit,   \* failed attempts in a window before a lockout (code: 5)
  FailureWindow,  \* length of the window (code: 5 minutes)
  SessionTTL      \* life of a session (code: 15 minutes)

ASSUME LoginAssumption ==
  FailureLimit \in Nat /\ FailureWindow \in Nat /\ SessionTTL \in Nat

LoginSteps == {"Lookup", "RecordFailure", "Phase", "Store"}

\* The rows that record a failure: the time of the attempt and a number.
FailureRows == UNION {{t} \X (1..failed_logins[t]) : t \in 0..MaxTime}

\* Those the window has not left behind.
InWindow == {row \in FailureRows : row[1] >= now - FailureWindow}

\* SELECT COUNT(*) ... success = false AND attempted_at >= now - window.
RecentFailures == Cardinality(InWindow)

\* A lockout that starts one failure late.
LockedOut_OneLate == RecentFailures > FailureLimit
LockedOut == RecentFailures >= FailureLimit

\* A token is random: no session has it and no other login is about to store
\* it.
FreshTokens ==
  {t \in Tokens :
     /\ voter_sessions[t] = NoSession
     /\ \A q \in Requests : At(q, "Store") => local[q].token # t}

-----------------------------------------------------------------------------

\* The failures are counted; a locked out client is answered 429 at once.
\* The code presented is one that was generated, or NoCredential.
LoginBegin(r, c) ==
  /\ At(r, "Idle")
  /\ ~LockedOut
  /\ Goto(r, "Lookup")
  /\ local' = [local EXCEPT ![r].credential = c]
  /\ UNCHANGED <<now, tables, locks, created>>

\* SELECT is_used, without a lock.
LoginLookup(r) ==
  /\ At(r, "Lookup")
  /\ Goto(r, IF local[r].credential \in issued \ is_used THEN "Phase"
             ELSE "RecordFailure")
  /\ UNCHANGED <<now, tables, locks, created, local>>

\* 401: the code is unknown or used.
LoginRecordFailure(r) ==
  /\ At(r, "RecordFailure")
  /\ failed_logins' = [failed_logins EXCEPT ![now] = @ + 1]
  /\ Finish(r)
  /\ UNCHANGED <<now, election, issued, is_used, voter_sessions, bulletin_log,
                 locks, created>>

\* Voting is open: a token is generated and its expiry computed.
LoginPhaseOpen(r) ==
  /\ At(r, "Phase")
  /\ election.phase = "Voting"
  /\ \E t \in FreshTokens :
       local' = [local EXCEPT ![r].token = t, ![r].expires = now + SessionTTL]
  /\ Goto(r, "Store")
  /\ UNCHANGED <<now, tables, locks, created>>

\* 400: voting is not open.  Tokens is a bound of the model: a login that
\* finds every token taken ends here too.
LoginPhaseClosed(r) ==
  /\ At(r, "Phase")
  /\ election.phase # "Voting" \/ FreshTokens = {}
  /\ Finish(r)
  /\ UNCHANGED <<now, tables, locks, created>>

\* INSERT INTO voter_sessions: its foreign key waits for a submission that
\* has the credential row locked.
LoginStore(r) ==
  /\ At(r, "Store")
  /\ CredentialRowFree(local[r].credential)
  /\ voter_sessions' =
       [voter_sessions EXCEPT ![local[r].token] =
          [credential |-> local[r].credential, expires |-> local[r].expires]]
  /\ Finish(r)
  /\ UNCHANGED <<now, election, issued, is_used, failed_logins, bulletin_log,
                 locks, created>>

LoginStep(r) ==
  \/ LoginLookup(r)
  \/ LoginRecordFailure(r)
  \/ LoginPhaseOpen(r)
  \/ LoginPhaseClosed(r)
  \/ LoginStore(r)

\* A login arrives, with a code that was generated or with some other text.
LoginArrives(r) == \E c \in Credentials \cup {NoCredential} : LoginBegin(r, c)

=============================================================================
