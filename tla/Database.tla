------------------------------ MODULE Database ------------------------------
(***************************************************************************)
(* The PostgreSQL state the server's handlers share, and the row locks    *)
(* they take.  Isolation is READ COMMITTED: a statement sees what was      *)
(* committed when it started, so a handler is a sequence of steps, one per *)
(* statement, and anything may happen between two of them.                 *)
(*                                                                         *)
(* A transaction's uncommitted writes are kept in the locals of its        *)
(* request until COMMIT; a row lock names the request that holds it.       *)
(***************************************************************************)
EXTENDS ElectionCore, Sequences, FiniteSets

CONSTANTS
  Requests,      \* slots for HTTP requests the server handles at once
  Credentials,   \* credential codes that can be generated
  Tokens,        \* session tokens that can be generated
  PublicKeys,    \* trustee public keys
  Ballots,       \* ballots that voters submit
  Windows,       \* <<start_time, end_time>> pairs an administrator asks for
  MaxTime,       \* bound of the clock
  NoRequest, NoCredential, NoToken, NoKey, NoBallot

\* The server has a slot, and finitely many: the pool and the sockets are
\* limited.
ASSUME RequestsAssumption == IsFiniteSet(Requests) /\ Requests # {}

\* What a ballot is made of; the vote may be anything, the server decides.
ASSUME BallotsAssumption ==
  \A b \in Ballots : b.pk \in PublicKeys /\ b.vote \in Nat

ASSUME WindowsAssumption == Windows \subseteq Int \X Int

ASSUME MaxTimeAssumption == MaxTime \in Nat

\* The absent values are none of the present ones.
ASSUME AbsentAssumption ==
  /\ NoRequest \notin Requests
  /\ NoCredential \notin Credentials
  /\ NoToken \notin Tokens
  /\ NoKey \notin PublicKeys
  /\ NoBallot \notin Ballots

VARIABLES
  now,             \* the server's clock
  election,        \* the one row of elections (id "default")
  issued,          \* voter_credentials.code_hash
  is_used,         \* the credentials with is_used = true
  voter_sessions,  \* token -> its credential and expiry, or NoSession
  failed_logins,   \* auth_rate_limits rows with success = false, by time
  bulletin_log,    \* bulletin_log in sequence_number order
  election_lock,   \* holder of the FOR UPDATE lock on the elections row
  credential_lock, \* holder of the FOR UPDATE lock of each credential row
  created,         \* how many times create_election ran (bounds the model)
  pc,              \* the statement each request is about to run
  local            \* the local variables of each request's handler

tables == <<election, issued, is_used, voter_sessions, failed_logins,
            bulletin_log>>
locks == <<election_lock, credential_lock>>
requests == <<pc, local>>
vars == <<now, tables, locks, created, requests>>

-----------------------------------------------------------------------------
(* Rows                                                                    *)

\* No election has been created; NULL columns are {}, -1 and NoTime.
NoElection ==
  [phase |-> "None", pk |-> NoKey, start |-> NoTime, end |-> NoTime,
   roll |-> {}, tally |-> -1]

\* A token that no row of voter_sessions knows.
NoSession == [credential |-> NoCredential, expires |-> -1]

\* SHA-256 as an ideal hash: the hash of an entry determines its whole
\* history, so it is written as that history.
GENESIS_HASH == << >>
EntryHash(prev, b) == Append(prev, b)
Hashes == Seq(Ballots)

\* A row of bulletin_log.  Field by is no column: it remembers, for the
\* properties only, which credential the transaction consumed.
Entry(prev, b, c) ==
  [prev_hash |-> prev, entry_hash |-> EntryHash(prev, b), ballot |-> b,
   by |-> c]

\* SELECT entry_hash ... ORDER BY sequence_number DESC LIMIT 1, or genesis.
HeadHash ==
  IF bulletin_log = << >> THEN GENESIS_HASH
  ELSE bulletin_log[Len(bulletin_log)].entry_hash

\* The table without its UNIQUE constraint on nullifier_hex.
NullifierRecorded_NoConstraint(n) == FALSE

\* The UNIQUE constraint on nullifier_hex.
NullifierRecorded(n) ==
  \E i \in 1..Len(bulletin_log) : bulletin_log[i].ballot.nullifier = n

\* The sum of the votes in the first n rows of the log, counted vote by vote:
\* what the homomorphic sum of their ciphertexts decrypts to.
TallyOf(n) ==
  Cardinality(UNION {{i} \X (1..bulletin_log[i].ballot.vote) : i \in 1..n})

-----------------------------------------------------------------------------
(* Row locks                                                               *)

ElectionRowFree == election_lock = NoRequest
CredentialRowFree(c) == credential_lock[c] = NoRequest

\* The submission's SELECT on elections without its FOR UPDATE.
LockElection_PlainSelect(r) == election_lock' = election_lock
LockElection(r) == election_lock' = r

\* The session's SELECT without its FOR UPDATE OF vc.
LockCredential_PlainSelect(r, c) == credential_lock' = credential_lock
LockCredential(r, c) == credential_lock' = [credential_lock EXCEPT ![c] = r]

\* A rollback that leaves the election row locked.
ReleaseLocks_KeepsElection(r) ==
  /\ election_lock' = election_lock
  /\ credential_lock' =
       [c \in Credentials |->
          IF credential_lock[c] = r THEN NoRequest ELSE credential_lock[c]]

\* COMMIT and ROLLBACK release every lock of the transaction.
ReleaseLocks(r) ==
  /\ election_lock' = IF election_lock = r THEN NoRequest ELSE election_lock
  /\ credential_lock' =
       [c \in Credentials |->
          IF credential_lock[c] = r THEN NoRequest ELSE credential_lock[c]]

-----------------------------------------------------------------------------
(* Requests                                                                *)

Blank ==
  [token |-> NoToken, ballot |-> NoBallot, credential |-> NoCredential,
   prev_hash |-> GENESIS_HASH, expires |-> -1, batch |-> {}, fetched |-> 0,
   key |-> NoKey]

At(r, label) == pc[r] = label

Goto(r, label) == pc' = [pc EXCEPT ![r] = label]

\* The handler has answered: its locals are gone.
Finish(r) == Goto(r, "Idle") /\ local' = [local EXCEPT ![r] = Blank]

DatabaseInit ==
  /\ now = 0
  /\ election = NoElection
  /\ issued = {}
  /\ is_used = {}
  /\ voter_sessions = [t \in Tokens |-> NoSession]
  /\ failed_logins = [t \in 0..MaxTime |-> 0]
  /\ bulletin_log = << >>
  /\ election_lock = NoRequest
  /\ credential_lock = [c \in Credentials |-> NoRequest]
  /\ created = 0
  /\ pc = [r \in Requests |-> "Idle"]
  /\ local = [r \in Requests |-> Blank]

=============================================================================
