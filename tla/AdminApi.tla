------------------------------ MODULE AdminApi ------------------------------
(***************************************************************************)
(* The handlers of the administrator: create_election, issue_credentials,  *)
(* open_voting and close_voting.  None of them locks a row or uses a       *)
(* transaction across its reads and its write, so what a handler read may  *)
(* be stale when it writes.                                                *)
(*                                                                         *)
(* AdminConcurrency says how many administrative requests can be in flight *)
(* at once: 1 is an administrator who waits for each answer; 2 is two      *)
(* administrators, or one who repeats a request that timed out on the      *)
(* client while its statement still waits in the database.                 *)
(***************************************************************************)
EXTENDS Database

CONSTANTS
  AdminConcurrency,
  MaxElections       \* bound on the number of create_election calls

ASSUME AdminAssumption == AdminConcurrency \in Nat /\ MaxElections \in Nat

AdminSteps == {"IssueInsert", "OpenRoll", "OpenUpdate"}

AdminMayStart ==
  Cardinality({r \in Requests : pc[r] \in AdminSteps}) < AdminConcurrency

-----------------------------------------------------------------------------
(* create_election                                                         *)

\* One upsert of the row "default": it waits for the row's lock and resets
\* every column.  The other tables keep their rows.
CreateElection(pk, w) ==
  /\ AdminMayStart
  /\ created < MaxElections
  /\ ValidWindow(w[1], w[2])
  /\ ElectionRowFree
  /\ election' = [phase |-> "Setup", pk |-> pk, start |-> w[1], end |-> w[2],
                  roll |-> {}, tally |-> -1]
  /\ created' = created + 1
  /\ UNCHANGED <<now, issued, is_used, voter_sessions, failed_logins,
                 bulletin_log, locks, requests>>

-----------------------------------------------------------------------------
(* issue_credentials                                                       *)

\* An issue_credentials that does not look at the phase.
MayIssue_AnyPhase == election # NoElection
MayIssue == election.phase = "Setup"

\* The phase is read and a batch of fresh codes generated.
IssueRead(r, codes) ==
  /\ At(r, "Idle")
  /\ AdminMayStart
  /\ MayIssue
  /\ codes # {}
  /\ \A q \in Requests : pc[q] = "IssueInsert" => codes \cap local[q].batch = {}
  /\ Goto(r, "IssueInsert")
  /\ local' = [local EXCEPT ![r].batch = codes]
  /\ UNCHANGED <<now, tables, locks, created>>

\* The transaction that inserts the batch; the phase is not read again.
IssueInsert(r) ==
  /\ At(r, "IssueInsert")
  /\ issued' = issued \cup local[r].batch
  /\ Finish(r)
  /\ UNCHANGED <<now, election, is_used, voter_sessions, failed_logins,
                 bulletin_log, locks, created>>

-----------------------------------------------------------------------------
(* open_voting                                                             *)

\* SELECT of the election row: in Setup, and before the deadline.
OpenRead(r) ==
  /\ At(r, "Idle")
  /\ AdminMayStart
  /\ election.phase = "Setup"
  /\ ~DeadlineElapsed(election.end, now)
  /\ Goto(r, "OpenRoll")
  /\ UNCHANGED <<now, tables, locks, created, local>>

\* SELECT of every credential hash; an empty roll ends the request (400).
OpenRoll(r) ==
  /\ At(r, "OpenRoll")
  /\ IF issued = {}
     THEN Finish(r)
     ELSE /\ Goto(r, "OpenUpdate")
          /\ local' = [local EXCEPT ![r].batch = issued]
  /\ UNCHANGED <<now, tables, locks, created>>

\* UPDATE ... SET phase = 'Voting' WHERE id: whatever the phase is by now.
\* The commitment determines the set of hashes it was computed over.
OpenUpdate(r) ==
  /\ At(r, "OpenUpdate")
  /\ ElectionRowFree
  /\ election' = [election EXCEPT !.phase = "Voting", !.roll = local[r].batch]
  /\ Finish(r)
  /\ UNCHANGED <<now, issued, is_used, voter_sessions, failed_logins,
                 bulletin_log, locks, created>>

-----------------------------------------------------------------------------
(* close_voting                                                            *)

\* One conditional update: it waits for the row's lock and then looks at the
\* phase again.
CloseVoting ==
  /\ AdminMayStart
  /\ ElectionRowFree
  /\ election.phase = "Voting"
  /\ election' = [election EXCEPT !.phase = "Tallying"]
  /\ UNCHANGED <<now, issued, is_used, voter_sessions, failed_logins,
                 bulletin_log, locks, created, requests>>

AdminStep(r) ==
  \/ IssueInsert(r)
  \/ OpenRoll(r)
  \/ OpenUpdate(r)

AdminArrives(r) ==
  \/ \E codes \in SUBSET (Credentials \ issued) : IssueRead(r, codes)
  \/ OpenRead(r)

=============================================================================
