--------------------------- MODULE FinalizeTally ---------------------------
(***************************************************************************)
(* The handlers get_tally and finalize_tally, and the trustee between      *)
(* them.  A trustee fetches the homomorphic sum of the log, decrypts it    *)
(* and sends the tally with a Chaum-Pedersen proof; the handler reads the  *)
(* election row, recomputes the sum, verifies the proof and completes the  *)
(* election, in three statements outside any transaction.                  *)
(*                                                                         *)
(* The log only grows, so the sum a trustee fetched is named by how many   *)
(* rows it covered.  A proof verifies when it is for the very sum the      *)
(* server recomputed and that sum is a ciphertext of a small number under  *)
(* the key the server read; sums of different prefixes of the log differ,  *)
(* because each ballot is encrypted with fresh randomness.                 *)
(***************************************************************************)
EXTENDS Database

FinalizeSteps == {"FinalizeSum", "FinalizeUpdate"}

\* A verification that takes the trustee's sum on trust.
ProofVerifies_AnySum(r) ==
  \A i \in 1..local[r].fetched : bulletin_log[i].ballot.pk = local[r].key

ProofVerifies(r) ==
  /\ local[r].fetched = Len(bulletin_log)
  /\ \A i \in 1..Len(bulletin_log) : bulletin_log[i].ballot.pk = local[r].key

-----------------------------------------------------------------------------

\* A finalize_tally that does not look at the phase.
MayFinalize_AnyPhase == election # NoElection
MayFinalize == election.phase = "Tallying"

\* The proof for the first n ballots arrives and the election row is read.
FinalizeRead(r, n) ==
  /\ At(r, "Idle")
  /\ MayFinalize
  /\ Goto(r, "FinalizeSum")
  /\ local' = [local EXCEPT ![r].fetched = n, ![r].key = election.pk]
  /\ UNCHANGED <<now, tables, locks, created>>

\* The sum is recomputed over the log as it is now, the proof verified.
FinalizeSum(r) ==
  /\ At(r, "FinalizeSum")
  /\ IF ProofVerifies(r)
     THEN Goto(r, "FinalizeUpdate") /\ UNCHANGED local
     ELSE Finish(r)
  /\ UNCHANGED <<now, tables, locks, created>>

\* UPDATE ... SET phase = 'Complete' WHERE id: whatever the phase is by now.
FinalizeUpdate(r) ==
  /\ At(r, "FinalizeUpdate")
  /\ ElectionRowFree
  /\ election' = [election EXCEPT !.phase = "Complete",
                                  !.tally = TallyOf(local[r].fetched)]
  /\ Finish(r)
  /\ UNCHANGED <<now, issued, is_used, voter_sessions, failed_logins,
                 bulletin_log, locks, created>>

FinalizeStep(r) == FinalizeSum(r) \/ FinalizeUpdate(r)

FinalizeArrives(r) == \E n \in 0..Len(bulletin_log) : FinalizeRead(r, n)

=============================================================================
