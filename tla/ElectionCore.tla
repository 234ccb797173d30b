---------------------------- MODULE ElectionCore ----------------------------
(***************************************************************************)
(* The pure rules of crates/election_core: when an election may be        *)
(* configured, when voting may open, when a ballot is in time, and when    *)
(* the mathematics of a ballot is accepted.  The server calls these rules  *)
(* from its handlers; every operator here is free of state.                *)
(*                                                                         *)
(* A ballot is a record of the three things the rules tell apart: its      *)
(* nullifier, the number it encrypts and the key it is encrypted under.    *)
(* The range proof is taken to be sound and complete: it verifies under a  *)
(* key exactly when the ciphertext encrypts 0 or 1 under that key.         *)
(***************************************************************************)
EXTENDS Integers

\* The phases of an election; "None" stands for an empty elections table.
Phases == {"Setup", "Voting", "Tallying", "Complete"}

\* An absent start_time or end_time (Option::None); 0 disables a bound.
NoTime == -1

\* ElectionState::new refuses start >= end when both are given, unless both
\* are 0.
ValidWindow(start, end) ==
  \/ start = NoTime
  \/ end = NoTime
  \/ start < end
  \/ start = 0 /\ end = 0

\* open_voting: at the deadline itself voting can no longer be opened.
DeadlineElapsed(end, t) == end > 0 /\ t >= end

\* Had a ballot been accepted until a moment after the deadline.
ValidTiming_MomentLate(e, t) ==
  /\ e.phase = "Voting"
  /\ e.start > 0 => t >= e.start
  /\ e.end > 0 => t <= e.end + 1

\* validate_ballot_timing: at the deadline itself a ballot is still in time.
ValidTiming(e, t) ==
  /\ e.phase = "Voting"
  /\ e.start > 0 => t >= e.start
  /\ e.end > 0 => t <= e.end

\* validate_ballot_math: the range proof is verified under the election's key.
ValidMath(e, b) == b.pk = e.pk /\ b.vote \in {0, 1}

=============================================================================
