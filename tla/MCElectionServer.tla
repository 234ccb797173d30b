-------------------------- MODULE MCElectionServer --------------------------
(***************************************************************************)
(* Values for the constants of ElectionServer in TLC runs.                 *)
(***************************************************************************)
EXTENDS ServerProperties, TLC

CONSTANTS r1, r2, c1, c2, t1, t2, k1, n1, n2

Ballot(n, v) == [nullifier |-> n, vote |-> v, pk |-> k1]

\* One voter's ballot; another voter's; one whose range proof cannot verify.
\* Each can be sent any number of times, with any session.
OneBallot == {Ballot(n1, 1)}
TwoBallots == OneBallot \cup {Ballot(n2, 0)}
ThreeBallots == TwoBallots \cup {Ballot(n2, 2)}

\* No bounds; or a deadline only and a window with both ends.
NoWindow == {<<NoTime, NoTime>>}
SomeWindows == {<<NoTime, 1>>, <<1, 2>>}

Symmetry ==
  Permutations(Requests) \cup Permutations(Credentials) \cup Permutations(Tokens)

=============================================================================
