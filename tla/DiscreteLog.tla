---------------------------- MODULE DiscreteLog ----------------------------
(***************************************************************************)
(* crates/voting_crypto/src/bsgs.rs: the tally is the discrete logarithm   *)
(* of the point to which the sum of the ballots decrypts.                  *)
(*                                                                         *)
(* A point is a multiple of the generator, and is written as one of its    *)
(* multipliers: two multipliers that differ by a multiple of the order of  *)
(* the group are the same point.                                           *)
(***************************************************************************)
EXTENDS Integers

CONSTANTS
  Order,       \* of the group: a prime of 254 bits
  LinearBound  \* up to this bound the search is linear: 100

\* No bound that a form accepts comes near the order of the group.
ASSUME OrderAssumption == Order \in Nat /\ Order > 1000000

ASSUME LinearAssumption == LinearBound \in Nat

SamePoint(a, b) == (a - b) % Order = 0

\* (max_bound as f64).sqrt().ceil(): nothing is asked of the rounding but that
\* the square of the next number is above the bound.
Roots(bound) == {s \in 0..bound : (s + 1) * (s + 1) > bound}

LinearHits(target, bound) == {n \in 0..bound : SamePoint(n, target)}

\* Had the table of baby steps been one entry short.
StepHits_ShortTable(target, bound, step) ==
  {n \in 0..bound : \E i \in 0..step, j \in 0..step - 2 :
     n = i * step + j /\ SamePoint(j, target - i * step)}

\* The target less i giant steps is in the table of the baby steps.
StepHits(target, bound, step) ==
  {n \in 0..bound : \E i \in 0..step, j \in 0..step - 1 :
     n = i * step + j /\ SamePoint(j, target - i * step)}

\* solve_discrete_log: what the search may come upon, none for its failure.
\* That there is never more than one, whichever is come upon first, is proved.
SolveDiscreteLog(target, bound, root) ==
  CASE SamePoint(target, 0) -> {0}
    [] ~SamePoint(target, 0) /\ bound <= LinearBound -> LinearHits(target, bound)
    [] OTHER -> StepHits(target, bound, root + 1)

=============================================================================
