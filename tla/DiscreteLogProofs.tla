-------------------------- MODULE DiscreteLogProofs --------------------------
(***************************************************************************)
(* Proofs that the search for the tally is right for every bound.          *)
(***************************************************************************)
EXTENDS DiscreteLog, TLAPS

\* Numbers that are closer to each other than the order are the same point only
\* if they are the same.
LEMMA SameMeansEqual ==
  ASSUME NEW a \in Int, NEW b \in Int, a - b < Order, b - a < Order,
         SamePoint(a, b)
  PROVE  a = b
<1>1. Order \in Int /\ Order > 0
  BY OrderAssumption
<1>2. \A d, q \in Int : 0 < d /\ d < q => d % q = d
  OBVIOUS
<1>3. \A d, q \in Int : d < 0 /\ -q < d => d % q = d + q
  OBVIOUS
<1>4. CASE a - b > 0
  BY <1>1, <1>2, <1>4 DEF SamePoint
<1>5. CASE a - b < 0
  BY <1>1, <1>3, <1>5 DEF SamePoint
<1>. QED
  BY <1>4, <1>5

LEMMA EqualMeansSame ==
  ASSUME NEW a \in Int PROVE SamePoint(a, a)
BY OrderAssumption DEF SamePoint

\* Every number below the square of the step is some giant steps and less than
\* a table of baby steps.
LEMMA StepsCover ==
  ASSUME NEW v \in Nat, NEW step \in Nat \ {0}, v < step * step
  PROVE  \E i \in 0..step, j \in 0..step - 1 : v = i * step + j
<1>. DEFINE i == v \div step
            j == v % step
<1>1. i \in Nat /\ j \in 0..step - 1 /\ v = i * step + j
  OBVIOUS
<1>. HIDE DEF i, j
<1>2. i * step < step * step
  BY <1>1
<1>3. \A a, m \in Nat : a * m < m * m => a < m
  OBVIOUS
<1>4. i < step
  BY <1>1, <1>2, <1>3
<1>. QED
  BY <1>1, <1>4

\* Whatever the search comes upon is the tally.
LEMMA HitsAreRight ==
  ASSUME NEW bound \in Nat, bound < Order, NEW root \in Roots(bound),
         NEW target \in Nat, target < Order,
         NEW n \in SolveDiscreteLog(target, bound, root)
  PROVE  n = target /\ n <= bound
<1>1. Order \in Int /\ Order > 0 /\ root \in Nat
  BY OrderAssumption DEF Roots
<1>2. CASE SamePoint(target, 0)
  <2>1. target = 0
    BY <1>1, <1>2, SameMeansEqual
  <2>. QED
    BY <1>2, <2>1 DEF SolveDiscreteLog
<1>3. CASE ~SamePoint(target, 0) /\ bound <= LinearBound
  <2>1. n \in 0..bound /\ SamePoint(n, target)
    BY <1>3 DEF SolveDiscreteLog, LinearHits
  <2>. QED
    BY <1>1, <2>1, SameMeansEqual
<1>4. CASE ~SamePoint(target, 0) /\ ~(bound <= LinearBound)
  <2>. DEFINE step == root + 1
  <2>1. n \in StepHits(target, bound, step) /\ step \in Nat
    BY <1>1, <1>4 DEF SolveDiscreteLog
  <2>. HIDE DEF step
  <2>2. n \in 0..bound
    BY <2>1 DEF StepHits
  <2>3. PICK i \in 0..step, j \in 0..step - 1 :
          n = i * step + j /\ SamePoint(j, target - i * step)
    BY <2>1 DEF StepHits
  <2>4. i * step \in Int
    BY <2>1
  <2>5. SamePoint(n, target)
    BY <2>3, <2>4 DEF SamePoint
  <2>. QED
    BY <1>1, <2>2, <2>5, SameMeansEqual
<1>. QED
  BY <1>2, <1>3, <1>4

\* A tally within the bound is come upon.
LEMMA HitsAreThere ==
  ASSUME NEW bound \in Nat, bound < Order, NEW root \in Roots(bound),
         NEW target \in 0..bound
  PROVE  target \in SolveDiscreteLog(target, bound, root)
<1>1. Order \in Int /\ Order > 0 /\ root \in Nat
  BY OrderAssumption DEF Roots
<1>2. CASE SamePoint(target, 0)
  <2>1. target = 0
    BY <1>1, <1>2, SameMeansEqual
  <2>. QED
    BY <1>2, <2>1 DEF SolveDiscreteLog
<1>3. CASE ~SamePoint(target, 0) /\ bound <= LinearBound
  BY <1>3, EqualMeansSame DEF SolveDiscreteLog, LinearHits
<1>4. CASE ~SamePoint(target, 0) /\ ~(bound <= LinearBound)
  <2>. DEFINE step == root + 1
  <2>1. step \in Nat \ {0} /\ bound < step * step
    BY <1>1 DEF Roots
  <2>2. SolveDiscreteLog(target, bound, root) = StepHits(target, bound, step)
    BY <1>4 DEF SolveDiscreteLog
  <2>. HIDE DEF step
  <2>3. step * step \in Int
    BY <2>1
  <2>4. target \in Nat /\ target < step * step
    BY <2>1, <2>3
  <2>5. PICK i \in 0..step, j \in 0..step - 1 : target = i * step + j
    BY <2>1, <2>4, StepsCover, Zenon
  <2>6. i * step \in Int
    BY <2>1
  <2>7. target - i * step = j
    BY <2>5, <2>6
  <2>8. SamePoint(j, target - i * step)
    BY <2>7, EqualMeansSame
  <2>. QED
    BY <2>2, <2>5, <2>8 DEF StepHits
<1>. QED
  BY <1>2, <1>3, <1>4

\* The search finds the tally, and nothing else, exactly if it is within the
\* bound: for every bound, squares and their neighbours included, however the
\* square root was rounded (solve_discrete_log of bsgs.rs).
THEOREM SearchIsExact ==
  ASSUME NEW bound \in Nat, bound < Order, NEW root \in Roots(bound),
         NEW target \in Nat, target < Order
  PROVE  SolveDiscreteLog(target, bound, root) =
           IF target <= bound THEN {target} ELSE {}
<1>1. ASSUME NEW n \in SolveDiscreteLog(target, bound, root)
      PROVE  n = target /\ target <= bound
  BY <1>1, HitsAreRight
<1>2. target <= bound => target \in SolveDiscreteLog(target, bound, root)
  BY HitsAreThere
<1>. QED
  BY <1>1, <1>2

\* The rounded square root is always among those the search is right for.
LEMMA SomeRoot ==
  ASSUME NEW bound \in Nat PROVE bound \in Roots(bound)
<1>1. (bound + 1) * (bound + 1) > bound
  OBVIOUS
<1>. QED
  BY <1>1 DEF Roots

=============================================================================
