-------------------------- MODULE LifecycleProofs --------------------------
(***************************************************************************)
(* Proofs of the life of one election whose administrator waits for each   *)
(* answer: the handlers move the elections row as ElectionState does, the  *)
(* roll commitment covers the credentials and the tally covers the log.    *)
(*                                                                         *)
(* Both restrictions are needed: runs stale_open, roll_race and recreated  *)
(* show what happens without them.                                         *)
(***************************************************************************)
EXTENDS BallotProofs

\* One election, and at most one administrative request in flight.
OneAdministrator ==
  /\ AdminConcurrency = 1
  /\ MaxElections = 1
  /\ IsFiniteSet(Requests)

\* An administrative request in flight is the only one, the election is still
\* in Setup, and the roll it read is still the roll.
AdminAlone ==
  /\ \A q, r \in Requests :
       pc[q] \in AdminSteps /\ pc[r] \in AdminSteps => q = r
  /\ \A r \in Requests : pc[r] \in AdminSteps => election.phase = "Setup"
  /\ \A r \in Requests :
       pc[r] = "OpenUpdate" => local[r].batch = issued /\ issued # {}

\* A proof under verification finds the voting closed, hence a log at rest.
FinalizeLate ==
  \A r \in Requests :
    /\ pc[r] \in FinalizeSteps => election.phase \in {"Tallying", "Complete"}
    /\ pc[r] = "FinalizeUpdate" => local[r].fetched = Len(bulletin_log)

\* There is no ballot before the election, and each was checked against it.
LogChecked ==
  /\ created = 0 => election.phase = "None"
  /\ election.phase = "None" => bulletin_log = << >>
  /\ \A i \in 1..Len(bulletin_log) : ValidMath(election, bulletin_log[i].ballot)
  /\ election.phase = "Complete" => election.tally = TallyOf(Len(bulletin_log))

\* The inductive invariant.
LifeInv == AdminAlone /\ FinalizeLate /\ LogChecked /\ RollCommitsToIssued

-----------------------------------------------------------------------------
(* Counting                                                                *)

\* An administrator starts a request only when none is in flight.
LEMMA StartsAlone ==
  ASSUME OneAdministrator, AdminMayStart
  PROVE  \A r \in Requests : pc[r] \notin AdminSteps
<1>. DEFINE running == {r \in Requests : pc[r] \in AdminSteps}
<1>1. IsFiniteSet(running)
  BY FS_Subset DEF OneAdministrator
<1>2. Cardinality(running) \in Nat /\ Cardinality(running) < 1
  BY <1>1, FS_CardinalityType DEF AdminMayStart, OneAdministrator
<1>3. running = {}
  <2>1. Cardinality(running) = 0
    BY <1>2
  <2>. HIDE DEF running
  <2>. QED
    BY <1>1, <2>1, FS_EmptySet
<1>. QED
  BY <1>3

\* Ballots of 0 and 1 do not sum to more than their number.
LEMMA TallyBounded ==
  ASSUME bulletin_log \in Seq(Entries), NEW n \in Nat, n <= Len(bulletin_log),
         \A i \in 1..n : bulletin_log[i].ballot.vote \in {0, 1}
  PROVE  TallyOf(n) <= n
<1>. DEFINE marks == UNION {{i} \X (1..bulletin_log[i].ballot.vote) : i \in 1..n}
            one == (1..n) \X {1}
<1>1. marks \subseteq one
  <2>1. SUFFICES ASSUME NEW i \in 1..n
                 PROVE  {i} \X (1..bulletin_log[i].ballot.vote) \subseteq one
    OBVIOUS
  <2>2. 1..bulletin_log[i].ballot.vote \subseteq {1}
    OBVIOUS
  <2>. QED
    BY <2>2
<1>2. IsFiniteSet(one) /\ Cardinality(one) = n
  <2>1. IsFiniteSet(1..n) /\ Cardinality(1..n) = n
    BY FS_Interval
  <2>2. IsFiniteSet({1}) /\ Cardinality({1}) = 1
    BY FS_Singleton
  <2>3. IsFiniteSet(one) /\ Cardinality(one) = Cardinality(1..n) * Cardinality({1})
    BY <2>1, <2>2, FS_Product
  <2>. QED
    BY <2>1, <2>2, <2>3
<1>. HIDE DEF marks, one
<1>3. Cardinality(marks) <= Cardinality(one)
  BY <1>1, <1>2, FS_Subset
<1>. QED
  BY <1>2, <1>3 DEF TallyOf, marks

-----------------------------------------------------------------------------
(* Steps                                                                   *)

\* The tables the invariant speaks of.
lifeTables == <<election, issued, bulletin_log, created>>

\* The requests of administrators and trustees that go on as they were.
Carried(q) ==
  pc'[q] \in AdminSteps \cup FinalizeSteps =>
    pc'[q] = pc[q] /\ local'[q] = local[q]

\* Steps that start no such request and leave the tables alone preserve the
\* invariant.
LEMMA QuietLife ==
  ASSUME LifeInv, UNCHANGED lifeTables, \A q \in Requests : Carried(q)
  PROVE  LifeInv'
<1>1. AdminAlone'
  BY DEF LifeInv, AdminAlone, lifeTables, Carried, AdminSteps
<1>2. FinalizeLate'
  BY DEF LifeInv, FinalizeLate, lifeTables, Carried, FinalizeSteps
<1>3. LogChecked' /\ RollCommitsToIssued'
  BY DEF LifeInv, LogChecked, RollCommitsToIssued, lifeTables, ValidMath, TallyOf
<1>. QED
  BY <1>1, <1>2, <1>3 DEF LifeInv

\* Submissions other than a commit, and logins, are such steps.
LEMMA VotersLife ==
  ASSUME TypeInv, LifeInv, NEW r \in Requests, ~SubmitCommit(r),
         SubmitStep(r) \/ SubmitArrives(r) \/ LoginStep(r) \/ LoginArrives(r)
  PROVE  LifeInv'
<1>. USE DEF Goto, Finish, tables, lifeTables, Carried, AdminSteps, FinalizeSteps
<1>1. CASE SubmitStep(r) \/ SubmitArrives(r)
  <2>1. UNCHANGED lifeTables /\ \A q \in Requests : Carried(q)
    BY <1>1
    DEF SubmitStep, SubmitArrives, SubmitBegin, SubmitAnonymous,
        SubmitLockCredential, SubmitSessionRefused, SubmitLockElection,
        SubmitBallotRefused, SubmitConsume, SubmitReadHead, SubmitInsert,
        SubmitDuplicate, SubmitReceipt, TypeInv, TypeOK
  <2>. QED
    BY <2>1, QuietLife
<1>2. CASE LoginStep(r) \/ LoginArrives(r)
  <2>1. UNCHANGED lifeTables /\ \A q \in Requests : Carried(q)
    BY <1>2
    DEF LoginStep, LoginArrives, LoginBegin, LoginLookup, LoginRecordFailure,
        LoginPhaseOpen, LoginPhaseClosed, LoginStore, TypeInv, TypeOK
  <2>. QED
    BY <2>1, QuietLife
<1>. QED
  BY <1>1, <1>2

\* A commit adds a ballot that was checked, while the voting is open: no
\* administrator and no trustee is under way.
LEMMA CommitLife ==
  ASSUME TypeInv, LockDiscipline, LifeInv, NEW r \in Requests, SubmitCommit(r)
  PROVE  LifeInv'
<1>1. /\ election.phase = "Voting" /\ UNCHANGED <<election, issued, created>>
      /\ pc[r] = "Commit"
      /\ \A q \in Requests : Carried(q)
  BY CommitAppends
  DEF SubmitCommit, At, Goto, Carried, AdminSteps, FinalizeSteps, TypeInv, TypeOK
<1>2. \A q \in Requests : pc'[q] \notin AdminSteps \cup FinalizeSteps
  BY <1>1 DEF LifeInv, AdminAlone, FinalizeLate, Carried
<1>3. AdminAlone' /\ FinalizeLate'
  BY <1>2 DEF AdminAlone, FinalizeLate, AdminSteps, FinalizeSteps
<1>4. ValidMath(election, NewEntry(r).ballot)
  <2>1. NewEntry(r).ballot = local[r].ballot
    BY DEF NewEntry, Entry
  <2>. QED
    BY <1>1, <2>1 DEF LockDiscipline, CheckedStaysTrue, Locked
<1>5. ASSUME NEW i \in 1..Len(bulletin_log')
      PROVE  ValidMath(election, bulletin_log'[i].ballot)
  <2>1. CASE i = Len(bulletin_log) + 1
    BY <1>4, <2>1, CommitAppends
  <2>2. CASE i \in 1..Len(bulletin_log)
    BY <2>2, CommitAppends DEF LifeInv, LogChecked
  <2>. QED
    BY <2>1, <2>2, CommitAppends
<1>6. LogChecked'
  BY <1>1, <1>5 DEF LifeInv, LogChecked, ValidMath
<1>7. RollCommitsToIssued'
  BY <1>1 DEF LifeInv, RollCommitsToIssued
<1>. QED
  BY <1>3, <1>6, <1>7 DEF LifeInv

\* The administrator's steps.
LEMMA AdminLife ==
  ASSUME OneAdministrator, TypeInv, LifeInv, NEW r \in Requests,
         AdminStep(r) \/ AdminArrives(r)
  PROVE  LifeInv'
<1>. USE DEF At, AdminSteps, FinalizeSteps
<1>1. ASSUME NEW codes \in SUBSET (Credentials \ issued), IssueRead(r, codes)
      PROVE  LifeInv'
  <2>1. /\ UNCHANGED lifeTables /\ election.phase = "Setup"
        /\ pc'[r] = "IssueInsert"
        /\ \A q \in Requests \ {r} :
             pc'[q] = pc[q] /\ local'[q] = local[q] /\ pc[q] \notin AdminSteps
    BY <1>1, StartsAlone
    DEF IssueRead, MayIssue, Goto, lifeTables, tables, TypeInv, TypeOK
  <2>2. AdminAlone' /\ FinalizeLate'
    BY <2>1 DEF LifeInv, AdminAlone, FinalizeLate, lifeTables
  <2>3. LogChecked' /\ RollCommitsToIssued'
    BY <2>1 DEF LifeInv, LogChecked, RollCommitsToIssued, lifeTables, ValidMath, TallyOf
  <2>. QED
    BY <2>2, <2>3 DEF LifeInv
<1>2. CASE IssueInsert(r)
  <2>1. /\ UNCHANGED <<election, bulletin_log, created>>
        /\ election.phase = "Setup"
        /\ pc'[r] = "Idle"
        /\ \A q \in Requests \ {r} :
             pc'[q] = pc[q] /\ local'[q] = local[q] /\ pc[q] \notin AdminSteps
    BY <1>2, FinishOthers
    DEF IssueInsert, OthersUnchanged, LifeInv, AdminAlone
  <2>2. AdminAlone' /\ FinalizeLate'
    BY <2>1 DEF LifeInv, AdminAlone, FinalizeLate
  <2>3. LogChecked' /\ RollCommitsToIssued'
    BY <2>1 DEF LifeInv, LogChecked, RollCommitsToIssued, ValidMath, TallyOf
  <2>. QED
    BY <2>2, <2>3 DEF LifeInv
<1>3. CASE OpenRead(r)
  <2>1. /\ UNCHANGED lifeTables /\ election.phase = "Setup"
        /\ pc'[r] = "OpenRoll"
        /\ \A q \in Requests \ {r} :
             pc'[q] = pc[q] /\ local'[q] = local[q] /\ pc[q] \notin AdminSteps
    BY <1>3, StartsAlone DEF OpenRead, Goto, lifeTables, tables, TypeInv, TypeOK
  <2>2. AdminAlone' /\ FinalizeLate'
    BY <2>1 DEF LifeInv, AdminAlone, FinalizeLate, lifeTables
  <2>3. LogChecked' /\ RollCommitsToIssued'
    BY <2>1 DEF LifeInv, LogChecked, RollCommitsToIssued, lifeTables, ValidMath, TallyOf
  <2>. QED
    BY <2>2, <2>3 DEF LifeInv
<1>4. CASE OpenRoll(r) /\ issued = {}
  <2>1. UNCHANGED lifeTables /\ \A q \in Requests : Carried(q)
    BY <1>4, FinishOthers
    DEF OpenRoll, OthersUnchanged, lifeTables, tables, Carried
  <2>. QED
    BY <2>1, QuietLife
<1>5. CASE OpenRoll(r) /\ issued # {}
  <2>1. /\ UNCHANGED lifeTables /\ election.phase = "Setup"
        /\ pc'[r] = "OpenUpdate" /\ local'[r].batch = issued
        /\ \A q \in Requests \ {r} :
             pc'[q] = pc[q] /\ local'[q] = local[q] /\ pc[q] \notin AdminSteps
    BY <1>5
    DEF OpenRoll, Goto, lifeTables, tables, TypeInv, TypeOK, Locals, LifeInv, AdminAlone
  <2>2. AdminAlone' /\ FinalizeLate'
    BY <1>5, <2>1 DEF LifeInv, AdminAlone, FinalizeLate, lifeTables
  <2>3. LogChecked' /\ RollCommitsToIssued'
    BY <2>1 DEF LifeInv, LogChecked, RollCommitsToIssued, lifeTables, ValidMath, TallyOf
  <2>. QED
    BY <2>2, <2>3 DEF LifeInv
<1>6. CASE OpenUpdate(r)
  <2>1. /\ UNCHANGED <<issued, bulletin_log, created>>
        /\ election.phase = "Setup" /\ local[r].batch = issued
        /\ pc'[r] = "Idle"
        /\ \A q \in Requests \ {r} :
             pc'[q] = pc[q] /\ local'[q] = local[q] /\ pc[q] \notin AdminSteps
    BY <1>6, FinishOthers
    DEF OpenUpdate, OthersUnchanged, LifeInv, AdminAlone
  <2>2. /\ election'.phase = "Voting" /\ election'.roll = issued
        /\ election'.pk = election.pk
    BY <1>6, <2>1 DEF OpenUpdate, TypeInv, TypeOK, Elections
  <2>3. \A q \in Requests : pc[q] \notin FinalizeSteps
    BY <2>1 DEF LifeInv, FinalizeLate
  <2>4. AdminAlone' /\ FinalizeLate'
    BY <2>1, <2>3 DEF LifeInv, AdminAlone, FinalizeLate
  <2>5. LogChecked' /\ RollCommitsToIssued'
    BY <2>1, <2>2 DEF LifeInv, LogChecked, RollCommitsToIssued, ValidMath
  <2>. QED
    BY <2>4, <2>5 DEF LifeInv
<1>. QED
  BY <1>1, <1>2, <1>3, <1>4, <1>5, <1>6 DEF AdminStep, AdminArrives

\* The steps of finalize_tally.  A second proof that was verified changes
\* nothing: it is for the same log.
LEMMA FinalizeLife ==
  ASSUME TypeInv, LifeInv, NEW r \in Requests,
         FinalizeStep(r) \/ FinalizeArrives(r)
  PROVE  LifeInv'
<1>. USE DEF At, AdminSteps, FinalizeSteps
<1>1. ASSUME NEW n \in 0..Len(bulletin_log), FinalizeRead(r, n)
      PROVE  LifeInv'
  <2>1. /\ UNCHANGED lifeTables /\ election.phase = "Tallying"
        /\ pc'[r] = "FinalizeSum"
        /\ \A q \in Requests \ {r} : pc'[q] = pc[q] /\ local'[q] = local[q]
    BY <1>1
    DEF FinalizeRead, MayFinalize, Goto, lifeTables, tables, TypeInv, TypeOK
  <2>2. AdminAlone' /\ FinalizeLate'
    BY <2>1 DEF LifeInv, AdminAlone, FinalizeLate, lifeTables
  <2>3. LogChecked' /\ RollCommitsToIssued'
    BY <2>1 DEF LifeInv, LogChecked, RollCommitsToIssued, lifeTables, ValidMath, TallyOf
  <2>. QED
    BY <2>2, <2>3 DEF LifeInv
<1>2. CASE FinalizeSum(r) /\ ~ProofVerifies(r)
  <2>1. UNCHANGED lifeTables /\ \A q \in Requests : Carried(q)
    BY <1>2, FinishOthers
    DEF FinalizeSum, OthersUnchanged, lifeTables, tables, Carried
  <2>. QED
    BY <2>1, QuietLife
<1>3. CASE FinalizeSum(r) /\ ProofVerifies(r)
  <2>1. /\ UNCHANGED lifeTables /\ pc[r] = "FinalizeSum"
        /\ pc'[r] = "FinalizeUpdate"
        /\ local'[r].fetched = Len(bulletin_log)
        /\ \A q \in Requests \ {r} : pc'[q] = pc[q] /\ local'[q] = local[q]
    BY <1>3
    DEF FinalizeSum, ProofVerifies, Goto, lifeTables, tables, TypeInv, TypeOK
  <2>2. AdminAlone' /\ FinalizeLate'
    BY <2>1 DEF LifeInv, AdminAlone, FinalizeLate, lifeTables
  <2>3. LogChecked' /\ RollCommitsToIssued'
    BY <2>1 DEF LifeInv, LogChecked, RollCommitsToIssued, lifeTables, ValidMath, TallyOf
  <2>. QED
    BY <2>2, <2>3 DEF LifeInv
<1>4. CASE FinalizeUpdate(r)
  <2>1. /\ UNCHANGED <<issued, bulletin_log, created>>
        /\ election.phase \in {"Tallying", "Complete"}
        /\ local[r].fetched = Len(bulletin_log)
        /\ pc'[r] = "Idle"
        /\ \A q \in Requests \ {r} : pc'[q] = pc[q] /\ local'[q] = local[q]
    BY <1>4, FinishOthers
    DEF FinalizeUpdate, OthersUnchanged, LifeInv, FinalizeLate
  <2>2. /\ election'.phase = "Complete"
        /\ election'.tally = TallyOf(Len(bulletin_log))
        /\ election'.pk = election.pk /\ election'.roll = election.roll
    BY <1>4, <2>1 DEF FinalizeUpdate, TypeInv, TypeOK, Elections
  <2>3. \A q \in Requests : pc[q] \notin AdminSteps
    BY <2>1 DEF LifeInv, AdminAlone
  <2>4. AdminAlone' /\ FinalizeLate'
    BY <2>1, <2>2, <2>3 DEF LifeInv, AdminAlone, FinalizeLate
  <2>5. LogChecked'
    BY <2>1, <2>2 DEF LifeInv, LogChecked, ValidMath, TallyOf
  <2>6. RollCommitsToIssued'
    BY <2>1, <2>2 DEF LifeInv, RollCommitsToIssued
  <2>. QED
    BY <2>4, <2>5, <2>6 DEF LifeInv
<1>. QED
  BY <1>1, <1>2, <1>3, <1>4 DEF FinalizeStep, FinalizeArrives

\* The handlers of a single statement.
LEMMA StatementLife ==
  ASSUME OneAdministrator, TypeInv, LifeInv,
         \/ \E pk \in PublicKeys, w \in Windows : CreateElection(pk, w)
         \/ CloseVoting
  PROVE  LifeInv'
<1>1. \A r \in Requests : pc[r] \notin AdminSteps
  BY StartsAlone DEF CreateElection, CloseVoting
<1>2. ASSUME NEW pk \in PublicKeys, NEW w \in Windows, CreateElection(pk, w)
      PROVE  LifeInv'
  <2>1. election.phase = "None" /\ created' # 0
    BY <1>2 DEF CreateElection, OneAdministrator, LifeInv, LogChecked, TypeInv,
                TypeOK
  <2>2. /\ election'.phase = "Setup" /\ bulletin_log' = << >>
        /\ UNCHANGED <<issued, requests>>
    BY <1>2, <2>1 DEF CreateElection, LifeInv, LogChecked
  <2>3. AdminAlone' /\ FinalizeLate'
    BY <1>1, <2>1, <2>2
    DEF LifeInv, AdminAlone, FinalizeLate, requests, AdminSteps, FinalizeSteps
  <2>4. LogChecked' /\ RollCommitsToIssued'
    BY <2>1, <2>2 DEF LogChecked, RollCommitsToIssued
  <2>. QED
    BY <2>3, <2>4 DEF LifeInv
<1>3. CASE CloseVoting
  <2>1. /\ election.phase = "Voting" /\ election'.phase = "Tallying"
        /\ election'.pk = election.pk /\ election'.roll = election.roll
        /\ UNCHANGED <<issued, bulletin_log, created, requests>>
    BY <1>3 DEF CloseVoting, TypeInv, TypeOK, Elections
  <2>2. AdminAlone' /\ FinalizeLate'
    BY <1>1, <2>1
    DEF LifeInv, AdminAlone, FinalizeLate, requests, AdminSteps, FinalizeSteps
  <2>3. LogChecked' /\ RollCommitsToIssued'
    BY <2>1 DEF LifeInv, LogChecked, RollCommitsToIssued, ValidMath
  <2>. QED
    BY <2>2, <2>3 DEF LifeInv
<1>. QED
  BY <1>2, <1>3

\* Every step of the server preserves the invariant.
LEMMA NextLife ==
  ASSUME OneAdministrator
  PROVE  TypeInv /\ LockDiscipline /\ LifeInv /\ [Next]_vars => LifeInv'
<1>. SUFFICES ASSUME TypeInv, LockDiscipline, LifeInv, [Next]_vars
              PROVE  LifeInv'
  OBVIOUS
<1>1. ASSUME NEW r \in Requests, Step(r) \/ Arrives(r) PROVE LifeInv'
  BY <1>1, VotersLife, CommitLife, AdminLife, FinalizeLife DEF Step, Arrives
<1>2. ASSUME NEW r \in Requests, RequestDropped(r) PROVE LifeInv'
  <2>1. UNCHANGED lifeTables /\ \A q \in Requests : Carried(q)
    BY <1>2, FinishOthers
    DEF RequestDropped, OthersUnchanged, lifeTables, tables, Carried, AdminSteps,
        FinalizeSteps
  <2>. QED
    BY <2>1, QuietLife
<1>3. CASE Restart \/ Tick \/ UNCHANGED vars
  <2>1. UNCHANGED lifeTables /\ \A q \in Requests : Carried(q)
    BY <1>3
    DEF Restart, Tick, vars, tables, requests, lifeTables, Carried, AdminSteps,
        FinalizeSteps
  <2>. QED
    BY <2>1, QuietLife
<1>. QED
  BY <1>1, <1>2, <1>3, StatementLife DEF Next

\* The invariant holds initially.
LEMMA InitLife == Init => LifeInv
BY DEF Init, DatabaseInit, NoElection, LifeInv, AdminAlone, FinalizeLate,
       LogChecked, RollCommitsToIssued, AdminSteps, FinalizeSteps

\* The invariant and those it rests on.
LEMMA LifeHolds ==
  ASSUME OneAdministrator
  PROVE  Spec => [](TypeInv /\ LockDiscipline /\ LifeInv)
BY InitTypes, NextTypes, InitLocks, NextLocks, InitLife, NextLife, PTL DEF Spec

-----------------------------------------------------------------------------

\* The commitment published with open_voting is over exactly the credentials
\* there are, although the roll is read in one statement and published in
\* another, for any number of credentials and voters' requests.
THEOREM RollCommitted ==
  ASSUME OneAdministrator
  PROVE  Spec => []RollCommitsToIssued
<1>1. LifeInv => RollCommitsToIssued
  BY DEF LifeInv
<1>. QED
  BY <1>1, LifeHolds, PTL

\* A completed election's tally is that of the whole log, although the sum is
\* fetched, verified and stored in separate steps, and every ballot of the log
\* was encrypted under the election's key.
THEOREM TallyComplete ==
  ASSUME OneAdministrator
  PROVE  Spec => []TallyCoversLog
<1>1. ASSUME TypeInv, LifeInv PROVE TallyCoversLog
  <2>1. /\ bulletin_log \in Seq(Entries)
        /\ \A i \in 1..Len(bulletin_log) :
             ValidMath(election, bulletin_log[i].ballot)
    BY <1>1 DEF TypeInv, TypeOK, LifeInv, LogChecked
  <2>2. TallyOf(Len(bulletin_log)) <= Len(bulletin_log)
    <3>1. Len(bulletin_log) \in Nat /\ Len(bulletin_log) <= Len(bulletin_log)
      BY <2>1
    <3>2. \A i \in 1..Len(bulletin_log) : bulletin_log[i].ballot.vote \in {0, 1}
      BY <2>1 DEF ValidMath
    <3>. QED
      BY <2>1, <3>1, <3>2, TallyBounded
  <2>. QED
    BY <1>1, <2>1, <2>2 DEF LifeInv, LogChecked, TallyCoversLog, ValidMath
<1>. QED
  BY <1>1, LifeHolds, PTL

\* Every step of the server is a transition of ElectionState or leaves it.
LEMMA LifecycleStep ==
  ASSUME OneAdministrator
  PROVE  TypeInv /\ LifeInv /\ [Next]_vars => [Lifecycle!Next]_election
<1>. SUFFICES ASSUME TypeInv, LifeInv, [Next]_vars, election' # election
              PROVE  Lifecycle!Next
  OBVIOUS
<1>e. election \in Elections
  BY DEF TypeInv, TypeOK
<1>1. \/ \E pk \in PublicKeys, w \in Windows : CreateElection(pk, w)
      \/ CloseVoting
      \/ \E r \in Requests : OpenUpdate(r) \/ FinalizeUpdate(r)
  <2>1. ASSUME NEW r \in Requests, SubmitStep(r) \/ SubmitArrives(r) PROVE FALSE
    BY <2>1
    DEF SubmitStep, SubmitArrives, SubmitBegin, SubmitAnonymous,
        SubmitLockCredential, SubmitSessionRefused, SubmitLockElection,
        SubmitBallotRefused, SubmitConsume, SubmitReadHead, SubmitInsert,
        SubmitDuplicate, SubmitCommit, SubmitReceipt, tables
  <2>2. ASSUME NEW r \in Requests, LoginStep(r) \/ LoginArrives(r) PROVE FALSE
    BY <2>2
    DEF LoginStep, LoginArrives, LoginBegin, LoginLookup, LoginRecordFailure,
        LoginPhaseOpen, LoginPhaseClosed, LoginStore, tables
  <2>3. ASSUME NEW r \in Requests, AdminStep(r) \/ AdminArrives(r)
        PROVE  OpenUpdate(r)
    BY <2>3
    DEF AdminStep, AdminArrives, IssueRead, IssueInsert, OpenRead, OpenRoll,
        tables
  <2>4. ASSUME NEW r \in Requests, FinalizeStep(r) \/ FinalizeArrives(r)
        PROVE  FinalizeUpdate(r)
    BY <2>4 DEF FinalizeStep, FinalizeArrives, FinalizeRead, FinalizeSum, tables
  <2>. QED
    BY <2>1, <2>2, <2>3, <2>4
    DEF Next, Step, Arrives, RequestDropped, Tick, Restart, vars, tables
<1>2. ASSUME NEW pk \in PublicKeys, NEW w \in Windows, CreateElection(pk, w)
      PROVE  Lifecycle!New
  <2>1. election.phase = "None"
    BY <1>2 DEF CreateElection, OneAdministrator, LifeInv, LogChecked, TypeInv,
                TypeOK
  <2>2. /\ ValidWindow(w[1], w[2])
        /\ election' = [phase |-> "Setup", pk |-> pk, start |-> w[1],
                        end |-> w[2], roll |-> {}, tally |-> -1]
    BY <1>2 DEF CreateElection
  <2>. QED
    BY <2>1, <2>2
    DEF Lifecycle!New, Lifecycle!ValidWindow, ValidWindow, Lifecycle!NoTime, NoTime
<1>3. ASSUME CloseVoting PROVE Lifecycle!CloseVoting
  BY <1>3 DEF CloseVoting, Lifecycle!CloseVoting
<1>4. ASSUME NEW r \in Requests, OpenUpdate(r) PROVE Lifecycle!OpenVoting
  <2>1. /\ election.phase = "Setup"
        /\ local[r].batch \in SUBSET Credentials /\ local[r].batch # {}
    BY <1>4, LocalTypes
    DEF OpenUpdate, At, AdminSteps, LifeInv, AdminAlone, Locals
  <2>. QED
    BY <1>4, <2>1 DEF OpenUpdate, Lifecycle!OpenVoting
<1>5. ASSUME NEW r \in Requests, FinalizeUpdate(r) PROVE Lifecycle!FinalizeTally
  <2>1. /\ election.phase \in {"Tallying", "Complete"}
        /\ local[r].fetched = Len(bulletin_log)
    BY <1>5 DEF FinalizeUpdate, At, FinalizeSteps, LifeInv, FinalizeLate
  <2>2. TallyOf(Len(bulletin_log)) \in Nat
    BY TallyType DEF TypeInv, TypeOK
  <2>3. election' = [election EXCEPT !.phase = "Complete",
                                     !.tally = TallyOf(Len(bulletin_log))]
    BY <1>5, <2>1 DEF FinalizeUpdate
  <2>. HIDE DEF TallyOf
  <2>4. election.phase # "Complete"
    <3>1. SUFFICES ASSUME election.phase = "Complete" PROVE election' = election
      OBVIOUS
    <3>2. election.tally = TallyOf(Len(bulletin_log))
      BY <3>1 DEF LifeInv, LogChecked
    <3>. QED
      BY <1>e, <2>3, <3>1, <3>2 DEF Elections
  <2>5. election'.tally = TallyOf(Len(bulletin_log))
    BY <1>e, <2>3 DEF Elections
  <2>. QED
    BY <2>1, <2>2, <2>3, <2>4, <2>5 DEF Lifecycle!FinalizeTally
<1>. QED
  BY <1>1, <1>2, <1>3, <1>4, <1>5 DEF Lifecycle!Next

\* The handlers, which rewrite the elections row without calling ElectionState,
\* make its transitions and no others.
THEOREM ServerImplementsLifecycle ==
  ASSUME OneAdministrator
  PROVE  Spec => LifecycleImplemented
<1>1. Init => Lifecycle!Init
  BY DEF Init, DatabaseInit, NoElection, Lifecycle!Init
<1>. QED
  BY <1>1, LifeHolds, LifecycleStep, PTL
  DEF Spec, LifecycleImplemented, Lifecycle!Spec

\* election_core's "Tallying cannot re-open voting" holds of the server, for
\* one election whose administrator waits for each answer.
THEOREM VotingNeverReopens ==
  ASSUME OneAdministrator
  PROVE  Spec => NoReopening
<1>1. ASSUME TypeInv, [Lifecycle!Next]_election,
             election.phase \in {"Tallying", "Complete"}
      PROVE  election'.phase # "Voting"
  BY <1>1
  DEF TypeInv, TypeOK, Elections, Lifecycle!Next, Lifecycle!New,
      Lifecycle!OpenVoting, Lifecycle!CloseVoting, Lifecycle!FinalizeTally
<1>2. TypeInv /\ LifeInv /\ [Next]_vars =>
        [election.phase \in {"Tallying", "Complete"} =>
           election'.phase # "Voting"]_vars
  BY <1>1, LifecycleStep
<1>. QED
  BY <1>2, LifeHolds, PTL DEF Spec, NoReopening

\* So does "the final result is immutable": with the phase, the key, the roll
\* and the tally of a completed election never change.
THEOREM ResultImmutable ==
  ASSUME OneAdministrator
  PROVE  Spec => CompleteIsImmutable
<1>1. ASSUME [Lifecycle!Next]_election, election.phase = "Complete"
      PROVE  election' = election
  BY <1>1
  DEF Lifecycle!Next, Lifecycle!New, Lifecycle!OpenVoting,
      Lifecycle!CloseVoting, Lifecycle!FinalizeTally
<1>2. TypeInv /\ LifeInv /\ [Next]_vars =>
        [election.phase = "Complete" => election' = election]_vars
  BY <1>1, LifecycleStep
<1>. QED
  BY <1>2, LifeHolds, PTL DEF Spec, CompleteIsImmutable

=============================================================================
