---------------------------- MODULE BallotProofs ----------------------------
(***************************************************************************)
(* Proofs of the safety of ballots: row locks protect what a submission    *)
(* has checked, hence the log is a hash chain, records each nullifier once *)
(* and spends each credential once.                                        *)
(***************************************************************************)
EXTENDS ServerProofs

-----------------------------------------------------------------------------
(* Locks                                                                   *)

\* The locals and the statement of every request but r.
OthersUnchanged(r) ==
  \A q \in Requests \ {r} : pc'[q] = pc[q] /\ local'[q] = local[q]

\* Nobody holds a row, as far as r is concerned, outside Holding.
LEMMA HoldersDiffer ==
  ASSUME TypeInv, LockDiscipline, NEW r \in Requests, pc[r] \notin Holding
  PROVE  /\ election_lock # r
         /\ \A c \in Credentials : credential_lock[c] # r
BY AbsentAssumption
DEF LockDiscipline, ElectionHeldByLive, CredentialsHeldByLive, Holding

\* A free election row means that no submission is past its lock.
LEMMA RowFree ==
  ASSUME TypeInv, LockDiscipline, ElectionRowFree, NEW r \in Requests
  PROVE  pc[r] \notin Locked
BY AbsentAssumption DEF LockDiscipline, CheckedStaysTrue, ElectionRowFree

\* Steps of a request that holds no row before or after, and that writes the
\* elections row only when it is free, preserve LockDiscipline.
LEMMA OutsideStep ==
  ASSUME TypeInv, LockDiscipline, NEW r \in Requests,
         pc[r] \notin Holding, pc'[r] \notin Holding, OthersUnchanged(r),
         UNCHANGED <<locks, is_used, bulletin_log>>,
         election' = election \/ ElectionRowFree
  PROVE  LockDiscipline'
<1>1. /\ election_lock' = election_lock /\ election_lock # r
      /\ credential_lock' = credential_lock
      /\ \A c \in Credentials : credential_lock[c] # r
      /\ is_used' = is_used /\ bulletin_log' = bulletin_log
  BY HoldersDiffer DEF locks
<1>2. ElectionHeldByLive'
  BY <1>1
  DEF OthersUnchanged, LockDiscipline, ElectionHeldByLive, TypeInv, TypeOK
<1>3. CredentialsHeldByLive'
  BY <1>1
  DEF OthersUnchanged, LockDiscipline, CredentialsHeldByLive, TypeInv, TypeOK
<1>4. ASSUME NEW q \in Requests PROVE CheckedStaysTrue(q)'
  <2>1. CASE q = r
    BY <2>1 DEF CheckedStaysTrue, Holding, Locked
  <2>2. CASE q # r
    <3>1. pc'[q] = pc[q] /\ local'[q] = local[q] /\ CheckedStaysTrue(q)
      BY <2>2 DEF OthersUnchanged, LockDiscipline
    <3>2. pc[q] \in Locked => election' = election
      BY RowFree
    <3>. QED
      BY <1>1, <3>1, <3>2
      DEF CheckedStaysTrue, HeadHash, NullifierRecorded, ValidMath
  <2>. QED
    BY <2>1, <2>2
<1>. QED
  BY <1>2, <1>3, <1>4 DEF LockDiscipline

\* A rollback preserves LockDiscipline.
LEMMA RollbackStep ==
  ASSUME TypeInv, LockDiscipline, NEW r \in Requests,
         ReleaseLocks(r), pc'[r] \notin Holding, OthersUnchanged(r),
         UNCHANGED <<election, is_used, bulletin_log>>
  PROVE  LockDiscipline'
<1>1. ElectionHeldByLive'
  BY DEF OthersUnchanged, LockDiscipline, ElectionHeldByLive, TypeInv, TypeOK,
         ReleaseLocks
<1>2. CredentialsHeldByLive'
  BY DEF OthersUnchanged, LockDiscipline, CredentialsHeldByLive, TypeInv,
         TypeOK, ReleaseLocks
<1>3. ASSUME NEW q \in Requests PROVE CheckedStaysTrue(q)'
  <2>1. CASE q = r
    BY <2>1 DEF CheckedStaysTrue, Holding, Locked
  <2>2. CASE q # r
    <3>1. /\ pc'[q] = pc[q] /\ local'[q] = local[q] /\ CheckedStaysTrue(q)
          /\ local[q].credential \in Credentials \cup {NoCredential}
      BY <2>2 DEF OthersUnchanged, LockDiscipline, TypeInv, TypeOK, Locals
    <3>. QED
      BY <2>2, <3>1
      DEF CheckedStaysTrue, HeadHash, NullifierRecorded, ValidMath, ReleaseLocks
  <2>. QED
    BY <2>1, <2>2
<1>. QED
  BY <1>1, <1>2, <1>3 DEF LockDiscipline
\* A request that goes on or answers leaves the others alone.
LEMMA GotoOthers ==
  ASSUME TypeInv, NEW r \in Requests, NEW l, Goto(r, l),
         NEW x, local' = [local EXCEPT ![r] = x]
  PROVE  OthersUnchanged(r) /\ pc'[r] = l /\ local'[r] = x
BY DEF TypeInv, TypeOK, Goto, OthersUnchanged

\* A request that is done leaves the others alone and holds nothing.
LEMMA FinishOthers ==
  ASSUME TypeInv, NEW r \in Requests, Finish(r)
  PROVE  OthersUnchanged(r) /\ pc'[r] = "Idle" /\ pc'[r] \notin Holding
BY DEF Finish, Goto, OthersUnchanged, TypeInv, TypeOK, Holding, Locked

\* Steps of a request that goes on with the locks it has, or with one more
\* that nobody holds, preserve LockDiscipline if what it has checked is true.
LEMMA HoldingStep ==
  ASSUME TypeInv, LockDiscipline, NEW r \in Requests, OthersUnchanged(r),
         pc'[r] \in Holding, pc[r] \in Locked => pc'[r] \in Locked,
         pc[r] \in Holding => local'[r].credential = local[r].credential,
         UNCHANGED <<election, is_used, bulletin_log>>,
         \/ election_lock' = election_lock
         \/ election_lock = NoRequest /\ election_lock' = r /\ pc'[r] \in Locked,
         \/ credential_lock' = credential_lock
         \/ /\ credential_lock[local'[r].credential] = NoRequest
            /\ credential_lock' =
                 [credential_lock EXCEPT ![local'[r].credential] = r],
         CheckedStaysTrue(r)'
  PROVE  LockDiscipline'
<1>1. ElectionHeldByLive'
  BY DEF OthersUnchanged, LockDiscipline, ElectionHeldByLive, TypeInv, TypeOK
<1>2. CredentialsHeldByLive'
  BY DEF OthersUnchanged, LockDiscipline, CredentialsHeldByLive, TypeInv, TypeOK
<1>3. ASSUME NEW q \in Requests, q # r PROVE CheckedStaysTrue(q)'
  <2>1. /\ pc'[q] = pc[q] /\ local'[q] = local[q] /\ CheckedStaysTrue(q)
        /\ local[q].credential \in Credentials \cup {NoCredential}
    BY <1>3 DEF OthersUnchanged, LockDiscipline, TypeInv, TypeOK, Locals
  <2>2. election_lock = q => election_lock' = q
    BY AbsentAssumption
  <2>3. \A c \in Credentials : credential_lock[c] = q => credential_lock'[c] = q
    BY AbsentAssumption DEF TypeInv, TypeOK
  <2>. QED
    BY <2>1, <2>2, <2>3
    DEF CheckedStaysTrue, HeadHash, NullifierRecorded, ValidMath
<1>. QED
  BY <1>1, <1>2, <1>3 DEF LockDiscipline

\* Every step of a submission preserves LockDiscipline.
LEMMA SubmitLocks ==
  ASSUME TypeInv, LockDiscipline, NEW r \in Requests,
         SubmitStep(r) \/ SubmitArrives(r)
  PROVE  LockDiscipline'
<1>. USE DEF Holding, Locked
<1>a. CheckedStaysTrue(r)
  BY DEF LockDiscipline
<1>b. local[r] \in Locals /\ Fits(pc[r], local[r])
        /\ local = [local EXCEPT ![r] = local[r]]
  BY LocalTypes
<1>1. ASSUME NEW t \in Tokens \cup {NoToken}, NEW b \in Ballots,
             SubmitBegin(r, t, b)
      PROVE  LockDiscipline'
  <2>1. OthersUnchanged(r) /\ pc[r] = "Idle" /\ pc'[r] = "Session"
    BY <1>1 DEF SubmitBegin, OthersUnchanged, Goto, At, TypeInv, TypeOK
  <2>. QED
    BY <1>1, <2>1, OutsideStep DEF SubmitBegin, tables
<1>2. CASE SubmitAnonymous(r)
  <2>1. /\ OthersUnchanged(r) /\ pc[r] = "Session" /\ pc'[r] = "Election"
        /\ local'[r] = local[r] /\ local[r].credential = NoCredential
    BY <1>2, <1>b, GotoOthers DEF SubmitAnonymous, At, Fits
  <2>2. CheckedStaysTrue(r)'
    BY <2>1 DEF CheckedStaysTrue
  <2>. QED
    BY <1>2, <2>1, <2>2, HoldingStep DEF SubmitAnonymous, tables, locks
<1>3. CASE SubmitLockCredential(r)
  <2>. DEFINE c == Session(r).credential
  <2>1. c \in Credentials /\ credential_lock[c] = NoRequest /\ c \notin is_used
    BY <1>3, <1>b
    DEF SubmitLockCredential, HasSession, Session, SessionRefused,
        CredentialRowFree, TypeInv, TypeOK, Locals
  <2>2. /\ OthersUnchanged(r) /\ pc[r] = "Session" /\ pc'[r] = "Election"
        /\ local'[r].credential = c
        /\ credential_lock' = [credential_lock EXCEPT ![c] = r]
        /\ UNCHANGED <<election, is_used, bulletin_log, election_lock>>
    BY <1>3, <1>b
    DEF SubmitLockCredential, LockCredential, OthersUnchanged, Goto, At,
        TypeInv, TypeOK, Locals, tables
  <2>. HIDE DEF c
  <2>3. CheckedStaysTrue(r)'
    BY <2>1, <2>2 DEF CheckedStaysTrue, TypeInv, TypeOK
  <2>. QED
    BY <2>1, <2>2, <2>3, HoldingStep
<1>4. CASE SubmitSessionRefused(r)
  BY <1>4, FinishOthers, OutsideStep DEF SubmitSessionRefused, At, tables
<1>5. CASE SubmitLockElection(r)
  <2>1. PICK l \in {"ReadHead", "Consume"} : Goto(r, l)
    BY <1>5 DEF SubmitLockElection
  <2>2. /\ OthersUnchanged(r) /\ pc[r] = "Election" /\ pc'[r] = l
        /\ local'[r] = local[r]
        /\ election_lock = NoRequest /\ election_lock' = r
        /\ UNCHANGED <<election, is_used, bulletin_log, credential_lock>>
    BY <1>5, <1>b, <2>1, GotoOthers
    DEF SubmitLockElection, LockElection, ElectionRowFree, At, tables
  <2>3. CheckedStaysTrue(r)'
    BY <1>5, <1>a, <2>2
    DEF SubmitLockElection, BallotAccepted, ValidTiming, ValidMath,
        CheckedStaysTrue
  <2>. QED
    BY <2>2, <2>3, HoldingStep
<1>6. CASE SubmitBallotRefused(r)
  BY <1>6, FinishOthers, RollbackStep DEF SubmitBallotRefused, tables
<1>7. CASE SubmitConsume(r)
  <2>1. /\ OthersUnchanged(r) /\ pc[r] = "Consume" /\ pc'[r] = "ReadHead"
        /\ local'[r] = local[r]
        /\ UNCHANGED <<election, is_used, bulletin_log, locks>>
    BY <1>7, <1>b, GotoOthers DEF SubmitConsume, At, tables
  <2>2. CheckedStaysTrue(r)'
    BY <1>a, <2>1 DEF CheckedStaysTrue, ValidMath, locks
  <2>. QED
    BY <2>1, <2>2, HoldingStep DEF locks
<1>8. CASE SubmitReadHead(r)
  <2>1. /\ OthersUnchanged(r) /\ pc[r] = "ReadHead" /\ pc'[r] = "Insert"
        /\ local'[r] = [local[r] EXCEPT !.prev_hash = HeadHash]
        /\ UNCHANGED <<election, is_used, bulletin_log, locks>>
    BY <1>8
    DEF SubmitReadHead, At, Goto, OthersUnchanged, tables, TypeInv, TypeOK
  <2>2. /\ local'[r].credential = local[r].credential
        /\ local'[r].ballot = local[r].ballot
        /\ local'[r].prev_hash = HeadHash
    BY <1>b, <2>1 DEF Locals
  <2>3. CheckedStaysTrue(r)'
    BY <1>a, <2>1, <2>2 DEF CheckedStaysTrue, ValidMath, locks, HeadHash
  <2>. QED
    BY <2>1, <2>2, <2>3, HoldingStep DEF locks
<1>9. CASE SubmitInsert(r)
  <2>1. /\ OthersUnchanged(r) /\ pc[r] = "Insert" /\ pc'[r] = "Commit"
        /\ local'[r] = local[r]
        /\ UNCHANGED <<election, is_used, bulletin_log, locks>>
    BY <1>9, <1>b, GotoOthers DEF SubmitInsert, At, tables
  <2>2. CheckedStaysTrue(r)'
    BY <1>9, <1>a, <2>1
    DEF SubmitInsert, CheckedStaysTrue, ValidMath, locks, HeadHash,
        NullifierRecorded
  <2>. QED
    BY <2>1, <2>2, HoldingStep DEF locks
<1>10. CASE SubmitDuplicate(r)
  BY <1>10, FinishOthers, RollbackStep DEF SubmitDuplicate, tables
<1>11. CASE SubmitCommit(r)
  <2>1. /\ OthersUnchanged(r) /\ pc[r] = "Commit" /\ pc'[r] = "Receipt"
        /\ UNCHANGED election
        /\ is_used' = is_used \cup ({local[r].credential} \ {NoCredential})
    BY <1>11, <1>b, GotoOthers DEF SubmitCommit, CommitBallot, At
  <2>2. ReleaseLocks(r)
    BY <1>11 DEF SubmitCommit
  <2>3. ElectionHeldByLive' /\ CredentialsHeldByLive'
    BY <2>1, <2>2
    DEF OthersUnchanged, LockDiscipline, ElectionHeldByLive,
        CredentialsHeldByLive, TypeInv, TypeOK, ReleaseLocks
  <2>4. ASSUME NEW q \in Requests, q # r PROVE CheckedStaysTrue(q)'
    <3>1. /\ pc'[q] = pc[q] /\ local'[q] = local[q] /\ CheckedStaysTrue(q)
          /\ local[q].credential \in Credentials \cup {NoCredential}
      BY <2>1, <2>4 DEF OthersUnchanged, LockDiscipline, TypeInv, TypeOK, Locals
    <3>2. pc[q] \notin Locked
      BY <1>a, <2>1, <2>4, <3>1 DEF CheckedStaysTrue
    <3>3. pc[q] \in Holding /\ local[q].credential # NoCredential =>
            local[q].credential # local[r].credential
      BY <1>a, <2>1, <2>4, <3>1 DEF CheckedStaysTrue
    <3>. QED
      BY <2>1, <2>2, <2>4, <3>1, <3>2, <3>3 DEF CheckedStaysTrue, ReleaseLocks
  <2>5. CheckedStaysTrue(r)'
    BY <2>1 DEF CheckedStaysTrue
  <2>. QED
    BY <2>3, <2>4, <2>5 DEF LockDiscipline
<1>12. CASE SubmitReceipt(r)
  BY <1>12, FinishOthers, OutsideStep DEF SubmitReceipt, At, tables
<1>. QED
  BY <1>1, <1>2, <1>3, <1>4, <1>5, <1>6, <1>7, <1>8, <1>9, <1>10, <1>11, <1>12
  DEF SubmitStep, SubmitArrives
\* No other handler holds a row: its steps preserve LockDiscipline.
LEMMA OtherHandlersLocks ==
  ASSUME TypeInv, LockDiscipline, NEW r \in Requests,
         LoginStep(r) \/ LoginArrives(r) \/ AdminStep(r) \/ AdminArrives(r)
           \/ FinalizeStep(r) \/ FinalizeArrives(r)
  PROVE  LockDiscipline'
<1>. USE DEF Holding, Locked, OthersUnchanged, At, Goto, Finish, tables, locks
<1>1. CASE LoginStep(r) \/ LoginArrives(r)
  <2>1. /\ pc[r] \notin Holding /\ pc'[r] \notin Holding /\ OthersUnchanged(r)
        /\ UNCHANGED <<locks, election, is_used, bulletin_log>>
    BY <1>1
    DEF LoginStep, LoginArrives, LoginBegin, LoginLookup, LoginRecordFailure,
        LoginPhaseOpen, LoginPhaseClosed, LoginStore, TypeInv, TypeOK
  <2>. QED
    BY <2>1, OutsideStep
<1>2. CASE AdminStep(r) \/ AdminArrives(r)
  <2>1. /\ pc[r] \notin Holding /\ pc'[r] \notin Holding /\ OthersUnchanged(r)
        /\ UNCHANGED <<locks, is_used, bulletin_log>>
        /\ election' = election \/ ElectionRowFree
    BY <1>2
    DEF AdminStep, AdminArrives, IssueRead, IssueInsert, OpenRead, OpenRoll,
        OpenUpdate, TypeInv, TypeOK
  <2>. QED
    BY <2>1, OutsideStep
<1>3. CASE FinalizeStep(r) \/ FinalizeArrives(r)
  <2>1. /\ pc[r] \notin Holding /\ pc'[r] \notin Holding /\ OthersUnchanged(r)
        /\ UNCHANGED <<locks, is_used, bulletin_log>>
        /\ election' = election \/ ElectionRowFree
    BY <1>3
    DEF FinalizeStep, FinalizeArrives, FinalizeRead, FinalizeSum,
        FinalizeUpdate, TypeInv, TypeOK
  <2>. QED
    BY <2>1, OutsideStep
<1>. QED
  BY <1>1, <1>2, <1>3

\* A write of the elections row that waits for it to be free, by a handler of
\* a single statement, preserves LockDiscipline.
LEMMA RowWrite ==
  ASSUME TypeInv, LockDiscipline, ElectionRowFree,
         UNCHANGED <<locks, requests, is_used, bulletin_log>>
  PROVE  LockDiscipline'
<1>1. ElectionHeldByLive' /\ CredentialsHeldByLive'
  BY DEF LockDiscipline, ElectionHeldByLive, CredentialsHeldByLive, locks,
         requests
<1>2. ASSUME NEW r \in Requests PROVE CheckedStaysTrue(r)'
  BY RowFree
  DEF LockDiscipline, CheckedStaysTrue, locks, requests, Locked
<1>. QED
  BY <1>1, <1>2 DEF LockDiscipline

\* Every step of the server preserves LockDiscipline.
LEMMA NextLocks ==
  TypeInv /\ LockDiscipline /\ [Next]_vars => LockDiscipline'
<1>. SUFFICES ASSUME TypeInv, LockDiscipline, [Next]_vars PROVE LockDiscipline'
  OBVIOUS
<1>1. ASSUME NEW r \in Requests, Step(r) \/ Arrives(r) PROVE LockDiscipline'
  BY <1>1, SubmitLocks, OtherHandlersLocks DEF Step, Arrives
<1>2. ASSUME NEW r \in Requests, RequestDropped(r) PROVE LockDiscipline'
  BY <1>2, FinishOthers, RollbackStep DEF RequestDropped, tables
<1>3. ASSUME NEW pk \in PublicKeys, NEW w \in Windows, CreateElection(pk, w)
      PROVE  LockDiscipline'
  BY <1>3, RowWrite DEF CreateElection
<1>4. CASE CloseVoting
  BY <1>4, RowWrite DEF CloseVoting
<1>5. CASE Restart
  BY <1>5
  DEF Restart, LockDiscipline, ElectionHeldByLive, CredentialsHeldByLive,
      CheckedStaysTrue, Holding, Locked
<1>6. CASE Tick \/ UNCHANGED vars
  BY <1>6
  DEF Tick, vars, tables, locks, requests, LockDiscipline, ElectionHeldByLive,
      CredentialsHeldByLive, CheckedStaysTrue, HeadHash, NullifierRecorded,
      ValidMath
<1>. QED
  BY <1>1, <1>2, <1>3, <1>4, <1>5, <1>6 DEF Next

\* LockDiscipline holds initially.
LEMMA InitLocks ==
  Init => LockDiscipline
BY DEF Init, DatabaseInit, LockDiscipline, ElectionHeldByLive,
       CredentialsHeldByLive, CheckedStaysTrue, Holding, Locked

\* For any number of concurrent requests, what a submission checked is still
\* true when it commits: its two row locks, taken in this order and released
\* on every way out, are enough.
THEOREM LocksProtect ==
  Spec => []LockDiscipline
BY InitTypes, NextTypes, InitLocks, NextLocks, PTL DEF Spec
-----------------------------------------------------------------------------
(* The log                                                                 *)

\* The log and the used credentials change together, and only by the commit
\* of a submission whose checks are still true.
LEMMA LogStep ==
  ASSUME TypeInv, [Next]_vars
  PROVE  \/ UNCHANGED <<bulletin_log, is_used>>
         \/ \E r \in Requests : SubmitCommit(r)
<1>. USE DEF tables
<1>1. ASSUME NEW r \in Requests, SubmitStep(r) \/ SubmitArrives(r)
      PROVE  SubmitCommit(r) \/ UNCHANGED <<bulletin_log, is_used>>
  BY <1>1
  DEF SubmitStep, SubmitArrives, SubmitBegin, SubmitAnonymous,
      SubmitLockCredential, SubmitSessionRefused, SubmitLockElection,
      SubmitBallotRefused, SubmitConsume, SubmitReadHead, SubmitInsert,
      SubmitDuplicate, SubmitReceipt
<1>2. ASSUME NEW r \in Requests, LoginStep(r) \/ LoginArrives(r)
      PROVE  UNCHANGED <<bulletin_log, is_used>>
  BY <1>2
  DEF LoginStep, LoginArrives, LoginBegin, LoginLookup, LoginRecordFailure,
      LoginPhaseOpen, LoginPhaseClosed, LoginStore
<1>3. ASSUME NEW r \in Requests, AdminStep(r) \/ AdminArrives(r)
      PROVE  UNCHANGED <<bulletin_log, is_used>>
  BY <1>3
  DEF AdminStep, AdminArrives, IssueRead, IssueInsert, OpenRead, OpenRoll,
      OpenUpdate
<1>4. ASSUME NEW r \in Requests, FinalizeStep(r) \/ FinalizeArrives(r)
      PROVE  UNCHANGED <<bulletin_log, is_used>>
  BY <1>4
  DEF FinalizeStep, FinalizeArrives, FinalizeRead, FinalizeSum, FinalizeUpdate
<1>5. ASSUME \/ \E r \in Requests : RequestDropped(r)
             \/ \E pk \in PublicKeys, w \in Windows : CreateElection(pk, w)
             \/ CloseVoting \/ Tick \/ Restart \/ UNCHANGED vars
      PROVE  UNCHANGED <<bulletin_log, is_used>>
  BY <1>5 DEF RequestDropped, CreateElection, CloseVoting, Tick, Restart, vars
<1>. QED
  BY <1>1, <1>2, <1>3, <1>4, <1>5 DEF Next, Step, Arrives

\* What a commit appends to the log.
LEMMA CommitAppends ==
  ASSUME TypeInv, LockDiscipline, NEW r \in Requests, SubmitCommit(r)
  PROVE  /\ NewEntry(r) \in Entries
         /\ bulletin_log' = Append(bulletin_log, NewEntry(r))
         /\ is_used' = is_used \cup ({NewEntry(r).by} \ {NoCredential})
         /\ Len(bulletin_log) \in Nat
         /\ Len(bulletin_log') = Len(bulletin_log) + 1
         /\ bulletin_log'[Len(bulletin_log) + 1] = NewEntry(r)
         /\ \A i \in 1..Len(bulletin_log) : bulletin_log'[i] = bulletin_log[i]
         /\ election.phase = "Voting"
         /\ NewEntry(r).prev_hash = HeadHash
         /\ NewEntry(r).entry_hash = EntryHash(HeadHash, NewEntry(r).ballot)
         /\ ~NullifierRecorded(NewEntry(r).ballot.nullifier)
         /\ NewEntry(r).by \notin is_used \/ NewEntry(r).by = NoCredential
<1>1. /\ local[r].prev_hash \in Hashes /\ local[r].ballot \in Ballots
      /\ local[r].credential \in Credentials \cup {NoCredential}
      /\ CheckedStaysTrue(r) /\ pc[r] = "Commit"
  BY LocalTypes
  DEF SubmitCommit, At, Fits, Locals, InTransaction, Locked, LockDiscipline
<1>2. /\ NewEntry(r).by = local[r].credential
      /\ NewEntry(r).ballot = local[r].ballot
      /\ NewEntry(r).prev_hash = local[r].prev_hash
      /\ NewEntry(r).entry_hash = EntryHash(local[r].prev_hash, local[r].ballot)
  BY DEF NewEntry, Entry
<1>3. NewEntry(r) \in Entries
  BY <1>1 DEF NewEntry, Entry, Entries, EntryHash, Hashes
<1>4. bulletin_log' = Append(bulletin_log, NewEntry(r))
        /\ is_used' = is_used \cup ({NewEntry(r).by} \ {NoCredential})
  BY <1>2 DEF SubmitCommit, CommitBallot
<1>5. /\ Len(bulletin_log) \in Nat
      /\ Len(bulletin_log') = Len(bulletin_log) + 1
      /\ bulletin_log'[Len(bulletin_log) + 1] = NewEntry(r)
      /\ \A i \in 1..Len(bulletin_log) : bulletin_log'[i] = bulletin_log[i]
  BY <1>3, <1>4 DEF TypeInv, TypeOK
<1>6. /\ election.phase = "Voting"
      /\ local[r].prev_hash = HeadHash
      /\ ~NullifierRecorded(local[r].ballot.nullifier)
      /\ local[r].credential \notin is_used \/ local[r].credential = NoCredential
  BY <1>1 DEF CheckedStaysTrue, Holding, Locked
<1>. QED
  BY <1>2, <1>3, <1>4, <1>5, <1>6

\* The log stays a hash chain.
LEMMA NextChain ==
  TypeInv /\ LockDiscipline /\ ChainLinked /\ [Next]_vars => ChainLinked'
<1>. SUFFICES ASSUME TypeInv, LockDiscipline, ChainLinked, [Next]_vars
              PROVE  ChainLinked'
  OBVIOUS
<1>1. CASE UNCHANGED <<bulletin_log, is_used>>
  BY <1>1 DEF ChainLinked
<1>2. ASSUME NEW r \in Requests, SubmitCommit(r) PROVE ChainLinked'
  <2>. DEFINE n == Len(bulletin_log)
  <2>1. HeadHash = IF n + 1 = 1 THEN GENESIS_HASH ELSE bulletin_log[n].entry_hash
    BY DEF HeadHash, TypeInv, TypeOK
  <2>2. ASSUME NEW i \in 1..Len(bulletin_log')
        PROVE  /\ bulletin_log'[i].prev_hash =
                    IF i = 1 THEN GENESIS_HASH ELSE bulletin_log'[i - 1].entry_hash
               /\ bulletin_log'[i].entry_hash =
                    EntryHash(bulletin_log'[i].prev_hash, bulletin_log'[i].ballot)
    <3>1. CASE i \in 1..n
      BY <1>2, <3>1, CommitAppends DEF ChainLinked
    <3>2. CASE i = n + 1
      BY <1>2, <2>1, <3>2, CommitAppends
    <3>. QED
      BY <1>2, <3>1, <3>2, CommitAppends
  <2>. QED
    BY <2>2 DEF ChainLinked
<1>. QED
  BY <1>1, <1>2, LogStep

\* Nullifiers stay unique.
LEMMA NextNullifiers ==
  TypeInv /\ LockDiscipline /\ NullifiersUnique /\ [Next]_vars
    => NullifiersUnique'
<1>. SUFFICES ASSUME TypeInv, LockDiscipline, NullifiersUnique, [Next]_vars
              PROVE  NullifiersUnique'
  OBVIOUS
<1>1. CASE UNCHANGED <<bulletin_log, is_used>>
  BY <1>1 DEF NullifiersUnique
<1>2. ASSUME NEW r \in Requests, SubmitCommit(r) PROVE NullifiersUnique'
  BY <1>2, CommitAppends DEF NullifiersUnique, NullifierRecorded
<1>. QED
  BY <1>1, <1>2, LogStep

\* Credentials stay spent once.
LEMMA NextSpent ==
  TypeInv /\ LockDiscipline /\ CredentialsSpentOnce /\ [Next]_vars
    => CredentialsSpentOnce'
<1>. SUFFICES ASSUME TypeInv, LockDiscipline, CredentialsSpentOnce, [Next]_vars
              PROVE  CredentialsSpentOnce'
  OBVIOUS
<1>1. CASE UNCHANGED <<bulletin_log, is_used>>
  BY <1>1 DEF CredentialsSpentOnce
<1>2. ASSUME NEW r \in Requests, SubmitCommit(r) PROVE CredentialsSpentOnce'
  <2>. DEFINE n == Len(bulletin_log)
              spent == {bulletin_log[i].by : i \in 1..n}
  <2>1. is_used = spent \ {NoCredential}
    BY DEF CredentialsSpentOnce
  <2>2. {bulletin_log'[i].by : i \in 1..Len(bulletin_log')}
          = spent \cup {NewEntry(r).by}
    <3>1. 1..Len(bulletin_log') = 1..n \cup {n + 1}
      BY <1>2, CommitAppends
    <3>. QED
      BY <1>2, <3>1, CommitAppends
  <2>3. \A i \in 1..n :
          bulletin_log[i].by = NewEntry(r).by => NewEntry(r).by = NoCredential
    BY <1>2, <2>1, CommitAppends
  <2>4. \A i, j \in 1..Len(bulletin_log') :
          bulletin_log'[i].by = bulletin_log'[j].by /\ i # j =>
            bulletin_log'[i].by = NoCredential
    BY <1>2, <2>3, CommitAppends DEF CredentialsSpentOnce
  <2>5. is_used' = (spent \cup {NewEntry(r).by}) \ {NoCredential}
    BY <1>2, <2>1, CommitAppends
  <2>. QED
    BY <2>2, <2>4, <2>5 DEF CredentialsSpentOnce
<1>. QED
  BY <1>1, <1>2, LogStep

\* The bulletin log is one unbroken hash chain from genesis, for any number
\* of submissions that read its head and insert behind it concurrently.
THEOREM LogIsChain ==
  Spec => []ChainLinked
<1>1. Init => ChainLinked
  BY DEF Init, DatabaseInit, ChainLinked
<1>. QED
  BY <1>1, InitTypes, NextTypes, InitLocks, NextLocks, NextChain, PTL DEF Spec

\* No nullifier is ever recorded twice.
THEOREM NullifiersOnce ==
  Spec => []NullifiersUnique
<1>1. Init => NullifiersUnique
  BY DEF Init, DatabaseInit, NullifiersUnique
<1>. QED
  BY <1>1, InitTypes, NextTypes, InitLocks, NextLocks, NextNullifiers, PTL
  DEF Spec

\* A credential is used exactly when one ballot of the log consumed it.
THEOREM CredentialsOnce ==
  Spec => []CredentialsSpentOnce
<1>1. Init => CredentialsSpentOnce
  BY DEF Init, DatabaseInit, CredentialsSpentOnce
<1>. QED
  BY <1>1, InitTypes, NextTypes, InitLocks, NextLocks, NextSpent, PTL DEF Spec
-----------------------------------------------------------------------------
(* Receipts                                                                *)

\* A request gets to its receipt only by the commit, and keeps its locals
\* until it answers.
LEMMA ReceiptStep ==
  ASSUME TypeInv, [Next]_vars, NEW r \in Requests, pc'[r] = "Receipt"
  PROVE  \/ SubmitCommit(r)
         \/ pc[r] = "Receipt" /\ local'[r] = local[r]
<1>. USE DEF TypeInv, TypeOK, Goto, Finish, At
<1>1. ASSUME NEW q \in Requests, SubmitStep(q) \/ SubmitArrives(q)
      PROVE  SubmitCommit(r) \/ (pc[r] = "Receipt" /\ local'[r] = local[r])
  BY <1>1
  DEF SubmitStep, SubmitArrives, SubmitBegin, SubmitAnonymous,
      SubmitLockCredential, SubmitSessionRefused, SubmitLockElection,
      SubmitBallotRefused, SubmitConsume, SubmitReadHead, SubmitInsert,
      SubmitDuplicate, SubmitCommit, SubmitReceipt
<1>2. ASSUME NEW q \in Requests, LoginStep(q) \/ LoginArrives(q)
      PROVE  pc[r] = "Receipt" /\ local'[r] = local[r]
  BY <1>2
  DEF LoginStep, LoginArrives, LoginBegin, LoginLookup, LoginRecordFailure,
      LoginPhaseOpen, LoginPhaseClosed, LoginStore
<1>3. ASSUME NEW q \in Requests, AdminStep(q) \/ AdminArrives(q)
      PROVE  pc[r] = "Receipt" /\ local'[r] = local[r]
  BY <1>3
  DEF AdminStep, AdminArrives, IssueRead, IssueInsert, OpenRead, OpenRoll,
      OpenUpdate
<1>4. ASSUME NEW q \in Requests, FinalizeStep(q) \/ FinalizeArrives(q)
      PROVE  pc[r] = "Receipt" /\ local'[r] = local[r]
  BY <1>4
  DEF FinalizeStep, FinalizeArrives, FinalizeRead, FinalizeSum, FinalizeUpdate
<1>5. ASSUME \/ \E q \in Requests : RequestDropped(q)
             \/ \E pk \in PublicKeys, w \in Windows : CreateElection(pk, w)
             \/ CloseVoting \/ Tick \/ Restart \/ UNCHANGED vars
      PROVE  pc[r] = "Receipt" /\ local'[r] = local[r]
  BY <1>5
  DEF RequestDropped, CreateElection, CloseVoting, Tick, Restart, vars, requests
<1>. QED
  BY <1>1, <1>2, <1>3, <1>4, <1>5 DEF Next, Step, Arrives

\* A receipt keeps standing for an entry of the log.
LEMMA NextReceipts ==
  TypeInv /\ LockDiscipline /\ ReceiptIsRecorded /\ [Next]_vars
    => ReceiptIsRecorded'
<1>. SUFFICES ASSUME TypeInv, LockDiscipline, ReceiptIsRecorded, [Next]_vars,
                     NEW r \in Requests, pc'[r] = "Receipt"
              PROVE  \E i \in 1..Len(bulletin_log') :
                       bulletin_log'[i] = NewEntry(r)'
  BY DEF ReceiptIsRecorded, At
<1>1. CASE SubmitCommit(r)
  <2>1. NewEntry(r)' = NewEntry(r)
    BY <1>1 DEF SubmitCommit, NewEntry
  <2>. QED
    BY <1>1, <2>1, CommitAppends
<1>2. CASE pc[r] = "Receipt" /\ local'[r] = local[r]
  <2>1. PICK i \in 1..Len(bulletin_log) : bulletin_log[i] = NewEntry(r)
    BY <1>2 DEF ReceiptIsRecorded, At
  <2>2. NewEntry(r)' = NewEntry(r)
    BY <1>2 DEF NewEntry
  <2>3. Len(bulletin_log) <= Len(bulletin_log')
          /\ bulletin_log'[i] = bulletin_log[i]
    BY LogStep, CommitAppends DEF TypeInv, TypeOK
  <2>4. i \in 1..Len(bulletin_log')
    BY <2>3, LogStep, CommitAppends DEF TypeInv, TypeOK
  <2>. QED
    BY <2>1, <2>2, <2>3, <2>4
<1>. QED
  BY <1>1, <1>2, ReceiptStep

\* Whoever is answered with a receipt has that entry in the log, whatever
\* other requests commit between the commit and the answer.
THEOREM ReceiptsHold ==
  Spec => []ReceiptIsRecorded
<1>1. Init => ReceiptIsRecorded
  BY DEF Init, DatabaseInit, ReceiptIsRecorded, At
<1>. QED
  BY <1>1, InitTypes, NextTypes, InitLocks, NextLocks, NextReceipts, PTL
  DEF Spec

-----------------------------------------------------------------------------
(* Time limits                                                             *)

\* Whoever holds the election row took it once the election had begun.
HeldInTime == election_lock # NoRequest => Begun

\* A step moves the clock forward or not at all, and writes the election's row
\* only while it is free and stays so.
LEMMA ClockAndRow ==
  ASSUME TypeInv, [Next]_vars
  PROVE  /\ now' \in Int /\ now \in Int /\ now' >= now
         /\ \/ election' = election
            \/ ElectionRowFree /\ election_lock' = NoRequest
<1>. USE DEF tables, locks, requests
<1>1. now \in Int /\ (now' = now \/ now' = now + 1)
  <2>1. now \in Int
    BY MaxTimeAssumption DEF TypeInv, TypeOK
  <2>2. ASSUME NEW r \in Requests, Step(r) \/ Arrives(r) PROVE now' = now
    BY <2>2
    DEF Step, Arrives, SubmitStep, SubmitArrives, SubmitBegin, SubmitAnonymous,
        SubmitLockCredential, SubmitSessionRefused, SubmitLockElection,
        SubmitBallotRefused, SubmitConsume, SubmitReadHead, SubmitInsert,
        SubmitDuplicate, SubmitCommit, SubmitReceipt, LoginStep, LoginArrives,
        LoginBegin, LoginLookup, LoginRecordFailure, LoginPhaseOpen,
        LoginPhaseClosed, LoginStore, AdminStep, AdminArrives, IssueRead,
        IssueInsert, OpenRead, OpenRoll, OpenUpdate, FinalizeStep,
        FinalizeArrives, FinalizeRead, FinalizeSum, FinalizeUpdate
  <2>. QED
    BY <2>1, <2>2
    DEF Next, RequestDropped, CreateElection, CloseVoting, Tick, Restart, vars
<1>2. ASSUME election' # election
      PROVE  ElectionRowFree /\ election_lock' = election_lock
  <2>1. ASSUME NEW r \in Requests, SubmitStep(r) \/ SubmitArrives(r) PROVE FALSE
    BY <1>2, <2>1
    DEF SubmitStep, SubmitArrives, SubmitBegin, SubmitAnonymous,
        SubmitLockCredential, SubmitSessionRefused, SubmitLockElection,
        SubmitBallotRefused, SubmitConsume, SubmitReadHead, SubmitInsert,
        SubmitDuplicate, SubmitCommit, SubmitReceipt
  <2>2. ASSUME NEW r \in Requests, LoginStep(r) \/ LoginArrives(r) PROVE FALSE
    BY <1>2, <2>2
    DEF LoginStep, LoginArrives, LoginBegin, LoginLookup, LoginRecordFailure,
        LoginPhaseOpen, LoginPhaseClosed, LoginStore
  <2>3. ASSUME NEW r \in Requests,
               AdminStep(r) \/ AdminArrives(r) \/ FinalizeStep(r)
                 \/ FinalizeArrives(r)
        PROVE  ElectionRowFree /\ election_lock' = election_lock
    BY <1>2, <2>3
    DEF AdminStep, AdminArrives, IssueRead, IssueInsert, OpenRead, OpenRoll,
        OpenUpdate, FinalizeStep, FinalizeArrives, FinalizeRead, FinalizeSum,
        FinalizeUpdate
  <2>. QED
    BY <1>2, <2>1, <2>2, <2>3
    DEF Next, Step, Arrives, RequestDropped, CreateElection, CloseVoting, Tick,
        Restart, vars
<1>. QED
  BY <1>1, <1>2 DEF ElectionRowFree

\* Rows are locked by the submissions that read them.
LEMMA LocksTaken ==
  ASSUME TypeInv, [Next]_vars
  PROVE  /\ \/ election_lock' \in {election_lock, NoRequest}
            \/ \E r \in Requests : SubmitLockElection(r)
         /\ \/ \A c \in Credentials :
                 credential_lock'[c] \in {credential_lock[c], NoRequest}
            \/ \E r \in Requests : SubmitLockCredential(r)
<1>. USE DEF tables, locks
<1>. DEFINE Same == UNCHANGED locks
<1>1. ASSUME NEW r \in Requests, ReleaseLocks(r)
      PROVE  /\ election_lock' \in {election_lock, NoRequest}
             /\ \A c \in Credentials :
                  credential_lock'[c] \in {credential_lock[c], NoRequest}
  BY <1>1 DEF ReleaseLocks
<1>2. ASSUME NEW r \in Requests, SubmitStep(r) \/ SubmitArrives(r)
      PROVE  \/ Same \/ ReleaseLocks(r)
             \/ SubmitLockElection(r) /\ UNCHANGED credential_lock
             \/ SubmitLockCredential(r) /\ UNCHANGED election_lock
  BY <1>2
  DEF SubmitStep, SubmitArrives, SubmitBegin, SubmitAnonymous,
      SubmitLockCredential, SubmitSessionRefused, SubmitLockElection,
      SubmitBallotRefused, SubmitConsume, SubmitReadHead, SubmitInsert,
      SubmitDuplicate, SubmitCommit, SubmitReceipt
<1>3. ASSUME NEW r \in Requests,
             LoginStep(r) \/ LoginArrives(r) \/ AdminStep(r) \/ AdminArrives(r)
               \/ FinalizeStep(r) \/ FinalizeArrives(r)
      PROVE  Same
  BY <1>3
  DEF LoginStep, LoginArrives, LoginBegin, LoginLookup, LoginRecordFailure,
      LoginPhaseOpen, LoginPhaseClosed, LoginStore, AdminStep, AdminArrives,
      IssueRead, IssueInsert, OpenRead, OpenRoll, OpenUpdate, FinalizeStep,
      FinalizeArrives, FinalizeRead, FinalizeSum, FinalizeUpdate
<1>4. CASE Restart
  BY <1>4 DEF Restart
<1>5. ASSUME \/ \E pk \in PublicKeys, w \in Windows : CreateElection(pk, w)
             \/ CloseVoting \/ Tick \/ UNCHANGED vars
      PROVE  Same
  BY <1>5 DEF CreateElection, CloseVoting, Tick, vars
<1>. QED
  BY <1>1, <1>2, <1>3, <1>4, <1>5 DEF Next, Step, Arrives, RequestDropped

\* A row that is locked was there in time.
LEMMA NextInTime ==
  TypeInv /\ HeldInTime /\ [Next]_vars => HeldInTime'
<1>. SUFFICES ASSUME TypeInv, HeldInTime, [Next]_vars, election_lock' # NoRequest
              PROVE  Begun'
  BY DEF HeldInTime
<1>1. /\ now' \in Int /\ now \in Int /\ now' >= now
      /\ election' = election /\ election.start \in Int
  BY ClockAndRow DEF TypeInv, TypeOK, Elections
<1>2. CASE election_lock # NoRequest
  BY <1>1, <1>2 DEF HeldInTime, Begun
<1>3. CASE election_lock = NoRequest
  <2>1. PICK r \in Requests : SubmitLockElection(r)
    BY <1>3, LocksTaken
  <2>2. Begun
    BY <2>1 DEF SubmitLockElection, BallotAccepted, ValidTiming, Begun
  <2>. QED
    BY <1>1, <2>2 DEF Begun
<1>. QED
  BY <1>2, <1>3

\* No step records a ballot or spends a credential against its time limits.
LEMMA StepInTime ==
  ASSUME TypeInv, LockDiscipline, HeldInTime, [Next]_vars
  PROVE  /\ bulletin_log' # bulletin_log => Begun
         /\ DeadlinePassed /\ ElectionRowFree =>
              bulletin_log' = bulletin_log /\ election_lock' = NoRequest
         /\ \A c \in Credentials :
              SessionsOver(c) /\ CredentialRowFree(c) =>
                /\ c \in is_used' => c \in is_used
                /\ credential_lock'[c] = NoRequest
<1>1. ASSUME NEW r \in Requests, SubmitCommit(r)
      PROVE  /\ election_lock = r /\ election_lock # NoRequest
             /\ \A c \in Credentials :
                  CredentialRowFree(c) /\ c \in is_used' => c \in is_used
  <2>1. pc[r] = "Commit" /\ CheckedStaysTrue(r)
    BY <1>1 DEF SubmitCommit, At, LockDiscipline
  <2>2. election_lock = r /\ election_lock # NoRequest
    BY <2>1, AbsentAssumption DEF CheckedStaysTrue, Locked
  <2>3. \A c \in Credentials :
          local[r].credential = c => ~CredentialRowFree(c)
    BY <2>1, AbsentAssumption
    DEF CheckedStaysTrue, Holding, Locked, CredentialRowFree
  <2>. QED
    BY <1>1, <2>2, <2>3 DEF SubmitCommit, CommitBallot
<1>2. bulletin_log' # bulletin_log => Begun
  BY <1>1, LogStep DEF HeldInTime
<1>3. ASSUME DeadlinePassed, ElectionRowFree
      PROVE  bulletin_log' = bulletin_log /\ election_lock' = NoRequest
  <2>1. bulletin_log' = bulletin_log
    BY <1>1, <1>3, LogStep DEF ElectionRowFree
  <2>2. ASSUME NEW r \in Requests, SubmitLockElection(r) PROVE FALSE
    <3>1. now \in Int /\ election.end \in Int
      BY ClockAndRow DEF TypeInv, TypeOK, Elections
    <3>. QED
      BY <1>3, <2>2, <3>1
      DEF SubmitLockElection, BallotAccepted, ValidTiming, DeadlinePassed
  <2>. QED
    BY <1>3, <2>1, <2>2, LocksTaken DEF ElectionRowFree
<1>4. ASSUME NEW c \in Credentials, SessionsOver(c), CredentialRowFree(c)
      PROVE  /\ c \in is_used' => c \in is_used
             /\ credential_lock'[c] = NoRequest
  <2>1. c \in is_used' => c \in is_used
    BY <1>1, <1>4, LogStep
  <2>2. ASSUME NEW r \in Requests, SubmitLockCredential(r)
        PROVE  credential_lock'[c] = NoRequest
    <3>1. /\ local[r].token \in Tokens
          /\ Session(r) = voter_sessions[local[r].token]
          /\ ~(now > Session(r).expires)
          /\ credential_lock' =
               [credential_lock EXCEPT ![Session(r).credential] = r]
      BY <2>2, LocalTypes
      DEF SubmitLockCredential, HasSession, Session, SessionRefused,
          LockCredential, Locals
    <3>2. Session(r).credential # c
      BY <1>4, <3>1 DEF SessionsOver
    <3>. QED
      BY <1>4, <3>1, <3>2 DEF CredentialRowFree, TypeInv, TypeOK
  <2>. QED
    BY <1>4, <2>1, <2>2, LocksTaken DEF CredentialRowFree
<1>. QED
  BY <1>2, <1>3, <1>4

\* For any number of requests, however long they wait for a row and however
\* the clock moves meanwhile: no ballot is recorded before the election begins,
\* after its deadline none but the one that has the row by then, and nobody
\* spends a credential whose sessions were over before its row was taken.
THEOREM TimeLimitsKept ==
  Spec => TimeLimitsHold
<1>1. Init => HeldInTime
  BY DEF Init, DatabaseInit, HeldInTime
<1>2. TypeInv /\ LockDiscipline /\ HeldInTime /\ [Next]_vars =>
        [/\ bulletin_log' # bulletin_log => Begun
         /\ DeadlinePassed /\ ElectionRowFree =>
              /\ bulletin_log' = bulletin_log
              /\ election_lock' = NoRequest
         /\ \A c \in Credentials :
              SessionsOver(c) /\ CredentialRowFree(c) =>
                /\ c \in is_used' => c \in is_used
                /\ credential_lock'[c] = NoRequest]_vars
  BY StepInTime
<1>. QED
  BY <1>1, <1>2, InitTypes, NextTypes, InitLocks, NextLocks, NextInTime, PTL
  DEF Spec, TimeLimitsHold

-----------------------------------------------------------------------------
(* The server implements the ballot ledger                                 *)

\* One more row of the log is one more entry of the ledger.
LEMMA LedgerAppends ==
  ASSUME bulletin_log \in Seq(Entries), NEW e \in Entries
  PROVE  LedgerOf(Append(bulletin_log, e)) =
           Append(LedgerOf(bulletin_log), [ballot |-> e.ballot, by |-> e.by])
<1>. DEFINE Row == [ballot : Ballots, by : Credentials \cup {NoCredential}]
            n == Len(bulletin_log)
            log == Append(bulletin_log, e)
            x == [ballot |-> e.ballot, by |-> e.by]
<1>1. n \in Nat /\ Len(log) = n + 1 /\ log[n + 1] = e
        /\ \A i \in 1..n : log[i] = bulletin_log[i] /\ bulletin_log[i] \in Entries
  OBVIOUS
<1>2. x \in Row
  BY DEF Entries
<1>3. LedgerOf(bulletin_log) \in Seq(Row) /\ Len(LedgerOf(bulletin_log)) = n
  <2>1. LedgerOf(bulletin_log) \in [1..n -> Row]
    BY <1>1 DEF LedgerOf, Entries
  <2>. HIDE DEF n, Row
  <2>. QED
    BY <1>1, <2>1
<1>4. DOMAIN LedgerOf(log) = 1..n + 1
  BY <1>1 DEF LedgerOf
<1>5. DOMAIN Append(LedgerOf(bulletin_log), x) = 1..n + 1
  BY <1>2, <1>3
<1>6. ASSUME NEW i \in 1..n + 1
      PROVE  LedgerOf(log)[i] = Append(LedgerOf(bulletin_log), x)[i]
  <2>1. CASE i = n + 1
    BY <1>1, <1>2, <1>3, <2>1 DEF LedgerOf
  <2>2. CASE i \in 1..n
    <3>1. LedgerOf(log)[i] = LedgerOf(bulletin_log)[i]
      BY <1>1, <2>2 DEF LedgerOf
    <3>2. Append(LedgerOf(bulletin_log), x)[i] = LedgerOf(bulletin_log)[i]
      BY <1>2, <1>3, <2>2
    <3>. QED
      BY <3>1, <3>2
  <2>3. i \in 1..n \/ i = n + 1
    BY <1>1, <1>6
  <2>. QED
    BY <2>1, <2>2, <2>3
<1>. QED
  BY <1>4, <1>5, <1>6 DEF LedgerOf

\* Every step of the server is a step of the ledger or leaves it unchanged.
LEMMA LedgerStep ==
  TypeInv /\ LockDiscipline /\ [Next]_vars
    => [Ledger!Next]_<<election.phase = "Voting", LedgerOf(bulletin_log), is_used>>
<1>. SUFFICES ASSUME TypeInv, LockDiscipline, [Next]_vars
              PROVE  Ledger!Next
  OBVIOUS
<1>1. CASE UNCHANGED <<bulletin_log, is_used>>
  <2>1. Ledger!Administer
    BY <1>1 DEF Ledger!Administer
  <2>. QED
    BY <2>1 DEF Ledger!Next
<1>2. ASSUME NEW r \in Requests, SubmitCommit(r) PROVE Ledger!Next
  <2>. DEFINE b == NewEntry(r).ballot
              c == NewEntry(r).by
  <2>1. b \in Ballots /\ c \in Credentials \cup {NoCredential}
    BY <1>2, CommitAppends DEF Entries
  <2>2. Ledger!Fresh(b)
    <3>1. DOMAIN LedgerOf(bulletin_log) = 1..Len(bulletin_log)
      BY DEF LedgerOf
    <3>2. \A i \in 1..Len(bulletin_log) :
            LedgerOf(bulletin_log)[i].ballot = bulletin_log[i].ballot
      BY DEF LedgerOf
    <3>3. \A i \in 1..Len(bulletin_log) :
            bulletin_log[i].ballot.nullifier # b.nullifier
      BY <1>2, CommitAppends DEF NullifierRecorded
    <3>. QED
      BY <3>1, <3>2, <3>3 DEF Ledger!Fresh
  <2>3. election.phase = "Voting" /\ election' = election
    BY <1>2, CommitAppends DEF SubmitCommit
  <2>4. LedgerOf(bulletin_log)' =
          Append(LedgerOf(bulletin_log), [ballot |-> b, by |-> c])
    BY <1>2, CommitAppends, LedgerAppends DEF TypeInv, TypeOK
  <2>5. Ledger!Record(b, c)
    BY <2>2, <2>3, <2>4 DEF Ledger!Record
  <2>6. CASE c = NoCredential
    <3>1. Ledger!CastAnonymously(b)
      BY <1>2, <2>5, <2>6, CommitAppends DEF Ledger!CastAnonymously
    <3>. QED
      BY <2>1, <3>1 DEF Ledger!Next
  <2>7. CASE c # NoCredential
    <3>1. Ledger!CastWithCredential(b, c)
      BY <1>2, <2>5, <2>7, CommitAppends DEF Ledger!CastWithCredential
    <3>. QED
      BY <2>1, <2>7, <3>1 DEF Ledger!Next
  <2>. QED
    BY <2>6, <2>7
<1>. QED
  BY <1>1, <1>2, LogStep

\* The server's submissions implement the abstract ledger: the log only
\* grows, one fresh ballot at a time and only while voting is open, and a
\* credential is spent exactly in the step that records its ballot.
THEOREM ServerImplementsLedger ==
  Spec => LedgerImplemented
<1>1. Init => Ledger!Init
  <2>. SUFFICES ASSUME Init PROVE Ledger!Init
    OBVIOUS
  <2>1. ~(election.phase = "Voting") /\ is_used = {}
    BY DEF Init, DatabaseInit, NoElection
  <2>2. LedgerOf(bulletin_log) = << >>
    BY DEF Init, DatabaseInit, LedgerOf
  <2>. QED
    BY <2>1, <2>2 DEF Ledger!Init
<1>. QED
  BY <1>1, InitTypes, NextTypes, InitLocks, NextLocks, LedgerStep, PTL
  DEF Spec, LedgerImplemented, Ledger!Spec

=============================================================================
