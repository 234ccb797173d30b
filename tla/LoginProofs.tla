---------------------------- MODULE LoginProofs ----------------------------
(***************************************************************************)
(* Proofs about the lockout of voter_login: how far concurrent logins can  *)
(* pass the limit of failed attempts.                                      *)
(***************************************************************************)
EXTENDS ServerProofs

\* The logins that passed the check of the limit and may still record a
\* failure.
MayFail == {r \in Requests : pc[r] \in {"Lookup", "RecordFailure"}}

\* Each failure recorded after the limit was reached was in flight when it
\* was reached: the rows in the window and the logins in flight are bounded
\* together.
LoginInv ==
  RecentFailures + Cardinality(MayFail) < FailureLimit + Cardinality(Requests)

-----------------------------------------------------------------------------
(* Counting                                                                *)

\* Finitely many failures have been recorded.
LEMMA RowsFinite ==
  ASSUME TypeInv
  PROVE  IsFiniteSet(InWindow) /\ RecentFailures \in Nat
<1>. DEFINE rowsAt[t \in 0..MaxTime] == {t} \X (1..failed_logins[t])
            groups == {{t} \X (1..failed_logins[t]) : t \in 0..MaxTime}
<1>1. ASSUME NEW t \in 0..MaxTime
      PROVE  IsFiniteSet({t} \X (1..failed_logins[t]))
  <2>. DEFINE n == failed_logins[t]
  <2>1. 1 \in Int /\ n \in Int
    BY DEF TypeInv, TypeOK
  <2>. HIDE DEF n
  <2>2. IsFiniteSet(1..n) /\ IsFiniteSet({t})
    BY <2>1, FS_Interval, FS_Singleton
  <2>3. IsFiniteSet({t} \X (1..n))
    BY <2>2, FS_Product
  <2>. QED
    BY <2>3 DEF n
<1>2. IsFiniteSet(groups)
  <2>1. IsFiniteSet(0..MaxTime)
    BY FS_Interval, MaxTimeAssumption
  <2>2. rowsAt \in Surjection(0..MaxTime, groups)
    BY DEF Surjection
  <2>. HIDE DEF rowsAt, groups
  <2>. QED
    BY <2>1, <2>2, FS_Surjection
<1>3. IsFiniteSet(FailureRows)
  <2>1. \A S \in groups : IsFiniteSet(S)
    BY <1>1
  <2>2. FailureRows = UNION groups
    BY DEF FailureRows
  <2>. HIDE DEF groups
  <2>. QED
    BY <1>2, <2>1, <2>2, FS_UNION
<1>4. InWindow \in SUBSET FailureRows
  BY DEF InWindow
<1>5. IsFiniteSet(InWindow)
  BY <1>3, <1>4, FS_Subset
<1>. QED
  BY <1>5, FS_CardinalityType DEF RecentFailures

\* No more logins are in flight than requests.
LEMMA MayFailFinite ==
  /\ IsFiniteSet(MayFail)
  /\ Cardinality(MayFail) \in Nat
  /\ Cardinality(Requests) \in Nat
  /\ Cardinality(MayFail) <= Cardinality(Requests)
<1>1. MayFail \in SUBSET Requests
  BY DEF MayFail
<1>. QED
  BY <1>1, RequestsAssumption, FS_Subset, FS_CardinalityType

\* Later the window has left failures behind.
LEMMA WindowShrinks ==
  ASSUME TypeInv, failed_logins' = failed_logins, now' \in Int, now <= now'
  PROVE  RecentFailures' \in Nat /\ RecentFailures' <= RecentFailures
<1>1. InWindow' \in SUBSET InWindow
  <2>. SUFFICES ASSUME NEW row \in InWindow' PROVE row \in InWindow
    OBVIOUS
  <2>1. PICK t \in 0..MaxTime : row \in {t} \X (1..failed_logins[t])
    BY DEF InWindow, FailureRows
  <2>2. row \in FailureRows
    BY <2>1 DEF FailureRows
  <2>3. row[1] = t /\ t >= now' - FailureWindow
    BY <2>1 DEF InWindow
  <2>4. t >= now - FailureWindow
    <3>1. now \in Int /\ FailureWindow \in Int /\ t \in Int
      BY LoginAssumption, MaxTimeAssumption DEF TypeInv, TypeOK
    <3>2. \A a, b, c, d \in Int : a <= b /\ c >= b - d => c >= a - d
      OBVIOUS
    <3>. QED
      BY <2>3, <3>1, <3>2, Zenon
  <2>. QED
    BY <2>2, <2>3, <2>4 DEF InWindow
<1>2. IsFiniteSet(InWindow') /\ Cardinality(InWindow') <= Cardinality(InWindow)
  BY <1>1, RowsFinite, FS_Subset
<1>. QED
  BY <1>2, FS_CardinalityType DEF RecentFailures

\* A step that records no failure and lets no login past the check
\* preserves the bound.
LEMMA Harmless ==
  ASSUME TypeInv, LoginInv, failed_logins' = failed_logins,
         now' \in Int, now <= now', MayFail' \subseteq MayFail
  PROVE  LoginInv'
<1>1. MayFail' \in SUBSET MayFail
  OBVIOUS
<1>2. /\ Cardinality(MayFail') \in Nat
      /\ Cardinality(MayFail') <= Cardinality(MayFail)
  BY <1>1, MayFailFinite, FS_Subset, FS_CardinalityType
<1>. QED
  BY <1>2, MayFailFinite, RowsFinite, WindowShrinks, LoginAssumption
  DEF LoginInv

-----------------------------------------------------------------------------
(* Steps                                                                   *)

\* What every step leaves alone that is no step of a login.
NoLogin ==
  /\ failed_logins' = failed_logins
  /\ now' \in Int /\ now <= now'
  /\ MayFail' \subseteq MayFail

\* A request that goes on with another statement than those of a failing
\* login.
LEMMA GoesElsewhere ==
  ASSUME TypeInv, NEW r \in Requests, NEW l, l \notin {"Lookup", "RecordFailure"},
         Goto(r, l), UNCHANGED <<now, failed_logins>>
  PROVE  NoLogin
<1>1. MayFail' \subseteq MayFail
  BY DEF TypeInv, TypeOK, Goto, MayFail
<1>. QED
  BY <1>1, MaxTimeAssumption DEF NoLogin, TypeInv, TypeOK

\* Submissions, administrators and trustees record no failed login.
LEMMA OthersHarmless ==
  ASSUME TypeInv, NEW r \in Requests,
         \/ SubmitStep(r) \/ SubmitArrives(r)
         \/ AdminStep(r) \/ AdminArrives(r)
         \/ FinalizeStep(r) \/ FinalizeArrives(r)
         \/ RequestDropped(r)
  PROVE  NoLogin
<1>. DEFINE Elsewhere ==
       \E l \in Labels \ {"Lookup", "RecordFailure"} : Goto(r, l)
<1>1. ASSUME Elsewhere, UNCHANGED <<now, failed_logins>> PROVE NoLogin
  BY <1>1, GoesElsewhere
<1>2. "Idle" \in Labels \ {"Lookup", "RecordFailure"}
  BY DEF Labels
<1>3. ASSUME SubmitStep(r) \/ SubmitArrives(r)
      PROVE  Elsewhere /\ UNCHANGED <<now, failed_logins>>
  <2>1. {"Session", "Election", "Consume", "ReadHead", "Insert", "Commit",
         "Receipt", "Idle"} \subseteq Labels \ {"Lookup", "RecordFailure"}
    BY DEF Labels, InTransaction, Locked
  <2>. HIDE DEF Elsewhere
  <2>2. ASSUME NEW l \in {"Session", "Election", "Consume", "ReadHead",
                          "Insert", "Commit", "Receipt", "Idle"}, Goto(r, l)
        PROVE  Elsewhere
    BY <2>1, <2>2 DEF Elsewhere
  <2>3. CASE SubmitArrives(r)
    BY <2>2, <2>3 DEF SubmitArrives, SubmitBegin, tables
  <2>4. CASE SubmitAnonymous(r) \/ SubmitLockCredential(r)
               \/ SubmitSessionRefused(r)
    BY <2>2, <2>4
    DEF SubmitAnonymous, SubmitLockCredential, SubmitSessionRefused, Finish,
        tables
  <2>5. CASE SubmitLockElection(r) \/ SubmitBallotRefused(r) \/ SubmitConsume(r)
    BY <2>2, <2>5
    DEF SubmitLockElection, SubmitBallotRefused, SubmitConsume, Finish, tables
  <2>6. CASE SubmitReadHead(r) \/ SubmitInsert(r) \/ SubmitDuplicate(r)
    BY <2>2, <2>6
    DEF SubmitReadHead, SubmitInsert, SubmitDuplicate, Finish, tables
  <2>7. CASE SubmitCommit(r) \/ SubmitReceipt(r)
    BY <2>2, <2>7 DEF SubmitCommit, SubmitReceipt, Finish, tables
  <2>. QED
    BY <1>3, <2>3, <2>4, <2>5, <2>6, <2>7 DEF SubmitStep
<1>4. ASSUME AdminStep(r) \/ AdminArrives(r)
      PROVE  Elsewhere /\ UNCHANGED <<now, failed_logins>>
  <2>1. {"IssueInsert", "OpenRoll", "OpenUpdate", "Idle"}
          \subseteq Labels \ {"Lookup", "RecordFailure"}
    BY DEF Labels, AdminSteps
  <2>. QED
    BY <1>4, <2>1
    DEF AdminStep, AdminArrives, IssueRead, IssueInsert, OpenRead, OpenRoll,
        OpenUpdate, Finish, tables
<1>5. ASSUME FinalizeStep(r) \/ FinalizeArrives(r)
      PROVE  Elsewhere /\ UNCHANGED <<now, failed_logins>>
  <2>1. {"FinalizeSum", "FinalizeUpdate", "Idle"}
          \subseteq Labels \ {"Lookup", "RecordFailure"}
    BY DEF Labels, FinalizeSteps
  <2>. QED
    BY <1>5, <2>1
    DEF FinalizeStep, FinalizeArrives, FinalizeRead, FinalizeSum,
        FinalizeUpdate, Finish, tables
<1>6. ASSUME RequestDropped(r)
      PROVE  Elsewhere /\ UNCHANGED <<now, failed_logins>>
  BY <1>2, <1>6 DEF RequestDropped, Finish, tables
<1>. QED
  BY <1>1, <1>3, <1>4, <1>5, <1>6

\* Every step of a login preserves the bound: one that passes the check
\* starts below the limit, and one that records its failure moves from the
\* flight to the table.
LEMMA LoginKeepsBound ==
  ASSUME TypeInv, LoginInv, NEW r \in Requests,
         LoginStep(r) \/ LoginArrives(r)
  PROVE  LoginInv'
<1>1. ASSUME NEW c \in Credentials \cup {NoCredential}, LoginBegin(r, c)
      PROVE  LoginInv'
  <2>1. UNCHANGED <<now, failed_logins>> /\ now' \in Int /\ now <= now'
    BY <1>1, MaxTimeAssumption DEF LoginBegin, tables, TypeInv, TypeOK
  <2>2. RecentFailures < FailureLimit
    BY <1>1, RowsFinite, LoginAssumption DEF LoginBegin, LockedOut
  <2>3. MayFail' \in SUBSET Requests
    BY DEF MayFail
  <2>4. Cardinality(MayFail') \in Nat
          /\ Cardinality(MayFail') <= Cardinality(Requests)
    BY <2>3, RequestsAssumption, FS_Subset, FS_CardinalityType
  <2>5. RecentFailures' \in Nat /\ RecentFailures' <= RecentFailures
    BY <2>1, WindowShrinks
  <2>. QED
    BY <2>2, <2>4, <2>5, RowsFinite, MayFailFinite, LoginAssumption
    DEF LoginInv
<1>2. CASE LoginLookup(r)
  <2>1. /\ pc[r] = "Lookup"
        /\ UNCHANGED <<now, failed_logins>>
        /\ \E l : pc' = [pc EXCEPT ![r] = l]
    BY <1>2 DEF LoginLookup, At, Goto, tables
  <2>2. MayFail' \subseteq MayFail
    BY <2>1 DEF MayFail, TypeInv, TypeOK
  <2>. QED
    BY <2>1, <2>2, Harmless, MaxTimeAssumption DEF TypeInv, TypeOK
<1>3. CASE LoginRecordFailure(r)
  <2>. DEFINE row == <<now, failed_logins[now] + 1>>
  <2>1. /\ now' = now /\ now \in 0..MaxTime
        /\ failed_logins \in [0..MaxTime -> Nat]
        /\ failed_logins' = [failed_logins EXCEPT ![now] = @ + 1]
    BY <1>3 DEF LoginRecordFailure, TypeInv, TypeOK
  <2>2. InWindow' = InWindow \cup {row}
    <3>1. FailureRows' = FailureRows \cup {row}
      <4>1. ASSUME NEW x \in FailureRows' PROVE x \in FailureRows \cup {row}
        <5>1. PICK t \in 0..MaxTime : x \in {t} \X (1..failed_logins'[t])
          BY <4>1 DEF FailureRows
        <5>2. x = <<t, x[2]>> /\ x[2] \in 1..failed_logins'[t]
          BY <5>1
        <5>3. x[2] \in 1..failed_logins[t] \/ (t = now /\ x[2] = failed_logins[now] + 1)
          BY <2>1, <5>2
        <5>4. CASE x[2] \in 1..failed_logins[t]
          BY <5>2, <5>4 DEF FailureRows
        <5>. QED
          BY <5>2, <5>3, <5>4
      <4>2. ASSUME NEW x \in FailureRows PROVE x \in FailureRows'
        <5>1. PICK t \in 0..MaxTime : x \in {t} \X (1..failed_logins[t])
          BY <4>2 DEF FailureRows
        <5>2. failed_logins[t] \in Nat
                /\ failed_logins'[t] \in {failed_logins[t], failed_logins[t] + 1}
          BY <2>1
        <5>3. x \in {t} \X (1..failed_logins'[t])
          BY <5>1, <5>2
        <5>. QED
          BY <5>3 DEF FailureRows
      <4>3. row \in FailureRows'
        <5>1. failed_logins'[now] = failed_logins[now] + 1
                /\ failed_logins[now] \in Nat
          BY <2>1
        <5>2. row \in {now} \X (1..failed_logins'[now])
          BY <5>1
        <5>. QED
          BY <2>1, <5>2 DEF FailureRows
      <4>. QED
        BY <4>1, <4>2, <4>3
    <3>2. row[1] >= now - FailureWindow
      BY <2>1, LoginAssumption, MaxTimeAssumption
    <3>. HIDE DEF row
    <3>. QED
      BY <2>1, <3>1, <3>2 DEF InWindow
  <2>3. RecentFailures' \in Nat /\ RecentFailures' <= RecentFailures + 1
    <3>. HIDE DEF row
    <3>. QED
      BY <2>2, RowsFinite, FS_AddElement, FS_CardinalityType DEF RecentFailures
  <2>4. r \in MayFail /\ MayFail' = MayFail \ {r}
    BY <1>3 DEF LoginRecordFailure, At, Finish, Goto, MayFail, TypeInv, TypeOK
  <2>5. Cardinality(MayFail') = Cardinality(MayFail) - 1
    BY <2>4, MayFailFinite, FS_RemoveElement
  <2>. QED
    BY <2>3, <2>5, RowsFinite, MayFailFinite, LoginAssumption DEF LoginInv
<1>4. CASE LoginPhaseOpen(r)
  BY <1>4, GoesElsewhere, Harmless DEF LoginPhaseOpen, tables, NoLogin
<1>5. CASE LoginPhaseClosed(r) \/ LoginStore(r)
  BY <1>5, GoesElsewhere, Harmless
  DEF LoginPhaseClosed, LoginStore, Finish, tables, NoLogin
<1>. QED
  BY <1>1, <1>2, <1>3, <1>4, <1>5 DEF LoginStep, LoginArrives

\* Every step of the server preserves the bound.
LEMMA NextKeepsBound ==
  TypeInv /\ LoginInv /\ [Next]_vars => LoginInv'
<1>. SUFFICES ASSUME TypeInv, LoginInv, [Next]_vars PROVE LoginInv'
  OBVIOUS
<1>1. ASSUME NoLogin PROVE LoginInv'
  BY <1>1, Harmless DEF NoLogin
<1>2. ASSUME NEW r \in Requests, Step(r) \/ Arrives(r) \/ RequestDropped(r)
      PROVE  LoginInv'
  BY <1>1, <1>2, OthersHarmless, LoginKeepsBound DEF Step, Arrives
<1>3. now \in Int /\ now <= now
  BY MaxTimeAssumption DEF TypeInv, TypeOK
<1>4. ASSUME NEW pk \in PublicKeys, NEW w \in Windows, CreateElection(pk, w)
      PROVE  NoLogin
  BY <1>3, <1>4 DEF CreateElection, requests, NoLogin, MayFail
<1>5. CASE CloseVoting
  BY <1>1, <1>3, <1>5 DEF CloseVoting, requests, NoLogin, MayFail
<1>6. CASE Tick
  BY <1>1, <1>3, <1>6 DEF Tick, tables, requests, NoLogin, MayFail
<1>7. CASE Restart
  <2>1. MayFail' = {}
    BY <1>7 DEF Restart, MayFail
  <2>. QED
    BY <1>1, <1>3, <1>7, <2>1 DEF Restart, tables, NoLogin
<1>8. CASE UNCHANGED vars
  BY <1>1, <1>3, <1>8 DEF vars, tables, requests, NoLogin, MayFail
<1>. QED
  BY <1>1, <1>2, <1>4, <1>5, <1>6, <1>7, <1>8 DEF Next

\* No failure is recorded and no login in flight when the server starts.
LEMMA InitBound ==
  Init => LoginInv
<1>. SUFFICES ASSUME Init PROVE LoginInv
  OBVIOUS
<1>1. InWindow = {} /\ MayFail = {}
  BY DEF Init, DatabaseInit, InWindow, FailureRows, MayFail
<1>2. Cardinality(Requests) \in Nat /\ Cardinality(Requests) # 0
  BY RequestsAssumption, FS_CardinalityType, FS_EmptySet
<1>. QED
  BY <1>1, <1>2, FS_EmptySet, LoginAssumption DEF LoginInv, RecentFailures

-----------------------------------------------------------------------------
(* Theorems                                                                *)

\* However many logins run at once, and whatever the limit and the window,
\* the failures in a window exceed the limit by less than the number of
\* requests the server handles at once.
THEOREM FailuresStayBounded ==
  Spec => []FailuresBounded
<1>1. TypeInv /\ LoginInv => FailuresBounded
  BY RowsFinite, MayFailFinite, LoginAssumption DEF LoginInv, FailuresBounded
<1>. QED
  BY <1>1, InitTypes, NextTypes, InitBound, NextKeepsBound, PTL DEF Spec

\* One request at a time keeps the documented limit: what breaks it is the
\* logins that pass the check together.
THEOREM OneLoginKeepsLimit ==
  ASSUME Cardinality(Requests) = 1
  PROVE  Spec => []FailuresWithinLimit
<1>1. TypeInv /\ LoginInv => FailuresWithinLimit
  BY RowsFinite, MayFailFinite, LoginAssumption
  DEF LoginInv, FailuresWithinLimit
<1>. QED
  BY <1>1, InitTypes, NextTypes, InitBound, NextKeepsBound, PTL DEF Spec

=============================================================================
