---------------------------- MODULE ServerProofs ----------------------------
(***************************************************************************)
(* Proofs about ElectionServer for every value of its constants: its type  *)
(* invariant, and the safety of its ballots.                               *)
(***************************************************************************)
EXTENDS ServerProperties, FiniteSetTheorems, TLAPS

-----------------------------------------------------------------------------
(* Types                                                                   *)

\* What the locals x of a request hold at statement l.
Fits(l, x) ==
  /\ l = "Idle" => x = Blank
  /\ l = "Session" => x.credential = NoCredential
  /\ l \in InTransaction \cup {"Receipt"} => x.ballot \in Ballots
  /\ l \in {"Phase", "Store"} => x.credential \in Credentials
  /\ l = "Store" => x.token \in Tokens

\* The inductive form of TypeOK: the locals fit their statement, a trustee's
\* sum covers rows of the log, and each session belongs to a credential.
TypeInv ==
  /\ TypeOK
  /\ \A r \in Requests :
       Fits(pc[r], local[r]) /\ local[r].fetched <= Len(bulletin_log)
  /\ \A t \in Tokens :
       voter_sessions[t] # NoSession =>
         voter_sessions[t].credential \in Credentials

\* The locals of a request that is not being handled.
LEMMA BlankType ==
  /\ Blank \in Locals
  /\ Blank.fetched = 0
  /\ Fits("Idle", Blank)
BY DEF Blank, Locals, Hashes, GENESIS_HASH, Fits, InTransaction, Locked

\* What the invariant says of one request.
LEMMA LocalTypes ==
  ASSUME TypeInv, NEW r \in Requests
  PROVE  /\ local[r] \in Locals
         /\ local[r].fetched <= Len(bulletin_log)
         /\ Fits(pc[r], local[r])
         /\ pc[r] \in Labels
         /\ local = [local EXCEPT ![r] = local[r]]
BY DEF TypeInv, TypeOK

\* The head of the log is a hash.
LEMMA HeadHashType ==
  ASSUME bulletin_log \in Seq(Entries)
  PROVE  HeadHash \in Hashes
<1>1. CASE bulletin_log = << >>
  BY <1>1 DEF HeadHash, Hashes, GENESIS_HASH
<1>2. CASE bulletin_log # << >>
  <2>1. bulletin_log[Len(bulletin_log)] \in Entries
    BY <1>2
  <2>. QED
    BY <1>2, <2>1 DEF HeadHash, Entries
<1>. QED
  BY <1>1, <1>2

\* COMMIT and ROLLBACK leave the locks typed.
LEMMA ReleaseLocksType ==
  ASSUME TypeInv, NEW r \in Requests, ReleaseLocks(r)
  PROVE  /\ election_lock' \in Requests \cup {NoRequest}
         /\ credential_lock' \in [Credentials -> Requests \cup {NoRequest}]
BY DEF TypeInv, TypeOK, ReleaseLocks

\* A request that moves to statement l with locals x leaves the others alone;
\* the log may have grown.
LEMMA MoveType ==
  ASSUME TypeInv, NEW r \in Requests,
         NEW l \in Labels, Goto(r, l),
         NEW x \in Locals, local' = [local EXCEPT ![r] = x],
         Fits(l, x), x.fetched <= Len(bulletin_log),
         bulletin_log' \in Seq(Entries),
         Len(bulletin_log) <= Len(bulletin_log')
  PROVE  /\ pc' \in [Requests -> Labels]
         /\ local' \in [Requests -> Locals]
         /\ \A q \in Requests :
              Fits(pc'[q], local'[q]) /\ local'[q].fetched <= Len(bulletin_log')
<1>1. /\ pc' \in [Requests -> Labels]
      /\ local' \in [Requests -> Locals]
      /\ pc'[r] = l /\ local'[r] = x
      /\ \A q \in Requests \ {r} : pc'[q] = pc[q] /\ local'[q] = local[q]
  BY DEF TypeInv, TypeOK, Goto
<1>2. Len(bulletin_log) \in Nat /\ Len(bulletin_log') \in Nat
  BY DEF TypeInv, TypeOK
<1>3. \A q \in Requests : local[q].fetched \in Nat
  BY DEF TypeInv, TypeOK, Locals
<1>4. x.fetched <= Len(bulletin_log')
  BY <1>2 DEF Locals
<1>5. ASSUME NEW q \in Requests, q # r
      PROVE  Fits(pc'[q], local'[q]) /\ local'[q].fetched <= Len(bulletin_log')
  <2>1. Fits(pc[q], local[q]) /\ local[q].fetched <= Len(bulletin_log)
    BY LocalTypes
  <2>. QED
    BY <1>1, <1>2, <1>3, <1>5, <2>1
<1>. QED
  BY <1>1, <1>4, <1>5

\* A request that is answered leaves the others alone, whatever table it
\* wrote besides the log.
LEMMA FinishType ==
  ASSUME TypeInv, NEW r \in Requests, Finish(r), bulletin_log' = bulletin_log
  PROVE  /\ pc' \in [Requests -> Labels]
         /\ local' \in [Requests -> Locals]
         /\ \A q \in Requests :
              Fits(pc'[q], local'[q]) /\ local'[q].fetched <= Len(bulletin_log')
<1>1. /\ "Idle" \in Labels /\ Goto(r, "Idle")
      /\ local' = [local EXCEPT ![r] = Blank]
  BY DEF Labels, Finish
<1>2. /\ Blank.fetched <= Len(bulletin_log)
      /\ bulletin_log' \in Seq(Entries)
      /\ Len(bulletin_log) <= Len(bulletin_log')
  BY BlankType DEF TypeInv, TypeOK
<1>. QED
  BY <1>1, <1>2, BlankType, MoveType

\* A request that moves on, locking or releasing rows and writing no table,
\* preserves the invariant.
LEMMA QuietMove ==
  ASSUME TypeInv, NEW r \in Requests,
         NEW l \in Labels, Goto(r, l),
         NEW x \in Locals, local' = [local EXCEPT ![r] = x],
         Fits(l, x), x.fetched <= Len(bulletin_log),
         UNCHANGED <<now, tables, created>>,
         election_lock' \in Requests \cup {NoRequest},
         credential_lock' \in [Credentials -> Requests \cup {NoRequest}]
  PROVE  TypeInv'
<1>1. bulletin_log' = bulletin_log /\ Len(bulletin_log) \in Nat
        /\ bulletin_log \in Seq(Entries)
  BY DEF tables, TypeInv, TypeOK
<1>2. bulletin_log' \in Seq(Entries) /\ Len(bulletin_log) <= Len(bulletin_log')
  BY <1>1
<1>3. /\ pc' \in [Requests -> Labels]
      /\ local' \in [Requests -> Locals]
      /\ \A q \in Requests :
           Fits(pc'[q], local'[q]) /\ local'[q].fetched <= Len(bulletin_log')
  BY <1>2, MoveType
<1>. QED
  BY <1>3 DEF TypeInv, TypeOK, tables

\* The same, for a request that moves on and changes no lock either.
LEMMA LocalMove ==
  ASSUME TypeInv, NEW r \in Requests,
         NEW l \in Labels, Goto(r, l),
         NEW x \in Locals, local' = [local EXCEPT ![r] = x],
         Fits(l, x), x.fetched <= Len(bulletin_log),
         UNCHANGED <<now, tables, locks, created>>
  PROVE  TypeInv'
<1>1. /\ election_lock' \in Requests \cup {NoRequest}
      /\ credential_lock' \in [Credentials -> Requests \cup {NoRequest}]
  BY DEF TypeInv, TypeOK, locks
<1>. QED
  BY <1>1, QuietMove

\* The same, for a request that is answered.
LEMMA FinishMove ==
  ASSUME TypeInv, NEW r \in Requests, Finish(r),
         UNCHANGED <<now, tables, created>>,
         election_lock' \in Requests \cup {NoRequest},
         credential_lock' \in [Credentials -> Requests \cup {NoRequest}]
  PROVE  TypeInv'
<1>1. /\ "Idle" \in Labels /\ Goto(r, "Idle")
      /\ local' = [local EXCEPT ![r] = Blank]
      /\ Blank.fetched <= Len(bulletin_log)
  BY BlankType DEF Labels, Finish, TypeInv, TypeOK
<1>. QED
  BY <1>1, BlankType, QuietMove

-----------------------------------------------------------------------------

\* Every step of a submission preserves TypeInv.
LEMMA SubmitTypes ==
  ASSUME TypeInv, NEW r \in Requests, SubmitStep(r) \/ SubmitArrives(r)
  PROVE  TypeInv'
<1>1. ASSUME NEW t \in Tokens \cup {NoToken}, NEW b \in Ballots,
             SubmitBegin(r, t, b)
      PROVE  TypeInv'
  <2>. DEFINE x == [local[r] EXCEPT !.token = t, !.ballot = b]
  <2>1. x \in Locals /\ local' = [local EXCEPT ![r] = x]
          /\ x.fetched = local[r].fetched
    BY <1>1, LocalTypes DEF SubmitBegin, Locals
  <2>2. Fits("Session", x)
    BY <1>1, LocalTypes
    DEF SubmitBegin, At, Fits, Blank, Locals, InTransaction, Locked
  <2>3. "Session" \in Labels /\ Goto(r, "Session")
          /\ UNCHANGED <<now, tables, locks, created>>
    BY <1>1 DEF SubmitBegin, Labels, InTransaction
  <2>. HIDE DEF x
  <2>. QED
    BY <2>1, <2>2, <2>3, LocalTypes, LocalMove
<1>2. CASE SubmitAnonymous(r)
  <2>1. "Election" \in Labels /\ Fits("Election", local[r])
    BY <1>2, LocalTypes
    DEF SubmitAnonymous, At, Fits, Labels, InTransaction, Locked
  <2>. QED
    BY <1>2, <2>1, LocalTypes, LocalMove DEF SubmitAnonymous
<1>3. CASE SubmitLockCredential(r)
  <2>. DEFINE c == Session(r).credential
              x == [local[r] EXCEPT !.credential = c]
  <2>1. c \in Credentials
    BY <1>3, LocalTypes
    DEF SubmitLockCredential, HasSession, Session, TypeInv, TypeOK, Locals
  <2>2. x \in Locals /\ local' = [local EXCEPT ![r] = x]
          /\ x.fetched = local[r].fetched
    BY <1>3, <2>1, LocalTypes DEF SubmitLockCredential, Locals
  <2>3. Fits("Election", x) /\ "Election" \in Labels
    BY <1>3, LocalTypes
    DEF SubmitLockCredential, At, Fits, Locals, InTransaction, Locked, Labels
  <2>4. /\ election_lock' \in Requests \cup {NoRequest}
        /\ credential_lock' \in [Credentials -> Requests \cup {NoRequest}]
    BY <1>3 DEF SubmitLockCredential, LockCredential, TypeInv, TypeOK
  <2>5. Goto(r, "Election") /\ UNCHANGED <<now, tables, created>>
    BY <1>3 DEF SubmitLockCredential
  <2>. HIDE DEF x
  <2>. QED
    BY <2>2, <2>3, <2>4, <2>5, LocalTypes, QuietMove
<1>4. CASE SubmitSessionRefused(r)
  BY <1>4, FinishMove DEF SubmitSessionRefused, locks, TypeInv, TypeOK
<1>5. CASE SubmitLockElection(r)
  <2>1. PICK l \in {"ReadHead", "Consume"} : Goto(r, l)
    BY <1>5 DEF SubmitLockElection
  <2>2. l \in Labels /\ Fits(l, local[r])
    BY <1>5, LocalTypes
    DEF SubmitLockElection, At, Fits, Labels, InTransaction, Locked
  <2>3. /\ election_lock' \in Requests \cup {NoRequest}
        /\ credential_lock' \in [Credentials -> Requests \cup {NoRequest}]
    BY <1>5 DEF SubmitLockElection, LockElection, TypeInv, TypeOK
  <2>. QED
    BY <1>5, <2>1, <2>2, <2>3, LocalTypes, QuietMove DEF SubmitLockElection
<1>6. CASE SubmitBallotRefused(r)
  BY <1>6, ReleaseLocksType, FinishMove DEF SubmitBallotRefused
<1>7. CASE SubmitConsume(r)
  <2>1. "ReadHead" \in Labels /\ Fits("ReadHead", local[r])
    BY <1>7, LocalTypes DEF SubmitConsume, At, Fits, Labels, InTransaction, Locked
  <2>. QED
    BY <1>7, <2>1, LocalTypes, LocalMove DEF SubmitConsume
<1>8. CASE SubmitReadHead(r)
  <2>. DEFINE x == [local[r] EXCEPT !.prev_hash = HeadHash]
  <2>1. HeadHash \in Hashes
    BY HeadHashType DEF TypeInv, TypeOK
  <2>2. x \in Locals /\ local' = [local EXCEPT ![r] = x]
          /\ x.fetched = local[r].fetched
    BY <1>8, <2>1, LocalTypes DEF SubmitReadHead, Locals
  <2>3. Fits("Insert", x) /\ "Insert" \in Labels
    BY <1>8, LocalTypes
    DEF SubmitReadHead, At, Fits, Locals, InTransaction, Locked, Labels
  <2>4. Goto(r, "Insert") /\ UNCHANGED <<now, tables, locks, created>>
    BY <1>8 DEF SubmitReadHead
  <2>. HIDE DEF x
  <2>. QED
    BY <2>2, <2>3, <2>4, LocalTypes, LocalMove
<1>9. CASE SubmitInsert(r)
  <2>1. "Commit" \in Labels /\ Fits("Commit", local[r])
    BY <1>9, LocalTypes DEF SubmitInsert, At, Fits, Labels, InTransaction, Locked
  <2>. QED
    BY <1>9, <2>1, LocalTypes, LocalMove DEF SubmitInsert
<1>10. CASE SubmitDuplicate(r)
  BY <1>10, ReleaseLocksType, FinishMove DEF SubmitDuplicate
<1>11. CASE SubmitCommit(r)
  <2>1. "Receipt" \in Labels /\ Fits("Receipt", local[r])
    BY <1>11, LocalTypes DEF SubmitCommit, At, Fits, Labels, InTransaction, Locked
  <2>2. NewEntry(r) \in Entries
    <3>1. local[r].prev_hash \in Seq(Ballots) /\ local[r].ballot \in Ballots
            /\ local[r].credential \in Credentials \cup {NoCredential}
      BY <1>11, LocalTypes
      DEF SubmitCommit, At, Fits, Locals, Hashes, InTransaction, Locked
    <3>. QED
      BY <3>1 DEF NewEntry, Entry, Entries, EntryHash, Hashes
  <2>3. /\ bulletin_log' = Append(bulletin_log, NewEntry(r))
        /\ bulletin_log' \in Seq(Entries)
        /\ Len(bulletin_log) <= Len(bulletin_log')
    BY <1>11, <2>2 DEF SubmitCommit, CommitBallot, TypeInv, TypeOK
  <2>4. is_used' \in SUBSET Credentials
    BY <1>11, LocalTypes
    DEF SubmitCommit, CommitBallot, TypeInv, TypeOK, Locals
  <2>5. /\ pc' \in [Requests -> Labels]
        /\ local' \in [Requests -> Locals]
        /\ \A q \in Requests :
             Fits(pc'[q], local'[q]) /\ local'[q].fetched <= Len(bulletin_log')
    BY <1>11, <2>1, <2>3, LocalTypes, MoveType DEF SubmitCommit
  <2>6. /\ election_lock' \in Requests \cup {NoRequest}
        /\ credential_lock' \in [Credentials -> Requests \cup {NoRequest}]
    BY <1>11, ReleaseLocksType DEF SubmitCommit
  <2>. QED
    BY <1>11, <2>3, <2>4, <2>5, <2>6 DEF SubmitCommit, TypeInv, TypeOK
<1>12. CASE SubmitReceipt(r)
  BY <1>12, FinishMove DEF SubmitReceipt, locks, TypeInv, TypeOK
<1>. QED
  BY <1>1, <1>2, <1>3, <1>4, <1>5, <1>6, <1>7, <1>8, <1>9, <1>10, <1>11, <1>12
  DEF SubmitStep, SubmitArrives

\* Every step of a login preserves TypeInv.
LEMMA LoginTypes ==
  ASSUME TypeInv, NEW r \in Requests, LoginStep(r) \/ LoginArrives(r)
  PROVE  TypeInv'
<1>1. ASSUME NEW c \in Credentials \cup {NoCredential}, LoginBegin(r, c)
      PROVE  TypeInv'
  <2>. DEFINE x == [local[r] EXCEPT !.credential = c]
  <2>1. x \in Locals /\ local' = [local EXCEPT ![r] = x]
          /\ x.fetched = local[r].fetched
    BY <1>1, LocalTypes DEF LoginBegin, Locals
  <2>2. Fits("Lookup", x) /\ "Lookup" \in Labels
    BY DEF Fits, InTransaction, Locked, Labels, LoginSteps
  <2>3. Goto(r, "Lookup") /\ UNCHANGED <<now, tables, locks, created>>
    BY <1>1 DEF LoginBegin
  <2>. HIDE DEF x
  <2>. QED
    BY <2>1, <2>2, <2>3, LocalTypes, LocalMove
<1>2. CASE LoginLookup(r)
  <2>1. PICK l \in {"Phase", "RecordFailure"} :
          Goto(r, l) /\ (l = "Phase" => local[r].credential \in issued)
    BY <1>2 DEF LoginLookup
  <2>2. l \in Labels /\ Fits(l, local[r])
    BY <2>1 DEF Fits, InTransaction, Locked, Labels, LoginSteps, TypeInv, TypeOK
  <2>. QED
    BY <1>2, <2>1, <2>2, LocalTypes, LocalMove DEF LoginLookup
<1>3. CASE LoginRecordFailure(r)
  <2>1. failed_logins' \in [0..MaxTime -> Nat]
    BY <1>3 DEF LoginRecordFailure, TypeInv, TypeOK
  <2>2. /\ pc' \in [Requests -> Labels]
        /\ local' \in [Requests -> Locals]
        /\ \A q \in Requests :
             Fits(pc'[q], local'[q]) /\ local'[q].fetched <= Len(bulletin_log')
    BY <1>3, FinishType DEF LoginRecordFailure
  <2>. QED
    BY <1>3, <2>1, <2>2 DEF LoginRecordFailure, TypeInv, TypeOK, locks
<1>4. CASE LoginPhaseOpen(r)
  <2>1. PICK t \in FreshTokens :
          local' = [local EXCEPT ![r].token = t, ![r].expires = now + SessionTTL]
    BY <1>4 DEF LoginPhaseOpen
  <2>. DEFINE x == [local[r] EXCEPT !.token = t, !.expires = now + SessionTTL]
  <2>2. t \in Tokens /\ now + SessionTTL \in Int
    BY LoginAssumption DEF FreshTokens, TypeInv, TypeOK
  <2>3. x \in Locals /\ local' = [local EXCEPT ![r] = x]
          /\ x.fetched = local[r].fetched
    BY <2>1, <2>2, LocalTypes DEF Locals
  <2>4. Fits("Store", x) /\ "Store" \in Labels
    BY <1>4, <2>2, LocalTypes
    DEF LoginPhaseOpen, At, Fits, Locals, InTransaction, Locked, Labels,
        LoginSteps
  <2>5. Goto(r, "Store") /\ UNCHANGED <<now, tables, locks, created>>
    BY <1>4 DEF LoginPhaseOpen
  <2>. HIDE DEF x
  <2>. QED
    BY <2>3, <2>4, <2>5, LocalTypes, LocalMove
<1>5. CASE LoginPhaseClosed(r)
  BY <1>5, FinishMove DEF LoginPhaseClosed, locks, TypeInv, TypeOK
<1>6. CASE LoginStore(r)
  <2>. DEFINE s == [credential |-> local[r].credential,
                    expires |-> local[r].expires]
  <2>1. s \in Sessions /\ s.credential \in Credentials
          /\ local[r].token \in Tokens
    BY <1>6, LocalTypes DEF LoginStore, At, Fits, Locals, Sessions
  <2>2. voter_sessions' = [voter_sessions EXCEPT ![local[r].token] = s]
    BY <1>6 DEF LoginStore
  <2>. HIDE DEF s
  <2>3. /\ voter_sessions' \in [Tokens -> Sessions]
        /\ \A t \in Tokens : voter_sessions'[t] # NoSession =>
             voter_sessions'[t].credential \in Credentials
    BY <2>1, <2>2 DEF TypeInv, TypeOK
  <2>4. /\ pc' \in [Requests -> Labels]
        /\ local' \in [Requests -> Locals]
        /\ \A q \in Requests :
             Fits(pc'[q], local'[q]) /\ local'[q].fetched <= Len(bulletin_log')
    BY <1>6, FinishType DEF LoginStore
  <2>. QED
    BY <1>6, <2>3, <2>4 DEF LoginStore, TypeInv, TypeOK, locks
<1>. QED
  BY <1>1, <1>2, <1>3, <1>4, <1>5, <1>6 DEF LoginStep, LoginArrives
\* Every step of an administrator's request preserves TypeInv.
LEMMA AdminTypes ==
  ASSUME TypeInv, NEW r \in Requests, AdminStep(r) \/ AdminArrives(r)
  PROVE  TypeInv'
<1>1. ASSUME NEW codes \in SUBSET (Credentials \ issued), IssueRead(r, codes)
      PROVE  TypeInv'
  <2>. DEFINE x == [local[r] EXCEPT !.batch = codes]
  <2>1. x \in Locals /\ local' = [local EXCEPT ![r] = x]
          /\ x.fetched = local[r].fetched
    BY <1>1, LocalTypes DEF IssueRead, Locals
  <2>2. Fits("IssueInsert", x) /\ "IssueInsert" \in Labels
    BY DEF Fits, InTransaction, Locked, Labels, AdminSteps
  <2>3. Goto(r, "IssueInsert") /\ UNCHANGED <<now, tables, locks, created>>
    BY <1>1 DEF IssueRead
  <2>. HIDE DEF x
  <2>. QED
    BY <2>1, <2>2, <2>3, LocalTypes, LocalMove
<1>2. CASE IssueInsert(r)
  <2>1. issued' \in SUBSET Credentials
    BY <1>2, LocalTypes DEF IssueInsert, Locals, TypeInv, TypeOK
  <2>2. /\ pc' \in [Requests -> Labels]
        /\ local' \in [Requests -> Locals]
        /\ \A q \in Requests :
             Fits(pc'[q], local'[q]) /\ local'[q].fetched <= Len(bulletin_log')
    BY <1>2, FinishType DEF IssueInsert
  <2>. QED
    BY <1>2, <2>1, <2>2 DEF IssueInsert, TypeInv, TypeOK, locks
<1>3. CASE OpenRead(r)
  <2>1. "OpenRoll" \in Labels /\ Fits("OpenRoll", local[r])
    BY DEF Fits, Labels, InTransaction, Locked, AdminSteps
  <2>. QED
    BY <1>3, <2>1, LocalTypes, LocalMove DEF OpenRead
<1>4. CASE OpenRoll(r)
  <2>1. CASE issued = {}
    BY <1>4, <2>1, FinishMove DEF OpenRoll, locks, TypeInv, TypeOK
  <2>2. CASE issued # {}
    <3>. DEFINE x == [local[r] EXCEPT !.batch = issued]
    <3>1. x \in Locals /\ local' = [local EXCEPT ![r] = x]
            /\ x.fetched = local[r].fetched
      BY <1>4, <2>2, LocalTypes DEF OpenRoll, Locals, TypeInv, TypeOK
    <3>2. Fits("OpenUpdate", x) /\ "OpenUpdate" \in Labels
      BY DEF Fits, InTransaction, Locked, Labels, AdminSteps
    <3>3. Goto(r, "OpenUpdate") /\ UNCHANGED <<now, tables, locks, created>>
      BY <1>4, <2>2 DEF OpenRoll
    <3>. HIDE DEF x
    <3>. QED
      BY <3>1, <3>2, <3>3, LocalTypes, LocalMove
  <2>. QED
    BY <2>1, <2>2
<1>5. CASE OpenUpdate(r)
  <2>1. election' \in Elections
    BY <1>5, LocalTypes
    DEF OpenUpdate, Elections, Phases, Locals, TypeInv, TypeOK
  <2>2. /\ pc' \in [Requests -> Labels]
        /\ local' \in [Requests -> Locals]
        /\ \A q \in Requests :
             Fits(pc'[q], local'[q]) /\ local'[q].fetched <= Len(bulletin_log')
    BY <1>5, FinishType DEF OpenUpdate
  <2>. QED
    BY <1>5, <2>1, <2>2 DEF OpenUpdate, TypeInv, TypeOK, locks
<1>. QED
  BY <1>1, <1>2, <1>3, <1>4, <1>5 DEF AdminStep, AdminArrives

\* The tally of the first n rows of the log is a number.
LEMMA TallyType ==
  ASSUME bulletin_log \in Seq(Entries), NEW n \in Nat, n <= Len(bulletin_log)
  PROVE  TallyOf(n) \in Nat
<1>. DEFINE row[i \in 1..n] == {i} \X (1..bulletin_log[i].ballot.vote)
            rows == {{i} \X (1..bulletin_log[i].ballot.vote) : i \in 1..n}
<1>1. ASSUME NEW i \in 1..n PROVE IsFiniteSet({i} \X (1..bulletin_log[i].ballot.vote))
  <2>1. bulletin_log[i] \in Entries
    OBVIOUS
  <2>2. bulletin_log[i].ballot.vote \in Nat
    BY <2>1, BallotsAssumption DEF Entries
  <2>3. IsFiniteSet(1..bulletin_log[i].ballot.vote)
    <3>. DEFINE vote == bulletin_log[i].ballot.vote
    <3>1. 1 \in Int /\ vote \in Int
      BY <2>2
    <3>. HIDE DEF vote
    <3>2. IsFiniteSet(1..vote)
      BY <3>1, FS_Interval
    <3>. QED
      BY <3>2 DEF vote
  <2>4. IsFiniteSet({i})
    BY FS_Singleton
  <2>. QED
    BY <2>3, <2>4, FS_Product
<1>2. IsFiniteSet(rows)
  <2>1. IsFiniteSet(1..n)
    BY FS_Interval
  <2>2. row \in Surjection(1..n, rows)
    BY DEF Surjection
  <2>. HIDE DEF row, rows
  <2>. QED
    BY <2>1, <2>2, FS_Surjection
<1>3. IsFiniteSet(UNION rows)
  <2>1. \A S \in rows : IsFiniteSet(S)
    BY <1>1
  <2>. HIDE DEF rows
  <2>. QED
    BY <1>2, <2>1, FS_UNION
<1>. QED
  BY <1>3, FS_CardinalityType DEF TallyOf

\* Every step of finalize_tally preserves TypeInv.
LEMMA FinalizeTypes ==
  ASSUME TypeInv, NEW r \in Requests, FinalizeStep(r) \/ FinalizeArrives(r)
  PROVE  TypeInv'
<1>1. ASSUME NEW n \in 0..Len(bulletin_log), FinalizeRead(r, n) PROVE TypeInv'
  <2>. DEFINE x == [local[r] EXCEPT !.fetched = n, !.key = election.pk]
  <2>1. Len(bulletin_log) \in Nat /\ n \in Nat /\ n <= Len(bulletin_log)
          /\ election.pk \in PublicKeys \cup {NoKey}
    BY DEF TypeInv, TypeOK, Elections
  <2>2. x \in Locals /\ local' = [local EXCEPT ![r] = x] /\ x.fetched = n
    BY <1>1, <2>1, LocalTypes DEF FinalizeRead, Locals
  <2>3. Fits("FinalizeSum", x) /\ "FinalizeSum" \in Labels
    BY DEF Fits, InTransaction, Locked, Labels, FinalizeSteps
  <2>4. Goto(r, "FinalizeSum") /\ UNCHANGED <<now, tables, locks, created>>
    BY <1>1 DEF FinalizeRead
  <2>. HIDE DEF x
  <2>. QED
    BY <2>1, <2>2, <2>3, <2>4, LocalMove
<1>2. CASE FinalizeSum(r)
  <2>1. CASE ProofVerifies(r)
    <3>1. "FinalizeUpdate" \in Labels /\ Fits("FinalizeUpdate", local[r])
      BY DEF Fits, Labels, InTransaction, Locked, FinalizeSteps
    <3>. QED
      BY <1>2, <2>1, <3>1, LocalTypes, LocalMove DEF FinalizeSum
  <2>2. CASE ~ProofVerifies(r)
    BY <1>2, <2>2, FinishMove DEF FinalizeSum, locks, TypeInv, TypeOK
  <2>. QED
    BY <2>1, <2>2
<1>3. CASE FinalizeUpdate(r)
  <2>1. TallyOf(local[r].fetched) \in Int
    BY LocalTypes, TallyType DEF Locals, TypeInv, TypeOK
  <2>2. election' \in Elections
    BY <1>3, <2>1 DEF FinalizeUpdate, Elections, Phases, TypeInv, TypeOK
  <2>3. /\ pc' \in [Requests -> Labels]
        /\ local' \in [Requests -> Locals]
        /\ \A q \in Requests :
             Fits(pc'[q], local'[q]) /\ local'[q].fetched <= Len(bulletin_log')
    BY <1>3, FinishType DEF FinalizeUpdate
  <2>. QED
    BY <1>3, <2>2, <2>3 DEF FinalizeUpdate, TypeInv, TypeOK, locks
<1>. QED
  BY <1>1, <1>2, <1>3 DEF FinalizeStep, FinalizeArrives

\* TypeInv holds initially.
LEMMA InitTypes ==
  Init => TypeInv
<1>. SUFFICES ASSUME Init PROVE TypeInv
  OBVIOUS
<1>1. /\ \A r \in Requests : pc[r] = "Idle" /\ local[r] = Blank
      /\ Len(bulletin_log) = 0
      /\ bulletin_log \in Seq(Entries)
  BY DEF Init, DatabaseInit
<1>2. election \in Elections
  BY DEF Init, DatabaseInit, NoElection, Elections, NoTime
<1>3. voter_sessions \in [Tokens -> Sessions]
        /\ \A t \in Tokens : voter_sessions[t] = NoSession
  BY DEF Init, DatabaseInit, NoSession, Sessions
<1>. QED
  BY <1>1, <1>2, <1>3, BlankType, MaxTimeAssumption
  DEF Init, DatabaseInit, TypeInv, TypeOK, Labels
\* Every step of the server preserves TypeInv.
LEMMA NextTypes ==
  TypeInv /\ [Next]_vars => TypeInv'
<1>. SUFFICES ASSUME TypeInv, [Next]_vars PROVE TypeInv'
  OBVIOUS
<1>1. ASSUME NEW r \in Requests, Step(r) \/ Arrives(r) PROVE TypeInv'
  BY <1>1, SubmitTypes, LoginTypes, AdminTypes, FinalizeTypes
  DEF Step, Arrives
<1>2. ASSUME NEW r \in Requests, RequestDropped(r) PROVE TypeInv'
  BY <1>2, ReleaseLocksType, FinishMove DEF RequestDropped
<1>3. ASSUME NEW pk \in PublicKeys, NEW w \in Windows, CreateElection(pk, w)
      PROVE  TypeInv'
  <2>1. w[1] \in Int /\ w[2] \in Int
    BY WindowsAssumption
  <2>2. election' \in Elections
    BY <1>3, <2>1 DEF CreateElection, Elections, Phases
  <2>. QED
    BY <1>3, <2>2 DEF CreateElection, TypeInv, TypeOK, locks, requests
<1>4. CASE CloseVoting
  <2>1. election' \in Elections
    BY <1>4 DEF CloseVoting, Elections, Phases, TypeInv, TypeOK
  <2>. QED
    BY <1>4, <2>1 DEF CloseVoting, TypeInv, TypeOK, locks, requests
<1>5. CASE Tick
  <2>1. now' \in 0..MaxTime
    BY <1>5, MaxTimeAssumption DEF Tick, TypeInv, TypeOK
  <2>. QED
    BY <1>5, <2>1 DEF Tick, TypeInv, TypeOK, tables, locks, requests
<1>6. CASE Restart
  <2>1. \A r \in Requests : pc'[r] = "Idle" /\ local'[r] = Blank
    BY <1>6 DEF Restart
  <2>2. /\ pc' \in [Requests -> Labels]
        /\ local' \in [Requests -> Locals]
    BY <1>6, BlankType DEF Restart, Labels
  <2>3. 0 <= Len(bulletin_log) /\ bulletin_log' = bulletin_log
    BY <1>6 DEF Restart, TypeInv, TypeOK, tables
  <2>. QED
    BY <1>6, <2>1, <2>2, <2>3, BlankType
    DEF Restart, TypeInv, TypeOK, tables
<1>7. CASE UNCHANGED vars
  BY <1>7 DEF vars, tables, locks, requests, TypeInv, TypeOK
<1>. QED
  BY <1>1, <1>2, <1>3, <1>4, <1>5, <1>6, <1>7 DEF Next

\* Every variable keeps its type, whatever the requests, credentials and
\* ballots are: in particular a submission never inserts a row without a
\* ballot or consumes a credential that does not exist.
THEOREM TypeCorrect ==
  Spec => []TypeOK
<1>1. TypeInv => TypeOK
  BY DEF TypeInv
<1>. QED
  BY <1>1, InitTypes, NextTypes, PTL DEF Spec

=============================================================================
