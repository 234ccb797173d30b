---------------------------- MODULE OutcomeProofs ----------------------------
(***************************************************************************)
(* Proofs that the operators of the web application are told the truth: a  *)
(* success that is shown was one, a complete election is shown with its    *)
(* whole result, however long an answer was on its way and whoever else    *)
(* talked to the server meanwhile, and the trustees' search finds it.      *)
(***************************************************************************)
EXTENDS WebAppProofs, DiscreteLogProofs

-----------------------------------------------------------------------------
(* The inductive invariant                                                 *)

\* A second election would make an earlier one's answers stale.
OneElection == MaxElections = 1

\* The changes an administrator can ask for that have been made.
Done ==
  {op \in {"Create", "Issue", "Open", "Close"} :
     /\ op = "Create" => created > 0
     /\ op = "Issue" => issued # {}
     /\ op = "Open" => election.phase \in {"Voting", "Tallying", "Complete"}
     /\ op = "Close" => election.phase \in {"Tallying", "Complete"}}

\* The final tally, once there is one.
Outcome == IF election.phase = "Complete" THEN {election.tally} ELSE {}

\* An election is there once it was created, and it has a tally, that of the
\* whole log, once it is complete.
RowInv ==
  /\ created \in Nat
  /\ created = 0 <=> election.phase = "None"
  /\ election.tally =
       IF election.phase = "Complete" THEN YesAmong(Len(ledger)) ELSE -1

\* A row that was read is final if it says so.
RowTrue(row, outcome) ==
  IF row.phase = "Complete" THEN row.tally \in outcome ELSE row.tally = -1

\* So are the ballots counted after it was read.
CountTrue(row, count, total) == row.phase = "Complete" => count = total

\* What a refresh has read; the ballots are counted after the row is read.
ReadsTrue(task, outcome, total) ==
  /\ task.row = Pending => task.count = Pending
  /\ task.row \notin {Pending, None} =>
       /\ RowTrue(task.row, outcome)
       /\ task.count # Pending => CountTrue(task.row, task.count, total)

\* A change that was accepted has been made, and stays made during the refresh.
AdminTrue(task, done) ==
  /\ task.pc \in {"Post", "Refresh"}
  /\ task.pc = "Post" => task.request.op = task.arg
  /\ task.pc = "Refresh" \/ Accepted(task) => task.arg \in done

WorkTrue(task, done, outcome, total) ==
  /\ ReadsTrue(task, outcome, total)
  /\ task.handler = "admin" => AdminTrue(task, done)

\* What the page has stored.
DetailsTrue(details, outcome, total) ==
  details # None =>
    RowTrue(details, outcome) /\ CountTrue(details, details.ballots, total)

ToldSuccess(v) == v.status # None /\ v.status.type = "success"

StatusTrue(v, done) ==
  v.path = "/admin" /\ ToldSuccess(v) => v.status.text \in done

OutcomeInv ==
  /\ RowInv
  /\ DetailsTrue(electionDetails, Outcome, Len(ledger))
  /\ StatusTrue(view, Done)
  /\ \A t \in Tasks : WorkTrue(tasks[t], Done, Outcome, Len(ledger))

-----------------------------------------------------------------------------
(* The server goes forward only                                            *)

\* Nothing that was done is undone, and what is final stays as it is.
Forward(done, outcome, total, done2, outcome2, total2) ==
  /\ done \subseteq done2
  /\ outcome # {} => outcome2 = outcome /\ total2 = total

Advances ==
  Forward(Done, Outcome, Len(ledger), Done', Outcome', Len(ledger)')

\* What was true of a handler, of the page and of the view stays true.
LEMMA TruthStays ==
  ASSUME NEW done, NEW outcome, NEW total, NEW done2, NEW outcome2, NEW total2,
         Forward(done, outcome, total, done2, outcome2, total2)
  PROVE  /\ \A task : WorkTrue(task, done, outcome, total) =>
              WorkTrue(task, done2, outcome2, total2)
         /\ \A d : DetailsTrue(d, outcome, total) => DetailsTrue(d, outcome2, total2)
         /\ \A v : StatusTrue(v, done) => StatusTrue(v, done2)
<1>1. \A n : n \in outcome => n \in outcome2 /\ total2 = total
  BY DEF Forward
<1>2. \A op : op \in done => op \in done2
  BY DEF Forward
<1>3. \A row : RowTrue(row, outcome) => RowTrue(row, outcome2)
  BY <1>1 DEF RowTrue
<1>4. \A row, count : RowTrue(row, outcome) /\ CountTrue(row, count, total) =>
        CountTrue(row, count, total2)
  BY <1>1 DEF RowTrue, CountTrue
<1>5. \A task : WorkTrue(task, done, outcome, total) =>
        WorkTrue(task, done2, outcome2, total2)
  <2>. SUFFICES ASSUME NEW task, WorkTrue(task, done, outcome, total)
                PROVE  WorkTrue(task, done2, outcome2, total2)
    OBVIOUS
  <2>1. ReadsTrue(task, outcome2, total2)
    BY <1>3, <1>4 DEF WorkTrue, ReadsTrue
  <2>2. task.handler = "admin" => AdminTrue(task, done2)
    BY <1>2 DEF WorkTrue, AdminTrue
  <2>. QED
    BY <2>1, <2>2 DEF WorkTrue
<1>6. \A d : DetailsTrue(d, outcome, total) => DetailsTrue(d, outcome2, total2)
  BY <1>3, <1>4 DEF DetailsTrue
<1>7. \A v : StatusTrue(v, done) => StatusTrue(v, done2)
  BY <1>2 DEF StatusTrue
<1>. QED
  BY <1>5, <1>6, <1>7

\* The server rests.
LEMMA ServerRests ==
  ASSUME RowInv, UNCHANGED server
  PROVE  /\ RowInv' /\ Advances
         /\ Done' = Done /\ Outcome' = Outcome /\ Len(ledger)' = Len(ledger)
<1>1. /\ election' = election /\ created' = created /\ issued' = issued
      /\ ledger' = ledger
  BY DEF server
<1>. QED
  BY <1>1 DEF RowInv, YesAmong, Advances, Forward, Done, Outcome

LEMMA YesIsNat ==
  ASSUME ServerInv PROVE YesAmong(Len(ledger)) \in Nat
<1>1. Len(ledger) \in Nat
  BY DEF ServerInv
<1>2. IsFiniteSet(1..Len(ledger))
  BY <1>1, FS_Interval
<1>3. IsFiniteSet({i \in 1..Len(ledger) : ledger[i].ballot.vote = 1})
  BY <1>2, FS_Subset
<1>. QED
  BY <1>3, FS_CardinalityType DEF YesAmong

\* A request that is handled: what it asked for, if it is not refused, is done.
LEMMA HandleAdvances ==
  ASSUME OneElection, ServerInv, RowInv, NEW q, Handle(q)
  PROVE  /\ RowInv' /\ Advances
         /\ Refusal(q) = "none" /\ q.op \in {"Create", "Issue", "Open", "Close"} =>
              q.op \in Done'
<1>1. CASE UNCHANGED server /\ (Refusal(q) = "none" => ReadOnly(q))
  BY <1>1, ServerRests DEF ReadOnly
<1>2. CASE Refusal(q) = "none" /\ CreateElection(q)
  <2>1. /\ created = 0 /\ created' = 1 /\ q.op = "Create"
        /\ election' = [phase |-> "Setup", pk |-> q.pk, tally |-> -1]
        /\ issued' = issued /\ ledger' = ledger
    BY <1>2 DEF CreateElection, OneElection, RowInv
  <2>2. election.phase = "None"
    BY <2>1 DEF RowInv
  <2>. QED
    BY <2>1, <2>2 DEF RowInv, Advances, Forward, Done, Outcome
<1>3. CASE Refusal(q) = "none" /\ IssueCredentials(q)
  <2>1. q.op = "Issue" /\ q.count \in 1..1000
    BY <1>3 DEF IssueCredentials, Refusal, IssueRefusal
  <2>2. /\ issued \subseteq issued' /\ issued' # {}
        /\ election' = election /\ created' = created /\ ledger' = ledger
    BY <1>3, <2>1, FS_EmptySet DEF IssueCredentials
  <2>. QED
    BY <2>1, <2>2 DEF RowInv, YesAmong, Advances, Forward, Done, Outcome
<1>4. CASE Refusal(q) = "none" /\ ChangePhase(q)
  <2>1. created' = created /\ issued' = issued /\ ledger' = ledger
    BY <1>4 DEF ChangePhase
  <2>2. CASE q.op = "Open"
    <3>1. election.phase = "Setup" /\ election' = [election EXCEPT !.phase = "Voting"]
      BY <1>4, <2>2 DEF Refusal, OpenRefusal, ChangePhase
    <3>2. election'.phase = "Voting" /\ election'.tally = election.tally
      BY <3>1 DEF ServerInv
    <3>. QED
      BY <2>1, <2>2, <3>1, <3>2 DEF RowInv, Advances, Forward, Done, Outcome
  <2>3. CASE q.op = "Close"
    <3>1. election.phase = "Voting" /\ election' = [election EXCEPT !.phase = "Tallying"]
      BY <1>4, <2>3 DEF Refusal, ChangePhase
    <3>2. election'.phase = "Tallying" /\ election'.tally = election.tally
      BY <3>1 DEF ServerInv
    <3>. QED
      BY <2>1, <2>3, <3>1, <3>2 DEF RowInv, Advances, Forward, Done, Outcome
  <2>4. CASE q.op = "Finalize"
    <3>1. /\ election.phase = "Tallying" /\ ProofVerifies(q)
          /\ election' = [election EXCEPT !.phase = "Complete", !.tally = q.tally]
      BY <1>4, <2>4 DEF Refusal, FinalizeRefusal, ChangePhase
    <3>2. election'.phase = "Complete" /\ election'.tally = q.tally
      BY <3>1 DEF ServerInv
    <3>3. q.tally = YesAmong(Len(ledger)) /\ YesAmong(Len(ledger))' = YesAmong(Len(ledger))
      BY <2>1, <3>1 DEF ProofVerifies, YesAmong
    <3>. QED
      BY <2>1, <2>4, <3>1, <3>2, <3>3 DEF RowInv, Advances, Forward, Done, Outcome
  <2>. QED
    BY <1>4, <2>2, <2>3, <2>4 DEF ChangePhase
<1>5. CASE Refusal(q) = "none" /\ SubmitBallot(q)
  <2>1. /\ q.op = "Ballot" /\ election.phase = "Voting"
        /\ election' = election /\ created' = created /\ issued' = issued
    BY <1>5 DEF SubmitBallot, Ledger!CastWithCredential, Ledger!Record
  <2>. QED
    BY <2>1 DEF RowInv, Advances, Forward, Done, Outcome
<1>. QED
  BY <1>1, <1>2, <1>3, <1>4, <1>5 DEF Handle

-----------------------------------------------------------------------------
(* Frames                                                                  *)

\* All that is to be shown of a step while the server rests.
LEMMA ServerResting ==
  ASSUME OutcomeInv, UNCHANGED server,
         DetailsTrue(electionDetails', Outcome, Len(ledger)),
         StatusTrue(view', Done),
         \A t \in Tasks : WorkTrue(tasks'[t], Done, Outcome, Len(ledger))
  PROVE  OutcomeInv'
BY ServerRests DEF OutcomeInv

\* All that is to be shown of a step that touches neither page nor views.
LEMMA ServerAdvancing ==
  ASSUME OutcomeInv, RowInv', Advances, UNCHANGED <<electionDetails, view>>,
         \A t \in Tasks :
           \/ tasks'[t] = tasks[t]
           \/ WorkTrue(tasks'[t], Done', Outcome', Len(ledger)')
  PROVE  OutcomeInv'
<1>1. /\ DetailsTrue(electionDetails', Outcome', Len(ledger)')
      /\ StatusTrue(view', Done')
  BY TruthStays DEF OutcomeInv, Advances
<1>2. \A t \in Tasks : WorkTrue(tasks[t], Done', Outcome', Len(ledger)')
  BY TruthStays DEF OutcomeInv, Advances
<1>. QED
  BY <1>1, <1>2 DEF OutcomeInv

\* A slot of its own for the handler that moves.
LEMMA OneMoves ==
  ASSUME WebInv, OutcomeInv, UNCHANGED server,
         DetailsTrue(electionDetails', Outcome, Len(ledger)),
         StatusTrue(view', Done),
         NEW t \in Tasks, NEW task, Set(t, task),
         WorkTrue(task, Done, Outcome, Len(ledger))
  PROVE  OutcomeInv'
<1>1. DOMAIN tasks = Tasks
  BY DEF WebInv, TasksInv
<1>2. tasks'[t] = task /\ \A u \in Tasks \ {t} : tasks'[u] = tasks[u]
  BY <1>1 DEF Set
<1>3. \A u \in Tasks : WorkTrue(tasks'[u], Done, Outcome, Len(ledger))
  BY <1>2 DEF OutcomeInv
<1>. QED
  BY <1>3, ServerResting

\* A view that tells nothing, or nothing else than before.
LEMMA NothingTold ==
  ASSUME NEW v, NEW done,
         v.path = "/admin" => v.status = None \/ v.status.type = "error"
  PROVE  StatusTrue(v, done)
BY DEF StatusTrue, ToldSuccess

LEMMA NothingElseTold ==
  ASSUME NEW v, NEW w, NEW done, StatusTrue(v, done),
         w.path = v.path, w.path = "/admin" => w.status = v.status
  PROVE  StatusTrue(w, done)
BY DEF StatusTrue, ToldSuccess

LEMMA MountedTellsNothing ==
  ASSUME NEW path, NEW done PROVE StatusTrue(Mounted(path), done)
<1>1. CASE path = "/admin"
  <2>1. Mounted(path) = FreshAdminView
    BY <1>1 DEF Mounted
  <2>2. FreshAdminView.status = None
    BY DEF FreshAdminView
  <2>. QED
    BY <2>1, <2>2, NothingTold
<1>2. CASE path # "/admin"
  <2>1. Mounted(path).path = path
    BY DEF Mounted, FreshVoterView, FreshObserverView, FreshAdminView, FreshTrusteeView
  <2>. QED
    BY <1>2, <2>1, NothingTold
<1>. QED
  BY <1>1, <1>2

\* A handler that has read nothing yet and is no administrator's.
LEMMA UnreadTrue ==
  ASSUME NEW task, task.row = Pending, task.count = Pending,
         task.handler # "admin", NEW done, NEW outcome, NEW total
  PROVE  WorkTrue(task, done, outcome, total)
BY DEF WorkTrue, ReadsTrue

LEMMA IdleTrue ==
  ASSUME NEW done, NEW outcome, NEW total PROVE WorkTrue(Idle, done, outcome, total)
<1>1. Idle.row = Pending /\ Idle.count = Pending /\ Idle.handler = None
  BY DEF Idle
<1>. QED
  BY <1>1, UnreadTrue, NoneAssumption

LEMMA LoadingTrue ==
  ASSUME NEW t \in Tasks, NEW u \in Tasks, NEW done, NEW outcome, NEW total
  PROVE  WorkTrue(Loading(t)[u], done, outcome, total)
<1>1. CASE u # t
  BY <1>1, IdleTrue DEF Loading
<1>2. CASE u = t
  <2>. DEFINE task == Refreshing([Idle EXCEPT !.handler = "refresh"])
  <2>1. Loading(t)[u] = task
    BY <1>2 DEF Loading
  <2>2. task.row = Pending /\ task.count = Pending /\ task.handler = "refresh"
    BY DEF Refreshing, Idle
  <2>. HIDE DEF task
  <2>. QED
    BY <2>1, <2>2, UnreadTrue
<1>. QED
  BY <1>1, <1>2

-----------------------------------------------------------------------------
(* The user and the browser                                                *)

LEMMA NavigateTrue ==
  ASSUME WebInv, OutcomeInv, Navigate PROVE OutcomeInv'
<1>1. /\ UNCHANGED <<server, page>> /\ tasks' = Unmounted(tasks)
      /\ StatusTrue(view', Done)
  BY MountedTellsNothing DEF Navigate
<1>2. ASSUME NEW t \in Tasks
      PROVE  WorkTrue(tasks'[t], Done, Outcome, Len(ledger))
  <2>1. WorkTrue(tasks[t], Done, Outcome, Len(ledger)) /\ TaskOK(tasks[t], issued, ledger)
    BY TaskTyped DEF OutcomeInv
  <2>2. CASE tasks[t].pc = "Idle"
    BY <1>1, <2>1, <2>2 DEF Unmounted
  <2>3. CASE tasks[t].pc # "Idle"
    <3>. DEFINE task == [tasks[t] EXCEPT !.attached = FALSE]
    <3>1. tasks'[t] = task
      BY <1>1, <2>3 DEF Unmounted
    <3>2. /\ task.attached = FALSE /\ task.handler = tasks[t].handler
          /\ task.pc = tasks[t].pc /\ task.arg = tasks[t].arg
          /\ task.request = tasks[t].request /\ task.answer = tasks[t].answer
          /\ task.row = tasks[t].row /\ task.count = tasks[t].count
      BY <2>1 DEF TaskOK, Idle
    <3>. HIDE DEF task
    <3>. QED
      BY <2>1, <3>1, <3>2 DEF WorkTrue, ReadsTrue, AdminTrue, Accepted
  <2>. QED
    BY <2>2, <2>3
<1>. QED
  BY <1>1, <1>2, ServerResting DEF page, OutcomeInv

LEMMA ReloadTrue ==
  ASSUME OutcomeInv, Reload PROVE OutcomeInv'
<1>1. /\ UNCHANGED server /\ electionDetails' = None
      /\ StatusTrue(view', Done)
  BY MountedTellsNothing DEF Reload
<1>2. PICK t \in Tasks : tasks' = Loading(t)
  BY DEF Reload
<1>. QED
  BY <1>1, <1>2, LoadingTrue, ServerResting DEF DetailsTrue

\* The handlers and the page are left alone.
LEMMA ViewTrue ==
  ASSUME OutcomeInv, UNCHANGED <<server, electionDetails, tasks>>,
         StatusTrue(view', Done)
  PROVE  OutcomeInv'
BY ServerResting DEF OutcomeInv

LEMMA VoterFormTrue ==
  ASSUME WebInv, OutcomeInv,
         \/ PickVote \/ TypeSecret \/ TypeElectionId \/ ReviewBallot
         \/ CancelConfirm \/ CastInvalid \/ DismissReceipt
  PROVE  OutcomeInv'
<1>1. view.path = "/vote" /\ UNCHANGED <<server, page, tasks>>
  BY DEF PickVote, TypeSecret, TypeElectionId, ReviewBallot, CancelConfirm,
         CastInvalid, CastEnabled, DismissReceipt, FormEnabled, Fills
<1>2. view'.path = "/vote"
  BY <1>1, VoteFields
  DEF PickVote, TypeSecret, TypeElectionId, ReviewBallot, CancelConfirm,
      CastInvalid, DismissReceipt, Fills
<1>. QED
  BY <1>1, <1>2, NothingTold, ViewTrue DEF page

LEMMA AdminFormTrue ==
  ASSUME WebInv, OutcomeInv,
         CreateInvalid \/ RegisterInvalid \/ AskTransition \/ CancelTransition
  PROVE  OutcomeInv'
<1>1. view.path = "/admin" /\ UNCHANGED <<server, page, tasks>>
  BY DEF CreateInvalid, RegisterInvalid, AskTransition, CancelTransition,
         AdminEnabled, Shown
<1>2. CASE CreateInvalid \/ RegisterInvalid
  <2>1. view' = [view EXCEPT !.status = [type |-> "error", text |-> "InvalidForm"]]
    BY <1>2 DEF CreateInvalid, RegisterInvalid, Shown, Failure
  <2>2. view'.status = [type |-> "error", text |-> "InvalidForm"]
    BY <1>1, <2>1, AdminFields
  <2>3. view'.status.type = "error"
    BY <2>2
  <2>. QED
    BY <1>1, <2>3, NothingTold, ViewTrue DEF page
<1>3. CASE AskTransition \/ CancelTransition
  <2>1. view'.path = view.path /\ view'.status = view.status
    BY <1>1, <1>3, AdminFields DEF AskTransition, CancelTransition, Shown
  <2>. QED
    BY <1>1, <2>1, NothingElseTold, ViewTrue DEF page, OutcomeInv
<1>. QED
  BY <1>2, <1>3

LEMMA TrusteeFormTrue ==
  ASSUME WebInv, OutcomeInv,
         GenerateRefused \/ ClearSetup \/ TypeShares \/ DecryptRefused
  PROVE  OutcomeInv'
<1>1. view.path = "/trustee" /\ UNCHANGED <<server, page, tasks>>
  BY DEF GenerateRefused, ClearSetup, TypeShares, DecryptRefused, TrusteeEnabled,
         Becomes
<1>2. view'.path = "/trustee"
  BY <1>1, TrusteeFields
  DEF GenerateRefused, ClearSetup, TypeShares, DecryptRefused, Becomes, FailsWith
<1>. QED
  BY <1>1, <1>2, NothingTold, ViewTrue DEF page

LEMMA LookupMalformedTrue ==
  ASSUME WebInv, OutcomeInv, LookupMalformed PROVE OutcomeInv'
<1>1. view.path = "/verify" /\ UNCHANGED <<server, page, tasks>>
  BY DEF LookupMalformed, LookupEnabled
<1>2. view'.path = "/verify"
  BY <1>1, VerifyFields DEF LookupMalformed
<1>. QED
  BY <1>1, <1>2, NothingTold, ViewTrue DEF page

LEMMA PageHideTrue ==
  ASSUME WebInv, OutcomeInv, PageHide PROVE OutcomeInv'
<1>1. UNCHANGED <<server, page, tasks>>
  BY DEF PageHide
<1>2. CASE view.path \in {"/vote", "/trustee"}
  <2>1. view'.path # "/admin"
    BY <1>2, VoteFields, TrusteeFields DEF PageHide, Cleared
  <2>. QED
    BY <1>1, <2>1, NothingTold, ViewTrue DEF page
<1>3. CASE view.path \notin {"/vote", "/trustee"}
  <2>1. view' = view
    BY <1>3 DEF PageHide
  <2>. QED
    BY <1>1, <2>1, ViewTrue DEF page, OutcomeInv
<1>. QED
  BY <1>2, <1>3

LEMMA MemoryTrue ==
  ASSUME WebInv, OutcomeInv, Login \/ Logout \/ CryptoSettles PROVE OutcomeInv'
<1>1. UNCHANGED <<server, page, view, tasks>>
  BY DEF Login, Logout, CryptoSettles
<1>. QED
  BY <1>1, ViewTrue DEF page, OutcomeInv

-----------------------------------------------------------------------------
(* Handlers that start                                                     *)

LEMMA StartTrue ==
  ASSUME WebInv, OutcomeInv, UNCHANGED <<server, page>>,
         NEW t \in Tasks, NEW task, Set(t, task),
         task.row = Pending, task.count = Pending,
         task.handler = "admin" => AdminTrue(task, Done),
         StatusTrue(view', Done)
  PROVE  OutcomeInv'
<1>1. WorkTrue(task, Done, Outcome, Len(ledger))
  BY DEF WorkTrue, ReadsTrue
<1>. QED
  BY <1>1, OneMoves DEF page, OutcomeInv

LEMMA StartedFields ==
  ASSUME NEW handler, NEW pc, NEW arg
  PROVE  /\ DOMAIN Started(handler, pc, arg) = DOMAIN Idle
         /\ Started(handler, pc, arg).handler = handler
         /\ Started(handler, pc, arg).pc = pc
         /\ Started(handler, pc, arg).arg = arg
         /\ Started(handler, pc, arg).row = Pending
         /\ Started(handler, pc, arg).count = Pending
BY DEF Started, Idle

LEMMA SendsReads ==
  ASSUME NEW task, DOMAIN task = DOMAIN Idle, NEW pc, NEW q
  PROVE  Sends(task, pc, q).row = task.row /\ Sends(task, pc, q).count = task.count
BY DEF Sends, Idle

LEMMA CastStarts ==
  ASSUME WebInv, OutcomeInv, NEW t \in Tasks, CastBallot(t) PROVE OutcomeInv'
<1>. DEFINE ballot == ClientSideBallot(view, electionDetails.pk)
            task == Started("cast", "Crypto", ballot)
<1>1. /\ Set(t, task) /\ UNCHANGED <<server, page>>
      /\ view.path = "/vote" /\ ~view.submitting
      /\ view' = [view EXCEPT !.submitting = TRUE, !.message = None]
  BY DEF CastBallot, CastEnabled, FormEnabled
<1>. HIDE DEF ballot
<1>2. task.row = Pending /\ task.count = Pending /\ task.handler = "cast"
  BY StartedFields
<1>. HIDE DEF task
<1>3. view'.path = "/vote"
  BY <1>1, VoteFields
<1>. QED
  BY <1>1, <1>2, <1>3, NothingTold, StartTrue

LEMMA LookupStarts ==
  ASSUME WebInv, OutcomeInv, NEW t \in Tasks, Lookup(t) PROVE OutcomeInv'
<1>1. PICK nullifier \in Nullifiers :
        Set(t, Sends(Started("lookup", "Lookup", nullifier), "Lookup",
                 BulletinRequest(nullifier)))
  BY DEF Lookup
<1>. DEFINE start == Started("lookup", "Lookup", nullifier)
            task == Sends(start, "Lookup", BulletinRequest(nullifier))
<1>2. /\ UNCHANGED <<server, page>> /\ view.path = "/verify" /\ ~view.checking
      /\ view' = [view EXCEPT !.checking = TRUE, !.result = None, !.message = None]
  BY DEF Lookup, LookupEnabled
<1>3. task.row = Pending /\ task.count = Pending /\ task.handler = "lookup"
  <2>1. /\ DOMAIN start = DOMAIN Idle /\ start.handler = "lookup"
        /\ start.row = Pending /\ start.count = Pending
    BY StartedFields
  <2>. HIDE DEF start
  <2>. QED
    BY <2>1, SendsFields, SendsReads
<1>4. Set(t, task)
  BY <1>1
<1>. HIDE DEF task
<1>5. view'.path = "/verify"
  BY <1>2, VerifyFields
<1>. QED
  BY <1>2, <1>3, <1>4, <1>5, NothingTold, StartTrue

LEMMA AdministersTrue ==
  ASSUME WebInv, OutcomeInv, NEW t \in Tasks, NEW op, NEW q, NEW v,
         AdminEnabled, Administers(t, op, q, v), q.op = op, DOMAIN v = DOMAIN view
  PROVE  OutcomeInv'
<1>. DEFINE start == Started("admin", "Post", op)
            task == Sends(start, "Post", q)
<1>1. /\ Set(t, task) /\ UNCHANGED <<server, page>>
      /\ view.path = "/admin" /\ ~view.submitting
      /\ view' = [v EXCEPT !.submitting = TRUE, !.status = None]
  BY DEF Administers, AdminEnabled
<1>2. /\ DOMAIN start = DOMAIN Idle /\ start.handler = "admin" /\ start.arg = op
      /\ start.row = Pending /\ start.count = Pending
  BY StartedFields
<1>. HIDE DEF start
<1>3. /\ task.row = Pending /\ task.count = Pending /\ task.handler = "admin"
      /\ task.pc = "Post" /\ task.arg = op /\ task.request = q
      /\ task.answer = Pending
  BY <1>2, SendsFields, SendsReads
<1>. HIDE DEF task
<1>4. AdminTrue(task, Done)
  BY <1>3 DEF AdminTrue, Accepted
<1>5. view'.status = None
  BY <1>1, AdminFields
<1>. QED
  BY <1>1, <1>3, <1>4, <1>5, NothingTold, StartTrue

LEMMA AdminStarts ==
  ASSUME WebInv, OutcomeInv, NEW t \in Tasks,
         CreateElectionForm(t) \/ RegisterVoters(t) \/ ConfirmTransition(t)
  PROVE  OutcomeInv'
<1>1. AdminEnabled /\ view.path = "/admin"
  BY DEF CreateElectionForm, RegisterVoters, ConfirmTransition, AdminEnabled
<1>2. CASE CreateElectionForm(t)
  <2>1. PICK form \in Forms : Administers(t, "Create", CreateRequest(form), view)
    BY <1>2 DEF CreateElectionForm
  <2>2. CreateRequest(form).op = "Create"
    BY DEF CreateRequest
  <2>. QED
    BY <1>1, <2>1, <2>2, AdministersTrue
<1>3. CASE RegisterVoters(t)
  <2>1. PICK lines \in VoterLists :
          Administers(t, "Issue", IssueRequest(Len(lines)), view)
    BY <1>3 DEF RegisterVoters
  <2>2. IssueRequest(Len(lines)).op = "Issue"
    BY DEF IssueRequest
  <2>. QED
    BY <1>1, <2>1, <2>2, AdministersTrue
<1>4. CASE ConfirmTransition(t)
  <2>. DEFINE q == IF view.pending = "Open" THEN OpenRequest ELSE CloseRequest
              v == [view EXCEPT !.pending = None]
  <2>1. Administers(t, view.pending, q, v) /\ view.pending \in {"Open", "Close"}
    BY <1>1, <1>4, AdminFields DEF ConfirmTransition
  <2>2. q.op = view.pending
    BY <2>1 DEF OpenRequest, CloseRequest
  <2>3. DOMAIN v = DOMAIN view
    OBVIOUS
  <2>. HIDE DEF q, v
  <2>. QED
    BY <1>1, <2>1, <2>2, <2>3, AdministersTrue
<1>. QED
  BY <1>2, <1>3, <1>4

LEMMA TrusteeStarts ==
  ASSUME WebInv, OutcomeInv, NEW t \in Tasks, GenerateKeys(t) \/ Decrypt(t)
  PROVE  OutcomeInv'
<1>1. view.path = "/trustee" /\ UNCHANGED <<server, page>>
  BY DEF GenerateKeys, Decrypt, TrusteeEnabled
<1>2. PICK task :
        /\ Set(t, task) /\ task.row = Pending /\ task.count = Pending
        /\ task.handler \in {"keygen", "decrypt"}
  <2>1. CASE GenerateKeys(t)
    <3>1. Set(t, Started("keygen", "Crypto", None))
      BY <2>1 DEF GenerateKeys
    <3>. QED
      BY <3>1, StartedFields
  <2>2. CASE Decrypt(t)
    <3>1. PICK bound \in Bounds :
            Set(t, Started("decrypt", "Crypto",
              [rightKey |-> RightShares(view.shares), sum |-> encryptedTally,
               bound |-> bound]))
      BY <2>2 DEF Decrypt
    <3>. DEFINE job == [rightKey |-> RightShares(view.shares), sum |-> encryptedTally,
                        bound |-> bound]
    <3>2. Set(t, Started("decrypt", "Crypto", job))
      BY <3>1
    <3>. HIDE DEF job
    <3>. QED
      BY <3>2, StartedFields
  <2>. QED
    BY <2>1, <2>2
<1>3. view'.path = "/trustee"
  BY <1>1, TrusteeFields DEF GenerateKeys, Decrypt, DecryptStarts
<1>. QED
  BY <1>1, <1>2, <1>3, NothingTold, StartTrue

LEMMA RefreshStarts ==
  ASSUME WebInv, OutcomeInv, NEW t \in Tasks, Refresh(t) PROVE OutcomeInv'
<1>. DEFINE task == Refreshing([Idle EXCEPT !.handler = "refresh"])
<1>1. /\ Set(t, task) /\ UNCHANGED <<server, view>>
      /\ electionDetails' = electionDetails
  BY DEF Refresh, RefreshBegins
<1>2. task.row = Pending /\ task.count = Pending /\ task.handler = "refresh"
  BY DEF Refreshing, Idle
<1>. HIDE DEF task
<1>3. WorkTrue(task, Done, Outcome, Len(ledger))
  BY <1>2, UnreadTrue
<1>. QED
  BY <1>1, <1>3, OneMoves DEF OutcomeInv

-----------------------------------------------------------------------------
(* The server works                                                        *)

LEMMA ServeTrue ==
  ASSUME OneElection, WebInv, OutcomeInv, NEW t \in Tasks, Serve(t)
  PROVE  OutcomeInv'
<1>. DEFINE q == tasks[t].request
            answer == [why |-> Refusal(q), body |-> Body(q)]
            task == [tasks[t] EXCEPT !.answer = answer]
<1>1. Set(t, task) /\ Handle(q) /\ UNCHANGED <<page, view>>
  BY DEF Serve
<1>2. TaskOK(tasks[t], issued, ledger) /\ DOMAIN tasks = Tasks
  BY TaskTyped DEF WebInv, TasksInv
<1>3. /\ RowInv' /\ Advances
      /\ Refusal(q) = "none" /\ q.op \in {"Create", "Issue", "Open", "Close"} =>
           q.op \in Done'
  BY <1>1, HandleAdvances DEF WebInv, OutcomeInv
<1>4. WorkTrue(tasks[t], Done', Outcome', Len(ledger)')
  BY <1>3, TruthStays DEF OutcomeInv, Advances
<1>5. /\ task.answer = answer /\ task.handler = tasks[t].handler
      /\ task.pc = tasks[t].pc /\ task.arg = tasks[t].arg /\ task.request = q
      /\ task.row = tasks[t].row /\ task.count = tasks[t].count
  BY <1>2 DEF TaskOK, Idle
<1>6. Accepted(task) => Refusal(q) = "none"
  BY <1>5 DEF Accepted
<1>. HIDE DEF answer, task, q
<1>7. task.handler = "admin" => AdminTrue(task, Done')
  <2>1. task.handler = "admin" => task.arg \in {"Create", "Issue", "Open", "Close"}
    BY <1>2, <1>5 DEF TaskOK, ArgOK
  <2>. QED
    BY <2>1, <1>3, <1>4, <1>5, <1>6 DEF WorkTrue, AdminTrue, q
<1>8. WorkTrue(task, Done', Outcome', Len(ledger)')
  BY <1>4, <1>5, <1>7 DEF WorkTrue, ReadsTrue
<1>9. tasks'[t] = task /\ \A u \in Tasks \ {t} : tasks'[u] = tasks[u]
  BY <1>1, <1>2 DEF Set
<1>. QED
  BY <1>1, <1>3, <1>8, <1>9, ServerAdvancing DEF page

LEMMA AloneTrue ==
  ASSUME OneElection, WebInv, OutcomeInv, ServeLate \/ OtherClients \/ TimePasses
  PROVE  OutcomeInv'
<1>1. RowInv' /\ Advances /\ UNCHANGED <<page, view, tasks>>
  <2>1. CASE ServeLate
    BY <2>1, HandleAdvances DEF ServeLate, WebInv, OutcomeInv
  <2>2. CASE OtherClients
    BY <2>2, HandleAdvances DEF OtherClients, WebInv, OutcomeInv
  <2>3. CASE TimePasses
    BY <2>3
    DEF TimePasses, SessionsExpire, OutcomeInv, RowInv, YesAmong, Advances,
        Forward, Done, Outcome
  <2>. QED
    BY <2>1, <2>2, <2>3
<1>. QED
  BY <1>1, ServerAdvancing DEF page

-----------------------------------------------------------------------------
(* Handlers that go on and end                                             *)

LEMMA EndsTrue ==
  ASSUME WebInv, OutcomeInv, UNCHANGED server,
         DetailsTrue(electionDetails', Outcome, Len(ledger)),
         StatusTrue(view', Done),
         NEW t \in Tasks, Ends(t)
  PROVE  OutcomeInv'
BY OneMoves, IdleTrue DEF Ends

LEMMA ReadTrue ==
  ASSUME WebInv, OutcomeInv, NEW t \in Tasks,
         ReadRow(t) \/ ReadCount(t) \/ ReadTally(t)
  PROVE  OutcomeInv'
<1>1. UNCHANGED <<server, page, view>>
  BY DEF ReadRow, ReadCount, ReadTally
<1>2. /\ TaskOK(tasks[t], issued, ledger)
      /\ WorkTrue(tasks[t], Done, Outcome, Len(ledger))
  BY TaskTyped DEF OutcomeInv
<1>3. PICK task :
        /\ Set(t, task)
        /\ task.handler = tasks[t].handler /\ task.pc = tasks[t].pc
        /\ task.arg = tasks[t].arg
        /\ task.request = tasks[t].request /\ task.answer = tasks[t].answer
        /\ ReadsTrue(task, Outcome, Len(ledger))
  <2>1. CASE ReadRow(t)
    <3>. DEFINE row == IF election.phase = "None" THEN None ELSE election
                new == [tasks[t] EXCEPT !.row = row]
    <3>1. Set(t, new) /\ tasks[t].count = Pending
      BY <1>2, <2>1 DEF ReadRow, WorkTrue, ReadsTrue
    <3>2. row # None => RowTrue(row, Outcome)
      BY DEF OutcomeInv, RowInv, RowTrue, Outcome
    <3>. HIDE DEF row
    <3>3. /\ new.row = row /\ new.count = Pending
          /\ new.handler = tasks[t].handler /\ new.pc = tasks[t].pc
          /\ new.arg = tasks[t].arg
          /\ new.request = tasks[t].request /\ new.answer = tasks[t].answer
      BY <1>2, <3>1 DEF TaskOK, Idle
    <3>. HIDE DEF new
    <3>. QED
      BY <3>1, <3>2, <3>3 DEF ReadsTrue
  <2>2. CASE ReadCount(t)
    <3>. DEFINE new == [tasks[t] EXCEPT !.count = Len(ledger)]
    <3>1. Set(t, new) /\ tasks[t].row # Pending
      BY <2>2 DEF ReadCount, CountReadable
    <3>2. /\ new.row = tasks[t].row /\ new.count = Len(ledger)
          /\ new.handler = tasks[t].handler /\ new.pc = tasks[t].pc
          /\ new.arg = tasks[t].arg
          /\ new.request = tasks[t].request /\ new.answer = tasks[t].answer
      BY <1>2 DEF TaskOK, Idle
    <3>. HIDE DEF new
    <3>3. ReadsTrue(new, Outcome, Len(ledger))
      BY <1>2, <3>1, <3>2 DEF WorkTrue, ReadsTrue, CountTrue
    <3>. QED
      BY <3>1, <3>2, <3>3
  <2>3. CASE ReadTally(t)
    <3>1. PICK sum \in {Len(ledger), None} : Set(t, [tasks[t] EXCEPT !.tally = sum])
      BY <2>3 DEF ReadTally
    <3>. DEFINE new == [tasks[t] EXCEPT !.tally = sum]
    <3>2. /\ new.row = tasks[t].row /\ new.count = tasks[t].count
          /\ new.handler = tasks[t].handler /\ new.pc = tasks[t].pc
          /\ new.arg = tasks[t].arg
          /\ new.request = tasks[t].request /\ new.answer = tasks[t].answer
      BY <1>2 DEF TaskOK, Idle
    <3>3. Set(t, new)
      BY <3>1
    <3>. HIDE DEF new
    <3>. QED
      BY <1>2, <3>2, <3>3 DEF WorkTrue, ReadsTrue
  <2>. QED
    BY <2>1, <2>2, <2>3
<1>4. WorkTrue(task, Done, Outcome, Len(ledger))
  BY <1>2, <1>3 DEF WorkTrue, AdminTrue, Accepted
<1>. QED
  BY <1>1, <1>3, <1>4, OneMoves DEF page, OutcomeInv

LEMMA PostAnsweredTrue ==
  ASSUME WebInv, OutcomeInv, NEW t \in Tasks, PostAnswered(t) PROVE OutcomeInv'
<1>. DEFINE task == Refreshing(tasks[t])
<1>1. /\ tasks[t].pc = "Post" /\ Accepted(tasks[t]) /\ Set(t, task)
      /\ UNCHANGED <<server, view>> /\ electionDetails' = electionDetails
  BY DEF PostAnswered, Answered, Accepted, RefreshBegins
<1>2. WorkTrue(tasks[t], Done, Outcome, Len(ledger))
  BY DEF OutcomeInv
<1>3. /\ task.pc = "Refresh" /\ task.row = Pending /\ task.count = Pending
      /\ task.handler = tasks[t].handler /\ task.arg = tasks[t].arg
  BY TaskTyped DEF Refreshing, TaskOK, Idle
<1>. HIDE DEF task
<1>4. WorkTrue(task, Done, Outcome, Len(ledger))
  BY <1>1, <1>2, <1>3 DEF WorkTrue, ReadsTrue, AdminTrue
<1>. QED
  BY <1>1, <1>4, OneMoves DEF OutcomeInv

\* The handler of a ballot tells administrators nothing.
LEMMA CastMoves ==
  ASSUME WebInv, OutcomeInv, UNCHANGED server,
         DetailsTrue(electionDetails', Outcome, Len(ledger)),
         NEW t \in Tasks, tasks[t].handler = "cast", NEW task, Set(t, task),
         task = Idle \/ ( task.handler = "cast" /\ task.row = tasks[t].row
                          /\ task.count = tasks[t].count ),
         IF tasks[t].attached THEN view'.path = "/vote" ELSE UNCHANGED view
  PROVE  OutcomeInv'
<1>1. WorkTrue(task, Done, Outcome, Len(ledger))
  <2>1. CASE task = Idle
    BY <2>1, IdleTrue
  <2>2. CASE task # Idle
    BY <2>2 DEF OutcomeInv, WorkTrue, ReadsTrue
  <2>. QED
    BY <2>1, <2>2
<1>2. StatusTrue(view', Done)
  BY NothingTold DEF OutcomeInv
<1>. QED
  BY <1>1, <1>2, OneMoves

LEMMA CastStepTrue ==
  ASSUME WebInv, OutcomeInv, NEW t \in Tasks, BallotEncrypted(t) \/ LoginAnswered(t)
  PROVE  OutcomeInv'
<1>1. /\ tasks[t].handler = "cast" /\ UNCHANGED <<server, page, view>>
      /\ DOMAIN tasks[t] = DOMAIN Idle
  BY TaskTyped DEF BallotEncrypted, LoginAnswered, At, TaskOK
<1>2. PICK pc \in {"Login", "Post"}, q \in {tasks'[t].request} :
        Set(t, Sends(tasks[t], pc, q))
  <2>1. ASSUME NEW pc \in {"Login", "Post"}, NEW q, Set(t, Sends(tasks[t], pc, q))
        PROVE  tasks'[t].request = q
    BY <1>1, <2>1, SendsFields DEF Set, WebInv, TasksInv
  <2>2. CASE BallotEncrypted(t)
    <3>. DEFINE login == LoginRequest(tasks[t].arg.nullifier.secret)
                ballot == BallotRequest(memoryVoterSessionToken, tasks[t].arg)
    <3>1. Set(t, Sends(tasks[t], "Login", login)) \/ Set(t, Sends(tasks[t], "Post", ballot))
      BY <2>2 DEF BallotEncrypted
    <3>. HIDE DEF login, ballot
    <3>. QED
      BY <2>1, <3>1
  <2>3. CASE LoginAnswered(t)
    <3>. DEFINE ballot == BallotRequest(tasks[t].answer.body, tasks[t].arg)
    <3>1. Set(t, Sends(tasks[t], "Post", ballot))
      BY <2>3 DEF LoginAnswered
    <3>. HIDE DEF ballot
    <3>. QED
      BY <2>1, <3>1
  <2>. QED
    BY <2>2, <2>3
<1>. DEFINE task == Sends(tasks[t], pc, q)
<1>3. /\ task.handler = "cast" /\ task.row = tasks[t].row
      /\ task.count = tasks[t].count
  BY <1>1, SendsFields, SendsReads
<1>4. tasks[t].attached => view'.path = "/vote"
  BY <1>1, AttachedView
<1>. HIDE DEF task
<1>. QED
  BY <1>1, <1>2, <1>3, <1>4, CastMoves DEF page, OutcomeInv, task

LEMMA CastEndsTrue ==
  ASSUME WebInv, OutcomeInv, NEW t \in Tasks,
         CastReceipt(t) \/ \E why : CastFails(t, why)
  PROVE  OutcomeInv'
<1>1. tasks[t].handler = "cast" /\ Set(t, Idle) /\ UNCHANGED <<server, page>>
  BY DEF CastReceipt, CastFails, At, Ends
<1>2. IF tasks[t].attached THEN view'.path = "/vote" ELSE UNCHANGED view
  <2>1. tasks[t].attached => view.path = "/vote"
    BY <1>1, AttachedView
  <2>2. CASE CastReceipt(t)
    BY <2>1, <2>2, VoteFields DEF CastReceipt, Shows
  <2>3. CASE \E why : CastFails(t, why)
    <3>1. PICK why : CastFails(t, why)
      BY <2>3
    <3>. DEFINE message == Message(why)
    <3>2. Shows(t, [Cleared(view) EXCEPT !.submitting = FALSE, !.message = message])
      BY <3>1 DEF CastFails
    <3>. HIDE DEF message
    <3>. QED
      BY <2>1, <3>2, VoteFields DEF Cleared, Shows
  <2>. QED
    BY <2>2, <2>3
<1>. QED
  BY <1>1, <1>2, CastMoves DEF page, OutcomeInv

LEMMA LookupEndsTrue ==
  ASSUME WebInv, OutcomeInv, NEW t \in Tasks, NEW found, LookupEnds(t, found)
  PROVE  OutcomeInv'
<1>1. /\ tasks[t].handler = "lookup" /\ Ends(t) /\ UNCHANGED <<server, page>>
      /\ ~tasks[t].attached => UNCHANGED view
  BY DEF LookupEnds, Shows
<1>2. tasks[t].attached => view'.path = "/verify"
  <2>1. tasks[t].attached => view.path = "/verify"
    BY <1>1, AttachedView
  <2>. QED
    BY <2>1, VerifyFields DEF LookupEnds, Shows
<1>3. StatusTrue(view', Done)
  BY <1>1, <1>2, NothingTold DEF OutcomeInv
<1>. QED
  BY <1>1, <1>3, EndsTrue DEF page, OutcomeInv

LEMMA AdminFailsTrue ==
  ASSUME WebInv, OutcomeInv, NEW t \in Tasks, NEW why, AdminFails(t, why)
  PROVE  OutcomeInv'
<1>. DEFINE text == Message(why)
<1>1. /\ tasks[t].handler = "admin" /\ Ends(t) /\ UNCHANGED <<server, page>>
      /\ Shows(t, [view EXCEPT !.submitting = FALSE,
                               !.status = [type |-> "error", text |-> text]])
  BY DEF AdminFails, Failure
<1>. HIDE DEF text
<1>2. tasks[t].attached => view'.status = [type |-> "error", text |-> text]
  BY <1>1, AttachedView, AdminFields DEF Shows
<1>3. StatusTrue(view', Done)
  <2>1. CASE tasks[t].attached
    <3>1. view'.status.type = "error"
      BY <1>2, <2>1
    <3>. QED
      BY <3>1, NothingTold
  <2>2. CASE ~tasks[t].attached
    BY <1>1, <2>2 DEF Shows, OutcomeInv
  <2>. QED
    BY <2>1, <2>2
<1>. QED
  BY <1>1, <1>3, EndsTrue DEF page, OutcomeInv, Shows

LEMMA TrusteeEndsTrue ==
  ASSUME WebInv, OutcomeInv, NEW t \in Tasks,
         KeysGenerated(t) \/ Decrypted(t) \/ \E why : TrusteeFails(t, why)
  PROVE  OutcomeInv'
<1>1. /\ tasks[t].handler \in {"keygen", "decrypt"} /\ Ends(t)
      /\ UNCHANGED <<server, page>>
      /\ ~tasks[t].attached => UNCHANGED view
  BY DEF KeysGenerated, Decrypted, TrusteeFails, At, Shows
<1>2. ASSUME tasks[t].attached PROVE view'.path = "/trustee"
  <2>1. view.path = "/trustee"
    BY <1>1, <1>2, AttachedView
  <2>2. DOMAIN view' = DOMAIN view /\ view'.path = view.path
    BY <1>2, <2>1, TrusteeFields DEF KeysGenerated, Decrypted, TrusteeFails, Shows
  <2>. QED
    BY <2>1, <2>2
<1>3. StatusTrue(view', Done)
  BY <1>1, <1>2, NothingTold DEF OutcomeInv
<1>. QED
  BY <1>1, <1>3, EndsTrue DEF page, OutcomeInv

LEMMA RejectedTrue ==
  ASSUME WebInv, OutcomeInv, NEW t \in Tasks, Rejected(t) PROVE OutcomeInv'
BY CastEndsTrue, LookupEndsTrue, AdminFailsTrue, TrusteeEndsTrue
DEF Rejected, Fails, LookupFails

LEMMA ProceedsTrue ==
  ASSUME WebInv, OutcomeInv, NEW t \in Tasks, Proceeds(t) PROVE OutcomeInv'
<1>1. CASE EncryptionFailed(t)
  BY <1>1, CastEndsTrue DEF EncryptionFailed
<1>2. CASE TrusteeCryptoFailed(t)
  BY <1>2, TrusteeEndsTrue DEF TrusteeCryptoFailed
<1>3. CASE LookupAnswered(t)
  BY <1>3, LookupEndsTrue DEF LookupAnswered
<1>. QED
  BY <1>1, <1>2, <1>3, PostAnsweredTrue, CastStepTrue, CastEndsTrue, TrusteeEndsTrue
  DEF Proceeds, CastStep, TrusteeStep

\* A refresh stores what it has read, or leaves the page as it was.
LEMMA LoadsTrue ==
  ASSUME WebInv, OutcomeInv, NEW t \in Tasks, NEW why, RefreshEnds(t, why)
  PROVE  DetailsTrue(electionDetails', Outcome, Len(ledger))
<1>1. RefreshLoads(t) \/ UNCHANGED electionDetails
  BY DEF RefreshEnds, RefreshFails
<1>2. CASE RefreshLoads(t)
  <2>1. ReadsTrue(tasks[t], Outcome, Len(ledger))
    BY DEF OutcomeInv, WorkTrue
  <2>2. CASE tasks[t].row = None
    BY <1>2, <2>2 DEF RefreshLoads, DetailsTrue
  <2>3. CASE tasks[t].row # None
    <3>1. /\ electionDetails'.phase = tasks[t].row.phase
          /\ electionDetails'.tally = tasks[t].row.tally
          /\ electionDetails'.ballots = tasks[t].count
      BY <1>2, <2>3 DEF RefreshLoads
    <3>2. tasks[t].row # Pending /\ tasks[t].count # Pending
      BY <1>2 DEF RefreshLoads
    <3>. QED
      BY <2>1, <2>3, <3>1, <3>2 DEF ReadsTrue, RowTrue, CountTrue, DetailsTrue
  <2>. QED
    BY <2>2, <2>3
<1>3. CASE UNCHANGED electionDetails
  BY <1>3 DEF OutcomeInv
<1>. QED
  BY <1>1, <1>2, <1>3

LEMMA AdminDoneTrue ==
  ASSUME WebInv, OutcomeInv, NEW t \in Tasks, AdminDone(t), UNCHANGED server,
         tasks[t].pc = "Refresh",
         DetailsTrue(electionDetails', Outcome, Len(ledger))
  PROVE  OutcomeInv'
<1>1. /\ tasks[t].handler = "admin" /\ Ends(t)
      /\ Shows(t, [view EXCEPT !.submitting = FALSE,
                     !.status = [type |-> "success", text |-> tasks[t].arg]])
  BY DEF AdminDone, Success
<1>2. tasks[t].arg \in Done
  BY <1>1 DEF OutcomeInv, WorkTrue, AdminTrue
<1>3. StatusTrue(view', Done)
  <2>1. CASE tasks[t].attached
    <3>1. /\ view'.path = "/admin"
          /\ view'.status = [type |-> "success", text |-> tasks[t].arg]
      BY <1>1, <2>1, AttachedView, AdminFields DEF Shows
    <3>2. view'.status.text = tasks[t].arg
      BY <3>1
    <3>. QED
      BY <1>2, <3>1, <3>2 DEF StatusTrue
  <2>2. CASE ~tasks[t].attached
    BY <1>1, <2>2 DEF Shows, OutcomeInv
  <2>. QED
    BY <2>1, <2>2
<1>. QED
  BY <1>1, <1>3, EndsTrue DEF Shows

LEMMA RefreshedTrue ==
  ASSUME WebInv, OutcomeInv, NEW t \in Tasks, NEW why, Refreshed(t, why)
  PROVE  OutcomeInv'
<1>1. /\ DetailsTrue(electionDetails', Outcome, Len(ledger))
      /\ UNCHANGED server /\ tasks[t].pc = "Refresh"
  BY LoadsTrue DEF Refreshed, RefreshEnds
<1>2. CASE RefreshDone(t)
  BY <1>1, <1>2, EndsTrue DEF RefreshDone, OutcomeInv
<1>3. CASE CastAccepted(t)
  <2>. DEFINE task == [tasks[t] EXCEPT !.pc = "Digest", !.request = None]
  <2>1. tasks[t].handler = "cast" /\ Set(t, task) /\ Shows(t, Cleared(view))
    BY <1>3 DEF CastAccepted
  <2>2. /\ task.handler = "cast" /\ task.row = tasks[t].row
        /\ task.count = tasks[t].count
    BY <2>1, TaskTyped DEF TaskOK, Idle
  <2>3. IF tasks[t].attached THEN view'.path = "/vote" ELSE UNCHANGED view
    <3>1. tasks[t].attached => view.path = "/vote"
      BY <2>1, AttachedView
    <3>. QED
      BY <2>1, <3>1, VoteFields DEF Shows, Cleared
  <2>. HIDE DEF task
  <2>. QED
    BY <1>1, <2>1, <2>2, <2>3, CastMoves
<1>. QED
  BY <1>1, <1>2, <1>3, AdminDoneTrue DEF Refreshed

-----------------------------------------------------------------------------
(* The invariant                                                           *)

LEMMA OutcomeInit == Init => OutcomeInv
<1>. SUFFICES ASSUME Init PROVE OutcomeInv
  OBVIOUS
<1>1. PICK s \in InitialServers :
        election = s.election /\ created = s.created /\ issued = s.issued
  BY DEF Init
<1>2. ledger = << >> /\ electionDetails = None
  BY DEF Init
<1>3. YesAmong(Len(ledger)) = 0
  <2>1. {i \in 1..0 : ledger[i].ballot.vote = 1} = {}
    OBVIOUS
  <2>. QED
    BY <1>2, <2>1, FS_EmptySet DEF YesAmong
<1>4. RowInv
  BY <1>1, <1>3, InitialServersAssumption DEF RowInv
<1>5. DetailsTrue(electionDetails, Outcome, Len(ledger))
  BY <1>2 DEF DetailsTrue
<1>6. StatusTrue(view, Done)
  BY MountedTellsNothing DEF Init
<1>7. ASSUME NEW t \in Tasks
      PROVE  WorkTrue(tasks[t], Done, Outcome, Len(ledger))
  BY LoadingTrue DEF Init
<1>. QED
  BY <1>4, <1>5, <1>6, <1>7 DEF OutcomeInv

LEMMA OutcomeNext ==
  ASSUME OneElection PROVE WebInv /\ OutcomeInv /\ [Next]_vars => OutcomeInv'
<1>. SUFFICES ASSUME WebInv, OutcomeInv, [Next]_vars PROVE OutcomeInv'
  OBVIOUS
<1>1. CASE VoterActs
  BY <1>1, VoterFormTrue, CastStarts DEF VoterActs
<1>2. CASE AdminActs
  BY <1>2, AdminFormTrue, AdminStarts DEF AdminActs
<1>3. CASE TrusteeActs
  BY <1>3, TrusteeFormTrue, TrusteeStarts DEF TrusteeActs
<1>4. CASE LookupMalformed \/ \E t \in Tasks : Lookup(t)
  BY <1>4, LookupMalformedTrue, LookupStarts
<1>5. CASE Login \/ Logout \/ CryptoSettles
  BY <1>5, MemoryTrue
<1>6. CASE Navigate \/ PageHide \/ Reload
  BY <1>6, NavigateTrue, PageHideTrue, ReloadTrue
<1>7. CASE UserRefreshes
  BY <1>7, RefreshStarts DEF UserRefreshes
<1>8. ASSUME NEW t \in Tasks, ServerStep(t) PROVE OutcomeInv'
  BY <1>8, ServeTrue, ReadTrue DEF ServerStep
<1>9. ASSUME NEW t \in Tasks, Proceeds(t) \/ Rejected(t) PROVE OutcomeInv'
  BY <1>9, ProceedsTrue, RejectedTrue
<1>10. ASSUME NEW t \in Tasks, \E why \in Failures \cup {"none"} : Refreshed(t, why)
       PROVE  OutcomeInv'
  BY <1>10, RefreshedTrue
<1>11. CASE ServeLate \/ OtherClients \/ TimePasses
  BY <1>11, AloneTrue
<1>12. CASE UNCHANGED vars
  BY <1>12, ViewTrue DEF vars, page, OutcomeInv
<1>. QED
  BY <1>1, <1>2, <1>3, <1>4, <1>5, <1>6, <1>7, <1>8, <1>9, <1>10, <1>11, <1>12
  DEF Next

LEMMA OutcomeSafe == ASSUME OneElection PROVE Spec => []OutcomeInv
BY OutcomeInit, OutcomeNext, WebSafe, PTL DEF Spec

-----------------------------------------------------------------------------
(* The theorems                                                            *)

\* What an administrator is told was done is done, through requests that are
\* answered late, repeated or lost, and views that are left.
THEOREM SuccessesTellTruth == ASSUME OneElection PROVE Spec => []SuccessIsTrue
<1>1. OutcomeInv => SuccessIsTrue
  BY DEF OutcomeInv, StatusTrue, ToldSuccess, SuccessIsTrue, Done
<1>. QED
  BY <1>1, OutcomeSafe, PTL

\* A page that shows a complete election shows all of its ballots and the number
\* of YES among them, whenever and in whatever order the answers were read.
THEOREM ResultsShownWhole == ASSUME OneElection PROVE Spec => []CompleteShownWhole
<1>1. WebInv /\ OutcomeInv => CompleteShownWhole
  <2>. SUFFICES ASSUME WebInv, OutcomeInv PROVE CompleteShownWhole
    OBVIOUS
  <2>1. YesAmong(Len(ledger)) \in Nat /\ Len(ledger) \in Nat
    BY YesIsNat DEF WebInv, ServerInv
  <2>2. ASSUME electionDetails # None, electionDetails.phase = "Complete"
        PROVE  /\ electionDetails.tally = YesAmong(Len(ledger))
               /\ electionDetails.ballots = Len(ledger)
    BY <2>2 DEF OutcomeInv, RowInv, DetailsTrue, RowTrue, CountTrue, Outcome
  <2>3. electionDetails # None /\ electionDetails.tally # -1 =>
          electionDetails.phase = "Complete"
    BY DEF OutcomeInv, DetailsTrue, RowTrue
  <2>4. PhaseName = "Complete" \/ Statistics.verified =>
          electionDetails # None /\ electionDetails.phase = "Complete"
    BY <2>3 DEF PhaseName, Statistics
  <2>5. ASSUME electionDetails # None, electionDetails.phase = "Complete"
        PROVE  FinalResult = [yes |-> YesAmong(Len(ledger)), total |-> Len(ledger)]
    BY <2>1, <2>2, <2>5 DEF FinalResult, PhaseName, Statistics
  <2>6. [yes |-> YesAmong(Len(ledger)), total |-> Len(ledger)] # None
    <3>1. \A y, n \in Nat : [yes |-> y, total |-> n] \in [yes : Nat, total : Nat]
      OBVIOUS
    <3>2. \A r \in [yes : Nat, total : Nat] : r # None
      BY NoneAssumption
    <3>. QED
      BY <2>1, <3>1, <3>2, Zenon
  <2>7. FinalResult # None => PhaseName = "Complete"
    BY DEF FinalResult
  <2>. QED
    BY <2>4, <2>5, <2>6, <2>7 DEF CompleteShownWhole
<1>. QED
  BY <1>1, WebSafe, OutcomeSafe, PTL

-----------------------------------------------------------------------------
(* The trustees' tally                                                     *)

\* What takes a decryption from its first await: the search, or the page is
\* loaded anew.
LEMMA DecryptionMoves ==
  ASSUME WebInv, Next, NEW t \in Tasks, At(t, "decrypt", "Crypto"),
         tasks'[t].pc # "Crypto"
  PROVE  Reload \/ Decrypted(t) \/ TrusteeCryptoFailed(t)
<1>1. /\ tasks[t].pc = "Crypto" /\ tasks[t].handler = "decrypt"
      /\ tasks[t].request = None /\ DOMAIN tasks[t] = DOMAIN Idle
      /\ DOMAIN tasks = Tasks
  BY TaskTyped DEF At, TaskOK, WebInv, TasksInv
<1>2. ASSUME NEW u \in Tasks, NEW task, Set(u, task) PROVE u = t
  BY <1>1, <1>2 DEF Set
<1>3. tasks' # tasks
  BY <1>1
<1>4. CASE VoterActs \/ AdminActs \/ TrusteeActs
  <2>1. \A u \in Tasks : ~CastBallot(u)
    BY <1>1, <1>2 DEF CastBallot, Free
  <2>2. \A u \in Tasks :
          ~CreateElectionForm(u) /\ ~RegisterVoters(u) /\ ~ConfirmTransition(u)
    BY <1>1, <1>2
    DEF CreateElectionForm, RegisterVoters, ConfirmTransition, Administers, Free
  <2>3. \A u \in Tasks : ~GenerateKeys(u) /\ ~Decrypt(u)
    BY <1>1, <1>2 DEF GenerateKeys, Decrypt, Free
  <2>. QED
    BY <1>3, <1>4, <2>1, <2>2, <2>3
    DEF VoterActs, PickVote, TypeSecret, TypeElectionId, ReviewBallot,
        CancelConfirm, CastInvalid, DismissReceipt, Fills,
        AdminActs, CreateInvalid, RegisterInvalid, AskTransition,
        CancelTransition, Shown,
        TrusteeActs, GenerateRefused, ClearSetup, TypeShares, DecryptRefused, Becomes
<1>5. CASE LookupMalformed \/ (\E u \in Tasks : Lookup(u)) \/ UserRefreshes
  BY <1>1, <1>2, <1>3, <1>5
  DEF LookupMalformed, Lookup, UserRefreshes, Refresh, RefreshBegins, Free
<1>6. CASE Navigate
  <2>1. tasks'[t] = [tasks[t] EXCEPT !.attached = FALSE]
    BY <1>1, <1>6 DEF Navigate, Unmounted
  <2>. QED
    BY <1>1, <2>1 DEF Idle
<1>7. CASE Login \/ Logout \/ PageHide \/ CryptoSettles \/ ServeLate
           \/ OtherClients \/ TimePasses
  BY <1>3, <1>7
  DEF Login, Logout, PageHide, CryptoSettles, ServeLate, OtherClients, TimePasses
<1>8. ASSUME NEW u \in Tasks, ServerStep(u) PROVE FALSE
  BY <1>1, <1>2, <1>8 DEF ServerStep, Serve, ReadRow, ReadCount, ReadTally
<1>9. ASSUME NEW u \in Tasks, Proceeds(u)
      PROVE  Decrypted(t) \/ TrusteeCryptoFailed(t)
  <2>1. u = t
    <3>1. CASE PostAnswered(u)
      BY <1>2, <3>1 DEF PostAnswered, RefreshBegins
    <3>2. CASE CastStep(u)
      BY <1>2, <3>2
      DEF CastStep, BallotEncrypted, LoginAnswered, EncryptionFailed, CastFails,
          CastReceipt, Ends
    <3>3. CASE LookupAnswered(u)
      BY <1>2, <3>3 DEF LookupAnswered, LookupEnds, Ends
    <3>4. CASE TrusteeStep(u)
      BY <1>2, <3>4
      DEF TrusteeStep, KeysGenerated, Decrypted, TrusteeCryptoFailed, TrusteeFails,
          Ends
    <3>. QED
      BY <1>9, <3>1, <3>2, <3>3, <3>4 DEF Proceeds
  <2>2. ~PostAnswered(t) /\ ~CastStep(t) /\ ~LookupAnswered(t) /\ ~KeysGenerated(t)
    BY <1>1
    DEF PostAnswered, CastStep, BallotEncrypted, LoginAnswered, EncryptionFailed,
        CastReceipt, LookupAnswered, KeysGenerated, At
  <2>. QED
    BY <1>9, <2>1, <2>2 DEF Proceeds, TrusteeStep
<1>10. ASSUME NEW u \in Tasks, Rejected(u) PROVE FALSE
  <2>1. tasks[u].request # None
    BY <1>10 DEF Rejected, Throws
  <2>2. \E task : Set(u, task)
    BY <1>10
    DEF Rejected, Fails, CastFails, LookupFails, LookupEnds, AdminFails,
        TrusteeFails, Ends
  <2>. QED
    BY <1>1, <1>2, <2>1, <2>2
<1>11. ASSUME NEW u \in Tasks, NEW why, Refreshed(u, why) PROVE FALSE
  <2>1. tasks[u].pc = "Refresh"
    BY <1>11 DEF Refreshed, RefreshEnds
  <2>2. \E task : Set(u, task)
    BY <1>11
    DEF Refreshed, RefreshDone, CastAccepted, AdminDone, Ends
  <2>. QED
    BY <1>1, <1>2, <2>1, <2>2
<1>. QED
  BY <1>4, <1>5, <1>6, <1>7, <1>8, <1>9, <1>10, <1>11 DEF Next

\* With the right key the search finds the number of YES if the bound allows it.
LEMMA TallyFound ==
  ASSUME WebInv, NEW t \in Tasks, At(t, "decrypt", "Crypto"),
         tasks[t].arg.rightKey,
         YesAmong(tasks[t].arg.sum) <= tasks[t].arg.bound,
         NEW root \in Roots(tasks[t].arg.bound)
  PROVE  Tallies(tasks[t].arg, root) = {YesAmong(tasks[t].arg.sum)}
<1>. DEFINE bound == tasks[t].arg.bound
            yes == YesAmong(tasks[t].arg.sum)
<1>1. bound \in Nat /\ bound < Order /\ tasks[t].arg.sum \in Nat
  <2>1. ArgOK(tasks[t]) /\ tasks[t].handler = "decrypt"
    BY TaskTyped DEF At, TaskOK
  <2>2. tasks[t].arg.sum \in Nat /\ ValidTallyBound(bound)
    BY <2>1 DEF ArgOK
  <2>. QED
    <3>1. MaxTallyBound \in Nat /\ MaxTallyBound < Order
      BY OrderAssumption DEF MaxTallyBound
    <3>. QED
      BY <2>2, <3>1, OrderAssumption DEF ValidTallyBound
<1>2. yes \in Nat
  <2>1. IsFiniteSet(1..tasks[t].arg.sum)
    <3>1. \A a, b \in Int : IsFiniteSet(a..b)
      BY FS_Interval
    <3>2. 1 \in Int /\ tasks[t].arg.sum \in Int
      BY <1>1
    <3>. QED
      BY <3>1, <3>2
  <2>2. IsFiniteSet({i \in 1..tasks[t].arg.sum : ledger[i].ballot.vote = 1})
    BY <2>1, FS_Subset
  <2>. QED
    BY <2>2, FS_CardinalityType DEF YesAmong
<1>3. Tallies(tasks[t].arg, root) = SolveDiscreteLog(yes, bound, root)
  BY DEF Tallies
<1>. HIDE DEF bound, yes
<1>4. yes <= bound /\ yes < Order
  BY <1>1, <1>2, OrderAssumption DEF bound, yes
<1>5. root \in Roots(bound)
  BY DEF bound
<1>. QED
  BY <1>1, <1>2, <1>3, <1>4, <1>5, SearchIsExact DEF yes

\* Trustees with the right shares and a bound that is not too small are shown
\* the right tally, for every number of ballots, every order of the group and
\* every bound.
THEOREM RightSharesSuffice == Spec => SharesSuffice
<1>1. WebInv /\ [Next]_vars => [
        \A t \in Tasks :
          /\ At(t, "decrypt", "Crypto") /\ tasks[t].attached
          /\ Initialized
          /\ tasks[t].arg.rightKey
          /\ YesAmong(tasks[t].arg.sum) <= tasks[t].arg.bound
          /\ tasks'[t].pc # "Crypto"
          => Reload \/ view'.result = YesAmong(tasks[t].arg.sum)]_vars
  <2>. SUFFICES ASSUME WebInv, Next, NEW t \in Tasks,
                       At(t, "decrypt", "Crypto"), tasks[t].attached, Initialized,
                       tasks[t].arg.rightKey,
                       YesAmong(tasks[t].arg.sum) <= tasks[t].arg.bound,
                       tasks'[t].pc # "Crypto", ~Reload
                PROVE  view'.result = YesAmong(tasks[t].arg.sum)
    OBVIOUS
  <2>1. Decrypted(t) \/ TrusteeCryptoFailed(t)
    BY DecryptionMoves
  <2>2. ~TrusteeCryptoFailed(t)
    BY TallyFound DEF TrusteeCryptoFailed, Initialized
  <2>. DEFINE told == FailsWith(Message("NotSerializable"))
  <2>3. PICK root \in Roots(tasks[t].arg.bound) :
          \E yes \in Tallies(tasks[t].arg, root) :
            Shows(t, [view EXCEPT !.result = yes, !.processing = FALSE,
                                  !.shares = None, !.status = told])
    BY <2>1, <2>2 DEF Decrypted
  <2>. HIDE DEF told
  <2>4. Shows(t, [view EXCEPT !.result = YesAmong(tasks[t].arg.sum),
                  !.processing = FALSE, !.shares = None, !.status = told])
    BY <2>3, TallyFound
  <2>5. view.path = "/trustee"
    BY AttachedView DEF At
  <2>. QED
    BY <2>4, <2>5, TrusteeFields DEF Shows
<1>. QED
  BY <1>1, WebSafe, PTL DEF Spec, SharesSuffice

=============================================================================
