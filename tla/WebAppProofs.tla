---------------------------- MODULE WebAppProofs ----------------------------
(***************************************************************************)
(* Proofs of the safety of the web application, for any number of          *)
(* handlers, voters, elections and other clients.                          *)
(***************************************************************************)
EXTENDS WebAppProperties, FiniteSetTheorems, TLAPS

-----------------------------------------------------------------------------
(* The inductive invariant                                                 *)

Logged(b, log) == \E i \in 1..Len(log) : log[i].ballot = b

NullifierLogged(n, log) == \E i \in 1..Len(log) : log[i].ballot.nullifier = n

\* A request names a key and a ballot of the election, and a session of a code
\* that was issued.
RequestOK(q, codes) ==
  /\ q.op \in Requested
  /\ q.op = "Ballot" => q.ballot \in Ballots /\ q.token.code \in codes
  /\ q.op = "Create" => q.pk \in PublicKeys

Accepted(task) == task.answer # Pending /\ task.answer.why = "none"

\* How far a submission has come, and what that says of the log.
CastOK(task, codes, log) ==
  /\ task.pc = "Login" =>
       /\ task.request.op = "Login"
       /\ Accepted(task) => task.answer.body.code \in codes
  /\ task.pc = "Post" =>
       /\ task.request.op = "Ballot" /\ task.request.ballot = task.arg
       /\ task.request.token.code \in codes
       /\ Accepted(task) => Logged(task.arg, log)
       /\ task.answer # Pending /\ task.answer.why = "Duplicate" =>
            NullifierLogged(task.arg.nullifier, log)
  /\ task.pc \in {"Login", "Post"} =>
       /\ task.answer # Pending => task.answer.why # "Double-vote prevented"
       /\ task.pc = "Login" /\ task.answer # Pending => task.answer.why # "Duplicate"
  /\ task.pc \in {"Crypto", "Login", "Post", "Refresh", "Digest"}
  /\ task.pc = "Crypto" => task.request = None
  /\ task.pc \in {"Refresh", "Digest"} => task.request = None /\ Logged(task.arg, log)

LookupOK(task, log) ==
  /\ task.pc = "Lookup"
  /\ task.request.op = "Bulletin"
  /\ task.request.nullifier = task.arg
  /\ Accepted(task) /\ task.answer.body = TRUE => NullifierLogged(task.arg, log)

Loaded(task) ==
  /\ task.row # Pending /\ task.row # None =>
       task.row.phase \in Phases /\ task.row.pk \in PublicKeys
  /\ task.count # Pending => task.count \in Nat
  /\ task.tally # Pending => task.tally \in Nat \cup {None}

TaskOK(task, codes, log) ==
  /\ DOMAIN task = DOMAIN Idle
  /\ task.pc \in {"Idle", "Crypto", "Login", "Post", "Lookup", "Refresh", "Digest"}
  /\ task.attached \in BOOLEAN
  /\ task.handler \in {None, "refresh", "cast", "lookup", "admin", "keygen", "decrypt"}
  /\ task.pc = "Idle" => ~task.attached
  /\ ArgOK(task)
  /\ task.request # None => RequestOK(task.request, codes)
  /\ Loaded(task)
  /\ task.handler = "cast" => CastOK(task, codes, log)
  /\ task.handler = "lookup" => LookupOK(task, log)
  /\ task.handler = "decrypt" /\ task.pc = "Crypto" => task.request = None

Entries == [ballot : Ballots, by : Credentials]

ServerInv ==
  /\ election \in [phase : Phase, pk : PublicKeys, tally : {election.tally}]
  /\ issued \subseteq Credentials
  /\ spent \subseteq issued
  /\ ledger \in Seq(Entries)
  /\ \A i \in 1..Len(ledger) : ledger[i].by \in issued

PageInv ==
  /\ electionDetails # None =>
       /\ electionDetails.phase \in Phases
       /\ electionDetails.pk \in PublicKeys
       /\ electionDetails.ballots \in Nat
  /\ encryptedTally \in Nat \cup {None}
  /\ loading \in BOOLEAN /\ isDemoExpired \in BOOLEAN

MemoryInv ==
  /\ memoryVoterSessionToken # None => memoryVoterSessionToken.code \in issued
  /\ isAuthenticated \in BOOLEAN
  /\ cryptoModule \in {"unset", "ready", "failed"}

TasksInv ==
  /\ DOMAIN tasks = Tasks
  /\ \A t \in Tasks : TaskOK(tasks[t], issued, ledger)

LateInv == \A q \in late : RequestOK(q, issued)

ViewInv ==
  /\ "path" \in DOMAIN view
  /\ DOMAIN view = DOMAIN Mounted(view.path)
  /\ ViewOK(view)
  /\ view.path = "/vote" /\ view.receipt # None => Logged(view.receipt, ledger)
  /\ view.path = "/verify" /\ ToldRecorded =>
       NullifierLogged(view.result.nullifier, ledger)

\* The view a handler belongs to.
PathOf(handler) ==
  CASE handler = "cast" -> "/vote"
    [] handler = "lookup" -> "/verify"
    [] handler = "admin" -> "/admin"
    [] handler \in {"keygen", "decrypt"} -> "/trustee"
    [] OTHER -> None

\* The one handler of the mounted view.
AttachedInv ==
  /\ \A t, u \in Tasks : tasks[t].attached /\ tasks[u].attached => t = u
  /\ Busy <=> \E t \in Tasks : tasks[t].attached
  /\ \A t \in Tasks : tasks[t].attached =>
       /\ tasks[t].handler \in {"cast", "lookup", "admin", "keygen", "decrypt"}
       /\ view.path = PathOf(tasks[t].handler)
       /\ tasks[t].handler = "cast" =>
            view.message = None /\ view.id = tasks[t].arg.nullifier.domain
       /\ tasks[t].handler = "decrypt" => view.shares = None

WebInv ==
  /\ ServerInv /\ PageInv /\ MemoryInv /\ TasksInv /\ LateInv
  /\ ViewInv /\ AttachedInv

-----------------------------------------------------------------------------
(* The server                                                              *)

\* Nothing is lost: neither ballots of the log nor codes.
Longer(log, log2) ==
  \A i \in 1..Len(log) : i \in 1..Len(log2) /\ log2[i] = log[i]

Grows == issued \subseteq issued' /\ Longer(ledger, ledger')

\* What is known of a handler stays true when the server grows.
LEMMA TaskStays ==
  ASSUME NEW task, NEW codes, NEW codes2, NEW log, NEW log2,
         codes \subseteq codes2, Longer(log, log2), TaskOK(task, codes, log)
  PROVE  TaskOK(task, codes2, log2)
<1>1. \A b : Logged(b, log) => Logged(b, log2)
  BY DEF Logged, Longer
<1>2. \A n : NullifierLogged(n, log) => NullifierLogged(n, log2)
  BY DEF NullifierLogged, Longer
<1>3. \A q : RequestOK(q, codes) => RequestOK(q, codes2)
  BY DEF RequestOK
<1>4. task.handler = "cast" => CastOK(task, codes2, log2)
  BY <1>1, <1>2 DEF TaskOK, CastOK
<1>5. task.handler = "lookup" => LookupOK(task, log2)
  BY <1>2 DEF TaskOK, LookupOK
<1>. QED
  BY <1>3, <1>4, <1>5 DEF TaskOK

LEMMA Appended ==
  ASSUME NEW S, NEW log \in Seq(S), NEW x \in S
  PROVE  /\ Append(log, x) \in Seq(S)
         /\ Len(log) \in Nat
         /\ Len(Append(log, x)) = Len(log) + 1
         /\ Append(log, x)[Len(log) + 1] = x
         /\ Longer(log, Append(log, x))
BY DEF Longer

\* A request that is handled, of whichever client.
LEMMA HandleSafe ==
  ASSUME ServerInv, NEW q,
         q.op = "Ballot" => q.ballot \in Ballots /\ q.token.code \in issued,
         q.op = "Create" => q.pk \in PublicKeys,
         Handle(q)
  PROVE  /\ ServerInv' /\ Grows
         /\ q.op = "Ballot" /\ Refusal(q) = "none" => Logged(q.ballot, ledger')
<1>0. Longer(ledger, ledger)
  BY DEF Longer
<1>1. CASE UNCHANGED server /\ ~(q.op = "Ballot" /\ Refusal(q) = "none")
  BY <1>0, <1>1 DEF server, ServerInv, Grows
<1>2. CASE Refusal(q) = "none" /\ CreateElection(q)
  BY <1>0, <1>2 DEF CreateElection, ServerInv, Grows, Phase, Phases
<1>3. CASE Refusal(q) = "none" /\ IssueCredentials(q)
  BY <1>0, <1>3 DEF IssueCredentials, ServerInv, Grows
<1>4. CASE Refusal(q) = "none" /\ ChangePhase(q)
  BY <1>0, <1>4 DEF ChangePhase, ServerInv, Grows, Phase, Phases
<1>5. CASE Refusal(q) = "none" /\ SubmitBallot(q)
  <2>. DEFINE entry == [ballot |-> q.ballot, by |-> q.token.code]
  <2>1. /\ ledger' = Append(ledger, entry)
        /\ spent' = spent \cup {q.token.code}
        /\ UNCHANGED <<election, created, issued, expiries>>
    BY <1>5
    DEF SubmitBallot, Ledger!CastWithCredential, Ledger!Record
  <2>2. entry \in Entries /\ entry.by \in issued /\ entry.ballot = q.ballot
    BY <1>5 DEF SubmitBallot, Entries, ServerInv
  <2>. HIDE DEF entry
  <2>3. /\ ledger' \in Seq(Entries) /\ Longer(ledger, ledger')
        /\ Len(ledger) \in Nat /\ Len(ledger') = Len(ledger) + 1
        /\ ledger'[Len(ledger) + 1] = entry
    BY <2>1, <2>2, Appended DEF ServerInv
  <2>4. \A i \in 1..Len(ledger') :
          i = Len(ledger) + 1 \/ (i \in 1..Len(ledger) /\ ledger'[i] = ledger[i])
    BY <2>3 DEF Longer
  <2>5. \A i \in 1..Len(ledger') : ledger'[i].by \in issued'
    BY <2>1, <2>2, <2>3, <2>4 DEF ServerInv
  <2>6. q.token.code \in issued
    BY <1>5 DEF SubmitBallot
  <2>7. Logged(q.ballot, ledger')
    <3>1. Len(ledger) + 1 \in 1..Len(ledger')
      BY <2>3
    <3>. QED
      BY <3>1, <2>2, <2>3 DEF Logged
  <2>8. ServerInv'
    BY <2>1, <2>3, <2>5, <2>6 DEF ServerInv
  <2>. QED
    BY <2>1, <2>3, <2>7, <2>8 DEF Grows
<1>. QED
  BY <1>1, <1>2, <1>3, <1>4, <1>5
  DEF Handle, CreateElection, IssueCredentials, ChangePhase, ReadOnly

-----------------------------------------------------------------------------
(* Frames: what a step leaves alone                                        *)

LEMMA NoGrowth == ASSUME UNCHANGED server PROVE Grows
BY DEF server, Grows, Longer

LEMMA ServerStays ==
  ASSUME ServerInv, UNCHANGED server PROVE ServerInv'
BY DEF server, ServerInv

LEMMA PageStays == ASSUME PageInv, UNCHANGED page PROVE PageInv'
BY DEF PageInv, page

LEMMA MemoryStays ==
  ASSUME MemoryInv, Grows, UNCHANGED memory PROVE MemoryInv'
BY DEF MemoryInv, memory, Grows

LEMMA LateStays ==
  ASSUME LateInv, Grows,
         \A q \in late' : q \in late \/ RequestOK(q, issued)
  PROVE  LateInv'
BY DEF LateInv, Grows, RequestOK

LEMMA ViewStays == ASSUME ViewInv, Grows, UNCHANGED view PROVE ViewInv'
BY DEF ViewInv, Grows, Longer, Logged, NullifierLogged, ToldRecorded

LEMMA TasksStay == ASSUME TasksInv, Grows, UNCHANGED tasks PROVE TasksInv'
BY TaskStays DEF TasksInv, Grows

LEMMA AttachedStays ==
  ASSUME AttachedInv, UNCHANGED <<view, tasks>> PROVE AttachedInv'
BY DEF AttachedInv, Busy

\* One handler goes on; those of the other slots are as they were.
LEMMA OneTask ==
  ASSUME TasksInv, Grows, NEW t \in Tasks, NEW task, Set(t, task),
         TaskOK(task, issued', ledger')
  PROVE  /\ TasksInv' /\ tasks'[t] = task
         /\ \A u \in Tasks \ {t} : tasks'[u] = tasks[u]
<1>1. /\ DOMAIN tasks' = Tasks /\ tasks'[t] = task
      /\ \A u \in Tasks \ {t} : tasks'[u] = tasks[u]
  BY DEF TasksInv, Set
<1>2. \A u \in Tasks \ {t} : TaskOK(tasks'[u], issued', ledger')
  BY <1>1, TaskStays DEF TasksInv, Grows
<1>. QED
  BY <1>1, <1>2 DEF TasksInv

\* A handler goes on, for the same view with the same argument.
LEMMA SameAttached ==
  ASSUME AttachedInv, TasksInv, NEW t \in Tasks, UNCHANGED view,
         \A u \in Tasks \ {t} : tasks'[u] = tasks[u],
         tasks'[t].attached = tasks[t].attached,
         tasks[t].attached =>
           tasks'[t].handler = tasks[t].handler /\ tasks'[t].arg = tasks[t].arg
  PROVE  AttachedInv'
<1>1. \A u \in Tasks :
        /\ tasks'[u].attached = tasks[u].attached
        /\ tasks[u].attached =>
             tasks'[u].handler = tasks[u].handler /\ tasks'[u].arg = tasks[u].arg
  OBVIOUS
<1>2. Busy' = Busy
  BY DEF Busy
<1>. QED
  BY <1>1, <1>2 DEF AttachedInv

LEMMA IdleOK ==
  ASSUME NEW codes, NEW log PROVE TaskOK(Idle, codes, log)
<1>1. /\ Idle.handler = None /\ Idle.pc = "Idle" /\ Idle.attached = FALSE
      /\ Idle.arg = None /\ Idle.request = None
      /\ Idle.row = Pending /\ Idle.count = Pending /\ Idle.tally = Pending
  BY DEF Idle
<1>2. ArgOK(Idle)
  BY <1>1, NoneAssumption DEF ArgOK
<1>3. Loaded(Idle)
  BY <1>1 DEF Loaded
<1>. QED
  BY <1>1, <1>2, <1>3, NoneAssumption DEF TaskOK

\* The handler of slot t ends, and with it the work of its view.
LEMMA TaskEnds ==
  ASSUME WebInv, Grows, NEW t \in Tasks, Ends(t),
         IF tasks[t].attached THEN ~Busy' ELSE UNCHANGED view
  PROVE  TasksInv' /\ AttachedInv'
<1>1. /\ TasksInv' /\ tasks'[t] = Idle
      /\ \A u \in Tasks \ {t} : tasks'[u] = tasks[u]
  BY OneTask, IdleOK DEF Ends, WebInv
<1>2. tasks'[t].attached = FALSE
  BY <1>1 DEF Idle
<1>3. CASE tasks[t].attached
  <2>1. \A u \in Tasks : ~tasks'[u].attached
    BY <1>1, <1>2, <1>3 DEF WebInv, AttachedInv
  <2>. QED
    BY <1>1, <1>3, <2>1 DEF AttachedInv
<1>4. CASE ~tasks[t].attached
  <2>1. Busy' = Busy /\ view' = view
    BY <1>4 DEF Busy
  <2>2. \A u \in Tasks : tasks'[u].attached => tasks'[u] = tasks[u]
    BY <1>1, <1>2
  <2>3. \A u \in Tasks : tasks[u].attached => tasks'[u] = tasks[u]
    BY <1>1, <1>4
  <2>. QED
    BY <1>1, <2>1, <2>2, <2>3 DEF WebInv, AttachedInv
<1>. QED
  BY <1>3, <1>4

\* A handler of the mounted view starts in the free slot t.
LEMMA TaskStarts ==
  ASSUME WebInv, UNCHANGED server, NEW t \in Tasks, NEW task, Set(t, task),
         TaskOK(task, issued, ledger), task.attached, ~Busy, Busy',
         task.handler \in {"cast", "lookup", "admin", "keygen", "decrypt"},
         view'.path = PathOf(task.handler),
         task.handler = "cast" =>
           view'.message = None /\ view'.id = task.arg.nullifier.domain,
         task.handler = "decrypt" => view'.shares = None
  PROVE  TasksInv' /\ AttachedInv'
<1>1. /\ TasksInv' /\ tasks'[t] = task
      /\ \A u \in Tasks \ {t} : tasks'[u] = tasks[u]
  BY OneTask, NoGrowth DEF WebInv, server
<1>2. \A u \in Tasks : ~tasks[u].attached
  BY DEF WebInv, AttachedInv
<1>3. \A u \in Tasks : tasks'[u].attached <=> u = t
  BY <1>1, <1>2
<1>. QED
  BY <1>1, <1>3 DEF AttachedInv

-----------------------------------------------------------------------------
(* The server answers                                                      *)

LEMMA RecordedIsLogged ==
  ASSUME NEW n PROVE Recorded(n) <=> NullifierLogged(n, ledger)
BY DEF Recorded, NullifierLogged

\* The reasons of refusals: a repeated nullifier is one only if it is there.
LEMMA Reasons ==
  ASSUME NEW q, q.op \in Requested
  PROVE  /\ Refusal(q) # "Double-vote prevented"
         /\ Refusal(q) = "Duplicate" =>
              q.op = "Ballot" /\ Recorded(q.ballot.nullifier)
<1>1. LoginRefusal(q) \in {"Unauthorized", "NotOpen", "none"}
  BY DEF LoginRefusal
<1>2. /\ BallotRefusal(q) \in {"SessionExpired", "Consumed", "NotFound", "NotOpen",
                               "InvalidBallot", "Duplicate", "none"}
      /\ BallotRefusal(q) = "Duplicate" => Recorded(q.ballot.nullifier)
  BY DEF BallotRefusal
<1>3. FinalizeRefusal(q) \in {"NotFound", "NotTallying", "none", "ProofRefused"}
  BY DEF FinalizeRefusal
<1>4. OpenRefusal \in {"NotFound", "NotSetup", "NoCredentials", "none"}
  BY DEF OpenRefusal
<1>5. IssueRefusal(q) \in {"BadBatch", "NotFound", "RollLocked", "none"}
  BY DEF IssueRefusal
<1>6. /\ q.op = "Login" => Refusal(q) = LoginRefusal(q)
      /\ q.op = "Ballot" => Refusal(q) = BallotRefusal(q)
      /\ q.op = "Finalize" => Refusal(q) = FinalizeRefusal(q)
      /\ q.op = "Open" => Refusal(q) = OpenRefusal
      /\ q.op = "Issue" => Refusal(q) = IssueRefusal(q)
  BY DEF Refusal
<1>7. /\ q.op = "Create" => Refusal(q) \in {"none", "BadSchedule"}
      /\ q.op = "Close" => Refusal(q) \in {"none", "NotVoting"}
      /\ q.op = "Bulletin" => Refusal(q) = "none"
  BY DEF Refusal
<1>8. q.op # "Ballot" => Refusal(q) \notin {"Duplicate", "Double-vote prevented"}
  BY <1>1, <1>3, <1>4, <1>5, <1>6, <1>7 DEF Requested
<1>. QED
  BY <1>2, <1>6, <1>8

LEMMA ServeSafe ==
  ASSUME WebInv, NEW t \in Tasks, Serve(t)
  PROVE  WebInv'
<1>. DEFINE q == tasks[t].request
            answer == [why |-> Refusal(q), body |-> Body(q)]
            task == [tasks[t] EXCEPT !.answer = answer]
<1>1. /\ tasks[t].request # None /\ Set(t, task) /\ Handle(q)
      /\ UNCHANGED <<page, memory, view, late>>
  BY DEF Serve
<1>2. TaskOK(tasks[t], issued, ledger) /\ RequestOK(q, issued)
  BY <1>1 DEF WebInv, TasksInv, TaskOK
<1>3. /\ ServerInv' /\ Grows
      /\ q.op = "Ballot" /\ Refusal(q) = "none" => Logged(q.ballot, ledger')
  BY <1>1, <1>2, HandleSafe DEF WebInv, RequestOK
<1>4. TaskOK(tasks[t], issued', ledger')
  BY <1>2, <1>3, TaskStays DEF Grows
<1>5. /\ DOMAIN task = DOMAIN Idle /\ task.answer = answer
      /\ task.handler = tasks[t].handler /\ task.pc = tasks[t].pc
      /\ task.attached = tasks[t].attached /\ task.arg = tasks[t].arg
      /\ task.request = q /\ task.row = tasks[t].row
      /\ task.count = tasks[t].count /\ task.tally = tasks[t].tally
  BY <1>2 DEF TaskOK, Idle
<1>6. /\ answer.why # "Double-vote prevented"
      /\ answer.why = "Duplicate" =>
           q.op = "Ballot" /\ NullifierLogged(q.ballot.nullifier, ledger)
  BY <1>2, Reasons, RecordedIsLogged DEF RequestOK
<1>7. \A n : NullifierLogged(n, ledger) => NullifierLogged(n, ledger')
  BY <1>3 DEF Grows, Longer, NullifierLogged
<1>8. q.op = "Login" /\ answer.why = "none" => answer.body.code \in issued'
  BY <1>3 DEF Refusal, LoginRefusal, Body, Token, Grows
<1>9. q.op = "Bulletin" /\ answer.body = TRUE => NullifierLogged(q.nullifier, ledger')
  BY <1>7, RecordedIsLogged DEF Body
<1>. HIDE DEF answer, q
<1>10. task.handler = "cast" => CastOK(task, issued', ledger')
  <2>. SUFFICES ASSUME task.handler = "cast" PROVE CastOK(task, issued', ledger')
    OBVIOUS
  <2>1. CastOK(tasks[t], issued', ledger')
    BY <1>4, <1>5 DEF TaskOK
  <2>2. answer.why = Refusal(q)
    BY DEF answer
  <2>3. task.pc = "Login" => answer.why # "Duplicate"
    BY <2>1, <1>5, <1>6 DEF CastOK, q
  <2>. QED
    BY <2>1, <2>2, <2>3, <1>3, <1>5, <1>6, <1>7, <1>8 DEF CastOK, Accepted, q
<1>11. task.handler = "lookup" => LookupOK(task, ledger')
  BY <1>4, <1>5, <1>9 DEF TaskOK, LookupOK, Accepted, q
<1>12. TaskOK(task, issued', ledger')
  <2>1. ArgOK(task) /\ Loaded(task)
    BY <1>4, <1>5 DEF TaskOK, ArgOK, Loaded
  <2>. QED
    BY <1>4, <1>5, <1>10, <1>11, <2>1 DEF TaskOK, q
<1>13. TasksInv' /\ tasks'[t] = task /\ \A u \in Tasks \ {t} : tasks'[u] = tasks[u]
  BY <1>1, <1>3, <1>12, OneTask DEF WebInv
<1>14. AttachedInv'
  BY <1>1, <1>5, <1>13, SameAttached DEF WebInv
<1>. QED
  BY <1>1, <1>3, <1>13, <1>14, PageStays, MemoryStays, LateStays, ViewStays
  DEF WebInv

\* Steps of the server that no handler of this page waits for.
LEMMA AloneSafe ==
  ASSUME WebInv, ServeLate \/ OtherClients \/ TimePasses
  PROVE  WebInv'
<1>1. ServerInv' /\ Grows /\ UNCHANGED <<page, memory, view, tasks>> /\ late' \subseteq late
  <2>1. CASE ServeLate
    BY <2>1, HandleSafe DEF ServeLate, WebInv, LateInv, RequestOK
  <2>2. CASE OtherClients
    BY <2>2, HandleSafe, ElsewhereAssumption DEF OtherClients, WebInv
  <2>3. CASE TimePasses
    BY <2>3 DEF TimePasses, SessionsExpire, WebInv, ServerInv, Grows, Longer
  <2>. QED
    BY <2>1, <2>2, <2>3
<1>. QED
  BY <1>1, PageStays, MemoryStays, LateStays, ViewStays, TasksStay, AttachedStays
  DEF WebInv

-----------------------------------------------------------------------------
(* Handlers that go on without a word to their view                        *)

LEMMA QuietStep ==
  ASSUME WebInv, UNCHANGED <<server, view, late>>, NEW t \in Tasks, NEW task,
         Set(t, task), TaskOK(task, issued, ledger),
         task.attached = tasks[t].attached,
         task.attached =>
           task.handler = tasks[t].handler /\ task.arg = tasks[t].arg,
         PageInv', MemoryInv'
  PROVE  WebInv'
<1>1. Grows /\ issued' = issued /\ ledger' = ledger
  BY NoGrowth DEF server
<1>2. TasksInv' /\ tasks'[t] = task /\ \A u \in Tasks \ {t} : tasks'[u] = tasks[u]
  BY <1>1, OneTask DEF WebInv
<1>3. AttachedInv'
  BY <1>2, SameAttached DEF WebInv
<1>. QED
  BY <1>1, <1>2, <1>3, ServerStays, LateStays, ViewStays DEF WebInv

\* A handler begins to refresh the page.
LEMMA RefreshingOK ==
  ASSUME NEW task, NEW codes, NEW log, TaskOK(task, codes, log),
         task.handler \notin {"lookup"}, task.handler = "cast" => Logged(task.arg, log)
  PROVE  /\ TaskOK(Refreshing(task), codes, log)
         /\ Refreshing(task).attached = task.attached
         /\ Refreshing(task).handler = task.handler
         /\ Refreshing(task).arg = task.arg
<1>. DEFINE new == Refreshing(task)
<1>1. /\ DOMAIN new = DOMAIN Idle
      /\ new.pc = "Refresh" /\ new.request = None
      /\ new.row = Pending /\ new.count = Pending /\ new.tally = Pending
      /\ new.handler = task.handler /\ new.arg = task.arg
      /\ new.attached = task.attached
  BY DEF Refreshing, TaskOK, Idle
<1>. HIDE DEF new
<1>2. ArgOK(new)
  BY <1>1 DEF TaskOK, ArgOK
<1>3. TaskOK(new, codes, log)
  BY <1>1, <1>2 DEF TaskOK, Loaded, CastOK
<1>. QED
  BY <1>1, <1>3 DEF new

LEMMA PageBegins ==
  ASSUME PageInv, NEW t, NEW task, RefreshBegins(t, task) PROVE PageInv'
BY DEF PageInv, RefreshBegins

LEMMA RefreshSafe ==
  ASSUME WebInv, NEW t \in Tasks, Refresh(t) PROVE WebInv'
<1>. DEFINE task == [Idle EXCEPT !.handler = "refresh"]
<1>1. /\ tasks[t].pc = "Idle" /\ RefreshBegins(t, task)
      /\ UNCHANGED <<server, memory, view, late>>
  BY DEF Refresh, Free
<1>2. /\ DOMAIN task = DOMAIN Idle /\ task.handler = "refresh" /\ task.pc = "Idle"
      /\ task.attached = FALSE /\ task.arg = None /\ task.request = None
      /\ task.row = Pending /\ task.count = Pending /\ task.tally = Pending
  BY DEF Idle
<1>. HIDE DEF task
<1>3. ArgOK(task) /\ Loaded(task)
  BY <1>2 DEF ArgOK, Loaded
<1>4. TaskOK(task, issued, ledger)
  BY <1>2, <1>3 DEF TaskOK
<1>5. tasks[t].attached = FALSE
  BY <1>1 DEF WebInv, TasksInv, TaskOK
<1>6. Set(t, Refreshing(task))
  BY <1>1 DEF RefreshBegins
<1>7. PageInv' /\ MemoryInv'
  BY <1>1, PageBegins, MemoryStays, NoGrowth DEF WebInv
<1>. QED
  BY <1>1, <1>2, <1>4, <1>5, <1>6, <1>7, RefreshingOK, QuietStep

LEMMA PostAnsweredSafe ==
  ASSUME WebInv, NEW t \in Tasks, PostAnswered(t) PROVE WebInv'
<1>1. /\ tasks[t].pc = "Post" /\ Answered(t) /\ RefreshBegins(t, tasks[t])
      /\ UNCHANGED <<server, memory, view, late>>
  BY DEF PostAnswered
<1>2. TaskOK(tasks[t], issued, ledger)
  BY DEF WebInv, TasksInv
<1>3. /\ tasks[t].handler = "cast" => Logged(tasks[t].arg, ledger)
      /\ tasks[t].handler # "lookup"
  BY <1>1, <1>2 DEF TaskOK, CastOK, LookupOK, Answered, Accepted
<1>4. Set(t, Refreshing(tasks[t]))
  BY <1>1 DEF RefreshBegins
<1>5. PageInv' /\ MemoryInv'
  BY <1>1, PageBegins, MemoryStays, NoGrowth DEF WebInv
<1>. QED
  BY <1>1, <1>2, <1>3, <1>4, <1>5, RefreshingOK, QuietStep

LEMMA ReadSafe ==
  ASSUME WebInv, NEW t \in Tasks, ReadRow(t) \/ ReadCount(t) \/ ReadTally(t)
  PROVE  WebInv'
<1>1. UNCHANGED <<server, page, memory, view, late>> /\ tasks[t].pc = "Refresh"
  BY DEF ReadRow, ReadCount, ReadTally
<1>2. TaskOK(tasks[t], issued, ledger)
  BY DEF WebInv, TasksInv
<1>3. Len(ledger) \in Nat
  BY DEF WebInv, ServerInv
<1>4. PageInv' /\ MemoryInv'
  BY <1>1, PageStays, MemoryStays, NoGrowth DEF WebInv
<1>5. PICK task :
        /\ Set(t, task) /\ DOMAIN task = DOMAIN Idle
        /\ task.handler = tasks[t].handler /\ task.pc = tasks[t].pc
        /\ task.attached = tasks[t].attached /\ task.arg = tasks[t].arg
        /\ task.request = tasks[t].request /\ task.answer = tasks[t].answer
        /\ Loaded(task)
  <2>1. CASE ReadRow(t)
    <3>. DEFINE row == IF election.phase = "None" THEN None ELSE election
                new == [tasks[t] EXCEPT !.row = row]
    <3>1. row # None => row.phase \in Phases /\ row.pk \in PublicKeys
      BY DEF WebInv, ServerInv, Phase
    <3>2. Set(t, new)
      BY <2>1 DEF ReadRow
    <3>. HIDE DEF row
    <3>3. Loaded(new)
      BY <1>2, <3>1 DEF Loaded, TaskOK, Idle
    <3>. QED
      BY <1>2, <3>2, <3>3 DEF TaskOK, Idle
  <2>2. CASE ReadCount(t)
    <3>. DEFINE new == [tasks[t] EXCEPT !.count = Len(ledger)]
    <3>1. Set(t, new)
      BY <2>2 DEF ReadCount
    <3>2. Loaded(new)
      BY <1>2, <1>3 DEF Loaded, TaskOK, Idle
    <3>. QED
      BY <1>2, <3>1, <3>2 DEF TaskOK, Idle
  <2>3. CASE ReadTally(t)
    <3>1. PICK sum \in {Len(ledger), None} : Set(t, [tasks[t] EXCEPT !.tally = sum])
      BY <2>3 DEF ReadTally
    <3>. DEFINE new == [tasks[t] EXCEPT !.tally = sum]
    <3>2. Loaded(new)
      BY <1>2, <1>3 DEF Loaded, TaskOK, Idle
    <3>. QED
      BY <1>2, <3>1, <3>2 DEF TaskOK, Idle
  <2>. QED
    BY <2>1, <2>2, <2>3
<1>6. ArgOK(task)
  BY <1>2, <1>5 DEF TaskOK, ArgOK
<1>7. TaskOK(task, issued, ledger)
  BY <1>2, <1>5, <1>6 DEF TaskOK, CastOK, LookupOK, Accepted
<1>. QED
  BY <1>1, <1>4, <1>5, <1>7, QuietStep

-----------------------------------------------------------------------------
(* Views                                                                   *)

LEMMA ViewFields ==
  ASSUME ViewInv
  PROVE  /\ "path" \in DOMAIN view
         /\ view.path = "/vote" => DOMAIN view = DOMAIN FreshVoterView
         /\ view.path = "/verify" => DOMAIN view = DOMAIN FreshObserverView
         /\ view.path = "/admin" => DOMAIN view = DOMAIN FreshAdminView
         /\ view.path = "/trustee" => DOMAIN view = DOMAIN FreshTrusteeView
BY DEF ViewInv, Mounted

\* What a page must fulfil to be right, each in its own words.
LEMMA VoteView ==
  ASSUME view'.path = "/vote", DOMAIN view' = DOMAIN FreshVoterView,
         view'.secret \in Passphrases \cup {None}, view'.vote \in {0, 1, None},
         view'.id \in ElectionIds, view'.confirming \in BOOLEAN,
         view'.submitting \in BOOLEAN, view'.receipt \in Ballots \cup {None},
         view'.receipt # None => Logged(view'.receipt, ledger')
  PROVE  ViewInv' /\ (Busy' <=> view'.submitting)
<1>1. "path" \in DOMAIN view' /\ DOMAIN view' = DOMAIN Mounted(view'.path)
  BY DEF Mounted, FreshVoterView
<1>2. ViewOK(view')
  BY DEF ViewOK
<1>. QED
  BY <1>1, <1>2 DEF ViewInv, Busy

LEMMA VerifyView ==
  ASSUME view'.path = "/verify", DOMAIN view' = DOMAIN FreshObserverView,
         view'.checking \in BOOLEAN,
         view'.result # None => view'.result.nullifier \in Nullifiers,
         ToldRecorded' => NullifierLogged(view'.result.nullifier, ledger')
  PROVE  ViewInv' /\ (Busy' <=> view'.checking)
<1>1. "path" \in DOMAIN view' /\ DOMAIN view' = DOMAIN Mounted(view'.path)
  BY DEF Mounted, FreshObserverView
<1>2. ViewOK(view')
  BY DEF ViewOK
<1>. QED
  BY <1>1, <1>2 DEF ViewInv, Busy

LEMMA AdminView ==
  ASSUME view'.path = "/admin", DOMAIN view' = DOMAIN FreshAdminView,
         view'.pending \in {None, "Open", "Close"}, view'.submitting \in BOOLEAN
  PROVE  ViewInv' /\ (Busy' <=> view'.submitting)
<1>1. "path" \in DOMAIN view' /\ DOMAIN view' = DOMAIN Mounted(view'.path)
  BY DEF Mounted, FreshAdminView
<1>2. ViewOK(view')
  BY DEF ViewOK
<1>. QED
  BY <1>1, <1>2 DEF ViewInv, Busy

LEMMA TrusteeView ==
  ASSUME view'.path = "/trustee", DOMAIN view' = DOMAIN FreshTrusteeView,
         view'.setup \in BOOLEAN, view'.processing \in BOOLEAN
  PROVE  ViewInv' /\ (Busy' <=> view'.processing)
<1>1. "path" \in DOMAIN view' /\ DOMAIN view' = DOMAIN Mounted(view'.path)
  BY DEF Mounted, FreshTrusteeView
<1>2. ViewOK(view')
  BY DEF ViewOK
<1>. QED
  BY <1>1, <1>2 DEF ViewInv, Busy

\* A view that is mounted is at rest and shows nothing.
LEMMA MountedView ==
  ASSUME NEW path, view' = Mounted(path)
  PROVE  /\ ViewInv' /\ ~Busy' /\ view'.path = path
<1>1. CASE path = "/vote"
  <2>1. view' = FreshVoterView
    BY <1>1 DEF Mounted
  <2>2. /\ DOMAIN view' = DOMAIN FreshVoterView /\ view'.path = "/vote"
        /\ view'.secret = None /\ view'.vote = None /\ view'.id = DefaultId
        /\ view'.confirming = FALSE /\ view'.submitting = FALSE /\ view'.receipt = None
    BY <2>1 DEF FreshVoterView
  <2>. QED
    BY <1>1, <2>2, VoteView, DefaultIdAssumption
<1>2. CASE path = "/verify"
  <2>1. view' = FreshObserverView
    BY <1>2 DEF Mounted
  <2>2. /\ DOMAIN view' = DOMAIN FreshObserverView /\ view'.path = "/verify"
        /\ view'.checking = FALSE /\ view'.result = None
    BY <2>1 DEF FreshObserverView
  <2>. QED
    BY <1>2, <2>2, VerifyView DEF ToldRecorded
<1>3. CASE path = "/admin"
  <2>1. view' = FreshAdminView
    BY <1>3 DEF Mounted
  <2>2. /\ DOMAIN view' = DOMAIN FreshAdminView /\ view'.path = "/admin"
        /\ view'.pending = None /\ view'.submitting = FALSE
    BY <2>1 DEF FreshAdminView
  <2>. QED
    BY <1>3, <2>2, AdminView
<1>4. CASE path = "/trustee"
  <2>1. view' = FreshTrusteeView
    BY <1>4 DEF Mounted
  <2>2. /\ DOMAIN view' = DOMAIN FreshTrusteeView /\ view'.path = "/trustee"
        /\ view'.setup = FALSE /\ view'.processing = FALSE
    BY <2>1 DEF FreshTrusteeView
  <2>. QED
    BY <1>4, <2>2, TrusteeView
<1>5. CASE path \notin {"/vote", "/verify", "/admin", "/trustee"}
  <2>1. view' = [path |-> path]
    BY <1>5 DEF Mounted
  <2>2. view'.path = path /\ DOMAIN view' = {"path"} /\ Mounted(path) = view'
    BY <2>1
  <2>. QED
    BY <1>5, <2>2 DEF ViewInv, ViewOK, Busy
<1>. QED
  BY <1>1, <1>2, <1>3, <1>4, <1>5

-----------------------------------------------------------------------------
(* The user comes and goes                                                 *)

LEMMA NavigateSafe ==
  ASSUME WebInv, Navigate PROVE WebInv'
<1>1. /\ UNCHANGED <<server, page, memory, late>> /\ tasks' = Unmounted(tasks)
      /\ ViewInv' /\ ~Busy'
  BY MountedView DEF Navigate
<1>2. Grows /\ issued' = issued /\ ledger' = ledger
  BY <1>1, NoGrowth DEF server
<1>3. ASSUME NEW t \in Tasks
      PROVE  TaskOK(tasks'[t], issued, ledger) /\ ~tasks'[t].attached
  <2>1. TaskOK(tasks[t], issued, ledger)
    BY DEF WebInv, TasksInv
  <2>2. CASE tasks[t].pc = "Idle"
    BY <1>1, <2>1, <2>2 DEF Unmounted, TaskOK
  <2>3. CASE tasks[t].pc # "Idle"
    <3>. DEFINE task == [tasks[t] EXCEPT !.attached = FALSE]
    <3>1. tasks'[t] = task
      BY <1>1, <2>3 DEF Unmounted
    <3>2. /\ DOMAIN task = DOMAIN Idle /\ task.attached = FALSE
          /\ task.handler = tasks[t].handler /\ task.pc = tasks[t].pc
          /\ task.arg = tasks[t].arg
          /\ task.request = tasks[t].request /\ task.answer = tasks[t].answer
          /\ task.row = tasks[t].row /\ task.count = tasks[t].count
          /\ task.tally = tasks[t].tally
      BY <2>1 DEF TaskOK, Idle
    <3>. HIDE DEF task
    <3>3. ArgOK(task) /\ Loaded(task)
      BY <2>1, <3>2 DEF TaskOK, ArgOK, Loaded
    <3>. QED
      BY <2>1, <3>1, <3>2, <3>3 DEF TaskOK, CastOK, LookupOK, Accepted
  <2>. QED
    BY <2>2, <2>3
<1>4. TasksInv'
  BY <1>1, <1>2, <1>3 DEF Unmounted, TasksInv
<1>5. AttachedInv'
  BY <1>1, <1>3 DEF AttachedInv
<1>. QED
  BY <1>1, <1>2, <1>4, <1>5, ServerStays, PageStays, MemoryStays, LateStays
  DEF WebInv

\* The tasks of a page that loads.
LEMMA LoadingOK ==
  ASSUME NEW t \in Tasks, NEW codes, NEW log, NEW u \in Tasks
  PROVE  /\ DOMAIN Loading(t) = Tasks
         /\ TaskOK(Loading(t)[u], codes, log) /\ ~Loading(t)[u].attached
<1>1. CASE u # t
  BY <1>1, IdleOK DEF Loading, Idle
<1>2. CASE u = t
  <2>. DEFINE task == [Idle EXCEPT !.handler = "refresh"]
  <2>1. /\ DOMAIN task = DOMAIN Idle /\ task.handler = "refresh" /\ task.pc = "Idle"
        /\ task.attached = FALSE /\ task.arg = None /\ task.request = None
        /\ task.row = Pending /\ task.count = Pending /\ task.tally = Pending
    BY DEF Idle
  <2>2. Loading(t)[u] = Refreshing(task) /\ DOMAIN Loading(t) = Tasks
    BY <1>2 DEF Loading
  <2>. HIDE DEF task
  <2>3. ArgOK(task) /\ Loaded(task)
    BY <2>1 DEF ArgOK, Loaded
  <2>4. TaskOK(task, codes, log)
    BY <2>1, <2>3 DEF TaskOK
  <2>. QED
    BY <2>1, <2>2, <2>4, RefreshingOK
<1>. QED
  BY <1>1, <1>2

LEMMA ReloadSafe ==
  ASSUME WebInv, Reload PROVE WebInv'
<1>1. /\ UNCHANGED server /\ electionDetails' = None /\ encryptedTally' = None
      /\ loading' = TRUE /\ isDemoExpired' = FALSE
      /\ memoryVoterSessionToken' = None /\ cryptoModule' = "unset"
      /\ isAuthenticated' = FALSE
  BY DEF Reload
<1>2. Grows /\ issued' = issued /\ ledger' = ledger
  BY <1>1, NoGrowth DEF server
<1>3. PageInv' /\ MemoryInv'
  BY <1>1 DEF PageInv, MemoryInv
<1>4. ViewInv' /\ ~Busy'
  BY MountedView DEF Reload
<1>5. PICK t \in Tasks : tasks' = Loading(t)
  BY DEF Reload
<1>6. TasksInv'
  BY <1>2, <1>5, LoadingOK DEF TasksInv
<1>7. AttachedInv'
  BY <1>4, <1>5, LoadingOK DEF AttachedInv
<1>8. LateInv'
  <2>1. \A q \in late' : q \in late \/ \E u \in Tasks :
          tasks[u].request # None /\ q = tasks[u].request
    BY DEF Reload
  <2>. QED
    BY <2>1, <1>2, LateStays DEF WebInv, TasksInv, TaskOK
<1>. QED
  BY <1>1, <1>3, <1>4, <1>6, <1>7, <1>8, ServerStays DEF WebInv

-----------------------------------------------------------------------------
(* The user fills in forms                                                 *)

LEMMA FormSafe ==
  ASSUME WebInv, UNCHANGED <<server, page, memory, tasks, late>>,
         ViewInv', Busy' <=> Busy, view'.path = view.path,
         Busy /\ view.path = "/vote" =>
           view'.message = view.message /\ view'.id = view.id,
         Busy /\ view.path = "/trustee" => view'.shares \in {None, view.shares}
  PROVE  WebInv'
<1>1. Grows
  BY NoGrowth
<1>2. AttachedInv'
  <2>1. ASSUME NEW t \in Tasks, tasks[t].attached, tasks[t].handler = "cast"
        PROVE  Busy /\ view.path = "/vote"
    BY <2>1 DEF WebInv, AttachedInv, PathOf
  <2>2. ASSUME NEW t \in Tasks, tasks[t].attached, tasks[t].handler = "decrypt"
        PROVE  Busy /\ view.path = "/trustee"
    BY <2>2 DEF WebInv, AttachedInv, PathOf
  <2>. QED
    BY <2>1, <2>2 DEF WebInv, AttachedInv
<1>. QED
  BY <1>1, <1>2, ServerStays, PageStays, MemoryStays, LateStays, TasksStay
  DEF WebInv

LEMMA VoterActsSafe ==
  ASSUME WebInv,
         \/ PickVote \/ TypeSecret \/ TypeElectionId \/ ReviewBallot
         \/ CancelConfirm \/ CastInvalid \/ DismissReceipt
  PROVE  WebInv'
<1>1. /\ view.path = "/vote" /\ DOMAIN view = DOMAIN FreshVoterView
      /\ UNCHANGED <<server, page, memory, tasks, late>>
      /\ view.receipt # None => Logged(view.receipt, ledger)
  BY ViewFields
  DEF WebInv, ViewInv, PickVote, TypeSecret, TypeElectionId, ReviewBallot,
      CancelConfirm, CastInvalid, CastEnabled, DismissReceipt, FormEnabled, Fills
<1>2. /\ view.secret \in Passphrases \cup {None} /\ view.vote \in {0, 1, None}
      /\ view.id \in ElectionIds /\ view.confirming \in BOOLEAN
      /\ view.submitting \in BOOLEAN /\ view.receipt \in Ballots \cup {None}
      /\ Busy <=> view.submitting
  BY <1>1 DEF WebInv, ViewInv, ViewOK, Busy
<1>3. DOMAIN view = {"path", "secret", "vote", "id", "confirming", "submitting",
                     "receipt", "message"}
  BY <1>1 DEF FreshVoterView
<1>4. /\ view'.path = view.path /\ DOMAIN view' = DOMAIN view
      /\ view'.submitting = view.submitting
      /\ view'.secret \in Passphrases \cup {None} /\ view'.vote \in {0, 1, None}
      /\ view'.id \in ElectionIds /\ view'.confirming \in BOOLEAN
      /\ view'.receipt \in {None, view.receipt}
      /\ view.submitting => view'.message = view.message /\ view'.id = view.id
  <2>1. CASE PickVote
    BY <1>2, <1>3, <2>1, VotesAssumption DEF PickVote, FormEnabled, Fills
  <2>2. CASE TypeSecret
    BY <1>2, <1>3, <2>2 DEF TypeSecret, FormEnabled, Fills
  <2>3. CASE TypeElectionId
    BY <1>2, <1>3, <2>3 DEF TypeElectionId, FormEnabled, Fills
  <2>4. CASE ReviewBallot
    <3>1. FormValid \in BOOLEAN /\ ~view.submitting
      BY <2>4 DEF ReviewBallot, FormEnabled, FormValid
    <3>. QED
      BY <1>2, <1>3, <2>4, <3>1 DEF ReviewBallot, Fills
  <2>5. CASE CancelConfirm
    BY <1>2, <1>3, <2>5 DEF CancelConfirm, Fills
  <2>6. CASE CastInvalid
    BY <1>2, <1>3, <2>6 DEF CastInvalid, CastEnabled, FormEnabled, Fills
  <2>7. CASE DismissReceipt
    BY <1>2, <1>3, <2>7 DEF DismissReceipt, Fills
  <2>. QED
    BY <2>1, <2>2, <2>3, <2>4, <2>5, <2>6, <2>7
<1>5. ViewInv' /\ (Busy' <=> view'.submitting)
  <2>1. ledger' = ledger
    BY <1>1 DEF server
  <2>. QED
    BY <1>1, <1>2, <1>4, <2>1, VoteView
<1>. QED
  BY <1>1, <1>2, <1>4, <1>5, FormSafe

LEMMA AdminActsSafe ==
  ASSUME WebInv,
         CreateInvalid \/ RegisterInvalid \/ AskTransition \/ CancelTransition
  PROVE  WebInv'
<1>1. /\ view.path = "/admin" /\ DOMAIN view = DOMAIN FreshAdminView
      /\ view.submitting = FALSE /\ view.pending \in {None, "Open", "Close"}
      /\ UNCHANGED <<server, page, memory, tasks, late>>
  BY ViewFields
  DEF WebInv, ViewInv, ViewOK, CreateInvalid, RegisterInvalid, AskTransition,
      CancelTransition, AdminEnabled, Shown
<1>2. DOMAIN view = {"path", "pending", "submitting", "status"}
  BY <1>1 DEF FreshAdminView
<1>3. /\ view'.path = "/admin" /\ DOMAIN view' = DOMAIN view
      /\ view'.submitting = FALSE /\ view'.pending \in {None, "Open", "Close"}
  BY <1>1, <1>2
  DEF CreateInvalid, RegisterInvalid, AskTransition, CancelTransition, Shown
<1>. QED
  BY <1>1, <1>3, AdminView, FormSafe DEF Busy

LEMMA TrusteeActsSafe ==
  ASSUME WebInv, GenerateRefused \/ ClearSetup \/ TypeShares \/ DecryptRefused
  PROVE  WebInv'
<1>1. /\ view.path = "/trustee" /\ DOMAIN view = DOMAIN FreshTrusteeView
      /\ view.processing \in BOOLEAN /\ view.setup \in BOOLEAN
      /\ UNCHANGED <<server, page, memory, tasks, late>>
  BY ViewFields
  DEF WebInv, ViewInv, ViewOK, GenerateRefused, ClearSetup, TypeShares,
      DecryptRefused, TrusteeEnabled, Becomes
<1>2. DOMAIN view = {"path", "shares", "setup", "processing", "status", "result"}
  BY <1>1 DEF FreshTrusteeView
<1>3. /\ view'.path = "/trustee" /\ DOMAIN view' = DOMAIN view
      /\ view'.processing = view.processing /\ view'.setup \in BOOLEAN
      /\ view.processing => view'.shares = view.shares
  BY <1>1, <1>2
  DEF GenerateRefused, ClearSetup, TypeShares, DecryptRefused, TrusteeEnabled,
      Becomes
<1>. QED
  BY <1>1, <1>3, TrusteeView, FormSafe DEF Busy

LEMMA LookupMalformedSafe ==
  ASSUME WebInv, LookupMalformed PROVE WebInv'
<1>1. /\ view.path = "/verify" /\ DOMAIN view = DOMAIN FreshObserverView
      /\ view.checking = FALSE
      /\ UNCHANGED <<server, page, memory, tasks, late>>
  BY ViewFields
  DEF WebInv, ViewInv, ViewOK, LookupMalformed, LookupEnabled
<1>2. DOMAIN view = {"path", "checking", "result", "message"}
  BY <1>1 DEF FreshObserverView
<1>3. /\ view'.path = "/verify" /\ DOMAIN view' = DOMAIN view
      /\ view'.checking = FALSE /\ view'.result = None
  BY <1>1, <1>2 DEF LookupMalformed
<1>. QED
  BY <1>1, <1>3, VerifyView, FormSafe DEF Busy, ToldRecorded

LEMMA PageHideSafe ==
  ASSUME WebInv, PageHide PROVE WebInv'
<1>1. UNCHANGED <<server, page, memory, tasks, late>> /\ ledger' = ledger
  BY DEF PageHide, server
<1>2. CASE view.path = "/vote"
  <2>1. /\ DOMAIN view = {"path", "secret", "vote", "id", "confirming",
                          "submitting", "receipt", "message"}
        /\ view' = Cleared(view)
    BY <1>2, ViewFields DEF WebInv, FreshVoterView, PageHide
  <2>2. /\ DOMAIN view' = DOMAIN view /\ view'.path = view.path
        /\ view'.secret = None /\ view'.vote = None /\ view'.confirming = FALSE
        /\ view'.id = view.id /\ view'.submitting = view.submitting
        /\ view'.receipt = view.receipt /\ view'.message = view.message
    BY <2>1 DEF Cleared
  <2>3. /\ view.id \in ElectionIds /\ view.submitting \in BOOLEAN
        /\ view.receipt \in Ballots \cup {None}
        /\ view.receipt # None => Logged(view.receipt, ledger)
        /\ Busy <=> view.submitting
    BY <1>2 DEF WebInv, ViewInv, ViewOK, Busy
  <2>4. DOMAIN view' = DOMAIN FreshVoterView
    BY <2>1, <2>2 DEF FreshVoterView
  <2>. QED
    BY <1>1, <1>2, <2>2, <2>3, <2>4, VoteView, FormSafe
<1>3. CASE view.path = "/trustee"
  <2>1. /\ DOMAIN view = {"path", "shares", "setup", "processing", "status", "result"}
        /\ view' = [view EXCEPT !.shares = None, !.setup = FALSE]
    BY <1>3, ViewFields DEF WebInv, FreshTrusteeView, PageHide
  <2>2. /\ DOMAIN view' = DOMAIN view /\ view'.path = view.path
        /\ view'.shares = None /\ view'.setup = FALSE
        /\ view'.processing = view.processing
    BY <2>1
  <2>3. view.processing \in BOOLEAN /\ (Busy <=> view.processing)
    BY <1>3 DEF WebInv, ViewInv, ViewOK, Busy
  <2>4. DOMAIN view' = DOMAIN FreshTrusteeView
    BY <2>1, <2>2 DEF FreshTrusteeView
  <2>. QED
    BY <1>1, <1>3, <2>2, <2>3, <2>4, TrusteeView, FormSafe
<1>4. CASE view.path \notin {"/vote", "/trustee"}
  <2>1. view' = view
    BY <1>4 DEF PageHide
  <2>. QED
    BY <1>1, <2>1, <1>4, ViewStays, NoGrowth, FormSafe DEF WebInv, Busy
<1>. QED
  BY <1>2, <1>3, <1>4

\* Signing in and out, and the loading of the WebAssembly module.
LEMMA MemorySafe ==
  ASSUME WebInv, Login \/ Logout \/ CryptoSettles PROVE WebInv'
<1>1. /\ UNCHANGED <<server, page, memoryVoterSessionToken, view, tasks, late>>
      /\ MemoryInv'
  BY NoGrowth DEF Login, Logout, CryptoSettles, WebInv, MemoryInv, server
<1>. QED
  BY <1>1, NoGrowth, ServerStays, PageStays, LateStays, ViewStays, TasksStay,
     AttachedStays
  DEF WebInv

-----------------------------------------------------------------------------
(* Handlers that end                                                       *)

LEMMA HandlerEnds ==
  ASSUME WebInv, UNCHANGED server, NEW t \in Tasks, Ends(t),
         IF tasks[t].attached THEN ViewInv' /\ ~Busy' ELSE UNCHANGED view,
         PageInv', MemoryInv', LateInv'
  PROVE  WebInv'
<1>1. TasksInv' /\ AttachedInv'
  BY TaskEnds, NoGrowth
<1>2. ViewInv'
  BY ViewStays, NoGrowth DEF WebInv
<1>. QED
  BY <1>1, <1>2, ServerStays DEF WebInv

\* The view of an attached handler is the one it was started from.
LEMMA AttachedView ==
  ASSUME WebInv, NEW t \in Tasks, tasks[t].attached
  PROVE  /\ tasks[t].handler = "cast" => view.path = "/vote"
         /\ tasks[t].handler = "lookup" => view.path = "/verify"
         /\ tasks[t].handler = "admin" => view.path = "/admin"
         /\ tasks[t].handler \in {"keygen", "decrypt"} => view.path = "/trustee"
         /\ tasks[t].handler # "refresh"
BY DEF WebInv, AttachedInv, PathOf

LEMMA VoteFields ==
  ASSUME WebInv, view.path = "/vote"
  PROVE  /\ DOMAIN view = {"path", "secret", "vote", "id", "confirming",
                           "submitting", "receipt", "message"}
         /\ DOMAIN view = DOMAIN FreshVoterView
         /\ view.secret \in Passphrases \cup {None} /\ view.vote \in {0, 1, None}
         /\ view.id \in ElectionIds /\ view.confirming \in BOOLEAN
         /\ view.submitting \in BOOLEAN /\ view.receipt \in Ballots \cup {None}
         /\ view.receipt # None => Logged(view.receipt, ledger)
BY ViewFields DEF WebInv, ViewInv, ViewOK, FreshVoterView

LEMMA VerifyFields ==
  ASSUME WebInv, view.path = "/verify"
  PROVE  /\ DOMAIN view = {"path", "checking", "result", "message"}
         /\ DOMAIN view = DOMAIN FreshObserverView
BY ViewFields DEF WebInv, FreshObserverView

LEMMA AdminFields ==
  ASSUME WebInv, view.path = "/admin"
  PROVE  /\ DOMAIN view = {"path", "pending", "submitting", "status"}
         /\ DOMAIN view = DOMAIN FreshAdminView
         /\ view.pending \in {None, "Open", "Close"} /\ view.submitting \in BOOLEAN
BY ViewFields DEF WebInv, ViewInv, ViewOK, FreshAdminView

LEMMA TrusteeFields ==
  ASSUME WebInv, view.path = "/trustee"
  PROVE  /\ DOMAIN view = {"path", "shares", "setup", "processing", "status", "result"}
         /\ DOMAIN view = DOMAIN FreshTrusteeView
         /\ view.setup \in BOOLEAN /\ view.processing \in BOOLEAN
BY ViewFields DEF WebInv, ViewInv, ViewOK, FreshTrusteeView

LEMMA TaskTyped ==
  ASSUME WebInv, NEW t \in Tasks
  PROVE  TaskOK(tasks[t], issued, ledger)
BY DEF WebInv, TasksInv

LEMMA CastFailsSafe ==
  ASSUME WebInv, NEW t \in Tasks, NEW why, CastFails(t, why), LateInv'
  PROVE  WebInv'
<1>1. /\ tasks[t].handler = "cast" /\ Ends(t) /\ UNCHANGED <<server, page, memory>>
  BY DEF CastFails
<1>2. ASSUME tasks[t].attached PROVE ViewInv' /\ ~Busy'
  <2>1. /\ view.path = "/vote"
        /\ view' = [Cleared(view) EXCEPT !.submitting = FALSE, !.message = Message(why)]
    BY <1>1, <1>2, AttachedView DEF CastFails, Shows
  <2>. DEFINE message == Message(why)
  <2>. HIDE DEF message
  <2>2. view' = [Cleared(view) EXCEPT !.submitting = FALSE, !.message = message]
    BY <2>1 DEF message
  <2>3. /\ view'.path = "/vote" /\ DOMAIN view' = DOMAIN FreshVoterView
        /\ view'.secret = None /\ view'.vote = None /\ view'.confirming = FALSE
        /\ view'.id = view.id /\ view'.submitting = FALSE
        /\ view'.receipt = view.receipt
    BY <2>1, <2>2, VoteFields DEF Cleared
  <2>4. ledger' = ledger
    BY <1>1 DEF server
  <2>. QED
    BY <2>1, <2>3, <2>4, VoteFields, VoteView
<1>3. ~tasks[t].attached => UNCHANGED view
  BY DEF CastFails, Shows
<1>. QED
  BY <1>1, <1>2, <1>3, HandlerEnds, PageStays, MemoryStays, NoGrowth DEF WebInv

LEMMA LookupEndsSafe ==
  ASSUME WebInv, NEW t \in Tasks, NEW found, LookupEnds(t, found), LateInv',
         found = TRUE => NullifierLogged(tasks[t].arg, ledger)
  PROVE  WebInv'
<1>1. /\ tasks[t].handler = "lookup" /\ Ends(t) /\ UNCHANGED <<server, page, memory>>
      /\ ledger' = ledger
  BY DEF LookupEnds, server
<1>2. ASSUME tasks[t].attached PROVE ViewInv' /\ ~Busy'
  <2>1. /\ view.path = "/verify"
        /\ view' = [view EXCEPT !.checking = FALSE,
                      !.result = [nullifier |-> tasks[t].arg, isUsed |-> found]]
    BY <1>1, <1>2, AttachedView DEF LookupEnds, Shows
  <2>2. /\ view'.path = "/verify" /\ DOMAIN view' = DOMAIN FreshObserverView
        /\ view'.checking = FALSE
        /\ view'.result = [nullifier |-> tasks[t].arg, isUsed |-> found]
    BY <2>1, VerifyFields
  <2>3. tasks[t].arg \in Nullifiers
    BY <1>1, TaskTyped DEF TaskOK, ArgOK
  <2>4. ToldRecorded' => NullifierLogged(view'.result.nullifier, ledger')
    BY <1>1, <2>2 DEF ToldRecorded
  <2>5. view'.result.nullifier = tasks[t].arg
    BY <2>2
  <2>. QED
    BY <2>2, <2>3, <2>4, <2>5, VerifyView
<1>3. ~tasks[t].attached => UNCHANGED view
  BY DEF LookupEnds, Shows
<1>. QED
  BY <1>1, <1>2, <1>3, HandlerEnds, PageStays, MemoryStays, NoGrowth DEF WebInv

\* A handler of the administrator ends, with any message.
LEMMA AdminEndsSafe ==
  ASSUME WebInv, UNCHANGED server, PageInv', MemoryInv', LateInv',
         NEW t \in Tasks, NEW status, tasks[t].handler = "admin", Ends(t),
         Shows(t, [view EXCEPT !.submitting = FALSE, !.status = status])
  PROVE  WebInv'
<1>1. ASSUME tasks[t].attached PROVE ViewInv' /\ ~Busy'
  <2>1. /\ view.path = "/admin"
        /\ view' = [view EXCEPT !.submitting = FALSE, !.status = status]
    BY <1>1, AttachedView DEF Shows
  <2>. QED
    BY <2>1, AdminFields, AdminView
<1>2. ~tasks[t].attached => UNCHANGED view
  BY DEF Shows
<1>. QED
  BY <1>1, <1>2, HandlerEnds

\* A handler of the trustees ends, whatever becomes of the shares, the box of
\* the new key and the message.
LEMMA TrusteeEndsSafe ==
  ASSUME WebInv, UNCHANGED server, PageInv', MemoryInv', LateInv',
         NEW t \in Tasks, tasks[t].handler \in {"keygen", "decrypt"}, Ends(t),
         IF tasks[t].attached
         THEN /\ DOMAIN view' = DOMAIN view /\ view'.path = view.path
              /\ view'.processing = FALSE /\ view'.setup \in {view.setup, TRUE}
         ELSE UNCHANGED view
  PROVE  WebInv'
<1>1. ASSUME tasks[t].attached PROVE ViewInv' /\ ~Busy'
  <2>1. view.path = "/trustee"
    BY <1>1, AttachedView
  <2>. QED
    BY <1>1, <2>1, TrusteeFields, TrusteeView
<1>. QED
  BY <1>1, HandlerEnds

-----------------------------------------------------------------------------
(* Handlers that start                                                     *)

LEMMA SendsFields ==
  ASSUME NEW task, DOMAIN task = DOMAIN Idle, NEW pc, NEW q
  PROVE  /\ DOMAIN Sends(task, pc, q) = DOMAIN Idle
         /\ Sends(task, pc, q).handler = task.handler
         /\ Sends(task, pc, q).pc = pc
         /\ Sends(task, pc, q).attached = task.attached
         /\ Sends(task, pc, q).arg = task.arg
         /\ Sends(task, pc, q).request = q
         /\ Sends(task, pc, q).answer = Pending
         /\ Loaded(task) => Loaded(Sends(task, pc, q))
BY DEF Sends, Idle, Loaded

LEMMA HandlerStarts ==
  ASSUME WebInv, UNCHANGED <<server, page, memory, late>>, NEW t \in Tasks,
         NEW task, Set(t, task), TaskOK(task, issued, ledger), task.attached,
         ~Busy, Busy', ViewInv',
         task.handler \in {"cast", "lookup", "admin", "keygen", "decrypt"},
         view'.path = PathOf(task.handler),
         task.handler = "cast" =>
           view'.message = None /\ view'.id = task.arg.nullifier.domain,
         task.handler = "decrypt" => view'.shares = None
  PROVE  WebInv'
<1>1. TasksInv' /\ AttachedInv'
  BY TaskStarts
<1>. QED
  BY <1>1, NoGrowth, ServerStays, PageStays, MemoryStays, LateStays DEF WebInv

LEMMA CastBallotSafe ==
  ASSUME WebInv, NEW t \in Tasks, CastBallot(t) PROVE WebInv'
<1>. DEFINE ballot == ClientSideBallot(view, electionDetails.pk)
            task == Started("cast", "Crypto", ballot)
<1>1. /\ view.path = "/vote" /\ ~view.submitting /\ FormValid /\ Set(t, task)
      /\ view' = [view EXCEPT !.submitting = TRUE, !.message = None]
      /\ UNCHANGED <<server, page, memory, late>>
  BY DEF CastBallot, CastEnabled, FormEnabled
<1>2. ballot \in Ballots /\ ballot.nullifier.domain = view.id
  BY <1>1, VoteFields
  DEF ClientSideBallot, FormValid, Ballots, Nullifiers, WebInv, PageInv
<1>3. /\ DOMAIN task = DOMAIN Idle /\ task.handler = "cast" /\ task.pc = "Crypto"
      /\ task.attached = TRUE /\ task.arg = ballot /\ task.request = None
      /\ Loaded(task)
  BY DEF Started, Idle, Loaded
<1>. HIDE DEF task, ballot
<1>4. ArgOK(task)
  BY <1>2, <1>3 DEF ArgOK
<1>5. TaskOK(task, issued, ledger)
  BY <1>3, <1>4 DEF TaskOK, CastOK
<1>6. /\ view'.path = "/vote" /\ DOMAIN view' = DOMAIN FreshVoterView
      /\ view'.secret = view.secret /\ view'.vote = view.vote
      /\ view'.id = view.id /\ view'.confirming = view.confirming
      /\ view'.submitting = TRUE /\ view'.receipt = view.receipt
      /\ view'.message = None
  BY <1>1, VoteFields
<1>7. ledger' = ledger
  BY <1>1 DEF server
<1>8. ViewInv' /\ Busy'
  BY <1>1, <1>6, <1>7, VoteFields, VoteView
<1>9. ~Busy
  BY <1>1 DEF Busy
<1>10. view'.path = PathOf(task.handler)
  BY <1>3, <1>6 DEF PathOf
<1>. QED
  BY <1>1, <1>2, <1>3, <1>5, <1>6, <1>8, <1>9, <1>10, HandlerStarts

LEMMA LookupSafe ==
  ASSUME WebInv, NEW t \in Tasks, Lookup(t) PROVE WebInv'
<1>1. PICK nullifier \in Nullifiers :
        Set(t, Sends(Started("lookup", "Lookup", nullifier), "Lookup",
                 BulletinRequest(nullifier)))
  BY DEF Lookup
<1>. DEFINE start == Started("lookup", "Lookup", nullifier)
            q == BulletinRequest(nullifier)
            task == Sends(start, "Lookup", q)
<1>2. /\ DOMAIN start = DOMAIN Idle /\ start.handler = "lookup"
      /\ start.attached = TRUE /\ start.arg = nullifier /\ Loaded(start)
  BY DEF Started, Idle, Loaded
<1>3. q.op = "Bulletin" /\ q.nullifier = nullifier /\ RequestOK(q, issued)
  BY DEF BulletinRequest, RequestOK, Requested
<1>. HIDE DEF start, q
<1>4. /\ DOMAIN task = DOMAIN Idle /\ task.handler = "lookup" /\ task.pc = "Lookup"
      /\ task.attached = TRUE /\ task.arg = nullifier /\ task.request = q
      /\ task.answer = Pending /\ Loaded(task)
  BY <1>2, SendsFields
<1>5. Set(t, task)
  BY <1>1 DEF start, q
<1>. HIDE DEF task
<1>6. ArgOK(task)
  BY <1>4 DEF ArgOK
<1>7. /\ view.path = "/verify" /\ ~view.checking
      /\ UNCHANGED <<server, page, memory, late>>
      /\ view' = [view EXCEPT !.checking = TRUE, !.result = None, !.message = None]
  BY DEF Lookup, LookupEnabled
<1>8. TaskOK(task, issued, ledger)
  BY <1>3, <1>4, <1>6 DEF TaskOK, LookupOK, Accepted
<1>9. /\ view'.path = "/verify" /\ DOMAIN view' = DOMAIN FreshObserverView
       /\ view'.checking = TRUE /\ view'.result = None
  BY <1>7, VerifyFields
<1>10. ViewInv' /\ Busy'
  BY <1>9, VerifyView DEF ToldRecorded
<1>11. ~Busy /\ view'.path = PathOf(task.handler)
  BY <1>4, <1>7, <1>9 DEF Busy, PathOf
<1>. QED
  BY <1>4, <1>5, <1>7, <1>8, <1>10, <1>11, HandlerStarts

\* The administrator sends request q, typed by hand or confirmed in the dialog.
LEMMA AdministersSafe ==
  ASSUME WebInv, NEW t \in Tasks, NEW op \in {"Create", "Issue", "Open", "Close"},
         NEW q, NEW v, Administers(t, op, q, v), AdminEnabled,
         RequestOK(q, issued),
         DOMAIN v = DOMAIN view, v.path = view.path, v.pending \in {None, view.pending}
  PROVE  WebInv'
<1>. DEFINE start == Started("admin", "Post", op)
            task == Sends(start, "Post", q)
<1>1. /\ DOMAIN start = DOMAIN Idle /\ start.handler = "admin"
      /\ start.attached = TRUE /\ start.arg = op /\ Loaded(start)
  BY DEF Started, Idle, Loaded
<1>2. /\ Set(t, task) /\ UNCHANGED <<server, page, memory, late>>
      /\ view' = [v EXCEPT !.submitting = TRUE, !.status = None]
      /\ view.path = "/admin" /\ ~view.submitting
  BY DEF Administers, AdminEnabled
<1>. HIDE DEF start
<1>3. /\ DOMAIN task = DOMAIN Idle /\ task.handler = "admin" /\ task.pc = "Post"
      /\ task.attached = TRUE /\ task.arg = op /\ task.request = q /\ Loaded(task)
  BY <1>1, SendsFields
<1>. HIDE DEF task
<1>4. ArgOK(task)
  BY <1>3 DEF ArgOK
<1>5. TaskOK(task, issued, ledger)
  BY <1>3, <1>4 DEF TaskOK
<1>6. /\ view'.path = "/admin" /\ DOMAIN view' = DOMAIN FreshAdminView
      /\ view'.submitting = TRUE /\ view'.pending \in {None, "Open", "Close"}
  BY <1>2, AdminFields
<1>7. ViewInv' /\ Busy'
  BY <1>6, AdminView
<1>8. ~Busy /\ view'.path = PathOf(task.handler)
  BY <1>2, <1>3, <1>6 DEF Busy, PathOf
<1>. QED
  BY <1>2, <1>3, <1>5, <1>7, <1>8, HandlerStarts

LEMMA AdminStartsSafe ==
  ASSUME WebInv, NEW t \in Tasks,
         CreateElectionForm(t) \/ RegisterVoters(t) \/ ConfirmTransition(t)
  PROVE  WebInv'
<1>1. AdminEnabled /\ view.path = "/admin"
  BY DEF CreateElectionForm, RegisterVoters, ConfirmTransition, AdminEnabled
<1>2. CASE CreateElectionForm(t)
  <2>1. PICK form \in Forms : Administers(t, "Create", CreateRequest(form), view)
    BY <1>2 DEF CreateElectionForm
  <2>2. RequestOK(CreateRequest(form), issued)
    BY FormsAssumption DEF RequestOK, CreateRequest, Requested
  <2>. QED
    BY <1>1, <2>1, <2>2, AdministersSafe
<1>3. CASE RegisterVoters(t)
  <2>1. PICK lines \in VoterLists :
          Administers(t, "Issue", IssueRequest(Len(lines)), view)
    BY <1>3 DEF RegisterVoters
  <2>2. RequestOK(IssueRequest(Len(lines)), issued)
    BY DEF RequestOK, IssueRequest, Requested
  <2>. QED
    BY <1>1, <2>1, <2>2, AdministersSafe
<1>4. CASE ConfirmTransition(t)
  <2>. DEFINE q == IF view.pending = "Open" THEN OpenRequest ELSE CloseRequest
              v == [view EXCEPT !.pending = None]
  <2>1. Administers(t, view.pending, q, v) /\ view.pending # None
    BY <1>4 DEF ConfirmTransition
  <2>2. view.pending \in {"Open", "Close"}
    BY <1>1, <2>1, AdminFields
  <2>3. RequestOK(q, issued)
    BY DEF RequestOK, OpenRequest, CloseRequest, Requested
  <2>4. DOMAIN v = DOMAIN view /\ v.path = view.path /\ v.pending = None
    BY <1>1, AdminFields
  <2>. HIDE DEF q, v
  <2>. QED
    BY <1>1, <2>1, <2>2, <2>3, <2>4, AdministersSafe
<1>. QED
  BY <1>2, <1>3, <1>4

LEMMA TrusteeStartsSafe ==
  ASSUME WebInv, NEW t \in Tasks, GenerateKeys(t) \/ Decrypt(t)
  PROVE  WebInv'
<1>1. /\ view.path = "/trustee" /\ ~view.processing
      /\ UNCHANGED <<server, page, memory, late>>
  BY DEF GenerateKeys, Decrypt, TrusteeEnabled
<1>2. PICK task :
        /\ Set(t, task) /\ DOMAIN task = DOMAIN Idle /\ task.pc = "Crypto"
        /\ task.handler \in {"keygen", "decrypt"} /\ task.attached = TRUE
        /\ task.request = None /\ Loaded(task)
        /\ task.handler = "keygen" => task.arg = None
        /\ task.handler = "decrypt" =>
             /\ task.arg.sum \in Nat /\ ValidTallyBound(task.arg.bound)
             /\ Decrypt(t)
  <2>1. CASE GenerateKeys(t)
    <3>. DEFINE new == Started("keygen", "Crypto", None)
    <3>1. Set(t, new)
      BY <2>1 DEF GenerateKeys
    <3>2. /\ DOMAIN new = DOMAIN Idle /\ new.handler = "keygen"
          /\ new.pc = "Crypto" /\ new.attached = TRUE /\ new.arg = None
          /\ new.request = None /\ Loaded(new)
      BY DEF Started, Idle, Loaded
    <3>. HIDE DEF new
    <3>. QED
      BY <3>1, <3>2
  <2>2. CASE Decrypt(t)
    <3>1. PICK bound \in Bounds :
            /\ ValidTallyBound(bound)
            /\ Set(t, Started("decrypt", "Crypto",
                 [rightKey |-> RightShares(view.shares), sum |-> encryptedTally,
                  bound |-> bound]))
      BY <2>2 DEF Decrypt
    <3>. DEFINE job == [rightKey |-> RightShares(view.shares), sum |-> encryptedTally,
                        bound |-> bound]
                new == Started("decrypt", "Crypto", job)
    <3>2. job.sum \in Nat /\ ValidTallyBound(job.bound)
      BY <2>2, <3>1 DEF Decrypt, WebInv, PageInv
    <3>. HIDE DEF job
    <3>3. /\ DOMAIN new = DOMAIN Idle /\ new.handler = "decrypt"
          /\ new.pc = "Crypto" /\ new.attached = TRUE /\ new.arg = job
          /\ new.request = None /\ Loaded(new)
      BY DEF Started, Idle, Loaded
    <3>4. Set(t, new)
      BY <3>1 DEF job
    <3>. HIDE DEF new
    <3>. QED
      BY <2>2, <3>2, <3>3, <3>4
  <2>. QED
    BY <2>1, <2>2
<1>3. ArgOK(task)
  BY <1>2 DEF ArgOK
<1>4. TaskOK(task, issued, ledger)
  BY <1>2, <1>3 DEF TaskOK
<1>5. /\ view'.path = "/trustee" /\ DOMAIN view' = DOMAIN view
      /\ view'.processing = TRUE /\ view'.setup = view.setup
      /\ Decrypt(t) => view'.shares = None
  BY <1>1, TrusteeFields DEF GenerateKeys, Decrypt, DecryptStarts
<1>6. ViewInv' /\ Busy'
  BY <1>1, <1>5, TrusteeFields, TrusteeView
<1>7. ~Busy /\ view'.path = PathOf(task.handler)
  BY <1>1, <1>2, <1>5 DEF Busy, PathOf
<1>. QED
  BY <1>1, <1>2, <1>4, <1>5, <1>6, <1>7, HandlerStarts

-----------------------------------------------------------------------------
(* Handlers that go on                                                     *)

\* A handler goes on and shows something in its view.
LEMMA HandlerGoesOn ==
  ASSUME WebInv, UNCHANGED <<server, late>>, NEW t \in Tasks, NEW task,
         Set(t, task), TaskOK(task, issued, ledger), tasks[t].attached,
         task.attached, task.handler = tasks[t].handler, task.arg = tasks[t].arg,
         ViewInv', Busy' <=> Busy, view'.path = view.path,
         task.handler = "cast" => view'.message = view.message /\ view'.id = view.id,
         task.handler = "decrypt" => view'.shares = view.shares,
         PageInv', MemoryInv'
  PROVE  WebInv'
<1>1. Grows /\ issued' = issued /\ ledger' = ledger
  BY NoGrowth DEF server
<1>2. TasksInv' /\ tasks'[t] = task /\ \A u \in Tasks \ {t} : tasks'[u] = tasks[u]
  BY <1>1, OneTask DEF WebInv
<1>3. \A u \in Tasks : tasks[u].attached <=> u = t
  BY DEF WebInv, AttachedInv
<1>4. \A u \in Tasks : tasks'[u].attached <=> u = t
  BY <1>2, <1>3
<1>5. AttachedInv'
  BY <1>2, <1>3, <1>4 DEF WebInv, AttachedInv
<1>. QED
  BY <1>1, <1>2, <1>5, ServerStays, LateStays DEF WebInv

LEMMA BallotEncryptedSafe ==
  ASSUME WebInv, NEW t \in Tasks, BallotEncrypted(t) PROVE WebInv'
<1>1. /\ tasks[t].handler = "cast" /\ tasks[t].pc = "Crypto"
      /\ UNCHANGED <<server, page, memory, view, late>>
  BY DEF BallotEncrypted, At
<1>2. TaskOK(tasks[t], issued, ledger) /\ tasks[t].arg \in Ballots
  BY <1>1, TaskTyped DEF TaskOK, ArgOK
<1>3. PageInv' /\ MemoryInv'
  BY <1>1, PageStays, MemoryStays, NoGrowth DEF WebInv
<1>4. PICK pc, q :
        /\ pc \in {"Login", "Post"}
        /\ Set(t, Sends(tasks[t], pc, q)) /\ RequestOK(q, issued)
        /\ pc = "Login" => q.op = "Login"
        /\ pc = "Post" => q.op = "Ballot" /\ q.ballot = tasks[t].arg
                          /\ q.token.code \in issued
  <2>1. CASE memoryVoterSessionToken = None
    <3>. DEFINE q == LoginRequest(tasks[t].arg.nullifier.secret)
    <3>1. Set(t, Sends(tasks[t], "Login", q))
      BY <2>1 DEF BallotEncrypted
    <3>2. q.op = "Login" /\ RequestOK(q, issued)
      BY DEF LoginRequest, RequestOK, Requested
    <3>. HIDE DEF q
    <3>. QED
      BY <3>1, <3>2
  <2>2. CASE memoryVoterSessionToken # None
    <3>. DEFINE q == BallotRequest(memoryVoterSessionToken, tasks[t].arg)
    <3>1. Set(t, Sends(tasks[t], "Post", q))
      BY <2>2 DEF BallotEncrypted
    <3>2. /\ q.op = "Ballot" /\ q.ballot = tasks[t].arg /\ RequestOK(q, issued)
          /\ q.token.code \in issued
      BY <1>2, <2>2 DEF BallotRequest, RequestOK, Requested, WebInv, MemoryInv
    <3>. HIDE DEF q
    <3>. QED
      BY <3>1, <3>2
  <2>. QED
    BY <2>1, <2>2
<1>. DEFINE task == Sends(tasks[t], pc, q)
<1>5. /\ DOMAIN task = DOMAIN Idle /\ task.handler = "cast" /\ task.pc = pc
      /\ task.attached = tasks[t].attached /\ task.arg = tasks[t].arg
      /\ task.request = q /\ task.answer = Pending /\ Loaded(task)
  BY <1>1, <1>2, SendsFields DEF TaskOK
<1>. HIDE DEF task
<1>6. ArgOK(task) /\ CastOK(task, issued, ledger)
  BY <1>2, <1>4, <1>5 DEF ArgOK, CastOK, Accepted
<1>7. TaskOK(task, issued, ledger)
  BY <1>2, <1>4, <1>5, <1>6 DEF TaskOK
<1>8. Set(t, task)
  BY <1>4 DEF task
<1>. QED
  BY <1>1, <1>3, <1>5, <1>7, <1>8, QuietStep

LEMMA LoginAnsweredSafe ==
  ASSUME WebInv, NEW t \in Tasks, LoginAnswered(t) PROVE WebInv'
<1>. DEFINE q == BallotRequest(tasks[t].answer.body, tasks[t].arg)
            task == Sends(tasks[t], "Post", q)
<1>1. /\ tasks[t].handler = "cast" /\ tasks[t].pc = "Login" /\ Answered(t)
      /\ Set(t, task) /\ memoryVoterSessionToken' = tasks[t].answer.body
      /\ UNCHANGED <<server, page, cryptoModule, isAuthenticated, view, late>>
  BY DEF LoginAnswered, At
<1>2. /\ TaskOK(tasks[t], issued, ledger) /\ tasks[t].arg \in Ballots
      /\ tasks[t].answer.body.code \in issued
  BY <1>1, TaskTyped DEF TaskOK, ArgOK, CastOK, Accepted, Answered
<1>3. PageInv' /\ MemoryInv'
  BY <1>1, <1>2, PageStays DEF WebInv, MemoryInv, server
<1>4. /\ q.op = "Ballot" /\ q.ballot = tasks[t].arg /\ RequestOK(q, issued)
      /\ q.token.code \in issued
  BY <1>2 DEF BallotRequest, RequestOK, Requested
<1>. HIDE DEF q
<1>5. /\ DOMAIN task = DOMAIN Idle /\ task.handler = "cast" /\ task.pc = "Post"
      /\ task.attached = tasks[t].attached /\ task.arg = tasks[t].arg
      /\ task.request = q /\ task.answer = Pending /\ Loaded(task)
  BY <1>1, <1>2, SendsFields DEF TaskOK
<1>. HIDE DEF task
<1>6. ArgOK(task) /\ CastOK(task, issued, ledger)
  BY <1>2, <1>4, <1>5 DEF ArgOK, CastOK, Accepted
<1>7. TaskOK(task, issued, ledger)
  BY <1>2, <1>4, <1>5, <1>6 DEF TaskOK
<1>. QED
  BY <1>1, <1>3, <1>5, <1>7, QuietStep

LEMMA CastReceiptSafe ==
  ASSUME WebInv, NEW t \in Tasks, CastReceipt(t) PROVE WebInv'
<1>1. /\ tasks[t].handler = "cast" /\ tasks[t].pc = "Digest" /\ Ends(t)
      /\ UNCHANGED <<server, page, memory, late>> /\ ledger' = ledger
  BY DEF CastReceipt, At, server
<1>2. tasks[t].arg \in Ballots /\ Logged(tasks[t].arg, ledger)
  BY <1>1, TaskTyped DEF TaskOK, ArgOK, CastOK
<1>3. ASSUME tasks[t].attached PROVE ViewInv' /\ ~Busy'
  <2>1. /\ view.path = "/vote"
        /\ view' = [view EXCEPT !.submitting = FALSE, !.receipt = tasks[t].arg]
    BY <1>1, <1>3, AttachedView DEF CastReceipt, Shows
  <2>2. /\ view'.path = "/vote" /\ DOMAIN view' = DOMAIN FreshVoterView
        /\ view'.secret = view.secret /\ view'.vote = view.vote
        /\ view'.confirming = view.confirming /\ view'.id = view.id
        /\ view'.submitting = FALSE /\ view'.receipt = tasks[t].arg
    BY <2>1, VoteFields
  <2>. QED
    BY <1>1, <1>2, <2>1, <2>2, VoteFields, VoteView
<1>4. ~tasks[t].attached => UNCHANGED view
  BY DEF CastReceipt, Shows
<1>. QED
  BY <1>1, <1>3, <1>4, HandlerEnds, PageStays, MemoryStays, LateStays, NoGrowth
  DEF WebInv

LEMMA DecryptedSafe ==
  ASSUME WebInv, NEW t \in Tasks, Decrypted(t) PROVE WebInv'
<1>1. PICK yes :
        Shows(t, [view EXCEPT !.result = yes, !.processing = FALSE,
                              !.shares = None,
                              !.status = FailsWith(Message("NotSerializable"))])
  BY DEF Decrypted
<1>. DEFINE status == FailsWith(Message("NotSerializable"))
<1>2. /\ tasks[t].handler = "decrypt" /\ Ends(t)
      /\ UNCHANGED <<server, page, memory, late>>
      /\ view' = IF tasks[t].attached
                 THEN [view EXCEPT !.result = yes, !.processing = FALSE,
                                   !.shares = None, !.status = status]
                 ELSE view
  BY <1>1 DEF Decrypted, At, Shows
<1>. HIDE DEF status
<1>3. tasks[t].attached =>
        /\ DOMAIN view' = DOMAIN view /\ view'.path = view.path
        /\ view'.processing = FALSE /\ view'.setup \in {view.setup, TRUE}
  BY <1>2, AttachedView, TrusteeFields
<1>. QED
  BY <1>2, <1>3, TrusteeEndsSafe, PageStays, MemoryStays, LateStays, NoGrowth
  DEF WebInv

\* The end of a refresh, whichever, leaves the page as it should be.
LEMMA RefreshEndsPage ==
  ASSUME WebInv, NEW t \in Tasks, NEW why, RefreshEnds(t, why)
  PROVE  /\ PageInv' /\ MemoryInv' /\ LateInv' /\ UNCHANGED <<server, late>>
         /\ tasks[t].pc = "Refresh"
<1>1. /\ tasks[t].pc = "Refresh" /\ loading' = FALSE /\ UNCHANGED <<server, memory, late>>
      /\ RefreshLoads(t) \/ RefreshFails(why)
  BY DEF RefreshEnds
<1>2. Loaded(tasks[t])
  BY TaskTyped DEF TaskOK
<1>3. CASE RefreshLoads(t)
  <2>1. encryptedTally' \in Nat \cup {None} /\ isDemoExpired' = isDemoExpired
    BY <1>2, <1>3 DEF RefreshLoads, Loaded
  <2>2. ASSUME tasks[t].row = None PROVE PageInv'
    BY <1>1, <1>3, <2>1, <2>2 DEF RefreshLoads, PageInv, WebInv
  <2>3. ASSUME tasks[t].row # None PROVE PageInv'
    <3>1. /\ electionDetails'.phase = tasks[t].row.phase
          /\ electionDetails'.pk = tasks[t].row.pk
          /\ electionDetails'.ballots = tasks[t].count
      BY <1>3, <2>3 DEF RefreshLoads
    <3>2. /\ tasks[t].row.phase \in Phases /\ tasks[t].row.pk \in PublicKeys
          /\ tasks[t].count \in Nat
      BY <1>2, <1>3, <2>3 DEF RefreshLoads, Loaded
    <3>. QED
      BY <1>1, <2>1, <3>1, <3>2 DEF PageInv, WebInv
  <2>4. PageInv'
    BY <2>2, <2>3
  <2>. QED
    BY <1>1, <2>4, MemoryStays, LateStays, NoGrowth DEF WebInv
<1>4. CASE RefreshFails(why)
  <2>1. (isDemoExpired \/ DemoBackendExpired(why)) \in BOOLEAN
    OBVIOUS
  <2>2. PageInv'
    BY <1>1, <1>4, <2>1 DEF RefreshFails, PageInv, WebInv
  <2>. QED
    BY <1>1, <2>2, MemoryStays, LateStays, NoGrowth DEF WebInv
<1>. QED
  BY <1>1, <1>3, <1>4

LEMMA CastAcceptedSafe ==
  ASSUME WebInv, NEW t \in Tasks, NEW why, RefreshEnds(t, why), CastAccepted(t)
  PROVE  WebInv'
<1>. DEFINE task == [tasks[t] EXCEPT !.pc = "Digest", !.request = None]
<1>1. /\ PageInv' /\ MemoryInv' /\ UNCHANGED <<server, late>>
      /\ tasks[t].pc = "Refresh" /\ tasks[t].handler = "cast"
      /\ Set(t, task) /\ Shows(t, Cleared(view)) /\ ledger' = ledger
  BY RefreshEndsPage DEF CastAccepted, server
<1>2. TaskOK(tasks[t], issued, ledger)
  BY TaskTyped
<1>3. /\ DOMAIN task = DOMAIN Idle /\ task.handler = "cast" /\ task.pc = "Digest"
      /\ task.attached = tasks[t].attached /\ task.arg = tasks[t].arg
      /\ task.request = None /\ task.row = tasks[t].row
      /\ task.count = tasks[t].count /\ task.tally = tasks[t].tally
  BY <1>1, <1>2 DEF TaskOK, Idle
<1>. HIDE DEF task
<1>4. ArgOK(task) /\ Loaded(task) /\ CastOK(task, issued, ledger)
  BY <1>1, <1>2, <1>3 DEF TaskOK, ArgOK, Loaded, CastOK
<1>5. TaskOK(task, issued, ledger)
  BY <1>2, <1>3, <1>4 DEF TaskOK
<1>6. CASE tasks[t].attached
  <2>1. view.path = "/vote" /\ view' = Cleared(view)
    BY <1>1, <1>6, AttachedView DEF Shows
  <2>2. /\ view'.path = "/vote" /\ DOMAIN view' = DOMAIN FreshVoterView
        /\ view'.secret = None /\ view'.vote = None /\ view'.confirming = FALSE
        /\ view'.id = view.id /\ view'.submitting = view.submitting
        /\ view'.receipt = view.receipt /\ view'.message = view.message
    BY <2>1, VoteFields DEF Cleared
  <2>3. ViewInv' /\ (Busy' <=> Busy)
    BY <1>1, <2>1, <2>2, VoteFields, VoteView DEF Busy
  <2>. QED
    BY <1>1, <1>3, <1>5, <1>6, <2>1, <2>2, <2>3, HandlerGoesOn
<1>7. CASE ~tasks[t].attached
  BY <1>1, <1>3, <1>5, <1>7, QuietStep DEF Shows
<1>. QED
  BY <1>6, <1>7

LEMMA RefreshedSafe ==
  ASSUME WebInv, NEW t \in Tasks, NEW why, Refreshed(t, why) PROVE WebInv'
<1>1. /\ RefreshEnds(t, why) /\ PageInv' /\ MemoryInv' /\ LateInv'
      /\ UNCHANGED <<server, late>>
  BY RefreshEndsPage DEF Refreshed
<1>2. CASE RefreshDone(t)
  <2>1. ~tasks[t].attached
    BY <1>2, AttachedView DEF RefreshDone
  <2>. QED
    BY <1>1, <1>2, <2>1, HandlerEnds DEF RefreshDone
<1>3. CASE CastAccepted(t)
  BY <1>1, <1>3, CastAcceptedSafe
<1>4. CASE AdminDone(t)
  BY <1>1, <1>4, AdminEndsSafe DEF AdminDone
<1>. QED
  BY <1>2, <1>3, <1>4 DEF Refreshed

LEMMA TrusteeFailsSafe ==
  ASSUME WebInv, NEW t \in Tasks, NEW why, TrusteeFails(t, why), LateInv'
  PROVE  WebInv'
<1>. DEFINE status == FailsWith(Message(why))
            shares == IF tasks[t].handler = "decrypt" THEN None ELSE view.shares
<1>1. tasks[t].attached => view.path = "/trustee"
  BY AttachedView DEF TrusteeFails
<1>2. /\ Ends(t) /\ tasks[t].handler \in {"keygen", "decrypt"}
      /\ UNCHANGED <<server, page, memory>>
      /\ view' = IF tasks[t].attached
                 THEN [view EXCEPT !.processing = FALSE, !.shares = shares,
                                   !.status = status]
                 ELSE view
  BY DEF TrusteeFails, Shows
<1>. HIDE DEF status, shares
<1>3. tasks[t].attached =>
        /\ DOMAIN view' = DOMAIN view /\ view'.path = view.path
        /\ view'.processing = FALSE /\ view'.setup \in {view.setup, TRUE}
  BY <1>1, <1>2, TrusteeFields
<1>. QED
  BY <1>2, <1>3, TrusteeEndsSafe, PageStays, MemoryStays, NoGrowth DEF WebInv

LEMMA TrusteeStepSafe ==
  ASSUME WebInv, NEW t \in Tasks, TrusteeStep(t) PROVE WebInv'
<1>1. CASE KeysGenerated(t)
  <2>1. /\ tasks[t].handler = "keygen" /\ Ends(t)
        /\ UNCHANGED <<server, page, memory, late>>
        /\ view' = IF tasks[t].attached
                   THEN [view EXCEPT !.processing = FALSE, !.setup = TRUE] ELSE view
    BY <1>1 DEF KeysGenerated, At, Shows
  <2>2. tasks[t].attached =>
          /\ DOMAIN view' = DOMAIN view /\ view'.path = view.path
          /\ view'.processing = FALSE /\ view'.setup = TRUE
    BY <2>1, AttachedView, TrusteeFields
  <2>. QED
    BY <2>1, <2>2, TrusteeEndsSafe, PageStays, MemoryStays, LateStays, NoGrowth
    DEF WebInv
<1>2. CASE Decrypted(t)
  BY <1>2, DecryptedSafe
<1>3. CASE TrusteeCryptoFailed(t)
  <2>1. UNCHANGED server /\ LateInv'
    BY <1>3, LateStays, NoGrowth
    DEF TrusteeCryptoFailed, TrusteeFails, WebInv
  <2>. QED
    BY <1>3, <2>1, TrusteeFailsSafe DEF TrusteeCryptoFailed
<1>. QED
  BY <1>1, <1>2, <1>3 DEF TrusteeStep

LEMMA RejectedSafe ==
  ASSUME WebInv, NEW t \in Tasks, Rejected(t) PROVE WebInv'
<1>1. PICK why : Throws(t, why) /\ Fails(t, why)
  BY DEF Rejected
<1>2. UNCHANGED <<server, page, memory>>
  BY <1>1
  DEF Fails, CastFails, LookupFails, LookupEnds, AdminFails, TrusteeFails
<1>3. RequestOK(tasks[t].request, issued)
  BY <1>1, TaskTyped DEF Throws, TaskOK
<1>4. LateInv'
  <2>1. late' \subseteq late \cup {tasks[t].request}
    BY <1>1 DEF Throws, Aborted, GivenUp
  <2>. QED
    BY <1>2, <1>3, <2>1, LateStays, NoGrowth DEF WebInv
<1>5. PageInv' /\ MemoryInv'
  BY <1>2, PageStays, MemoryStays, NoGrowth DEF WebInv
<1>6. CASE CastFails(t, why)
  BY <1>4, <1>6, CastFailsSafe
<1>7. CASE LookupFails(t)
  BY <1>4, <1>7, LookupEndsSafe DEF LookupFails
<1>8. CASE AdminFails(t, why)
  BY <1>2, <1>4, <1>5, <1>8, AdminEndsSafe DEF AdminFails
<1>9. CASE TrusteeFails(t, why)
  BY <1>4, <1>9, TrusteeFailsSafe
<1>. QED
  BY <1>1, <1>6, <1>7, <1>8, <1>9 DEF Fails

LEMMA ProceedsSafe ==
  ASSUME WebInv, NEW t \in Tasks, Proceeds(t) PROVE WebInv'
<1>1. CASE EncryptionFailed(t)
  <2>1. UNCHANGED server /\ late' = late /\ CastFails(t, "CryptoFailed")
    BY <1>1 DEF EncryptionFailed, CastFails
  <2>. QED
    BY <2>1, CastFailsSafe, LateStays, NoGrowth DEF WebInv
<1>2. CASE LookupAnswered(t)
  <2>1. /\ tasks[t].handler = "lookup" /\ Accepted(tasks[t]) /\ late' = late
        /\ LookupEnds(t, tasks[t].answer.body) /\ UNCHANGED server
    BY <1>2 DEF LookupAnswered, Answered, Accepted, LookupEnds
  <2>2. tasks[t].answer.body = TRUE => NullifierLogged(tasks[t].arg, ledger)
    BY <2>1, TaskTyped DEF TaskOK, LookupOK
  <2>. QED
    BY <2>1, <2>2, LookupEndsSafe, LateStays, NoGrowth DEF WebInv
<1>. QED
  BY <1>1, <1>2, PostAnsweredSafe, BallotEncryptedSafe, LoginAnsweredSafe,
     CastReceiptSafe, TrusteeStepSafe
  DEF Proceeds, CastStep

-----------------------------------------------------------------------------
(* The invariant                                                           *)

LEMMA InitSafe == Init => WebInv
<1>. SUFFICES ASSUME Init PROVE WebInv
  OBVIOUS
<1>1. ServerInv
  <2>1. PICK s \in InitialServers : election = s.election /\ issued = s.issued
    BY DEF Init
  <2>2. /\ election \in [phase : Phase, pk : PublicKeys, tally : Int]
        /\ issued \subseteq Credentials
    BY <2>1, InitialServersAssumption DEF Phase
  <2>3. ledger = << >> /\ spent = {}
    BY DEF Init
  <2>4. ledger \in Seq(Entries) /\ Len(ledger) = 0
    BY <2>3
  <2>. QED
    BY <2>2, <2>3, <2>4 DEF ServerInv
<1>2. PageInv /\ MemoryInv /\ LateInv
  BY DEF Init, PageInv, MemoryInv, LateInv
<1>3. PICK t \in Tasks : tasks = Loading(t)
  BY DEF Init
<1>4. TasksInv /\ \A u \in Tasks : ~tasks[u].attached
  BY <1>3, LoadingOK DEF TasksInv
<1>5. PICK path \in Routes : view = Mounted(path)
  BY DEF Init
<1>6. ViewInv /\ ~Busy
  <2>1. CASE path = "/vote"
    <3>1. view = FreshVoterView /\ Mounted("/vote") = FreshVoterView
      BY <1>5, <2>1 DEF Mounted
    <3>2. /\ view.path = "/vote" /\ "path" \in DOMAIN view
          /\ view.secret = None /\ view.vote = None /\ view.id = DefaultId
          /\ view.confirming = FALSE /\ view.submitting = FALSE
          /\ view.receipt = None
      BY <3>1 DEF FreshVoterView
    <3>3. ViewOK(view)
      BY <3>2, DefaultIdAssumption DEF ViewOK
    <3>. QED
      BY <3>1, <3>2, <3>3 DEF ViewInv, Busy
  <2>2. CASE path = "/verify"
    <3>1. view = FreshObserverView /\ Mounted("/verify") = FreshObserverView
      BY <1>5, <2>2 DEF Mounted
    <3>2. /\ view.path = "/verify" /\ "path" \in DOMAIN view
          /\ view.checking = FALSE /\ view.result = None
      BY <3>1 DEF FreshObserverView
    <3>3. ViewOK(view)
      BY <3>2 DEF ViewOK
    <3>. QED
      BY <3>1, <3>2, <3>3 DEF ViewInv, Busy, ToldRecorded
  <2>3. CASE path = "/admin"
    <3>1. view = FreshAdminView /\ Mounted("/admin") = FreshAdminView
      BY <1>5, <2>3 DEF Mounted
    <3>2. /\ view.path = "/admin" /\ "path" \in DOMAIN view
          /\ view.pending = None /\ view.submitting = FALSE
      BY <3>1 DEF FreshAdminView
    <3>3. ViewOK(view)
      BY <3>2 DEF ViewOK
    <3>. QED
      BY <3>1, <3>2, <3>3 DEF ViewInv, Busy
  <2>4. CASE path = "/trustee"
    <3>1. view = FreshTrusteeView /\ Mounted("/trustee") = FreshTrusteeView
      BY <1>5, <2>4 DEF Mounted
    <3>2. /\ view.path = "/trustee" /\ "path" \in DOMAIN view
          /\ view.setup = FALSE /\ view.processing = FALSE
      BY <3>1 DEF FreshTrusteeView
    <3>3. ViewOK(view)
      BY <3>2 DEF ViewOK
    <3>. QED
      BY <3>1, <3>2, <3>3 DEF ViewInv, Busy
  <2>5. CASE path \notin {"/vote", "/verify", "/admin", "/trustee"}
    <3>1. view = [path |-> path] /\ Mounted(path) = [path |-> path]
      BY <1>5, <2>5 DEF Mounted
    <3>2. view.path = path /\ DOMAIN view = {"path"} /\ Mounted(path) = view
      BY <3>1
    <3>. QED
      BY <2>5, <3>2 DEF ViewInv, ViewOK, Busy
  <2>. QED
    BY <2>1, <2>2, <2>3, <2>4, <2>5
<1>7. AttachedInv
  BY <1>4, <1>6 DEF AttachedInv
<1>. QED
  BY <1>1, <1>2, <1>4, <1>6, <1>7 DEF WebInv

LEMMA NextSafe == WebInv /\ [Next]_vars => WebInv'
<1>. SUFFICES ASSUME WebInv, [Next]_vars PROVE WebInv'
  OBVIOUS
<1>1. CASE VoterActs
  BY <1>1, VoterActsSafe, CastBallotSafe DEF VoterActs
<1>2. CASE AdminActs
  BY <1>2, AdminActsSafe, AdminStartsSafe DEF AdminActs
<1>3. CASE TrusteeActs
  BY <1>3, TrusteeActsSafe, TrusteeStartsSafe DEF TrusteeActs
<1>4. CASE LookupMalformed \/ \E t \in Tasks : Lookup(t)
  BY <1>4, LookupMalformedSafe, LookupSafe
<1>5. CASE Login \/ Logout \/ CryptoSettles
  BY <1>5, MemorySafe
<1>6. CASE Navigate \/ PageHide \/ Reload
  BY <1>6, NavigateSafe, PageHideSafe, ReloadSafe
<1>7. CASE UserRefreshes
  BY <1>7, RefreshSafe DEF UserRefreshes
<1>8. ASSUME NEW t \in Tasks, ServerStep(t) PROVE WebInv'
  BY <1>8, ServeSafe, ReadSafe DEF ServerStep
<1>9. ASSUME NEW t \in Tasks, Proceeds(t) \/ Rejected(t) PROVE WebInv'
  BY <1>9, ProceedsSafe, RejectedSafe
<1>10. ASSUME NEW t \in Tasks, \E why \in Failures \cup {"none"} : Refreshed(t, why)
       PROVE  WebInv'
  BY <1>10, RefreshedSafe
<1>11. CASE ServeLate \/ OtherClients \/ TimePasses
  BY <1>11, AloneSafe
<1>12. CASE UNCHANGED vars
  BY <1>12, NoGrowth, ServerStays, PageStays, MemoryStays, LateStays, ViewStays,
     TasksStay, AttachedStays
  DEF vars, WebInv
<1>. QED
  BY <1>1, <1>2, <1>3, <1>4, <1>5, <1>6, <1>7, <1>8, <1>9, <1>10, <1>11, <1>12
  DEF Next

LEMMA WebSafe == Spec => []WebInv
BY InitSafe, NextSafe, PTL DEF Spec

-----------------------------------------------------------------------------
(* What follows from the invariant                                         *)

LEMMA WebInvTyped == WebInv => TypeOK
<1>. SUFFICES ASSUME WebInv PROVE TypeOK
  OBVIOUS
<1>1. /\ election.phase \in Phase /\ issued \subseteq Credentials
      /\ spent \subseteq issued
      /\ \A i \in 1..Len(ledger) : ledger[i].ballot \in Ballots /\ ledger[i].by \in issued
  <2>1. ledger \in Seq(Entries) /\ \A i \in 1..Len(ledger) : ledger[i].by \in issued
    BY DEF WebInv, ServerInv
  <2>2. \A i \in 1..Len(ledger) : ledger[i] \in Entries
    BY <2>1
  <2>3. \A i \in 1..Len(ledger) : ledger[i].ballot \in Ballots
    BY <2>2 DEF Entries
  <2>. QED
    BY <2>1, <2>3 DEF WebInv, ServerInv
<1>2. /\ electionDetails # None =>
           electionDetails.phase \in Phases /\ electionDetails.ballots \in Nat
      /\ encryptedTally \in Nat \cup {None}
  BY DEF WebInv, PageInv
<1>3. {loading, isDemoExpired, isAuthenticated} \subseteq BOOLEAN
  BY DEF WebInv, PageInv, MemoryInv
<1>4. /\ memoryVoterSessionToken # None => memoryVoterSessionToken.code \in issued
      /\ cryptoModule \in {"unset", "ready", "failed"}
  BY DEF WebInv, MemoryInv
<1>5. \A t \in Tasks :
        /\ tasks[t].pc \in {"Idle", "Crypto", "Login", "Post", "Lookup", "Refresh",
                           "Digest"}
        /\ tasks[t].request # None => tasks[t].request.op \in Requested
        /\ ArgOK(tasks[t])
  BY DEF WebInv, TasksInv, TaskOK, RequestOK
<1>6. (\A q \in late : q.op \in Requested) /\ ViewOK(view)
  BY DEF WebInv, LateInv, RequestOK, ViewInv
<1>. QED
  BY <1>1, <1>2, <1>3, <1>4, <1>5, <1>6 DEF TypeOK

LEMMA WebInvBusy == WebInv => BusyMeansRunning
<1>. SUFFICES ASSUME WebInv PROVE BusyMeansRunning
  OBVIOUS
<1>. DEFINE running == {t \in Tasks : tasks[t].attached}
<1>1. CASE Busy
  <2>1. PICK t \in Tasks : tasks[t].attached
    BY <1>1 DEF WebInv, AttachedInv
  <2>2. running = {t}
    BY <2>1 DEF WebInv, AttachedInv
  <2>. QED
    BY <1>1, <2>2, FS_Singleton DEF BusyMeansRunning
<1>2. CASE ~Busy
  <2>1. running = {}
    BY <1>2 DEF WebInv, AttachedInv
  <2>. QED
    BY <1>2, <2>1, FS_EmptySet DEF BusyMeansRunning
<1>. QED
  BY <1>1, <1>2

-----------------------------------------------------------------------------
(* Theorems                                                                *)

\* What the page and the server keep is well-formed, whatever is typed, pressed,
\* answered, aborted or left.
THEOREM WebTypeCorrect == Spec => []TypeOK
BY WebSafe, WebInvTyped, PTL

\* The receipt of VoterView is shown only for a ballot of the bulletin.
THEOREM ReceiptsTellTruth == Spec => []ReceiptMeansRecorded
<1>1. WebInv => ReceiptMeansRecorded
  BY DEF WebInv, ViewInv, Logged, ReceiptMeansRecorded
<1>. QED
  BY <1>1, WebSafe, PTL

\* castBallot never reaches the branch of submit_ballot without a credential.
THEOREM SessionsCarried == Spec => []NeverAnonymous
<1>1. WebInv => NeverAnonymous
  BY DEF WebInv, ServerInv, TasksInv, TaskOK, CastOK, At, NeverAnonymous
<1>. QED
  BY <1>1, WebSafe, PTL

\* The buttons of a view are off exactly while its one handler runs, however
\* often views are left and mounted again meanwhile.
THEOREM ButtonsTellWork == Spec => []BusyMeansRunning
BY WebSafe, WebInvBusy, PTL

\* "[RECORDED ON-CHAIN]" of PublicView is shown only for a recorded nullifier.
THEOREM LookupsTellTruth == Spec => []FoundMeansRecorded
<1>1. WebInv => FoundMeansRecorded
  BY DEF WebInv, ViewInv, NullifierLogged, Recorded, FoundMeansRecorded
<1>. QED
  BY <1>1, WebSafe, PTL

\* The trustees' shares are out of the form of TrusteeView from the start of
\* the decryption to its end.
THEOREM SharesCleared == Spec => []SharesNotKept
<1>1. WebInv => SharesNotKept
  BY DEF WebInv, AttachedInv, SharesNotKept
<1>. QED
  BY <1>1, WebSafe, PTL

-----------------------------------------------------------------------------
(* The handler of a submission, step by step                               *)

Casting(t) == tasks[t].handler = "cast" /\ tasks[t].attached

\* The view of the voter is not filled in while the handler runs.
Kept ==
  /\ view'.secret \in {None, view.secret}
  /\ view'.vote \in {None, view.vote}

\* The handler of another slot has no part in the view.
LEMMA OthersLeave ==
  ASSUME WebInv, NEW t \in Tasks, Casting(t), NEW u \in Tasks, u # t, NEW why,
         ServerStep(u) \/ Proceeds(u) \/ Rejected(u) \/ Refreshed(u, why)
  PROVE  tasks'[t] = tasks[t] /\ view' = view
<1>1. ~tasks[u].attached /\ DOMAIN tasks = Tasks
  BY DEF WebInv, AttachedInv, TasksInv, Casting
<1>2. \A task : Set(u, task) => tasks'[t] = tasks[t]
  BY <1>1 DEF Set
<1>3. \A state : Shows(u, state) => view' = view
  BY <1>1 DEF Shows
<1>4. CASE ServerStep(u)
  BY <1>2, <1>4 DEF ServerStep, Serve, ReadRow, ReadCount, ReadTally
<1>5. ASSUME NEW w, Fails(u, w) PROVE tasks'[t] = tasks[t] /\ view' = view
  BY <1>2, <1>3, <1>5
  DEF Fails, CastFails, LookupFails, LookupEnds, AdminFails, TrusteeFails, Ends
<1>6. CASE Rejected(u)
  BY <1>5, <1>6 DEF Rejected
<1>7. CASE Refreshed(u, why)
  BY <1>2, <1>3, <1>7
  DEF Refreshed, RefreshDone, CastAccepted, AdminDone, Ends
<1>8. CASE Proceeds(u)
  <2>1. CASE PostAnswered(u)
    BY <1>2, <2>1 DEF PostAnswered, RefreshBegins
  <2>2. CASE CastStep(u)
    BY <1>2, <1>3, <2>2
    DEF CastStep, BallotEncrypted, LoginAnswered, EncryptionFailed, CastFails,
        CastReceipt, Ends
  <2>3. CASE LookupAnswered(u)
    BY <1>2, <1>3, <2>3 DEF LookupAnswered, LookupEnds, Ends
  <2>4. CASE TrusteeStep(u)
    BY <1>2, <1>3, <2>4
    DEF TrusteeStep, KeysGenerated, Decrypted, TrusteeCryptoFailed, TrusteeFails,
        Ends
  <2>. QED
    BY <1>8, <2>1, <2>2, <2>3, <2>4 DEF Proceeds
<1>. QED
  BY <1>4, <1>6, <1>7, <1>8

\* What the user and everybody else can do while the handler runs.
LEMMA UserLeaves ==
  ASSUME WebInv, NEW t \in Tasks, Casting(t),
         \/ VoterActs \/ AdminActs \/ TrusteeActs \/ LookupMalformed
         \/ (\E u \in Tasks : Lookup(u)) \/ Login \/ Logout \/ UserRefreshes
         \/ PageHide \/ CryptoSettles \/ ServeLate \/ OtherClients \/ TimePasses
         \/ UNCHANGED vars
  PROVE  tasks'[t] = tasks[t] /\ Kept
<1>1. /\ view.path = "/vote" /\ view.submitting /\ tasks[t].pc # "Idle"
      /\ DOMAIN tasks = Tasks
  BY DEF WebInv, AttachedInv, TasksInv, TaskOK, PathOf, Busy, Casting
<1>2. DOMAIN view = {"path", "secret", "vote", "id", "confirming", "submitting",
                     "receipt", "message"}
  BY <1>1, VoteFields
<1>3. CASE VoterActs
  <2>1. DismissReceipt
    BY <1>1, <1>3
    DEF VoterActs, PickVote, TypeSecret, TypeElectionId, ReviewBallot,
        CancelConfirm, CastInvalid, CastBallot, CastEnabled, FormEnabled
  <2>. QED
    BY <1>2, <2>1 DEF DismissReceipt, Fills, Kept
<1>4. CASE AdminActs \/ TrusteeActs \/ LookupMalformed \/ \E u \in Tasks : Lookup(u)
  <2>1. CASE AdminActs
    BY <1>1, <2>1
    DEF AdminActs, CreateInvalid, RegisterInvalid, AskTransition,
        CancelTransition, CreateElectionForm, RegisterVoters, ConfirmTransition,
        AdminEnabled
  <2>2. CASE TrusteeActs
    BY <1>1, <2>2
    DEF TrusteeActs, GenerateRefused, ClearSetup, TypeShares, DecryptRefused,
        GenerateKeys, Decrypt, TrusteeEnabled
  <2>3. CASE LookupMalformed \/ \E u \in Tasks : Lookup(u)
    BY <1>1, <2>3 DEF LookupMalformed, Lookup, LookupEnabled
  <2>. QED
    BY <1>4, <2>1, <2>2, <2>3
<1>5. CASE UserRefreshes
  <2>1. PICK u \in Tasks : Refresh(u)
    BY <1>5 DEF UserRefreshes
  <2>2. u # t
    BY <1>1, <2>1 DEF Refresh, Free
  <2>. QED
    BY <1>1, <2>1, <2>2 DEF Refresh, RefreshBegins, Set, Kept
<1>6. CASE PageHide
  BY <1>1, <1>2, <1>6 DEF PageHide, Cleared, Kept
<1>7. CASE Login \/ Logout \/ CryptoSettles \/ ServeLate \/ OtherClients
           \/ TimePasses \/ UNCHANGED vars
  BY <1>7
  DEF Login, Logout, CryptoSettles, ServeLate, OtherClients, TimePasses, vars, Kept
<1>. QED
  BY <1>3, <1>4, <1>5, <1>6, <1>7

\* The steps of the handler itself.
LEMMA CastSteps ==
  ASSUME WebInv, NEW t \in Tasks, Casting(t), NEW why,
         ServerStep(t) \/ Proceeds(t) \/ Rejected(t) \/ Refreshed(t, why)
  PROVE  \/ tasks'[t].pc = tasks[t].pc /\ Kept
         \/ tasks'[t].pc \in {"Login", "Post", "Refresh"}
         \/ CastAccepted(t) \/ CastReceipt(t)
         \/ \E w : (Throws(t, w) \/ w = "CryptoFailed") /\ CastFails(t, w)
<1>1. /\ tasks[t].handler = "cast" /\ DOMAIN tasks = Tasks
      /\ DOMAIN tasks[t] = DOMAIN Idle
  BY DEF WebInv, TasksInv, TaskOK, Casting
<1>2. \A task : Set(t, task) => tasks'[t] = task
  BY <1>1 DEF Set
<1>3. CASE ServerStep(t)
  BY <1>1, <1>2, <1>3 DEF ServerStep, Serve, ReadRow, ReadCount, ReadTally, Idle, Kept
<1>4. CASE Rejected(t)
  BY <1>1, <1>4
  DEF Rejected, Fails, LookupFails, LookupEnds, AdminFails, TrusteeFails
<1>5. CASE Refreshed(t, why)
  BY <1>1, <1>5 DEF Refreshed, RefreshDone, AdminDone
<1>6. CASE Proceeds(t)
  <2>1. CASE PostAnswered(t)
    BY <1>1, <1>2, <2>1 DEF PostAnswered, RefreshBegins, Refreshing, Idle
  <2>2. CASE BallotEncrypted(t) \/ LoginAnswered(t)
    BY <1>1, <1>2, <2>2 DEF BallotEncrypted, LoginAnswered, Sends, Idle
  <2>3. CASE EncryptionFailed(t)
    BY <2>3 DEF EncryptionFailed
  <2>4. CASE LookupAnswered(t) \/ TrusteeStep(t)
    BY <1>1, <2>4
    DEF LookupAnswered, TrusteeStep, KeysGenerated, Decrypted,
        TrusteeCryptoFailed, TrusteeFails, At
  <2>. QED
    BY <1>6, <2>1, <2>2, <2>3, <2>4 DEF Proceeds, CastStep
<1>. QED
  BY <1>3, <1>4, <1>5, <1>6

\* All that can happen while a voter waits for a submission.
LEMMA WhileCasting ==
  ASSUME WebInv, [Next]_vars, NEW t \in Tasks, Casting(t)
  PROVE  \/ Reload \/ Navigate
         \/ tasks'[t].pc = tasks[t].pc /\ Kept
         \/ tasks'[t].pc \in {"Login", "Post", "Refresh"}
         \/ CastAccepted(t) \/ CastReceipt(t)
         \/ \E w : (Throws(t, w) \/ w = "CryptoFailed") /\ CastFails(t, w)
<1>1. CASE \E u \in Tasks :
             \/ ServerStep(u) \/ Proceeds(u) \/ Rejected(u)
             \/ \E why \in Failures \cup {"none"} : Refreshed(u, why)
  <2>1. PICK u \in Tasks, why \in Failures \cup {"none"} :
          ServerStep(u) \/ Proceeds(u) \/ Rejected(u) \/ Refreshed(u, why)
    BY <1>1
  <2>2. CASE u = t
    BY <2>1, <2>2, CastSteps
  <2>3. CASE u # t
    BY <2>1, <2>3, OthersLeave DEF Kept
  <2>. QED
    BY <2>2, <2>3
<1>2. CASE ~\E u \in Tasks :
             \/ ServerStep(u) \/ Proceeds(u) \/ Rejected(u)
             \/ \E why \in Failures \cup {"none"} : Refreshed(u, why)
  BY <1>2, UserLeaves DEF Next
<1>. QED
  BY <1>1, <1>2

\* At the digest, the form is empty.
FormEmpty ==
  \A t \in Tasks : Casting(t) /\ tasks[t].pc = "Digest" =>
    view.secret = None /\ view.vote = None

\* A handler waits for the digest of its own ballot only.
LEMMA DigestComesFrom ==
  ASSUME WebInv, [Next]_vars, NEW t \in Tasks, Casting(t)', tasks'[t].pc = "Digest"
  PROVE  Casting(t) /\ ~Navigate /\ ~Reload
<1>1. DOMAIN tasks = Tasks /\ DOMAIN tasks[t] = DOMAIN Idle
  BY DEF WebInv, TasksInv, TaskOK
<1>2. tasks'[t].handler = "cast" /\ tasks'[t].attached
  BY DEF Casting
<1>3. Idle.attached = FALSE /\ Idle.pc = "Idle"
  BY DEF Idle
<1>4. \A u, task :
        Set(u, task) =>
          /\ u = t => tasks'[t] = task
          /\ u # t => tasks'[t] = tasks[t]
  BY <1>1 DEF Set
<1>5. ~Navigate
  <2>1. [tasks[t] EXCEPT !.attached = FALSE].attached = FALSE
    BY <1>1 DEF Idle
  <2>2. tasks[t].pc = "Idle" => ~tasks[t].attached
    BY DEF WebInv, TasksInv, TaskOK
  <2>. QED
    BY <1>2, <2>1, <2>2 DEF Navigate, Unmounted
<1>6. ~Reload
  BY <1>2, LoadingOK DEF Reload
<1>7. ASSUME NEW u \in Tasks, Ends(u) PROVE tasks'[t] = tasks[t]
  BY <1>2, <1>3, <1>4, <1>7 DEF Ends
<1>8. ASSUME tasks'[t] = tasks[t] PROVE Casting(t)
  BY <1>2, <1>8 DEF Casting
<1>9. ASSUME UNCHANGED tasks PROVE Casting(t)
  BY <1>8, <1>9
<1>10. ASSUME NEW u \in Tasks,
              \/ CastBallot(u) \/ Lookup(u) \/ Refresh(u)
              \/ CreateElectionForm(u) \/ RegisterVoters(u) \/ ConfirmTransition(u)
              \/ GenerateKeys(u) \/ Decrypt(u)
       PROVE  Casting(t)
  <2>1. PICK task : Set(u, task) /\ task.pc # "Digest"
    <3>1. \A handler, pc, arg : Started(handler, pc, arg).pc = pc
      BY DEF Started, Idle
    <3>2. \A handler, pc, arg, pc2, q :
            Sends(Started(handler, pc, arg), pc2, q).pc = pc2
      BY DEF Started, Sends, Idle
    <3>3. Refreshing([Idle EXCEPT !.handler = "refresh"]).pc = "Refresh"
      BY DEF Refreshing, Idle
    <3>4. CASE CastBallot(u)
      BY <3>1, <3>4 DEF CastBallot
    <3>5. CASE GenerateKeys(u)
      BY <3>1, <3>5 DEF GenerateKeys
    <3>6. CASE Decrypt(u)
      <4>1. PICK arg : Set(u, Started("decrypt", "Crypto", arg))
        BY <3>6 DEF Decrypt
      <4>. QED
        BY <3>1, <4>1
    <3>7. CASE Lookup(u) \/ CreateElectionForm(u) \/ RegisterVoters(u)
               \/ ConfirmTransition(u)
      BY <3>2, <3>7
      DEF Lookup, CreateElectionForm, RegisterVoters, ConfirmTransition, Administers
    <3>8. CASE Refresh(u)
      BY <3>3, <3>8 DEF Refresh, RefreshBegins
    <3>. QED
      BY <1>10, <3>4, <3>5, <3>6, <3>7, <3>8
  <2>. QED
    BY <1>4, <1>8, <2>1
<1>11. ASSUME NEW u \in Tasks, ServerStep(u) PROVE Casting(t)
  <2>1. PICK task : Set(u, task) /\ (u = t => task.handler = tasks[t].handler
                                              /\ task.attached = tasks[t].attached)
    BY <1>1, <1>11 DEF ServerStep, Serve, ReadRow, ReadCount, ReadTally, Idle
  <2>. QED
    BY <1>2, <1>4, <1>8, <2>1 DEF Casting
<1>12. ASSUME NEW u \in Tasks, Proceeds(u) PROVE Casting(t)
  <2>1. CASE Ends(u)
    BY <1>7, <1>8, <2>1
  <2>2. CASE ~Ends(u)
    <3>1. PICK task : Set(u, task) /\ task.pc # "Digest"
      <4>1. DOMAIN tasks[u] = DOMAIN Idle
        BY DEF WebInv, TasksInv, TaskOK
      <4>2. Refreshing(tasks[u]).pc = "Refresh"
        BY <4>1 DEF Refreshing, Idle
      <4>3. \A q : /\ Sends(tasks[u], "Login", q).pc = "Login"
                   /\ Sends(tasks[u], "Post", q).pc = "Post"
        BY <4>1 DEF Sends, Idle
      <4>4. CASE PostAnswered(u)
        BY <4>2, <4>4 DEF PostAnswered, RefreshBegins
      <4>5. CASE BallotEncrypted(u)
        BY <4>3, <4>5 DEF BallotEncrypted
      <4>6. CASE LoginAnswered(u)
        BY <4>3, <4>6 DEF LoginAnswered
      <4>. QED
        BY <1>12, <2>2, <4>4, <4>5, <4>6
        DEF Proceeds, CastStep, EncryptionFailed, CastFails, CastReceipt,
            LookupAnswered, LookupEnds, TrusteeStep, KeysGenerated, Decrypted,
            TrusteeCryptoFailed, TrusteeFails
    <3>. QED
      BY <1>4, <1>8, <3>1
  <2>. QED
    BY <2>1, <2>2
<1>13. ASSUME NEW u \in Tasks, Rejected(u) PROVE Casting(t)
  BY <1>7, <1>8, <1>13
  DEF Rejected, Fails, CastFails, LookupFails, LookupEnds, AdminFails, TrusteeFails
<1>14. ASSUME NEW u \in Tasks, NEW why, Refreshed(u, why) PROVE Casting(t)
  <2>1. CASE Ends(u)
    BY <1>7, <1>8, <2>1
  <2>2. CASE CastAccepted(u)
    <3>. DEFINE task == [tasks[u] EXCEPT !.pc = "Digest", !.request = None]
    <3>1. Set(u, task) /\ tasks[u].handler = "cast"
      BY <2>2 DEF CastAccepted
    <3>2. u = t => task.attached = tasks[t].attached
      BY <1>1 DEF Idle
    <3>. HIDE DEF task
    <3>. QED
      BY <1>2, <1>4, <1>8, <3>1, <3>2 DEF Casting
  <2>. QED
    BY <1>14, <2>1, <2>2 DEF Refreshed, RefreshDone, AdminDone
<1>15. Casting(t)
  <2>1. CASE VoterActs \/ AdminActs \/ TrusteeActs
    BY <1>9, <1>10, <2>1
    DEF VoterActs, PickVote, TypeSecret, TypeElectionId, ReviewBallot,
        CancelConfirm, CastInvalid, DismissReceipt, Fills,
        AdminActs, CreateInvalid, RegisterInvalid, AskTransition,
        CancelTransition, Shown,
        TrusteeActs, GenerateRefused, ClearSetup, TypeShares, DecryptRefused,
        Becomes
  <2>2. CASE UserRefreshes \/ \E u \in Tasks : Lookup(u)
    BY <1>10, <2>2 DEF UserRefreshes
  <2>3. CASE LookupMalformed \/ Login \/ Logout \/ PageHide \/ CryptoSettles
             \/ ServeLate \/ OtherClients \/ TimePasses \/ UNCHANGED vars
    BY <1>9, <2>3
    DEF LookupMalformed, Login, Logout, PageHide, CryptoSettles, ServeLate,
        OtherClients, TimePasses, vars
  <2>. QED
    BY <1>5, <1>6, <1>11, <1>12, <1>13, <1>14, <2>1, <2>2, <2>3 DEF Next
<1>. QED
  BY <1>5, <1>6, <1>15

LEMMA ClearedFields ==
  ASSUME WebInv, NEW t \in Tasks, Casting(t)
  PROVE  /\ view.path = "/vote" /\ view.message = None
         /\ view.id = tasks[t].arg.nullifier.domain
         /\ Cleared(view).secret = None /\ Cleared(view).vote = None
<1>1. /\ view.path = "/vote" /\ view.message = None
      /\ view.id = tasks[t].arg.nullifier.domain
  BY DEF WebInv, AttachedInv, PathOf, Casting
<1>. QED
  BY <1>1, VoteFields DEF Cleared

LEMMA FormEmptyStays == WebInv /\ FormEmpty /\ [Next]_vars => FormEmpty'
<1>. SUFFICES ASSUME WebInv, FormEmpty, [Next]_vars, NEW t \in Tasks, Casting(t)',
                     tasks'[t].pc = "Digest"
              PROVE  view'.secret = None /\ view'.vote = None
  BY DEF FormEmpty, Casting
<1>1. Casting(t) /\ ~Navigate /\ ~Reload
  BY DigestComesFrom
<1>2. CASE tasks'[t].pc = tasks[t].pc /\ Kept
  BY <1>1, <1>2 DEF FormEmpty, Kept
<1>3. CASE CastAccepted(t)
  BY <1>1, <1>3, ClearedFields DEF CastAccepted, Shows, Casting
<1>4. ~Ends(t)
  <2>1. Idle.pc = "Idle" /\ DOMAIN tasks = Tasks
    BY DEF Idle, WebInv, TasksInv
  <2>. QED
    BY <2>1 DEF Ends, Set
<1>5. ~CastReceipt(t) /\ \A w : ~CastFails(t, w)
  BY <1>4 DEF CastReceipt, CastFails
<1>. QED
  BY <1>1, <1>2, <1>3, <1>5, WhileCasting

\* "Double-vote prevented" is the message of one refusal only.
LEMMA OneMessage ==
  ASSUME NEW why, why # "Double-vote prevented",
         Message(why) = "Double-vote prevented"
  PROVE  why = "Duplicate"
BY DEF Message, ServerErrorMap

LEMMA ToldTruly == WebInv /\ [Next]_vars => [
   \A t \in Tasks :
     /\ tasks[t].handler = "cast" /\ tasks[t].attached
     /\ tasks'[t].pc = "Idle"
     /\ view'.path = "/vote" /\ view'.message = "Double-vote prevented"
     => Recorded(tasks[t].arg.nullifier)]_vars
<1>. SUFFICES ASSUME WebInv, [Next]_vars, NEW t \in Tasks, Casting(t),
                     tasks'[t].pc = "Idle", view'.path = "/vote",
                     view'.message = "Double-vote prevented"
              PROVE  Recorded(tasks[t].arg.nullifier)
  BY DEF Casting
<1>1. TaskOK(tasks[t], issued, ledger) /\ tasks[t].pc # "Idle"
  BY DEF WebInv, TasksInv, TaskOK, Casting
<1>2. DOMAIN tasks = Tasks /\ DOMAIN tasks[t] = DOMAIN Idle
  BY DEF WebInv, TasksInv, TaskOK
<1>3. ASSUME NEW w, Throws(t, w) \/ w = "CryptoFailed", CastFails(t, w)
      PROVE  Recorded(tasks[t].arg.nullifier)
  <2>1. view'.message = Message(w)
    <3>1. view' = [Cleared(view) EXCEPT !.submitting = FALSE, !.message = Message(w)]
      BY <1>3 DEF CastFails, Shows, Casting
    <3>2. "message" \in DOMAIN Cleared(view)
      BY ClearedFields, VoteFields DEF Cleared
    <3>. QED
      BY <3>1, <3>2
  <2>2. ASSUME w \in Refusals(t), w = "Duplicate"
        PROVE  Recorded(tasks[t].arg.nullifier)
    <3>1. tasks[t].answer # Pending /\ tasks[t].answer.why = "Duplicate"
      BY <2>2 DEF Refusals
    <3>2. tasks[t].request # None
      BY <1>3, <2>2 DEF Throws
    <3>3. CastOK(tasks[t], issued, ledger)
      BY <1>1 DEF TaskOK, Casting
    <3>4. NullifierLogged(tasks[t].arg.nullifier, ledger)
      BY <3>1, <3>2, <3>3 DEF CastOK
    <3>. QED
      BY <3>4 DEF NullifierLogged, Recorded
  <2>3. w \in Refusals(t) => w # "Double-vote prevented"
    <3>1. ASSUME Throws(t, w), w \in Refusals(t) PROVE w # "Double-vote prevented"
      <4>1. tasks[t].request # None /\ CastOK(tasks[t], issued, ledger)
        BY <1>1, <3>1 DEF Throws, TaskOK, Casting
      <4>2. tasks[t].answer # Pending /\ w = tasks[t].answer.why
        BY <3>1 DEF Refusals
      <4>. QED
        BY <4>1, <4>2 DEF CastOK
    <3>. QED
      BY <1>3, <3>1
  <2>4. w \notin Refusals(t) => w \in Outages
    BY <1>3, FailuresAssumption DEF Throws, Outages
  <2>. QED
    BY <2>1, <2>2, <2>3, <2>4, OneMessage DEF Outages
<1>4. ~CastReceipt(t)
  <2>1. ASSUME CastReceipt(t) PROVE view'.message = None
    <3>1. view' = [view EXCEPT !.submitting = FALSE, !.receipt = tasks[t].arg]
      BY <2>1 DEF CastReceipt, Shows, Casting
    <3>. QED
      BY <3>1, ClearedFields, VoteFields
  <2>. QED
    BY <2>1, NoneAssumption
<1>5. ~Reload
  <2>1. ASSUME Reload PROVE view' = FreshVoterView
    BY <2>1, ClearedFields DEF Reload, Mounted
  <2>2. FreshVoterView.message = None
    BY DEF FreshVoterView
  <2>. QED
    BY <2>1, <2>2, NoneAssumption
<1>6. ~Navigate
  BY <1>1, <1>2 DEF Navigate, Unmounted, Idle
<1>7. ~CastAccepted(t)
  <2>1. [tasks[t] EXCEPT !.pc = "Digest", !.request = None].pc = "Digest"
    BY <1>2 DEF Idle
  <2>. QED
    BY <1>2, <2>1 DEF CastAccepted, Set
<1>. QED
  BY <1>1, <1>3, <1>4, <1>5, <1>6, <1>7, WhileCasting

LEMMA EmptiedForm == WebInv /\ FormEmpty /\ [Next]_vars => [
   \A t \in Tasks :
     /\ tasks[t].handler = "cast" /\ tasks[t].attached
     /\ tasks'[t].pc = "Idle"
     => /\ view'.secret = None /\ view'.vote = None
        /\ Reload \/ view'.id = tasks[t].arg.nullifier.domain]_vars
<1>. SUFFICES ASSUME WebInv, FormEmpty, [Next]_vars, NEW t \in Tasks, Casting(t),
                     tasks'[t].pc = "Idle"
              PROVE  /\ view'.secret = None /\ view'.vote = None
                     /\ Reload \/ view'.id = tasks[t].arg.nullifier.domain
  BY DEF Casting
<1>1. tasks[t].pc # "Idle" /\ DOMAIN tasks = Tasks /\ DOMAIN tasks[t] = DOMAIN Idle
  BY DEF WebInv, TasksInv, TaskOK, Casting
<1>2. /\ view.path = "/vote" /\ view.id = tasks[t].arg.nullifier.domain
      /\ Cleared(view).secret = None /\ Cleared(view).vote = None
      /\ Cleared(view).id = view.id /\ DOMAIN Cleared(view) = DOMAIN view
  BY ClearedFields, VoteFields DEF Cleared
<1>3. ASSUME NEW w, CastFails(t, w)
      PROVE  view'.secret = None /\ view'.vote = None /\ view'.id = view.id
  <2>1. view' = [Cleared(view) EXCEPT !.submitting = FALSE, !.message = Message(w)]
    BY <1>3 DEF CastFails, Shows, Casting
  <2>. QED
    BY <1>2, <2>1, ClearedFields, VoteFields
<1>4. ASSUME CastReceipt(t)
      PROVE  view'.secret = None /\ view'.vote = None /\ view'.id = view.id
  <2>1. view' = [view EXCEPT !.submitting = FALSE, !.receipt = tasks[t].arg]
    BY <1>4 DEF CastReceipt, Shows, Casting
  <2>2. view.secret = None /\ view.vote = None
    BY <1>4 DEF CastReceipt, At, FormEmpty
  <2>. QED
    BY <1>2, <2>1, <2>2, VoteFields
<1>5. ASSUME Reload PROVE view'.secret = None /\ view'.vote = None
  <2>1. view' = FreshVoterView
    BY <1>2, <1>5 DEF Reload, Mounted
  <2>. QED
    BY <2>1 DEF FreshVoterView
<1>6. ~Navigate
  BY <1>1 DEF Navigate, Unmounted, Idle
<1>7. ~CastAccepted(t)
  <2>1. [tasks[t] EXCEPT !.pc = "Digest", !.request = None].pc = "Digest"
    BY <1>1 DEF Idle
  <2>. QED
    BY <1>1, <2>1 DEF CastAccepted, Set
<1>. QED
  BY <1>1, <1>2, <1>3, <1>4, <1>5, <1>6, <1>7, WhileCasting

\* A voter is told "Double-vote prevented" only when the nullifier of the ballot
\* is on the bulletin: mapToSafeErrorMessage tells the conflicts apart.
THEOREM DoubleVotesToldTruly == Spec => DoubleVoteToldTruly
BY WebSafe, ToldTruly, PTL DEF Spec, DoubleVoteToldTruly

\* The passphrase and the choice are out of the form of VoterView once the
\* submission has ended, and the identifier is still in it.
THEOREM SecretsForgotten == Spec => SecretsCleared
<1>1. Init => FormEmpty
  <2>1. ASSUME Init, NEW t \in Tasks PROVE ~tasks[t].attached
    BY <2>1, LoadingOK DEF Init
  <2>. QED
    BY <2>1 DEF FormEmpty, Casting
<1>2. Spec => []FormEmpty
  BY <1>1, FormEmptyStays, WebSafe, PTL DEF Spec
<1>. QED
  BY <1>2, WebSafe, EmptiedForm, PTL DEF Spec, SecretsCleared

=============================================================================
