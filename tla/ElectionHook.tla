--------------------------- MODULE ElectionHook ---------------------------
(***************************************************************************)
(* hooks/useElection.ts: what a page of the web application knows of the   *)
(* election, the requests it has under way, and how they end.              *)
(*                                                                         *)
(* A task is one run of an event handler.  Between two of its awaits other *)
(* handlers run, the server works, and the view that started it may be     *)
(* unmounted: what it then sets is lost (attached is FALSE).  A request    *)
(* ends with an answer, with the abort after 15 seconds or with a lost     *)
(* connection; one that was given up may still reach the server (late).    *)
(***************************************************************************)
EXTENDS ElectionApi, FormRules

CONSTANTS
  None,      \* null
  Pending,   \* not yet answered
  Failures,  \* bound: the failures that occur, of those of Outages
  Tasks,     \* bound: handlers running at once
  MaxLate    \* bound: given-up requests that may still arrive

\* What fails by itself: a request by the abort, the network, a server that
\* refuses for a reason that has nothing to do with the election (a database
\* that is down, the rate limit) or a token that is not the administrator's;
\* and the loading of the WebAssembly module.
Outages == {"Timeout", "Unreachable", "ServerError", "Unauthorized", "CryptoFailed"}

\* No handler, no text and no result that a page shows is null.
ASSUME NoneAssumption ==
  /\ None \notin {"refresh", "cast", "lookup", "admin", "keygen", "decrypt", "Open",
                  "Close", "InvalidForm", "Double-vote prevented"}
  /\ None \notin [yes : Nat, total : Nat]

ASSUME FailuresAssumption == Failures \subseteq Outages /\ "Timeout" \in Failures

VARIABLES
  electionDetails,          \* the last answer of GET election, or None
  encryptedTally,           \* the ballots covered by the last sum, or None
  loading, error, isDemoExpired,
  memoryVoterSessionToken,  \* module state, outlives every view
  cryptoModule,             \* "unset", "ready" or "failed"
  isAuthenticated,          \* useAuth: a principal is set; no request is made
  view,                     \* the mounted view: its path and its state
  tasks,
  late                      \* requests given up that may still be handled

page ==
  <<electionDetails, encryptedTally, loading, error, isDemoExpired>>

\* What outlives every view.
memory == <<memoryVoterSessionToken, cryptoModule, isAuthenticated>>

\* getPhaseName: the phase the page shows.
PhaseName ==
  IF electionDetails = None THEN "Not Initialized" ELSE electionDetails.phase

\* A slot without a handler.
Idle ==
  [handler |-> None, pc |-> "Idle", attached |-> FALSE, arg |-> None,
   request |-> None, answer |-> Pending,
   row |-> Pending, count |-> Pending, tally |-> Pending]

Free(t) == tasks[t].pc = "Idle"

At(t, handler, pc) == tasks[t].handler = handler /\ tasks[t].pc = pc

\* A handler of the mounted view starts in slot t.
Started(handler, pc, arg) ==
  [Idle EXCEPT !.handler = handler, !.pc = pc, !.attached = TRUE, !.arg = arg]

Set(t, task) == tasks' = [tasks EXCEPT ![t] = task]

Ends(t) == Set(t, Idle)

\* The handler of t sets the state of its view, if that is still mounted.
Shows(t, state) == view' = IF tasks[t].attached THEN state ELSE view

\* fetchWithTimeout: the request leaves, the handler awaits it at pc.
Sends(task, pc, q) ==
  [task EXCEPT !.pc = pc, !.request = q, !.answer = Pending]

-----------------------------------------------------------------------------
(* The server's side of a request                                          *)

Serve(t) ==
  /\ tasks[t].request # None
  /\ tasks[t].answer = Pending
  /\ Set(t, [tasks[t] EXCEPT
       !.answer = [why |-> Refusal(tasks[t].request),
                   body |-> Body(tasks[t].request)]])
  /\ Handle(tasks[t].request)
  /\ UNCHANGED <<page, memory, view, late>>

ServeLate ==
  \E q \in late :
    /\ Handle(q)
    /\ late' = late \ {q}
    /\ UNCHANGED <<page, memory, view, tasks>>

\* A request that was given up unanswered is lost, or on its way for longer;
\* one that only reads is as good as lost.
GivenUp(t) ==
  \/ late' = late
  \/ /\ tasks[t].answer = Pending
     /\ ~ReadOnly(tasks[t].request)
     /\ Cardinality(late) < MaxLate
     /\ late' = late \cup {tasks[t].request}

-----------------------------------------------------------------------------
(* The application's side                                                  *)

\* Had the caller not looked at res.ok.
Answered_AnyStatus(t) ==
  tasks[t].request # None /\ tasks[t].answer # Pending

\* The answer arrives and is ok.
Answered(t) ==
  /\ tasks[t].request # None
  /\ tasks[t].answer # Pending
  /\ tasks[t].answer.why = "none"

\* Had fetchWithTimeout no timer that aborts a request.
Aborted_NoTimer(t) == FALSE /\ GivenUp(t)

\* The timer of fetchWithTimeout aborts the request, or the connection breaks.
Aborted(t) == tasks[t].request # None /\ GivenUp(t)

\* Why the answer that has arrived refuses the request.
Refusals(t) ==
  IF tasks[t].answer = Pending THEN {} ELSE {tasks[t].answer.why} \ {"none"}

\* The call throws: refused by the election's rules, or otherwise, aborted,
\* disconnected.
Throws(t, why) ==
  /\ tasks[t].request # None
  /\ \/ why \in Refusals(t) /\ late' = late
     \/ /\ why \in Failures \cap {"ServerError", "Unauthorized"}
        /\ tasks[t].answer = Pending
        /\ late' = late
     \/ why \in Failures \cap {"Timeout", "Unreachable"} /\ Aborted(t)

-----------------------------------------------------------------------------
(* refreshState: two requests at once, and three reads of the database     *)

Refreshing(task) ==
  [task EXCEPT !.pc = "Refresh", !.request = None,
               !.row = Pending, !.count = Pending, !.tally = Pending]

\* setLoading(true), setError(null).
RefreshBegins(t, task) ==
  /\ Set(t, Refreshing(task))
  /\ loading' = TRUE
  /\ error' = None
  /\ UNCHANGED <<electionDetails, encryptedTally, isDemoExpired>>

\* A refresh of its own, from a button or at the start.
Refresh(t) ==
  /\ Free(t)
  /\ RefreshBegins(t, [Idle EXCEPT !.handler = "refresh"])
  /\ UNCHANGED <<server, memory, view, late>>

\* An accepted change is followed by a refresh of its own handler.
PostAnswered(t) ==
  /\ tasks[t].pc = "Post"
  /\ Answered(t)
  /\ RefreshBegins(t, tasks[t])
  /\ UNCHANGED <<server, memory, view, late>>

\* get_election: the row of the election first; None stands for its 404.
ReadRow(t) ==
  /\ tasks[t].pc = "Refresh"
  /\ tasks[t].row = Pending
  /\ Set(t, [tasks[t] EXCEPT
       !.row = IF election.phase = "None" THEN None ELSE election])
  /\ UNCHANGED <<server, page, memory, view, late>>

\* Had get_election counted the ballots before it read the row.
CountReadable_First(t) == TRUE

\* get_election counts the ballots in a statement after that of the row.
CountReadable(t) == tasks[t].row # Pending

ReadCount(t) ==
  /\ tasks[t].pc = "Refresh"
  /\ tasks[t].count = Pending
  /\ CountReadable(t)
  /\ Set(t, [tasks[t] EXCEPT !.count = Len(ledger)])
  /\ UNCHANGED <<server, page, memory, view, late>>

\* GET tally; getEncryptedTally makes null of every failure.
ReadTally(t) ==
  /\ tasks[t].pc = "Refresh"
  /\ tasks[t].tally = Pending
  /\ \E sum \in {Len(ledger), None} :
       Set(t, [tasks[t] EXCEPT !.tally = sum])
  /\ UNCHANGED <<server, page, memory, view, late>>

\* Had refreshState not awaited the answer of GET tally.
RefreshLoads_TallyNotAwaited(t) ==
  /\ tasks[t].row # Pending
  /\ tasks[t].count # Pending
  /\ encryptedTally' = tasks[t].tally
  /\ UNCHANGED <<electionDetails, error, isDemoExpired>>

\* Both answers are there: they are stored together.
RefreshLoads(t) ==
  /\ tasks[t].row # Pending
  /\ tasks[t].count # Pending
  /\ tasks[t].tally # Pending
  /\ electionDetails' =
       IF tasks[t].row = None THEN None
       ELSE [phase |-> tasks[t].row.phase, pk |-> tasks[t].row.pk,
             tally |-> tasks[t].row.tally, ballots |-> tasks[t].count]
  /\ encryptedTally' = tasks[t].tally
  /\ UNCHANGED <<error, isDemoExpired>>

\* GET election throws, whatever GET tally does.
RefreshFails(why) ==
  /\ error' = Message(IF why = "ServerError" THEN "Unreachable" ELSE why)
  /\ isDemoExpired' = (isDemoExpired \/ DemoBackendExpired(why))
  /\ UNCHANGED <<electionDetails, encryptedTally>>

\* The refresh of task t ends; its caller is not told how.
RefreshEnds(t, why) ==
  /\ tasks[t].pc = "Refresh"
  /\ \/ why = "none" /\ RefreshLoads(t)
     \/ why \in Failures \ {"Unauthorized", "CryptoFailed"} /\ RefreshFails(why)
  /\ loading' = FALSE
  /\ UNCHANGED <<server, memory, late>>

\* The end of a refresh that no handler of a view waits for.
RefreshDone(t) ==
  /\ tasks[t].handler = "refresh"
  /\ Ends(t)
  /\ UNCHANGED view

-----------------------------------------------------------------------------
(* crypto/index.ts: the WebAssembly module is loaded once, at first use    *)

Initialized == cryptoModule = "ready"

\* The promise of the first caller settles, for every caller and for good.
CryptoSettles ==
  /\ \E t \in Tasks : tasks[t].pc = "Crypto"
  /\ cryptoModule = "unset"
  /\ \/ cryptoModule' = "ready"
     \/ "CryptoFailed" \in Failures /\ cryptoModule' = "failed"
  /\ UNCHANGED <<server, page, memoryVoterSessionToken, isAuthenticated>>
  /\ UNCHANGED <<view, tasks, late>>

-----------------------------------------------------------------------------

\* The answers the server gives to what the page has asked.
ServerStep(t) == Serve(t) \/ ReadRow(t) \/ ReadCount(t) \/ ReadTally(t)

=============================================================================
