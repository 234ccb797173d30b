------------------------------- MODULE WebApp -------------------------------
(***************************************************************************)
(* App.tsx: one tab of the web application.  The path of the address       *)
(* chooses the view that is mounted; the hook useElection outlives it.     *)
(* Around the tab are the election server and everybody else who uses it.  *)
(***************************************************************************)
EXTENDS VoterPage, ObserverPage, AdminPage, TrusteePage

CONSTANTS
  Routes,          \* the views a user of this tab goes to
  Elsewhere,       \* the requests of all other clients
  InitialServers   \* the elections the tab may be opened on

ASSUME ElsewhereAssumption ==
  \A q \in Elsewhere :
    /\ q.op = "Ballot" => q.ballot \in Ballots
    /\ q.op = "Create" => q.pk \in PublicKeys

\* Elections without a ballot, as the server makes them: an election was created
\* if there is one, and it has a tally, of no YES, once it is complete.
ASSUME InitialServersAssumption ==
  \A s \in InitialServers :
    /\ s.election \in [phase : {"None"} \cup Phases, pk : PublicKeys, tally : Int]
    /\ s.election.tally = IF s.election.phase = "Complete" THEN 0 ELSE -1
    /\ s.created \in Nat
    /\ s.created = 0 <=> s.election.phase = "None"
    /\ s.issued \subseteq Credentials

vars == <<server, page, memory, view, tasks, late>>

\* A view as it is mounted.
Mounted(path) ==
  CASE path = "/vote" -> FreshVoterView
    [] path = "/verify" -> FreshObserverView
    [] path = "/admin" -> FreshAdminView
    [] path = "/trustee" -> FreshTrusteeView
    [] OTHER -> [path |-> path]

\* Had the handlers of a view that is left gone on setting state.
Unmounted_StillAttached(ts) == ts

\* A view that is left: its handlers run on, what they set is lost.
Unmounted(ts) == [t \in Tasks |->
  IF ts[t].pc = "Idle" THEN ts[t] ELSE [ts[t] EXCEPT !.attached = FALSE]]

\* useEffect of useElection: the first thing a page does is to refresh.
Loading(t) == [s \in Tasks |->
  IF s = t THEN Refreshing([Idle EXCEPT !.handler = "refresh"]) ELSE Idle]

Init ==
  /\ \E s \in InitialServers :
       /\ election = s.election
       /\ created = s.created
       /\ issued = s.issued
  /\ ledger = << >>
  /\ spent = {}
  /\ expiries = 0
  /\ electionDetails = None
  /\ encryptedTally = None
  /\ loading = TRUE
  /\ error = None
  /\ isDemoExpired = FALSE
  /\ memoryVoterSessionToken = None
  /\ cryptoModule = "unset"
  /\ isAuthenticated = FALSE
  /\ \E path \in Routes : view = Mounted(path)
  /\ \E t \in Tasks : tasks = Loading(t)
  /\ late = {}

-----------------------------------------------------------------------------
(* The user and the browser                                                *)

\* navigateTo and the browser's back button.
Navigate ==
  /\ \E path \in Routes \ {view.path} : view' = Mounted(path)
  /\ tasks' = Unmounted(tasks)
  /\ UNCHANGED <<server, page, memory, late>>

\* The banners of an error and of an unreachable server, whose buttons are off
\* while loading, and the one of a slow network, which shows only then.
BannerShown == error # None \/ isDemoExpired \/ loading

\* A button that refreshes.
UserRefreshes ==
  /\ BannerShown \/ RefreshShown \/ RetryShown
  /\ \E t \in Tasks : Refresh(t)

\* The page is hidden, and shown again later.
PageHide ==
  /\ view' = CASE view.path = "/vote" -> Cleared(view)
               [] view.path = "/trustee" ->
                    [view EXCEPT !.shares = None, !.setup = FALSE]
               [] OTHER -> view
  /\ UNCHANGED <<server, page, memory, tasks, late>>

\* The page is loaded anew: all is forgotten, and a request under way is lost
\* or still on its way.
Reload ==
  /\ electionDetails' = None
  /\ encryptedTally' = None
  /\ loading' = TRUE
  /\ error' = None
  /\ isDemoExpired' = FALSE
  /\ memoryVoterSessionToken' = None
  /\ cryptoModule' = "unset"
  /\ isAuthenticated' = FALSE
  /\ view' = Mounted(view.path)
  /\ \E t \in Tasks : tasks' = Loading(t)
  /\ \E lost \in SUBSET {t \in Tasks :
                 /\ tasks[t].request # None
                 /\ tasks[t].answer = Pending
                 /\ ~ReadOnly(tasks[t].request)} :
       /\ late' = late \cup {tasks[t].request : t \in lost}
       /\ Cardinality(late') <= MaxLate
  /\ UNCHANGED server

-----------------------------------------------------------------------------
(* Handlers that fail, and handlers whose refresh is over                  *)

\* The handler of t is told why its request failed.
Fails(t, why) ==
  CastFails(t, why) \/ LookupFails(t) \/ AdminFails(t, why) \/ TrusteeFails(t, why)

Rejected(t) ==
  \E why \in Failures \cup Refusals(t) : Throws(t, why) /\ Fails(t, why)

Refreshed(t, why) ==
  /\ RefreshEnds(t, why)
  /\ RefreshDone(t) \/ CastAccepted(t) \/ AdminDone(t)

\* The timer of 15 seconds.
TimesOut(t) ==
  \/ Aborted(t) /\ Fails(t, "Timeout")
  \/ Refreshed(t, "Timeout")

\* What the code of the page does by itself once it is its turn.
Proceeds(t) ==
  \/ PostAnswered(t) \/ CastStep(t) \/ LookupAnswered(t) \/ TrusteeStep(t)

-----------------------------------------------------------------------------

\* Another client's request; who submits a ballot has logged in before.
OtherClients ==
  /\ \E q \in Elsewhere :
       /\ q.op = "Ballot" => q.token.code \in issued
       /\ Refusal(q) = "none"
       /\ Handle(q)
  /\ UNCHANGED <<page, memory, view, tasks, late>>

TimePasses ==
  SessionsExpire /\ UNCHANGED <<page, memory, view, tasks, late>>

Next ==
  \/ VoterActs \/ AdminActs \/ TrusteeActs
  \/ LookupMalformed \/ (\E t \in Tasks : Lookup(t))
  \/ Login \/ Logout
  \/ Navigate \/ UserRefreshes \/ PageHide \/ Reload
  \/ \E t \in Tasks :
       \/ ServerStep(t) \/ Proceeds(t) \/ Rejected(t)
       \/ \E why \in Failures \cup {"none"} : Refreshed(t, why)
  \/ CryptoSettles
  \/ ServeLate \/ OtherClients \/ TimePasses

Spec == Init /\ [][Next]_vars

\* The event loop runs what is ready, the timers fire, and the loading of the
\* WebAssembly module ends; no answer of the server and no act of a user is
\* promised.
FairSpec ==
  /\ Spec
  /\ \A t \in Tasks : WF_vars(TimesOut(t)) /\ WF_vars(Proceeds(t))
  /\ WF_vars(CryptoSettles)

=============================================================================
