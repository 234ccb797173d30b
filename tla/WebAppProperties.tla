-------------------------- MODULE WebAppProperties --------------------------
(***************************************************************************)
(* What must hold of the web application.                                  *)
(***************************************************************************)
EXTENDS WebApp

Phase == {"None"} \cup Phases

Requested == {"Login", "Ballot", "Bulletin", "Create", "Issue", "Open",
              "Close"}

\* What each handler was started with.
ArgOK(task) ==
  CASE task.handler = "cast" -> task.arg \in Ballots
    [] task.handler = "lookup" -> task.arg \in Nullifiers
    [] task.handler = "admin" -> task.arg \in {"Create", "Issue", "Open", "Close"}
    [] task.handler = "decrypt" ->
         task.arg.sum \in Nat /\ ValidTallyBound(task.arg.bound)
    [] OTHER -> task.arg = None

ViewOK(v) ==
  CASE v.path = "/vote" ->
         /\ v.secret \in Passphrases \cup {None}
         /\ v.vote \in {0, 1, None}
         /\ v.id \in ElectionIds
         /\ {v.confirming, v.submitting} \subseteq BOOLEAN
         /\ v.receipt \in Ballots \cup {None}
    [] v.path = "/verify" ->
         /\ v.checking \in BOOLEAN
         /\ v.result # None => v.result.nullifier \in Nullifiers
    [] v.path = "/admin" ->
         /\ v.pending \in {None, "Open", "Close"}
         /\ v.submitting \in BOOLEAN
    [] v.path = "/trustee" -> {v.setup, v.processing} \subseteq BOOLEAN
    [] OTHER -> TRUE

TypeOK ==
  /\ election.phase \in Phase
  /\ issued \subseteq Credentials
  /\ spent \subseteq issued
  /\ \A i \in 1..Len(ledger) :
       ledger[i].ballot \in Ballots /\ ledger[i].by \in issued
  /\ electionDetails # None =>
       electionDetails.phase \in Phases /\ electionDetails.ballots \in Nat
  /\ encryptedTally \in Nat \cup {None}
  /\ {loading, isDemoExpired, isAuthenticated} \subseteq BOOLEAN
  /\ memoryVoterSessionToken # None => memoryVoterSessionToken.code \in issued
  /\ cryptoModule \in {"unset", "ready", "failed"}
  /\ \A t \in Tasks :
       /\ tasks[t].pc \in {"Idle", "Crypto", "Login", "Post", "Lookup", "Refresh",
                          "Digest"}
       /\ tasks[t].request # None => tasks[t].request.op \in Requested
       /\ ArgOK(tasks[t])
  /\ \A q \in late : q.op \in Requested
  /\ ViewOK(view)

-----------------------------------------------------------------------------
(* The voter                                                               *)

\* A receipt is shown only for a ballot of the log: through the login, the
\* submission, the refresh, their timeouts, and whatever the user does while
\* they are under way (VoterView sets the receipt after castBallot returned).
ReceiptMeansRecorded ==
  view.path = "/vote" /\ view.receipt # None =>
    \E i \in 1..Len(ledger) : ledger[i].ballot = view.receipt

\* Every ballot this application submits carries a session: none reaches the
\* branch of submit_ballot that records a ballot without a credential.
NeverAnonymous ==
  \A t \in Tasks :
    At(t, "cast", "Post") => tasks[t].request.token.code \in Credentials

\* "Double-vote prevented" is told only to a voter whose nullifier is in the
\* log; a credential that was used for another ballot is told otherwise.
DoubleVoteToldTruly ==
  [][\A t \in Tasks :
       /\ tasks[t].handler = "cast" /\ tasks[t].attached
       /\ tasks'[t].pc = "Idle"
       /\ view'.path = "/vote" /\ view'.message = "Double-vote prevented"
       => Recorded(tasks[t].arg.nullifier)]_vars

\* The buttons of the mounted view are off exactly while one handler of this
\* view runs; handlers of views that were left do not count, and never turn
\* the buttons of a later view on or off.
Busy ==
  CASE view.path = "/vote" -> view.submitting
    [] view.path = "/verify" -> view.checking
    [] view.path = "/admin" -> view.submitting
    [] view.path = "/trustee" -> view.processing
    [] OTHER -> FALSE

BusyMeansRunning ==
  Cardinality({t \in Tasks : tasks[t].attached}) = IF Busy THEN 1 ELSE 0

\* The passphrase and the choice are gone from the form once a submission has
\* ended, however it ended, and the election identifier is still there unless
\* the page was loaded anew
\* (VoterView: "Your non-secret Election ID remains preserved if an error
\* occurs, while your secret passphrase is cleared automatically").
SecretsCleared ==
  [][\A t \in Tasks :
       /\ tasks[t].handler = "cast" /\ tasks[t].attached
       /\ tasks'[t].pc = "Idle"
       => /\ view'.secret = None /\ view'.vote = None
          /\ Reload \/ view'.id = tasks[t].arg.nullifier.domain]_vars

\* A nullifier is told to be on the bulletin only if it is, also when the view
\* was left and mounted again while it was looked up.
FoundMeansRecorded ==
  view.path = "/verify" /\ ToldRecorded => Recorded(view.result.nullifier)

\* "Each registered voter may only cast one ballot per election."
\* (content/errors.ts:94), whatever sessions the page remembers and whatever is
\* typed as election identifier.
OneBallotPerVoter ==
  \A i, j \in 1..Len(ledger) :
    ledger[i].ballot.nullifier.secret = ledger[j].ballot.nullifier.secret
    => i = j

-----------------------------------------------------------------------------
(* The operators                                                           *)

\* What the administrator is told was done, the server did.
SuccessIsTrue ==
  view.path = "/admin" =>
    (view.status # None /\ view.status.type = "success" =>
       CASE view.status.text = "Create" -> created > 0
         [] view.status.text = "Issue" -> issued # {}
         [] view.status.text = "Open" ->
              election.phase \in {"Voting", "Tallying", "Complete"}
         [] view.status.text = "Close" -> election.phase \in {"Tallying", "Complete"})

\* A page that shows a complete election, or the box of a verified proof, shows
\* its whole result: every ballot that was ever recorded, and the number of YES
\* among them, although
\* get_election reads them in statements of their own and an answer may arrive
\* long after it was read.
CompleteShownWhole ==
  /\ PhaseName = "Complete" \/ Statistics.verified => FinalResult # None
  /\ FinalResult # None =>
       FinalResult = [yes |-> YesAmong(Len(ledger)), total |-> Len(ledger)]

\* Trustees' shares are not in the form while a decryption of this view runs.
SharesNotKept ==
  \A t \in Tasks :
    tasks[t].handler = "decrypt" /\ tasks[t].attached => view.shares = None

\* Trustees with the right shares and a bound that is not below the number of
\* YES are shown that number once the decryption is over, on whichever side of
\* the search it lies (solve_discrete_log), and never told to check their
\* shares; unless they left the view, or loaded the page anew.
SharesSuffice ==
  [][\A t \in Tasks :
       /\ At(t, "decrypt", "Crypto") /\ tasks[t].attached
       /\ Initialized
       /\ tasks[t].arg.rightKey
       /\ YesAmong(tasks[t].arg.sum) <= tasks[t].arg.bound
       /\ tasks'[t].pc # "Crypto"
       => Reload \/ view'.result = YesAmong(tasks[t].arg.sum)]_vars

\* Every handler comes to its end, whatever the server answers or does not:
\* no button stays off for ever.
HandlersEnd ==
  \A t \in Tasks : tasks[t].pc # "Idle" ~> tasks[t].pc = "Idle"

-----------------------------------------------------------------------------
(* What the repository says and the code does not keep                     *)

\* The page "submits only the proof and count to the server" (content/copy.ts:297):
\* a decryption with the right shares that shows its result is submitting it.
ProofSubmitted ==
  [][\A t \in Tasks :
       /\ At(t, "decrypt", "Crypto") /\ tasks[t].attached
       /\ tasks[t].arg.rightKey
       /\ view'.path = "/trustee" /\ view'.result # None
       => /\ tasks'[t].request # None
          /\ tasks'[t].request.op = "Finalize"]_vars

=============================================================================
