----------------------------- MODULE VoterPage -----------------------------
(***************************************************************************)
(* views/VoterView.tsx and hooks/useAuth.ts: a voter fills in the form,    *)
(* and one handler encrypts the ballot, logs in if no session is known,    *)
(* submits, refreshes the page and shows the receipt.                      *)
(***************************************************************************)
EXTENDS ElectionHook

\* The identifier the form is filled in with, one that is valid.
CONSTANT DefaultId

ASSUME DefaultIdAssumption == DefaultId \in ElectionIds

\* secret and vote are None while nothing valid is entered.
FreshVoterView ==
  [path |-> "/vote", secret |-> None, vote |-> None, id |-> DefaultId,
   confirming |-> FALSE,
   submitting |-> FALSE, receipt |-> None, message |-> None]

VotingShown == PhaseName = "Voting"

\* The page could not be loaded: "Cannot Reach Server", with a button to retry.
RetryShown == view.path = "/vote" /\ error # None /\ electionDetails = None

\* The fields and buttons of the form are not disabled.
FormEnabled ==
  /\ view.path = "/vote"
  /\ view.receipt = None
  /\ VotingShown
  /\ isAuthenticated
  /\ ~view.submitting
  /\ ~view.confirming

\* Had clearSensitiveMemory forgotten the choice.
Cleared_SecretOnly(v) == [v EXCEPT !.secret = None, !.confirming = FALSE]

\* clearSensitiveMemory: the election identifier stays.
Cleared(v) == [v EXCEPT !.secret = None, !.vote = None, !.confirming = FALSE]

\* validateFormInputs, of the state the page last loaded.
FormValid ==
  /\ view.vote # None
  /\ view.secret # None
  /\ ValidElectionId(view.id)
  /\ electionDetails # None

Fills(v) == view' = v /\ UNCHANGED <<server, page, memory, tasks, late>>

-----------------------------------------------------------------------------
(* The form                                                                *)

PickVote ==
  /\ FormEnabled
  /\ \E vote \in Votes : Fills([view EXCEPT !.vote = vote])

TypeSecret ==
  /\ FormEnabled
  /\ \E secret \in Passphrases : Fills([view EXCEPT !.secret = secret])

TypeElectionId ==
  /\ FormEnabled
  /\ \E id \in ElectionIds : Fills([view EXCEPT !.id = id])

ReviewBallot ==
  /\ FormEnabled
  /\ view.vote # None
  /\ Fills([view EXCEPT !.confirming = FormValid,
                        !.message = IF FormValid THEN None ELSE "InvalidForm"])

CancelConfirm ==
  /\ view.path = "/vote"
  /\ view.confirming
  /\ ~view.submitting
  /\ Fills([view EXCEPT !.confirming = FALSE])

\* The button of the form needs an open election; the one of the dialog only
\* that no submission is under way.
CastEnabled ==
  \/ FormEnabled /\ view.vote # None
  \/ /\ view.path = "/vote"
     /\ view.receipt = None
     /\ view.confirming
     /\ ~view.submitting

\* handleConfirmAndCastBallot with an incomplete form.
CastInvalid ==
  /\ CastEnabled
  /\ ~FormValid
  /\ Fills([view EXCEPT !.message = "InvalidForm"])

\* createClientSideBallot: the voter's secret and the identifier that was typed
\* are hashed, the choice is encrypted for the key the page was given.
ClientSideBallot(v, pk) ==
  [nullifier |-> [secret |-> v.secret, domain |-> v.id], vote |-> v.vote, pk |-> pk]

\* handleConfirmAndCastBallot up to its first await.
CastBallot(t) ==
  /\ CastEnabled
  /\ FormValid
  /\ Free(t)
  /\ Set(t, Started("cast", "Crypto",
               ClientSideBallot(view, electionDetails.pk)))
  /\ view' = [view EXCEPT !.submitting = TRUE, !.message = None]
  /\ UNCHANGED <<server, page, memory, late>>

-----------------------------------------------------------------------------
(* The handler, from await to await                                        *)

\* Had castBallot submitted without a session when none is known.
BallotEncrypted_NoLogin(t) ==
  /\ At(t, "cast", "Crypto")
  /\ Initialized
  /\ Set(t, Sends(tasks[t], "Post",
              BallotRequest([code |-> NoCredential, at |-> 0], tasks[t].arg)))
  /\ UNCHANGED <<server, page, memory, view, late>>

\* castBallot begins: the token in memory is used, whosever it is.
BallotEncrypted(t) ==
  /\ At(t, "cast", "Crypto")
  /\ Initialized
  /\ LET ballot == tasks[t].arg IN
     Set(t, IF memoryVoterSessionToken = None
            THEN Sends(tasks[t], "Login", LoginRequest(ballot.nullifier.secret))
            ELSE Sends(tasks[t], "Post",
                       BallotRequest(memoryVoterSessionToken, ballot)))
  /\ UNCHANGED <<server, page, memory, view, late>>

LoginAnswered(t) ==
  /\ At(t, "cast", "Login")
  /\ Answered(t)
  /\ memoryVoterSessionToken' = tasks[t].answer.body
  /\ Set(t, Sends(tasks[t], "Post",
              BallotRequest(tasks[t].answer.body, tasks[t].arg)))
  /\ UNCHANGED <<server, page, cryptoModule, isAuthenticated, view, late>>

\* The handler's catch and finally: the form is emptied whatever happened.
CastFails(t, why) ==
  /\ tasks[t].handler = "cast"
  /\ Shows(t, [Cleared(view) EXCEPT !.submitting = FALSE,
                                    !.message = Message(why)])
  /\ Ends(t)
  /\ UNCHANGED <<server, page, memory>>

EncryptionFailed(t) ==
  /\ At(t, "cast", "Crypto")
  /\ cryptoModule = "failed"
  /\ CastFails(t, "CryptoFailed")
  /\ late' = late

\* The ballot was accepted, and the page refreshed or not: the form is emptied
\* and the digest of the ciphertext awaited.
CastAccepted(t) ==
  /\ tasks[t].handler = "cast"
  /\ Shows(t, Cleared(view))
  /\ Set(t, [tasks[t] EXCEPT !.pc = "Digest", !.request = None])

\* computeCiphertextHashHex is done: the receipt.
CastReceipt(t) ==
  /\ At(t, "cast", "Digest")
  /\ Shows(t, [view EXCEPT !.submitting = FALSE, !.receipt = tasks[t].arg])
  /\ Ends(t)
  /\ UNCHANGED <<server, page, memory, late>>

DismissReceipt ==
  /\ view.path = "/vote"
  /\ view.receipt # None
  /\ Fills([view EXCEPT !.receipt = None])

-----------------------------------------------------------------------------
(* useAuth: "Sign In to Vote", "Voter Login" and "Disconnect"              *)

\* login without a code makes a principal up; no request is made.
Login ==
  /\ ~isAuthenticated
  /\ isAuthenticated' = TRUE
  /\ UNCHANGED <<server, page, memoryVoterSessionToken, cryptoModule>>
  /\ UNCHANGED <<view, tasks, late>>

\* logout forgets the principal, not the session of the last voter.
Logout ==
  /\ isAuthenticated
  /\ isAuthenticated' = FALSE
  /\ UNCHANGED <<server, page, memoryVoterSessionToken, cryptoModule>>
  /\ UNCHANGED <<view, tasks, late>>

-----------------------------------------------------------------------------

VoterActs ==
  \/ PickVote \/ TypeSecret \/ TypeElectionId \/ ReviewBallot \/ CancelConfirm
  \/ CastInvalid \/ (\E t \in Tasks : CastBallot(t))
  \/ DismissReceipt

CastStep(t) ==
  BallotEncrypted(t) \/ LoginAnswered(t) \/ EncryptionFailed(t) \/ CastReceipt(t)

=============================================================================
