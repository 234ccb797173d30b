----------------------------- MODULE AdminPage -----------------------------
(***************************************************************************)
(* views/AdminView.tsx: an administrator creates the election, issues      *)
(* credentials, opens and closes the voting.  The field of the token is    *)
(* taken to be filled in; a wrong token is a refusal (Throws).             *)
(***************************************************************************)
EXTENDS ElectionHook

CONSTANTS
  Forms,      \* what may be entered under "Initialize Election"
  VoterLists  \* ... and under "Register Eligible Voters": sequences of lines

ASSUME FormsAssumption == \A form \in Forms : form.pk \in PublicKeys

\* pending: the transition the dialog asks to confirm.
FreshAdminView ==
  [path |-> "/admin", pending |-> None, submitting |-> FALSE, status |-> None]

Success(text) == [type |-> "success", text |-> text]
Failure(text) == [type |-> "error", text |-> text]

AdminEnabled == view.path = "/admin" /\ ~view.submitting

\* isSetup: also while nothing is known of the election.
SetupShown == PhaseName \in {"Not Initialized", "Setup"}

Shown(v) == view' = v /\ UNCHANGED <<server, page, memory, tasks, late>>

\* The handler of operation op sends its request.
Administers(t, op, q, v) ==
  /\ Free(t)
  /\ Set(t, Sends(Started("admin", "Post", op), "Post", q))
  /\ view' = [v EXCEPT !.submitting = TRUE, !.status = None]
  /\ UNCHANGED <<server, page, memory, late>>

-----------------------------------------------------------------------------

\* handleCreateElection, whatever the phase shown.
CreateInvalid ==
  /\ AdminEnabled
  /\ \E form \in Forms : ~ValidCreateForm(form)
  /\ Shown([view EXCEPT !.status = Failure("InvalidForm")])

CreateElectionForm(t) ==
  /\ AdminEnabled
  /\ \E form \in Forms :
       /\ ValidCreateForm(form)
       /\ Administers(t, "Create", CreateRequest(form), view)

\* handleRegisterVoters: of the list of principals only the number is sent; the
\* button is off while nothing is entered.
RegisterInvalid ==
  /\ AdminEnabled
  /\ SetupShown
  /\ \E lines \in VoterLists : ~ValidPrincipals(lines)
  /\ Shown([view EXCEPT !.status = Failure("InvalidForm")])

RegisterVoters(t) ==
  /\ AdminEnabled
  /\ SetupShown
  /\ \E lines \in VoterLists :
       /\ ValidPrincipals(lines)
       /\ Administers(t, "Issue", IssueRequest(Len(lines)), view)

AskTransition ==
  /\ AdminEnabled
  /\ \/ SetupShown /\ Shown([view EXCEPT !.pending = "Open"])
     \/ PhaseName = "Voting" /\ Shown([view EXCEPT !.pending = "Close"])

CancelTransition ==
  /\ AdminEnabled
  /\ view.pending # None
  /\ Shown([view EXCEPT !.pending = None])

\* executePhaseTransition: the dialog does not look at the phase again.
ConfirmTransition(t) ==
  /\ AdminEnabled
  /\ view.pending # None
  /\ Administers(t, view.pending,
       IF view.pending = "Open" THEN OpenRequest ELSE CloseRequest,
       [view EXCEPT !.pending = None])

-----------------------------------------------------------------------------

AdminFails(t, why) ==
  /\ tasks[t].handler = "admin"
  /\ Shows(t, [view EXCEPT !.submitting = FALSE,
                           !.status = Failure(Message(why))])
  /\ Ends(t)
  /\ UNCHANGED <<server, page, memory>>

\* The change was accepted, and the page refreshed or not.
AdminDone(t) ==
  /\ tasks[t].handler = "admin"
  /\ Shows(t, [view EXCEPT !.submitting = FALSE,
                           !.status = Success(tasks[t].arg)])
  /\ Ends(t)

AdminActs ==
  \/ CreateInvalid \/ RegisterInvalid \/ AskTransition \/ CancelTransition
  \/ \E t \in Tasks :
       CreateElectionForm(t) \/ RegisterVoters(t) \/ ConfirmTransition(t)

=============================================================================
