------------------------------ MODULE MCWebApp ------------------------------
(***************************************************************************)
(* Values for the constants of WebApp in TLC runs.                         *)
(***************************************************************************)
EXTENDS WebAppProperties, TLC

CONSTANTS c1, c2, k1, h1, h2

\* Election identifiers: two of the right form, and one with a forbidden
\* character.
Id(name, clean) == [name |-> name, length |-> 8, clean |-> clean]

TheElection == Id("election", TRUE)
OneId == {TheElection}
TypedIds == {TheElection, Id("election", FALSE)}
TwoIds == {TheElection, Id("elecction", TRUE)}

Server(phase, made, codes) ==
  [election |-> [phase |-> phase, pk |-> k1, tally |-> -1],
   created |-> made, issued |-> codes]

\* The tab is opened while the voting is open.
VotingOpen == {Server("Voting", 1, Credentials)}

\* ... or before anything was done.
NoElection == {Server("None", 0, {})}

\* The ballot of a voter, cast elsewhere with the session of a code.
CastElsewhere(code, secret, vote) ==
  BallotRequest([code |-> code, at |-> 0],
    [nullifier |-> [secret |-> secret, domain |-> TheElection], vote |-> vote, pk |-> k1])

\* Two ballots cast on another device: one of the voter of this tab, with the
\* session of c2, and one of voter c2, with the session of c1.
Crossed == {CastElsewhere(c2, c1, 0), CastElsewhere(c1, c2, 0)}

\* Another voter, another administrator and other trustees, who have one ballot
\* to decrypt, of YES, and might claim another result.
Others ==
  {CastElsewhere(c1, c1, 1), CloseRequest,
   FinalizeRequest(1, 1, TRUE), FinalizeRequest(1, 0, TRUE)}

Nobody == {}

\* Nothing is entered.
Nothing == {}

\* A form that is accepted here and there; one whose window the server refuses,
\* and one with too short a title.
Form(title, start, end) ==
  [title |-> title, key |-> [digits |-> 64, clean |-> TRUE], pk |-> k1,
   start |-> start, end |-> end]

SomeForms == {Form(3, 0, 0), Form(3, 5, 0), Form(2, 0, 0)}

\* A list of one principal, and one with a line that is no principal.
SomeVoters == {<<TRUE>>, <<TRUE, FALSE>>}

\* The shares of two trustees: as dealt, with one mistaken, and one twice.
Line(index, dealt) ==
  [index |-> index, text |-> [digits |-> 64, clean |-> TRUE], dealt |-> dealt]

SomeLines ==
  {<<Line(1, TRUE), Line(2, TRUE)>>, <<Line(1, TRUE), Line(2, FALSE)>>,
   <<Line(1, TRUE), Line(1, TRUE)>>}

\* Thresholds and numbers of shares.
SomeDeals == {<<2, 3>>, <<3, 2>>}

\* Handlers are interchangeable.
Symmetry == Permutations(Tasks)

\* What nothing on the voter's page, and none of its properties, depends on is
\* left out of the comparison of states: the message, the sum, and the number
\* of ballots and the tally of the details.
Known(pending, value) == IF pending THEN Pending ELSE value

VoterSees ==
  <<server, IF electionDetails = None THEN None ELSE electionDetails.phase,
    loading, error # None, isDemoExpired, memory, late,
    IF view.path = "/vote" THEN [view EXCEPT !.message = None] ELSE view,
    [t \in Tasks |-> [tasks[t] EXCEPT
       !.count = Known(@ = Pending, 0), !.tally = Known(@ = Pending, 0)]]>>

=============================================================================
