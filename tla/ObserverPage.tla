---------------------------- MODULE ObserverPage ----------------------------
(***************************************************************************)
(* views/PublicView.tsx: anybody looks a nullifier up on the bulletin.     *)
(***************************************************************************)
EXTENDS ElectionHook

\* result: the nullifier looked up and whether it was found.
FreshObserverView ==
  [path |-> "/verify", checking |-> FALSE, result |-> None, message |-> None]

\* "Refresh", and "Retry" when nothing could be loaded.
RefreshShown ==
  /\ view.path = "/verify"
  /\ ~loading \/ (error # None /\ electionDetails = None)

\* The boxes of the page: the ballots counted, and whether a proof is stored,
\* which the server does together with the tally.
Statistics ==
  [ballots |-> IF electionDetails = None THEN 0 ELSE electionDetails.ballots,
   verified |-> electionDetails # None /\ electionDetails.tally # -1]

\* "Final Election Result": YES votes out of all encrypted ballots.
FinalResult ==
  IF PhaseName = "Complete" /\ electionDetails.tally # -1
  THEN [yes |-> electionDetails.tally, total |-> Statistics.ballots]
  ELSE None

\* "[RECORDED ON-CHAIN]".
ToldRecorded == view.result # None /\ view.result.isUsed

LookupEnabled == view.path = "/verify" /\ ~view.checking

\* handleCheckNullifier with a text that is no hexadecimal of 32 bytes.
LookupMalformed ==
  /\ LookupEnabled
  /\ view' = [view EXCEPT !.result = None, !.message = "InvalidForm"]
  /\ UNCHANGED <<server, page, memory, tasks, late>>

Lookup(t) ==
  /\ LookupEnabled
  /\ Free(t)
  /\ \E nullifier \in Nullifiers :
       Set(t, Sends(Started("lookup", "Lookup", nullifier), "Lookup",
                BulletinRequest(nullifier)))
  /\ view' = [view EXCEPT !.checking = TRUE, !.result = None, !.message = None]
  /\ UNCHANGED <<server, page, memory, late>>

LookupEnds(t, found) ==
  /\ tasks[t].handler = "lookup"
  /\ Shows(t, [view EXCEPT
       !.checking = FALSE,
       !.result = [nullifier |-> tasks[t].arg, isUsed |-> found]])
  /\ Ends(t)
  /\ UNCHANGED <<server, page, memory>>

\* The nullifier is compared with those of the whole bulletin.
LookupAnswered(t) ==
  /\ tasks[t].handler = "lookup"
  /\ Answered(t)
  /\ LookupEnds(t, tasks[t].answer.body)
  /\ late' = late

\* Had hasNullifierBeenUsed taken a failed look-up for a ballot that is there.
LookupFails_Found(t) == LookupEnds(t, TRUE)

\* hasNullifierBeenUsed swallows every failure: the nullifier is not found.
LookupFails(t) == LookupEnds(t, FALSE)

=============================================================================
