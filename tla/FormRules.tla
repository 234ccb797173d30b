----------------------------- MODULE FormRules -----------------------------
(***************************************************************************)
(* What the forms of the web application accept (utils/validation.ts) and  *)
(* which message stands for a failure (utils/errorMapper.ts).              *)
(*                                                                         *)
(* A text is what the rules look at: a title is its length; a hexadecimal  *)
(* text is its number of digits and whether it has nothing but digits; an  *)
(* election identifier is its length and whether its characters are those *)
(* allowed; a list of principals says of each line whether it is one; the  *)
(* shares are a sequence of lines, each with its index and its text.       *)
(***************************************************************************)
EXTENDS Integers, Sequences

ValidTitle(length) == length \in 3..120

ValidElectionId(id) == id.length \in 3..64 /\ id.clean

ValidPrincipals(lines) == Len(lines) > 0 /\ \A i \in 1..Len(lines) : lines[i]

ValidHex(text, minBytes, maxBytes) ==
  /\ text.clean
  /\ text.digits % 2 = 0
  /\ text.digits \div 2 \in minBytes..maxBytes

\* An end of 0 is no end; it is accepted with any start.
ValidTimestamps(start, end) ==
  /\ start >= 0
  /\ end >= 0
  /\ end > 0 => end > start

ValidThreshold(threshold, total) ==
  threshold \in 2..10 /\ total \in 2..20 /\ threshold <= total

ValidShares(lines, minShares) ==
  /\ Len(lines) >= minShares
  /\ \A i \in 1..Len(lines) :
       /\ lines[i].index \in 1..20
       /\ ValidHex(lines[i].text, 1, 64)
       /\ \A j \in 1..i - 1 : lines[j].index # lines[i].index

MaxTallyBound == 1000000

ValidTallyBound(bound) == bound \in 1..MaxTallyBound

\* The form of "Initialize Election".
ValidCreateForm(form) ==
  /\ ValidTitle(form.title)
  /\ ValidHex(form.key, 32, 128)
  /\ ValidTimestamps(form.start, form.end)

-----------------------------------------------------------------------------

\* SERVER_ERROR_MAP: of its keys only open_voting's occurs in a text that the
\* server sends to this application.
ServerErrorMap == [why \in {"NotSetup"} |-> "Voting cannot be opened"]

\* Had the mapper told every conflict as a repeated vote.
Message_AnyConflict(why) ==
  IF why \in {"Duplicate", "Consumed"} THEN "Double-vote prevented" ELSE why

\* mapToSafeErrorMessage: the table, then the first rule whose pattern the text
\* matches.  A refused code and a refused administrator are both "UNAUTHORIZED" in the
\* text of the answer; a refused phase of finalize-tally mentions the proof.
Message(why) ==
  CASE why \in DOMAIN ServerErrorMap -> ServerErrorMap[why]
    [] why = "SessionExpired" -> "Your voter session has expired"
    [] why = "Duplicate" -> "Double-vote prevented"
    [] why = "Unauthorized" -> "Only the configured Election Administrator"
    [] why = "InvalidBallot" -> "Range proof verification failed"
    [] why \in {"NotTallying", "ProofRefused"} -> "Decryption proof failed"
    [] why \in {"Unreachable", "CryptoFailed"} -> "Cannot reach the backend"
    [] OTHER -> why

\* isDemoBackendExpiredError of an error of GET election: a failed fetch, and
\* any answer that is not ok, whose text begins "Failed to fetch election".
DemoBackendExpired(why) == why \in {"Unreachable", "ServerError"}

=============================================================================
