---------------------------- MODULE TrusteePage ----------------------------
(***************************************************************************)
(* views/TrusteeView.tsx: the trustees deal a key, and later put their     *)
(* shares together and decrypt the sum the page last loaded.  The proof is *)
(* then to be submitted, but it holds a BigInt, which JSON cannot encode:  *)
(* submitDecryptionProof throws before its request leaves.                 *)
(*                                                                         *)
(* A line of shares says, besides what the form looks at (FormRules),      *)
(* whether it is the share that was dealt under its index.                 *)
(***************************************************************************)
EXTENDS ElectionHook, DiscreteLog

CONSTANTS
  ShareLines,   \* what may be entered as shares: sequences of lines
  Bounds,       \* what may be entered as bound of the tally
  Deals,        \* what may be entered as threshold and number of shares
  Threshold     \* the threshold the election's key was dealt with

FreshTrusteeView ==
  [path |-> "/trustee", shares |-> None, setup |-> FALSE, processing |-> FALSE,
   status |-> None, result |-> None]

FailsWith(text) == [type |-> "error", text |-> text]

TrusteeEnabled == view.path = "/trustee" /\ ~view.processing

TallyingShown == PhaseName = "Tallying"

Becomes(v) == view' = v /\ UNCHANGED <<server, page, memory, tasks, late>>

\* The shares interpolate to the key that was dealt.
RightShares(lines) ==
  Len(lines) >= Threshold /\ \A i \in 1..Len(lines) : lines[i].dealt

-----------------------------------------------------------------------------
(* Dealing a key                                                           *)

GenerateRefused ==
  /\ TrusteeEnabled
  /\ \E deal \in Deals : ~ValidThreshold(deal[1], deal[2])
  /\ Becomes([view EXCEPT !.status = FailsWith("InvalidForm")])

\* handleGenerateThresholdKeys.
GenerateKeys(t) ==
  /\ TrusteeEnabled
  /\ Free(t)
  /\ \E deal \in Deals : ValidThreshold(deal[1], deal[2])
  /\ Set(t, Started("keygen", "Crypto", None))
  /\ view' = [view EXCEPT !.processing = TRUE, !.status = None]
  /\ UNCHANGED <<server, page, memory, late>>

KeysGenerated(t) ==
  /\ At(t, "keygen", "Crypto")
  /\ Initialized
  /\ Shows(t, [view EXCEPT !.processing = FALSE, !.setup = TRUE])
  /\ Ends(t)
  /\ UNCHANGED <<server, page, memory, late>>

ClearSetup ==
  /\ view.path = "/trustee"
  /\ view.setup
  /\ Becomes([view EXCEPT !.setup = FALSE])

-----------------------------------------------------------------------------
(* Decrypting the sum                                                      *)

TypeShares ==
  /\ TrusteeEnabled
  /\ TallyingShown
  /\ \E lines \in ShareLines : Becomes([view EXCEPT !.shares = lines])

\* handleDecryptAndFinalize: what it refuses leaves the shares in the form.
DecryptRefused ==
  /\ TrusteeEnabled
  /\ TallyingShown
  /\ view.shares # None
  /\ \/ encryptedTally = None
     \/ ~ValidShares(view.shares, 2)
     \/ \E bound \in Bounds : ~ValidTallyBound(bound)
  /\ Becomes([view EXCEPT !.status = FailsWith("InvalidForm")])

\* Had the handler not emptied the form before its first await.
DecryptStarts_SharesKept(v) ==
  [v EXCEPT !.processing = TRUE, !.status = None, !.result = None]

\* The form is emptied before the first await.
DecryptStarts(v) ==
  [v EXCEPT !.processing = TRUE, !.status = None, !.result = None,
            !.shares = None]

Decrypt(t) ==
  /\ TrusteeEnabled
  /\ TallyingShown
  /\ Free(t)
  /\ view.shares # None
  /\ encryptedTally # None
  /\ ValidShares(view.shares, 2)
  /\ \E bound \in Bounds :
       /\ ValidTallyBound(bound)
       /\ Set(t, Started("decrypt", "Crypto",
            [rightKey |-> RightShares(view.shares), sum |-> encryptedTally,
             bound |-> bound]))
  /\ view' = DecryptStarts(view)
  /\ UNCHANGED <<server, page, memory, late>>

\* What the search finds of the sum, decrypted: with the right key it is the
\* number of YES times the generator, and with any key an empty sum is no time
\* the generator; of any other point nothing is found.
Tallies(job, root) ==
  IF job.rightKey \/ job.sum = 0
  THEN SolveDiscreteLog(YesAmong(job.sum), job.bound, root)
  ELSE {}

\* The result is shown, and JSON.stringify of the proof, whose decrypted_tally
\* is a BigInt, throws in the same turn: no request is sent, and the catch of
\* the handler tells an error beside the result.
Decrypted(t) ==
  /\ At(t, "decrypt", "Crypto")
  /\ Initialized
  /\ LET job == tasks[t].arg IN
     \E root \in Roots(job.bound) : \E yes \in Tallies(job, root) :
       Shows(t, [view EXCEPT !.result = yes, !.processing = FALSE,
                             !.shares = None,
                             !.status = FailsWith(Message("NotSerializable"))])
  /\ Ends(t)
  /\ UNCHANGED <<server, page, memory, late>>

TrusteeFails(t, why) ==
  /\ tasks[t].handler \in {"keygen", "decrypt"}
  /\ Shows(t, [view EXCEPT
       !.processing = FALSE,
       !.shares = IF tasks[t].handler = "decrypt" THEN None ELSE view.shares,
       !.status = FailsWith(Message(why))])
  /\ Ends(t)
  /\ UNCHANGED <<server, page, memory>>

\* The WebAssembly module is not there, or the logarithm is not found.
TrusteeCryptoFailed(t) ==
  /\ tasks[t].pc = "Crypto"
  /\ \/ cryptoModule = "failed" /\ TrusteeFails(t, "CryptoFailed")
     \/ /\ tasks[t].handler = "decrypt"
        /\ Initialized
        /\ \E root \in Roots(tasks[t].arg.bound) : Tallies(tasks[t].arg, root) = {}
        /\ TrusteeFails(t, "WrongShares")
  /\ late' = late

TrusteeActs ==
  \/ GenerateRefused \/ ClearSetup \/ TypeShares \/ DecryptRefused
  \/ \E t \in Tasks : GenerateKeys(t) \/ Decrypt(t)

TrusteeStep(t) == KeysGenerated(t) \/ Decrypted(t) \/ TrusteeCryptoFailed(t)

=============================================================================
