---------------------------- MODULE BallotLedger ----------------------------
(***************************************************************************)
(* What the server promises of its ballots: a ledger that only grows, one  *)
(* ballot at a time and only while voting is open; a nullifier enters it   *)
(* once; a credential is spent in the very step that records a ballot, and *)
(* never twice.  Requests, transactions and locks are not visible here.    *)
(***************************************************************************)
EXTENDS Sequences

CONSTANTS Ballots, Credentials, NoCredential

VARIABLES
  open,    \* voting is open
  ledger,  \* the ballots recorded, each with the credential it consumed
  spent    \* the credentials consumed

Fresh(b) == \A i \in DOMAIN ledger : ledger[i].ballot.nullifier # b.nullifier

Init == open = FALSE /\ ledger = << >> /\ spent = {}

Record(b, c) ==
  /\ open
  /\ Fresh(b)
  /\ ledger' = Append(ledger, [ballot |-> b, by |-> c])
  /\ UNCHANGED open

\* A ballot whose voter presented a session.
CastWithCredential(b, c) ==
  /\ Record(b, c)
  /\ c \notin spent
  /\ spent' = spent \cup {c}

\* A ballot whose sender presented none.
CastAnonymously(b) == Record(b, NoCredential) /\ UNCHANGED spent

\* Administrators open and close voting; no ballot is touched.
Administer == open' \in BOOLEAN /\ UNCHANGED <<ledger, spent>>

Next ==
  \/ \E b \in Ballots, c \in Credentials : CastWithCredential(b, c)
  \/ \E b \in Ballots : CastAnonymously(b)
  \/ Administer

Spec == Init /\ [][Next]_<<open, ledger, spent>>

=============================================================================
