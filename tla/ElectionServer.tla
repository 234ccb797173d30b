--------------------------- MODULE ElectionServer ---------------------------
(***************************************************************************)
(* The election server: every handler of crates/server that changes the    *)
(* database, running in concurrent requests over the shared tables, with   *)
(* a clock, requests that are dropped and a process that restarts.         *)
(***************************************************************************)
EXTENDS SubmitBallot, VoterLogin, AdminApi, FinalizeTally

\* The server's clock moves between any two statements.
Tick ==
  /\ now < MaxTime
  /\ now' = now + 1
  /\ UNCHANGED <<tables, locks, created, requests>>

\* The timeout layer or a lost connection drops the handler between two
\* statements: its transaction, if it has one, is rolled back.
RequestDropped(r) ==
  /\ ~At(r, "Idle")
  /\ ReleaseLocks(r)
  /\ Finish(r)
  /\ UNCHANGED <<now, tables, created>>

\* The process ends and starts again: no request survives, committed rows do.
Restart ==
  /\ \E r \in Requests : ~At(r, "Idle")
  /\ pc' = [r \in Requests |-> "Idle"]
  /\ local' = [r \in Requests |-> Blank]
  /\ election_lock' = NoRequest
  /\ credential_lock' = [c \in Credentials |-> NoRequest]
  /\ UNCHANGED <<now, tables, created>>

Init == DatabaseInit

\* The next statement of a request that is being handled.
Step(r) ==
  SubmitStep(r) \/ LoginStep(r) \/ AdminStep(r) \/ FinalizeStep(r)

\* A new request takes a free slot.
Arrives(r) ==
  SubmitArrives(r) \/ LoginArrives(r) \/ AdminArrives(r) \/ FinalizeArrives(r)

Next ==
  \/ \E r \in Requests : Step(r) \/ Arrives(r) \/ RequestDropped(r)
  \/ \E pk \in PublicKeys, w \in Windows : CreateElection(pk, w)
  \/ CloseVoting
  \/ Tick
  \/ Restart

Spec == Init /\ [][Next]_vars

\* A handler that runs goes on running.  PostgreSQL queues the waiters of a
\* row lock, so a request that waits for a row is not passed over for ever.
Fairness ==
  \A r \in Requests :
    /\ WF_vars(Step(r))
    /\ SF_vars(SubmitLockCredential(r) \/ SubmitSessionRefused(r))
    /\ SF_vars(SubmitLockElection(r) \/ SubmitBallotRefused(r))
    /\ SF_vars(LoginStore(r))
    /\ SF_vars(OpenUpdate(r) \/ FinalizeUpdate(r))

FairSpec == Spec /\ Fairness

-----------------------------------------------------------------------------
(* Types                                                                   *)

Labels ==
  {"Idle", "Receipt"} \cup InTransaction \cup LoginSteps \cup AdminSteps
    \cup FinalizeSteps

Elections ==
  [phase : Phases \cup {"None"}, pk : PublicKeys \cup {NoKey},
   start : Int, end : Int, roll : SUBSET Credentials, tally : Int]

Sessions == [credential : Credentials \cup {NoCredential}, expires : Int]

Entries ==
  [prev_hash : Hashes, entry_hash : Hashes, ballot : Ballots,
   by : Credentials \cup {NoCredential}]

Locals ==
  [token : Tokens \cup {NoToken}, ballot : Ballots \cup {NoBallot},
   credential : Credentials \cup {NoCredential}, prev_hash : Hashes,
   expires : Int, batch : SUBSET Credentials, fetched : Nat,
   key : PublicKeys \cup {NoKey}]

TypeOK ==
  /\ now \in 0..MaxTime
  /\ election \in Elections
  /\ issued \in SUBSET Credentials
  /\ is_used \in SUBSET Credentials
  /\ voter_sessions \in [Tokens -> Sessions]
  /\ failed_logins \in [0..MaxTime -> Nat]
  /\ bulletin_log \in Seq(Entries)
  /\ election_lock \in Requests \cup {NoRequest}
  /\ credential_lock \in [Credentials -> Requests \cup {NoRequest}]
  /\ created \in Nat
  /\ pc \in [Requests -> Labels]
  /\ local \in [Requests -> Locals]

=============================================================================
