# A verification project for the secure voting system

TLA+ modules of the election server (`crates/server`, `crates/election_core`)
and of the web application (`frontend`), TLC configurations that check them on
small instances, and TLAPS proofs for every instance: the safety of ballots, the
life of an election, and what the application tells its users.

## 1. The system

| Component | State | Operations | Hard part |
|---|---|---|---|
| `crates/election_core` | `ElectionState` (phase, key, window, roll, tally), in memory | `new`, `set_roll_commitment`, `open_voting`, `close_voting`, `finalize_tally`; `validate_ballot_timing`, `validate_ballot_math` | boundaries of the time window; the server calls only `new` and the two validations |
| PostgreSQL schema | `elections` (one row, id `default`), `voter_credentials`, `voter_sessions`, `auth_rate_limits`, `bulletin_log` | unique nullifier, append-only trigger, row locks | READ COMMITTED: each statement has a snapshot of its own |
| `submit_ballot` | one transaction | session look-up, credential lock, election lock, validation, consume, read head, insert, commit | two-statement read of the chain head; rollback; lock order |
| `voter_login` | none (five statements) | count failures, look up, record, read phase, store session | check-then-act without a transaction |
| `create_election`, `issue_credentials`, `open_voting`, `close_voting` | none | read, then write | a phase read earlier is trusted by a later write |
| `get_tally`, trustee, `finalize_tally` | none | sum, decrypt and prove, verify, complete | the sum may have moved between the trustee's read and the verification |
| runtime (`lib.rs`, `main.rs`) | pool of ten connections | 15 s timeout, disconnects, restart | a handler can be dropped between any two statements |
| `get_election`, `get_bulletin` | none | reads | several snapshots in one answer |
| `useElection.ts`, `useAuth.ts` | details, sum, loading and error flags; the session token in module memory; a made-up principal | refresh, cast, look up, administer, submit a proof; login, logout | stale token, aborts whose request still arrives, reads that overtake each other, a proof that cannot be encoded |
| the four working views | form fields, busy flags, receipt, results, shares | one handler per button | a view unmounted while its handler awaits; secrets that must leave the form on every path |
| `validation.ts`, `errorMapper.ts`, `crypto/index.ts` | whether the WebAssembly module is loaded | form rules, messages, loading once | one failed load is final; a message that tells the wrong reason |
| CLI and `verifier.rs` | none | the same requests one at a time, and the only one that finalizes a tally; audit of chain, proofs, sum | three downloads of a moving log |
| `voting_crypto` | none | ElGamal, range and decryption proofs, the search for the tally (BSGS), threshold sharing, nullifiers | arithmetic boundaries, too few shares |
| archived canister | maps saved over upgrades | the former backend | not part of the Cargo workspace |

Clients talk HTTP to the handlers. The handlers share nothing but the database:
every interaction is a row that one writes and another reads, or a row lock. In
the browser one thread runs event handlers from await to await; they share the
hook's state, the module memory and the mounted view.
What makes each component correct:

* **ballots**: the log is one hash chain; a nullifier is recorded once; a
  credential is spent exactly with the one ballot it authorised; nothing enters
  the log once voting is closed; a receipt stands for an entry of the log;
* **lifecycle**: the row of `elections` moves as `ElectionState` says; the roll
  commitment covers the issued credentials; the tally covers the log;
* **time**: no ballot is recorded before the election begins, and after its
  deadline or with an expired session none but what had its row by then;
* **login**: failures are bounded in any window;
* **every request** is answered and leaves no lock behind;
* **the pages** tell the truth: a receipt, "recorded", "double vote", a success
  and a final result are shown only when the server's tables say so;
* **the trustees** with the right shares see the tally whenever their bound
  allows it; that it is then submitted is what the page promises and does not do
  (section 6);
* **secrets**: passphrase, choice and shares leave the form when their handler
  has used them; every ballot carries a session;
* **buttons** are off exactly while their handler runs, and not for ever.

The hazards behind these, each at its line, are in `PROJECT.json`.

## 2. Modules

```
ElectionCore        pure rules of crates/election_core
  Database          tables, row locks, requests
    SubmitBallot    submit_ballot
    VoterLogin      voter_login
    AdminApi        create_election, issue_credentials, open_voting, close_voting
    FinalizeTally   get_tally, the trustee, finalize_tally
      ElectionServer      all handlers, clock, drops, restart: Spec, FairSpec, TypeOK
        ServerProperties  what is checked
          MCElectionServer  constants for TLC
          ServerProofs      TypeOK proved
            LoginProofs       the lockout proved
            BallotProofs      ballot safety and the ledger refinement proved
              LifecycleProofs   roll, tally, finality and the lifecycle refinement proved
  ElectionLifecycle the transitions of ElectionState (abstract)
  ElectionApi       the server as clients see it: one step per request
    ElectionHook    useElection.ts: tasks, refreshState, timeouts   (+ FormRules)
      VoterPage     VoterView.tsx, useAuth.ts
      ObserverPage  PublicView.tsx
      AdminPage     AdminView.tsx
      TrusteePage   TrusteeView.tsx
        WebApp            App.tsx: routes, reload, other clients: Spec, FairSpec
          WebAppProperties  what is checked
            MCWebApp          constants for TLC
            WebAppProofs      eight properties proved
              OutcomeProofs     what operators are told and shown, and the tally, proved
DiscreteLog         bsgs.rs: the search for the tally (in TrusteePage)
  DiscreteLogProofs   the search proved (in OutcomeProofs)
FormRules           utils/validation.ts, utils/errorMapper.ts
BallotLedger        what submissions promise (abstract)
```

### The server

**Requests.** `Requests` are the slots for requests handled at once. `pc[r]`
names the statement request `r` is about to run and `local[r]` holds its
handler's locals. A handler is one action per SQL statement (with the Rust code
up to the next statement); an early return is an action of its own or an
alternative, and ends with `Finish(r)`. Between two steps anything can happen.

**Transactions.** Only `submit_ballot` and the inserts of `issue_credentials`
use one. Uncommitted writes of a submission stay in its locals and become
visible at `SubmitCommit`, all at once; every other way out is a rollback,
which only has to release locks. The inserts of `issue_credentials` take no
locks others wait for and are one step.

**Locks.** `election_lock` and `credential_lock` are the `FOR UPDATE` locks of
`submit_ballot`. A statement that would wait for one (a plain `UPDATE` or the
upsert of the row, the foreign key check of a new session) has the row being
free in its guard, and reads the row as it is after the wait, as READ COMMITTED
does. `open_voting` and `finalize_tally` have no condition on the phase in
their `UPDATE`, `close_voting` has one.

**Data.** A ballot is its nullifier, the number it encrypts and its key; its
range proof is taken to verify exactly when that number is 0 or 1 under that
key. SHA-256 is an ideal hash: `EntryHash` is the history it covers, so equal
hashes mean equal histories. A nullifier is the text the table stores. Sequence
numbers are the order of `bulletin_log`; gaps left by rollbacks do not show.
Rows are added by commits in that order because the inserts are made under the
election row's lock. The field `by` of an entry is no column: it remembers
which credential the transaction consumed. The roll commitment is the set of
hashes it was computed over. The trustee's sum is named by the number of rows
it covers, `TallyOf` is the number it decrypts to.

**Clock.** `now` is the server's and the database's clock; `Tick` moves it
between any two statements. A login's failures are counted by their time.

**Failures.** `RequestDropped` is the 15 s timeout, a disconnect or an error of
the database: the future is dropped between two statements and the transaction
rolled back. Dropped at `Receipt`, it is the commit whose answer is lost, and
`SubmitBegin` may send the same ballot again at any time. `Restart` drops all
requests. A statement that was already sent when its handler was dropped may
still run in the database: such a request counts as one still in flight, which
is what `AdminConcurrency = 2` allows for an administrator who then tries again.

**Client address.** `main.rs` serves the router without connect info, so
`client_ip` is `"unknown"` for everyone and there is one bucket of failures.

### The web application

**The server, seen from outside.** `ElectionApi` handles a request in one step:
`Refusal(q)` is the first early return it meets, `Handle(q)` what an accepted one
does. That is the level of `BallotLedger`: a submission is the ledger's
`CastWithCredential`, and `BallotProofs` shows that the detailed handlers, with
their statements, locks and rollbacks, implement that ledger. Reads that are
several statements for the application too (the row, then the count of ballots
of `get_election`, and `get_tally` beside them) are separate steps of
`ElectionHook`. The clock is left out, except that sessions expire.

**Tasks.** A task is one run of an event handler; `pc` names what it awaits. An
action is the code from one await to the next, with every setter it calls. Two
tasks interleave at their awaits only, as JavaScript's handlers do. `Tasks`
bounds how many run at once.

**Views.** `view` is the mounted view with its state, `Navigate` mounts a fresh
one. A task's `attached` says whether the view that started it is still mounted:
`Shows` sets state only then, but its requests, the hook's state and the module
memory are touched all the same.

**Requests.** `Serve` is the server handling the request of a task. A request
ends with its answer (`Answered`, `Throws`), with the abort of `fetchWithTimeout`
or with a broken connection (`Aborted`). A request given up before it was served
is lost, or stays in `late` and is served later (`ServeLate`). One that only
reads is dropped: nobody would see its effect. The body of an answer is taken to
arrive with its headers or the connection to break.

**Memory.** `memoryVoterSessionToken` and the loaded WebAssembly module outlive
every view and every `Logout`; only `Reload` forgets them. `login` without a code
makes a principal up and sends nothing, so `isAuthenticated` is a flag of the page.

**Failures.** `Failures` are those a run lets happen: the abort, an unreachable
server, a server that refuses for reasons of its own, a token that is not the
administrator's, a WebAssembly module that does not load. The slow-network
banner only repeats the refresh button, which `UserRefreshes` has.

**Others.** `Elsewhere` are the requests of all other clients: other devices of
the same voter, other administrators, and the command line, from which alone a
request to finalize comes (`FinalizeRequest`).

**The trustees' proof.** `handleDecryptAndFinalize` puts a `BigInt` into the
proof it hands to `submitDecryptionProof` (TrusteeView.tsx:125), whose
`JSON.stringify({ proof })` (useElection.ts:424) throws a `TypeError`; no
`toJSON` for it exists under `src/`. The exception comes in the turn in which the
result is set, before `fetch` is called. So `Decrypted` shows the result and the
error and ends the handler; what follows the request in the source
(useElection.ts:427-432, TrusteeView.tsx:128-131) cannot be reached and has no
action.

**Data.** A form's text is what its rules look at (length, digits, whether its
characters are allowed). A nullifier is the pair of secret and election
identifier, an ideal hash. A share line says whether it is the share that was
dealt; shares give the election's key if there are enough and all are right. A
proof verifies when it was made with that key, over the sum of the whole log, for
the number this sum decrypts to. Wording, rendering and the
test bypass, which `buildFlags.json` compiles out, are not modelled.

**The search.** `DiscreteLog` follows `solve_discrete_log` branch by branch:
zero, the linear search up to `LinearBound`, the table of baby steps and the
giant steps. A point is a multiple of the generator, written as its multiplier;
two multipliers are one point when they differ by a multiple of `Order`. The
hash table, which finds an entry by its point, is the quantifier over its
entries. What the search comes upon is a set, since nothing in the definition
says that only one entry fits: that is proved. The floating-point square root
may be any number of `Roots(bound)`, whose successor squared exceeds the bound;
the page's action picks one. With the wrong key a sum decrypts to a point that
is taken to be no small multiple of the generator, unless it is the empty sum:
its two points are zero, and zero times any key is zero.

## 3. Runs

The runs of pages (`voter_page`, `operator_pages`, `second_voter`, `lost_proof`)
use `MCWebApp`, the others `MCElectionServer`.

| Run | Bounds | What it shows |
|---|---|---|
| `ballots` | 2 requests, 1 credential, 2 tokens, 2 ballots, 2 administrative requests, 2 elections | `ChainLinked`, `NullifiersUnique`, `CredentialsSpentOnce`, `ReceiptIsRecorded`, `LockDiscipline`, `TypeOK`, and the refinement `LedgerImplemented` |
| `lifecycle` | 2 requests, 2 credentials, 3 ballots (one with an invalid range proof), windows `<<-,1>>` and `<<1,2>>`, clock 0..2, sessions of 1, failures limited to 1 in a window of 1, 1 administrator, 1 election | `LifecycleImplemented`, `RollCommitsToIssued`, `TallyCoversLog`; `TimeLimitsHold`: beginning, deadline and expiry bind also what waits for a row while the clock moves; `FailuresBounded`: the limit is exceeded by at most one less than the requests handled at once |
| `liveness` | 2 requests, `FairSpec`, no symmetry | `RequestsAnswered` |
| `voter_page` | 2 tasks, 1 passphrase, 2 codes, 1 late request, 1 expiry of sessions, identifiers with a malformed one, two ballots cast elsewhere with crossed sessions | `ReceiptMeansRecorded`, `NeverAnonymous`, `BusyMeansRunning`, `DoubleVoteToldTruly`, `SecretsCleared`, `TypeOK` |
| `operator_pages` | 1 task, three pages from an empty server on, one ballot and other operators elsewhere (one of whom claims a wrong result), forms, lists, shares, bounds 0, 1, 2 and deals of which some are refused, `LinearBound` 1, `Order` 1000003; `FairSpec` | `SuccessIsTrue`, `CompleteShownWhole`, `SharesNotKept`, `FoundMeansRecorded`, `SharesSuffice`, and `HandlersEnd` |
| `stale_open`, `roll_race`, `recreated`, `anonymous`, `lockout`, `second_voter`, `lost_proof` | the smallest that shows it | where the code does not keep what the repository says, see section 6 |

*Why these bounds are enough: the server.* Two requests give every pair of
statements in either order, and every hazard listed is one of pairs: two
submissions, a submission and an administrator, two administrators. Two ballots
with two sessions of one credential give both ways to vote twice (one nullifier
in two requests, one credential in two ballots) and a third entry is no different
from the second. Two logins with a limit of one are the smallest case in which
the limit is exceeded and the bound of `FailuresBounded` is met exactly; that the
excess grows with the requests, and by no more, is the theorem. The clock of
`lifecycle` moves past the deadline and past the expiry of a session while
submissions wait for rows; the other runs keep it still, so the expiry of
sessions says nothing in `ballots`. The proofs remove the bounds for everything
about ballots, logins, time limits, roll and tally. `MaxTime`, `MaxElections`,
the tokens and the credentials bound the state space only; a login that finds
every token taken ends there (`LoginPhaseClosed`).

*The web application.* Two tasks are a handler of a view that was left and one
of the view mounted after it, or a handler and a refresh. One late request races
its retry. In `voter_page` the only passphrase is one of the codes: the other
code is another voter's, whose session or nullifier appears in the ballots cast
elsewhere. The run compares states by `VoterSees`, which leaves out
what neither the voter's page nor a property of the run depends on (the message,
the sum, the counts and the tally of the details), and takes tasks as
interchangeable. `operator_pages` has one task, because its properties are about
reads that interleave with the server and with others, not with other handlers:
refreshes of one tab that overlap each other are covered by the proof of
`CompleteShownWhole`, not by this run;
its liveness is checked without symmetry and without a view. With a linear search
up to 1 the bound 1 is searched linearly and the bound 2 by giant steps, where
the tally of the one YES is the last entry of the smaller of the two tables that
`Roots` allows.
`Votes` bounds the
buttons that are pressed, `Credentials` the codes that can be issued,
`MaxElections` and `MaxExpiries` the state space. The proofs remove all of these
bounds for what they cover.

*Deadlock.* A page may stop: its user has nothing left to do. The four
runs of `MCWebApp` are those without the deadlock check. `MaxTime = 0` in the
runs that are not about time keeps the clock still.

*Mutants.* Every property has a mutant, next to the definition it changes: a
plain `SELECT` for a `FOR UPDATE`, a missing constraint, a lock kept by a
rollback, a duplicate answered with a receipt, a guard left out, a ballot accepted
a moment after the deadline; an answer whose
status is not looked at, a ballot sent without a login, a view whose handlers
stay attached, a table of baby steps one entry short, a timer that does not fire,
a form that is not emptied, a message that tells every conflict as a double vote,
a read that is not awaited.

*Fairness: the server.* `WF_vars(Step(r))`: the tokio runtime polls every ready
handler and PostgreSQL answers every statement. Strong fairness for the steps
that wait for a row lock: the row can be taken and freed again by others for
ever, but PostgreSQL queues the waiters of a row and grants it in turn. No
fairness is assumed of arrivals, drops, restarts, administrators or the clock, so
`RequestsAnswered` says that locks alone do not keep a request waiting.

*Fairness: the page.* `WF_vars(Proceeds(t))`: the event loop runs what is ready.
`WF_vars(TimesOut(t))`: `setTimeout` of `fetchWithTimeout` fires after 15 s.
`WF_vars(CryptoSettles)`: loading the WebAssembly module ends, well or badly. No
answer of the server and no act of a user is promised: `HandlersEnd` rests on
the timer alone, and its mutant without the timer fails. The timer is cleared
when the headers arrive (useElection.ts:160): that the body then arrives too, or
the connection breaks, is assumed.

## 4. Abstract specifications

* `BallotLedger`: a ledger that grows by one fresh ballot at a time while
  voting is open, and a set of spent credentials that grows in the same step.
  Mapping: `open` is `election.phase = "Voting"`, `ledger` is the log without
  hashes, `spent` is `is_used`. Holds for any number of elections and
  administrators, because a submission commits under the election row's lock.
  `ElectionApi` uses its action as the server's side of a submission, which ties
  the two models together.
* `ElectionLifecycle`: the methods of `ElectionState`. The server does not call
  the transition methods, it rewrites the row; run `lifecycle` and theorem
  `ServerImplementsLifecycle` show that for one election and an administrator
  who waits for each answer these rewrites are the same transitions. With two
  administrative requests in flight they are not (`stale_open`). The time is an
  argument of `open_voting`, which the row does not record, so the refinement
  says nothing of the deadline: `TimeLimitsHold` does.

## 5. Proofs

| Theorem | Module | States |
|---|---|---|
| `TypeCorrect` | `ServerProofs` | `Spec => []TypeOK` |
| `LocksProtect` | `BallotProofs` | `Spec => []LockDiscipline` |
| `LogIsChain` | `BallotProofs` | `Spec => []ChainLinked` |
| `NullifiersOnce` | `BallotProofs` | `Spec => []NullifiersUnique` |
| `CredentialsOnce` | `BallotProofs` | `Spec => []CredentialsSpentOnce` |
| `ReceiptsHold` | `BallotProofs` | `Spec => []ReceiptIsRecorded` |
| `ServerImplementsLedger` | `BallotProofs` | `Spec => LedgerImplemented` |
| `TimeLimitsKept` | `BallotProofs` | `Spec => TimeLimitsHold` |
| `RollCommitted` | `LifecycleProofs` | `OneAdministrator`: `Spec => []RollCommitsToIssued` |
| `TallyComplete` | `LifecycleProofs` | `OneAdministrator`: `Spec => []TallyCoversLog` |
| `ServerImplementsLifecycle` | `LifecycleProofs` | `OneAdministrator`: `Spec => LifecycleImplemented` |
| `VotingNeverReopens` | `LifecycleProofs` | `OneAdministrator`: `Spec => NoReopening` |
| `ResultImmutable` | `LifecycleProofs` | `OneAdministrator`: `Spec => CompleteIsImmutable` |
| `FailuresStayBounded` | `LoginProofs` | `Spec => []FailuresBounded` |
| `OneLoginKeepsLimit` | `LoginProofs` | one request at a time: `Spec => []FailuresWithinLimit` |
| `WebTypeCorrect` | `WebAppProofs` | `Spec => []TypeOK` |
| `ReceiptsTellTruth` | `WebAppProofs` | `Spec => []ReceiptMeansRecorded` |
| `SessionsCarried` | `WebAppProofs` | `Spec => []NeverAnonymous` |
| `ButtonsTellWork` | `WebAppProofs` | `Spec => []BusyMeansRunning` |
| `LookupsTellTruth` | `WebAppProofs` | `Spec => []FoundMeansRecorded` |
| `SharesCleared` | `WebAppProofs` | `Spec => []SharesNotKept` |
| `DoubleVotesToldTruly` | `WebAppProofs` | `Spec => DoubleVoteToldTruly` |
| `SecretsForgotten` | `WebAppProofs` | `Spec => SecretsCleared` |
| `SuccessesTellTruth` | `OutcomeProofs` | `OneElection`: `Spec => []SuccessIsTrue` |
| `ResultsShownWhole` | `OutcomeProofs` | `OneElection`: `Spec => []CompleteShownWhole` |
| `RightSharesSuffice` | `OutcomeProofs` | `Spec => SharesSuffice` |
| `SearchIsExact` | `DiscreteLogProofs` | `SolveDiscreteLog` gives the target if it is within the bound, and nothing otherwise |

*Assumptions.* For the server those named in `Database`, `VoterLogin` and
`AdminApi`: absent values differ from present ones, times and limits are numbers,
a ballot names a key and a vote, and `Requests` is finite and not empty
(`RequestsAssumption`: sockets and tasks are limited; the lockout is a bound in
their number). For the application those named in `ElectionApi`, `ElectionHook`,
`VoterPage`, `AdminPage` and `WebApp`: the absent code is no code, votes are 0
and 1, `None` is none of the texts and results it stands beside
(`NoneAssumption`), failures are those of `Outages` and the time-out is one of
them, the form starts with an identifier, what forms and other clients send is
well-formed, and the tab is opened on a server whose row is one its own handlers
could have left (`InitialServersAssumption`). For the search `OrderAssumption`
(the order of BN254's group, a number of 254 bits, is above every bound the form
accepts) and `LinearAssumption`. No number of voters, ballots, handlers,
requests, elections or steps is bounded.

Three results have a condition of their own, which the violations of section 3
show to be needed. `OneAdministrator` is one election and one administrative
request at a time (`stale_open`, `roll_race`, `recreated`). `OneElection` is one
election alone, with any number of administrators at once: when a second
election replaces the row (`recreated`) a page may show "opened" of an election
that is in Setup again. `OneLoginKeepsLimit` has one request at a time
(`lockout`).

*Types.* `TypeOK` is not inductive: a commit inserts a row only because the
request at `Commit` has a ballot, and a session's credential can be locked only
because it exists. `TypeInv` adds what the locals hold at each statement
(`Fits`), that a trustee's sum covers rows of the log, and that sessions belong
to credentials. `QuietMove`, `FinishMove` and `FinishType` say once what a
request that moves on or answers leaves unchanged.

*Locks.* `LockDiscipline` is inductive together with `TypeInv`. Its three parts
say that a row is held by a submission that is inside its transaction, and that
what such a submission has checked stays true. The proof sorts the steps by
what they do to rows: requests that hold none (`OutsideStep`, which covers
every other handler), requests that go on holding (`HoldingStep`), rollbacks
(`RollbackStep`), writes of a free row (`RowWrite`), and the commit.

*Ballots.* `LogStep` says that the log and the used credentials change by a
commit only, and `CommitAppends` what the commit appends, from
`LockDiscipline`: an entry behind the current head, with a nullifier that is
not in the log and a credential that is not used, while voting is open. The
four invariants and each step of the refinement follow from these two.

*Time limits.* `HeldInTime`: who holds the election row took it once the election
had begun. It is inductive because the row is written only while it is free and
the clock does not go back (`ClockAndRow`). That nothing is taken late is the
checks of the two statements that lock (`LocksTaken`), which read the clock after
the wait; that nothing else is recorded is `LockDiscipline`, by which a commit
holds its rows.

*Lifecycle.* `OneAdministrator` is the assumption the three violations
`stale_open`, `roll_race` and `recreated` ask for: one administrative request at
a time and one election. `LifeInv` adds to `RollCommitsToIssued` why the
handlers' stale reads are harmless then. `AdminAlone`: who administers is alone,
the election is still in Setup, and the roll read by `open_voting` is still the
roll. `FinalizeLate`: a proof under verification finds the voting closed, so the
log it covers is at rest and a second verified proof changes nothing.
`LogChecked`: there is no ballot before the election and each ballot was checked
against its key. That at most one request is in flight comes from counting
(`StartsAlone`), that a tally is at most the number of ballots from counting
marks (`TallyBounded`); voters' requests, drops, restarts and the clock are one
lemma (`QuietLife`), commits need `LockDiscipline`.

*The web application.* `WebInv` is inductive. Its parts are what the server
(`ServerInv`), the hook (`PageInv`), the module memory (`MemoryInv`), each task
(`TasksInv`), each late request (`LateInv`) and the mounted view (`ViewInv`)
hold, and that a mounted view has one handler at most, of its own kind, exactly
while its buttons are off (`AttachedInv`). Two facts carry the proof. The log only grows
(`Grows`), so what an answer, a task or a view says of it stays true however late
it is shown (`TaskStays`). And a task that is attached belongs to the view that
is mounted, so it never writes into a later one. The action properties are about
the step in which a submission ends: `WhileCasting` lists everything that can
happen while one is under way, and `FormEmpty` says that the form stays empty
from the acceptance of the ballot to its receipt.

*The lockout.* `FailuresBounded` alone is not inductive: a login that has passed
the check will record its failure whatever the count is by then. `LoginInv`
counts both: the failures of the window and the logins between their check and
their record (`MayFail`) are together less than the limit and the number of
requests. A login that passes the check starts below the limit, one that records
its failure moves from one count to the other, the clock only lets failures leave
the window (`WindowShrinks`), and nothing else touches either (`OthersHarmless`).
The failures are counted as a finite set of rows, so the proof is about
cardinalities and needs no induction.

*Finality.* `VotingNeverReopens` and `ResultImmutable` follow from the refinement:
with one administrator each change of the row is a transition of
`ElectionState`, and none leaves Tallying for Voting or Complete at all. The same
two properties are what `stale_open` and `recreated` violate without the
condition.

*What operators are told.* `OutcomeInv`, beside `WebInv`. `RowInv`: there is an
election once one was created, and it has the tally of the whole log exactly
when it is complete. The rest relates what is on its way to what has been done:
a row or a count under a refresh (`ReadsTrue`), an accepted administrative
change (`AdminTrue`), the details stored (`DetailsTrue`) and the status an
administrator is told (`StatusTrue`). All of them are monotone in what has been
done, the outcome and the number of ballots. `Forward` says that
the server only moves these forward and a final outcome fixes the number of
ballots, `TruthStays` that what was true then stays true. So the proof has one
lemma per kind of step of the server (`Advances`) and one per kind of step of the
page. That the ballots are counted after the row is read is what makes
`CompleteShownWhole` true, and its mutant reads them first.

*The tally.* `SearchIsExact` has two halves. `HitsAreRight`: an entry that fits
is the target, because numbers below the order are one point only if they are
equal. `HitsAreThere`: below the square of the step every number is some giant
steps and less than a table of baby steps (`StepsCover`), and what `Roots` asks
of the square root makes that square exceed the bound. `SomeRoot` says that such
a root exists. In `RightSharesSuffice` a decryption leaves its first await by the
search, or the page is loaded anew (`DecryptionMoves`), and the search cannot
fail (`TallyFound`), so the number it shows is the right one. The theorem ends
there: nothing is submitted.

*Model-checked only.* `RequestsAnswered` and `HandlersEnd`: liveness under
fairness and `ENABLED` are out of the prover's reach. Every other property of a
passing run is stated by a theorem.

## 6. Where the code and its documents differ

1. `stale_open`: `open_voting`'s `UPDATE` (handlers.rs:332) does not repeat the
   check of the phase, so a delayed request reopens a closed election, which
   `election_core` rules out (lib.rs:408).
2. `roll_race`: credentials inserted (handlers.rs:258) while voting is being
   opened are valid and not in the published commitment (ADR, 3.1).
3. `recreated`: `create_election` (handlers.rs:179) replaces a completed
   election, whose result is "immutable" (election_core lib.rs:29).
4. `anonymous`: a token that names no session is treated as none
   (handlers.rs:530), and the ballot is recorded without a credential (ADR, 3.1).
5. `lockout`: "max 5 failed attempts" (handlers.rs:390) is counted and recorded
   in separate statements; the bound that holds is `FailuresBounded`.
6. `second_voter`: "Each registered voter may only cast one ballot per election"
   (errors.ts:94), but `castBallot` reuses whatever session token is in memory
   (useElection.ts:372) and the nullifier covers an election identifier the
   voter types: a voter who finds another voter's session in the tab votes
   again under another identifier.
7. `lost_proof`: the browser "submits only the proof and count to the server"
   (content/copy.ts:297), but the proof holds a `BigInt` (TrusteeView.tsx:125)
   and `JSON.stringify` throws on it (useElection.ts:424): the trustees see the
   tally and an error, and no request is sent. Only the command line can finalize
   an election. The tests that expect the success use the bypass of
   `submitDecryptionProof` (useElection.ts:409-415), which sends nothing.

Two observations of no run of their own. `SERVER_ERROR_MAP` of `errorMapper.ts`
lists the server's errors, but of its keys only that of `open_voting` occurs in a
text the server sends to this application. And a refused credential code is
told to the voter as "Only the configured Election Administrator", because its
answer too contains `UNAUTHORIZED` (`Message` in `FormRules`).

## 7. Not modelled

`PROJECT.json` lists every component with its reason.

* `voting_crypto` apart from the search, and its WebAssembly bindings: group
  arithmetic, hashing and encodings are assumed ideal. Interpolation of shares is
  recursion over a field of 254 bits, which TLC cannot enumerate and the provers
  cannot induct over; `RightShares` states its effect.
* The CLI, apart from its request to finalize, and the offline verifier:
  sequential clients, and a pure function of three downloads. The verifier's
  reads of a moving log are listed as hazards.
* Chain head, roll and `healthz` of the read-only endpoints: nothing modelled
  reads them.
* Static views, the walkthrough, the deadline banner, formatting, themes and the
  generated client: no effect on the election.
* The connection pool adds waiting but no cycle, because no transaction asks for
  a second connection. The comparison of the administrator's token, body limits
  and titles are left out.
* The archived canister is not part of the workspace.
