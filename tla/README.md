# Verification of the deal picker

TLA+ specifications of `src/`: a web application in which employees of a
company take sales deals ("заявки") from Bitrix24 one by one.  The modules
below model the parts of the program that must stay correct across threads,
crashes, lost answers and other writers of the CRM.  TLC checks them on small
instances; TLAPS proves the invariants named under *Proofs* for every value of
the constants.

## Inventory

| Component | State | Operations | What is hard | What makes it correct |
|---|---|---|---|---|
| Claim fences, `claim_locks.py` | registry of reference-counted locks | `hold`, `hold_claim_operation` | lock objects are deleted and re-created; the owner that must be fenced changes while a thread waits | exclusion, exact reference counts, every call ends, the operation's owner is fenced |
| Claim journal, `state_store.py` | `claim_operations`, `claim_events`, `extra_claim_grants`, and rows of `contact_owner_jobs` and `greeting_outbox` | `begin_`, `retry_failed_`, `reassign_failed_`, `finalize_`, `fail_claim_operation`, `import_extra_claim_state` | several processes on one database, any order of calls, attempts of one operation | one open lifecycle and one allocation per deal, exact audit, conserved grants |
| Claim protocol, `app.py` | Bitrix deal (stage, owner, marker, version), the journal, threads | `preview_claim`, `reconcile_stale_claim_operations` | lost answers, crashes between CRM and journal, edits by others, time-outs | a deal is written once, a written claim is recorded, quota |
| Contact owner sync, `contact_owner_sync.py` | `contact_owner_jobs` with leases | `process` | leases that expire, jobs of several generations of one contact, requests in flight | a later decision is never overwritten by an earlier job |
| Native acceptance, `native_acceptance_sync.py` | `native_acceptance_sessions`, `native_acceptance_jobs` | `observe`, `poll`, `process` | a dialog accepted in Bitrix competes with a claim; old acceptances that are seen late; updates in doubt | an acceptance is handled once, overwrites nothing newer, and keeps claims away while its update is in doubt |
| Greeting outbox, `state_store.py`, `app.py` | `greeting_outbox` | lease, check, dispatch, recover | at-most-once sending over a non-idempotent API | no second message, no lost job |
| Integration outbox and extra-claim requests, `state_store.py`, `app.py` | `integration_outbox`, `extra_claim_requests`, `extra_claim_grants` | `create_extra_claim_request`, `import_extra_claim_state`, delivery, dead letter, the last question of a claim | late, repeated and refused deliveries; answers that are older than what the books know | a grant pays for one claim, a terminal state is never undone, everything is told in the end |
| Lost-deal autoclose, `state_store.py`, `app.py` | `lost_deal_close_operations`, baseline and cursor | arm, scan, claim a transition, dispatch, reconcile | a cursor over rows that fail or wait, at-most-once closing, a dialog that changes between the looks | no closing of old deals, none twice, none missed |
| Search runtime, `search_runtime.py`, `app.py` | single-flight cells, worker pool, caches | `SingleFlight.get`, `SharedAnalysisPool`, ordered analysis | waiters and failing leaders, generations of caches | one load per flight, order of results |
| Message origins | origin sessions and messages | reserve session, record history, associate | throttling, ambiguity | a message has one session |
| Rejections and search order | `reject_events` | `record_rejection`, search candidates | rejection and claim race | one outcome per offer |
| Bridge authentication | nonces | `consume_bridge_nonce` | replay | a nonce is used once |
| Chat guard, legacy migration, HTTP/OAuth/UI, entry point | – | – | – | data checks, one-time import, I/O |

Interaction: an HTTP thread runs `preview_claim` under the fences of
`claim_locks.py`; it reads and writes Bitrix through `bitrix_call` and keeps
its lease and its outcome in the journal.  Background threads of the same
process run the reconciliation sweep, the contact and native synchronization,
the greeting worker, the outbox worker and the autoclose loop; all of them
share the SQLite database, and the first three share the fences.

`PROJECT.json` lists the components with their status and every hazard at its
line.

## Modules

`ClaimLocks` models `ClaimLocks.hold` and `hold_claim_operation` at the grain of
single lock operations: one action registers all keys under the registry lock,
one acquires the next lock in order, one releases the last, one drops the
references.  A lock object is named by its key and the thread that created it,
so that the model can tell the registered object from one that was deleted; a
lost reference shows up as two threads in one section.  The bodies are those of
the claim, the sweep, the rejection and the rule endpoint, reduced to what they
read and write under the fences: the owner of an operation and an employee's
rule.

`ClaimJournal` models the transactions of `state_store.py`.  An operation is a
deal in one version (`claim_operation_key`), an attempt an operation and a
nonce (`claim_attempt_marker`).  A result keeps of `result_json` what the code
tells apart: the write did not happen (`safe`), it did not but an administrator
must look (`inspect`), it happened or may have (`uncertain`).  Any caller runs
any transaction at any time: this is what several processes on one database
can do, and what a process can do after a crash.

`ClaimProtocol` extends `ClaimJournal` with the callers.  A thread enters the
fences and passes the local checks (`Start`), reads the deal and recovers,
refuses or reserves (`Recover`, `Ambiguous`, `Reserve`), reads it again
(`Check`), writes (`Write`), verifies and finalizes (`Verify`).  The sweep lists
a candidate without fences (`Sweep`), enters them, looks again and settles,
releases or leaves the row (`SweepConfirmed`, `SweepUnapplied`,
`SweepConflict`, `SweepSkip`).  Bitrix applies, loses or delays an update
(`Apply`, `Land`); people and robots edit deals (`Edit`, `EditSameSecond`); the
process crashes (`Crash`).

What `ClaimProtocol` abstracts from, and why that is sound:

- the fences are held from the step that enters them to the end of the call,
  which is what `ClaimLocks` shows of them;
- a read of Bitrix and the transaction it decides are one step.  Under the
  fences only Bitrix and the import of grants move between the two, and the
  transaction reads neither; a crash between the two is `GiveUp` or `Crash`
  before the step;
- the deal's owner field is left out: the code compares it only together with
  the stage and the marker of its own attempt;
- deals have no contact and no greeting here (`ClaimJournal` has both), one
  business day passes, and the time window in which the limit is lifted
  (`is_limit_bypassed_now`) is closed;
- a selection token carries any version up to the current one; a refused
  request and the replay of a succeeded one change nothing and are left out.

`DealAllocation` is the abstract promise: a deal is given to one employee, once
and for good, within the quota, and the audit names that employee.

`ContactOwnerSync` models the queue that makes the employee of a claim the owner
of the deal's contact, for one contact.  A claim takes a snapshot of the owner
(`Snapshot`), reserves the next generation with its attempt (`Reserve`) and ends
as confirmed or cancelled (`Settle`).  A worker leases a job (`Lease`), looks for
newer ones (`Check`), proves the deal, the contact and the deal again
(`ReadDeal`, `ReadOwner`), sets the dispatch fence (`Dispatch`), sends (`Send`),
reads back (`ReadBack`) and stores the outcome under its lease (`Finished`).
Leases lapse at any time, a worker whose lease has lapsed goes on until it
notices, requests are lost, late or unanswered, and people edit the contact.
The sixty seconds between two tries are any time.  The fences that the loop
takes are left out: they belong to one deal and one process, and the jobs of a
contact come from many.

`GreetingOutbox` models the table of automatic greetings and its two kinds of
workers: the loop of each process, which leases any job (`Lease`), and the
threads that a claim, or its repetition, starts for its own job (`LeaseExact`).
Both check (`Check`, `Save`, then `Target`, `Again` and `LookAtChat` for the loop,
`LookAtChat`, `Answer` and `LookAtChat` for the thread), cross the dispatching
boundary (`Dispatch`), send once (`Send`), and store and log what came back
(`Record`, `Audit`).  An error of a check ends it for good, is tried again, or
waits for the dialog (`FailCheck`); stale sends are closed as uncertain
(`Recover`).  `hindered` is a history variable of the properties: what forbade
the greeting when the job was leased or its text was saved and has not gone away
since.  The clock is left out: delays, leases, the 120-second window and the 300
seconds of a send end at any time.  `start_actor_greeting_delivery` is
preceded by a read that finds the job pending; since that read may be old,
`LeaseExact` looks at the row only.  An error of the database before the boundary
is the failure of the check before it; behind it, it is `Stop`.

`LostDealClose` models the worker that finishes the dialog of a deal which moved
to a lost stage.  A poller arms the boundary once (`Arm`), reads a page of
Bitrix's stage history after its cursor (`Page`), proves each move (`Row`,
`Prove`), leases it (`Claim`), looks at the dialog before and after a second proof
(`First`, `Again`, `LookAgain`), crosses the boundary (`Dispatch`), asks for the
finish (`Finish`, `Answer`), confirms it or leaves it uncertain (`Confirm`,
`Uncertain`, `Recheck`) and moves the cursor over what is settled (`Advance`);
`Reconcile` returns to operations without a result.  src/README.md:721 says that one
replica runs; the table has leases all the same, and the model has two pollers.
The grace period counts as a read that fails, a dry run ends as `dry_run` at any
time, the checks of identity, binding and uniqueness are one flag of the dialog
(`fit`), a snapshot that is read twice and compared is one step, and moves from
one lost stage to another, which never close anything, are left out.

`ChatFinish` is its abstract promise: a move is refused before anything is sent,
or its dialog is asked to be finished at most once, and "closed" is said only of
a session that has ended.

`NativeAcceptance` models the dialogs that employees accept in Bitrix, for one
deal.  The thread looks at the sessions (`Look`), enters the deal's fence
(`Fence`) and arms a session or makes a job of it (`Observe`).  `process` takes a
job (`Take`), proves the session and the deal (`ReadSession`, `ReadDeal`),
reserves the generation of the contact (`Reserve`, `Store`), sets the boundary
(`Dispatch`), sends (`Send`, `Answer`, `Acknowledge`, `Reject`), reads back
(`ReadBack`) and ends (`Confirm`, `Release`, `Finish`).  Claims of the picker run
beside it (`Begin`, `Guard`, `Write`, `Record`, `EndClaim`, `Sweep`); clients and
employees move sessions and edit the deal, updates are lost or late, the process
stops.  Times are kept as the set of what happened after them, since all that the
code asks of a time is whether a claim or an edit is newer.  A claim's write and
its application are one step here (late writes of claims are `ClaimProtocol`'s).
Edits within the second that the code tolerates in `DATE_MODIFY` are left out, and
so are the cursors over the pages of sessions: any session is looked at any time.
A session without an acceptance time in Bitrix is bound by its creation, which is
earlier and hence more cautious.

`ExtraClaims` models claims above the daily limit, for one employee and one
business date: the page asks for one (`Ask`), the loop and the page deliver the
request (`List`, `Receive`), Baza answers (`Create`, `Repeat`, `Conflict`, `Spend`,
`Refuse`), the answer is merged or refused (`Adopt`, `Postpone`, `Exported`,
`Bury`), the page imports Baza's state (`Query`, `Refresh`), and a claim asks once
more before it takes a grant (`ClaimAsk`, `ClaimCheck`, `Reserve`), writes, and is
finalized or released (`Write`, `Hold`, `Finalize`, `Release`).  The update of a claim
is applied at once (`Write`, its answer may be lost: `Hold`) or is on its way
without an answer (`Delay`) and applied later (`Land`).  The sweep decides by one
look at the deal (`Unapplied`): it may give the grant back while an update is
on its way, which then lands for nobody's operation (`LandStray`).  People, and the late
update of an older attempt, change the deal (`Moved`).  An update that lands while
its claim asks again has no action of its own: nothing looks at the deal before the
reservation, after which it is a deal that was changed.  Answers of Baza wait in
`post` and are merged after anything else has happened.  Every claim here needs a
grant; `ClaimProtocol` has the limit and `ClaimJournal` the transactions in any
order and number.  Baza is modelled from what the code relies on: a request is kept under
its key, there is one open request of an employee, an event uses a grant once,
and the same event again is accepted.  A failed delivery leaves the item due:
back-off, the order of a batch and the filters of the export are left open.
`Shapes` says how an answer names its request: by `requestKey`, by id only, or
not at all.

`GreetingDelivery` is the abstract promise: the fate of a greeting is decided
before anything is sent, or the request is made at most once, and one that is
reported as sent has arrived.

## Runs

| Run | Question | Bounds |
|---|---|---|
| `claim_locks` | exclusion, owner fence, rule fence, does every call end? | 2 threads, 2 employees, 1 deal, two calls each |
| `claim_journal` | one lifecycle, one allocation, audit, grants, follow-ups, immutability | 1 deal in 2 versions, 2 employees, 1 grant, 2 attempts |
| `claim_protocol` | one applied claim, no lost claim, `DealAllocation` | 1 deal in 4 versions, 2 employees, a request thread and the sweep, 1 crash |
| `claim_quota` | quota | 2 deals in 2 versions, 1 employee with a grant, 2 request threads |
| `claim_live` | is an applied claim recorded, and only an applied one, when updates may arrive late? | 1 deal in 2 versions, 1 employee, 2 attempts, 1 crash |
| `claim_released` | is an attempt released as unapplied never applied? (refuted) | 1 deal in 3 versions, 1 employee |
| `contact_jobs` | one send per job, serialized, in order, no manual edit overwritten; does a job end or stay in doubt? | 2 jobs, 2 employees, 2 workers, 1 fault |
| `greeting_outbox` | `GreetingDelivery`, log, hindrances, does every greeting end? | 1 greeting, 2 loops, 1 thread, 2 attempts, 3 for the dialog |
| `greeting_late` | does the window hold for every worker? (refuted) | as `greeting_outbox` |
| `lost_deals` | `ChatFinish`, is every finish justified, is no lost deal passed over or left undecided? | 1 deal, 2 moves, 2 pollers, 2 attempts, 1 edit, 1 fault |
| `native_acceptance` | one job per acceptance, nothing newer overwritten, fenced while in doubt, contact jobs settled, does a job end? | 2 sessions, 2 acceptances, 2 employees, 2 other events |
| `extra_claims` | one claim per grant, no unconfirmed grant, is everything told and settled? | 2 requests, 2 claims, 1 fault, answers with and without `requestKey` |

The bounds are the smallest at which each hazard occurs: a thread with two calls
is the holder of a lock and then the newcomer that replaces it while the other
thread waits, and the proofs cover any number of threads; two versions of a deal make two
lifecycles; two attempts make an old and a new marker; four versions leave room
for the selection, an edit away, an edit back and the update; two suffice for
`claim_live`, where an update of a released attempt takes the place of a later
attempt's.  One greeting suffices since workers have one job each; what touches
several jobs at once, the purge and the recovery of stale sends, is proved for any
number.  Two moves of one deal are a loss that
is overtaken by another one and two operations with one dialog.  Two sessions
and two events put a claim, an edit, a crash or a return to the queue between any two
steps of a job.  Two requests and two claims give a late answer about the first
one a second one to disturb; the one fault is a lost answer, a final refusal, a crash, a
late update or an edit of the deal.  `MaxRequests`, `MaxClaims`, `MaxAttempts`,
`MaxCrashes`, `MaxFaults`, `MaxMoves`, `MaxEdits`, `MaxSessions`, `MaxRevisions`,
`MaxAccepts`, `MaxEvents` and `Versions` bound counters that grow in the program.
Deadlock is not checked in the protocol, contact, native and extra-claim runs:
once versions, attempts and claims are used up nothing may be left to do.

The type invariants of `ClaimLocks`, `ClaimJournal`, `ContactOwnerSync` and
`GreetingOutbox`, and the reference counts of the fences, are proved (below) and
not repeated in runs.

Fairness.  `ClaimLocks` assumes that a started call keeps running and nothing
about the order in which `threading.Lock` serves waiters.  `ClaimProtocol`
assumes that a request's call ends (every call of Bitrix and SQLite has a time-out), that
time passes, that the sweep comes round for ever (`claim_reconciliation_loop`),
and that the fences, Bitrix reads and the journal are not refused to it for
ever.  Requests and edits need never happen.  `ContactOwnerSync` assumes that the
loop comes round (`responsibility_sync_loop`), that a call goes on until a fault
stops it, that leases run out, that Bitrix applies what is on its way, and that
each claim is settled (by its own recovery); there are finitely many faults.
`GreetingOutbox` assumes the same of its loop, that a started worker goes on or
stops, and that leases run out.  It may crash without end: each lease costs an
attempt.  `LostDealClose` assumes that each poller goes on unless it stops and that
leases run out.  `NativeAcceptance` assumes that its thread and a claim under way
go on, and (strongly) that `process` is called again and again: every round of
`run` calls it after its finitely many looks.  `ExtraClaims` assumes that the outbox
loop comes round, that claim events are delivered again and again, that a call
of Bitrix ends (it has a time-out), and that the sweep closes what can be closed;
employees, the director and Baza need never do anything, nor Bitrix apply an update
that is on its way.

`JobsEnd` has an escape that the repository documents (src/README.md:135): an
update without effect whose fate was not recorded stays in doubt, is never
repeated and keeps the later jobs of the contact waiting until an administrator
acts.  In the contact run people set owners who do not claim.  If a person sets
exactly the employee of an update in doubt, the queue takes it for done and goes
on, and the late update may overwrite the next one; the repository calls edits
around a running request a limit of the platform.

`claim_released` shows a disagreement between the code and what it says.  The
sweep reads a source deal that is exactly as the selection saw it, fails the
attempt as not applied, and says that this state proves it.  When the update's
answer was lost (a time-out), the update may still be applied later; the claim
then stands in Bitrix with a marker that no open operation answers for, is not
counted in anybody's quota, and blocks the deal as an unknown marker.

For a claim above the limit more follows.  The documentation calls a grant good once
and given back on a proven failure before the write (src/README.md:443-446).  The
release gives it back on the sweep's look (src/state_store.py:4298), it pays for
another deal, and the late update of the first one is applied too.  `ExtraClaims` has
these steps (`Delay`, `Hold`, `Release`, `LandStray`): with the updates counted that
landed after they were given up, `Cardinality(applied) + unpaid` exceeds the grants
that were approved.

`greeting_late` shows another.  The documentation says that an overdue backlog
sends no late greetings, but only the loop looks at the window.  A confirmed
claim that is repeated after the window, while its job is still pending (the
loop is down, or between two tries for the dialog), starts the employee's thread,
which sends it.

### Known gaps

The passing runs leave out six cases that TLC finds otherwise.  They are exceptions
written into the properties or into what they count.

- `NotOverwritten` (`unseen`): `observe` takes the time of a look after the list of
  sessions was read (src/native_acceptance_sync.py:135).  An acceptance and a claim
  in between are dated before the look, and the acceptance then overwrites the
  claim, which is newer.
- `Settled` (`Refused`): a claim that gives its grant back makes the request
  approved again (src/state_store.py:4310).  If the request was rejected locally
  meanwhile and another one is open, the index of open requests refuses the
  transaction; the operation stays pending, and the exception ends the sweep.
- `Settled` (`Taken`): a request whose late 409 bound it to the remote id of
  a newer one makes that one's delivery fail for ever.
- `Authorized` (`shown`): an older answer to the page that is merged between the
  last question of a claim and its reservation can bring a revoked grant back,
  although src/README.md:457-459 says that the CRM is then not changed.
- `PaidOnce` (`applied`) counts the updates that land while their attempt is open.
  One that lands after its attempt was given up, released by the sweep or replaced
  by a retry, is not counted there but in `unpaid`: with it two claims can be written on
  one grant, as said above.
- `Settled` (`moved`): a claim whose deal was changed while it was unresolved, so that
  it is neither the unchanged source nor carries the marker, keeps its grant until
  an administrator acts (src/README.md:92-93).

`claim_protocol` and `claim_quota` run without late writes (`LateWrites`), which refute
their properties; `claim_live` has them.

Two more hold by design: an owner update of `NativeAcceptance` that was lost
keeps the deal fenced until a person decides, and `LossesHandled` gives up a
dialog that Bitrix had dropped from the deal's list before.  A crash between the
release of a contact job and the saved conflict may be followed by "ready" with
a cancelled contact job, which `ContactSettled` allows.

## Proofs

The `...Proofs` modules prove, for every value of the constants, every safety
property of the passing runs and every refinement they check.

*Fences* (`ClaimLocksProofs`).  The invariant strengthens `TypeOK` and `RefCounted` by the
shape of a call: what a thread grips is what it wants while it is inside `hold`, what it
has acquired it holds, and a lock is held only by a thread that grips it.
Exclusion follows: two bodies that share a key grip the same registered object,
and one object has one holder.  `OwnerFenced` needs exclusion (only a thread
that has the deal's lock changes the owner), `DisableFence` too.

*Journal* (`ClaimJournalProofs`).  The invariant combines the listed ones with the facts
they need of each other: a row's nonce is the last one drawn, a grant is named by at most
one row, an event's operation has succeeded.  `OneOpenLifecycle` is preserved
because each transaction that opens a row checks the deal's other rows in the
same transaction.  `TerminalImmutable` follows from the same invariant: a transaction
that touches a row, an event or a grant finds it in a state that is not final.

*Protocol* (`ClaimProtocolProofs`).  Three layers on top of the journal's invariant.
`TInv` says what a thread holds at each place of a call and that two threads inside it
share no employee and no deal.  `PInv` relates Bitrix to the journal: an applied update
raised the version of its deal beyond its operation's, a marker that a deal carries is
that of an applied update, and what a thread learned of its deal stays true up to its
write, release or settlement.  `OneAppliedClaim` and `NoLostClaim` are among its conjuncts.
`QInv` counts: an employee has one attempt at most that was applied or still may be, and
it has a grant or a place left within the daily limit.  `QuotaRespected` and the steps of
`DealAllocation` follow.  The theorems about `OneAppliedClaim`, `NoLostClaim`,
`QuotaRespected` and `Allocated` assume `~LateWrites`: with late updates TLC refutes
them, which is the disagreement that `claim_released` shows.

*Contact jobs* (`ContactOwnerSyncProofs`).  `CInv` says that up to the dispatch fence
the holder of a lease works on a job that was not dispatched, that behind it one worker at
most is about to send, for the first time, and that only confirmed jobs are worked on.  A worker whose
lease has lapsed is harmless because the fence is set in the transaction that
checks the lease.  `SInv` adds the queue: generations are distinct, one job at most is worked on or in
doubt, it is the newest of the dispatched ones, and what a worker read or was answered
decides the rest of its call.  `EditKept` needs
no assumption; `Serialized` and `GenerationOrder` assume that people set owners who do not
claim (`EditedTo \cap Managers = {}`): an edit that sets exactly the employee of an
update in doubt ends the job early, a limit named below *Runs* and among the hazards.

*Greetings* (`GreetingOutboxProofs`).  `GInv` ties the stages of a
job to its worker: a worker that is about to send is named by a dispatching
row, or its row has been closed as uncertain, and nothing was requested yet; two
workers are never behind the boundary for one greeting; a row that was not
dispatched has no request.  Every step is then a step of `GreetingDelivery` or none.
`LogInv` says that an outcome waiting to be
logged is the row's, is waiting with one worker only, and is not in the log yet.  `HInv`,
for `NotHindered`, says that a hindrance that a worker has noted is still there, and
which of them the checks it has passed exclude.

*Lost deals* (`LostDealCloseProofs`).  `TInv` says where each poller is in the history
and that a started operation names a session of its dialog; `NInv` that every row up to
the cursor is decided, and every row that a poll without an error has passed; `HInv` that
a hindrance is one that a check to come will see; `OneRequest` that the finish of a move
is sent by the one poller that crossed the boundary.  `NothingMissed`, `Justified` and the
refinement of `ChatFinish` follow, one abstract step or none for each step.

*Native acceptances* (`NativeAcceptanceProofs`).  What happens in Bitrix is told to
every time the program has stored or holds (`Happens`); the `Aging` lemmas say what this
leaves alone.  On `TInv` rest `JInv` (a session whose waiting was stored gets its job for an
acceptance that was not counted yet), `OInv` (whatever overtook an acceptance is in the
times of the session, the row, the job and the worker, and a deal that was read is
current or has been overtaken), `FInv` (the place of the job in hand, one dispatched job
at most, one request for each) and `CInv` (who settles the contact job).

*Extra claims* (`ExtraClaimsProofs`).  `TInv` adds to the types what an answer on its way
still says truly of Baza: its request exists there, and one that was approved has a grant.
`CInv` says that a grant is one claim's from the reservation on and consumed with it, that
one claim at a time is under way, and that what Baza counts as spent is consumed here by the
same claim.  The lemmas about the merge (`Sound`, `Unused`) carry it: an answer opens no
second request and leaves grants in use alone.  `PaidOnce` counts along the map from grants to
claims.  It is about the updates of open attempts, at once or late, and needs no assumption
about Bitrix because an attempt that was given up is not counted (see *Known gaps*).
`Fresh`, for `Authorized`, says that what a checked claim holds or may take is among the
grants it was shown, until the claim has sent its update.

From assumptions: `ThreadsAssumption`, `KeysAssumption`, `BoundAssumption` of
`ClaimLocks`, `JournalAssumption`, `ProtocolAssumption`, `ContactAssumption`,
`GreetingAssumption`, `LostDealAssumption`, `NativeAssumption` and `ExtraAssumption`.  They say that
sets are disjoint, that bounds are numbers, that the grants and the contact's claims are
finitely many, and that `None` is none of the values it stands beside.

Model-checked only: the liveness properties (fairness and ENABLED are beyond the prover).

## Not modelled

Bitrix, Baza, SQLite and the operating system are the surroundings: an update is
applied, lost, late or unanswered (late updates of claims in `ClaimProtocol` and
`ExtraClaims` only), a transaction is atomic.  Texts, pages, OAuth,
routing, statistics, ranking rules and the one-time migration are data or I/O:
no property here tells their values apart.

- The sweep's batch limit and a claim that straddles midnight are left out of
  `ClaimProtocol`, the limits of a page of the stage history and of a batch of
  unresolved operations out of `LostDealClose` (see the hazards).
- The chat guard appears as its decision (`Guard`); how it classifies dialogs is data.
- `SearchRuntime` (single flights, the analysis pool, caches) decides how fast and in what
  order offers are found; nothing that is written depends on it.  Rejections and
  the search order are lists read from one table under the employee's fence.
  Message origins and bridge nonces are tables of their own that no modelled part
  reads.

## Plan

In this order.

1. `SearchRuntime`: single flights, the shared pool, the ordered analysis and the
   generations of the caches.  Property: no result from before an invalidation
   is kept, waiters end, order of results.
2. The sweep's batches and the change of the business day.
