---------------------------- MODULE ClaimProtocol ----------------------------
(***************************************************************************)
(* app.py's claim of a deal (preview_claim) and its maintenance sweep      *)
(* (reconcile_stale_claim_operations), over the journal of ClaimJournal    *)
(* and Bitrix24, for one server process that may crash.                    *)
(*                                                                         *)
(* A request or the sweep works under the employee and deal fences that    *)
(* ClaimLocks models; here a fence is held from the step that enters it to *)
(* the end of the call.  A read of Bitrix and the transaction it decides   *)
(* are one step: only Bitrix and the grant import move between them, and   *)
(* neither looks at the row that the transaction writes.                   *)
(* The deals have no contact and no greeting, which ClaimJournal covers,   *)
(* and one business day passes.                                            *)
(***************************************************************************)
EXTENDS ClaimJournal

CONSTANTS Requests,    \* threads that serve POST /api/claim
          Sweeper,     \* the maintenance thread
          Foreign,     \* a claim marker that no operation of this journal drew
          DailyLimit,  \* the daily limit of every employee
          LateWrites,  \* whether an unanswered update may still be on its way
          MaxCrashes   \* bound: crashes of the process

ASSUME ProtocolAssumption ==
  /\ Versions \subseteq Nat /\ 1 \in Versions
  /\ Sweeper \notin Requests
  /\ DailyLimit \in Nat /\ MaxCrashes \in Nat /\ LateWrites \in BOOLEAN
  /\ Foreign # None /\ {Foreign, None} \cap Attempts = {}
  /\ None \notin Ops
  /\ IsFiniteSet(GrantIds)

Threads == Requests \cup {Sweeper}

VARIABLES
  crm,       \* Bitrix: deal -> stage, marker field and version
  applied,   \* attempt -> the employee its update was applied for
  inflight,  \* updates that Bitrix may still apply, <<attempt, employee>>
  stale,     \* pending operations whose updated_at is older than the TTL
  thread,    \* what each thread is doing
  crashes

protocolVars == <<crm, applied, inflight, stale, thread, crashes>>
vars == <<journalVars, protocolVars>>

Stages == {"source", "target", "other"}

\* pc "read": in the fences, local checks passed; "check": lease reserved;
\* "write", "verify": around crm.deal.update; "settle", "release", "blame":
\* a row that recovery reopened is to be finalized, released, marked ambiguous;
\* "listed": the sweep chose a candidate and holds no fence yet
Idle == [pc |-> "idle", op |-> None, manager |-> None, nonce |-> 0, need |-> FALSE, fence |-> {}]

PCs == {"idle", "listed", "read", "check", "write", "verify", "settle", "release", "blame"}

ProtocolTypeOK ==
  /\ crm \in [Deals -> [stage : Stages, version : Versions, marker : Attempts \cup {Foreign, None}]]
  /\ applied \in [Attempts -> Managers \cup {None}]
  /\ inflight \subseteq Attempts \X Managers
  /\ stale \subseteq {o \in Ops : op[o].status = "pending"}
  /\ thread \in [Threads -> [pc : PCs, op : Ops \cup {None}, manager : Managers \cup {None},
                             nonce : 0..MaxAttempts, need : BOOLEAN, fence : SUBSET Managers]]
  /\ crashes \in 0..MaxCrashes

Init ==
  /\ JournalInit
  /\ crm = [d \in Deals |-> [stage |-> "source", version |-> 1, marker |-> None]]
  /\ applied = [a \in Attempts |-> None]
  /\ inflight = {}
  /\ stale = {}
  /\ thread = [t \in Threads |-> Idle]
  /\ crashes = 0
-----------------------------------------------------------------------------
Deal(t) == crm[DealOf(thread[t].op)]

\* claim_attempt_marker of the attempt that the thread works on
Marker(t) == <<thread[t].op, thread[t].nonce>>

\* The fences of employees ms and deal d are free for thread t
Free(t, d, ms) ==
  \A u \in Threads \ {t} :
    thread[u].pc \notin {"idle", "listed"} => DealOf(thread[u].op) # d /\ thread[u].fence \cap ms = {}

\* the live deal is the one the selection was made from
Unchanged(o, live) == live.stage = "source" /\ live.version = o[2]

\* no marker, or one that find_succeeded_claim_operation_by_marker recognizes
KnownMarker(d, marker) ==
  marker = None \/ \E p \in Ops : /\ DealOf(p) = d /\ op[p].status = "succeeded"
                                  /\ marker = <<p, op[p].nonce>>

\* mutant: any marker is taken for the attempt's own
AnyMarker(o, live) == live.marker # None

\* the claim marker of the operation's attempt is in the deal
Confirmed(o, live) == live.marker = <<o, op[o].nonce>>

TakenToday(m) == Cardinality({e \in events : e.manager = m})

\* mutant: the limit is compared after it was passed
LimitPassed(m) == TakenToday(m) > DailyLimit

\* check_manager_access: another claim of the day needs an extra grant
LimitReached(m) == TakenToday(m) >= DailyLimit

\* mutant: an unconfirmed write is taken for a write that did not happen
AssumeUnapplied(o) == Fail(o, "safe")

\* the result of an attempt whose write could not be confirmed
Unconfirmed(o) == Fail(o, "uncertain")

Goto(t, pc) == thread' = [thread EXCEPT ![t].pc = pc]
End(t) == thread' = [thread EXCEPT ![t] = Idle]

\* mutant: updated_at stays as it was
NotFresh(o) == UNCHANGED stale

\* a journal write sets updated_at
Fresh(o) == stale' = stale \ {o}

Stutter == UNCHANGED journalVars /\ UNCHANGED stale
Offline == UNCHANGED <<crm, applied, inflight, crashes>>
-----------------------------------------------------------------------------
(* preview_claim.                                                          *)

\* Enter the fences and pass the local checks.  An attempt that was pending
\* for longer than the TTL is first failed as uncertain.
Start(t, m, o) ==
  LET needGrant == LimitReached(m)
      employees == {m, op[o].manager} \ {None}
  IN /\ thread[t] = Idle
     /\ o[2] <= crm[DealOf(o)].version
     /\ Free(t, DealOf(o), employees)
     /\ \A p \in OtherOps(o) : ~Unresolved(p)
     /\ op[o].status = "none" => ~DealWasClaimed(o)
     /\ op[o].status # "succeeded"
     /\ \A p \in Ops \ {o} : op[p].manager = m => ~Unresolved(p)
     /\ needGrant => Reservable(o, m) # {}
     /\ op[o].status = "pending" => o \in stale
     /\ \/ Stutter
        \/ Unconfirmed(o) /\ Fresh(o)
     /\ thread' = [thread EXCEPT ![t] = [pc |-> "read", op |-> o, manager |-> m, nonce |-> 0,
                                         need |-> needGrant, fence |-> employees]]
     /\ Offline

\* The call ends without a journal write: a refusal, an error of Bitrix that
\* nothing catches, or a journal error that is swallowed.
GiveUp(t) ==
  /\ thread[t].pc \in {"read", "check", "verify", "settle", "release", "blame"}
  /\ End(t)
  /\ Stutter /\ Offline

\* The deal carries the marker of the failed attempt: reopen it to finalize.
Recover(t) ==
  LET o == thread[t].op
  IN /\ thread[t].pc = "read"
     /\ op[o].status = "failed"
     /\ Deal(t).stage = "source" => Unchanged(o, Deal(t))
     /\ Confirmed(o, Deal(t))
     /\ RetrySame(o, op[o].manager, TRUE, FALSE) /\ Fresh(o)
     /\ thread' = [thread EXCEPT ![t].pc = "settle", ![t].nonce = op[o].nonce]
     /\ Offline

\* A source deal with another marker: the failed row becomes unresolved.
Ambiguous(t) ==
  LET o == thread[t].op
  IN /\ thread[t].pc = "read"
     /\ op[o].status = "failed"
     /\ Unchanged(o, Deal(t))
     /\ Deal(t).marker # None /\ ~Confirmed(o, Deal(t))
     /\ RetrySame(o, op[o].manager, FALSE, FALSE) /\ Fresh(o)
     /\ Goto(t, "blame")
     /\ Offline

\* Reserve the lease of a new attempt.
Reserve(t) ==
  LET o == thread[t].op
      m == thread[t].manager
      need == thread[t].need
  IN /\ thread[t].pc = "read"
     /\ Unchanged(o, Deal(t))
     /\ IF op[o].status = "failed" THEN Deal(t).marker = None
                                   ELSE KnownMarker(DealOf(o), Deal(t).marker)
     /\ ~DealWasClaimed(o)
     /\ \/ Begin(o, m, need, FALSE, FALSE)
        \/ Retry(o, m, need, FALSE, FALSE)
        \/ op[o].manager # m /\ Reassign(o, m, need, FALSE, FALSE)
     /\ Fresh(o)
     /\ thread' = [thread EXCEPT ![t].pc = "check", ![t].nonce = drawn'[o]]
     /\ Offline

\* The second look, after the lease: write, or fail the attempt as unapplied.
\* The chat check may refuse whatever the deal looks like.
Check(t) ==
  LET o == thread[t].op
      live == Deal(t)
      known == KnownMarker(DealOf(o), live.marker)
  IN /\ thread[t].pc = "check"
     /\ \/ Unchanged(o, live) /\ known /\ Goto(t, "write") /\ Stutter
        \/ Fail(o, "safe") /\ Fresh(o) /\ End(t)
        \/ /\ live.stage = "source" /\ ~known
           /\ Fail(o, "inspect") /\ Fresh(o) /\ End(t)
     /\ Offline

\* Bitrix applies the update of attempt a: owner, stage and marker at once
Apply(a, m) ==
  LET d == DealOf(a[1])
  IN /\ crm[d].version + 1 \in Versions
     /\ crm' = [crm EXCEPT ![d] = [stage |-> "target", version |-> @.version + 1, marker |-> a]]
     /\ applied' = [applied EXCEPT ![a] = m]

\* crm.deal.update: applied, lost, or without an answer and still on its way.
\* The code goes on to verify whatever the answer was.
Write(t) ==
  /\ thread[t].pc = "write"
  /\ \/ Apply(Marker(t), thread[t].manager) /\ UNCHANGED inflight
     \/ UNCHANGED <<crm, applied, inflight>>
     \/ /\ LateWrites
        /\ inflight' = inflight \cup {<<Marker(t), thread[t].manager>>}
        /\ UNCHANGED <<crm, applied>>
  /\ Goto(t, "verify")
  /\ Stutter /\ UNCHANGED crashes

\* The verifying read and the finalize.  A failed read, another state of the
\* deal or a failed finalize leave the attempt uncertain.
Verify(t) ==
  LET o == thread[t].op
  IN /\ thread[t].pc = "verify"
     /\ \/ /\ Deal(t).stage = "target" /\ Deal(t).marker = Marker(t)
           /\ Finalize(o, thread[t].nonce, thread[t].manager, FALSE)
        \/ Unconfirmed(o)
     /\ Fresh(o) /\ End(t) /\ Offline

\* Finalize a confirmed marker for the employee of the row.
SettleDone(t) ==
  LET o == thread[t].op
  IN /\ thread[t].pc = "settle"
     /\ Finalize(o, thread[t].nonce, op[o].manager, TRUE)
     /\ Fresh(o) /\ End(t) /\ Offline

\* A failed finalize of a request; the sweep's exception ends the sweep.
SettleFailed(t) ==
  /\ thread[t].pc = "settle" /\ t # Sweeper
  /\ Unconfirmed(thread[t].op)
  /\ Fresh(thread[t].op) /\ End(t) /\ Offline

Blame(t) ==
  /\ thread[t].pc = "blame"
  /\ Unconfirmed(thread[t].op)
  /\ Fresh(thread[t].op) /\ End(t) /\ Offline
-----------------------------------------------------------------------------
(* reconcile_stale_claim_operations.                                       *)

\* mutant: failed operations are not looked at
PendingOnly(o) == op[o].status = "pending" /\ o \in stale

\* a stale pending operation, or a failed one that asks for reconciliation
Candidate(o) == Unresolved(o) /\ (op[o].status = "pending" => o \in stale)

\* List a candidate, before any fence is taken
Sweep(o) ==
  /\ thread[Sweeper] = Idle
  /\ Candidate(o)
  /\ thread' = [thread EXCEPT ![Sweeper] = [Idle EXCEPT !.pc = "listed", !.op = o,
                                                        !.manager = op[o].manager]]
  /\ Stutter /\ Offline

\* The sweep waits for the listed employee's and the deal's fences
Entered == /\ thread[Sweeper].pc = "listed"
           /\ Free(Sweeper, DealOf(thread[Sweeper].op), {thread[Sweeper].manager})

\* In the fences the row is read again: it must still be open, his and, when
\* pending, stale.
StillListed ==
  LET o == thread[Sweeper].op
      m == thread[Sweeper].manager
  IN /\ Entered
     /\ op[o].status \in {"pending", "failed"} /\ op[o].manager = m
     /\ op[o].status = "pending" => o \in stale

\* reopen a failed row for the same attempt; a pending one is open already
Reopen(o, confirmedRecovery) ==
  IF op[o].status = "failed"
  THEN RetrySame(o, op[o].manager, confirmedRecovery, FALSE) /\ Fresh(o)
  ELSE Stutter

Proceed(pc) ==
  thread' = [thread EXCEPT ![Sweeper].pc = pc, ![Sweeper].nonce = op[thread[Sweeper].op].nonce,
                           ![Sweeper].fence = {thread[Sweeper].manager}]

\* The row is not the listed one any more, Bitrix cannot be read, or its
\* answer says nothing: the row is left for a later sweep.
SweepSkip == Entered /\ End(Sweeper) /\ Stutter /\ Offline

SweepConfirmed ==
  LET o == thread[Sweeper].op
  IN /\ StillListed
     /\ Confirmed(o, Deal(Sweeper))
     /\ Reopen(o, TRUE) /\ Proceed("settle") /\ Offline

\* mutant: the version of the source deal is not compared
SourceOnly(o, live) == live.stage = "source" /\ live.marker = None

\* "Exact unchanged source state"
Unapplied(o, live) == Unchanged(o, live) /\ live.marker = None

SweepUnapplied ==
  LET o == thread[Sweeper].op
  IN /\ StillListed
     /\ Unapplied(o, Deal(Sweeper))
     /\ Reopen(o, FALSE) /\ Proceed("release") /\ Offline

Release ==
  /\ thread[Sweeper].pc = "release"
  /\ Fail(thread[Sweeper].op, "safe")
  /\ Fresh(thread[Sweeper].op) /\ End(Sweeper) /\ Offline

\* The deal left the source stages with another marker; a failed row stays.
SweepConflict ==
  LET o == thread[Sweeper].op
  IN /\ StillListed
     /\ Deal(Sweeper).stage # "source" /\ ~Confirmed(o, Deal(Sweeper))
     /\ Unconfirmed(o) /\ Fresh(o)
     /\ End(Sweeper) /\ Offline
-----------------------------------------------------------------------------
(* The surroundings.                                                       *)

\* People and Bitrix robots move the deal, clear or replace the marker.  The
\* owner field is left out: the code compares it only where it compares the
\* stage and the marker of its own attempt.
Edit(d, stage, marker) ==
  /\ crm[d].version + 1 \in Versions
  /\ crm' = [crm EXCEPT ![d] = [stage |-> stage, version |-> @.version + 1, marker |-> marker]]
  /\ Stutter /\ UNCHANGED <<applied, inflight, thread, crashes>>

\* deal_version is DATE_MODIFY, in seconds: a marker that is written in the
\* second of the edit before it leaves the version as it was.
EditSameSecond(d) ==
  /\ crm' = [crm EXCEPT ![d].marker = Foreign]
  /\ Stutter /\ UNCHANGED <<applied, inflight, thread, crashes>>

Land(a, m) ==
  /\ <<a, m>> \in inflight
  /\ inflight' = inflight \ {<<a, m>>}
  /\ Apply(a, m)
  /\ Stutter /\ UNCHANGED <<thread, crashes>>

Age(o) ==
  /\ op[o].status = "pending" /\ o \notin stale
  /\ stale' = stale \cup {o}
  /\ UNCHANGED <<journalVars, crm, applied, inflight, thread, crashes>>

Crash ==
  /\ crashes < MaxCrashes
  /\ crashes' = crashes + 1
  /\ thread' = [t \in Threads |-> Idle]
  /\ Stutter /\ UNCHANGED <<crm, applied, inflight>>

Import(g) == (ApproveGrant(g) \/ ExpireGrant(g)) /\ UNCHANGED protocolVars
-----------------------------------------------------------------------------
Step(t) == \/ Recover(t) \/ Ambiguous(t) \/ Reserve(t) \/ Check(t) \/ Write(t) \/ Verify(t)
           \/ SettleDone(t) \/ SettleFailed(t) \/ Blame(t) \/ GiveUp(t)

SweeperStep == SweepConfirmed \/ SweepUnapplied \/ SweepConflict \/ Release

Next ==
  \/ \E t \in Requests, m \in Managers, o \in Ops : Start(t, m, o)
  \/ \E t \in Threads : Step(t)
  \/ \E o \in Ops : Sweep(o) \/ Age(o)
  \/ SweeperStep \/ SweepSkip
  \/ \E d \in Deals, s \in Stages : \E k \in {crm[d].marker, None, Foreign} : Edit(d, s, k)
  \/ \E d \in Deals : EditSameSecond(d)
  \/ \E a \in Attempts, m \in Managers : Land(a, m)
  \/ \E g \in Grants : Import(g)
  \/ Crash

ProtocolSpec == Init /\ [][Next]_vars

\* A request's call ends (each Bitrix and SQLite call has a timeout), time passes
\* and the sweep comes round for ever; the fences, Bitrix and the journal are not
\* refused to it for ever.  Requests and edits need never happen.
FairSpec ==
  /\ ProtocolSpec
  /\ \A t \in Threads : SF_vars(SettleDone(t))
  /\ \A t \in Requests : WF_vars(Step(t))
  /\ WF_vars(\E o \in Ops : Age(o))
  /\ \A o \in Ops : SF_vars(Sweep(o))
  /\ SF_vars(SweeperStep \/ SweepSkip) /\ SF_vars(SweeperStep)
-----------------------------------------------------------------------------
\* A deal is written for a claim at most once: whatever crashes, lost answers
\* and edits happen, no second attempt's update is applied to it.
OneAppliedClaim ==
  \A a, b \in Attempts :
    DealOf(a[1]) = DealOf(b[1]) /\ applied[a] # None /\ applied[b] # None => a = b

\* No claim gets lost: an update that Bitrix applied belongs to the current
\* attempt of its operation and employee, which succeeded or still blocks.
NoLostClaim ==
  \A a \in Attempts : applied[a] # None =>
    LET row == op[a[1]]
    IN /\ row.nonce = a[2] /\ row.manager = applied[a]
       /\ row.status = "succeeded" \/ Unresolved(a[1])

\* Within the quota: the claims applied for an employee never exceed the daily
\* limit and the grants that were reserved or consumed for him.
QuotaRespected ==
  \A m \in Managers :
    Cardinality({a \in Attempts : applied[a] = m})
      <= DailyLimit + Cardinality({g \in Grants : g[1] = m /\ grants[g].status \in
                                                       {"reserved", "consumed"}})

\* "Exact unchanged source state proves this attempt did not apply" (app.py):
\* the update of an attempt that was failed as unapplied is never applied.
ReleasedUnapplied ==
  \A a \in Attempts :
    op[a[1]].status = "failed" /\ op[a[1]].result = "safe" /\ op[a[1]].nonce = a[2]
      => applied[a] = None

\* The employee for whom the claim of deal d was applied, and the one whom the
\* claim event names
AppliedFor(d) ==
  IF \E a \in Attempts : DealOf(a[1]) = d /\ applied[a] # None
  THEN applied[CHOOSE a \in Attempts : DealOf(a[1]) = d /\ applied[a] # None]
  ELSE None

AuditedFor(d) ==
  IF \E e \in events : DealOf(e.op) = d
  THEN (CHOOSE e \in events : DealOf(e.op) = d).manager
  ELSE None

\* The protocol implements DealAllocation: one employee for a deal, for good,
\* within his quota, and the audit names him and nobody else.
Allocation == INSTANCE DealAllocation
                WITH Nobody <- None, Quota <- DailyLimit + Cardinality(GrantIds),
                     owner <- [d \in Deals |-> AppliedFor(d)],
                     audit <- [d \in Deals |-> AuditedFor(d)]
Allocated == Allocation!Spec

\* The attempt was given up as one whose update never happened.
Released(a) == op[a[1]].nonce # a[2] \/ (op[a[1]].status = "failed" /\ op[a[1]].result = "safe")

\* A claim that stands in Bitrix is recorded: the sweep writes the claim event
\* of an applied update unless somebody removes its marker first, or the update
\* came so late that its attempt had been released (never without LateWrites:
\* NoLostClaim).
AppliedRecorded ==
  \A a \in Attempts :
    (applied[a] # None /\ crm[DealOf(a[1])].marker = a)
      ~> (op[a[1]].status = "succeeded" \/ crm[DealOf(a[1])].marker # a \/ Released(a))
=============================================================================
