---------------------------- MODULE ClaimJournal ----------------------------
(***************************************************************************)
(* The durable claim journal of state_store.py: claim_operations with the  *)
(* rows that its transactions change together with an operation            *)
(* (claim_events, extra_claim_grants, contact_owner_jobs, greeting_outbox).*)
(* Each action is one BEGIN IMMEDIATE transaction.  The module lets any    *)
(* caller run any transaction at any time, in any order, as processes that *)
(* share one database and crash between transactions can; ClaimProtocol    *)
(* adds the callers of app.py.                                             *)
(***************************************************************************)
EXTENDS Integers, FiniteSets

CONSTANTS Deals,        \* Bitrix deals
          Versions,     \* deal_version() values a selection can carry
          Managers,     \* employees
          GrantIds,     \* extra-claim grants of each employee
          MaxAttempts,  \* bound: claim markers drawn for one operation
          None

ASSUME JournalAssumption ==
  /\ MaxAttempts \in Nat
  /\ None \notin Managers \cup (Managers \X GrantIds) \cup (Deals \X Versions)

\* claim_operation_key: one operation for a deal in one version
Ops == Deals \X Versions
DealOf(o) == o[1]

\* a claim marker names its operation, its employee and a nonce; the nonce
\* alone tells the markers of one operation apart
Nonces == 1..MaxAttempts
Attempts == Ops \X Nonces
Grants == Managers \X GrantIds

VARIABLES
  op,       \* claim_operations: operation key -> row
  drawn,    \* nonces drawn so far for an operation's markers
  events,   \* claim_events written by finalize
  grants,   \* extra_claim_grants: grant -> status and reserved_operation_key
  contact,  \* contact_owner_jobs: attempt -> status
  greeting  \* operations with a greeting_outbox row

journalVars == <<op, drawn, events, grants, contact, greeting>>

(* A result is what fail_claim_operation keeps of what its caller knows:   *)
(*   "safe"       the CRM write did not happen                             *)
(*   "inspect"    it did not happen, but the deal needs an administrator   *)
(*   "uncertain"  it happened or may have happened                         *)
Results == {"safe", "inspect", "uncertain"}

NoRow == [status |-> "none", manager |-> None, nonce |-> 0, result |-> "none",
          grant |-> None, greet |-> FALSE]

WrittenRows == [status : {"pending", "failed", "succeeded"}, manager : Managers, nonce : Nonces,
                result : Results \cup {"none"}, grant : Grants \cup {None}, greet : BOOLEAN]

Rows == {NoRow} \cup WrittenRows

Events == [op : Ops, manager : Managers, nonce : Nonces, recovered : BOOLEAN,
           grant : Grants \cup {None}]

TypeOK ==
  /\ op \in [Ops -> Rows]
  /\ drawn \in [Ops -> 0..MaxAttempts]
  /\ events \subseteq Events
  /\ grants \in [Grants -> [status : {"absent", "approved", "reserved", "consumed", "expired"},
                            op : Ops \cup {None}]]
  /\ contact \in [Attempts -> {"none", "reserved", "pending", "cancelled"}]
  /\ greeting \subseteq Ops

JournalInit ==
  /\ op = [o \in Ops |-> NoRow]
  /\ drawn = [o \in Ops |-> 0]
  /\ events = {}
  /\ grants = [g \in Grants |-> [status |-> "absent", op |-> None]]
  /\ contact = [a \in Attempts |-> "none"]
  /\ greeting = {}
-----------------------------------------------------------------------------
(* What a transaction checks.                                              *)

\* _claim_operation_is_unresolved: pending, or failed with evidence that asks
\* for reconciliation
Unresolved(o) == \/ op[o].status = "pending"
                 \/ op[o].status = "failed" /\ op[o].result \in {"inspect", "uncertain"}

OtherOps(o) == {p \in Ops : DealOf(p) = DealOf(o)} \ {o}

\* mutant: only this version's own journal row counts
OwnVersionClaimed(o) == op[o].status = "succeeded"

\* _deal_was_claimed, except for the operation itself
DealWasClaimed(o) == \E p \in OtherOps(o) : \/ op[p].status = "succeeded"
                                            \/ \E e \in events : e.op = p

\* mutant: the lease of another lifecycle is not looked at
ClaimedOnly(o, confirmedRecovery) == confirmedRecovery \/ ~DealWasClaimed(o)

\* _assert_deal_available_for_claim
Available(o, confirmedRecovery) ==
  /\ confirmedRecovery \/ ~DealWasClaimed(o)
  /\ \A p \in OtherOps(o) : ~Unresolved(p)

\* fail_claim_operation: the evidence that keeps a grant with its operation
HoldsGrant(r) == r = "uncertain"

HeldBy(o) == {g \in Grants : grants[g] = [status |-> "reserved", op |-> o]}

\* _reserve_extra_claim_grant: the grant already reserved for this operation,
\* else an approved one of the same employee (import and expiry run first)
Reservable(o, m) ==
  LET mine == {g \in HeldBy(o) : g[1] = m}
  IN IF mine # {} THEN mine ELSE {g \in Grants : g[1] = m /\ grants[g].status = "approved"}

\* The grant an attempt gets: None when it needs none
GrantChoices(o, m, needGrant) == IF needGrant THEN Reservable(o, m) ELSE {None}

ReserveGrant(o, g) ==
  grants' = IF g = None THEN grants
            ELSE [grants EXCEPT ![g] = [status |-> "reserved", op |-> o]]
-----------------------------------------------------------------------------
(* The transactions.                                                       *)

\* A new attempt: a fresh marker, its contact job if the deal has a contact
Draw(o, hasContact) ==
  /\ drawn[o] < MaxAttempts
  /\ drawn' = [drawn EXCEPT ![o] = @ + 1]
  /\ contact' = [contact EXCEPT ![<<o, drawn[o] + 1>>] =
                   IF hasContact THEN "reserved" ELSE "none"]

\* the row of an attempt that begins or goes on
Pending(o, m, n, g, greet) ==
  op' = [op EXCEPT ![o] = [status |-> "pending", manager |-> m, nonce |-> n,
                           result |-> "none", grant |-> g, greet |-> greet]]

\* begin_claim_operation without a row for the key
Begin(o, m, needGrant, hasContact, greet) ==
  /\ op[o].status = "none"
  /\ Available(o, FALSE)
  /\ Draw(o, hasContact)
  /\ \E g \in GrantChoices(o, m, needGrant) :
       ReserveGrant(o, g) /\ Pending(o, m, drawn[o] + 1, g, greet)
  /\ UNCHANGED <<events, greeting>>

\* retry_failed_claim_operation with a new request: a new attempt of the same
\* employee; a grant the operation still holds stays with it
Retry(o, m, needGrant, hasContact, greet) ==
  /\ op[o].status = "failed" /\ op[o].manager = m
  /\ Available(o, FALSE)
  /\ Draw(o, hasContact)
  /\ \E g \in GrantChoices(o, m, needGrant) :
       /\ ReserveGrant(o, g)
       /\ Pending(o, m, drawn[o] + 1, IF g = None THEN op[o].grant ELSE g, greet)
  /\ UNCHANGED <<events, greeting>>

\* retry_failed_claim_operation for the same attempt: exact recovery of a
\* confirmed marker, or (no request) the sweep's and the ambiguous-marker step
RetrySame(o, m, confirmedRecovery, greet) ==
  /\ op[o].status = "failed" /\ op[o].manager = m
  /\ Available(o, confirmedRecovery)
  /\ Pending(o, m, op[o].nonce, op[o].grant, greet)
  /\ UNCHANGED <<drawn, events, grants, contact, greeting>>

\* mutant: a held grant does not stop the change of employee
NeverHeld(o) == FALSE

\* the held-grant check of reassign_failed_claim_operation
GrantHeld(o) == op[o].grant # None /\ op[o].grant \in HeldBy(o)

\* reassign_failed_claim_operation: the key passes to another employee
Reassign(o, m, needGrant, hasContact, greet) ==
  /\ op[o].status = "failed"
  /\ Available(o, FALSE)
  /\ ~GrantHeld(o)
  /\ Draw(o, hasContact)
  /\ \E g \in GrantChoices(o, m, needGrant) :
       ReserveGrant(o, g) /\ Pending(o, m, drawn[o] + 1, g, greet)
  /\ UNCHANGED <<events, greeting>>

\* mutant: a finalize of an older attempt is accepted
AnyAttempt(o, n) == n \in 1..drawn[o]

\* the expected_claim_marker check
CurrentAttempt(o, n) == op[o].nonce = n

\* mutant: every contact job of the operation is activated
ActivateAll(o, n) ==
  [a \in Attempts |-> IF a[1] = o /\ contact[a] = "reserved" THEN "pending" ELSE contact[a]]

\* contact_owner_sync.activate: only the job of the confirmed marker
Activate(o, n) ==
  [contact EXCEPT ![<<o, n>>] = IF @ = "reserved" THEN "pending" ELSE @]

\* finalize_claim_operation of a pending operation: the claim event (with its
\* export), the grant, the row, the contact job and the greeting together
Finalize(o, n, m, recovered) ==
  /\ op[o].status = "pending"
  /\ CurrentAttempt(o, n) /\ op[o].manager = m
  /\ Available(o, recovered)
  /\ op[o].grant # None => op[o].grant \in HeldBy(o)
  /\ \A e \in events : e.op # o                        \* UNIQUE(operation_key)
  /\ events' = events \cup {[op |-> o, manager |-> m, nonce |-> n,
                             recovered |-> recovered, grant |-> op[o].grant]}
  /\ grants' = [g \in Grants |-> IF g = op[o].grant THEN [grants[g] EXCEPT !.status = "consumed"]
                                                    ELSE grants[g]]
  /\ op' = [op EXCEPT ![o].status = "succeeded"]
  /\ contact' = Activate(o, n)
  /\ greeting' = IF op[o].greet THEN greeting \cup {o} ELSE greeting
  /\ UNCHANGED drawn

\* mutant: a failure is written over any row that is there
ExistingRow(o) == op[o].status # "none"

\* fail_claim_operation transitions only a pending row
Failable(o) == op[o].status = "pending"

\* fail_claim_operation: without uncertainty the grant goes back to approved
\* and the unapplied contact job is cancelled
Fail(o, r) ==
  /\ Failable(o)
  /\ op' = [op EXCEPT ![o].status = "failed", ![o].result = r,
                      ![o].grant = IF HoldsGrant(r) THEN @ ELSE None]
  /\ grants' = IF HoldsGrant(r) THEN grants
               ELSE [g \in Grants |-> IF g = op[o].grant /\ g \in HeldBy(o)
                                      THEN [status |-> "approved", op |-> None] ELSE grants[g]]
  /\ contact' = IF HoldsGrant(r) THEN contact
                ELSE [contact EXCEPT ![<<o, op[o].nonce>>] =
                        IF @ = "reserved" THEN "cancelled" ELSE @]
  /\ UNCHANGED <<drawn, events, greeting>>

\* import_extra_claim_state lists the grant as approved: reserved and consumed
\* rows keep their state
ApproveGrant(g) ==
  /\ grants[g].status \in {"absent", "expired"}
  /\ grants' = [grants EXCEPT ![g] = [status |-> "approved", op |-> None]]
  /\ UNCHANGED <<op, drawn, events, contact, greeting>>

\* the import omits an approved grant, or its expires_at has passed
ExpireGrant(g) ==
  /\ grants[g].status = "approved"
  /\ grants' = [grants EXCEPT ![g].status = "expired"]
  /\ UNCHANGED <<op, drawn, events, contact, greeting>>
-----------------------------------------------------------------------------
Attempt(o, m, needGrant, hasContact, greet) ==
  \/ Begin(o, m, needGrant, hasContact, greet)
  \/ Retry(o, m, needGrant, hasContact, greet)
  \/ Reassign(o, m, needGrant, hasContact, greet)

JournalNext ==
  \/ \E o \in Ops, m \in Managers :
       \/ \E needGrant, hasContact, greet \in BOOLEAN : Attempt(o, m, needGrant, hasContact, greet)
       \/ \E confirmed, greet \in BOOLEAN : RetrySame(o, m, confirmed, greet)
       \/ \E n \in Nonces, recovered \in BOOLEAN : Finalize(o, n, m, recovered)
  \/ \E o \in Ops, r \in Results : Fail(o, r)
  \/ \E g \in Grants : ApproveGrant(g) \/ ExpireGrant(g)

Spec == JournalInit /\ [][JournalNext]_journalVars
-----------------------------------------------------------------------------
\* "Different processes with one SQLite database cannot reserve different
\* versions of one deal" (README): a deal has one open lifecycle.
OneOpenLifecycle ==
  \A o, p \in Ops : DealOf(o) = DealOf(p) /\ Unresolved(o) /\ Unresolved(p) => o = p

\* A deal that was allocated is not allocated again: of the claim events of a
\* deal at most one is an ordinary one, the others recover a proved CRM write.
OneAllocation ==
  \A e, f \in events : DealOf(e.op) = DealOf(f.op) /\ ~e.recovered /\ ~f.recovered => e = f

\* The audit and the operation agree: an operation succeeded exactly when it
\* has a claim event, that event is the only one and names the row's attempt.
AuditExact ==
  /\ \A e, f \in events : e.op = f.op => e = f
  /\ \A o \in Ops : op[o].status = "succeeded" <=> \E e \in events : e.op = o
  /\ \A e \in events : /\ op[e.op].manager = e.manager
                       /\ op[e.op].nonce = e.nonce
                       /\ op[e.op].grant = e.grant

\* The grant ledger: a grant is reserved exactly for the open operation that
\* holds it and consumed exactly for the succeeded one, of its own employee,
\* so no grant pays for two claims and none is stuck without a holder.
GrantLedger ==
  \A g \in Grants, o \in Ops :
    /\ op[o].grant = g => g[1] = op[o].manager
    /\ grants[g] = [status |-> "reserved", op |-> o] <=>
         op[o].grant = g /\ op[o].status \in {"pending", "failed"}
    /\ grants[g] = [status |-> "consumed", op |-> o] <=>
         op[o].grant = g /\ op[o].status = "succeeded"

\* The follow-up work belongs to the confirmed attempt: a contact job runs only
\* for the marker of a succeeded claim and never stays behind reserved there;
\* a greeting exists only for a succeeded claim.
FollowUpsConfirmed ==
  /\ \A o \in Ops, n \in Nonces :
       contact[<<o, n>>] = "pending" => op[o].status = "succeeded" /\ op[o].nonce = n
  /\ \A o \in Ops : op[o].status = "succeeded" => contact[<<o, op[o].nonce>>] # "reserved"
  /\ \A o \in greeting : op[o].status = "succeeded"

\* "Terminal operations are immutable": no transaction changes a succeeded row,
\* a claim event or a consumed grant.
TerminalImmutable ==
  [][/\ \A o \in Ops : op[o].status = "succeeded" => op'[o] = op[o]
     /\ events \subseteq events'
     /\ \A g \in Grants : grants[g].status = "consumed" => grants'[g] = grants[g]]_journalVars
=============================================================================
