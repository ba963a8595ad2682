-------------------------- MODULE ContactOwnerSync --------------------------
(***************************************************************************)
(* contact_owner_sync.py: the jobs that make the employee of a confirmed   *)
(* claim the owner of the deal's primary contact.  The module is about the *)
(* jobs of one contact, which claims of several deals and dialogs accepted *)
(* in Bitrix create.  Workers lease jobs, read Bitrix and send at most one *)
(* crm.contact.update for a job; they may stop between any two steps.      *)
(*                                                                         *)
(* Fences of claim_locks.py are left out: they are local to a process and  *)
(* belong to a deal, so that they do not order the jobs of one contact.    *)
(* A deal is edited at any time, so that a read of it may say anything.    *)
(* The clock is left out: a job may be tried again at once, and a claim or *)
(* an accepted dialog may reserve its job at any time after its snapshot.  *)
(***************************************************************************)
EXTENDS Integers, FiniteSets

CONSTANTS Claims,      \* attempts that reserve a job (operation_key, claim_marker)
          Managers,    \* the employees who claim
          Others,      \* other owners of the contact, Bitrix's 0 among them
          EditedTo,    \* the owners people set by hand
          Workers,     \* threads that call process()
          MaxFaults,   \* bound: crashes, failed reads, leases that end during the work
          None

ASSUME ContactAssumption ==
  /\ Managers \cap Others = {} /\ Others # {}
  /\ EditedTo \subseteq Managers \cup Others
  /\ None \notin Managers \cup Others \cup Workers \cup Claims
  /\ MaxFaults \in Nat
  /\ IsFiniteSet(Claims)

Owners == Managers \cup Others
Generations == 1..Cardinality(Claims)

VARIABLES
  job,      \* contact_owner_jobs by claim
  overdue,  \* jobs whose lease_expires_at has passed
  contact,  \* Bitrix: ASSIGNED_BY_ID of the contact
  inflight, \* claims whose update was sent and may still be applied
  worker,   \* what each worker is doing
  faults,
  sent,     \* how often a job's update was sent
  applied,  \* claims whose update was applied
  byHand,   \* whether a person set the present owner
  missed    \* jobs that read the owner before a person changed it

history == <<sent, applied, byHand, missed>>
vars == <<job, overdue, contact, inflight, worker, faults, sent, applied, byHand, missed>>

Terminal == {"ready", "conflict", "cancelled"}
Statuses == {"none", "snapshot", "reserved", "pending", "checking"} \cup Terminal

\* "before": the jobs that were ready when the snapshot of the contact started
NoJob == [status |-> "none", gen |-> 0, manager |-> None, previous |-> None, before |-> {},
          dispatched |-> FALSE, dispatchOwner |-> None, acknowledged |-> FALSE, lease |-> None]

Jobs == [status : Statuses, gen : Generations \cup {0}, manager : Managers \cup {None},
         previous : Owners \cup {None}, before : SUBSET Claims, dispatched : BOOLEAN,
         dispatchOwner : Owners \cup {None}, acknowledged : BOOLEAN, lease : Workers \cup {None}]

Idle == [pc |-> "idle", claim |-> None, owner |-> None, acknowledged |-> FALSE, status |-> "none"]

PCs == {"idle", "check", "deal", "owner", "again", "dispatch", "send", "ack", "readback", "finish"}

TypeOK ==
  /\ job \in [Claims -> Jobs]
  /\ overdue \subseteq {c \in Claims : job[c].status = "checking"}
  /\ contact \in Owners
  /\ inflight \subseteq Claims
  /\ worker \in [Workers -> [pc : PCs, claim : Claims \cup {None}, owner : Owners \cup {None},
                             acknowledged : BOOLEAN,
                             status : {"none", "pending", "ready", "conflict"}]]
  /\ faults \in 0..MaxFaults
  /\ sent \in [Claims -> Nat]
  /\ applied \subseteq Claims
  /\ byHand \in BOOLEAN
  /\ missed \subseteq Claims

Init ==
  /\ job = [c \in Claims |-> NoJob]
  /\ overdue = {}
  /\ contact \in Others
  /\ inflight = {}
  /\ worker = [w \in Workers |-> Idle]
  /\ faults = 0
  /\ sent = [c \in Claims |-> 0]
  /\ applied = {}
  /\ byHand = FALSE
  /\ missed = {}

Rows == {c \in Claims : job[c].gen # 0}
Confirmed(c) == job[c].status \in {"pending", "checking", "ready", "conflict"}
Newer(c) == {d \in Rows : job[d].gen > job[c].gen /\ job[d].status # "cancelled"}

SetStatus(c, status) == job' = [job EXCEPT ![c].status = status]
Bitrix == <<contact, inflight>>
Fault == faults < MaxFaults /\ faults' = faults + 1
-----------------------------------------------------------------------------
(* The claims: a snapshot of the contact's owner, the reservation of the   *)
(* job with the attempt, and the outcome of the attempt.                   *)

Snapshot(c, m) ==
  /\ job[c].status = "none"
  /\ job' = [job EXCEPT ![c] = [NoJob EXCEPT !.status = "snapshot", !.manager = m,
                                             !.previous = contact,
                                             !.before = {d \in Claims : job[d].status = "ready"}]]
  /\ UNCHANGED <<overdue, Bitrix, worker, faults, history>>

\* reserve, reserve_native: the next generation
Reserve(c) ==
  /\ job[c].status = "snapshot"
  /\ job' = [job EXCEPT ![c].status = "reserved", ![c].gen = Cardinality(Rows) + 1]
  /\ UNCHANGED <<overdue, Bitrix, worker, faults, history>>

\* activate, confirm_native: pending; cancel_unapplied, cancel_native:
\* cancelled; conflict_native: conflict
Settle(c, status) ==
  /\ job[c].status = "reserved"
  /\ SetStatus(c, status)
  /\ UNCHANGED <<overdue, Bitrix, worker, faults, history>>
-----------------------------------------------------------------------------
(* process: lease a job, check it, prove the deal and the contact, send.   *)

\* mutant: a dispatched job in doubt does not keep the others out
CheckingOnly(c, rows) == \E d \in Rows \ {c} : rows[d].status = "checking"

\* mutant: a dispatched job keeps itself out as well
ItselfBusy(c, rows) == \E d \in Rows : \/ d # c /\ rows[d].status = "checking"
                                       \/ rows[d].status = "pending" /\ rows[d].dispatched

\* another job of the contact is worked on, or its update is in doubt
Busy(c, rows) == \E d \in Rows \ {c} : \/ rows[d].status = "checking"
                                       \/ rows[d].status = "pending" /\ rows[d].dispatched

\* the UPDATE that opens lease(): jobs with an expired lease are pending again
Released == [c \in Claims |-> IF c \in overdue
                              THEN [job[c] EXCEPT !.status = "pending", !.lease = None]
                              ELSE job[c]]

Lease(w, c) ==
  /\ worker[w].pc = "idle"
  /\ Released[c].status = "pending" /\ ~Busy(c, Released)
  /\ job' = [Released EXCEPT ![c].status = "checking", ![c].lease = w]
  /\ worker' = [worker EXCEPT ![w] = [Idle EXCEPT
                  !.pc = IF job[c].dispatched THEN "readback" ELSE "check", !.claim = c,
                  !.acknowledged = job[c].acknowledged]]
  /\ overdue' = {}
  /\ UNCHANGED <<Bitrix, faults, history>>

\* lease() by a claim that looks for its own job and may not have it
LeaseNone(w, c) ==
  /\ worker[w].pc = "idle" /\ overdue # {}
  /\ Released[c].status = "pending" => Busy(c, Released)
  /\ job' = Released /\ overdue' = {}
  /\ UNCHANGED <<Bitrix, worker, faults, history>>

Goto(w, pc) == worker' = [worker EXCEPT ![w].pc = pc]
Finish(w, status) == worker' = [worker EXCEPT ![w].pc = "finish", ![w].status = status]

\* mutant: the lease of another worker is taken for the own one
AnyLease(w, c) == job[c].status = "checking"

\* the row is still leased to this worker
Held(w, c) == job[c].status = "checking" /\ job[c].lease = w

\* mutant: newer jobs are not looked for
NoNewer(w, c) == Held(w, c) /\ c \notin overdue

\* current(): "current"
Current(w, c) == Held(w, c) /\ c \notin overdue /\ Newer(c) = {}

Verdict(d) == IF Confirmed(d) THEN "conflict" ELSE "pending"

\* current(): "lost" ends the call; a newer job supersedes this one once it is
\* confirmed and makes it wait before
Refused(w, c) ==
  \/ (~Held(w, c) \/ c \in overdue) /\ worker' = [worker EXCEPT ![w] = Idle]
  \/ /\ Held(w, c) /\ c \notin overdue
     /\ \E d \in Newer(c) :
          /\ \A e \in Newer(c) : job[e].gen <= job[d].gen
          /\ Finish(w, Verdict(d))

Check(w) ==
  LET c == worker[w].claim
  IN /\ worker[w].pc = "check"
     /\ (Current(w, c) /\ Goto(w, "deal")) \/ Refused(w, c)
     /\ UNCHANGED <<job, overdue, Bitrix, faults, history>>

\* read_deal, before and after the contact is read: another owner, contact or
\* marker is a conflict
ReadDeal(w) ==
  /\ \/ worker[w].pc = "deal" /\ Goto(w, "owner")
     \/ worker[w].pc = "again" /\ Goto(w, "dispatch")
     \/ worker[w].pc \in {"deal", "again"} /\ Finish(w, "conflict")
  /\ UNCHANGED <<job, overdue, Bitrix, faults, history>>

\* mutant: whoever owns the contact is replaced
AnyOwner(c, owner) == TRUE

\* expected_owner: the owner of the snapshot, or the result of an older job
\* of this queue that finished after the snapshot started
Expected(c, owner) ==
  \/ owner = job[c].previous
  \/ \E d \in Rows : /\ job[d].gen < job[c].gen /\ job[d].manager = owner
                     /\ job[d].previous = job[c].previous
                     /\ job[d].dispatched /\ job[d].status = "ready"
                     /\ d \notin job[c].before

ReadOwner(w) ==
  LET c == worker[w].claim
  IN /\ worker[w].pc = "owner"
     /\ \/ contact = job[c].manager /\ Finish(w, "ready")
        \/ /\ contact # job[c].manager /\ Expected(c, contact)
           /\ worker' = [worker EXCEPT ![w].pc = "again", ![w].owner = contact]
        \/ contact # job[c].manager /\ ~Expected(c, contact) /\ Finish(w, "conflict")
     /\ missed' = IF Held(w, c) THEN missed \ {c} ELSE missed
     /\ UNCHANGED <<job, overdue, Bitrix, faults, sent, applied, byHand>>

\* the durable dispatch fence, in the transaction that looks for newer jobs
Dispatch(w) ==
  LET c == worker[w].claim
  IN /\ worker[w].pc = "dispatch"
     /\ \/ /\ Current(w, c)
           /\ job' = [job EXCEPT ![c].dispatched = TRUE, ![c].dispatchOwner = worker[w].owner]
           /\ Goto(w, "send")
        \/ Refused(w, c) /\ UNCHANGED job
     /\ UNCHANGED <<overdue, Bitrix, faults, history>>

\* Bitrix applies the update of claim c
Apply(c) ==
  /\ contact' = job[c].manager
  /\ applied' = applied \cup {c}
  /\ byHand' = FALSE

\* crm.contact.update: confirmed, rejected, or without an answer and then
\* applied, lost or still on its way
Send(w) ==
  LET c == worker[w].claim
  IN /\ worker[w].pc = "send"
     /\ sent' = [sent EXCEPT ![c] = @ + 1]
     /\ \/ Apply(c) /\ Goto(w, "ack") /\ UNCHANGED inflight
        \/ Finish(w, "conflict") /\ UNCHANGED <<contact, inflight, applied, byHand>>
        \/ Apply(c) /\ Goto(w, "readback") /\ UNCHANGED inflight
        \/ /\ inflight' = inflight \cup {c} /\ Goto(w, "readback")
           /\ UNCHANGED <<contact, applied, byHand>>
        \/ Goto(w, "readback") /\ UNCHANGED <<contact, inflight, applied, byHand>>
     /\ UNCHANGED <<job, overdue, faults, missed>>

\* acknowledge, or an error of it; the worker knows of the answer either way
Acknowledge(w) ==
  LET c == worker[w].claim
  IN /\ worker[w].pc = "ack"
     /\ worker' = [worker EXCEPT ![w].pc = "readback", ![w].acknowledged = TRUE]
     /\ \/ Held(w, c) /\ job' = [job EXCEPT ![c].acknowledged = TRUE]
        \/ UNCHANGED job
     /\ UNCHANGED <<overdue, Bitrix, faults, history>>

\* mutant: an owner who is not the employee settles every update
AlwaysSettled(w, c) == contact # job[c].dispatchOwner

\* Only an acknowledged update has certainly been replaced by another owner
Replaced(w, c) == worker[w].acknowledged /\ contact # job[c].dispatchOwner

\* the owner is read back after the update, or by a later lease instead of it
ReadBack(w) ==
  LET c == worker[w].claim
  IN /\ worker[w].pc = "readback"
     /\ \/ contact = job[c].manager /\ Finish(w, "ready")
        \/ contact # job[c].manager /\ Replaced(w, c) /\ Finish(w, "conflict")
        \/ contact # job[c].manager /\ ~Replaced(w, c) /\ Finish(w, "pending")
     /\ UNCHANGED <<job, overdue, Bitrix, faults, history>>

\* finish: the outcome is written only under the worker's own lease
Finished(w) ==
  LET c == worker[w].claim
  IN /\ worker[w].pc = "finish"
     /\ job' = IF Held(w, c) THEN [job EXCEPT ![c].status = worker[w].status, ![c].lease = None]
                             ELSE job
     /\ overdue' = IF Held(w, c) THEN overdue \ {c} ELSE overdue
     /\ worker' = [worker EXCEPT ![w] = Idle]
     /\ UNCHANGED <<Bitrix, faults, history>>

\* a read or a transaction fails: the job is pending again
Fail(w) ==
  /\ worker[w].pc \in {"check", "deal", "owner", "again", "dispatch", "readback"}
  /\ Finish(w, "pending")
  /\ Fault
  /\ UNCHANGED <<job, overdue, Bitrix, history>>
-----------------------------------------------------------------------------
(* The surroundings.                                                       *)

\* 120 seconds pass since the lease was taken: its worker is gone, or slower
\* than its requests' time-outs of 8 seconds
Expire(c) ==
  /\ job[c].status = "checking" /\ c \notin overdue
  /\ overdue' = overdue \cup {c}
  /\ IF worker[job[c].lease].claim = c THEN Fault ELSE UNCHANGED faults
  /\ UNCHANGED <<job, Bitrix, worker, history>>

Land(c) ==
  /\ c \in inflight
  /\ inflight' = inflight \ {c}
  /\ Apply(c)
  /\ UNCHANGED <<job, overdue, worker, faults, sent, missed>>

Edit(p) ==
  /\ contact # p
  /\ contact' = p
  /\ byHand' = TRUE
  /\ missed' = missed \cup {c \in Rows : \/ job[c].dispatched
                                         \/ \E w \in Workers : worker[w].claim = c
                                              /\ worker[w].pc \in {"again", "dispatch"}}
  /\ UNCHANGED <<job, overdue, inflight, worker, faults, sent, applied>>

\* a crash after the dispatch fence and before the request loses the update
Crash(w) ==
  /\ worker[w].pc # "idle"
  /\ Fault
  /\ worker' = [worker EXCEPT ![w] = Idle]
  /\ UNCHANGED <<job, overdue, Bitrix, history>>
-----------------------------------------------------------------------------
Work(w) == \/ Check(w) \/ ReadDeal(w) \/ ReadOwner(w) \/ Dispatch(w) \/ Send(w)
           \/ Acknowledge(w) \/ ReadBack(w) \/ Finished(w)

Next ==
  \/ \E c \in Claims, m \in Managers : Snapshot(c, m)
  \/ \E c \in Claims : Reserve(c) \/ Expire(c) \/ Land(c)
  \/ \E c \in Claims, s \in {"pending", "cancelled", "conflict"} : Settle(c, s)
  \/ \E w \in Workers, c \in Claims : Lease(w, c) \/ LeaseNone(w, c)
  \/ \E w \in Workers : Work(w) \/ Fail(w) \/ Crash(w)
  \/ \E p \in EditedTo : Edit(p)

Spec == Init /\ [][Next]_vars

\* The loop comes round, a call goes on until a fault, leases run out, Bitrix
\* applies what it received, and attempts are settled by their own recovery.
FairSpec ==
  /\ Spec
  /\ \A c \in Claims : /\ WF_vars(Expire(c)) /\ WF_vars(Land(c))
                       /\ WF_vars(\E s \in {"pending", "cancelled", "conflict"} : Settle(c, s))
  /\ WF_vars(\E w \in Workers, c \in Claims : Lease(w, c))
  /\ \A w \in Workers : WF_vars(Work(w))
-----------------------------------------------------------------------------
\* "Never blindly retried after dispatch": whatever crashes, leases expire and
\* answers get lost, the update of a job is sent once.
SentOnce == \A c \in Claims : sent[c] <= 1

\* "Contact writes are serialized": while the update of a job may still be sent
\* or applied, that of no other job may be.
Outstanding(c) == \/ c \in inflight
                  \/ \E w \in Workers : worker[w].claim = c /\ worker[w].pc = "send"
Serialized == \A c, d \in Claims : Outstanding(c) /\ Outstanding(d) => c = d

\* "The late recovery of an old claim does not cancel a newer one" (README):
\* updates are applied in the order of their generations.
GenerationOrder ==
  [][\A c \in applied' \ applied, d \in applied : job[d].gen < job[c].gen]_vars

\* "A manual change of the owner after the snapshot stops the automatic write"
\* (README): an update never replaces an owner whom a person chose, unless that
\* happened after the worker's last look, or the person chose the owner of the
\* snapshot again or the employee of an older job.
EditKept ==
  [][\A c \in applied' \ applied :
       byHand => \/ c \in missed
                 \/ contact = job[c].previous
                 \/ \E d \in Rows : job[d].gen < job[c].gen /\ job[d].manager = contact]_vars

\* A confirmed job ends, and the later ones of the contact do not wait for ever,
\* unless an update stays in doubt: one that got lost, or was rejected or replaced
\* by hand before the worker could record it, or undone by hand, is never repeated
\* and never given up.
InDoubt(c) == /\ job[c].dispatched /\ job[c].status \in {"pending", "checking"}
              /\ contact # job[c].manager /\ ~Outstanding(c)
              /\ job[c].acknowledged => contact = job[c].dispatchOwner
JobsEnd == \/ \A c \in Claims : job[c].status = "pending" ~> job[c].status \in Terminal
           \/ <>[](\E d \in Claims : InDoubt(d))
=============================================================================
