------------------------- MODULE ClaimProtocolProofs -------------------------
(***************************************************************************)
(* Proofs about ClaimProtocol, for any number of deals, employees, threads *)
(* and attempts.  The inductive invariant has three layers:                *)
(*                                                                         *)
(*   TInv  types, the journal's invariant, and the fences: two threads     *)
(*         inside the fences have different deals and employees, and the   *)
(*         row a thread works on is as the thread left it;                 *)
(*   PInv  what was applied in Bitrix: an applied update raised the        *)
(*         version of its deal, and a marker found in a deal proves that   *)
(*         its update was applied;                                         *)
(*   QInv  the quota: an employee has at most one live attempt, and it was *)
(*         given a grant or a place within the daily limit.                *)
(*                                                                         *)
(* Each layer is preserved by every step with the help of those before it. *)
(* PInv and QInv need ~LateWrites: an update that is applied after its     *)
(* attempt was released breaks them.                                       *)
(***************************************************************************)
EXTENDS ClaimProtocol, ClaimJournalProofs, FiniteSetTheorems

\* A thread inside the fences.
Inside(t) == thread[t].pc \notin {"idle", "listed"}

\* A thread that works on the pending attempt of its row.
Attempting == {"check", "write", "verify", "settle", "release", "blame"}

\* The row is as the thread left it, and both employees that the thread acts
\* for (its own and the row's) are behind its fence.
Works(r) ==
  /\ r.pc # "idle" => r.op \in Ops /\ r.manager \in Managers
  /\ r.pc \in Attempting => op[r.op].status = "pending"
  /\ r.pc \in Attempting \ {"blame"} => op[r.op].nonce = r.nonce
  /\ r.pc \in {"check", "write", "verify"} => op[r.op].manager = r.manager
  /\ r.pc \notin {"idle", "listed"} =>
       /\ r.manager \in r.fence
       /\ op[r.op].status # "none" => op[r.op].manager \in r.fence
       /\ op[r.op].status # "succeeded"

Working == \A t \in Threads : Works(thread[t])

\* The fences of ClaimLocks.
Apart == \A t, u \in Threads : Inside(t) /\ Inside(u) /\ t # u =>
           /\ DealOf(thread[t].op) # DealOf(thread[u].op)
           /\ thread[t].fence \cap thread[u].fence = {}

TInv == JInv /\ ProtocolTypeOK /\ Working /\ Apart

\* No update was applied to the deal.
Unclaimed(d) == \A b \in Attempts : DealOf(b[1]) = d => applied[b] = None

\* An applied update raised the version of the deal beyond its operation's.
Newer == \A a \in Attempts : applied[a] # None => crm[DealOf(a[1])].version > a[1][2]

\* A marker that a deal carries is that of an applied update of this deal.
MarkersTrue == \A d \in Deals : crm[d].marker \in Attempts =>
                 DealOf(crm[d].marker[1]) = d /\ applied[crm[d].marker] # None

\* What the thread learned of the deal stays true: it is about to write an
\* unclaimed deal, release an unapplied attempt or settle an applied one.
Knows(r) ==
  /\ r.pc \notin {"idle", "listed"} => crm[DealOf(r.op)].version >= r.op[2]
  /\ r.pc \in {"check", "write"} => Unclaimed(DealOf(r.op))
  /\ r.pc = "release" => applied[<<r.op, r.nonce>>] = None
  /\ r.pc = "settle" => applied[<<r.op, r.nonce>>] # None

Known == \A t \in Threads : Knows(thread[t])

\* A claim event tells of an update that was applied for its employee.
AuditApplied == \A e \in events : applied[<<e.op, e.nonce>>] = e.manager

PInv == /\ inflight = {} /\ Newer /\ MarkersTrue /\ Known
        /\ OneAppliedClaim /\ NoLostClaim /\ AuditApplied

\* An unresolved operation whose current attempt was applied, or still may be.
Live(o) == /\ Unresolved(o)
           /\ \/ applied[<<o, op[o].nonce>>] # None
              \/ \E t \in Threads : thread[t].op = o /\ thread[t].pc \in {"check", "write"}

OneLive == \A o, p \in Ops : Live(o) /\ Live(p) /\ op[o].manager = op[p].manager => o = p

\* The attempt has a grant, or its employee a claim left within the limit.
Paid(o) == op[o].grant # None \/ TakenToday(op[o].manager) < DailyLimit
LivePaid == \A o \in Ops : Live(o) => Paid(o)

\* The claims of an employee that no grant paid for
FreeClaims(m) == {e \in events : e.manager = m /\ e.grant = None}
WithinLimit == IsFiniteSet(events) /\ \A m \in Managers : Cardinality(FreeClaims(m)) <= DailyLimit

\* What a request checked before it reads the deal is still so.
Checked(r) == r.pc = "read" =>
  /\ ~r.need => TakenToday(r.manager) < DailyLimit
  /\ \A p \in Ops \ {r.op} : op[p].manager = r.manager => ~Live(p)
Checks == \A t \in Threads : Checked(thread[t])

QInv == OneLive /\ LivePaid /\ WithinLimit /\ Checks

-----------------------------------------------------------------------------
(* What the journal's transactions do to the row of their operation.       *)

\* No other row changes.
Elsewhere(o) == \A p \in Ops \ {o} : op'[p] = op[p]

\* A row that exists is completely written.
LEMMA RowWritten ==
  ASSUME JInv, NEW o \in Ops, op[o].status # "none"
  PROVE  op[o] \in WrittenRows /\ op[o].manager \in Managers /\ op[o].nonce \in Nonces
         /\ op[o].manager # None
BY RowShape, JournalAssumption DEF WrittenRows

\* A new attempt without a contact and a greeting
Reserving(o, m, need) == \/ Begin(o, m, need, FALSE, FALSE)
                         \/ Retry(o, m, need, FALSE, FALSE)
                         \/ Reassign(o, m, need, FALSE, FALSE)

\* A new attempt of begin, retry or reassign: a pending row of employee m, with
\* a grant when one is needed.
LEMMA NewAttempt ==
  ASSUME JInv, NEW o \in Ops, NEW m \in Managers, NEW need, Reserving(o, m, need)
  PROVE  /\ Elsewhere(o) /\ events' = events
         /\ op'[o].status = "pending" /\ op'[o].manager = m /\ op'[o].nonce = drawn'[o]
         /\ drawn'[o] \in Nonces
         /\ op[o].status \in {"none", "failed"} /\ Available(o, FALSE)
         /\ op'[o].grant = None => need # TRUE
<1>0. op \in [Ops -> Rows] /\ drawn \in [Ops -> 0..MaxAttempts] /\ MaxAttempts \in Nat
  BY JournalAssumption DEF JInv, TypeOK
<1>1. ASSUME NEW g \in GrantChoices(o, m, need), NEW h, h = g \/ g = None,
             Draw(o, FALSE), Pending(o, m, drawn[o] + 1, h, FALSE)
      PROVE  /\ Elsewhere(o)
             /\ op'[o].status = "pending" /\ op'[o].manager = m /\ op'[o].nonce = drawn'[o]
             /\ drawn'[o] \in Nonces
             /\ op'[o].grant = None => need # TRUE
  <2>1. need = TRUE => g # None
    <3>1. Reservable(o, m) \subseteq Grants
      BY DEF Reservable, HeldBy
    <3> QED
      BY <3>1, JournalAssumption DEF GrantChoices, Grants
  <2>2. op'[o].grant = None => need # TRUE
    BY <1>0, <1>1, <2>1 DEF Pending
  <2>3. /\ Elsewhere(o)
        /\ op'[o].status = "pending" /\ op'[o].manager = m /\ op'[o].nonce = drawn[o] + 1
    BY <1>0, <1>1 DEF Pending, Elsewhere
  <2>4. drawn'[o] = drawn[o] + 1 /\ drawn'[o] \in Nonces
    BY <1>0, <1>1 DEF Draw, Nonces
  <2> QED
    BY <2>2, <2>3, <2>4
<1>2. \E g \in GrantChoices(o, m, need) : \E h : /\ h = g \/ g = None
                                                 /\ Pending(o, m, drawn[o] + 1, h, FALSE)
  BY DEF Reserving, Begin, Retry, Reassign
<1>3. Draw(o, FALSE) /\ events' = events /\ op[o].status \in {"none", "failed"} /\ Available(o, FALSE)
  BY DEF Reserving, Begin, Retry, Reassign
<1> QED
  BY <1>1, <1>2, <1>3

\* A row that is reopened for the same attempt keeps its marker and grant.
LEMMA Reopened ==
  ASSUME JInv, NEW o \in Ops, NEW confirmed \in BOOLEAN, RetrySame(o, op[o].manager, confirmed, FALSE)
  PROVE  /\ Elsewhere(o) /\ events' = events
         /\ op[o].status = "failed" /\ op'[o].status = "pending"
         /\ op'[o].manager = op[o].manager /\ op'[o].nonce = op[o].nonce
         /\ op'[o].grant = op[o].grant
BY DEF JInv, TypeOK, RetrySame, Pending, Elsewhere

\* A finalized attempt was the current one, and its event names it.
LEMMA Finalized ==
  ASSUME JInv, NEW o \in Ops, NEW n, NEW m, NEW recovered \in BOOLEAN, Finalize(o, n, m, recovered)
  PROVE  /\ Elsewhere(o)
         /\ op[o].status = "pending" /\ op'[o].status = "succeeded"
         /\ op'[o].manager = op[o].manager /\ op'[o].nonce = op[o].nonce
         /\ op'[o].grant = op[o].grant
         /\ m = op[o].manager /\ n = op[o].nonce
         /\ events' = events \cup {[op |-> o, manager |-> m, nonce |-> n,
                                    recovered |-> recovered, grant |-> op[o].grant]}
<1>1. op \in [Ops -> Rows] /\ op[o].status = "pending"
  BY DEF JInv, TypeOK, Finalize
<1>2. op[o] \in WrittenRows
  BY <1>1, RowWritten
<1> QED
  BY <1>1, <1>2 DEF Finalize, CurrentAttempt, Elsewhere, WrittenRows

\* A failed attempt keeps its marker, and its grant when it is uncertain.
LEMMA Failed ==
  ASSUME JInv, NEW o \in Ops, NEW r \in Results, Fail(o, r)
  PROVE  /\ Elsewhere(o) /\ events' = events
         /\ op[o].status = "pending" /\ op'[o].status = "failed" /\ op'[o].result = r
         /\ op'[o].manager = op[o].manager /\ op'[o].nonce = op[o].nonce
         /\ r = "uncertain" => op'[o].grant = op[o].grant
<1>1. op \in [Ops -> Rows] /\ op[o].status = "pending"
  BY DEF JInv, TypeOK, Fail, Failable
<1>2. op[o] \in WrittenRows
  BY <1>1, RowWritten
<1> QED
  BY <1>1, <1>2 DEF Fail, HoldsGrant, Elsewhere, WrittenRows

\* What a thread inside the fences works on.
LEMMA Worker ==
  ASSUME TInv, NEW t \in Threads, thread[t].pc # "idle"
  PROVE  /\ thread[t].op \in Ops /\ thread[t].manager \in Managers /\ thread[t].need \in BOOLEAN
         /\ thread[t].nonce \in 0..MaxAttempts /\ thread[t].fence \in SUBSET Managers
         /\ thread[t].pc \in PCs
         /\ thread[t].pc \in Attempting => op[thread[t].op].status = "pending"
         /\ thread[t].pc \in Attempting \ {"blame"} =>
              thread[t].nonce = op[thread[t].op].nonce /\ thread[t].nonce \in Nonces
BY RowWritten DEF TInv, ProtocolTypeOK, Working, Works

\* Every step of the protocol is a transaction of the journal, or none.
LEMMA Journaled ==
  ASSUME TInv, [Next]_vars
  PROVE  [JournalNext]_journalVars
<1>0. JInv /\ Sweeper \in Threads
  BY DEF TInv, Threads
<1> DEFINE Reserved == \E o \in Ops, m \in Managers, need \in BOOLEAN : Attempt(o, m, need, FALSE, FALSE)
           Failing == \E o \in Ops, r \in Results : Fail(o, r)
           Again == \E o \in Ops, m \in Managers, confirmed \in BOOLEAN : RetrySame(o, m, confirmed, FALSE)
           Final == \E o \in Ops, n \in Nonces, m \in Managers, recovered \in BOOLEAN :
                      Finalize(o, n, m, recovered)
<1>1. ASSUME Reserved \/ Failing \/ Again \/ Final \/ UNCHANGED journalVars
      PROVE  [JournalNext]_journalVars
  BY <1>1 DEF JournalNext
<1>2. \A o \in Ops, r \in {"safe", "inspect", "uncertain"} : Fail(o, r) => Failing
  BY DEF Results
<1>3. \A o \in Ops : Unconfirmed(o) => Failing
  BY <1>2 DEF Unconfirmed
<1>4. \A o \in Ops, confirmed \in BOOLEAN : RetrySame(o, op[o].manager, confirmed, FALSE) => Again
  BY <1>0, RowWritten DEF RetrySame
<1>5. ASSUME NEW t \in Requests, NEW m \in Managers, NEW o \in Ops, Start(t, m, o)
      PROVE  [JournalNext]_journalVars
  BY <1>1, <1>3, <1>5 DEF Start, Stutter
<1>6. ASSUME NEW t \in Threads, Step(t)
      PROVE  [JournalNext]_journalVars
  <2>1. CASE GiveUp(t) \/ Write(t)
    BY <1>1, <2>1 DEF GiveUp, Write, Stutter
  <2>2. CASE Recover(t) \/ Ambiguous(t)
    BY <1>1, <1>4, <2>2, Worker DEF Recover, Ambiguous
  <2>3. CASE Reserve(t)
    BY <1>1, <2>3, Worker DEF Reserve, Attempt
  <2>4. CASE Check(t)
    BY <1>1, <1>2, <2>4, Worker DEF Check, Stutter
  <2>5. CASE Verify(t)
    BY <1>1, <1>3, <2>5, Worker DEF Verify, Attempting
  <2>6. CASE SettleDone(t)
    BY <1>0, <1>1, <2>6, Worker, RowWritten DEF SettleDone, Attempting
  <2>7. CASE SettleFailed(t) \/ Blame(t)
    BY <1>1, <1>3, <2>7, Worker DEF SettleFailed, Blame
  <2> QED
    BY <1>6, <2>1, <2>2, <2>3, <2>4, <2>5, <2>6, <2>7 DEF Step
<1>7. CASE SweeperStep
  <2>1. CASE SweepConfirmed \/ SweepUnapplied
    BY <1>0, <1>1, <1>4, <2>1, Worker DEF SweepConfirmed, SweepUnapplied, StillListed, Entered, Reopen,
                                  Stutter
  <2>2. CASE SweepConflict \/ Release
    BY <1>0, <1>1, <1>2, <1>3, <2>2, Worker DEF SweepConflict, Release, StillListed, Entered
  <2> QED
    BY <1>7, <2>1, <2>2 DEF SweeperStep
<1>8. ASSUME NEW g \in Grants, Import(g) PROVE [JournalNext]_journalVars
  BY <1>8 DEF Import, JournalNext
<1> QED
  BY <1>1, <1>5, <1>6, <1>7, <1>8 DEF Next, Sweep, Age, SweepSkip, Edit, EditSameSecond, Land, Crash,
                                              Stutter, vars

-----------------------------------------------------------------------------
(* One thread moves.                                                       *)

\* The states of a thread
ThreadStates == [pc : PCs, op : Ops \cup {None}, manager : Managers \cup {None},
                 nonce : 0..MaxAttempts, need : BOOLEAN, fence : SUBSET Managers]

\* No other thread moves.
Alone(t) == \A u \in Threads \ {t} : thread'[u] = thread[u]

\* A journal write to the row of o takes it off the stale ones.
Touched(o) == Elsewhere(o) /\ stale' \subseteq stale /\ (op' = op \/ o \notin stale')

\* An idle thread
LEMMA IdleType == Idle \in ThreadStates /\ Idle.pc = "idle"
BY JournalAssumption DEF Idle, ThreadStates, PCs

\* Goto changes the place of one thread.
LEMMA Goes ==
  ASSUME TInv, NEW t \in Threads, NEW pc \in PCs, Goto(t, pc)
  PROVE  /\ thread' \in [Threads -> ThreadStates] /\ Alone(t)
         /\ thread'[t] = [thread[t] EXCEPT !.pc = pc]
         /\ thread'[t].pc = pc /\ thread'[t].op = thread[t].op
         /\ thread'[t].manager = thread[t].manager /\ thread'[t].nonce = thread[t].nonce
         /\ thread'[t].need = thread[t].need /\ thread'[t].fence = thread[t].fence
BY DEF TInv, ProtocolTypeOK, ThreadStates, Goto, Alone

\* End makes one thread idle.
LEMMA Ends ==
  ASSUME TInv, NEW t \in Threads, End(t)
  PROVE  thread' \in [Threads -> ThreadStates] /\ Alone(t) /\ thread'[t] = Idle
BY IdleType DEF TInv, ProtocolTypeOK, ThreadStates, End, Alone

\* A thread takes up the attempt with nonce n.
TakesUp(t, pc, n) == thread' = [thread EXCEPT ![t].pc = pc, ![t].nonce = n]

\* A thread takes up an attempt.
LEMMA Taken ==
  ASSUME TInv, NEW t \in Threads, NEW pc \in PCs, NEW n \in 0..MaxAttempts, TakesUp(t, pc, n)
  PROVE  /\ thread' \in [Threads -> ThreadStates] /\ Alone(t)
         /\ thread'[t].pc = pc /\ thread'[t].op = thread[t].op
         /\ thread'[t].manager = thread[t].manager /\ thread'[t].nonce = n
         /\ thread'[t].need = thread[t].need /\ thread'[t].fence = thread[t].fence
BY DEF TInv, ProtocolTypeOK, ThreadStates, Alone, TakesUp

\* The sweep enters the fences of its candidate.
LEMMA Proceeds ==
  ASSUME TInv, NEW pc \in PCs, Proceed(pc), thread[Sweeper].op \in Ops,
         thread[Sweeper].manager \in Managers,
         op[thread[Sweeper].op].nonce \in 0..MaxAttempts
  PROVE  /\ thread' \in [Threads -> ThreadStates] /\ Alone(Sweeper)
         /\ thread'[Sweeper].pc = pc /\ thread'[Sweeper].op = thread[Sweeper].op
         /\ thread'[Sweeper].manager = thread[Sweeper].manager
         /\ thread'[Sweeper].nonce = op[thread[Sweeper].op].nonce
         /\ thread'[Sweeper].fence = {thread[Sweeper].manager}
<1>1. Sweeper \in Threads
  BY DEF Threads
<1>2. thread \in [Threads -> ThreadStates] /\ thread[Sweeper] \in ThreadStates
  BY <1>1 DEF TInv, ProtocolTypeOK, ThreadStates
<1>3. PICK n \in 0..MaxAttempts : n = op[thread[Sweeper].op].nonce
  OBVIOUS
<1>4. PICK m \in Managers : m = thread[Sweeper].manager
  OBVIOUS
<1>5. PICK r : r = [thread[Sweeper] EXCEPT !.pc = pc, !.nonce = n, !.fence = {m}]
  OBVIOUS
<1>6. /\ r \in ThreadStates /\ r.pc = pc /\ r.op = thread[Sweeper].op
      /\ r.manager = m /\ r.nonce = n /\ r.fence = {m}
  BY <1>2, <1>4, <1>5 DEF ThreadStates
<1>7. thread' = [thread EXCEPT ![Sweeper] = r]
  BY <1>2, <1>3, <1>4, <1>5 DEF Proceed
<1> QED
  BY <1>1, <1>2, <1>3, <1>4, <1>6, <1>7 DEF Alone

\* One thread moves within its fences or into free ones, and at most the row it
\* is fenced with changes: the others still work on what they worked on.
LEMMA Moves ==
  ASSUME TInv, NEW t \in Threads, Alone(t), NEW o \in Ops, Elsewhere(o),
         op' = op \/ (Inside(t) /\ thread[t].op = o) \/ Free(t, DealOf(o), {}),
         \/ ~Inside(t)'
         \/ Inside(t) /\ thread'[t].op = thread[t].op /\ thread'[t].fence = thread[t].fence
         \/ Free(t, DealOf(thread'[t].op), thread'[t].fence),
         Works(thread[t])'
  PROVE  Working' /\ Apart'
<1>1. ASSUME NEW u \in Threads \ {t} PROVE Works(thread[u])'
  <2>1. thread'[u] = thread[u] /\ Works(thread[u])
    BY <1>1 DEF Alone, TInv, Working
  <2>2. thread[u].pc # "idle" => thread[u].op \in Ops
    BY <2>1 DEF Works
  <2>3. Inside(u) => thread[u].op # o \/ op' = op
    BY <1>1 DEF TInv, Apart, Free, Inside
  <2>4. Inside(u) => op'[thread[u].op] = op[thread[u].op]
    BY <2>2, <2>3 DEF Inside, Elsewhere
  <2> QED
    BY <2>1, <2>4 DEF Works, Inside, Attempting
<1>2. Working'
  BY <1>1 DEF Working
<1>3. Apart'
  BY DEF TInv, Apart, Alone, Free, Inside
<1> QED
  BY <1>2, <1>3

\* The same for a step that leaves Bitrix alone, with the types.
LEMMA Inner ==
  ASSUME TInv, NEW t \in Threads, thread' \in [Threads -> ThreadStates], Alone(t),
         NEW o \in Ops, Touched(o),
         op' = op \/ (Inside(t) /\ thread[t].op = o) \/ Free(t, DealOf(o), {}),
         \/ ~Inside(t)'
         \/ Inside(t) /\ thread'[t].op = thread[t].op /\ thread'[t].fence = thread[t].fence
         \/ Free(t, DealOf(thread'[t].op), thread'[t].fence),
         Works(thread[t])', Offline
  PROVE  ProtocolTypeOK' /\ Working' /\ Apart'
<1>1. stale' \subseteq {p \in Ops : op'[p].status = "pending"}
  BY DEF TInv, ProtocolTypeOK, Touched, Elsewhere
<1>2. ProtocolTypeOK'
  BY <1>1 DEF TInv, ProtocolTypeOK, ThreadStates, Offline
<1> QED
  BY <1>2, Moves DEF Touched

\* A call ends.
LEMMA EndsWell ==
  ASSUME TInv, NEW t \in Threads, NEW o \in Ops, Touched(o), End(t), Offline,
         op' = op \/ (Inside(t) /\ thread[t].op = o) \/ Free(t, DealOf(o), {})
  PROVE  ProtocolTypeOK' /\ Working' /\ Apart'
<1>1. thread' \in [Threads -> ThreadStates] /\ Alone(t) /\ thread'[t] = Idle
  BY Ends
<1>2. Works(thread[t])' /\ ~Inside(t)'
  BY <1>1, IdleType DEF Works, Inside, Attempting
<1> QED
  BY <1>1, <1>2, Inner

\* A step without a journal write
LEMMA Untouched ==
  ASSUME Stutter, NEW o \in Ops
  PROVE  Touched(o) /\ op' = op /\ events' = events
BY DEF Stutter, journalVars, Touched, Elsewhere

\* A failed attempt is no longer stale.
LEMMA FailTouches ==
  ASSUME JInv, NEW o \in Ops, NEW r \in Results, Fail(o, r), Fresh(o)
  PROVE  Touched(o)
BY Failed DEF Fresh, Touched

\* A request enters free fences.
LEMMA StartTyped ==
  ASSUME TInv, NEW t \in Requests, NEW m \in Managers, NEW o \in Ops, Start(t, m, o)
  PROVE  ProtocolTypeOK' /\ Working' /\ Apart'
<1>0. t \in Threads /\ JInv /\ "uncertain" \in Results
  BY DEF Threads, TInv, Results
<1> DEFINE employees == {m, op[o].manager} \ {None}
           r == [pc |-> "read", op |-> o, manager |-> m, nonce |-> 0, need |-> LimitReached(m),
                 fence |-> employees]
<1>1. Touched(o) /\ Offline /\ Free(t, DealOf(o), employees) /\ op[o].status # "succeeded"
  BY <1>0, Untouched, FailTouches DEF Start, Unconfirmed
<1>2. op'[o].manager = op[o].manager /\ op'[o].status # "succeeded"
      /\ (op'[o].status # "none" => op[o].status # "none")
  BY <1>0, Untouched, Failed DEF Start, Unconfirmed
<1>3. r \in ThreadStates
  <2>1. employees \subseteq Managers
    <3>1. op[o].manager \in Managers \cup {None}
      BY <1>0, RowShape DEF Rows, NoRow, WrittenRows
    <3> QED
      BY <3>1
  <2>2. LimitReached(m) \in BOOLEAN
    BY DEF LimitReached
  <2> QED
    BY <2>1, <2>2, JournalAssumption DEF ThreadStates, PCs
<1>4. thread' = [thread EXCEPT ![t] = r]
  BY DEF Start
<1>5. thread' \in [Threads -> ThreadStates] /\ Alone(t) /\ thread'[t] = r
  BY <1>0, <1>3, <1>4 DEF TInv, ProtocolTypeOK, ThreadStates, Alone
<1>6. m # None /\ (op[o].status # "none" => op[o].manager # None)
  BY <1>0, RowWritten, JournalAssumption
<1>7. Works(thread[t])'
  BY <1>2, <1>5, <1>6 DEF Works, Attempting
<1>8. Free(t, DealOf(o), {})
  BY <1>1 DEF Free
<1> QED
  BY <1>0, <1>1, <1>5, <1>7, <1>8, Inner

\* A row that a thread reopened, for the thread that holds its fences.
LEMMA RecoverTyped ==
  ASSUME TInv, NEW t \in Threads, Recover(t) \/ Ambiguous(t)
  PROVE  ProtocolTypeOK' /\ Working' /\ Apart'
<1> PICK o : o = thread[t].op
  OBVIOUS
<1>0. JInv /\ thread[t].pc = "read" /\ Inside(t) /\ Works(thread[t]) /\ Offline /\ op[o].status = "failed"
  BY DEF Recover, Ambiguous, Inside, TInv, Working
<1>1. o \in Ops /\ thread[t].manager \in Managers
  BY <1>0, Worker
<1>2. PICK confirmed \in BOOLEAN : RetrySame(o, op[o].manager, confirmed, FALSE) /\ Fresh(o)
  BY DEF Recover, Ambiguous
<1>3. Elsewhere(o) /\ op'[o].status = "pending" /\ op'[o].manager = op[o].manager
      /\ op'[o].nonce = op[o].nonce
  BY <1>0, <1>1, <1>2, Reopened
<1>4. Touched(o)
  BY <1>2, <1>3 DEF Touched, Fresh
<1>5. op[o].nonce \in 0..MaxAttempts
  BY <1>0, <1>1, RowWritten, JournalAssumption DEF Nonces
<1>6. /\ thread' \in [Threads -> ThreadStates] /\ Alone(t)
      /\ thread'[t].op = o /\ thread'[t].manager = thread[t].manager
      /\ thread'[t].fence = thread[t].fence
      /\ \/ thread'[t].pc = "settle" /\ thread'[t].nonce = op[o].nonce
         \/ thread'[t].pc = "blame"
  <2>1. CASE Recover(t)
    <3>1. PICK n \in 0..MaxAttempts : n = op[o].nonce
      BY <1>5
    <3>2. TakesUp(t, "settle", n) /\ "settle" \in PCs
      BY <2>1, <3>1 DEF Recover, PCs, TakesUp
    <3> QED
      BY <3>1, <3>2, Taken
  <2>2. CASE Ambiguous(t)
    BY <2>2, Goes DEF Ambiguous, PCs
  <2> QED
    BY <2>1, <2>2
<1>7. Works(thread[t])'
  BY <1>0, <1>1, <1>3, <1>6 DEF Works, Attempting
<1> QED
  BY <1>0, <1>1, <1>4, <1>6, <1>7, Inner

\* The row of a new attempt
LEMMA ReserveTyped ==
  ASSUME TInv, NEW t \in Threads, Reserve(t)
  PROVE  ProtocolTypeOK' /\ Working' /\ Apart'
<1> PICK o : o = thread[t].op
  OBVIOUS
<1> PICK m : m = thread[t].manager
  OBVIOUS
<1>0. JInv /\ thread[t].pc = "read" /\ Inside(t) /\ Works(thread[t]) /\ Offline
  BY DEF Reserve, Inside, TInv, Working
<1>1. o \in Ops /\ m \in Managers /\ thread[t].need \in BOOLEAN
  BY <1>0, Worker
<1>2. Reserving(o, m, thread[t].need) /\ Fresh(o)
  BY <1>1 DEF Reserve, Reserving
<1>3. Elsewhere(o) /\ op'[o].status = "pending" /\ op'[o].manager = m
      /\ op'[o].nonce = drawn'[o] /\ drawn'[o] \in Nonces
  BY <1>0, <1>1, <1>2, NewAttempt
<1>4. Touched(o)
  BY <1>2, <1>3 DEF Touched, Fresh
<1>5. drawn'[o] \in 0..MaxAttempts
  BY <1>3, JournalAssumption DEF Nonces
<1>6. /\ thread' \in [Threads -> ThreadStates] /\ Alone(t)
      /\ thread'[t].op = o /\ thread'[t].manager = m /\ thread'[t].fence = thread[t].fence
      /\ thread'[t].pc = "check" /\ thread'[t].nonce = drawn'[o]
  <2>1. PICK n \in 0..MaxAttempts : n = drawn'[o]
    BY <1>5
  <2>2. TakesUp(t, "check", n) /\ "check" \in PCs
    BY <2>1 DEF Reserve, PCs, TakesUp
  <2> QED
    BY <2>1, <2>2, Taken
<1>7. Works(thread[t])'
  BY <1>0, <1>1, <1>3, <1>6 DEF Works, Attempting
<1> QED
  BY <1>0, <1>1, <1>4, <1>6, <1>7, Inner

\* The thread that goes on to write the deal.
LEMMA CheckTyped ==
  ASSUME TInv, NEW t \in Threads, Check(t)
  PROVE  ProtocolTypeOK' /\ Working' /\ Apart'
<1> PICK o : o = thread[t].op
  OBVIOUS
<1>0. JInv /\ thread[t].pc = "check" /\ Inside(t) /\ Works(thread[t]) /\ Offline
  BY DEF Check, Inside, TInv, Working
<1>1. o \in Ops /\ thread[t].manager \in Managers
  BY <1>0, Worker
<1>2. CASE Goto(t, "write") /\ Stutter
  <2>1. Touched(o) /\ op' = op
    BY <1>1, <1>2, Untouched
  <2>2. /\ thread' \in [Threads -> ThreadStates] /\ Alone(t)
        /\ thread'[t].pc = "write" /\ thread'[t].op = thread[t].op
        /\ thread'[t].manager = thread[t].manager /\ thread'[t].nonce = thread[t].nonce
        /\ thread'[t].fence = thread[t].fence
    BY <1>2, Goes DEF PCs
  <2>3. Works(thread[t])'
    BY <1>0, <2>1, <2>2 DEF Works, Attempting
  <2> QED
    BY <1>0, <1>1, <2>1, <2>2, <2>3, Inner
<1>3. CASE \E r \in {"safe", "inspect"} : Fail(o, r) /\ Fresh(o) /\ End(t)
  BY <1>0, <1>1, <1>3, FailTouches, EndsWell DEF Results
<1> QED
  BY <1>2, <1>3 DEF Check

\* Calls that end with a journal write or without one.
LEMMA LastTyped ==
  ASSUME TInv, NEW t \in Threads,
         GiveUp(t) \/ Verify(t) \/ SettleDone(t) \/ SettleFailed(t) \/ Blame(t)
  PROVE  ProtocolTypeOK' /\ Working' /\ Apart'
<1> PICK o : o = thread[t].op
  OBVIOUS
<1>0. JInv /\ Inside(t) /\ Offline /\ End(t) /\ thread[t].pc # "idle" /\ "uncertain" \in Results
  BY DEF GiveUp, Verify, SettleDone, SettleFailed, Blame, Inside, TInv, Results
<1>1. o \in Ops
  BY <1>0, Worker
<1>2. CASE Stutter
  BY <1>0, <1>1, <1>2, Untouched, EndsWell
<1>3. CASE Unconfirmed(o) /\ Fresh(o)
  BY <1>0, <1>1, <1>3, FailTouches, EndsWell DEF Unconfirmed
<1>4. ASSUME NEW n, NEW m, NEW recovered \in BOOLEAN, Finalize(o, n, m, recovered), Fresh(o)
      PROVE  ProtocolTypeOK' /\ Working' /\ Apart'
  <2>1. Touched(o)
    BY <1>0, <1>1, <1>4, Finalized DEF Touched, Fresh
  <2> QED
    BY <1>0, <1>1, <2>1, EndsWell
<1> QED
  BY <1>2, <1>3, <1>4 DEF GiveUp, Verify, SettleDone, SettleFailed, Blame

\* The sweep decides what becomes of its candidate.
LEMMA SweepTyped ==
  ASSUME TInv, SweepConfirmed \/ SweepUnapplied \/ SweepConflict
  PROVE  ProtocolTypeOK' /\ Working' /\ Apart'
<1> PICK o : o = thread[Sweeper].op
  OBVIOUS
<1> PICK m : m = thread[Sweeper].manager
  OBVIOUS
<1>0. JInv /\ StillListed /\ Offline /\ Sweeper \in Threads /\ thread[Sweeper].pc = "listed"
      /\ "uncertain" \in Results /\ Free(Sweeper, DealOf(o), {m})
      /\ op[o].status \in {"pending", "failed"} /\ op[o].manager = m
  BY DEF SweepConfirmed, SweepUnapplied, SweepConflict, StillListed, Entered, Threads, TInv, Results
<1>1. o \in Ops /\ m \in Managers
  BY <1>0, Worker
<1>2. op[o].nonce \in 0..MaxAttempts
  BY <1>0, <1>1, RowWritten, JournalAssumption DEF Nonces
<1>3. Free(Sweeper, DealOf(o), {})
  BY <1>0 DEF Free
<1>4. ASSUME NEW confirmed \in BOOLEAN, NEW pc \in {"settle", "release"},
             Reopen(o, confirmed), Proceed(pc)
      PROVE  ProtocolTypeOK' /\ Working' /\ Apart'
  <2>1. /\ Touched(o) /\ op'[o].status = "pending" /\ op'[o].manager = m
        /\ op'[o].nonce = op[o].nonce
    <3>1. CASE Stutter
      BY <1>0, <1>1, <1>4, <3>1, Untouched, Reopened DEF Reopen
    <3>2. CASE RetrySame(o, op[o].manager, confirmed, FALSE) /\ Fresh(o)
      BY <1>0, <1>1, <3>2, Reopened DEF Touched, Fresh
    <3> QED
      BY <1>4, <3>1, <3>2 DEF Reopen
  <2>2. /\ thread' \in [Threads -> ThreadStates] /\ Alone(Sweeper)
        /\ thread'[Sweeper].pc = pc /\ thread'[Sweeper].op = o
        /\ thread'[Sweeper].manager = m
        /\ thread'[Sweeper].nonce = op[o].nonce
        /\ thread'[Sweeper].fence = {m}
    BY <1>1, <1>2, <1>4, Proceeds DEF PCs
  <2>3. Works(thread[Sweeper])'
    BY <1>1, <2>1, <2>2 DEF Works, Attempting
  <2> QED
    BY <1>0, <1>1, <1>3, <2>1, <2>2, <2>3, Inner
<1>5. CASE SweepConflict
  BY <1>0, <1>1, <1>3, <1>5, FailTouches, EndsWell DEF SweepConflict, Unconfirmed
<1> QED
  BY <1>4, <1>5 DEF SweepConfirmed, SweepUnapplied

\* The other steps of the sweep
LEMMA SweeperTyped ==
  ASSUME TInv, Release \/ SweepSkip \/ \E o \in Ops : Sweep(o)
  PROVE  ProtocolTypeOK' /\ Working' /\ Apart'
<1>0. JInv /\ Sweeper \in Threads /\ "safe" \in Results
  BY DEF TInv, Threads, Results
<1>1. CASE Release
  <2>1. thread[Sweeper].op \in Ops /\ Inside(Sweeper)
    BY <1>0, <1>1, Worker DEF Release, Inside
  <2> QED
    BY <1>0, <1>1, <2>1, FailTouches, EndsWell DEF Release
<1>2. CASE SweepSkip
  <2>1. thread[Sweeper].op \in Ops
    BY <1>0, <1>2, Worker DEF SweepSkip, Entered
  <2> QED
    BY <1>0, <1>2, <2>1, Untouched, EndsWell DEF SweepSkip
<1>3. ASSUME NEW o \in Ops, Sweep(o) PROVE ProtocolTypeOK' /\ Working' /\ Apart'
  <2> DEFINE r == [Idle EXCEPT !.pc = "listed", !.op = o, !.manager = op[o].manager]
  <2>1. op[o].manager \in Managers
    BY <1>0, <1>3, RowWritten DEF Sweep, Candidate, Unresolved
  <2>2. r \in ThreadStates /\ r.pc = "listed" /\ r.op = o /\ r.manager = op[o].manager
    BY <2>1, IdleType DEF ThreadStates, PCs, Idle
  <2>3. thread' = [thread EXCEPT ![Sweeper] = r]
    BY <1>3 DEF Sweep
  <2>4. thread' \in [Threads -> ThreadStates] /\ Alone(Sweeper) /\ thread'[Sweeper] = r
    BY <1>0, <2>2, <2>3 DEF TInv, ProtocolTypeOK, ThreadStates, Alone
  <2>5. Works(thread[Sweeper])' /\ ~Inside(Sweeper)'
    BY <2>1, <2>2, <2>4 DEF Works, Attempting, Inside
  <2> QED
    BY <1>0, <1>3, <2>4, <2>5, Untouched, Inner DEF Sweep
<1> QED
  BY <1>1, <1>2, <1>3

\* An update of Bitrix
LEMMA ApplyTyped ==
  ASSUME TInv, NEW a \in Attempts, NEW m \in Managers, Apply(a, m)
  PROVE  /\ crm' \in [Deals -> [stage : Stages, version : Versions,
                                marker : Attempts \cup {Foreign, None}]]
         /\ applied' \in [Attempts -> Managers \cup {None}]
<1>1. DealOf(a[1]) \in Deals
  BY DEF Attempts, Ops, DealOf
<1> QED
  BY <1>1 DEF Apply, TInv, ProtocolTypeOK, Stages

\* The deal is written, or changed by others.
LEMMA OuterTyped ==
  ASSUME TInv, UNCHANGED <<op, stale, thread, crashes>>,
         crm' \in [Deals -> [stage : Stages, version : Versions,
                             marker : Attempts \cup {Foreign, None}]],
         applied' \in [Attempts -> Managers \cup {None}],
         inflight' \subseteq Attempts \X Managers
  PROVE  ProtocolTypeOK' /\ Working' /\ Apart'
BY DEF TInv, ProtocolTypeOK, Working, Works, Apart, Inside

\* crm.deal.update, whatever its answer is
LEMMA WriteTyped ==
  ASSUME TInv, NEW t \in Threads, Write(t)
  PROVE  ProtocolTypeOK' /\ Working' /\ Apart'
<1> PICK o : o = thread[t].op
  OBVIOUS
<1>0. JInv /\ thread[t].pc = "write" /\ Inside(t) /\ Works(thread[t]) /\ Stutter /\ UNCHANGED crashes
  BY DEF Write, Inside, TInv, Working
<1>1. /\ o \in Ops /\ thread[t].manager \in Managers /\ Marker(t) \in Attempts
      /\ op[o].status = "pending"
  BY <1>0, Worker DEF Marker, Attempts, Attempting
<1>2. Touched(o) /\ op' = op /\ stale' = stale
  BY <1>0, <1>1, Untouched DEF Stutter
<1>3. /\ thread' \in [Threads -> ThreadStates] /\ Alone(t)
      /\ thread'[t].pc = "verify" /\ thread'[t].op = thread[t].op
      /\ thread'[t].manager = thread[t].manager /\ thread'[t].nonce = thread[t].nonce
      /\ thread'[t].fence = thread[t].fence
  BY Goes DEF Write, PCs
<1>4. Works(thread[t])'
  BY <1>0, <1>2, <1>3 DEF Works, Attempting
<1>5. Working' /\ Apart'
  BY <1>0, <1>1, <1>2, <1>3, <1>4, Moves DEF Touched
<1>6. /\ crm' \in [Deals -> [stage : Stages, version : Versions,
                             marker : Attempts \cup {Foreign, None}]]
      /\ applied' \in [Attempts -> Managers \cup {None}]
      /\ inflight' \subseteq Attempts \X Managers
  BY <1>1, ApplyTyped DEF Write, TInv, ProtocolTypeOK
<1>7. ProtocolTypeOK'
  BY <1>0, <1>2, <1>3, <1>6 DEF ProtocolTypeOK, ThreadStates, TInv
<1> QED
  BY <1>5, <1>7

\* The first layer is inductive.
LEMMA TypedStep ==
  ASSUME TInv, [Next]_vars
  PROVE  TInv'
<1>0. JInv'
  BY Journaled, JournalStep DEF TInv
<1> SUFFICES ProtocolTypeOK' /\ Working' /\ Apart'
  BY <1>0 DEF TInv
<1>1. CASE \E t \in Threads : Step(t)
  BY <1>1, RecoverTyped, ReserveTyped, CheckTyped, WriteTyped, LastTyped DEF Step
<1>2. CASE SweeperStep \/ SweepSkip \/ \E o \in Ops : Sweep(o)
  BY <1>2, SweepTyped, SweeperTyped DEF SweeperStep
<1>3. ASSUME NEW d \in Deals, NEW s \in Stages, NEW k \in {crm[d].marker, None, Foreign}, Edit(d, s, k)
      PROVE  ProtocolTypeOK' /\ Working' /\ Apart'
  <2>1. crm' \in [Deals -> [stage : Stages, version : Versions,
                            marker : Attempts \cup {Foreign, None}]]
    BY <1>3 DEF Edit, TInv, ProtocolTypeOK
  <2>2. UNCHANGED <<op, stale, thread, crashes, applied, inflight>>
    BY <1>3 DEF Edit, Stutter, journalVars
  <2> QED
    BY <2>1, <2>2, OuterTyped DEF TInv, ProtocolTypeOK
<1>4. ASSUME NEW d \in Deals, EditSameSecond(d) PROVE ProtocolTypeOK' /\ Working' /\ Apart'
  <2>1. crm' \in [Deals -> [stage : Stages, version : Versions,
                            marker : Attempts \cup {Foreign, None}]]
    BY <1>4 DEF EditSameSecond, TInv, ProtocolTypeOK
  <2>2. UNCHANGED <<op, stale, thread, crashes, applied, inflight>>
    BY <1>4 DEF EditSameSecond, Stutter, journalVars
  <2> QED
    BY <2>1, <2>2, OuterTyped DEF TInv, ProtocolTypeOK
<1>5. ASSUME NEW a \in Attempts, NEW m \in Managers, Land(a, m)
      PROVE  ProtocolTypeOK' /\ Working' /\ Apart'
  <2>1. UNCHANGED <<op, stale, thread, crashes>> /\ inflight' \subseteq inflight
    BY <1>5 DEF Land, Stutter, journalVars
  <2> QED
    BY <1>5, <2>1, ApplyTyped, OuterTyped DEF Land, TInv, ProtocolTypeOK
<1>6. ASSUME NEW o \in Ops, Age(o) PROVE ProtocolTypeOK' /\ Working' /\ Apart'
  BY <1>6 DEF Age, journalVars, TInv, ProtocolTypeOK, Working, Works, Apart, Inside
<1>7. CASE Crash
  <2>1. crashes' \in 0..MaxCrashes
    BY <1>7, ProtocolAssumption DEF Crash, TInv, ProtocolTypeOK
  <2>2. thread' = [t \in Threads |-> Idle] /\ UNCHANGED <<crm, applied, inflight, stale, op>>
    BY <1>7 DEF Crash, Stutter, journalVars
  <2>3. ProtocolTypeOK'
    BY <2>1, <2>2, IdleType DEF TInv, ProtocolTypeOK, ThreadStates
  <2>4. Working' /\ Apart'
    BY <2>2, IdleType DEF Working, Works, Apart, Inside, Attempting
  <2> QED
    BY <2>3, <2>4
<1>8. CASE (\E g \in Grants : Import(g)) \/ UNCHANGED vars
  <2>1. UNCHANGED <<op, stale, thread, crashes, crm, applied, inflight>>
    BY <1>8 DEF Import, ApproveGrant, ExpireGrant, protocolVars, vars, journalVars
  <2> QED
    BY <2>1, OuterTyped DEF TInv, ProtocolTypeOK
<1> QED
  BY <1>1, <1>2, <1>3, <1>4, <1>5, <1>6, <1>7, <1>8, StartTyped DEF Next

-----------------------------------------------------------------------------
(* What was applied, as long as no update arrives late.                    *)

\* An attempt is an operation and a nonce.
LEMMA AttemptPair ==
  ASSUME NEW a \in Attempts
  PROVE  a[1] \in Ops /\ a[2] \in Nonces /\ a = <<a[1], a[2]>> /\ DealOf(a[1]) \in Deals
<1>1. a[1] \in Ops /\ a[2] \in Nonces /\ a = <<a[1], a[2]>>
  BY DEF Attempts
<1>2. \A o \in Ops : DealOf(o) \in Deals
  BY DEF Ops, DealOf
<1> QED
  BY <1>1, <1>2

\* Versions are numbers.
LEMMA VersionType ==
  ASSUME TInv, NEW o \in Ops
  PROVE  crm[DealOf(o)].version \in Nat /\ o[2] \in Nat /\ DealOf(o) \in Deals
BY ProtocolAssumption DEF TInv, ProtocolTypeOK, DealOf, Ops

\* A deal that is as the selection saw it was not written for the operation.
LEMMA NotApplied ==
  ASSUME TInv, PInv, NEW o \in Ops, Unchanged(o, crm[DealOf(o)]), NEW a \in Attempts, a[1] = o
  PROVE  applied[a] = None
BY VersionType DEF PInv, Newer, Unchanged

\* A marker in the deal proves that its update was applied, for the employee of
\* the row.
LEMMA MarkerProves ==
  ASSUME TInv, PInv, NEW o \in Ops, op[o].status # "none", Confirmed(o, crm[DealOf(o)])
  PROVE  /\ applied[<<o, op[o].nonce>>] = op[o].manager /\ op[o].manager # None
         /\ crm[DealOf(o)].version >= o[2]
<1>1. op[o].nonce \in Nonces /\ op[o].manager # None /\ DealOf(o) \in Deals
  BY RowWritten, VersionType DEF TInv
<1> PICK a \in Attempts : a = <<o, op[o].nonce>>
  BY <1>1 DEF Attempts
<1>2. a[1] = o /\ applied[a] # None
  BY <1>1 DEF PInv, MarkersTrue, Confirmed
<1>3. crm[DealOf(o)].version > o[2]
  BY <1>2 DEF PInv, Newer
<1> QED
  BY <1>1, <1>2, <1>3, VersionType DEF PInv, NoLostClaim

\* A step that leaves Bitrix alone keeps the second layer when the row of o stays
\* the row of its attempt, or nothing was applied for o.
LEMMA OfflineKept ==
  ASSUME TInv, PInv, UNCHANGED <<crm, applied, inflight>>, NEW t \in Threads, Alone(t),
         NEW o \in Ops, Elsewhere(o),
         \/ /\ op'[o].nonce = op[o].nonce /\ op'[o].manager = op[o].manager
            /\ op[o].status = "succeeded" \/ Unresolved(o)
                 => op'[o].status = "succeeded" \/ Unresolved(o)'
         \/ \A a \in Attempts : a[1] = o => applied[a] = None,
         \A e \in events' : e \in events \/ applied[<<e.op, e.nonce>>] = e.manager,
         Knows(thread[t])'
  PROVE  PInv'
<1>1. inflight' = {} /\ Newer' /\ MarkersTrue' /\ OneAppliedClaim'
  BY DEF PInv, Newer, MarkersTrue, OneAppliedClaim
<1>2. Known'
  <2>1. ASSUME NEW u \in Threads \ {t} PROVE Knows(thread[u])'
    BY DEF PInv, Known, Knows, Alone, Unclaimed
  <2> QED
    BY <2>1 DEF Known
<1>3. AuditApplied'
  BY DEF PInv, AuditApplied
<1>4. NoLostClaim'
  <2>1. SUFFICES ASSUME NEW a \in Attempts, applied'[a] # None
                 PROVE  /\ op'[a[1]].nonce = a[2] /\ op'[a[1]].manager = applied'[a]
                        /\ op'[a[1]].status = "succeeded" \/ Unresolved(a[1])'
    BY DEF NoLostClaim
  <2>2. applied[a] # None /\ applied' = applied /\ a[1] \in Ops
    BY <2>1, AttemptPair
  <2>3. /\ op[a[1]].nonce = a[2] /\ op[a[1]].manager = applied[a]
        /\ op[a[1]].status = "succeeded" \/ Unresolved(a[1])
    BY <2>2 DEF PInv, NoLostClaim
  <2>4. CASE a[1] = o
    BY <2>2, <2>3, <2>4
  <2>5. CASE a[1] # o
    <3>1. op'[a[1]] = op[a[1]]
      BY <2>2, <2>5 DEF Elsewhere
    <3> QED
      BY <2>2, <2>3, <3>1 DEF Unresolved
  <2> QED
    BY <2>4, <2>5
<1> QED
  BY <1>1, <1>2, <1>3, <1>4 DEF PInv

\* A call ends, having kept the attempt open or recorded it as uncertain.
LEMMA EndsKept ==
  ASSUME TInv, PInv, UNCHANGED <<crm, applied, inflight>>, NEW t \in Threads, End(t),
         NEW o \in Ops, Stutter \/ Unconfirmed(o)
  PROVE  PInv'
<1>0. JInv /\ "uncertain" \in Results
  BY DEF TInv, Results
<1>1. Elsewhere(o) /\ events' = events
      /\ op'[o].nonce = op[o].nonce /\ op'[o].manager = op[o].manager
      /\ (Unresolved(o)' \/ op' = op)
  BY <1>0, Untouched, Failed DEF Unconfirmed, Touched, Unresolved
<1>2. op[o].status = "succeeded" \/ Unresolved(o) => op'[o].status = "succeeded" \/ Unresolved(o)'
  BY <1>1 DEF Unresolved
<1>3. Alone(t) /\ Knows(thread[t])'
  BY Ends, IdleType DEF Knows
<1> QED
  BY <1>1, <1>2, <1>3, OfflineKept

\* A request that enters leaves the row uncertain at most.
LEMMA StartKept ==
  ASSUME TInv, PInv, NEW t \in Requests, NEW m \in Managers, NEW o \in Ops, Start(t, m, o)
  PROVE  PInv'
<1>0. JInv /\ t \in Threads /\ "uncertain" \in Results
  BY DEF TInv, Threads, Results
<1>1. Elsewhere(o) /\ events' = events
      /\ op'[o].nonce = op[o].nonce /\ op'[o].manager = op[o].manager
      /\ (Unresolved(o)' \/ op' = op)
  BY <1>0, Untouched, Failed DEF Start, Unconfirmed, Touched, Unresolved
<1>2. op[o].status = "succeeded" \/ Unresolved(o) => op'[o].status = "succeeded" \/ Unresolved(o)'
  BY <1>1 DEF Unresolved
<1>3. UNCHANGED <<crm, applied, inflight>>
  BY DEF Start, Offline
<1>4. Alone(t) /\ thread'[t].pc = "read" /\ thread'[t].op = o
  BY <1>0 DEF Start, Alone, TInv, ProtocolTypeOK
<1>5. Knows(thread[t])'
  BY <1>3, <1>4, VersionType DEF Knows, Start
<1> QED
  BY <1>0, <1>1, <1>2, <1>3, <1>5, <1>4, OfflineKept

\* The marker of the attempt, or another one, decides what becomes of a failed row.
LEMMA RecoverKept ==
  ASSUME TInv, PInv, NEW t \in Threads, Recover(t) \/ Ambiguous(t)
  PROVE  PInv'
<1> PICK o : o = thread[t].op
  OBVIOUS
<1>0. JInv /\ thread[t].pc = "read" /\ op[o].status = "failed" /\ UNCHANGED <<crm, applied, inflight>>
  BY DEF Recover, Ambiguous, TInv, Offline
<1>1. o \in Ops /\ crm[DealOf(o)].version >= o[2]
  BY <1>0, Worker DEF PInv, Known, Knows
<1>2. PICK confirmed \in BOOLEAN : RetrySame(o, op[o].manager, confirmed, FALSE)
  BY DEF Recover, Ambiguous
<1>3. Elsewhere(o) /\ events' = events /\ op'[o].status = "pending"
      /\ op'[o].manager = op[o].manager /\ op'[o].nonce = op[o].nonce
  BY <1>0, <1>1, <1>2, Reopened
<1>4. op[o].nonce \in 0..MaxAttempts
  BY <1>0, <1>1, RowWritten, JournalAssumption DEF Nonces
<1>5. CASE Recover(t)
  <2>1. PICK n \in 0..MaxAttempts : n = op[o].nonce
    BY <1>4
  <2>2. TakesUp(t, "settle", n) /\ "settle" \in PCs
    BY <1>5, <2>1 DEF Recover, PCs, TakesUp
  <2>3. Alone(t) /\ thread'[t].pc = "settle" /\ thread'[t].op = o /\ thread'[t].nonce = op[o].nonce
    BY <2>1, <2>2, Taken
  <2>4. applied[<<o, op[o].nonce>>] # None
    BY <1>0, <1>1, <1>5, MarkerProves DEF Recover, Deal
  <2>5. Knows(thread[t])'
    BY <1>0, <1>1, <2>3, <2>4 DEF Knows
  <2> QED
    BY <1>0, <1>1, <1>3, <2>3, <2>5, OfflineKept DEF Unresolved
<1>6. CASE Ambiguous(t)
  <2>1. Alone(t) /\ thread'[t].pc = "blame" /\ thread'[t].op = o
    BY <1>6, Goes DEF Ambiguous, PCs
  <2>2. Knows(thread[t])'
    BY <1>0, <1>1, <2>1 DEF Knows
  <2> QED
    BY <1>0, <1>1, <1>3, <2>1, <2>2, OfflineKept DEF Unresolved
<1> QED
  BY <1>5, <1>6

\* The lease: the deal is unchanged and no other version of it is open or claimed.
LEMMA ReserveKept ==
  ASSUME TInv, PInv, NEW t \in Threads, Reserve(t)
  PROVE  PInv'
<1> PICK o : o = thread[t].op
  OBVIOUS
<1> PICK m : m = thread[t].manager
  OBVIOUS
<1>0. JInv /\ thread[t].pc = "read" /\ UNCHANGED <<crm, applied, inflight>>
      /\ Unchanged(o, crm[DealOf(o)]) /\ ~DealWasClaimed(o)
  BY DEF Reserve, TInv, Offline, Deal
<1>1. o \in Ops /\ m \in Managers /\ crm[DealOf(o)].version >= o[2]
  BY <1>0, Worker DEF PInv, Known, Knows
<1>2. Reserving(o, m, thread[t].need)
  BY DEF Reserve, Reserving
<1>3. Elsewhere(o) /\ events' = events /\ drawn'[o] \in Nonces /\ Available(o, FALSE)
  BY <1>0, <1>1, <1>2, NewAttempt
<1>4. \A a \in Attempts : a[1] = o => applied[a] = None
  BY <1>0, <1>1, NotApplied
<1>5. Unclaimed(DealOf(o))
  <2>1. SUFFICES ASSUME NEW a \in Attempts, DealOf(a[1]) = DealOf(o), applied[a] # None
                 PROVE  FALSE
    BY DEF Unclaimed
  <2>2. a[1] \in OtherOps(o)
    BY <1>4, <2>1, AttemptPair DEF OtherOps
  <2>3. op[a[1]].status = "succeeded" \/ Unresolved(a[1])
    BY <2>1 DEF PInv, NoLostClaim
  <2> QED
    BY <1>0, <1>3, <2>2, <2>3 DEF Available, DealWasClaimed
<1>6. Alone(t) /\ thread'[t].pc = "check" /\ thread'[t].op = o
  <2>1. PICK n \in 0..MaxAttempts : n = drawn'[o]
    BY <1>3, JournalAssumption DEF Nonces
  <2>2. TakesUp(t, "check", n) /\ "check" \in PCs
    BY <2>1 DEF Reserve, PCs, TakesUp
  <2> QED
    BY <2>1, <2>2, Taken
<1>7. Knows(thread[t])'
  BY <1>0, <1>1, <1>5, <1>6 DEF Knows, Unclaimed
<1> QED
  BY <1>0, <1>1, <1>3, <1>4, <1>6, <1>7, OfflineKept

\* The second look: nothing was applied yet.
LEMMA CheckKept ==
  ASSUME TInv, PInv, NEW t \in Threads, Check(t)
  PROVE  PInv'
<1> PICK o : o = thread[t].op
  OBVIOUS
<1>0. JInv /\ thread[t].pc = "check" /\ UNCHANGED <<crm, applied, inflight>>
  BY DEF Check, TInv, Offline
<1>1. o \in Ops /\ crm[DealOf(o)].version >= o[2] /\ Unclaimed(DealOf(o))
  BY <1>0, Worker DEF PInv, Known, Knows
<1>2. CASE Goto(t, "write") /\ Stutter
  <2>1. Alone(t) /\ thread'[t].pc = "write" /\ thread'[t].op = o
    BY <1>2, Goes DEF PCs
  <2>2. Knows(thread[t])'
    BY <1>0, <1>1, <2>1 DEF Knows, Unclaimed
  <2>3. Elsewhere(o) /\ op' = op /\ events' = events
    BY <1>1, <1>2, Untouched DEF Touched
  <2> QED
    BY <1>0, <1>1, <2>1, <2>2, <2>3, OfflineKept DEF Unresolved
<1>3. CASE \E r \in {"safe", "inspect"} : Fail(o, r) /\ End(t)
  <2>1. Alone(t) /\ Knows(thread[t])'
    BY <1>3, Ends, IdleType DEF Knows
  <2>2. Elsewhere(o) /\ events' = events
    BY <1>0, <1>1, <1>3, Failed DEF Results
  <2>3. \A a \in Attempts : a[1] = o => applied[a] = None
    BY <1>1 DEF Unclaimed
  <2> QED
    BY <1>0, <1>1, <2>1, <2>2, <2>3, OfflineKept
<1> QED
  BY <1>2, <1>3 DEF Check

\* A claim event is written for an update that the marker proves.
LEMMA FinalizeKept ==
  ASSUME TInv, PInv, NEW t \in Threads, NEW o \in Ops, NEW n, NEW m, NEW recovered \in BOOLEAN,
         Finalize(o, n, m, recovered), applied[<<o, op[o].nonce>>] = op[o].manager, End(t), Offline
  PROVE  PInv'
<1>1. /\ Elsewhere(o) /\ op'[o].status = "succeeded"
      /\ op'[o].manager = op[o].manager /\ op'[o].nonce = op[o].nonce
      /\ \A e \in events' : e \in events \/ applied[<<e.op, e.nonce>>] = e.manager
  BY Finalized DEF TInv
<1>2. Alone(t) /\ Knows(thread[t])' /\ UNCHANGED <<crm, applied, inflight>>
  BY Ends, IdleType DEF Knows, Offline
<1> QED
  BY <1>1, <1>2, OfflineKept

\* The ends of a call
LEMMA LastKept ==
  ASSUME TInv, PInv, NEW t \in Threads,
         GiveUp(t) \/ Verify(t) \/ SettleDone(t) \/ SettleFailed(t) \/ Blame(t)
  PROVE  PInv'
<1> PICK o : o = thread[t].op
  OBVIOUS
<1>0. JInv /\ Offline /\ End(t) /\ thread[t].pc # "idle"
  BY DEF GiveUp, Verify, SettleDone, SettleFailed, Blame, TInv
<1>1. o \in Ops
  BY <1>0, Worker
<1>2. CASE Stutter \/ Unconfirmed(o)
  BY <1>0, <1>1, <1>2, EndsKept DEF Offline
<1>3. ASSUME Verify(t), ~Unconfirmed(o) PROVE PInv'
  <2>1. /\ crm[DealOf(o)].marker = <<o, thread[t].nonce>> /\ thread[t].pc = "verify"
        /\ Finalize(o, thread[t].nonce, thread[t].manager, FALSE)
    BY <1>3 DEF Verify, Deal, Marker
  <2>2. op[o].status = "pending" /\ thread[t].nonce = op[o].nonce
    BY <1>0, <2>1, Worker DEF Attempting
  <2>3. applied[<<o, op[o].nonce>>] = op[o].manager
    BY <1>1, <2>1, <2>2, MarkerProves DEF Confirmed
  <2> QED
    BY <1>0, <1>1, <2>1, <2>3, FinalizeKept
<1>4. CASE SettleDone(t)
  <2>1. thread[t].pc = "settle" /\ Finalize(o, thread[t].nonce, op[o].manager, TRUE)
    BY <1>4 DEF SettleDone
  <2>2. op[o].status = "pending" /\ thread[t].nonce = op[o].nonce /\ op[o].nonce \in Nonces
    BY <1>0, <2>1, Worker DEF Attempting
  <2>3. applied[<<o, op[o].nonce>>] # None
    BY <2>1, <2>2 DEF PInv, Known, Knows
  <2>4. PICK a \in Attempts : a = <<o, op[o].nonce>>
    BY <1>1, <2>2 DEF Attempts
  <2>5. applied[<<o, op[o].nonce>>] = op[o].manager
    BY <2>3, <2>4 DEF PInv, NoLostClaim
  <2> QED
    BY <1>0, <1>1, <2>1, <2>5, FinalizeKept
<1> QED
  BY <1>2, <1>3, <1>4 DEF GiveUp, Verify, SettleFailed, Blame

\* The sweep settles what the marker proves and releases what the unchanged deal
\* disproves.
LEMMA SweepKept ==
  ASSUME TInv, PInv, SweepConfirmed \/ SweepUnapplied
  PROVE  PInv'
<1> PICK o : o = thread[Sweeper].op
  OBVIOUS
<1>0. JInv /\ Sweeper \in Threads /\ thread[Sweeper].pc = "listed" /\ op[o].status \in {"pending", "failed"}
      /\ UNCHANGED <<crm, applied, inflight>>
  BY DEF SweepConfirmed, SweepUnapplied, StillListed, Entered, Threads, TInv, Offline
<1>1. o \in Ops /\ thread[Sweeper].manager \in Managers
  BY <1>0, Worker
<1>2. op[o].nonce \in 0..MaxAttempts /\ op[o].nonce \in Nonces
  BY <1>0, <1>1, RowWritten, JournalAssumption DEF Nonces
<1>3. ASSUME NEW confirmed \in BOOLEAN, NEW pc \in {"settle", "release"},
             Reopen(o, confirmed), Proceed(pc), crm[DealOf(o)].version >= o[2],
             pc = "settle" => applied[<<o, op[o].nonce>>] # None,
             pc = "release" => applied[<<o, op[o].nonce>>] = None
      PROVE  PInv'
  <2>1. /\ Alone(Sweeper) /\ thread'[Sweeper].pc = pc /\ thread'[Sweeper].op = o
        /\ thread'[Sweeper].nonce = op[o].nonce
    BY <1>1, <1>2, <1>3, Proceeds DEF PCs
  <2>2. Knows(thread[Sweeper])'
    BY <1>0, <1>1, <1>3, <2>1 DEF Knows
  <2>3. CASE Stutter
    BY <1>0, <1>1, <2>1, <2>2, <2>3, Untouched, OfflineKept DEF Touched, Unresolved
  <2>4. CASE RetrySame(o, op[o].manager, confirmed, FALSE)
    <3>1. Elsewhere(o) /\ events' = events /\ op'[o].status = "pending"
          /\ op'[o].manager = op[o].manager /\ op'[o].nonce = op[o].nonce
      BY <1>0, <1>1, <2>4, Reopened
    <3> QED
      BY <1>0, <1>1, <2>1, <2>2, <3>1, OfflineKept DEF Unresolved
  <2> QED
    BY <1>3, <2>3, <2>4 DEF Reopen
<1>4. CASE SweepConfirmed
  <2>1. Confirmed(o, crm[DealOf(o)]) /\ Reopen(o, TRUE) /\ Proceed("settle")
    BY <1>4 DEF SweepConfirmed, Deal
  <2>2. applied[<<o, op[o].nonce>>] # None /\ crm[DealOf(o)].version >= o[2]
    BY <1>0, <1>1, <2>1, MarkerProves
  <2> QED
    BY <1>3, <2>1, <2>2
<1>5. CASE SweepUnapplied
  <2>1. Unchanged(o, crm[DealOf(o)]) /\ Reopen(o, FALSE) /\ Proceed("release")
    BY <1>5 DEF SweepUnapplied, Deal, Unapplied
  <2>2. PICK a \in Attempts : a = <<o, op[o].nonce>>
    BY <1>1, <1>2 DEF Attempts
  <2>3. applied[<<o, op[o].nonce>>] = None
    BY <1>1, <2>1, <2>2, NotApplied
  <2>4. crm[DealOf(o)].version >= o[2]
    BY <1>1, <2>1, VersionType DEF Unchanged
  <2> QED
    BY <1>3, <2>1, <2>3, <2>4
<1> QED
  BY <1>4, <1>5

\* The other steps of the sweep
LEMMA SweeperKept ==
  ASSUME TInv, PInv, SweepConflict \/ Release \/ SweepSkip \/ \E o \in Ops : Sweep(o)
  PROVE  PInv'
<1>0. JInv /\ Sweeper \in Threads /\ UNCHANGED <<crm, applied, inflight>>
  BY DEF SweepConflict, Release, SweepSkip, Sweep, TInv, Threads, Offline
<1>1. CASE SweepConflict \/ SweepSkip
  <2>1. thread[Sweeper].op \in Ops
    BY <1>0, <1>1, Worker DEF SweepConflict, SweepSkip, StillListed, Entered
  <2> QED
    BY <1>0, <1>1, <2>1, EndsKept DEF SweepConflict, SweepSkip
<1>2. CASE Release
  <2> PICK o : o = thread[Sweeper].op
    OBVIOUS
  <2>1. o \in Ops /\ Fail(o, "safe") /\ End(Sweeper) /\ thread[Sweeper].pc = "release"
        /\ thread[Sweeper].nonce = op[o].nonce
    BY <1>0, <1>2, Worker DEF Release, Attempting
  <2>2. Elsewhere(o) /\ events' = events
    BY <1>0, <2>1, Failed DEF Results
  <2>3. applied[<<o, op[o].nonce>>] = None
    BY <1>0, <2>1 DEF PInv, Known, Knows
  <2>4. \A a \in Attempts : a[1] = o => applied[a] = None
    BY <2>3, AttemptPair DEF PInv, NoLostClaim
  <2>5. Alone(Sweeper) /\ Knows(thread[Sweeper])'
    BY <1>0, <2>1, Ends, IdleType DEF Knows
  <2> QED
    BY <1>0, <2>1, <2>2, <2>4, <2>5, OfflineKept
<1>3. ASSUME NEW o \in Ops, Sweep(o) PROVE PInv'
  <2>1. Stutter /\ Alone(Sweeper) /\ thread'[Sweeper].pc = "listed"
    BY <1>0, <1>3 DEF Sweep, Alone, Idle, TInv, ProtocolTypeOK
  <2>2. Knows(thread[Sweeper])'
    BY <2>1 DEF Knows
  <2> QED
    BY <1>0, <2>1, <2>2, Untouched, OfflineKept DEF Touched, Unresolved
<1> QED
  BY <1>1, <1>2, <1>3

\* The update: it is the first of its deal, and leaves a pending row behind.
LEMMA WriteKept ==
  ASSUME ~LateWrites, TInv, PInv, NEW t \in Threads, Write(t)
  PROVE  PInv'
<1> PICK o : o = thread[t].op
  OBVIOUS
<1> PICK m : m = thread[t].manager
  OBVIOUS
<1> PICK a : a = Marker(t)
  OBVIOUS
<1>0. JInv /\ thread[t].pc = "write" /\ op' = op /\ events' = events /\ Inside(t)
  BY DEF Write, Stutter, journalVars, TInv, Inside
<1>1. o \in Ops /\ m \in Managers /\ op[o].status = "pending" /\ thread[t].nonce = op[o].nonce
      /\ op[o].nonce \in Nonces
  BY <1>0, Worker DEF Attempting
<1>2. op[o].manager = m
  BY <1>0 DEF TInv, Working, Works
<1>3. a \in Attempts /\ a = <<o, op[o].nonce>> /\ a[1] = o
  BY <1>1 DEF Marker, Attempts
<1>4. /\ Alone(t) /\ thread'[t].pc = "verify" /\ thread'[t].op = o
  BY Goes DEF Write, PCs
<1>5. crm[DealOf(o)].version >= o[2] /\ Unclaimed(DealOf(o))
  BY <1>0 DEF PInv, Known, Knows
<1>6. inflight' = {}
  BY DEF Write, PInv
<1>7. CASE UNCHANGED <<crm, applied, inflight>>
  <2>1. Knows(thread[t])'
    BY <1>4, <1>5, <1>7 DEF Knows
  <2> QED
    BY <1>0, <1>1, <1>4, <1>7, <2>1, OfflineKept DEF Elsewhere, Unresolved
<1>8. CASE Apply(a, m)
  <2> PICK d : d = DealOf(o)
    OBVIOUS
  <2>0. m # None /\ d \in Deals /\ DealOf(a[1]) = d /\ crm[d].version \in Nat /\ o[2] \in Nat
    BY <1>1, <1>3, JournalAssumption, VersionType
  <2>1. /\ crm'[d].version = crm[d].version + 1 /\ crm'[d].marker = a
        /\ \A e \in Deals : e # d => crm'[e] = crm[e]
    BY <1>8, <2>0 DEF Apply, TInv, ProtocolTypeOK
  <2>2. applied'[a] = m /\ \A b \in Attempts : b # a => applied'[b] = applied[b]
    BY <1>3, <1>8 DEF Apply, TInv, ProtocolTypeOK
  <2>3. \A b \in Attempts : DealOf(b[1]) = d /\ applied'[b] # None => b = a
    BY <1>5, <2>2 DEF Unclaimed
  <2>4. Newer'
    <3>1. SUFFICES ASSUME NEW b \in Attempts, applied'[b] # None
                   PROVE  crm'[DealOf(b[1])].version > b[1][2]
      BY DEF Newer
    <3>2. CASE b = a
      BY <1>3, <1>5, <2>0, <2>1, <3>2
    <3>3. CASE b # a
      <4>1. DealOf(b[1]) \in Deals /\ DealOf(b[1]) # d /\ applied[b] # None
        BY <2>2, <2>3, <3>1, <3>3, AttemptPair
      <4> QED
        BY <2>1, <4>1 DEF PInv, Newer
    <3> QED
      BY <3>2, <3>3
  <2>5. MarkersTrue'
    <3>1. SUFFICES ASSUME NEW e \in Deals, crm'[e].marker \in Attempts
                   PROVE  DealOf(crm'[e].marker[1]) = e /\ applied'[crm'[e].marker] # None
      BY DEF MarkersTrue
    <3>2. CASE e = d
      BY <2>0, <2>1, <2>2, <3>2
    <3>3. CASE e # d
      BY <2>0, <2>1, <2>2, <3>1, <3>3 DEF PInv, MarkersTrue
    <3> QED
      BY <3>2, <3>3
  <2>6. Known'
    <3>1. Knows(thread[t])'
      BY <1>4, <1>5, <2>0, <2>1 DEF Knows
    <3>2. ASSUME NEW u \in Threads \ {t} PROVE Knows(thread[u])'
      <4>1. thread'[u] = thread[u] /\ Knows(thread[u])
        BY <1>4 DEF Alone, PInv, Known
      <4>2. CASE ~Inside(u)
        BY <4>1, <4>2 DEF Knows, Inside
      <4>3. CASE Inside(u)
        <5>1. DealOf(thread[u].op) # d
          BY <1>0, <4>3 DEF TInv, Apart
        <5>2. thread[u].op \in Ops /\ DealOf(thread[u].op) \in Deals
          BY <4>3, Worker, VersionType DEF Inside
        <5>3. crm'[DealOf(thread[u].op)] = crm[DealOf(thread[u].op)]
          BY <2>1, <5>1, <5>2
        <5>4. Unclaimed(DealOf(thread[u].op)) => Unclaimed(DealOf(thread[u].op))'
          BY <2>0, <2>2, <4>1, <5>1 DEF Unclaimed
        <5>5. thread[u].pc \in {"release", "settle"} =>
                applied'[<<thread[u].op, thread[u].nonce>>] = applied[<<thread[u].op, thread[u].nonce>>]
          <6>1. thread[u].pc \in {"release", "settle"} => <<thread[u].op, thread[u].nonce>> \in Attempts
            BY <5>2, Worker DEF Attempting, Attempts
          <6>2. <<thread[u].op, thread[u].nonce>> # a
            BY <1>3, <5>1
          <6> QED
            BY <2>2, <6>1, <6>2
        <5> QED
          BY <4>1, <5>3, <5>4, <5>5 DEF Knows
      <4> QED
        BY <4>2, <4>3
    <3> QED
      BY <3>1, <3>2 DEF Known
  <2>7. OneAppliedClaim'
    <3>1. SUFFICES ASSUME NEW b \in Attempts, NEW c \in Attempts, DealOf(b[1]) = DealOf(c[1]),
                          applied'[b] # None, applied'[c] # None
                   PROVE  b = c
      BY DEF OneAppliedClaim
    <3>2. CASE DealOf(b[1]) = d
      BY <2>3, <3>1, <3>2
    <3>3. CASE DealOf(b[1]) # d
      BY <2>0, <2>2, <3>1, <3>3 DEF PInv, OneAppliedClaim
    <3> QED
      BY <3>2, <3>3
  <2>8. NoLostClaim'
    <3>1. SUFFICES ASSUME NEW b \in Attempts, applied'[b] # None
                   PROVE  /\ op[b[1]].nonce = b[2] /\ op[b[1]].manager = applied'[b]
                          /\ op[b[1]].status = "succeeded" \/ Unresolved(b[1])
      BY <1>0 DEF NoLostClaim, Unresolved
    <3>2. CASE b = a
      BY <1>1, <1>2, <1>3, <2>2, <3>2 DEF Unresolved
    <3>3. CASE b # a
      BY <2>2, <3>1, <3>3 DEF PInv, NoLostClaim
    <3> QED
      BY <3>2, <3>3
  <2>9. AuditApplied'
    <3>1. SUFFICES ASSUME NEW e \in events PROVE applied'[<<e.op, e.nonce>>] = e.manager
      BY <1>0 DEF AuditApplied
    <3>2. PICK b \in Attempts : b = <<e.op, e.nonce>>
      BY <1>0 DEF JInv, TypeOK, Events, Attempts
    <3>3. applied[b] = e.manager /\ e.manager # None
      BY <1>0, <3>2, JournalAssumption DEF PInv, AuditApplied, JInv, TypeOK, Events
    <3>4. b # a
      BY <1>3, <1>5, <2>0, <3>3 DEF Unclaimed
    <3> QED
      BY <2>2, <3>2, <3>3, <3>4
  <2> QED
    BY <1>6, <2>4, <2>5, <2>6, <2>7, <2>8, <2>9 DEF PInv
<1> QED
  BY <1>7, <1>8 DEF Write

\* People and robots do not lower the version of a deal nor write the marker of
\* an attempt.
LEMMA EditKept ==
  ASSUME TInv, PInv, UNCHANGED <<op, events, applied, inflight, thread>>,
         NEW d \in Deals, \A e \in Deals : e # d => crm'[e] = crm[e],
         crm'[d].version \in Nat, crm'[d].version >= crm[d].version,
         crm'[d].marker \in {crm[d].marker, None, Foreign}
  PROVE  PInv'
<1>0. crm[d].version \in Nat
  BY ProtocolAssumption DEF TInv, ProtocolTypeOK
<1>1. \A o \in Ops : crm[DealOf(o)].version >= o[2] => crm'[DealOf(o)].version >= o[2]
  BY <1>0, VersionType
<1>2. \A o \in Ops : crm[DealOf(o)].version > o[2] => crm'[DealOf(o)].version > o[2]
  BY <1>0, VersionType
<1>3. Newer'
  BY <1>2, AttemptPair DEF PInv, Newer
<1>4. MarkersTrue'
  BY ProtocolAssumption DEF PInv, MarkersTrue
<1>5. Known'
  <2>1. SUFFICES ASSUME NEW t \in Threads, Knows(thread[t]) PROVE Knows(thread[t])'
    BY DEF PInv, Known
  <2>2. thread[t].pc # "idle" => thread[t].op \in Ops
    BY Worker
  <2> QED
    BY <1>1, <2>1, <2>2 DEF Knows, Unclaimed
<1>6. inflight' = {} /\ OneAppliedClaim' /\ NoLostClaim' /\ AuditApplied'
  BY DEF PInv, OneAppliedClaim, NoLostClaim, AuditApplied, Unresolved
<1> QED
  BY <1>3, <1>4, <1>5, <1>6 DEF PInv

\* The second layer is inductive when no update arrives late.
LEMMA AppliedStep ==
  ASSUME ~LateWrites, TInv, PInv, [Next]_vars
  PROVE  PInv'
<1>1. CASE \E t \in Threads : Step(t)
  BY <1>1, RecoverKept, ReserveKept, CheckKept, WriteKept, LastKept DEF Step
<1>2. CASE SweeperStep \/ SweepSkip \/ \E o \in Ops : Sweep(o)
  BY <1>2, SweepKept, SweeperKept DEF SweeperStep
<1>3. ASSUME NEW d \in Deals, NEW s \in Stages, NEW k \in {crm[d].marker, None, Foreign}, Edit(d, s, k)
      PROVE  PInv'
  <2>1. crm[d].version \in Nat
    BY ProtocolAssumption DEF TInv, ProtocolTypeOK
  <2>2. /\ \A e \in Deals : e # d => crm'[e] = crm[e]
        /\ crm'[d].version = crm[d].version + 1
        /\ crm'[d].marker \in {crm[d].marker, None, Foreign}
    BY <1>3 DEF Edit, TInv, ProtocolTypeOK
  <2>3. UNCHANGED <<op, events, thread, applied, inflight>>
    BY <1>3 DEF Edit, Stutter, journalVars
  <2> QED
    BY <2>1, <2>2, <2>3, EditKept
<1>4. ASSUME NEW d \in Deals, EditSameSecond(d) PROVE PInv'
  <2>1. crm[d].version \in Nat
    BY ProtocolAssumption DEF TInv, ProtocolTypeOK
  <2>2. /\ \A e \in Deals : e # d => crm'[e] = crm[e]
        /\ crm'[d].version = crm[d].version /\ crm'[d].marker = Foreign
    BY <1>4 DEF EditSameSecond, TInv, ProtocolTypeOK
  <2>3. UNCHANGED <<op, events, thread, applied, inflight>>
    BY <1>4 DEF EditSameSecond, Stutter, journalVars
  <2> QED
    BY <2>1, <2>2, <2>3, EditKept
<1>5. \A a \in Attempts, m \in Managers : ~Land(a, m)
  BY DEF Land, PInv
<1>6. CASE Crash
  <2>1. thread' = [t \in Threads |-> Idle] /\ UNCHANGED <<crm, applied, inflight, op, events>>
    BY <1>6 DEF Crash, Stutter, journalVars
  <2> QED
    BY <2>1, IdleType DEF PInv, Newer, MarkersTrue, Known, Knows, OneAppliedClaim, NoLostClaim,
                          Unresolved, AuditApplied
<1>7. CASE (\E g \in Grants : Import(g)) \/ (\E o \in Ops : Age(o)) \/ UNCHANGED vars
  <2>1. UNCHANGED <<crm, applied, inflight, op, events, thread>>
    BY <1>7 DEF Import, ApproveGrant, ExpireGrant, Age, protocolVars, vars, journalVars
  <2> QED
    BY <2>1 DEF PInv, Newer, MarkersTrue, Known, Knows, Unclaimed, OneAppliedClaim, NoLostClaim,
                Unresolved, AuditApplied
<1> QED
  BY <1>1, <1>2, <1>3, <1>4, <1>5, <1>6, <1>7, StartKept DEF Next

-----------------------------------------------------------------------------
(* The first state, and what holds of every behavior.                      *)

\* The first state
LEMMA InitHolds ==
  ASSUME Init
  PROVE  TInv /\ PInv
<1>1. JInv
  BY JournalInitJInv DEF Init
<1>2. /\ thread = [t \in Threads |-> Idle] /\ applied = [a \in Attempts |-> None]
      /\ crm = [d \in Deals |-> [stage |-> "source", version |-> 1, marker |-> None]]
      /\ inflight = {} /\ stale = {} /\ crashes = 0 /\ events = {}
  BY DEF Init, JournalInit
<1>3. ProtocolTypeOK
  BY <1>2, IdleType, ProtocolAssumption DEF ProtocolTypeOK, ThreadStates, Stages
<1>4. Working /\ Apart
  BY <1>2, IdleType DEF Working, Works, Apart, Inside, Attempting
<1>5. Newer /\ Known /\ AuditApplied /\ OneAppliedClaim /\ NoLostClaim
  BY <1>2, IdleType DEF Newer, Known, Knows, AuditApplied, OneAppliedClaim, NoLostClaim
<1>6. MarkersTrue
  BY <1>2, ProtocolAssumption DEF MarkersTrue
<1> QED
  BY <1>1, <1>2, <1>3, <1>4, <1>5, <1>6 DEF TInv, PInv

\* The first layer always holds.
LEMMA TypedInvariance == ProtocolSpec => []TInv
BY InitHolds, TypedStep, PTL DEF ProtocolSpec

\* The second layer always holds when no update arrives late.
LEMMA AppliedInvariance == ASSUME ~LateWrites PROVE ProtocolSpec => [](TInv /\ PInv)
<1>1. ~LateWrites
  OBVIOUS
<1>2. Init => TInv /\ PInv
  BY InitHolds
<1>3. TInv /\ PInv /\ [Next]_vars => TInv' /\ PInv'
  BY <1>1, TypedStep, AppliedStep
<1> QED
  BY <1>2, <1>3, PTL DEF ProtocolSpec

\* The types.
\* The types: every row, deal, grant and thread is one the code knows, whatever
\* requests, sweeps, crashes, edits and late updates happen.
THEOREM ProtocolTypeCorrect == ProtocolSpec => []ProtocolTypeOK
<1>1. TInv => ProtocolTypeOK
  BY DEF TInv
<1> QED
  BY <1>1, TypedInvariance, PTL

\* A deal is written for a claim at most once: fences, the lease and the checks of
\* the live deal let no second attempt's update through, if none arrives late.
THEOREM WrittenOnce == ASSUME ~LateWrites PROVE ProtocolSpec => []OneAppliedClaim
<1>1. PInv => OneAppliedClaim
  BY DEF PInv
<1> QED
  BY <1>1, AppliedInvariance, PTL

\* No claim gets lost: an update that was applied belongs to the current attempt
\* of its operation, which succeeded or still blocks, across crashes, lost answers
\* and retries, if no update arrives late.
THEOREM ClaimsKept == ASSUME ~LateWrites PROVE ProtocolSpec => []NoLostClaim
<1>1. PInv => NoLostClaim
  BY DEF PInv
<1> QED
  BY <1>1, AppliedInvariance, PTL

-----------------------------------------------------------------------------
(* The quota: what a live attempt was given.                               *)

\* A step that makes no attempt live and writes no claim event.
Shrinks == \A p \in Ops : Live(p)' =>
             Live(p) /\ op'[p].manager = op[p].manager /\ op'[p].grant = op[p].grant

\* Such a step keeps the third layer if no request newly passes the checks.
LEMMA QuotaKept ==
  ASSUME QInv, Shrinks, events' = events,
         \A t \in Threads : thread'[t] = thread[t] \/ Checked(thread[t])'
  PROVE  QInv'
<1>1. OneLive'
  BY DEF QInv, OneLive, Shrinks
<1>2. \A m \in Managers \cup {None} : TakenToday(m)' = TakenToday(m)
  BY DEF TakenToday
<1>3. LivePaid'
  <2>1. SUFFICES ASSUME NEW p \in Ops, Live(p)' PROVE Paid(p)'
    BY DEF LivePaid
  <2>2. Paid(p) /\ op'[p].manager = op[p].manager /\ op'[p].grant = op[p].grant
    BY <2>1 DEF QInv, LivePaid, Shrinks
  <2> QED
    BY <2>2 DEF Paid, TakenToday
<1>4. WithinLimit'
  BY DEF QInv, WithinLimit, FreeClaims
<1>5. Checks'
  <2>1. SUFFICES ASSUME NEW t \in Threads, thread'[t] = thread[t] PROVE Checked(thread[t])'
    BY DEF Checks
  <2>2. Checked(thread[t])
    BY DEF QInv, Checks
  <2> QED
    BY <2>1, <2>2 DEF Checked, TakenToday, Shrinks
<1> QED
  BY <1>1, <1>3, <1>4, <1>5 DEF QInv

\* A thread moves, and at most its own row changes.
LEMMA NotMade ==
  ASSUME applied' = applied, NEW t \in Threads, Alone(t), NEW o \in Ops, Elsewhere(o),
         thread'[t].pc \in {"check", "write"} =>
           thread[t].pc \in {"check", "write"} /\ thread'[t].op = thread[t].op,
         Live(o)' => Live(o) /\ op'[o].manager = op[o].manager /\ op'[o].grant = op[o].grant
  PROVE  Shrinks
<1>1. SUFFICES ASSUME NEW p \in Ops \ {o}, Live(p)' PROVE Live(p)
  BY DEF Shrinks, Elsewhere
<1>2. op'[p] = op[p]
  BY DEF Elsewhere
<1>3. \A u \in Threads : thread'[u].op = p /\ thread'[u].pc \in {"check", "write"} =>
        thread[u].op = p /\ thread[u].pc \in {"check", "write"}
  BY DEF Alone
<1> QED
  BY <1>1, <1>2, <1>3 DEF Live, Unresolved

\* A row that stays as it was, or becomes uncertain.
LEMMA StaysLive ==
  ASSUME TInv, applied' = applied, NEW t \in Threads, Alone(t), NEW o \in Ops,
         Stutter \/ Unconfirmed(o),
         thread'[t].pc \in {"check", "write"} =>
           thread[t].pc \in {"check", "write"} /\ thread'[t].op = thread[t].op
  PROVE  Shrinks /\ events' = events
<1>0. JInv /\ "uncertain" \in Results
  BY DEF TInv, Results
<1>1. /\ Elsewhere(o) /\ events' = events
      /\ op'[o].nonce = op[o].nonce /\ op'[o].manager = op[o].manager /\ op'[o].grant = op[o].grant
      /\ op[o].status = "pending" \/ op' = op
  BY <1>0, Untouched, Failed DEF Unconfirmed, Touched
<1>2. \A u \in Threads : thread'[u].op = o /\ thread'[u].pc \in {"check", "write"} =>
        thread[u].op = o /\ thread[u].pc \in {"check", "write"}
  BY DEF Alone
<1>3. Live(o)' => Live(o)
  BY <1>1, <1>2 DEF Live, Unresolved
<1> QED
  BY <1>1, <1>3, NotMade

\* The call of thread t ends so, or goes on without a new attempt.
LEMMA StaysWithin ==
  ASSUME TInv, QInv, applied' = applied, NEW t \in Threads, Alone(t), NEW o \in Ops,
         Stutter \/ Unconfirmed(o), thread'[t].pc # "read",
         thread'[t].pc \in {"check", "write"} =>
           thread[t].pc \in {"check", "write"} /\ thread'[t].op = thread[t].op
  PROVE  QInv'
<1>1. \A u \in Threads : thread'[u] = thread[u] \/ Checked(thread[u])'
  BY DEF Alone, Checked
<1> QED
  BY <1>1, StaysLive, QuotaKept

\* A call ends, having written nothing or that it is uncertain.
LEMMA EndsWithin ==
  ASSUME TInv, QInv, applied' = applied, NEW t \in Threads, End(t), NEW o \in Ops,
         Stutter \/ Unconfirmed(o)
  PROVE  QInv'
BY Ends, IdleType, StaysWithin

\* The fences of the request are free, and the employee has no other open claim.
LEMMA StartWithin ==
  ASSUME TInv, QInv, NEW t \in Requests, NEW m \in Managers, NEW o \in Ops, Start(t, m, o)
  PROVE  QInv'
<1>0. JInv /\ t \in Threads /\ applied' = applied /\ "uncertain" \in Results
  BY DEF TInv, Threads, Start, Offline, Results
<1>1. /\ Alone(t) /\ thread'[t].pc = "read" /\ thread'[t].op = o /\ thread'[t].manager = m
      /\ thread'[t].need = LimitReached(m)
  BY <1>0 DEF Start, Alone, TInv, ProtocolTypeOK
<1>2. Stutter \/ Unconfirmed(o)
  BY DEF Start
<1>3. Shrinks /\ events' = events
  BY <1>0, <1>1, <1>2, StaysLive
<1>4. Elsewhere(o)
  BY <1>0, <1>2, Untouched, Failed DEF Unconfirmed, Touched
<1>5. Checked(thread[t])'
  <2>1. ASSUME NEW p \in Ops \ {o}, op'[p].manager = m PROVE ~Live(p)'
    <3>1. op'[p] = op[p]
      BY <1>4 DEF Elsewhere
    <3>2. ~Unresolved(p)
      BY <2>1, <3>1 DEF Start
    <3> QED
      BY <3>1, <3>2 DEF Live, Unresolved
  <2>2. ~LimitReached(m) => TakenToday(m)' < DailyLimit
    <3>1. IsFiniteSet({e \in events : e.manager = m})
      BY FS_Subset DEF QInv, WithinLimit
    <3>2. TakenToday(m) \in Nat /\ TakenToday(m)' = TakenToday(m)
      BY <1>3, <3>1, FS_CardinalityType DEF TakenToday
    <3> QED
      BY <3>2, ProtocolAssumption DEF LimitReached
  <2> QED
    BY <1>1, <2>1, <2>2 DEF Checked, TakenToday
<1>6. \A u \in Threads : thread'[u] = thread[u] \/ Checked(thread[u])'
  BY <1>1, <1>5 DEF Alone
<1> QED
  BY <1>3, <1>6, QuotaKept

\* A row reopened for the attempt it had.
LEMMA ReopenedWithin ==
  ASSUME TInv, PInv, QInv, applied' = applied, NEW t \in Threads, Alone(t), NEW o \in Ops,
         NEW confirmed \in BOOLEAN, RetrySame(o, op[o].manager, confirmed, FALSE),
         thread'[t].pc \notin {"read", "check", "write"}
  PROVE  QInv'
<1>0. JInv
  BY DEF TInv
<1>1. Elsewhere(o) /\ events' = events /\ op[o].status = "failed"
      /\ op'[o].manager = op[o].manager /\ op'[o].nonce = op[o].nonce /\ op'[o].grant = op[o].grant
  BY <1>0, Reopened
<1>2. Live(o)' => Live(o)
  <2>1. \A u \in Threads : thread'[u].op = o => thread'[u].pc \notin {"check", "write"}
    BY <1>1 DEF TInv, Working, Works, Attempting, Alone
  <2>2. SUFFICES ASSUME applied[<<o, op[o].nonce>>] # None PROVE Live(o)
    BY <1>1, <2>1 DEF Live
  <2>3. PICK a \in Attempts : a = <<o, op[o].nonce>>
    BY <1>0, <1>1, RowWritten DEF Attempts
  <2>4. Unresolved(o)
    BY <1>1, <2>2, <2>3 DEF PInv, NoLostClaim
  <2> QED
    BY <2>2, <2>4 DEF Live
<1>3. Shrinks
  BY <1>1, <1>2, NotMade
<1>4. \A u \in Threads : thread'[u] = thread[u] \/ Checked(thread[u])'
  BY DEF Alone, Checked
<1> QED
  BY <1>1, <1>3, <1>4, QuotaKept

\* A request reopens a row.
LEMMA RecoverWithin ==
  ASSUME TInv, PInv, QInv, NEW t \in Threads, Recover(t) \/ Ambiguous(t)
  PROVE  QInv'
<1> PICK o : o = thread[t].op
  OBVIOUS
<1>0. JInv /\ thread[t].pc = "read" /\ op[o].status = "failed" /\ applied' = applied
  BY DEF Recover, Ambiguous, TInv, Offline
<1>1. o \in Ops
  BY <1>0, Worker
<1>2. PICK confirmed \in BOOLEAN : RetrySame(o, op[o].manager, confirmed, FALSE)
  BY DEF Recover, Ambiguous
<1>3. Alone(t) /\ thread'[t].pc \in {"settle", "blame"}
  <2>1. CASE Recover(t)
    <3>1. PICK n \in 0..MaxAttempts : n = op[o].nonce
      BY <1>0, <1>1, RowWritten, JournalAssumption DEF Nonces
    <3>2. TakesUp(t, "settle", n) /\ "settle" \in PCs
      BY <2>1, <3>1 DEF Recover, PCs, TakesUp
    <3> QED
      BY <3>2, Taken
  <2>2. CASE Ambiguous(t)
    BY <2>2, Goes DEF Ambiguous, PCs
  <2> QED
    BY <2>1, <2>2
<1> QED
  BY <1>0, <1>1, <1>2, <1>3, ReopenedWithin

\* The sweep reopens a row.
LEMMA SweepWithin ==
  ASSUME TInv, PInv, QInv, SweepConfirmed \/ SweepUnapplied
  PROVE  QInv'
<1> PICK o : o = thread[Sweeper].op
  OBVIOUS
<1>0. JInv /\ Sweeper \in Threads /\ thread[Sweeper].pc = "listed" /\ op[o].status \in {"pending", "failed"}
      /\ applied' = applied
  BY DEF SweepConfirmed, SweepUnapplied, StillListed, Entered, Threads, TInv, Offline
<1>1. o \in Ops /\ thread[Sweeper].manager \in Managers
  BY <1>0, Worker
<1>2. op[o].nonce \in 0..MaxAttempts
  BY <1>0, <1>1, RowWritten, JournalAssumption DEF Nonces
<1>3. PICK confirmed \in BOOLEAN, pc \in {"settle", "release"} : Reopen(o, confirmed) /\ Proceed(pc)
  BY DEF SweepConfirmed, SweepUnapplied
<1>4. Alone(Sweeper) /\ thread'[Sweeper].pc = pc
  BY <1>1, <1>2, <1>3, Proceeds DEF PCs
<1>5. CASE Stutter
  BY <1>0, <1>1, <1>4, <1>5, StaysWithin
<1>6. CASE RetrySame(o, op[o].manager, confirmed, FALSE)
  BY <1>0, <1>1, <1>4, <1>6, ReopenedWithin
<1> QED
  BY <1>3, <1>5, <1>6 DEF Reopen

\* A row failed as unapplied is not live.
LEMMA ReleasedWithin ==
  ASSUME TInv, QInv, applied' = applied, NEW t \in Threads, End(t), NEW o \in Ops,
         NEW r \in Results, Fail(o, r), ~Live(o)'
  PROVE  QInv'
<1>1. Elsewhere(o) /\ events' = events
  BY Failed DEF TInv
<1>2. Alone(t) /\ thread'[t].pc = "idle"
  BY Ends, IdleType
<1>3. Shrinks
  BY <1>1, <1>2, NotMade
<1>4. \A u \in Threads : thread'[u] = thread[u] \/ Checked(thread[u])'
  BY <1>2 DEF Alone, Checked
<1> QED
  BY <1>1, <1>3, <1>4, QuotaKept

\* The second look: a refused attempt was not applied and has no thread left.
LEMMA CheckWithin ==
  ASSUME TInv, PInv, QInv, NEW t \in Threads, Check(t)
  PROVE  QInv'
<1> PICK o : o = thread[t].op
  OBVIOUS
<1>0. JInv /\ thread[t].pc = "check" /\ applied' = applied /\ Inside(t)
  BY DEF Check, TInv, Offline, Inside
<1>1. o \in Ops /\ Unclaimed(DealOf(o)) /\ op[o].nonce \in Nonces
  BY <1>0, Worker DEF PInv, Known, Knows, Attempting
<1>2. CASE Goto(t, "write") /\ Stutter
  <2>1. Alone(t) /\ thread'[t].pc = "write" /\ thread'[t].op = o
    BY <1>2, Goes DEF PCs
  <2> QED
    BY <1>0, <1>1, <1>2, <2>1, StaysWithin
<1>3. ASSUME NEW r \in {"safe", "inspect"}, Fail(o, r), End(t)
      PROVE  QInv'
  <2>1. op'[o].nonce = op[o].nonce
    BY <1>0, <1>1, <1>3, Failed DEF Results
  <2>2. PICK a \in Attempts : a = <<o, op[o].nonce>>
    BY <1>1 DEF Attempts
  <2>3. applied'[<<o, op'[o].nonce>>] = None
    BY <1>0, <1>1, <2>1, <2>2 DEF Unclaimed
  <2>4. ASSUME NEW u \in Threads, thread'[u].op = o, thread'[u].pc \in {"check", "write"}
        PROVE  FALSE
    <3>1. u # t /\ thread'[u] = thread[u]
      BY <1>3, <2>4, Ends, IdleType DEF Alone
    <3> QED
      BY <1>0, <2>4, <3>1 DEF TInv, Apart, Inside
  <2>5. ~Live(o)'
    BY <2>3, <2>4 DEF Live
  <2> QED
    BY <1>0, <1>1, <1>3, <2>5, ReleasedWithin DEF Results
<1> QED
  BY <1>2, <1>3 DEF Check

\* The sweep releases an attempt.
LEMMA ReleaseWithin ==
  ASSUME TInv, QInv, Release
  PROVE  QInv'
<1> PICK o : o = thread[Sweeper].op
  OBVIOUS
<1>0. JInv /\ Sweeper \in Threads /\ applied' = applied /\ "safe" \in Results
  BY DEF Release, TInv, Threads, Offline, Results
<1>1. o \in Ops /\ Fail(o, "safe") /\ End(Sweeper)
  BY <1>0, Worker DEF Release
<1>2. ~Live(o)'
  BY <1>0, <1>1, Failed DEF Live, Unresolved
<1> QED
  BY <1>0, <1>1, <1>2, ReleasedWithin

\* The update is that of an attempt that was live already.
LEMMA WriteWithin ==
  ASSUME TInv, PInv, QInv, NEW t \in Threads, Write(t)
  PROVE  QInv'
<1> PICK o : o = thread[t].op
  OBVIOUS
<1>0. thread[t].pc = "write" /\ op' = op /\ events' = events /\ Stutter
  BY DEF Write, Stutter, journalVars
<1>1. o \in Ops /\ Marker(t) = <<o, op[o].nonce>> /\ Unresolved(o)
  BY <1>0, Worker DEF Attempting, Marker, Unresolved
<1>2. Alone(t) /\ thread'[t].pc = "verify"
  BY Goes DEF Write, PCs
<1>3. ASSUME NEW p \in Ops \ {o}, Unresolved(p)
      PROVE  applied'[<<p, op[p].nonce>>] = applied[<<p, op[p].nonce>>]
  <2>1. op[p].nonce \in Nonces
    BY <1>3, RowWritten DEF Unresolved, TInv
  <2>2. PICK b \in Attempts : b = <<p, op[p].nonce>>
    BY <2>1 DEF Attempts
  <2>3. b # Marker(t)
    BY <1>1, <1>3, <2>2
  <2> QED
    BY <2>2, <2>3 DEF Write, Apply, TInv, ProtocolTypeOK
<1>4. Live(o)
  BY <1>0, <1>1 DEF Live
<1>5. ASSUME NEW p \in Ops \ {o}, Live(p)' PROVE Live(p)
  BY <1>0, <1>2, <1>3, <1>5 DEF Live, Unresolved, Alone
<1>6. Shrinks
  BY <1>0, <1>4, <1>5 DEF Shrinks
<1>7. \A u \in Threads : thread'[u] = thread[u] \/ Checked(thread[u])'
  BY <1>2 DEF Alone, Checked
<1> QED
  BY <1>0, <1>6, <1>7, QuotaKept

\* The claim event of a live attempt: its employee has no other live attempt,
\* and no thread inside other fences counts his claims.
LEMMA FinalizeWithin ==
  ASSUME TInv, QInv, applied' = applied, NEW t \in Threads, Inside(t), End(t), NEW o \in Ops,
         thread[t].op = o, NEW n, NEW k, NEW recovered \in BOOLEAN,
         Finalize(o, n, k, recovered), applied[<<o, op[o].nonce>>] # None
  PROVE  QInv'
<1> DEFINE e == [op |-> o, manager |-> k, nonce |-> n, recovered |-> recovered, grant |-> op[o].grant]
<1>0. JInv
  BY DEF TInv
<1>1. /\ Elsewhere(o) /\ op[o].status = "pending" /\ op'[o].status = "succeeded"
      /\ k = op[o].manager /\ events' = events \cup {e}
  BY <1>0, Finalized
<1>2. Live(o) /\ Paid(o) /\ ~Live(o)'
  BY <1>1 DEF Live, Unresolved, QInv, LivePaid
<1>3. Alone(t) /\ thread'[t].pc = "idle"
  BY Ends, IdleType
<1>4. Shrinks
  BY <1>1, <1>2, <1>3, NotMade
<1>5. OneLive'
  BY <1>4 DEF QInv, OneLive, Shrinks
<1>6. \A m \in Managers \cup {None} : m # k => TakenToday(m)' = TakenToday(m)
  <2>1. SUFFICES ASSUME NEW m \in Managers \cup {None}, m # k
                 PROVE  {f \in events' : f.manager = m} = {f \in events : f.manager = m}
    BY DEF TakenToday
  <2>2. e.manager = k
    OBVIOUS
  <2> QED
    BY <1>1, <2>1, <2>2
<1>7. LivePaid'
  <2>1. SUFFICES ASSUME NEW p \in Ops, Live(p)' PROVE Paid(p)'
    BY DEF LivePaid
  <2>2. Live(p) /\ Paid(p) /\ op'[p].manager = op[p].manager /\ op'[p].grant = op[p].grant
    BY <2>1, <1>4 DEF QInv, LivePaid, Shrinks
  <2>3. p # o /\ op[p].manager # k
    BY <1>1, <1>2, <2>1, <2>2 DEF QInv, OneLive
  <2>4. op[p].manager \in Managers \cup {None}
    BY <1>0, RowShape DEF Rows, NoRow, WrittenRows
  <2>5. PICK m \in Managers \cup {None} : m = op[p].manager
    BY <2>4
  <2>6. TakenToday(m)' = TakenToday(m) /\ op'[p].manager = m
    BY <1>6, <2>2, <2>3, <2>5
  <2>7. op[p].grant # None \/ TakenToday(m)' < DailyLimit
    BY <2>2, <2>5, <2>6 DEF Paid
  <2> QED
    BY <2>2, <2>6, <2>7 DEF Paid, TakenToday
<1>8. IsFiniteSet(events) /\ IsFiniteSet(events')
  BY <1>1, FS_AddElement DEF QInv, WithinLimit
<1>9. WithinLimit'
  <2>1. SUFFICES ASSUME NEW m \in Managers PROVE Cardinality(FreeClaims(m)') <= DailyLimit
    BY <1>8 DEF WithinLimit, FreeClaims
  <2>2. Cardinality(FreeClaims(m)) <= DailyLimit
    BY DEF QInv, WithinLimit
  <2>3. CASE m # k \/ op[o].grant # None
    <3>1. e.manager = k /\ e.grant = op[o].grant
      OBVIOUS
    <3>2. FreeClaims(m)' = FreeClaims(m)
      BY <1>1, <2>3, <3>1 DEF FreeClaims
    <3> QED
      BY <2>2, <3>2
  <2>4. CASE m = k /\ op[o].grant = None
    <3> DEFINE T == {f \in events : f.manager = m}
    <3>1. Cardinality(T) < DailyLimit
      BY <1>1, <1>2, <2>4 DEF Paid, TakenToday
    <3>2. IsFiniteSet(T) /\ FreeClaims(m) \subseteq T
      BY <1>8, FS_Subset DEF FreeClaims
    <3>3. Cardinality(FreeClaims(m)) <= Cardinality(T) /\ IsFiniteSet(FreeClaims(m))
      BY <3>2, FS_Subset
    <3>4. FreeClaims(m)' \subseteq FreeClaims(m) \cup {e}
      BY <1>1 DEF FreeClaims
    <3>5. /\ IsFiniteSet(FreeClaims(m) \cup {e})
          /\ Cardinality(FreeClaims(m) \cup {e}) <= Cardinality(FreeClaims(m)) + 1
      <4>1. Cardinality(FreeClaims(m)) \in Nat
        BY <3>3, FS_CardinalityType
      <4> HIDE DEF e
      <4>2. IsFiniteSet(FreeClaims(m) \cup {e})
            /\ (Cardinality(FreeClaims(m) \cup {e}) = Cardinality(FreeClaims(m))
                \/ Cardinality(FreeClaims(m) \cup {e}) = Cardinality(FreeClaims(m)) + 1)
        BY <3>3, FS_AddElement
      <4> QED
        BY <4>1, <4>2
    <3>6. Cardinality(FreeClaims(m)') <= Cardinality(FreeClaims(m) \cup {e})
      BY <3>4, <3>5, FS_Subset
    <3>7. /\ Cardinality(FreeClaims(m)) \in Nat /\ Cardinality(T) \in Nat
          /\ Cardinality(FreeClaims(m) \cup {e}) \in Nat /\ Cardinality(FreeClaims(m)') \in Nat
      BY <3>2, <3>3, <3>4, <3>5, FS_Subset, FS_CardinalityType
    <3> QED
      BY <3>1, <3>3, <3>5, <3>6, <3>7, ProtocolAssumption
  <2> QED
    BY <2>3, <2>4
<1>10. Checks'
  <2>1. SUFFICES ASSUME NEW u \in Threads, thread'[u].pc = "read" PROVE Checked(thread[u])'
    BY DEF Checks, Checked
  <2>2. u # t /\ thread'[u] = thread[u] /\ Checked(thread[u])
    BY <1>3, <2>1 DEF Alone, QInv, Checks
  <2>3. thread[u].manager # k
    <3>1. Inside(u) /\ thread[u].fence \cap thread[t].fence = {} /\ thread[u].manager \in thread[u].fence
      BY <2>1, <2>2 DEF TInv, Apart, Inside, Working, Works
    <3>2. k \in thread[t].fence
      BY <1>1 DEF TInv, Working, Works, Inside
    <3> QED
      BY <3>1, <3>2
  <2>4. thread[u].manager \in Managers
    BY <2>1, <2>2, Worker
  <2>5. PICK m \in Managers \cup {None} : m = thread[u].manager
    BY <2>4
  <2>6. TakenToday(m)' = TakenToday(m) /\ thread'[u].manager = m
    BY <1>6, <2>2, <2>3, <2>5
  <2>7. ~thread[u].need => TakenToday(m)' < DailyLimit
    BY <2>1, <2>2, <2>5, <2>6 DEF Checked
  <2>8. \A p \in Ops \ {thread[u].op} : op'[p].manager = m => ~Live(p)'
    BY <1>4, <2>1, <2>2, <2>5 DEF Checked, Shrinks
  <2> QED
    BY <2>2, <2>6, <2>7, <2>8 DEF Checked, TakenToday
<1> QED
  BY <1>5, <1>7, <1>9, <1>10 DEF QInv

\* The ends of a call
LEMMA LastWithin ==
  ASSUME TInv, PInv, QInv, NEW t \in Threads,
         GiveUp(t) \/ Verify(t) \/ SettleDone(t) \/ SettleFailed(t) \/ Blame(t)
  PROVE  QInv'
<1> PICK o : o = thread[t].op
  OBVIOUS
<1>0. JInv /\ applied' = applied /\ End(t) /\ thread[t].pc # "idle" /\ Inside(t)
  BY DEF GiveUp, Verify, SettleDone, SettleFailed, Blame, TInv, Offline, Inside
<1>1. o \in Ops
  BY <1>0, Worker
<1>2. CASE Stutter \/ Unconfirmed(o)
  BY <1>0, <1>1, <1>2, EndsWithin
<1>3. ASSUME Verify(t), ~Unconfirmed(o) PROVE QInv'
  <2>1. /\ crm[DealOf(o)].marker = <<o, thread[t].nonce>> /\ thread[t].pc = "verify"
        /\ Finalize(o, thread[t].nonce, thread[t].manager, FALSE)
    BY <1>3 DEF Verify, Deal, Marker
  <2>2. op[o].status = "pending" /\ thread[t].nonce = op[o].nonce
    BY <1>0, <2>1, Worker DEF Attempting
  <2>3. applied[<<o, op[o].nonce>>] # None
    BY <1>1, <2>1, <2>2, MarkerProves DEF Confirmed
  <2> QED
    BY <1>0, <1>1, <2>1, <2>3, FinalizeWithin
<1>4. CASE SettleDone(t)
  <2>1. thread[t].pc = "settle" /\ Finalize(o, thread[t].nonce, op[o].manager, TRUE)
    BY <1>4 DEF SettleDone
  <2>2. thread[t].nonce = op[o].nonce
    BY <1>0, <2>1, Worker DEF Attempting
  <2>3. applied[<<o, op[o].nonce>>] # None
    BY <2>1, <2>2 DEF PInv, Known, Knows
  <2> QED
    BY <1>0, <1>1, <2>1, <2>3, FinalizeWithin
<1> QED
  BY <1>2, <1>3, <1>4 DEF GiveUp, Verify, SettleFailed, Blame

\* The lease is reserved: no other live attempt of the employee, and another
\* claim of his day is within the limit or has a grant.
LEMMA ReserveWithin ==
  ASSUME TInv, QInv, NEW t \in Threads, Reserve(t)
  PROVE  QInv'
<1> PICK o : o = thread[t].op
  OBVIOUS
<1> PICK m : m = thread[t].manager
  OBVIOUS
<1>0. JInv /\ thread[t].pc = "read" /\ applied' = applied /\ Inside(t)
  BY DEF Reserve, TInv, Offline, Inside
<1>1. o \in Ops /\ m \in Managers
  BY <1>0, Worker
<1>2. Reserving(o, m, thread[t].need)
  BY DEF Reserve, Reserving
<1>3. /\ Elsewhere(o) /\ events' = events /\ drawn'[o] \in Nonces /\ op'[o].manager = m
      /\ op'[o].grant = None => thread[t].need # TRUE
  BY <1>0, <1>1, <1>2, NewAttempt
<1>4. Alone(t) /\ thread'[t].pc = "check" /\ thread'[t].op = o
  <2>1. PICK n \in 0..MaxAttempts : n = drawn'[o]
    BY <1>3, JournalAssumption DEF Nonces
  <2>2. TakesUp(t, "check", n) /\ "check" \in PCs
    BY <2>1 DEF Reserve, PCs, TakesUp
  <2> QED
    BY <2>1, <2>2, Taken
<1>5. /\ ~thread[t].need => TakenToday(m) < DailyLimit
      /\ \A p \in Ops \ {o} : op[p].manager = m => ~Live(p)
  BY <1>0 DEF QInv, Checks, Checked
<1>6. ASSUME NEW p \in Ops \ {o} PROVE op'[p] = op[p] /\ (Live(p)' => Live(p))
  BY <1>0, <1>3, <1>4 DEF Elsewhere, Alone, Live, Unresolved
<1>7. OneLive'
  BY <1>3, <1>5, <1>6 DEF QInv, OneLive
<1>8. LivePaid'
  <2>1. SUFFICES ASSUME NEW p \in Ops, Live(p)' PROVE Paid(p)'
    BY DEF LivePaid
  <2>2. CASE p # o
    BY <1>3, <1>6, <2>1, <2>2 DEF QInv, LivePaid, Paid, TakenToday
  <2>3. CASE p = o
    <3>1. thread[t].need \in BOOLEAN
      BY <1>0, Worker
    <3>2. op'[o].grant # None \/ TakenToday(m) < DailyLimit
      BY <1>3, <1>5, <3>1
    <3> QED
      BY <1>3, <2>3, <3>2 DEF Paid, TakenToday
  <2> QED
    BY <2>2, <2>3
<1>9. WithinLimit'
  BY <1>3 DEF QInv, WithinLimit, FreeClaims
<1>10. Checks'
  <2>1. SUFFICES ASSUME NEW u \in Threads, thread'[u].pc = "read" PROVE Checked(thread[u])'
    BY DEF Checks, Checked
  <2>2. u # t /\ thread'[u] = thread[u] /\ Checked(thread[u])
    BY <1>4, <2>1 DEF Alone, QInv, Checks
  <2>3. thread[u].manager # m
    <3>1. Inside(u) /\ thread[u].fence \cap thread[t].fence = {} /\ thread[u].manager \in thread[u].fence
      BY <1>0, <2>1, <2>2 DEF TInv, Apart, Inside, Working, Works
    <3>2. m \in thread[t].fence
      BY <1>0 DEF TInv, Working, Works
    <3> QED
      BY <3>1, <3>2
  <2>4. \A p \in Ops \ {thread[u].op} : op'[p].manager = thread[u].manager => ~Live(p)'
    <3>1. SUFFICES ASSUME NEW p \in Ops \ {thread[u].op}, op'[p].manager = thread[u].manager
                   PROVE  ~Live(p)'
      OBVIOUS
    <3>2. p # o
      BY <1>3, <2>3, <3>1
    <3> QED
      BY <1>6, <2>1, <2>2, <3>1, <3>2 DEF Checked
  <2>5. ~thread[u].need => TakenToday(thread[u].manager) < DailyLimit
    BY <2>1, <2>2 DEF Checked
  <2> QED
    BY <1>3, <2>2, <2>4, <2>5 DEF Checked, TakenToday
<1> QED
  BY <1>7, <1>8, <1>9, <1>10 DEF QInv

\* The third layer is inductive.
LEMMA QuotaStep ==
  ASSUME TInv, PInv, QInv, [Next]_vars
  PROVE  QInv'
<1>0. Sweeper \in Threads
  BY DEF Threads
<1>1. CASE \E t \in Threads : Step(t)
  BY <1>1, RecoverWithin, ReserveWithin, CheckWithin, WriteWithin, LastWithin DEF Step
<1>2. CASE SweepConflict \/ SweepSkip
  <2>1. /\ thread[Sweeper].op \in Ops /\ End(Sweeper) /\ applied' = applied
        /\ Stutter \/ Unconfirmed(thread[Sweeper].op)
    BY <1>0, <1>2, Worker DEF SweepConflict, SweepSkip, StillListed, Entered, Offline
  <2> QED
    BY <1>0, <2>1, EndsWithin
<1>3. ASSUME NEW o \in Ops, Sweep(o) PROVE QInv'
  <2>1. Stutter /\ applied' = applied /\ Alone(Sweeper) /\ thread'[Sweeper].pc = "listed"
    BY <1>0, <1>3 DEF Sweep, Alone, Idle, TInv, ProtocolTypeOK, Offline
  <2> QED
    BY <1>0, <2>1, StaysWithin
<1>4. CASE Crash
  <2>1. thread' = [t \in Threads |-> Idle] /\ UNCHANGED <<applied, op, events>>
    BY <1>4 DEF Crash, Stutter, journalVars
  <2>2. Shrinks
    BY <2>1, IdleType DEF Shrinks, Live, Unresolved
  <2>3. \A u \in Threads : Checked(thread[u])'
    BY <2>1, IdleType DEF Checked
  <2> QED
    BY <2>1, <2>2, <2>3, QuotaKept
<1>5. ASSUME UNCHANGED <<applied, op, events, thread>> PROVE QInv'
  <2>1. Shrinks
    BY <1>5 DEF Shrinks, Live, Unresolved
  <2> QED
    BY <1>5, <2>1, QuotaKept
<1>6. CASE (\E d \in Deals, s \in Stages : \E k \in {crm[d].marker, None, Foreign} : Edit(d, s, k))
           \/ (\E d \in Deals : EditSameSecond(d))
  <2>1. UNCHANGED <<applied, op, events, thread>>
    BY <1>6 DEF Edit, EditSameSecond, Stutter, journalVars
  <2> QED
    BY <1>5, <2>1
<1>7. \A a \in Attempts, m \in Managers : ~Land(a, m)
  BY DEF Land, PInv
<1>8. CASE (\E g \in Grants : Import(g)) \/ (\E o \in Ops : Age(o)) \/ UNCHANGED vars
  <2>1. UNCHANGED <<applied, op, events, thread>>
    BY <1>8 DEF Import, ApproveGrant, ExpireGrant, Age, protocolVars, vars, journalVars
  <2> QED
    BY <1>5, <2>1
<1> QED
  BY <1>1, <1>2, <1>3, <1>4, <1>6, <1>7, <1>8, StartWithin, SweepWithin, ReleaseWithin
  DEF Next, SweeperStep

\* Nobody has claimed anything.
LEMMA InitWithin ==
  ASSUME Init
  PROVE  QInv
<1>1. thread = [t \in Threads |-> Idle] /\ events = {} /\ op = [o \in Ops |-> NoRow]
  BY DEF Init, JournalInit
<1>2. \A o \in Ops : ~Live(o)
  BY <1>1 DEF Live, Unresolved, NoRow
<1>3. WithinLimit
  <2>1. \A m \in Managers : FreeClaims(m) = {}
    BY <1>1 DEF FreeClaims
  <2> QED
    BY <1>1, <2>1, FS_EmptySet, ProtocolAssumption DEF WithinLimit
<1>4. Checks
  BY <1>1, IdleType DEF Checks, Checked
<1> QED
  BY <1>2, <1>3, <1>4 DEF QInv, OneLive, LivePaid

\* The three layers always hold when no update arrives late.
LEMMA QuotaInvariance == ASSUME ~LateWrites PROVE ProtocolSpec => [](TInv /\ PInv /\ QInv)
<1>1. ~LateWrites
  OBVIOUS
<1>2. Init => TInv /\ PInv /\ QInv
  BY InitHolds, InitWithin
<1>3. TInv /\ PInv /\ QInv /\ [Next]_vars => TInv' /\ PInv' /\ QInv'
  BY <1>1, TypedStep, AppliedStep, QuotaStep
<1> QED
  BY <1>2, <1>3, PTL DEF ProtocolSpec

(* The claims applied for an employee: with a grant, settled without one,   *)
(* and at most one that is live.                                           *)

AppliedTo(m) == {a \in Attempts : applied[a] = m}
Granted(m) == {a \in AppliedTo(m) : op[a[1]].grant # None}
Settled(m) == {a \in AppliedTo(m) : op[a[1]].grant = None /\ op[a[1]].status = "succeeded"}
Used(m) == {g \in Grants : g[1] = m /\ grants[g].status \in {"reserved", "consumed"}}

\* An applied attempt is the one of its row.
LEMMA AppliedRow ==
  ASSUME TInv, PInv, NEW m \in Managers, NEW a \in AppliedTo(m)
  PROVE  /\ a[1] \in Ops /\ a = <<a[1], op[a[1]].nonce>> /\ op[a[1]].manager = m
         /\ op[a[1]].status = "succeeded" \/ Unresolved(a[1])
<1>1. a \in Attempts /\ applied[a] = m /\ m # None
  BY JournalAssumption DEF AppliedTo
<1>2. op[a[1]].nonce = a[2] /\ op[a[1]].manager = m
      /\ (op[a[1]].status = "succeeded" \/ Unresolved(a[1]))
  BY <1>1 DEF PInv, NoLostClaim
<1> QED
  BY <1>1, <1>2, AttemptPair

\* Each grant pays for one claim.
LEMMA GrantedBound ==
  ASSUME TInv, PInv, NEW m \in Managers, IsFiniteSet(Used(m))
  PROVE  IsFiniteSet(Granted(m)) /\ Cardinality(Granted(m)) <= Cardinality(Used(m))
<1> DEFINE f == [a \in Granted(m) |-> op[a[1]].grant]
<1>0. JInv
  BY DEF TInv
<1>1. ASSUME NEW a \in Granted(m)
      PROVE  /\ f[a] \in Used(m) /\ grants[f[a]].op = a[1]
             /\ a = <<a[1], op[a[1]].nonce>>
  <2>1. PICK o \in Ops : o = a[1] /\ op[o].manager = m /\ a = <<o, op[o].nonce>>
        /\ (op[o].status = "succeeded" \/ Unresolved(o)) /\ op[o].grant # None
    BY AppliedRow DEF Granted
  <2>2. PICK g \in Grants : g = op[o].grant
    BY <1>0, <2>1, RowShape
  <2>3. g[1] = m /\ (grants[g] = [status |-> "reserved", op |-> o]
                     \/ grants[g] = [status |-> "consumed", op |-> o])
    BY <1>0, <2>1, <2>2, Ledger DEF Unresolved
  <2>4. g \in Used(m) /\ grants[g].op = o
    BY <2>3 DEF Used
  <2> QED
    BY <2>1, <2>2, <2>4
<1>2. f \in Injection(Granted(m), Used(m))
  <2>1. f \in [Granted(m) -> Used(m)]
    BY <1>1
  <2>2. ASSUME NEW a \in Granted(m), NEW b \in Granted(m), f[a] = f[b] PROVE a = b
    BY <1>1, <2>2
  <2> QED
    BY <2>1, <2>2 DEF Injection, IsInjective
<1> HIDE DEF f
<1> QED
  BY <1>2, FS_Injection

\* Each succeeded claim without a grant is one of the day's claim events.
LEMMA SettledBound ==
  ASSUME TInv, PInv, QInv, NEW m \in Managers
  PROVE  IsFiniteSet(Settled(m)) /\ Cardinality(Settled(m)) <= Cardinality(FreeClaims(m))
         /\ IsFiniteSet(FreeClaims(m))
<1> DEFINE f == [a \in Settled(m) |-> CHOOSE e \in FreeClaims(m) : e.op = a[1]]
<1>0. JInv
  BY DEF TInv
<1>1. ASSUME NEW a \in Settled(m)
      PROVE  f[a] \in FreeClaims(m) /\ f[a].op = a[1] /\ a = <<a[1], op[a[1]].nonce>>
  <2>1. PICK o \in Ops : o = a[1] /\ op[o].manager = m /\ a = <<o, op[o].nonce>>
        /\ op[o].status = "succeeded" /\ op[o].grant = None
    BY AppliedRow DEF Settled
  <2>2. PICK e \in events : e.op = o
    BY <1>0, <2>1 DEF JInv, AuditExact
  <2>3. e \in FreeClaims(m)
    BY <1>0, <2>1, <2>2 DEF JInv, AuditExact, FreeClaims
  <2> QED
    BY <2>1, <2>2, <2>3
<1>2. f \in Injection(Settled(m), FreeClaims(m))
  <2>1. f \in [Settled(m) -> FreeClaims(m)]
    BY <1>1
  <2>2. ASSUME NEW a \in Settled(m), NEW b \in Settled(m), f[a] = f[b] PROVE a = b
    BY <1>1, <2>2
  <2> QED
    BY <2>1, <2>2 DEF Injection, IsInjective
<1>3. IsFiniteSet(FreeClaims(m))
  BY FS_Subset DEF QInv, WithinLimit, FreeClaims
<1> HIDE DEF f
<1> QED
  BY <1>2, <1>3, FS_Injection

\* An employee has finitely many grants.
LEMMA UsedFinite ==
  ASSUME NEW m \in Managers
  PROVE  IsFiniteSet(Used(m)) /\ Cardinality(Used(m)) <= Cardinality(GrantIds)
<1> DEFINE f == [g \in Used(m) |-> g[2]]
<1>1. f \in Injection(Used(m), GrantIds)
  <2>1. \A g \in Used(m) : g[2] \in GrantIds /\ g = <<m, g[2]>>
    BY DEF Used, Grants
  <2>2. f \in [Used(m) -> GrantIds]
    BY <2>1
  <2>3. ASSUME NEW a \in Used(m), NEW b \in Used(m), f[a] = f[b] PROVE a = b
    BY <2>1, <2>3
  <2> QED
    BY <2>2, <2>3 DEF Injection, IsInjective
<1> HIDE DEF f
<1> QED
  BY <1>1, FS_Injection, ProtocolAssumption

\* The quota follows: claims with a grant, settled ones, and at most one live.
LEMMA QuotaHolds ==
  ASSUME TInv, PInv, QInv, NEW m \in Managers
  PROVE  /\ IsFiniteSet(AppliedTo(m)) /\ IsFiniteSet(Used(m))
         /\ Cardinality(AppliedTo(m)) <= DailyLimit + Cardinality(Used(m))
<1> DEFINE open == {a \in AppliedTo(m) : op[a[1]].grant = None /\ op[a[1]].status # "succeeded"}
           free == Settled(m) \cup open
<1>1. IsFiniteSet(Used(m)) /\ Cardinality(Used(m)) \in Nat
  BY UsedFinite, FS_CardinalityType
<1>2. IsFiniteSet(Granted(m)) /\ Cardinality(Granted(m)) \in Nat
      /\ Cardinality(Granted(m)) <= Cardinality(Used(m))
  BY <1>1, GrantedBound, FS_CardinalityType
<1>3. /\ IsFiniteSet(Settled(m)) /\ Cardinality(Settled(m)) \in Nat
      /\ Cardinality(FreeClaims(m)) \in Nat /\ Cardinality(Settled(m)) <= Cardinality(FreeClaims(m))
      /\ Cardinality(FreeClaims(m)) <= DailyLimit
  BY SettledBound, FS_CardinalityType DEF QInv, WithinLimit
<1>4. \A a \in open : Live(a[1]) /\ a[1] \in Ops /\ a = <<a[1], op[a[1]].nonce>>
                      /\ op[a[1]].manager = m /\ op[a[1]].grant = None
  <2>1. SUFFICES ASSUME NEW a \in open PROVE Live(a[1]) /\ a[1] \in Ops /\ a = <<a[1], op[a[1]].nonce>>
                      /\ op[a[1]].manager = m /\ op[a[1]].grant = None
    OBVIOUS
  <2>2. a \in AppliedTo(m) /\ op[a[1]].grant = None /\ op[a[1]].status # "succeeded"
    OBVIOUS
  <2>3. PICK o \in Ops : o = a[1] /\ op[o].manager = m /\ a = <<o, op[o].nonce>> /\ Unresolved(o)
    BY <2>2, AppliedRow
  <2>4. applied[<<o, op[o].nonce>>] # None
    BY <2>2, <2>3, JournalAssumption DEF AppliedTo
  <2> QED
    BY <2>2, <2>3, <2>4 DEF Live
<1>5. IsFiniteSet(free) /\ Cardinality(free) <= DailyLimit
  <2>1. CASE open = {}
    <3>1. free = Settled(m)
      BY <2>1
    <3> HIDE DEF open, free
    <3> QED
      BY <1>3, <3>1, ProtocolAssumption
  <2>2. ASSUME NEW b \in open
        PROVE  IsFiniteSet(free) /\ Cardinality(free) <= DailyLimit
    <3>1. open \subseteq {b}
      BY <1>4 DEF QInv, OneLive
    <3>2. TakenToday(m) < DailyLimit
      BY <1>4 DEF QInv, LivePaid, Paid
    <3>3. Cardinality(FreeClaims(m)) <= TakenToday(m) /\ TakenToday(m) \in Nat
      <4>1. IsFiniteSet({e \in events : e.manager = m})
        BY FS_Subset DEF QInv, WithinLimit
      <4>2. FreeClaims(m) \subseteq {e \in events : e.manager = m}
        BY DEF FreeClaims
      <4> QED
        BY <4>1, <4>2, FS_Subset, FS_CardinalityType DEF TakenToday
    <3>4. free = Settled(m) \cup {b}
      BY <3>1
    <3>5. IsFiniteSet(Settled(m) \cup {b})
          /\ (Cardinality(Settled(m) \cup {b}) = Cardinality(Settled(m))
              \/ Cardinality(Settled(m) \cup {b}) = Cardinality(Settled(m)) + 1)
      <4> HIDE DEF open
      <4> QED
        BY <1>3, FS_AddElement
    <3> HIDE DEF open, free
    <3> QED
      BY <1>3, <3>2, <3>3, <3>4, <3>5, ProtocolAssumption
  <2> QED
    BY <2>1, <2>2
<1>6. AppliedTo(m) = Granted(m) \cup free
  BY DEF Granted, Settled
<1> HIDE DEF free
<1>7. Cardinality(free) \in Nat /\ Cardinality(Granted(m) \cap free) \in Nat
  BY <1>2, <1>5, FS_CardinalityType, FS_Intersection
<1>8. IsFiniteSet(AppliedTo(m))
      /\ Cardinality(AppliedTo(m)) = Cardinality(Granted(m)) + Cardinality(free)
                                       - Cardinality(Granted(m) \cap free)
  BY <1>2, <1>5, <1>6, FS_Union
<1> QED
  BY <1>1, <1>2, <1>5, <1>7, <1>8, ProtocolAssumption

\* The claims applied for an employee never exceed the daily limit and the grants
\* reserved or consumed for him: the limit is read before the lease is reserved,
\* and his fence keeps what was read true.
THEOREM QuotaNeverExceeded == ASSUME ~LateWrites PROVE ProtocolSpec => []QuotaRespected
<1>1. TInv /\ PInv /\ QInv => QuotaRespected
  BY QuotaHolds DEF QuotaRespected, AppliedTo, Used
<1> QED
  BY <1>1, QuotaInvariance, PTL

-----------------------------------------------------------------------------
(* The protocol implements DealAllocation.                                 *)

\* What AppliedFor chooses
OwnersTrue == \A d \in Deals :
  /\ Unclaimed(d) => AppliedFor(d) = None
  /\ \A a \in Attempts : DealOf(a[1]) = d /\ applied[a] # None => AppliedFor(d) = applied[a]

\* The abstract owner of a deal is the employee of any update applied to it.
LEMMA Owners == TInv /\ PInv => OwnersTrue
<1> SUFFICES ASSUME TInv, PInv, NEW d \in Deals
             PROVE  /\ Unclaimed(d) => AppliedFor(d) = None
                    /\ \A a \in Attempts : DealOf(a[1]) = d /\ applied[a] # None
                                             => AppliedFor(d) = applied[a]
  BY DEF OwnersTrue
<1>1. Unclaimed(d) => AppliedFor(d) = None
  BY DEF Unclaimed, AppliedFor
<1>2. ASSUME NEW a \in Attempts, DealOf(a[1]) = d, applied[a] # None
      PROVE  AppliedFor(d) = applied[a]
  <2> DEFINE b == CHOOSE b \in Attempts : DealOf(b[1]) = d /\ applied[b] # None
  <2>1. b \in Attempts /\ DealOf(b[1]) = d /\ applied[b] # None
    BY <1>2
  <2>2. b = a
    BY <1>2, <2>1 DEF PInv, OneAppliedClaim
  <2>3. AppliedFor(d) = applied[b]
    BY <1>2 DEF AppliedFor
  <2> QED
    BY <2>2, <2>3
<1> QED
  BY <1>1, <1>2

\* What AuditedFor chooses
AuditsTrue == \A d \in Deals :
  /\ (\A e \in events : DealOf(e.op) # d) => AuditedFor(d) = None
  /\ \A e \in events : DealOf(e.op) = d =>
       /\ AuditedFor(d) = e.manager /\ AuditedFor(d) = AppliedFor(d) /\ e.manager # None
       /\ \A f \in events : DealOf(f.op) = d => e = f

\* A deal has one claim event at most, and it names the owner.
LEMMA Audits == TInv /\ PInv => AuditsTrue
<1> SUFFICES ASSUME TInv, PInv, NEW d \in Deals
             PROVE  /\ (\A e \in events : DealOf(e.op) # d) => AuditedFor(d) = None
                    /\ \A e \in events : DealOf(e.op) = d =>
                         /\ AuditedFor(d) = e.manager /\ AuditedFor(d) = AppliedFor(d)
                         /\ e.manager # None
                         /\ \A f \in events : DealOf(f.op) = d => e = f
  BY DEF AuditsTrue
<1>1. (\A e \in events : DealOf(e.op) # d) => AuditedFor(d) = None
  BY DEF AuditedFor
<1>2. ASSUME NEW e \in events
      PROVE  \E a \in Attempts : a = <<e.op, e.nonce>> /\ applied[a] = e.manager /\ e.manager # None
  <2>1. e.op \in Ops /\ e.nonce \in Nonces /\ e.manager \in Managers
    BY DEF TInv, JInv, TypeOK, Events
  <2>2. PICK a \in Attempts : a = <<e.op, e.nonce>>
    BY <2>1 DEF Attempts
  <2>3. applied[a] = e.manager
    BY <2>2 DEF PInv, AuditApplied
  <2>4. e.manager # None
    BY <2>1, JournalAssumption
  <2> QED
    BY <2>2, <2>3, <2>4
<1>3. ASSUME NEW e \in events, NEW f \in events, DealOf(e.op) = d, DealOf(f.op) = d
      PROVE  e = f
  <2>1. PICK a \in Attempts : a = <<e.op, e.nonce>> /\ applied[a] # None
    BY <1>2
  <2>2. PICK b \in Attempts : b = <<f.op, f.nonce>> /\ applied[b] # None
    BY <1>2
  <2>3. a = b
    BY <1>3, <2>1, <2>2 DEF PInv, OneAppliedClaim
  <2>4. e.op = f.op
    BY <2>1, <2>2, <2>3
  <2> QED
    BY <2>4 DEF TInv, JInv, AuditExact
<1>4. ASSUME NEW e \in events, DealOf(e.op) = d
      PROVE  AuditedFor(d) = e.manager /\ AuditedFor(d) = AppliedFor(d) /\ e.manager # None
  <2> DEFINE f == CHOOSE f \in events : DealOf(f.op) = d
  <2>1. f \in events /\ DealOf(f.op) = d
    BY <1>4
  <2>2. f = e
    BY <1>3, <1>4, <2>1
  <2>3. AuditedFor(d) = f.manager
    BY <1>4 DEF AuditedFor
  <2>4. AppliedFor(d) = e.manager /\ e.manager # None
    BY <1>2, <1>4, Owners DEF OwnersTrue
  <2> QED
    BY <2>2, <2>3, <2>4
<1> QED
  BY <1>1, <1>3, <1>4

\* A step writes one deal, or one claim event, or neither.
LEMMA AppliedGrows ==
  ASSUME TInv, PInv, [Next]_vars
  PROVE  \/ applied' = applied
         \/ \E a \in Attempts, m \in Managers :
              /\ Unclaimed(DealOf(a[1])) /\ applied' = [applied EXCEPT ![a] = m] /\ events' = events
<1>1. ASSUME NEW t \in Threads, Write(t), applied' # applied
      PROVE  \E a \in Attempts, m \in Managers :
               /\ Unclaimed(DealOf(a[1])) /\ applied' = [applied EXCEPT ![a] = m] /\ events' = events
  <2>1. thread[t].pc = "write" /\ events' = events /\ Apply(Marker(t), thread[t].manager)
    BY <1>1 DEF Write, Stutter, journalVars
  <2>2. Marker(t) \in Attempts /\ thread[t].manager \in Managers
    BY <2>1, Worker DEF Marker, Attempts, Attempting
  <2>3. Unclaimed(DealOf(Marker(t)[1]))
    BY <2>1 DEF PInv, Known, Knows, Marker
  <2> QED
    BY <2>1, <2>2, <2>3 DEF Apply
<1>2. CASE \E t \in Threads : Step(t)
  BY <1>1, <1>2 DEF Step, Recover, Ambiguous, Reserve, Check, Verify, SettleDone, SettleFailed,
                    Blame, GiveUp, Offline
<1>3. CASE SweeperStep \/ SweepSkip \/ \E o \in Ops : Sweep(o) \/ Age(o)
  BY <1>3 DEF SweeperStep, SweepConfirmed, SweepUnapplied, SweepConflict, Release, SweepSkip, Sweep,
              Age, Offline
<1>4. CASE (\E d \in Deals, s \in Stages : \E k \in {crm[d].marker, None, Foreign} : Edit(d, s, k))
           \/ (\E d \in Deals : EditSameSecond(d)) \/ (\E g \in Grants : Import(g)) \/ Crash
           \/ UNCHANGED vars
  BY <1>4 DEF Edit, EditSameSecond, Import, Crash, protocolVars, vars
<1>5. \A a \in Attempts, m \in Managers : ~Land(a, m)
  BY DEF Land, PInv
<1>6. \A t \in Requests, m \in Managers, o \in Ops : Start(t, m, o) => applied' = applied
  BY DEF Start, Offline
<1> QED
  BY <1>2, <1>3, <1>4, <1>5, <1>6 DEF Next

\* A transaction writes one claim event at most.
LEMMA EventsGrow ==
  ASSUME [JournalNext]_journalVars
  PROVE  events' = events \/ \E o \in Ops : \E e : e.op = o /\ events' = events \cup {e}
<1>1. ASSUME NEW o \in Ops, NEW n \in Nonces, NEW m \in Managers, NEW recovered \in BOOLEAN,
             Finalize(o, n, m, recovered)
      PROVE  \E e : e.op = o /\ events' = events \cup {e}
  <2> DEFINE e == [op |-> o, manager |-> m, nonce |-> n, recovered |-> recovered, grant |-> op[o].grant]
  <2>1. e.op = o /\ events' = events \cup {e}
    BY <1>1 DEF Finalize
  <2> HIDE DEF e
  <2> QED
    BY <2>1
<1>2. ASSUME NEW o \in Ops, NEW m \in Managers, NEW need, NEW contacted, NEW greet,
             Attempt(o, m, need, contacted, greet)
      PROVE  events' = events
  BY <1>2 DEF Attempt, Begin, Retry, Reassign
<1>3. ASSUME NEW o \in Ops, NEW m, NEW confirmed, NEW greet, RetrySame(o, m, confirmed, greet)
      PROVE  events' = events
  BY <1>3 DEF RetrySame
<1>4. ASSUME NEW o \in Ops, NEW r, Fail(o, r) PROVE events' = events
  BY <1>4 DEF Fail
<1>5. ASSUME NEW g, ApproveGrant(g) \/ ExpireGrant(g) PROVE events' = events
  BY <1>5 DEF ApproveGrant, ExpireGrant
<1>6. CASE UNCHANGED journalVars
  BY <1>6 DEF journalVars
<1>7. CASE JournalNext
  BY <1>1, <1>2, <1>3, <1>4, <1>5, <1>7 DEF JournalNext
<1> QED
  BY <1>6, <1>7

\* An employee has at most as many applied claims as DealAllocation allows.
Within == \A m \in Managers :
  /\ IsFiniteSet(AppliedTo(m))
  /\ Cardinality(AppliedTo(m)) <= DailyLimit + Cardinality(GrantIds)

\* The quota of DealAllocation
LEMMA Quotas == TInv /\ PInv /\ QInv => Within
<1>1. ASSUME TInv, PInv, QInv, NEW m \in Managers
      PROVE  IsFiniteSet(AppliedTo(m)) /\ Cardinality(AppliedTo(m)) <= DailyLimit + Cardinality(GrantIds)
  <2>1. /\ Cardinality(Used(m)) \in Nat /\ Cardinality(GrantIds) \in Nat
        /\ Cardinality(AppliedTo(m)) \in Nat
        /\ Cardinality(Used(m)) <= Cardinality(GrantIds)
    BY <1>1, QuotaHolds, UsedFinite, FS_CardinalityType, ProtocolAssumption
  <2> QED
    BY <1>1, <2>1, QuotaHolds, ProtocolAssumption
<1> QED
  BY <1>1 DEF Within

\* DealAllocation counts with the operator of its own FiniteSets.
LEMMA SameCardinality ==
  ASSUME NEW S
  PROVE  Allocation!Cardinality(S) = Cardinality(S)
BY Zenon DEF Allocation!Cardinality, Cardinality

\* A deal given to an employee is one of his applied attempts.
LEMMA GivenBound ==
  ASSUME TInv, PInv, NEW m \in Managers, IsFiniteSet(AppliedTo(m))
  PROVE  Cardinality(Allocation!Given(m)) \in Nat
         /\ Cardinality(Allocation!Given(m)) <= Cardinality(AppliedTo(m))
<1> DEFINE G == {d \in Deals : AppliedFor(d) = m}
           f == [d \in G |-> CHOOSE a \in AppliedTo(m) : DealOf(a[1]) = d]
<1>1. ASSUME NEW d \in G PROVE f[d] \in AppliedTo(m) /\ DealOf(f[d][1]) = d
  <2>1. m # None /\ AppliedFor(d) = m
    BY JournalAssumption
  <2>2. PICK a \in Attempts : DealOf(a[1]) = d /\ applied[a] # None
    BY <2>1 DEF AppliedFor
  <2>3. a \in AppliedTo(m)
    BY <2>1, <2>2, Owners DEF OwnersTrue, AppliedTo
  <2> QED
    BY <2>2, <2>3
<1>2. f \in Injection(G, AppliedTo(m))
  <2>1. f \in [G -> AppliedTo(m)]
    BY <1>1
  <2>2. ASSUME NEW a \in G, NEW b \in G, f[a] = f[b] PROVE a = b
    BY <1>1, <2>2
  <2> QED
    BY <2>1, <2>2 DEF Injection, IsInjective
<1>3. Allocation!Given(m) = G
  BY DEF Allocation!Given
<1> HIDE DEF f, G
<1> QED
  BY <1>2, <1>3, FS_Injection, FS_CardinalityType

\* Nothing is allocated at first.
LEMMA AllocationInit ==
  ASSUME Init
  PROVE  Allocation!Init
<1>1. applied = [a \in Attempts |-> None] /\ events = {}
  BY DEF Init, JournalInit
<1> QED
  BY <1>1 DEF Allocation!Init, AppliedFor, AuditedFor

\* A step allocates a deal, records an allocation or stutters.
LEMMA AllocationStep ==
  ASSUME TInv, PInv, QInv, TInv', PInv', QInv', [Next]_vars
  PROVE  [Allocation!Next]_Allocation!allocationVars
<1> DEFINE owner == [d \in Deals |-> AppliedFor(d)]
           audit == [d \in Deals |-> AuditedFor(d)]
<1>0. /\ OwnersTrue /\ AuditsTrue /\ Within
      /\ OwnersTrue' /\ AuditsTrue' /\ Within'
  BY Owners, Audits, Quotas, PTL
<1>1. ASSUME applied' = applied PROVE owner' = owner
  BY <1>1 DEF AppliedFor
<1>2. ASSUME events' = events PROVE audit' = audit
  BY <1>2 DEF AuditedFor
<1>3. CASE applied' = applied /\ events' = events
  BY <1>1, <1>2, <1>3 DEF Allocation!allocationVars
<1>4. ASSUME applied' = applied, NEW o \in Ops, NEW e, e.op = o, events' = events \cup {e}, events' # events
      PROVE  Allocation!Next
  <2> PICK d \in Deals : d = DealOf(o)
    BY DEF Ops, DealOf
  <2>1. e \in events' /\ e \notin events
    BY <1>4
  <2>2. \A f \in events : DealOf(f.op) # d
    BY <1>0, <1>4, <2>1 DEF AuditsTrue
  <2>3. AuditedFor(d) = None
    BY <1>0, <2>2 DEF AuditsTrue
  <2>4. AuditedFor(d)' = AppliedFor(d)' /\ AuditedFor(d)' # None
    BY <1>0, <1>4, <2>1 DEF AuditsTrue
  <2>5. ASSUME NEW c \in Deals, c # d PROVE AuditedFor(c)' = AuditedFor(c)
    <3>1. \A f \in events' : DealOf(f.op) = c => f \in events
      BY <1>4, <2>5
    <3>2. CASE \E f \in events : DealOf(f.op) = c
      BY <1>0, <1>4, <3>2 DEF AuditsTrue
    <3>3. CASE \A f \in events : DealOf(f.op) # c
      BY <1>0, <1>4, <3>1, <3>3 DEF AuditsTrue
    <3> QED
      BY <3>2, <3>3
  <2>6. owner' = owner /\ AppliedFor(d)' = AppliedFor(d)
    BY <1>1, <1>4 DEF AppliedFor
  <2>7. audit' = [audit EXCEPT ![d] = owner[d]]
    BY <2>4, <2>5, <2>6
  <2>8. Allocation!Record(d)
    BY <2>3, <2>4, <2>6, <2>7 DEF Allocation!Record
  <2> QED
    BY <2>8 DEF Allocation!Next
<1>5. ASSUME NEW a \in Attempts, NEW m \in Managers, Unclaimed(DealOf(a[1])),
             applied' = [applied EXCEPT ![a] = m], events' = events
      PROVE  Allocation!Next
  <2> PICK d \in Deals : d = DealOf(a[1])
    BY AttemptPair
  <2>0. m # None /\ applied[a] = None
    BY <1>5, JournalAssumption DEF Unclaimed
  <2>1. applied'[a] = m /\ \A b \in Attempts : b # a => applied'[b] = applied[b]
    BY <1>5 DEF TInv, ProtocolTypeOK
  <2>2. AppliedFor(d) = None /\ AppliedFor(d)' = m
    BY <1>0, <1>5, <2>0, <2>1 DEF OwnersTrue
  <2>3. ASSUME NEW c \in Deals, c # d PROVE AppliedFor(c)' = AppliedFor(c)
    <3>1. \A b \in Attempts : DealOf(b[1]) = c => applied'[b] = applied[b]
      BY <2>1, <2>3
    <3>2. CASE Unclaimed(c)
      BY <1>0, <3>1, <3>2 DEF OwnersTrue, Unclaimed
    <3>3. CASE ~Unclaimed(c)
      BY <1>0, <3>1, <3>3 DEF OwnersTrue, Unclaimed
    <3> QED
      BY <3>2, <3>3
  <2>4. owner' = [owner EXCEPT ![d] = m]
    BY <2>2, <2>3
  <2>5. Cardinality(Allocation!Given(m)) < DailyLimit + Cardinality(GrantIds)
    <3>1. AppliedTo(m)' = AppliedTo(m) \cup {a} /\ a \notin AppliedTo(m)
      BY <2>0, <2>1 DEF AppliedTo
    <3>2. IsFiniteSet(AppliedTo(m)) /\ Cardinality(AppliedTo(m)') <= DailyLimit + Cardinality(GrantIds)
      BY <1>0 DEF Within, AppliedTo
    <3>3. Cardinality(AppliedTo(m) \cup {a}) = Cardinality(AppliedTo(m)) + 1
          /\ Cardinality(AppliedTo(m)) \in Nat
      BY <3>1, <3>2, FS_AddElement, FS_CardinalityType
    <3>4. Cardinality(Allocation!Given(m)) \in Nat
          /\ Cardinality(Allocation!Given(m)) <= Cardinality(AppliedTo(m))
      BY <3>2, GivenBound
    <3>5. Cardinality(GrantIds) \in Nat
      BY FS_CardinalityType, ProtocolAssumption
    <3> QED
      BY <3>1, <3>2, <3>3, <3>4, <3>5, ProtocolAssumption
  <2>6. audit' = audit /\ owner[d] = None
    BY <1>2, <1>5, <2>2
  <2> HIDE DEF owner, audit
  <2>7. Allocation!Allocate(d, m)
    BY <2>4, <2>5, <2>6, SameCardinality DEF Allocation!Allocate, owner, audit
  <2> QED
    BY <2>7 DEF Allocation!Next
<1>6. CASE applied' = applied
  BY <1>3, <1>4, <1>6, Journaled, EventsGrow
<1> QED
  BY <1>5, <1>6, AppliedGrows

\* The claim protocol implements DealAllocation: a deal is given to one employee
\* for good and within his quota, and the audit names him.
THEOREM AllocationImplemented == ASSUME ~LateWrites PROVE ProtocolSpec => Allocated
<1>1. Init => Allocation!Init
  BY AllocationInit
<1>2. /\ TInv /\ PInv /\ QInv /\ (TInv /\ PInv /\ QInv)' /\ [Next]_vars
      => [Allocation!Next]_Allocation!allocationVars
  BY AllocationStep
<1> QED
  BY <1>1, <1>2, QuotaInvariance, PTL DEF ProtocolSpec, Allocated, Allocation!Spec
=============================================================================
