----------------------- MODULE ContactOwnerSyncProofs -----------------------
(***************************************************************************)
(* Proofs about ContactOwnerSync for any number of claims, employees,      *)
(* workers and faults: the update of a job is sent at most once; one of a  *)
(* contact is outstanding at a time, and they are applied in order; what a *)
(* person edited is not overwritten.                                       *)
(***************************************************************************)
EXTENDS ContactOwnerSync, FiniteSetTheorems, TLAPS

\* A job gets a generation when it is reserved and is dispatched once confirmed.
JobShape == \A c \in Claims : /\ job[c].gen # 0 => job[c].status \notin {"none", "snapshot"}
                              /\ job[c].dispatched => Confirmed(c)
                              /\ job[c].status # "none" => job[c].manager \in Managers
                              /\ c \in inflight => Confirmed(c)

\* Workers work on confirmed jobs and finish with an outcome.
Working == \A w \in Workers :
             worker[w].pc # "idle" => /\ worker[w].claim \in Claims
                                      /\ Confirmed(worker[w].claim)
                                      /\ worker[w].pc = "finish" => worker[w].status # "none"

\* Up to the dispatch fence, the holder of the lease works on a job that was
\* not dispatched.
Undispatched == \A w \in Workers :
  worker[w].pc \in {"check", "deal", "owner", "again", "dispatch"} /\ Held(w, worker[w].claim)
    => ~job[worker[w].claim].dispatched

\* Behind the fence one worker is about to send, for the first time.
Sending(w, c) == worker[w].pc = "send" /\ worker[w].claim = c
Fenced == /\ \A w \in Workers, c \in Claims : Sending(w, c) => job[c].dispatched /\ sent[c] = 0
          /\ \A w, v \in Workers, c \in Claims : Sending(w, c) /\ Sending(v, c) => w = v

Counted == \A c \in Claims : sent[c] # 0 => sent[c] = 1 /\ job[c].dispatched

CInv == TypeOK /\ JobShape /\ Working /\ Undispatched /\ Fenced /\ Counted
-----------------------------------------------------------------------------
LEMMA NoJobType == NoJob \in Jobs
BY DEF NoJob, Jobs, Statuses, Generations

WorkerStates == [pc : PCs, claim : Claims \cup {None}, owner : Owners \cup {None},
                 acknowledged : BOOLEAN, status : {"none", "pending", "ready", "conflict"}]

LEMMA IdleType == Idle \in WorkerStates
BY DEF Idle, WorkerStates, PCs

LEMMA InitInv == Init => CInv
<1> SUFFICES ASSUME Init PROVE CInv
  OBVIOUS
<1>1. TypeOK
  <2>1. worker \in [Workers -> WorkerStates]
    BY IdleType DEF Init
  <2>2. /\ job \in [Claims -> Jobs] /\ contact \in Owners /\ faults \in 0..MaxFaults
        /\ sent \in [Claims -> Nat]
    BY NoJobType, ContactAssumption DEF Init, Owners
  <2> QED
    BY <2>1, <2>2 DEF Init, TypeOK, WorkerStates
<1>2. JobShape /\ Working /\ Undispatched /\ Fenced /\ Counted
  BY DEF Init, JobShape, Working, Undispatched, Fenced, Counted, Sending, NoJob, Idle
<1> QED
  BY <1>1, <1>2 DEF CInv

\* There is a generation left for a job that has none.
LEMMA NextGeneration ==
  ASSUME TypeOK, NEW c \in Claims, job[c].gen = 0
  PROVE  Cardinality(Rows) + 1 \in Generations
<1>1. IsFiniteSet(Claims) /\ Rows \subseteq Claims \ {c}
  BY ContactAssumption DEF Rows
<1>2. IsFiniteSet(Claims \ {c}) /\ Cardinality(Claims \ {c}) = Cardinality(Claims) - 1
  BY <1>1, FS_RemoveElement
<1>3. Cardinality(Rows) <= Cardinality(Claims \ {c}) /\ Cardinality(Rows) \in Nat
  BY <1>1, <1>2, FS_Subset, FS_CardinalityType
<1>4. Cardinality(Claims) \in Nat
  BY <1>1, FS_CardinalityType
<1> QED
  BY <1>2, <1>3, <1>4 DEF Generations

\* Released changes only the status and the lease of overdue jobs.
LEMMA ReleasedShape ==
  ASSUME TypeOK
  PROVE  /\ Released \in [Claims -> Jobs]
         /\ \A c \in Claims :
              /\ Released[c].gen = job[c].gen /\ Released[c].dispatched = job[c].dispatched
              /\ Released[c].manager = job[c].manager
              /\ Released[c].status # job[c].status
                   => job[c].status = "checking" /\ Released[c].status = "pending"
              /\ Released[c].status = "checking"
                   => job[c].status = "checking" /\ Released[c].lease = job[c].lease /\ c \notin overdue
<1>1. ASSUME NEW c \in Claims
      PROVE  /\ Released[c] \in Jobs
             /\ Released[c].gen = job[c].gen /\ Released[c].dispatched = job[c].dispatched
             /\ Released[c].manager = job[c].manager
             /\ Released[c].status # job[c].status
                  => job[c].status = "checking" /\ Released[c].status = "pending"
             /\ Released[c].status = "checking"
                  => /\ job[c].status = "checking" /\ Released[c].lease = job[c].lease
                     /\ c \notin overdue
  <2>1. job[c] \in Jobs /\ (c \in overdue => job[c].status = "checking")
    BY <1>1 DEF TypeOK
  <2>2. CASE c \in overdue
    <3>1. Released[c] = [job[c] EXCEPT !.status = "pending", !.lease = None]
      BY <1>1, <2>2 DEF Released
    <3> QED
      BY <2>1, <2>2, <3>1 DEF Jobs, Statuses
  <2>3. CASE c \notin overdue
    <3>1. Released[c] = job[c]
      BY <1>1, <2>3 DEF Released
    <3> QED
      BY <2>1, <2>3, <3>1
  <2> QED
    BY <2>2, <2>3
<1>2. DOMAIN Released = Claims
  BY DEF Released
<1>3. Released \in [Claims -> Jobs]
  BY <1>1 DEF Released
<1> QED
  BY <1>1, <1>3
-----------------------------------------------------------------------------
(* The types, action by action.                                            *)

\* What a step does to a worker.
LEMMA WorkerSteps ==
  ASSUME worker \in [Workers -> WorkerStates], NEW w \in Workers
  PROVE  /\ \A pc \in PCs : Goto(w, pc) => worker' \in [Workers -> WorkerStates]
         /\ \A status \in {"pending", "ready", "conflict"} :
              Finish(w, status) => worker' \in [Workers -> WorkerStates]
         /\ \A c \in Claims : Refused(w, c) => worker' \in [Workers -> WorkerStates]
<1>1. \A pc \in PCs : Goto(w, pc) => worker' \in [Workers -> WorkerStates]
  BY DEF Goto, WorkerStates
<1>2. ASSUME NEW status \in {"pending", "ready", "conflict"}, Finish(w, status)
      PROVE  worker' \in [Workers -> WorkerStates]
  <2>1. [worker[w] EXCEPT !.pc = "finish", !.status = status] \in WorkerStates
    BY DEF WorkerStates, PCs
  <2>2. worker' = [worker EXCEPT ![w] = [worker[w] EXCEPT !.pc = "finish", !.status = status]]
    BY <1>2 DEF Finish, WorkerStates
  <2> QED
    BY <2>1, <2>2
<1>3. \A c \in Claims : Refused(w, c) => worker' \in [Workers -> WorkerStates]
  BY <1>2, IdleType DEF Refused, Verdict
<1> QED
  BY <1>1, <1>2, <1>3

LEMMA TypeStep ==
  ASSUME TypeOK, JobShape, Working, [Next]_vars
  PROVE  TypeOK'
<1>0. /\ job \in [Claims -> Jobs] /\ worker \in [Workers -> WorkerStates]
      /\ contact \in Owners /\ overdue \subseteq {c \in Claims : job[c].status = "checking"}
      /\ inflight \subseteq Claims /\ applied \subseteq Claims /\ missed \subseteq Claims
      /\ faults \in 0..MaxFaults /\ sent \in [Claims -> Nat] /\ byHand \in BOOLEAN
  BY DEF TypeOK, WorkerStates
<1>1. ASSUME NEW c \in Claims, NEW m \in Managers, Snapshot(c, m) PROVE TypeOK'
  <2>1. [NoJob EXCEPT !.status = "snapshot", !.manager = m, !.previous = contact,
                      !.before = {d \in Claims : job[d].status = "ready"}] \in Jobs
    BY <1>0, NoJobType DEF Jobs, Statuses, Owners, NoJob
  <2>2. job' \in [Claims -> Jobs]
    BY <1>0, <1>1, <2>1 DEF Snapshot
  <2>3. overdue \subseteq {d \in Claims : job'[d].status = "checking"}
    BY <1>0, <1>1 DEF Snapshot
  <2> QED
    BY <1>0, <1>1, <2>2, <2>3 DEF Snapshot, TypeOK, Bitrix, history, WorkerStates
<1>2. ASSUME NEW c \in Claims, Reserve(c) PROVE TypeOK'
  <2>1. job[c] \in Jobs /\ job[c].gen = 0
    BY <1>0, <1>2 DEF Reserve, JobShape, Jobs
  <2>2. Cardinality(Rows) + 1 \in Generations
    BY <2>1, NextGeneration
  <2>3. [job[c] EXCEPT !.status = "reserved", !.gen = Cardinality(Rows) + 1] \in Jobs
    BY <2>1, <2>2 DEF Jobs, Statuses
  <2>4. job' = [job EXCEPT ![c] = [job[c] EXCEPT !.status = "reserved",
                                                 !.gen = Cardinality(Rows) + 1]]
    BY <1>0, <1>2, <2>1 DEF Reserve, Jobs
  <2>5. job' \in [Claims -> Jobs]
    BY <1>0, <2>3, <2>4
  <2>6. overdue \subseteq {d \in Claims : job'[d].status = "checking"}
    BY <1>0, <1>2, <2>4 DEF Reserve
  <2> QED
    BY <1>0, <1>2, <2>5, <2>6 DEF Reserve, TypeOK, Bitrix, history, WorkerStates
<1>3. ASSUME NEW c \in Claims, NEW s \in {"pending", "cancelled", "conflict"}, Settle(c, s)
      PROVE  TypeOK'
  <2>1. job' \in [Claims -> Jobs]
    BY <1>0, <1>3 DEF Settle, SetStatus, Jobs, Statuses, Terminal
  <2>2. overdue \subseteq {d \in Claims : job'[d].status = "checking"}
    BY <1>0, <1>3 DEF Settle, SetStatus
  <2> QED
    BY <1>0, <1>3, <2>1, <2>2 DEF Settle, TypeOK, Bitrix, history, WorkerStates
<1>4. ASSUME NEW w \in Workers, NEW c \in Claims, Lease(w, c) PROVE TypeOK'
  <2>1. job' \in [Claims -> Jobs]
    <3>0. Released[c] \in Jobs
      BY ReleasedShape
    <3>1. [Released[c] EXCEPT !.status = "checking", !.lease = w] \in Jobs
      BY <3>0 DEF Jobs, Statuses
    <3>2. job' = [Released EXCEPT ![c] = [Released[c] EXCEPT !.status = "checking", !.lease = w]]
      BY <1>4, ReleasedShape DEF Lease, Jobs
    <3> QED
      BY <3>1, <3>2, ReleasedShape
  <2>2. worker' \in [Workers -> WorkerStates]
    <3>1. job[c].acknowledged \in BOOLEAN
      BY <1>0 DEF Jobs
    <3>2. \A pc \in PCs : [Idle EXCEPT !.pc = pc, !.claim = c,
                                      !.acknowledged = job[c].acknowledged] \in WorkerStates
      BY <3>1 DEF Idle, WorkerStates
    <3>3. (IF job[c].dispatched THEN "readback" ELSE "check") \in PCs
      BY DEF PCs
    <3> QED
      BY <1>0, <1>4, <3>2, <3>3 DEF Lease
  <2> QED
    BY <1>0, <1>4, <2>1, <2>2 DEF Lease, TypeOK, Bitrix, history, WorkerStates
<1>5. ASSUME NEW w \in Workers, NEW c \in Claims, LeaseNone(w, c) PROVE TypeOK'
  BY <1>0, <1>5, ReleasedShape DEF LeaseNone, TypeOK, Bitrix, history, WorkerStates
<1>6. ASSUME NEW w \in Workers, Work(w) \/ Fail(w) PROVE TypeOK'
  <2>0. worker[w].pc # "idle" /\ worker[w].claim \in Claims /\ job[worker[w].claim] \in Jobs
    BY <1>0, <1>6 DEF Work, Fail, Check, ReadDeal, ReadOwner, Dispatch, Send, Acknowledge,
                      ReadBack, Finished, Working
  <2>1. worker' \in [Workers -> WorkerStates]
    <3>1. CASE Check(w)
      BY <1>0, <2>0, <3>1, WorkerSteps DEF Check, PCs
    <3>2. CASE ReadDeal(w)
      BY <1>0, <3>2, WorkerSteps DEF ReadDeal, PCs
    <3>3. CASE ReadOwner(w)
      <4>1. [worker[w] EXCEPT !.pc = "again", !.owner = contact] \in WorkerStates
        BY <1>0 DEF WorkerStates, PCs
      <4>2. CASE worker' = [worker EXCEPT ![w].pc = "again", ![w].owner = contact]
        <5>1. worker' = [worker EXCEPT ![w] = [worker[w] EXCEPT !.pc = "again", !.owner = contact]]
          BY <1>0, <4>2 DEF WorkerStates
        <5> QED
          BY <1>0, <4>1, <5>1
      <4> QED
        BY <1>0, <3>3, <4>2, WorkerSteps DEF ReadOwner
    <3>4. CASE Dispatch(w)
      BY <1>0, <2>0, <3>4, WorkerSteps DEF Dispatch, PCs
    <3>5. CASE Send(w)
      BY <1>0, <3>5, WorkerSteps DEF Send, PCs
    <3>6. CASE Acknowledge(w)
      <4>1. [worker[w] EXCEPT !.pc = "readback", !.acknowledged = TRUE] \in WorkerStates
        BY <1>0 DEF WorkerStates, PCs
      <4>2. worker' = [worker EXCEPT ![w] = [worker[w] EXCEPT !.pc = "readback",
                                                              !.acknowledged = TRUE]]
        BY <1>0, <3>6 DEF WorkerStates, Acknowledge
      <4> QED
        BY <1>0, <4>1, <4>2
    <3>7. CASE ReadBack(w)
      BY <1>0, <3>7, WorkerSteps DEF ReadBack
    <3>8. CASE Finished(w)
      BY <1>0, <3>8, IdleType DEF Finished
    <3>9. CASE Fail(w)
      BY <1>0, <3>9, WorkerSteps DEF Fail
    <3> QED
      BY <1>6, <3>1, <3>2, <3>3, <3>4, <3>5, <3>6, <3>7, <3>8, <3>9 DEF Work
  <2>2. job' \in [Claims -> Jobs] /\ overdue' \subseteq {c \in Claims : job'[c].status = "checking"}
    <3> DEFINE c == worker[w].claim
    <3>1. CASE Dispatch(w)
      <4>1. CASE job' = [job EXCEPT ![c].dispatched = TRUE, ![c].dispatchOwner = worker[w].owner]
        <5>1. worker[w].owner \in Owners \cup {None}
          BY <1>0 DEF WorkerStates
        <5>2. [job[c] EXCEPT !.dispatched = TRUE, !.dispatchOwner = worker[w].owner] \in Jobs
          BY <2>0, <5>1 DEF Jobs
        <5>3. job' = [job EXCEPT ![c] = [job[c] EXCEPT !.dispatched = TRUE,
                                                       !.dispatchOwner = worker[w].owner]]
          BY <1>0, <2>0, <4>1 DEF Jobs
        <5>4. [job[c] EXCEPT !.dispatched = TRUE,
                             !.dispatchOwner = worker[w].owner].status = job[c].status
          BY <2>0 DEF Jobs
        <5> QED
          BY <1>0, <2>0, <3>1, <5>2, <5>3, <5>4 DEF Dispatch
      <4> QED
        BY <1>0, <3>1, <4>1 DEF Dispatch
    <3>2. CASE Acknowledge(w)
      <4>1. CASE job' = [job EXCEPT ![c].acknowledged = TRUE]
        <5>1. [job[c] EXCEPT !.acknowledged = TRUE] \in Jobs
          BY <2>0 DEF Jobs
        <5> QED
          BY <1>0, <2>0, <3>2, <4>1, <5>1 DEF Acknowledge
      <4> QED
        BY <1>0, <3>2, <4>1 DEF Acknowledge
    <3>3. CASE Finished(w)
      <4>1. worker[w].status \in Statuses
        BY <1>0 DEF WorkerStates, Statuses, Terminal
      <4>2. [job[c] EXCEPT !.status = worker[w].status, !.lease = None] \in Jobs
        BY <2>0, <4>1 DEF Jobs
      <4>3. CASE Held(w, c)
        <5>1. job' = [job EXCEPT ![c] = [job[c] EXCEPT !.status = worker[w].status,
                                                       !.lease = None]]
          BY <1>0, <2>0, <3>3, <4>3 DEF Finished, Jobs
        <5> QED
          BY <1>0, <2>0, <3>3, <4>2, <4>3, <5>1 DEF Finished
      <4>4. CASE ~Held(w, c)
        BY <1>0, <3>3, <4>4 DEF Finished
      <4> QED
        BY <4>3, <4>4
    <3>4. CASE ~(Dispatch(w) \/ Acknowledge(w) \/ Finished(w))
      BY <1>0, <1>6, <3>4 DEF Work, Fail, Check, ReadDeal, ReadOwner, Send, ReadBack
    <3> QED
      BY <3>1, <3>2, <3>3, <3>4
  <2>3. /\ contact' \in Owners /\ inflight' \subseteq Claims /\ applied' \subseteq Claims
        /\ missed' \subseteq Claims /\ byHand' \in BOOLEAN /\ faults' \in 0..MaxFaults
        /\ sent' \in [Claims -> Nat]
    <3>1. job[worker[w].claim].manager \in Owners
      BY <1>6, <2>0 DEF Work, Fail, Check, ReadDeal, ReadOwner, Dispatch, Send, Acknowledge,
                        ReadBack, Finished, Working, Confirmed, JobShape, Owners
    <3>2. CASE Send(w)
      <4>1. sent' \in [Claims -> Nat]
        BY <1>0, <2>0, <3>2 DEF Send
      <4> QED
        BY <1>0, <2>0, <3>1, <3>2, <4>1 DEF Send, Apply
    <3>3. CASE ~Send(w)
      BY <1>0, <1>6, <3>3, ContactAssumption DEF Work, Fail, Fault, Check, ReadDeal, ReadOwner, Dispatch,
         Acknowledge, ReadBack, Finished, Bitrix, history
    <3> QED
      BY <3>2, <3>3
  <2> QED
    BY <2>1, <2>2, <2>3 DEF TypeOK, WorkerStates
<1>7. ASSUME NEW c \in Claims, Expire(c) PROVE TypeOK'
  BY <1>0, <1>7, ContactAssumption DEF Expire, Fault, TypeOK, Bitrix, history, WorkerStates
<1>8. ASSUME NEW c \in Claims, Land(c) PROVE TypeOK'
  <2>1. job[c].manager \in Owners
    BY <1>8 DEF Land, JobShape, Confirmed, Owners
  <2> QED
    BY <1>0, <1>8, <2>1 DEF Land, Apply, TypeOK, WorkerStates
<1>9. ASSUME NEW p \in EditedTo, Edit(p) PROVE TypeOK'
  <2>1. p \in Owners
    BY ContactAssumption DEF Owners
  <2> QED
    BY <1>0, <1>9, <2>1 DEF Edit, Rows, TypeOK, WorkerStates
<1>10. ASSUME NEW w \in Workers, Crash(w) PROVE TypeOK'
  BY <1>0, <1>10, IdleType, ContactAssumption DEF Crash, Fault, TypeOK, Bitrix, history, WorkerStates
<1>11. CASE UNCHANGED vars
  BY <1>11 DEF vars, TypeOK
<1> QED
  BY <1>1, <1>2, <1>3, <1>4, <1>5, <1>6, <1>7, <1>8, <1>9, <1>10, <1>11 DEF Next
-----------------------------------------------------------------------------
(* The rest of the invariant, action by action.                            *)

Fence == JobShape /\ Working /\ Undispatched /\ Fenced /\ Counted

\* What the other definitions read of a worker and of the jobs.
LEMMA Quiet ==
  ASSUME CInv, UNCHANGED <<worker, sent, inflight>>, job' \in [Claims -> Jobs],
         \A c \in Claims :
           /\ job'[c].dispatched = job[c].dispatched
           /\ Confirmed(c) => Confirmed(c)'
           /\ job[c].gen # 0 \/ job'[c].gen # 0 => job'[c].status \notin {"none", "snapshot"}
           /\ job'[c].status # "none" => job'[c].manager \in Managers
           /\ \A w \in Workers : Held(w, c)' => Held(w, c)
  PROVE  Fence'
BY DEF CInv, Fence, JobShape, Working, Undispatched, Fenced, Counted, Sending

Before == {"check", "deal", "owner", "again", "dispatch"}

LEMMA Outcome ==
  ASSUME NEW table \in [Claims -> Jobs], NEW c \in Claims, NEW s,
         NEW next, next = [table EXCEPT ![c].status = s, ![c].lease = None]
  PROVE  \A d \in Claims :
           /\ next[d].dispatched = table[d].dispatched
           /\ next[d].gen = table[d].gen /\ next[d].manager = table[d].manager
           /\ next[d].status = IF d = c THEN s ELSE table[d].status
           /\ d # c => next[d] = table[d]
BY DEF Jobs

\* A worker that goes on without touching its job.
LEMMA Moves ==
  ASSUME CInv, UNCHANGED <<job, sent, inflight>>, NEW w \in Workers, NEW r \in WorkerStates,
         worker' = [worker EXCEPT ![w] = r],
         \/ r.pc = "idle"
         \/ /\ worker[w].pc # "idle" /\ r.claim = worker[w].claim
            /\ r.pc \in Before => worker[w].pc \in Before
            /\ r.pc # "send"
            /\ r.pc = "finish" => r.status # "none"
  PROVE  Fence'
<1>1. \A v \in Workers : worker'[v] = IF v = w THEN r ELSE worker[v]
  BY DEF CInv, TypeOK
<1>2. JobShape' /\ Counted'
  BY DEF CInv, JobShape, Counted, Confirmed
<1>3. Working'
  BY <1>1 DEF CInv, Working, Confirmed
<1>4. Undispatched'
  BY <1>1 DEF CInv, Undispatched, Before, Held
<1>5. Fenced'
  BY <1>1 DEF CInv, Fenced, Sending
<1> QED
  BY <1>2, <1>3, <1>4, <1>5 DEF Fence

LEMMA FenceStep ==
  ASSUME CInv, TypeOK', [Next]_vars
  PROVE  Fence'
<1>0. /\ job \in [Claims -> Jobs] /\ worker \in [Workers -> WorkerStates]
      /\ job' \in [Claims -> Jobs] /\ sent \in [Claims -> Nat]
  BY DEF CInv, TypeOK, WorkerStates
<1> USE DEF CInv
<1>1. ASSUME NEW c \in Claims, NEW m \in Managers, Snapshot(c, m) PROVE Fence'
  <2>1. ~Confirmed(c) /\ job'[c].status = "snapshot" /\ job'[c].gen = 0
        /\ ~job'[c].dispatched /\ job'[c].manager = m
    BY <1>0, <1>1 DEF Snapshot, Confirmed, NoJob
  <2>2. \A d \in Claims : d # c => job'[d] = job[d]
    BY <1>0, <1>1 DEF Snapshot
  <2>3. ~job[c].dispatched
    BY <2>1 DEF JobShape, Jobs
  <2>4. UNCHANGED <<worker, sent, inflight>>
    BY <1>1 DEF Snapshot, Bitrix, history
  <2>5. ASSUME NEW d \in Claims
        PROVE  /\ job'[d].dispatched = job[d].dispatched
               /\ Confirmed(d) => Confirmed(d)'
               /\ job[d].gen # 0 \/ job'[d].gen # 0 => job'[d].status \notin {"none", "snapshot"}
               /\ job'[d].status # "none" => job'[d].manager \in Managers
               /\ \A w \in Workers : Held(w, d)' => Held(w, d)
    <3>1. CASE d = c
      <4>1. job[c].gen = 0
        BY <1>1 DEF Snapshot, JobShape
      <4>2. job[c].dispatched \in BOOLEAN /\ job'[c].dispatched \in BOOLEAN
        BY <1>0 DEF Jobs
      <4> QED
        BY <2>1, <2>3, <3>1, <4>1, <4>2 DEF Held
    <3>2. CASE d # c
      BY <2>2, <3>2 DEF Held, Confirmed, JobShape
    <3> QED
      BY <3>1, <3>2
  <2> QED
    BY <1>0, <2>4, <2>5, Quiet
<1>2. ASSUME NEW c \in Claims, Reserve(c) PROVE Fence'
  <2>1. /\ job'[c].status = "reserved" /\ job[c].status = "snapshot"
        /\ job'[c].dispatched = job[c].dispatched /\ job'[c].manager = job[c].manager
    BY <1>0, <1>2 DEF Reserve, Jobs
  <2>2. \A d \in Claims : d # c => job'[d] = job[d]
    BY <1>0, <1>2 DEF Reserve
  <2>3. UNCHANGED <<worker, sent, inflight>>
    BY <1>2 DEF Reserve, Bitrix, history
  <2>4. ASSUME NEW d \in Claims
        PROVE  /\ job'[d].dispatched = job[d].dispatched
               /\ Confirmed(d) => Confirmed(d)'
               /\ job[d].gen # 0 \/ job'[d].gen # 0 => job'[d].status \notin {"none", "snapshot"}
               /\ job'[d].status # "none" => job'[d].manager \in Managers
               /\ \A w \in Workers : Held(w, d)' => Held(w, d)
    BY <2>1, <2>2 DEF Held, Confirmed, JobShape
  <2> QED
    BY <1>0, <2>3, <2>4, Quiet
<1>3. ASSUME NEW c \in Claims, NEW s \in {"pending", "cancelled", "conflict"}, Settle(c, s)
      PROVE  Fence'
  <2>1. /\ job'[c].status = s /\ job[c].status = "reserved"
        /\ job'[c].dispatched = job[c].dispatched /\ job'[c].manager = job[c].manager
        /\ job'[c].gen = job[c].gen
    BY <1>0, <1>3 DEF Settle, SetStatus, Jobs
  <2>2. \A d \in Claims : d # c => job'[d] = job[d]
    BY <1>0, <1>3 DEF Settle, SetStatus
  <2>3. UNCHANGED <<worker, sent, inflight>>
    BY <1>3 DEF Settle, Bitrix, history
  <2>4. ASSUME NEW d \in Claims
        PROVE  /\ job'[d].dispatched = job[d].dispatched
               /\ Confirmed(d) => Confirmed(d)'
               /\ job[d].gen # 0 \/ job'[d].gen # 0 => job'[d].status \notin {"none", "snapshot"}
               /\ job'[d].status # "none" => job'[d].manager \in Managers
               /\ \A w \in Workers : Held(w, d)' => Held(w, d)
    BY <2>1, <2>2 DEF Held, Confirmed, JobShape
  <2> QED
    BY <1>0, <2>3, <2>4, Quiet
<1>4. ASSUME NEW w \in Workers, NEW c \in Claims, Lease(w, c) PROVE Fence'
  <2>1. /\ job'[c].status = "checking" /\ job'[c].lease = w
        /\ job'[c].dispatched = job[c].dispatched /\ job'[c].manager = job[c].manager
        /\ job'[c].gen = job[c].gen /\ Confirmed(c)
    <3>1. Released[c] \in Jobs
      BY ReleasedShape
    <3>2. job'[c] = [Released[c] EXCEPT !.status = "checking", !.lease = w]
      BY <1>4, ReleasedShape, <3>1 DEF Lease, Jobs
    <3> QED
      BY <1>4, <3>1, <3>2, ReleasedShape DEF Lease, Jobs, Confirmed
  <2>2. \A d \in Claims : d # c => job'[d] = Released[d]
    BY <1>4, ReleasedShape DEF Lease
  <2>3. /\ worker[w].pc = "idle" /\ worker'[w].claim = c
        /\ worker'[w].pc = IF job[c].dispatched THEN "readback" ELSE "check"
    BY <1>0, <1>4 DEF Lease, Idle
  <2>4. \A v \in Workers : v # w => worker'[v] = worker[v]
    BY <1>0, <1>4 DEF Lease
  <2>5. sent' = sent /\ inflight' = inflight
    BY <1>4 DEF Lease, Bitrix, history
  <2>6. \A d \in Claims : /\ job'[d].dispatched = job[d].dispatched
                          /\ Confirmed(d) => Confirmed(d)'
                          /\ \A v \in Workers : v # w /\ Held(v, d)' => Held(v, d)
    BY <2>1, <2>2, ReleasedShape DEF Held, Confirmed
  <2>7. JobShape'
    BY <2>1, <2>2, <2>5, <2>6, ReleasedShape DEF JobShape, Confirmed
  <2>8. Working'
    BY <2>1, <2>3, <2>4, <2>6 DEF Working, Confirmed
  <2>9. Undispatched'
    <3>1. ASSUME NEW v \in Workers, worker'[v].pc \in Before, Held(v, worker[v].claim)'
          PROVE  ~job'[worker'[v].claim].dispatched
      <4>1. CASE v = w
        BY <2>1, <2>3, <3>1, <4>1 DEF Before
      <4>2. CASE v # w
        <5>1. worker[v].pc \in Before /\ worker'[v].claim = worker[v].claim
          BY <2>4, <3>1, <4>2
        <5>2. worker[v].claim \in Claims
          BY <5>1 DEF Working, Before
        <5>3. Held(v, worker[v].claim)
          BY <2>6, <3>1, <4>2, <5>1, <5>2 DEF Held
        <5> QED
          BY <2>6, <5>1, <5>2, <5>3 DEF Undispatched, Before
      <4> QED
        BY <4>1, <4>2
    <3> QED
      BY <3>1 DEF Undispatched, Before, Held
  <2>10. Fenced' /\ Counted'
    BY <2>3, <2>4, <2>5, <2>6 DEF Fenced, Sending, Counted
  <2> QED
    BY <2>7, <2>8, <2>9, <2>10 DEF Fence
<1>5. ASSUME NEW w \in Workers, NEW c \in Claims, LeaseNone(w, c) PROVE Fence'
  <2>1. UNCHANGED <<worker, sent, inflight>> /\ job' = Released
    BY <1>5 DEF LeaseNone, Bitrix, history
  <2>2. ASSUME NEW d \in Claims
        PROVE  /\ job'[d].dispatched = job[d].dispatched
               /\ Confirmed(d) => Confirmed(d)'
               /\ job[d].gen # 0 \/ job'[d].gen # 0 => job'[d].status \notin {"none", "snapshot"}
               /\ job'[d].status # "none" => job'[d].manager \in Managers
               /\ \A v \in Workers : Held(v, d)' => Held(v, d)
    BY <2>1, ReleasedShape DEF Held, Confirmed, JobShape
  <2> QED
    BY <1>0, <2>1, <2>2, Quiet
<1>6. ASSUME NEW w \in Workers, Check(w) \/ ReadDeal(w) \/ ReadOwner(w) \/ ReadBack(w) \/ Fail(w)
                               \/ Crash(w)
      PROVE  Fence'
  <2>1. UNCHANGED <<job, sent, inflight>>
    BY <1>6 DEF Check, ReadDeal, ReadOwner, ReadBack, Fail, Crash, Bitrix, history
  <2>2. PICK r \in WorkerStates :
          /\ worker' = [worker EXCEPT ![w] = r]
          /\ \/ r.pc = "idle"
             \/ /\ worker[w].pc # "idle" /\ r.claim = worker[w].claim
                /\ r.pc \in Before => worker[w].pc \in Before
                /\ r.pc # "send"
                /\ r.pc = "finish" => r.status # "none"
    <3> DEFINE at(pc) == [worker[w] EXCEPT !.pc = pc]
               end(status) == [worker[w] EXCEPT !.pc = "finish", !.status = status]
    <3>0. worker[w] \in WorkerStates
      BY <1>0
    <3>1. CASE worker' = [worker EXCEPT ![w] = Idle]
      BY <3>1, IdleType DEF Idle
    <3>2. ASSUME NEW status \in {"pending", "ready", "conflict"}, Finish(w, status)
          PROVE  /\ worker' = [worker EXCEPT ![w] = end(status)]
                 /\ end(status) \in WorkerStates /\ end(status).pc = "finish"
                 /\ end(status).claim = worker[w].claim /\ end(status).status = status
      BY <1>0, <3>0, <3>2 DEF Finish, WorkerStates, PCs
    <3>3. ASSUME NEW pc \in PCs, Goto(w, pc)
          PROVE  /\ worker' = [worker EXCEPT ![w] = at(pc)]
                 /\ at(pc) \in WorkerStates /\ at(pc).pc = pc
                 /\ at(pc).claim = worker[w].claim
      BY <1>0, <3>0, <3>3 DEF Goto, WorkerStates
    <3>4. CASE \E status \in {"pending", "ready", "conflict"} : Finish(w, status)
      <4>1. worker[w].pc # "idle"
        BY <1>6 DEF Check, ReadDeal, ReadOwner, ReadBack, Fail, Crash
      <4> QED
        BY <3>2, <3>4, <4>1 DEF Before
    <3>5. CASE \E pc \in {"deal", "owner", "dispatch"} : Goto(w, pc) /\ worker[w].pc \in Before
      BY <3>3, <3>5 DEF Before, PCs
    <3>6. CASE /\ worker' = [worker EXCEPT ![w].pc = "again", ![w].owner = contact]
               /\ worker[w].pc = "owner"
      <4> DEFINE r == [worker[w] EXCEPT !.pc = "again", !.owner = contact]
      <4>1. worker' = [worker EXCEPT ![w] = r]
        BY <1>0, <3>0, <3>6 DEF WorkerStates
      <4>2. r \in WorkerStates /\ r.pc = "again" /\ r.claim = worker[w].claim
        BY <3>0 DEF WorkerStates, PCs, TypeOK
      <4> QED
        BY <3>6, <4>1, <4>2 DEF Before
    <3> QED
      BY <1>6, <3>1, <3>4, <3>5, <3>6 DEF Check, ReadDeal, ReadOwner, ReadBack, Fail, Crash,
         Refused, Verdict, Before
  <2> QED
    BY <2>1, <2>2, Moves
<1>7. ASSUME NEW w \in Workers, Dispatch(w) PROVE Fence'
  <2> DEFINE c == worker[w].claim
  <2>0. c \in Claims /\ worker[w].pc = "dispatch" /\ Confirmed(c) /\ worker[w] \in WorkerStates
        /\ sent' = sent /\ inflight' = inflight
    BY <1>0, <1>7 DEF Dispatch, Working, Bitrix, history
  <2>1. CASE Refused(w, c) /\ UNCHANGED job
    <3>1. CASE worker' = [worker EXCEPT ![w] = Idle]
      BY <2>0, <2>1, <3>1, IdleType, Moves DEF Idle
    <3>2. CASE \E status \in {"pending", "conflict"} : Finish(w, status)
      <4>1. PICK status \in {"pending", "conflict"} : Finish(w, status)
        BY <3>2
      <4> DEFINE r == [worker[w] EXCEPT !.pc = "finish", !.status = status]
      <4>2. r \in WorkerStates /\ r.pc = "finish" /\ r.claim = c /\ r.status # "none"
        BY <2>0 DEF WorkerStates, PCs
      <4>3. worker' = [worker EXCEPT ![w] = r]
        BY <1>0, <2>0, <4>1 DEF Finish, WorkerStates
      <4> QED
        BY <2>0, <2>1, <4>2, <4>3, Moves DEF Before
    <3> QED
      BY <2>1, <3>1, <3>2 DEF Refused, Verdict
  <2>2. CASE ~(Refused(w, c) /\ UNCHANGED job)
    <3>1. /\ Held(w, c) /\ Goto(w, "send")
          /\ job' = [job EXCEPT ![c].dispatched = TRUE, ![c].dispatchOwner = worker[w].owner]
      BY <1>7, <2>2 DEF Dispatch, Current
    <3>2. /\ job'[c].dispatched /\ job'[c].status = job[c].status /\ job'[c].gen = job[c].gen
          /\ job'[c].manager = job[c].manager /\ job'[c].lease = job[c].lease
      BY <1>0, <2>0, <3>1 DEF Jobs
    <3>3. \A d \in Claims : d # c => job'[d] = job[d]
      BY <1>0, <3>1
    <3>4. worker'[w].pc = "send" /\ worker'[w].claim = c
      BY <1>0, <3>1 DEF Goto, WorkerStates
    <3>5. \A v \in Workers : v # w => worker'[v] = worker[v]
      BY <1>0, <3>1 DEF Goto
    <3>6. ~job[c].dispatched /\ sent[c] = 0
      BY <1>0, <2>0, <3>1 DEF Undispatched, Counted
    <3>7. JobShape'
      BY <2>0, <3>2, <3>3 DEF JobShape, Confirmed
    <3>8. Working'
      BY <2>0, <3>2, <3>3, <3>4, <3>5 DEF Working, Confirmed
    <3>9. Undispatched'
      <4>1. \A v \in Workers, d \in Claims : Held(v, d)' /\ v # w => d # c
        BY <3>1, <3>2 DEF Held
      <4>2. ASSUME NEW v \in Workers, worker'[v].pc \in Before, Held(v, worker[v].claim)'
            PROVE  v # w /\ worker'[v].claim = worker[v].claim /\ ~job'[worker[v].claim].dispatched
        <5>1. v # w /\ worker'[v] = worker[v]
          BY <3>4, <3>5, <4>2 DEF Before
        <5>2. worker[v].claim \in Claims
          BY <4>2, <5>1 DEF Working, Before
        <5>3. worker[v].claim # c
          <6>1. \A d \in Claims : d = worker'[v].claim => Held(v, d)'
            BY <4>2 DEF Held
          <6> QED
            BY <4>1, <5>1, <5>2, <6>1
        <5>4. job'[worker[v].claim] = job[worker[v].claim]
          BY <3>3, <5>2, <5>3
        <5> QED
          BY <4>2, <5>1, <5>2, <5>4 DEF Undispatched, Before, Held
      <4> QED
        BY <3>4, <3>5, <4>2 DEF Undispatched, Before, Held
    <3>10. Fenced'
      <4>1. \A v \in Workers : ~Sending(v, c)
        BY <2>0, <3>6 DEF Fenced
      <4>2. \A v \in Workers, d \in Claims :
              Sending(v, d)' => (v = w /\ d = c) \/ (v # w /\ d # c /\ Sending(v, d))
        BY <3>4, <3>5, <4>1 DEF Sending
      <4>3. \A d \in Claims : job[d].dispatched => job'[d].dispatched
        BY <3>2, <3>3
      <4> QED
        BY <2>0, <3>2, <3>6, <4>2, <4>3 DEF Fenced
    <3>11. Counted'
      BY <2>0, <3>2, <3>3 DEF Counted
    <3> QED
      BY <3>7, <3>8, <3>9, <3>10, <3>11 DEF Fence
  <2> QED
    BY <2>1, <2>2
<1>8. ASSUME NEW w \in Workers, Send(w) PROVE Fence'
  <2> DEFINE c == worker[w].claim
  <2>0. c \in Claims /\ Sending(w, c) /\ Confirmed(c) /\ job[c].dispatched /\ sent[c] = 0
    BY <1>0, <1>8 DEF Send, Working, Fenced, Sending
  <2>1. /\ job' = job /\ sent'[c] = 1 /\ inflight' \subseteq inflight \cup {c}
        /\ \A d \in Claims : d # c => sent'[d] = sent[d]
    BY <1>0, <1>8, <2>0 DEF Send
  <2>2. \A v \in Workers : v # w => worker'[v] = worker[v]
    BY <1>0, <1>8 DEF Send, Goto, Finish
  <2>3. /\ worker'[w].pc \in {"ack", "readback", "finish"} /\ worker'[w].claim = c
        /\ worker'[w].pc = "finish" => worker'[w].status # "none"
    BY <1>0, <1>8 DEF Send, Goto, Finish, WorkerStates
  <2>4. JobShape' /\ Counted'
    BY <2>0, <2>1 DEF JobShape, Confirmed, Counted
  <2>5. Working' /\ Undispatched'
    BY <2>0, <2>1, <2>2, <2>3 DEF Working, Undispatched, Confirmed, Held
  <2>6. Fenced'
    <3>1. \A v \in Workers, d \in Claims : Sending(v, d)' => v # w /\ d # c /\ Sending(v, d)
      BY <2>0, <2>2, <2>3 DEF Sending, Fenced
    <3> QED
      BY <2>1, <3>1 DEF Fenced
  <2> QED
    BY <2>4, <2>5, <2>6 DEF Fence
<1>9. ASSUME NEW w \in Workers, Acknowledge(w) PROVE Fence'
  <2> DEFINE c == worker[w].claim
  <2>0. /\ c \in Claims /\ worker[w].pc = "ack" /\ sent' = sent /\ inflight' = inflight
    BY <1>0, <1>9 DEF Acknowledge, Working, Bitrix, history
  <2>1. \A d \in Claims : /\ job'[d].dispatched = job[d].dispatched
                          /\ job'[d].status = job[d].status /\ job'[d].gen = job[d].gen
                          /\ job'[d].manager = job[d].manager /\ job'[d].lease = job[d].lease
    BY <1>0, <1>9, <2>0 DEF Acknowledge, Jobs
  <2>2. /\ worker'[w].pc = "readback" /\ worker'[w].claim = c
        /\ \A v \in Workers : v # w => worker'[v] = worker[v]
    BY <1>0, <1>9 DEF Acknowledge, WorkerStates
  <2>3. JobShape' /\ Counted'
    BY <2>0, <2>1 DEF JobShape, Confirmed, Counted
  <2>4. Working'
    BY <2>0, <2>1, <2>2 DEF Working, Confirmed
  <2>5. Undispatched'
    BY <2>1, <2>2 DEF Undispatched, Held, Working
  <2>6. Fenced'
    BY <2>0, <2>1, <2>2 DEF Fenced, Sending
  <2> QED
    BY <2>3, <2>4, <2>5, <2>6 DEF Fence
<1>10. ASSUME NEW w \in Workers, Finished(w) PROVE Fence'
  <2> DEFINE c == worker[w].claim
  <2>0. /\ c \in Claims /\ worker[w].pc = "finish" /\ sent' = sent /\ inflight' = inflight
        /\ Confirmed(c) /\ worker[w].status \in {"pending", "ready", "conflict"}
    BY <1>0, <1>10 DEF Finished, Working, Bitrix, history, WorkerStates
  <2>1. \A d \in Claims : /\ job'[d].dispatched = job[d].dispatched
                          /\ job'[d].gen = job[d].gen /\ job'[d].manager = job[d].manager
                          /\ \/ job'[d].status = job[d].status /\ job'[d].lease = job[d].lease
                             \/ d = c /\ job'[d].status = worker[w].status
    <3>1. CASE Held(w, c)
      <4>1. job' = [job EXCEPT ![c].status = worker[w].status, ![c].lease = None]
        BY <1>10, <3>1 DEF Finished
      <4> QED
        BY <1>0, <2>0, <4>1, Outcome
    <3>2. CASE ~Held(w, c)
      BY <1>10, <3>2 DEF Finished
    <3> QED
      BY <3>1, <3>2
  <2>2. worker'[w] = Idle /\ \A v \in Workers : v # w => worker'[v] = worker[v]
    BY <1>0, <1>10 DEF Finished
  <2>3. JobShape' /\ Counted'
    BY <2>0, <2>1 DEF JobShape, Confirmed, Counted
  <2>4. Working'
    BY <2>0, <2>1, <2>2 DEF Working, Confirmed, Idle
  <2>5. Undispatched'
    BY <2>0, <2>1, <2>2 DEF Undispatched, Held, Working, Idle
  <2>6. Fenced'
    BY <2>0, <2>1, <2>2 DEF Fenced, Sending, Idle
  <2> QED
    BY <2>3, <2>4, <2>5, <2>6 DEF Fence
<1>11. ASSUME NEW c \in Claims, Expire(c) \/ Land(c) PROVE Fence'
  <2>1. /\ job' = job /\ worker' = worker /\ sent' = sent /\ inflight' \subseteq inflight
    BY <1>11 DEF Expire, Land, Bitrix, history
  <2>2. JobShape'
    BY <2>1 DEF JobShape, Confirmed
  <2>3. Working' /\ Undispatched'
    BY <2>1 DEF Working, Undispatched, Confirmed, Held
  <2>4. Fenced' /\ Counted'
    BY <2>1 DEF Fenced, Counted, Sending
  <2> QED
    BY <2>2, <2>3, <2>4 DEF Fence
<1>12. CASE (\E p \in EditedTo : Edit(p)) \/ UNCHANGED vars
  <2>1. UNCHANGED <<job, worker, sent, inflight>>
    BY <1>12 DEF Edit, vars
  <2> QED
    BY <2>1 DEF Fence, JobShape, Working, Undispatched, Fenced, Counted, Sending, Confirmed, Held
<1> QED
  BY <1>1, <1>2, <1>3, <1>4, <1>5, <1>6, <1>7, <1>8, <1>9, <1>10, <1>11, <1>12 DEF Next, Work
-----------------------------------------------------------------------------
THEOREM Invariant == Spec => []CInv
<1>1. CInv /\ [Next]_vars => CInv'
  BY TypeStep, FenceStep DEF CInv, Fence
<1> QED
  BY <1>1, InitInv, PTL DEF Spec

\* The job table, the workers and the model's history keep their types.
THEOREM TypeCorrect == Spec => []TypeOK
<1>1. CInv => TypeOK
  BY DEF CInv
<1> QED
  BY <1>1, Invariant, PTL

\* Whatever workers crash, leases lapse and answers get lost, process() sends
\* the crm.contact.update of a job at most once.
THEOREM UpdatesSentOnce == Spec => []SentOnce
<1>1. CInv => SentOnce
  BY DEF CInv, Counted, SentOnce, TypeOK
<1> QED
  BY <1>1, Invariant, PTL
-----------------------------------------------------------------------------
(* Serialized and GenerationOrder: one active job, the newest dispatched.  *)

\* A job that is worked on, or whose update is in doubt; Busy looks for these.
Active(c) == job[c].status = "checking" \/ (job[c].status = "pending" /\ job[c].dispatched)
\* An update that was sent and will not be applied any more.
Rest(c) == sent[c] # 0 /\ c \notin inflight
\* A worker that has read the owner for its job and has not reached the fence.
Reader(w, c) == /\ worker[w].claim = c /\ worker[w].pc \in {"again", "dispatch"}
                /\ Held(w, c)

\* Reserved jobs have generations of their own, no higher than their number.
Numbered == /\ \A c \in Claims : job[c].status \notin {"none", "snapshot"} => job[c].gen # 0
            /\ \A c \in Claims : job[c].gen <= Cardinality(Rows)
            /\ \A c, d \in Claims : job[c].gen = job[d].gen /\ job[c].gen # 0 => c = d

\* Lease lets one job in.
OneActive == \A c, d \in Claims : Active(c) /\ Active(d) => c = d

\* The active job, once dispatched, is the newest of the dispatched ones.
InOrder == \A c, d \in Claims : /\ job[c].dispatched /\ Active(c) /\ job[d].dispatched /\ d # c
                                     => job[d].gen < job[c].gen
                                /\ c \in applied => job[c].dispatched

\* An outstanding update belongs to an active job and would change the owner; one
\* that was acknowledged is over.
Pending == \A c \in Claims : /\ c \in inflight => sent[c] # 0
                             /\ Outstanding(c) => /\ Active(c) /\ job[c].dispatched
                                                  /\ contact # job[c].manager
                             /\ job[c].acknowledged => Rest(c)

\* What workers know: the owner they read, the answer they have, the outcome.
Decisions ==
  \A w \in Workers, c \in Claims :
    worker[w].claim = c =>
      /\ Reader(w, c) => contact # job[c].manager
      /\ worker[w].acknowledged \/ worker[w].pc = "ack" => Rest(c)
      /\ worker[w].pc = "finish" /\ worker[w].status \in Terminal /\ Held(w, c) => ~Outstanding(c)

\* The owner is one the job expects, and who was read stays so until a person edits.
Matched(c) == \/ contact = job[c].previous
              \/ \E d \in Rows : job[d].gen < job[c].gen /\ job[d].manager = contact
Kept == \A c \in Claims : byHand /\ c \notin missed
           /\ (Outstanding(c) \/ \E w \in Workers : Reader(w, c)) => Matched(c)

SInv == Numbered /\ OneActive /\ InOrder /\ Pending /\ Decisions
-----------------------------------------------------------------------------
LEMMA InitSerial == Init => SInv
<1> SUFFICES ASSUME Init PROVE SInv
  OBVIOUS
<1>1. \A c \in Claims : /\ job[c].status = "none" /\ job[c].gen = 0 /\ ~job[c].dispatched
                        /\ ~job[c].acknowledged /\ ~Outstanding(c)
  BY DEF Init, NoJob, Outstanding, Idle
<1>2. \A w \in Workers : worker[w].pc = "idle" /\ ~worker[w].acknowledged
  BY DEF Init, Idle
<1>3. Rows = {}
  BY <1>1 DEF Rows
<1>4. Numbered
  BY <1>1, <1>3, FS_EmptySet DEF Numbered
<1>5. OneActive /\ InOrder /\ Pending
  BY <1>1 DEF Init, OneActive, InOrder, Pending, Active
<1>6. Decisions
  BY <1>2 DEF Decisions, Reader
<1> QED
  BY <1>4, <1>5, <1>6 DEF SInv

\* A worker that goes on while nothing else changes.
LEMMA SerialMoves ==
  ASSUME CInv, SInv, UNCHANGED <<job, sent, inflight, contact, applied>>,
         NEW w \in Workers, NEW r, worker' = [worker EXCEPT ![w] = r],
         r.pc \notin {"send", "ack"},
         r.acknowledged => worker[w].acknowledged /\ r.claim = worker[w].claim,
         \A c \in Claims : r.claim = c =>
           /\ r.pc \in {"again", "dispatch"} /\ Held(w, c) => contact # job[c].manager
           /\ r.pc = "finish" /\ r.status \in Terminal /\ Held(w, c) => ~Outstanding(c)
  PROVE  SInv'
<1>1. \A v \in Workers : worker'[v] = IF v = w THEN r ELSE worker[v]
  BY DEF CInv, TypeOK
<1>2. \A c \in Claims : Outstanding(c)' => Outstanding(c)
  BY <1>1 DEF Outstanding
<1>3. Numbered' /\ OneActive' /\ InOrder'
  BY DEF SInv, Numbered, Rows, OneActive, InOrder, Active
<1>4. Pending'
  BY <1>2 DEF SInv, Pending, Active, Rest
<1>5. Decisions'
  BY <1>1, <1>2 DEF SInv, Decisions, Reader, Held, Rest
<1> QED
  BY <1>3, <1>4, <1>5 DEF SInv

\* The holder of a lease that was not dispatched has nothing outstanding.
LEMMA NothingSent ==
  ASSUME CInv, SInv, NEW w \in Workers, NEW c \in Claims, worker[w].claim = c,
         worker[w].pc \in Before, Held(w, c)
  PROVE  ~Outstanding(c)
BY DEF CInv, SInv, Undispatched, Before, Pending

\* What is over is not outstanding.
LEMMA AtRest ==
  ASSUME CInv, NEW c \in Claims, Rest(c)
  PROVE  ~Outstanding(c)
BY DEF CInv, Fenced, Sending, Outstanding, Rest

\* Steps of a worker that change neither a job nor the contact.
LEMMA SerialQuietly ==
  ASSUME CInv, SInv, NEW w \in Workers,
         Check(w) \/ ReadDeal(w) \/ ReadOwner(w) \/ ReadBack(w) \/ Fail(w) \/ Crash(w)
           \/ (Dispatch(w) /\ UNCHANGED job) \/ (Acknowledge(w) /\ UNCHANGED job)
  PROVE  SInv'
<1> DEFINE c == worker[w].claim
           at(pc) == [worker[w] EXCEPT !.pc = pc]
           end(status) == [worker[w] EXCEPT !.pc = "finish", !.status = status]
<1>0. /\ worker \in [Workers -> WorkerStates] /\ worker[w] \in WorkerStates
      /\ c \in Claims /\ worker[w].pc # "idle"
  <2>1. worker[w].pc # "idle"
    BY DEF Check, ReadDeal, ReadOwner, ReadBack, Fail, Crash, Dispatch, Acknowledge
  <2> QED
    BY <2>1 DEF CInv, TypeOK, WorkerStates, Working
<1>1. UNCHANGED <<job, sent, inflight, contact, applied>>
  BY DEF Check, ReadDeal, ReadOwner, ReadBack, Fail, Crash, Dispatch, Acknowledge, Bitrix, history
<1>2. CASE worker' = [worker EXCEPT ![w] = Idle]
  <2>1. Idle.pc = "idle" /\ ~Idle.acknowledged
    BY DEF Idle
  <2> QED
    BY <1>1, <1>2, <2>1, SerialMoves
<1>3. ASSUME NEW status \in {"pending", "ready", "conflict"}, Finish(w, status),
             status \in Terminal /\ Held(w, c) => ~Outstanding(c)
      PROVE  SInv'
  <2>1. /\ worker' = [worker EXCEPT ![w] = end(status)]
        /\ end(status).pc = "finish" /\ end(status).status = status
        /\ end(status).claim = c /\ end(status).acknowledged = worker[w].acknowledged
    BY <1>0, <1>3 DEF Finish, WorkerStates
  <2>2. PICK r : r = end(status)
    OBVIOUS
  <2>3. \A d \in Claims : r.claim = d =>
          /\ r.pc \in {"again", "dispatch"} /\ Held(w, d) => contact # job[d].manager
          /\ r.pc = "finish" /\ r.status \in Terminal /\ Held(w, d) => ~Outstanding(d)
    BY <1>3, <2>1, <2>2
  <2> QED
    BY <1>1, <2>1, <2>2, <2>3, SerialMoves
<1>4. ASSUME NEW pc \in {"deal", "owner", "dispatch", "readback"}, Goto(w, pc),
             pc = "dispatch" /\ Held(w, c) => contact # job[c].manager
      PROVE  SInv'
  <2>1. /\ worker' = [worker EXCEPT ![w] = at(pc)] /\ at(pc).pc = pc
        /\ at(pc).claim = c /\ at(pc).acknowledged = worker[w].acknowledged
    BY <1>0, <1>4 DEF Goto, WorkerStates
  <2> HIDE DEF at
  <2> QED
    BY <1>1, <1>4, <2>1, SerialMoves
<1>5. ASSUME worker[w].pc \in Before
      PROVE  Held(w, c) => ~Outstanding(c)
  BY <1>0, <1>5, NothingSent
<1>6. ASSUME Refused(w, c), worker[w].pc \in Before PROVE SInv'
  BY <1>2, <1>3, <1>5, <1>6 DEF Refused, Verdict
<1>7. CASE Check(w)
  BY <1>4, <1>6, <1>7 DEF Check, Before
<1>8. CASE ReadDeal(w)
  <2>1. worker[w].pc = "again" /\ Held(w, c) => contact # job[c].manager
    BY <1>0 DEF SInv, Decisions, Reader
  <2> QED
    BY <1>3, <1>4, <1>5, <1>8, <2>1 DEF ReadDeal, Before
<1>9. CASE ReadOwner(w)
  <2>1. CASE /\ contact # job[c].manager
             /\ worker' = [worker EXCEPT ![w].pc = "again", ![w].owner = contact]
    <3> DEFINE r == [worker[w] EXCEPT !.pc = "again", !.owner = contact]
    <3>1. /\ worker' = [worker EXCEPT ![w] = r] /\ r.pc = "again" /\ r.claim = c
          /\ r.acknowledged = worker[w].acknowledged
      BY <1>0, <2>1 DEF WorkerStates
    <3> HIDE DEF r
    <3> QED
      BY <1>1, <2>1, <3>1, SerialMoves
  <2> QED
    BY <1>3, <1>5, <1>9, <2>1 DEF ReadOwner, Before
<1>10. CASE ReadBack(w)
  <2>1. contact = job[c].manager => ~Outstanding(c)
    BY <1>0 DEF SInv, Pending
  <2>2. Replaced(w, c) => ~Outstanding(c)
    BY <1>0, AtRest DEF Replaced, SInv, Decisions
  <2> QED
    BY <1>3, <1>10, <2>1, <2>2 DEF ReadBack, Terminal
<1>11. CASE Fail(w)
  BY <1>3, <1>11 DEF Fail, Terminal
<1>12. CASE Crash(w)
  BY <1>2, <1>12 DEF Crash
<1>13. CASE Dispatch(w) /\ UNCHANGED job
  <2>1. CASE Refused(w, c)
    BY <1>6, <1>13, <2>1 DEF Dispatch, Before
  <2>2. CASE ~Refused(w, c)
    <3>1. Held(w, c) /\ job' = [job EXCEPT ![c].dispatched = TRUE, ![c].dispatchOwner = worker[w].owner]
      BY <1>13, <2>2 DEF Dispatch, Current
    <3>2. job[c] \in Jobs /\ ~job[c].dispatched
      BY <1>0, <1>13, <3>1 DEF Dispatch, CInv, TypeOK, Undispatched
    <3>3. job'[c].dispatched
      BY <1>0, <3>1, <3>2 DEF CInv, TypeOK, Jobs
    <3> QED
      BY <1>13, <3>2, <3>3
  <2> QED
    BY <2>1, <2>2
<1>14. CASE Acknowledge(w) /\ UNCHANGED job
  <2> DEFINE r == [worker[w] EXCEPT !.pc = "readback", !.acknowledged = TRUE]
  <2>1. worker' = [worker EXCEPT ![w] = r] /\ r.pc = "readback" /\ r.claim = c /\ r.acknowledged
    BY <1>0, <1>14 DEF WorkerStates, Acknowledge
  <2>2. Rest(c)
    BY <1>0, <1>14 DEF Acknowledge, SInv, Decisions
  <2>3. \A v \in Workers : worker'[v] = IF v = w THEN r ELSE worker[v]
    BY <1>0, <2>1
  <2>4. \A d \in Claims : Outstanding(d)' => Outstanding(d)
    BY <1>1, <2>1, <2>3 DEF Outstanding
  <2>5. Numbered' /\ OneActive' /\ InOrder'
    BY <1>1 DEF SInv, Numbered, Rows, OneActive, InOrder, Active
  <2>6. Pending'
    BY <1>1, <2>4 DEF SInv, Pending, Active, Rest
  <2>7. Decisions'
    BY <1>1, <2>1, <2>2, <2>3, <2>4 DEF SInv, Decisions, Reader, Held, Rest
  <2> QED
    BY <2>5, <2>6, <2>7 DEF SInv
<1> QED
  BY <1>7, <1>8, <1>9, <1>10, <1>11, <1>12, <1>13, <1>14

\* Steps that change the jobs only, none of them in use.
LEMMA SerialJobs ==
  ASSUME CInv, SInv, Numbered', UNCHANGED <<worker, sent, inflight, contact, applied>>,
         \A c \in Claims :
           /\ job'[c].dispatched = job[c].dispatched
           /\ job'[c].acknowledged => job[c].acknowledged
           /\ job[c].dispatched => /\ job'[c].gen = job[c].gen
                                   /\ job'[c].manager = job[c].manager
           /\ Active(c)' => Active(c)
           /\ Active(c) /\ job[c].dispatched => Active(c)'
           /\ \A w \in Workers : Held(w, c)' => Held(w, c) /\ job'[c].manager = job[c].manager
  PROVE  SInv'
<1>1. OneActive' /\ InOrder'
  BY DEF SInv, OneActive, InOrder
<1>2. \A c \in Claims : Outstanding(c)' <=> Outstanding(c)
  BY DEF Outstanding
<1>3. Pending'
  BY <1>2 DEF SInv, Pending, Rest
<1>4. Decisions'
  <2>1. ASSUME NEW w \in Workers, NEW c \in Claims PROVE Reader(w, c)' => Reader(w, c) /\ job'[c].manager = job[c].manager
    BY DEF Reader
  <2> QED
    BY <1>2, <2>1 DEF SInv, Decisions, Rest
<1> QED
  BY <1>1, <1>3, <1>4 DEF SInv

\* The numbers stay when generations and statuses do, as far as rows go.
LEMMA NumbersKept ==
  ASSUME SInv, Rows' = Rows,
         \A c \in Claims : /\ job'[c].gen = job[c].gen
                           /\ job'[c].status \notin {"none", "snapshot"} => job[c].status \notin {"none", "snapshot"}
  PROVE  Numbered'
BY DEF SInv, Numbered

\* The claims' own steps, and leases that run out.
LEMMA SerialClaims ==
  ASSUME CInv, SInv, NEW c \in Claims,
         \/ \E m \in Managers : Snapshot(c, m)
         \/ Reserve(c) \/ Expire(c)
         \/ \E s \in {"pending", "cancelled", "conflict"} : Settle(c, s)
         \/ \E w \in Workers : LeaseNone(w, c)
  PROVE  SInv'
<1>0. job \in [Claims -> Jobs] /\ job[c] \in Jobs
  BY DEF CInv, TypeOK
<1>1. UNCHANGED <<worker, sent, inflight, contact, applied>>
  BY DEF Snapshot, Reserve, Expire, Settle, LeaseNone, Bitrix, history
<1>2. CASE \E m \in Managers : Snapshot(c, m)
  <2>1. PICK m \in Managers : Snapshot(c, m)
    BY <1>2
  <2>2. job[c].gen = 0 /\ ~job[c].dispatched /\ job[c].status = "none"
    BY <1>0, <2>1 DEF Snapshot, CInv, JobShape, Confirmed
  <2>3. /\ job'[c].status = "snapshot" /\ job'[c].gen = 0 /\ job'[c].dispatched = FALSE
        /\ job'[c].acknowledged = FALSE
    BY <1>0, <2>1 DEF Snapshot, NoJob
  <2>4. \A d \in Claims : d # c => job'[d] = job[d]
    BY <1>0, <2>1 DEF Snapshot
  <2>5. job[c].dispatched = FALSE
    BY <1>0, <2>2 DEF Jobs
  <2>6. Numbered'
    <3>1. Rows' = Rows
      BY <2>2, <2>3, <2>4 DEF Rows
    <3> QED
      BY <2>2, <2>3, <2>4, <3>1, NumbersKept
  <2> QED
    BY <1>1, <2>2, <2>3, <2>4, <2>5, <2>6, SerialJobs DEF Active, Held
<1>3. CASE Reserve(c)
  <2>1. /\ job'[c].status = "reserved" /\ job[c].status = "snapshot"
        /\ job'[c].gen = Cardinality(Rows) + 1
        /\ job'[c].dispatched = job[c].dispatched /\ job'[c].acknowledged = job[c].acknowledged
    BY <1>0, <1>3 DEF Reserve, Jobs
  <2>2. \A d \in Claims : d # c => job'[d] = job[d]
    BY <1>0, <1>3 DEF Reserve
  <2>3. ~job[c].dispatched /\ job[c].gen = 0
    BY <2>1 DEF CInv, JobShape, Confirmed
  <2>4. Numbered'
    <3>1. IsFiniteSet(Rows) /\ Rows \subseteq Claims
      BY ContactAssumption, FS_Subset DEF Rows
    <3>2. Cardinality(Rows) \in Nat
      BY <3>1, FS_CardinalityType
    <3>3. Rows' = Rows \cup {c} /\ c \notin Rows
      BY <2>1, <2>2, <2>3, <3>2 DEF Rows
    <3>4. Cardinality(Rows') = Cardinality(Rows) + 1
      BY <3>1, <3>3, FS_AddElement
    <3>5. \A d \in Claims : job[d].gen \in Nat
      <4>1. \A d \in Claims : job[d].gen \in Generations \cup {0}
        BY <1>0 DEF Jobs
      <4> QED
        BY <4>1 DEF Generations
    <3> QED
      BY <2>1, <2>2, <2>3, <3>2, <3>4, <3>5 DEF SInv, Numbered
  <2> QED
    BY <1>1, <2>1, <2>2, <2>3, <2>4, SerialJobs DEF Active, Held
<1>4. CASE \E s \in {"pending", "cancelled", "conflict"} : Settle(c, s)
  <2>1. PICK s \in {"pending", "cancelled", "conflict"} : Settle(c, s)
    BY <1>4
  <2>2. /\ job'[c].status = s /\ job[c].status = "reserved" /\ job'[c].gen = job[c].gen
        /\ job'[c].dispatched = job[c].dispatched /\ job'[c].acknowledged = job[c].acknowledged
    BY <1>0, <2>1 DEF Settle, SetStatus, Jobs
  <2>3. \A d \in Claims : d # c => job'[d] = job[d]
    BY <1>0, <2>1 DEF Settle, SetStatus
  <2>4. ~job[c].dispatched
    BY <2>2 DEF CInv, JobShape, Confirmed
  <2>5. Numbered'
    <3>1. Rows' = Rows
      BY <2>2, <2>3 DEF Rows
    <3> QED
      BY <2>2, <2>3, <3>1, NumbersKept
  <2> QED
    BY <1>1, <2>2, <2>3, <2>4, <2>5, SerialJobs DEF Active, Held
<1>5. CASE Expire(c)
  <2>1. job' = job
    BY <1>5 DEF Expire
  <2>2. Numbered'
    BY <2>1 DEF SInv, Numbered, Rows
  <2> QED
    BY <1>1, <2>1, <2>2, SerialJobs DEF Active, Held
<1>6. CASE \E w \in Workers : LeaseNone(w, c)
  <2>1. job' = Released
    BY <1>6 DEF LeaseNone
  <2>2. Numbered'
    <3>1. Rows' = Rows
      BY <2>1, ReleasedShape DEF Rows, CInv
    <3> QED
      BY <2>1, <3>1, ReleasedShape, NumbersKept DEF CInv
  <2>3. ASSUME NEW d \in Claims
        PROVE  /\ Active(d)' => Active(d)
               /\ Active(d) /\ job[d].dispatched => Active(d)'
               /\ job'[d].acknowledged = job[d].acknowledged
    <3>1. d \notin overdue => Released[d] = job[d]
      BY DEF Released
    <3>2. d \in overdue => job[d].status = "checking" /\ Released[d].status = "pending"
                           /\ Released[d].dispatched = job[d].dispatched
                           /\ Released[d].acknowledged = job[d].acknowledged
      <4>1. d \in overdue => Released[d] = [job[d] EXCEPT !.status = "pending", !.lease = None]
        BY DEF Released
      <4>2. job[d] \in Jobs /\ (d \in overdue => job[d].status = "checking")
        BY DEF CInv, TypeOK
      <4> QED
        BY <4>1, <4>2 DEF Jobs
    <3> QED
      BY <2>1, <3>1, <3>2 DEF Active
  <2> QED
    BY <1>1, <2>1, <2>2, <2>3, ReleasedShape, SerialJobs DEF Held, CInv
<1> QED
  BY <1>2, <1>3, <1>4, <1>5, <1>6

\* A job is leased: no other one is active, so that it is the one to go on.
LEMMA SerialLease ==
  ASSUME CInv, SInv, NEW w \in Workers, NEW c \in Claims, Lease(w, c)
  PROVE  SInv'
<1>0. /\ job \in [Claims -> Jobs] /\ worker \in [Workers -> WorkerStates] /\ TypeOK
      /\ \A d \in Claims : d \in overdue => job[d].status = "checking"
  BY DEF CInv, TypeOK, WorkerStates
<1>1. UNCHANGED <<sent, inflight, contact, applied>>
  BY DEF Lease, Bitrix, history
<1>2. \A d \in Claims : /\ Released[d].acknowledged = job[d].acknowledged
                        /\ d \notin overdue => Released[d] = job[d]
                        /\ d \in overdue => Released[d].status = "pending"
  <2>1. ASSUME NEW d \in Claims, d \in overdue
        PROVE  Released[d].acknowledged = job[d].acknowledged /\ Released[d].status = "pending"
    <3>1. Released[d] = [job[d] EXCEPT !.status = "pending", !.lease = None]
      BY <2>1 DEF Released
    <3> QED
      BY <1>0, <3>1 DEF Jobs
  <2> QED
    BY <2>1 DEF Released
<1>3. /\ job'[c].status = "checking" /\ job'[c].gen = job[c].gen
      /\ job'[c].dispatched = job[c].dispatched /\ job'[c].manager = job[c].manager
      /\ job'[c].acknowledged = job[c].acknowledged
      /\ Confirmed(c) /\ ~Busy(c, Released) /\ job'[c].lease = w
  <2>1. Released[c] \in Jobs
    BY <1>0, ReleasedShape
  <2>2. job'[c] = [Released[c] EXCEPT !.status = "checking", !.lease = w]
    BY <1>0, ReleasedShape, <2>1 DEF Lease, Jobs
  <2>3. Confirmed(c)
    BY <1>0, ReleasedShape DEF Lease, Confirmed
  <2> QED
    BY <1>0, <1>2, <2>1, <2>2, <2>3, ReleasedShape DEF Lease, Jobs
<1>4. \A d \in Claims : d # c => job'[d] = Released[d]
  BY <1>0, ReleasedShape DEF Lease
<1>5. /\ worker[w].pc = "idle" /\ worker'[w].claim = c
      /\ worker'[w].pc \in {"readback", "check"}
      /\ worker'[w].acknowledged = job[c].acknowledged
  BY <1>0 DEF Lease, Idle
<1>6. \A v \in Workers : v # w => worker'[v] = worker[v]
  BY <1>0 DEF Lease
<1>7. \A d \in Claims : /\ job'[d].gen = job[d].gen /\ job'[d].manager = job[d].manager
                        /\ job'[d].dispatched = job[d].dispatched
                        /\ job'[d].acknowledged = job[d].acknowledged
                        /\ \A v \in Workers : v # w /\ Held(v, d)' => Held(v, d)
                        /\ d # c => ~Active(d)'
  <2>1. \A d \in Claims : d # c /\ Active(d)' => d \in Rows
    <3>1. \A d \in Claims : d # c /\ Active(d)' => Confirmed(d)
      BY <1>0, <1>4, ReleasedShape DEF Active, Confirmed
    <3> QED
      BY <3>1 DEF SInv, Numbered, Rows, Confirmed
  <2>2. \A d \in Claims : d # c => ~Active(d)'
    BY <1>3, <1>4, <2>1 DEF Busy, Active
  <2>3. \A d \in Claims, v \in Workers : v # w /\ Held(v, d)' => Held(v, d)
    BY <1>0, <1>3, <1>4, ReleasedShape DEF Held
  <2> QED
    BY <1>0, <1>2, <1>3, <1>4, <2>2, <2>3, ReleasedShape
<1>8. \A d \in Claims : Outstanding(d)' => Outstanding(d)
  BY <1>1, <1>5, <1>6 DEF Outstanding
<1>9. \A d \in Claims : Outstanding(d) => d = c /\ Active(c)'
  <2>1. \A d \in Claims : Outstanding(d) => Active(d)'
    <3>1. ASSUME NEW d \in Claims, Outstanding(d), d # c PROVE Active(d)'
      BY <1>2, <1>4, <1>7, <3>1 DEF SInv, Pending, Active
    <3>2. Active(c)'
      BY <1>3 DEF Active
    <3> QED
      BY <3>1, <3>2
  <2> QED
    BY <1>7, <2>1
<1>10. Numbered'
  <2>1. \A d \in Claims : job'[d].status \notin {"none", "snapshot"}
                            => job[d].status \notin {"none", "snapshot"}
    BY <1>0, <1>3, <1>4, ReleasedShape DEF Confirmed
  <2>2. Rows' = Rows
    BY <1>7 DEF Rows
  <2> QED
    BY <1>7, <2>1, <2>2, NumbersKept
<1>11. OneActive'
  BY <1>7 DEF OneActive
<1>12. InOrder'
  <2>1. ASSUME NEW d \in Claims, job[c].dispatched, job[d].dispatched, d # c
        PROVE  job[d].gen < job[c].gen
    <3>1. Active(c)
      BY <1>0, <2>1, ReleasedShape DEF Lease, Active
    <3> QED
      BY <2>1, <3>1 DEF SInv, InOrder
  <2> QED
    BY <1>1, <1>7, <2>1 DEF SInv, InOrder
<1>13. Pending'
  BY <1>1, <1>7, <1>8, <1>9 DEF SInv, Pending, Rest
<1>14. Decisions'
  <2>1. ASSUME NEW v \in Workers, NEW d \in Claims, v # w PROVE Reader(v, d)' => Reader(v, d)
    BY <1>6, <1>7, <2>1 DEF Reader
  <2>2. ASSUME NEW v \in Workers, v # w, NEW d \in Claims, worker'[v].claim = d
        PROVE  /\ Reader(v, d)' => contact' # job'[d].manager
               /\ worker'[v].acknowledged \/ worker'[v].pc = "ack" => Rest(d)'
               /\ worker'[v].pc = "finish" /\ worker'[v].status \in Terminal /\ Held(v, d)' => ~Outstanding(d)'
    BY <1>1, <1>6, <1>7, <1>8, <2>1, <2>2 DEF SInv, Decisions, Rest
  <2>3. job[c].acknowledged => Rest(c)'
    BY <1>1 DEF SInv, Pending, Rest
  <2>4. ~Reader(w, c)'
    BY <1>5 DEF Reader
  <2> QED
    BY <1>5, <2>2, <2>3, <2>4 DEF Decisions
<1> QED
  BY <1>10, <1>11, <1>12, <1>13, <1>14 DEF SInv

\* The fence: no newer row, so that this job is the newest dispatched one.
LEMMA SerialDispatch ==
  ASSUME CInv, SInv, NEW w \in Workers, Dispatch(w), ~UNCHANGED job
  PROVE  SInv'
<1> DEFINE c == worker[w].claim
<1>0. /\ job \in [Claims -> Jobs] /\ worker \in [Workers -> WorkerStates]
      /\ c \in Claims /\ worker[w].pc = "dispatch" /\ Confirmed(c) /\ worker[w] \in WorkerStates
  BY DEF Dispatch, CInv, TypeOK, WorkerStates, Working
<1>1. /\ Current(w, c) /\ Goto(w, "send")
      /\ job' = [job EXCEPT ![c].dispatched = TRUE, ![c].dispatchOwner = worker[w].owner]
      /\ UNCHANGED <<sent, inflight, contact, applied>>
  BY DEF Dispatch, Bitrix, history
<1>2. /\ job'[c].dispatched /\ job'[c].status = job[c].status /\ job'[c].gen = job[c].gen
      /\ job'[c].manager = job[c].manager /\ job'[c].lease = job[c].lease
      /\ job'[c].acknowledged = job[c].acknowledged
  BY <1>0, <1>1 DEF Jobs
<1>3. \A d \in Claims : d # c => job'[d] = job[d]
  BY <1>0, <1>1
<1>4. /\ worker'[w].pc = "send" /\ worker'[w].claim = c
      /\ worker'[w].acknowledged = worker[w].acknowledged
      /\ \A v \in Workers : v # w => worker'[v] = worker[v]
  BY <1>0, <1>1 DEF Goto, WorkerStates
<1>5. /\ ~job[c].dispatched /\ sent[c] = 0 /\ Active(c) /\ contact # job[c].manager
      /\ ~job[c].acknowledged /\ ~worker[w].acknowledged
  <2>1. Held(w, c) /\ ~job[c].dispatched
    BY <1>0, <1>1 DEF Current, CInv, Undispatched
  <2>2. Reader(w, c)
    BY <1>0, <2>1 DEF Reader
  <2> QED
    BY <1>0, <2>1, <2>2 DEF Held, CInv, Counted, Active, SInv, Decisions, Pending, Rest
<1>6. \A d \in Claims : Outstanding(d)' => Outstanding(d) \/ d = c
  BY <1>1, <1>4 DEF Outstanding
<1>7. \A d \in Claims : (Active(d)' <=> Active(d)) /\ (Rest(d)' <=> Rest(d))
  BY <1>1, <1>2, <1>3, <1>5 DEF Active, Rest, Held, Current
<1>8. Numbered'
  <2>1. Rows' = Rows
    BY <1>2, <1>3 DEF Rows
  <2> QED
    BY <1>2, <1>3, <2>1, NumbersKept
<1>9. OneActive'
  BY <1>7 DEF SInv, OneActive
<1>10. InOrder'
  <2>1. ASSUME NEW d \in Claims, job[d].dispatched, d # c PROVE job[d].gen < job[c].gen
    <3>1. Confirmed(d) /\ d \in Rows
      BY <2>1 DEF CInv, JobShape, Confirmed, SInv, Numbered, Rows
    <3>2. ~(job[d].gen > job[c].gen)
      BY <1>1, <3>1 DEF Current, Newer, Confirmed
    <3>3. job[d].gen # job[c].gen
      BY <1>0, <2>1, <3>1 DEF SInv, Numbered, Rows
    <3>4. job[d].gen \in Generations \cup {0} /\ job[c].gen \in Generations \cup {0}
      BY <1>0 DEF Jobs
    <3> QED
      BY <3>2, <3>3, <3>4 DEF Generations
  <2>2. \A d \in Claims : d # c => ~Active(d)
    BY <1>0, <1>5 DEF SInv, OneActive
  <2> QED
    BY <1>0, <1>1, <1>2, <1>3, <1>7, <2>1, <2>2 DEF SInv, InOrder
<1>11. Pending'
  BY <1>0, <1>1, <1>2, <1>3, <1>5, <1>6, <1>7 DEF SInv, Pending
<1>12. Decisions'
  <2>1. \A v \in Workers : v # w => (\A d \in Claims : Held(v, d)' => Held(v, d) /\ d # c)
    BY <1>0, <1>1, <1>2, <1>3 DEF Held, Current
  <2>2. ASSUME NEW v \in Workers, v # w, NEW d \in Claims, worker'[v].claim = d
        PROVE  /\ Reader(v, d)' => contact' # job'[d].manager
               /\ worker'[v].acknowledged \/ worker'[v].pc = "ack" => Rest(d)'
               /\ worker'[v].pc = "finish" /\ worker'[v].status \in Terminal /\ Held(v, d)' => ~Outstanding(d)'
    <3>1. Reader(v, d)' => Reader(v, d) /\ job'[d].manager = job[d].manager
      BY <1>2, <1>3, <1>4, <2>1, <2>2 DEF Reader
    <3> QED
      BY <1>1, <1>4, <1>6, <1>7, <2>1, <2>2, <3>1 DEF SInv, Decisions
  <2> QED
    BY <1>4, <1>5, <2>2 DEF Decisions, Reader
<1> QED
  BY <1>8, <1>9, <1>10, <1>11, <1>12 DEF SInv

\* What is known when an update is outstanding.
LEMMA Sender ==
  ASSUME CInv, SInv, NEW c \in Claims, Outstanding(c)
  PROVE  /\ \A d \in Claims : Outstanding(d) => d = c
         /\ \A v \in Workers, d \in Claims : ~Reader(v, d)
         /\ job[c].dispatched /\ ~Rest(c)
<1>1. Active(c) /\ job[c].dispatched
  BY DEF SInv, Pending
<1>2. \A d \in Claims : Active(d) => d = c
  BY <1>1 DEF SInv, OneActive
<1>3. \A d \in Claims : Outstanding(d) => d = c
  BY <1>2 DEF SInv, Pending
<1>4. ASSUME NEW v \in Workers, NEW d \in Claims, Reader(v, d) PROVE FALSE
  <2>1. d = c
    BY <1>2, <1>4 DEF Reader, Held, Active
  <2> QED
    BY <1>1, <1>4, <2>1 DEF Reader, CInv, Undispatched
<1>5. ~Rest(c)
  BY AtRest
<1> QED
  BY <1>1, <1>3, <1>4, <1>5

\* The request: it is the only one, and the first of its job.
LEMMA SerialSend ==
  ASSUME CInv, SInv, NEW w \in Workers, Send(w)
  PROVE  SInv'
<1> PICK c : c = worker[w].claim
  OBVIOUS
<1>0. /\ worker \in [Workers -> WorkerStates] /\ worker[w] \in WorkerStates
      /\ c \in Claims /\ worker[w].pc = "send" /\ sent \in [Claims -> Nat]
  BY DEF Send, CInv, TypeOK, WorkerStates, Working
<1>1. UNCHANGED job /\ applied' \subseteq applied \cup {c} /\ inflight' \subseteq inflight \cup {c}
  BY DEF Send, Apply
<1>2. Outstanding(c)
  BY <1>0 DEF Outstanding
<1>3. /\ \A d \in Claims : Outstanding(d) => d = c
      /\ \A v \in Workers, d \in Claims : ~Reader(v, d)
      /\ job[c].dispatched /\ ~Rest(c)
  BY <1>0, <1>2, Sender
<1>4. sent[c] = 0 /\ c \notin inflight /\ \A v \in Workers : Sending(v, c) => v = w
  BY <1>0 DEF CInv, Fenced, Sending, SInv, Pending
<1>5. sent'[c] = 1 /\ \A d \in Claims : d # c => sent'[d] = sent[d]
  BY <1>0, <1>4 DEF Send
<1>6. \A v \in Workers : v # w => worker'[v] = worker[v]
  BY <1>0 DEF Send, Goto, Finish
<1>7. /\ worker'[w].claim = c /\ worker'[w].pc \in {"ack", "readback", "finish"}
      /\ worker'[w].acknowledged = worker[w].acknowledged
  BY <1>0 DEF Send, Goto, Finish, WorkerStates
<1>8. \A d \in Claims : d \in inflight' => d = c
  BY <1>1, <1>3 DEF Outstanding
<1>9. \A d \in Claims : Outstanding(d)' => d = c /\ c \in inflight'
  <2>1. \A v \in Workers, d \in Claims : ~Sending(v, d)'
    BY <1>3, <1>4, <1>6, <1>7 DEF Sending, Outstanding
  <2> QED
    BY <1>8, <2>1 DEF Outstanding, Sending
<1>10. \A v \in Workers, d \in Claims : ~Reader(v, d)'
  BY <1>1, <1>3, <1>6, <1>7 DEF Reader, Held
<1>11. c \in inflight' => contact' = contact /\ worker'[w].pc = "readback"
  BY <1>0, <1>4 DEF Send, Goto, WorkerStates
<1>12. \A d \in Claims : Rest(d) => Rest(d)'
  BY <1>1, <1>3, <1>5 DEF Rest
<1>13. Numbered' /\ OneActive' /\ InOrder'
  BY <1>1, <1>3 DEF SInv, Numbered, Rows, OneActive, InOrder, Active
<1>14. Pending'
  <2>1. c \in inflight' => contact' # job[c].manager
    BY <1>0, <1>2, <1>11 DEF SInv, Pending
  <2>2. Active(c)'
    BY <1>0, <1>1, <1>2 DEF SInv, Pending, Active
  <2>3. \A d \in Claims : d \in inflight' => sent'[d] # 0
    BY <1>5, <1>8
  <2>4. \A d \in Claims : job'[d].acknowledged => Rest(d)'
    BY <1>1, <1>12 DEF SInv, Pending
  <2> QED
    BY <1>1, <1>3, <1>9, <2>1, <2>2, <2>3, <2>4 DEF Pending
<1>15. Decisions'
  <2>1. ASSUME NEW v \in Workers, NEW d \in Claims, worker'[v].claim = d
        PROVE  worker'[v].acknowledged \/ worker'[v].pc = "ack" => Rest(d)'
    <3>1. worker[w].acknowledged => Rest(c)
      BY <1>0 DEF SInv, Decisions
    <3>2. worker'[w].pc = "ack" => Rest(c)'
      <4>1. worker'[w].pc = "ack" => c \notin inflight' /\ sent'[c] # 0
        BY <1>5, <1>11
      <4> QED
        BY <4>1 DEF Rest
    <3> QED
      BY <1>6, <1>7, <1>12, <2>1, <3>1, <3>2 DEF SInv, Decisions
  <2>2. ASSUME NEW v \in Workers, NEW d \in Claims, worker'[v].claim = d,
               worker'[v].pc = "finish", worker'[v].status \in Terminal, Held(v, d)'
        PROVE  ~Outstanding(d)'
    <3>1. CASE v = w
      BY <1>7, <1>9, <1>11, <2>2, <3>1
    <3>2. CASE v # w
      <4>1. worker[v].claim = d /\ worker[v].pc = "finish" /\ worker[v].status \in Terminal /\ Held(v, d)
        BY <1>1, <1>6, <2>2, <3>2 DEF Held
      <4>2. ~Outstanding(d)
        BY <4>1 DEF SInv, Decisions
      <4> QED
        BY <1>2, <1>9, <4>2
    <3> QED
      BY <3>1, <3>2
  <2> QED
    BY <1>10, <2>1, <2>2 DEF Decisions
<1> QED
  BY <1>13, <1>14, <1>15 DEF SInv

\* A late update is applied: nothing else was outstanding, nothing is left.
LEMMA SerialLand ==
  ASSUME CInv, SInv, NEW c \in Claims, Land(c)
  PROVE  SInv'
<1>1. UNCHANGED <<job, worker, sent>> /\ c \in inflight /\ inflight' = inflight \ {c}
      /\ applied' = applied \cup {c}
  BY DEF Land, Apply
<1>2. Outstanding(c)
  BY <1>1 DEF Outstanding
<1>3. /\ \A d \in Claims : Outstanding(d) => d = c
      /\ \A v \in Workers, d \in Claims : ~Reader(v, d)
      /\ job[c].dispatched
  BY <1>2, Sender
<1>4. \A v \in Workers : ~Sending(v, c)
  BY <1>1 DEF CInv, Fenced, SInv, Pending
<1>5. \A d \in Claims : ~Outstanding(d)'
  BY <1>1, <1>3, <1>4 DEF Outstanding, Sending
<1>6. \A d \in Claims : Rest(d) => Rest(d)'
  BY <1>1 DEF Rest
<1>7. \A v \in Workers, d \in Claims : ~Reader(v, d)'
  BY <1>1, <1>3 DEF Reader, Held
<1>8. Numbered' /\ OneActive' /\ InOrder'
  BY <1>1, <1>3 DEF SInv, Numbered, Rows, OneActive, InOrder, Active
<1>9. Pending'
  BY <1>1, <1>5, <1>6 DEF SInv, Pending
<1>10. Decisions'
  BY <1>1, <1>5, <1>6, <1>7 DEF SInv, Decisions
<1> QED
  BY <1>8, <1>9, <1>10 DEF SInv

\* The answer is recorded: the update it is about is over.
LEMMA SerialAcknowledge ==
  ASSUME CInv, SInv, NEW w \in Workers, Acknowledge(w), ~UNCHANGED job
  PROVE  SInv'
<1> DEFINE c == worker[w].claim
<1>0. /\ job \in [Claims -> Jobs] /\ worker \in [Workers -> WorkerStates]
      /\ worker[w] \in WorkerStates /\ c \in Claims /\ worker[w].pc = "ack" /\ job[c] \in Jobs
  BY DEF Acknowledge, CInv, TypeOK, WorkerStates, Working
<1>1. job' = [job EXCEPT ![c].acknowledged = TRUE] /\ UNCHANGED <<sent, inflight, contact, applied>>
  BY DEF Acknowledge, Bitrix, history
<1>2. /\ job'[c].dispatched = job[c].dispatched /\ job'[c].status = job[c].status
      /\ job'[c].gen = job[c].gen /\ job'[c].manager = job[c].manager
      /\ job'[c].lease = job[c].lease
  BY <1>0, <1>1 DEF Jobs
<1>3. \A d \in Claims : d # c => job'[d] = job[d]
  BY <1>0, <1>1
<1>4. /\ worker'[w].pc = "readback" /\ worker'[w].claim = c
      /\ \A v \in Workers : v # w => worker'[v] = worker[v]
  BY <1>0 DEF Acknowledge, WorkerStates
<1>5. Rest(c)
  BY <1>0 DEF SInv, Decisions
<1>6. \A d \in Claims : /\ Outstanding(d)' => Outstanding(d)
                        /\ Rest(d)' <=> Rest(d)
                        /\ Active(d)' <=> Active(d)
                        /\ job'[d].gen = job[d].gen /\ job'[d].manager = job[d].manager
                        /\ job'[d].dispatched = job[d].dispatched
                        /\ \A v \in Workers : Held(v, d)' => Held(v, d)
  BY <1>0, <1>1, <1>2, <1>3, <1>4 DEF Outstanding, Rest, Active, Held
<1>7. Numbered'
  <2>1. Rows' = Rows
    BY <1>6 DEF Rows
  <2> QED
    BY <1>2, <1>3, <2>1, NumbersKept
<1>8. OneActive' /\ InOrder'
  BY <1>1, <1>6 DEF SInv, OneActive, InOrder
<1>9. Pending'
  BY <1>1, <1>3, <1>5, <1>6 DEF SInv, Pending
<1>10. Decisions'
  <2>1. ASSUME NEW v \in Workers, v # w, NEW d \in Claims, worker'[v].claim = d
        PROVE  /\ Reader(v, d)' => contact' # job'[d].manager
               /\ worker'[v].acknowledged \/ worker'[v].pc = "ack" => Rest(d)'
               /\ worker'[v].pc = "finish" /\ worker'[v].status \in Terminal /\ Held(v, d)' => ~Outstanding(d)'
    <3>1. worker[v].claim = d /\ worker'[v] = worker[v]
      BY <1>4, <2>1
    <3> QED
      BY <1>1, <1>6, <3>1 DEF SInv, Decisions, Reader
  <2> QED
    BY <1>4, <1>5, <1>6, <2>1 DEF Decisions, Reader
<1> QED
  BY <1>7, <1>8, <1>9, <1>10 DEF SInv

\* The outcome is written: a final one only when nothing is outstanding.
LEMMA SerialFinished ==
  ASSUME CInv, SInv, NEW w \in Workers, Finished(w)
  PROVE  SInv'
<1> PICK c : c = worker[w].claim
  OBVIOUS
<1>0. /\ job \in [Claims -> Jobs] /\ worker \in [Workers -> WorkerStates]
      /\ c \in Claims /\ worker[w].pc = "finish" /\ job[c] \in Jobs
      /\ worker[w].status \in {"pending", "ready", "conflict"}
  BY DEF Finished, CInv, TypeOK, WorkerStates, Working
<1>1. UNCHANGED <<sent, inflight, contact, applied>> /\ worker' = [worker EXCEPT ![w] = Idle]
  BY DEF Finished, Bitrix, history
<1>2. CASE ~Held(w, c)
  <2>1. UNCHANGED job
    BY <1>2 DEF Finished
  <2>2. Idle.pc = "idle" /\ ~Idle.acknowledged
    BY DEF Idle
  <2> QED
    BY <1>1, <2>1, <2>2, SerialMoves
<1>3. CASE Held(w, c)
  <2>1. job' = [job EXCEPT ![c].status = worker[w].status, ![c].lease = None]
    BY <1>3 DEF Finished
  <2>2. /\ job'[c].dispatched = job[c].dispatched /\ job'[c].status = worker[w].status
        /\ job'[c].gen = job[c].gen /\ job'[c].manager = job[c].manager
        /\ job'[c].acknowledged = job[c].acknowledged
    BY <1>0, <2>1 DEF Jobs
  <2>3. \A d \in Claims : d # c => job'[d] = job[d]
    BY <1>0, <2>1
  <2>4. /\ worker'[w].pc = "idle" /\ ~worker'[w].acknowledged
        /\ \A v \in Workers : v # w => worker'[v] = worker[v]
    BY <1>0, <1>1 DEF Idle
  <2>5. worker[w].status \in Terminal => ~Outstanding(c)
    BY <1>0, <1>3 DEF SInv, Decisions
  <2>6. ASSUME NEW d \in Claims
        PROVE  /\ Outstanding(d)' => Outstanding(d)
               /\ Rest(d)' <=> Rest(d)
               /\ Active(d)' => Active(d)
               /\ job'[d].gen = job[d].gen /\ job'[d].manager = job[d].manager
               /\ job'[d].dispatched = job[d].dispatched
               /\ job'[d].acknowledged = job[d].acknowledged
               /\ \A v \in Workers : Held(v, d)' => Held(v, d)
    BY <1>0, <1>1, <1>3, <2>2, <2>3, <2>4 DEF Outstanding, Rest, Active, Held
  <2>7. \A d \in Claims : Outstanding(d) => Active(d)'
    <3>1. ASSUME Outstanding(c) PROVE Active(c)'
      <4>1. job[c].dispatched
        BY <1>0, <3>1 DEF SInv, Pending
      <4>2. job'[c].status = "pending"
        BY <1>0, <2>2, <2>5, <3>1 DEF Terminal
      <4> QED
        BY <2>2, <4>1, <4>2 DEF Active
    <3> QED
      BY <1>0, <2>3, <3>1 DEF SInv, Pending, Active
  <2>8. Numbered'
    <3>1. Rows' = Rows
      BY <2>6 DEF Rows
    <3>2. job[c].status = "checking"
      BY <1>3 DEF Held
    <3> QED
      BY <2>2, <2>3, <3>1, <3>2, NumbersKept
  <2>9. OneActive' /\ InOrder'
    BY <1>1, <2>6 DEF SInv, OneActive, InOrder
  <2>10. Pending'
    BY <1>1, <2>6, <2>7 DEF SInv, Pending
  <2>11. Decisions'
    <3>1. ASSUME NEW v \in Workers, v # w, NEW d \in Claims, worker'[v].claim = d
          PROVE  /\ Reader(v, d)' => contact' # job'[d].manager
                 /\ worker'[v].acknowledged \/ worker'[v].pc = "ack" => Rest(d)'
                 /\ worker'[v].pc = "finish" /\ worker'[v].status \in Terminal /\ Held(v, d)' => ~Outstanding(d)'
      <4>1. worker[v].claim = d /\ worker'[v] = worker[v]
        BY <2>4, <3>1
      <4> QED
        BY <1>1, <2>6, <4>1 DEF SInv, Decisions, Reader
    <3> QED
      BY <2>4, <3>1 DEF Decisions, Reader
  <2> QED
    BY <2>8, <2>9, <2>10, <2>11 DEF SInv
<1> QED
  BY <1>2, <1>3

\* People choose an owner who does not claim.
LEMMA SerialEdit ==
  ASSUME CInv, SInv, NEW p \in EditedTo, p \notin Managers, Edit(p)
  PROVE  SInv'
<1>1. UNCHANGED <<job, worker, sent, inflight, applied>> /\ contact' = p
  BY DEF Edit
<1>2. \A c \in Claims : Active(c) => job[c].manager \in Managers
  BY DEF CInv, JobShape, Active
<1>3. Numbered' /\ OneActive' /\ InOrder'
  BY <1>1 DEF SInv, Numbered, Rows, OneActive, InOrder, Active
<1>4. \A c \in Claims : Outstanding(c)' <=> Outstanding(c)
  BY <1>1 DEF Outstanding
<1>5. Pending'
  BY <1>1, <1>2, <1>4 DEF SInv, Pending, Rest, Active
<1>6. Decisions'
  <2>1. \A w \in Workers, c \in Claims : Reader(w, c)' => Reader(w, c) /\ Active(c)
    BY <1>1 DEF Reader, Held, Active
  <2>2. \A w \in Workers, c \in Claims : Held(w, c)' <=> Held(w, c)
    BY <1>1 DEF Held
  <2>3. \A c \in Claims : Rest(c)' <=> Rest(c)
    BY <1>1 DEF Rest
  <2>4. \A w \in Workers, c \in Claims : Reader(w, c)' => contact' # job'[c].manager
    BY <1>1, <1>2, <2>1
  <2> QED
    BY <1>1, <1>4, <2>2, <2>3, <2>4 DEF SInv, Decisions
<1> QED
  BY <1>3, <1>5, <1>6 DEF SInv

\* Every step keeps SInv.
LEMMA SerialStep ==
  ASSUME EditedTo \cap Managers = {}, CInv, SInv, [Next]_vars
  PROVE  SInv'
<1>1. CASE UNCHANGED vars
  BY <1>1 DEF vars, SInv, Numbered, Rows, OneActive, InOrder, Active, Pending, Rest, Outstanding,
              Decisions, Reader, Held
<1>2. CASE \E p \in EditedTo : Edit(p)
  BY <1>2, SerialEdit
<1>3. CASE \E w \in Workers : Work(w) \/ Fail(w) \/ Crash(w)
  BY <1>3, SerialQuietly, SerialDispatch, SerialSend, SerialAcknowledge, SerialFinished DEF Work
<1>4. CASE \E w \in Workers, c \in Claims : Lease(w, c) \/ LeaseNone(w, c)
  BY <1>4, SerialLease, SerialClaims
<1> QED
  BY <1>1, <1>2, <1>3, <1>4, SerialClaims, SerialLand DEF Next
-----------------------------------------------------------------------------
(* EditKept: what a worker read holds until the update, or is noted.       *)

\* Reserved jobs have a generation, and updates on their way passed the fence.
Registered == \A c \in Claims : /\ job[c].status \notin {"none", "snapshot"} => job[c].gen # 0
                                /\ c \in inflight => job[c].dispatched

\* A step that keeps what a registered job is compared by.
Same(c) == /\ job'[c].gen = job[c].gen /\ job'[c].manager = job[c].manager
           /\ job'[c].previous = job[c].previous
           /\ job[c].dispatched => job'[c].dispatched
           /\ job'[c].status \notin {"none", "snapshot"} => job[c].status \notin {"none", "snapshot"}

\* Only Snapshot and Reserve write those fields, of a job that has no generation.
LEMMA RowsKept ==
  ASSUME CInv, [Next]_vars, NEW c \in Claims
  PROVE  \/ Same(c)
         \/ ~Confirmed(c) /\ job[c].gen = 0 /\ job'[c].gen \in Generations \cup {0}
            /\ (job'[c].status \in {"none", "snapshot"} \/ job'[c].gen # 0)
<1>0. /\ job \in [Claims -> Jobs] /\ job[c] \in Jobs /\ TypeOK
      /\ job[c].gen # 0 \/ job[c].dispatched => job[c].status \notin {"none", "snapshot"}
  BY DEF CInv, TypeOK, JobShape, Confirmed
<1>1. CASE job'[c] = job[c]
  BY <1>1 DEF Same
<1>2. Released[c] = job[c] \/ Released[c] = [job[c] EXCEPT !.status = "pending", !.lease = None]
  BY DEF Released
<1>3. c \in overdue => job[c].status = "checking"
  BY <1>0 DEF TypeOK
<1>4. ASSUME NEW d \in Claims, NEW m \in Managers, Snapshot(d, m)
      PROVE  \/ job'[c] = job[c]
             \/ job[c].status = "none" /\ job'[c].status = "snapshot" /\ job'[c].gen = 0
  BY <1>0, <1>4 DEF Snapshot, NoJob
<1>5. ASSUME NEW d \in Claims, Reserve(d)
      PROVE  \/ job'[c] = job[c]
             \/ job[c].status = "snapshot" /\ job'[c].gen \in Generations
  <2>1. CASE c = d
    <3>1. job'[c] = [job[c] EXCEPT !.status = "reserved", !.gen = Cardinality(Rows) + 1]
          /\ job[c].status = "snapshot" /\ job[c].gen = 0
      BY <1>0, <1>5, <2>1 DEF Reserve
    <3> QED
      BY <1>0, <3>1, NextGeneration DEF Jobs
  <2>2. CASE c # d
    BY <1>0, <1>5, <2>2 DEF Reserve
  <2> QED
    BY <2>1, <2>2
<1>6. ASSUME NEW d \in Claims, NEW s \in {"pending", "cancelled", "conflict"}, Settle(d, s)
      PROVE  job'[c] = job[c] \/ Same(c)
  <2>1. CASE c = d
    <3>1. job'[c] = [job[c] EXCEPT !.status = s] /\ job[c].status = "reserved"
      BY <1>0, <1>6, <2>1 DEF Settle, SetStatus
    <3> QED
      BY <1>0, <3>1 DEF Jobs, Same
  <2>2. CASE c # d
    BY <1>0, <1>6, <2>2 DEF Settle, SetStatus
  <2> QED
    BY <2>1, <2>2
<1>7. ASSUME job'[c] = Released[c] PROVE job'[c] = job[c] \/ Same(c)
  <2>1. CASE Released[c] = [job[c] EXCEPT !.status = "pending", !.lease = None] /\ c \in overdue
    BY <1>0, <1>3, <1>7, <2>1 DEF Same, Jobs
  <2>2. CASE c \notin overdue
    BY <1>7, <2>2 DEF Released
  <2> QED
    BY <1>2, <2>1, <2>2 DEF Released
<1>8. ASSUME NEW w \in Workers, NEW d \in Claims, Lease(w, d) PROVE job'[c] = job[c] \/ Same(c)
  <2>1. CASE c = d
    <3>1. job'[c] = [Released[c] EXCEPT !.status = "checking", !.lease = w]
          /\ job[c].status \in {"pending", "checking"}
      BY <1>0, <1>8, <2>1, ReleasedShape DEF Lease
    <3>2. Same(c) \/ (c \in overdue /\ Released[c] = [job[c] EXCEPT !.status = "pending", !.lease = None])
      BY <1>0, <3>1 DEF Same, Jobs, Released
    <3>3. CASE Released[c] = [job[c] EXCEPT !.status = "pending", !.lease = None]
      BY <1>0, <3>1, <3>3 DEF Same, Jobs
    <3> QED
      BY <3>2, <3>3
  <2>2. CASE c # d
    BY <1>0, <1>7, <1>8, <2>2, ReleasedShape DEF Lease
  <2> QED
    BY <2>1, <2>2
<1>9. ASSUME NEW w \in Workers, NEW d \in Claims, LeaseNone(w, d) PROVE job'[c] = job[c] \/ Same(c)
  BY <1>7, <1>9 DEF LeaseNone
<1>10. ASSUME NEW w \in Workers, Dispatch(w) PROVE job'[c] = job[c] \/ Same(c)
  <2>1. CASE job' = [job EXCEPT ![c].dispatched = TRUE, ![c].dispatchOwner = worker[w].owner]
    BY <1>0, <2>1 DEF Same, Jobs
  <2> QED
    BY <1>0, <1>10, <2>1 DEF Dispatch
<1>11. ASSUME NEW w \in Workers, Acknowledge(w) PROVE job'[c] = job[c] \/ Same(c)
  <2>1. CASE job' = [job EXCEPT ![c].acknowledged = TRUE]
    BY <1>0, <2>1 DEF Same, Jobs
  <2> QED
    BY <1>0, <1>11, <2>1 DEF Acknowledge
<1>12. ASSUME NEW w \in Workers, Finished(w) PROVE job'[c] = job[c] \/ Same(c)
  <2>1. CASE worker[w].claim = c /\ Held(w, c)
    <3>1. job' = [job EXCEPT ![c].status = worker[w].status, ![c].lease = None]
      BY <1>12, <2>1 DEF Finished
    <3>2. job[c].status = "checking"
      BY <2>1 DEF Held
    <3> QED
      BY <1>0, <3>1, <3>2 DEF Same, Jobs
  <2> QED
    BY <1>0, <1>12, <2>1 DEF Finished
<1>13. CASE UNCHANGED job
  BY <1>1, <1>13
<1>14. job[c].status \in {"none", "snapshot"} => ~Confirmed(c) /\ job[c].gen = 0
  BY <1>0 DEF Confirmed
<1>15. Generations \subseteq Nat \ {0}
  BY DEF Generations
<1> QED
  BY <1>1, <1>4, <1>5, <1>6, <1>8, <1>9, <1>10, <1>11, <1>12, <1>13, <1>14, <1>15
  DEF Next, Work, vars, Check, ReadDeal, ReadOwner, Send, ReadBack, Fail, Crash, Expire, Land, Edit

\* A lease is only taken by Lease.
LEMMA HeldKept ==
  ASSUME CInv, [Next]_vars, NEW v \in Workers, NEW c \in Claims, Held(v, c)'
  PROVE  Held(v, c) \/ Lease(v, c)
<1>0. /\ job \in [Claims -> Jobs] /\ TypeOK /\ \A d \in Claims : job[d] \in Jobs
  BY DEF CInv, TypeOK
<1>1. CASE job'[c] = job[c]
  BY <1>1 DEF Held
<1>2. CASE job'[c] = Released[c]
  BY <1>0, <1>2, ReleasedShape DEF Held
<1>3. ASSUME NEW d \in Claims, NEW w \in Workers, Lease(w, d)
      PROVE  Held(v, c) \/ Lease(v, c)
  <2>1. CASE c = d
    <3>1. job'[c] = [Released[c] EXCEPT !.status = "checking", !.lease = w] /\ Released[c] \in Jobs
      BY <1>0, <1>3, <2>1, ReleasedShape DEF Lease
    <3> QED
      BY <1>3, <2>1, <3>1 DEF Held, Jobs
  <2> QED
    BY <1>0, <1>2, <1>3, <2>1, ReleasedShape DEF Lease
<1>4. ASSUME NEW d \in Claims,
             (\E m \in Managers : Snapshot(d, m)) \/ Reserve(d)
               \/ (\E s \in {"pending", "cancelled", "conflict"} : Settle(d, s))
      PROVE  job'[c] = job[c] \/ job'[c].status # "checking"
  <2>1. CASE c # d
    BY <1>0, <1>4, <2>1 DEF Snapshot, Reserve, Settle, SetStatus
  <2>2. ASSUME NEW m \in Managers, Snapshot(c, m) PROVE job'[c].status # "checking"
    BY <1>0, <2>2 DEF Snapshot, NoJob
  <2>3. ASSUME Reserve(c) PROVE job'[c].status # "checking"
    BY <1>0, <2>3 DEF Reserve, Jobs
  <2>4. ASSUME NEW s \in {"pending", "cancelled", "conflict"}, Settle(c, s)
        PROVE  job'[c].status # "checking"
    BY <1>0, <2>4 DEF Settle, SetStatus, Jobs
  <2> QED
    BY <1>4, <2>1, <2>2, <2>3, <2>4
<1>5. ASSUME NEW w \in Workers, Dispatch(w) PROVE Held(v, c) \/ Lease(v, c)
  <2>1. CASE job' = [job EXCEPT ![c].dispatched = TRUE, ![c].dispatchOwner = worker[w].owner]
    BY <1>0, <2>1 DEF Held, Jobs
  <2>2. CASE worker[w].claim # c
    <3>1. job'[c] = job[c]
      BY <1>0, <1>5, <2>2 DEF Dispatch
    <3> QED
      BY <1>1, <3>1
  <2>3. CASE UNCHANGED job
    BY <1>1, <2>3
  <2> QED
    BY <1>5, <2>1, <2>2, <2>3 DEF Dispatch
<1>6. ASSUME NEW w \in Workers, Acknowledge(w) PROVE Held(v, c) \/ Lease(v, c)
  <2>1. CASE job' = [job EXCEPT ![c].acknowledged = TRUE]
    BY <1>0, <2>1 DEF Held, Jobs
  <2>2. CASE worker[w].claim # c
    <3>1. job'[c] = job[c]
      BY <1>0, <1>6, <2>2 DEF Acknowledge
    <3> QED
      BY <1>1, <3>1
  <2>3. CASE UNCHANGED job
    BY <1>1, <2>3
  <2> QED
    BY <1>6, <2>1, <2>2, <2>3 DEF Acknowledge
<1>7. ASSUME NEW w \in Workers, Finished(w) PROVE job'[c] = job[c] \/ job'[c].status # "checking"
  <2>1. worker[w].status # "checking"
    BY <1>0 DEF TypeOK
  <2>2. CASE worker[w].claim = c /\ Held(w, c)
    BY <1>0, <1>7, <2>1, <2>2 DEF Finished, Jobs
  <2> QED
    BY <1>0, <1>7, <2>2 DEF Finished
<1>8. CASE UNCHANGED job
  BY <1>1, <1>8
<1> QED
  BY <1>1, <1>2, <1>3, <1>4, <1>5, <1>6, <1>7, <1>8
  DEF Next, Work, vars, Check, ReadDeal, ReadOwner, Send, ReadBack, Fail, Crash, Expire, Land, Edit,
      LeaseNone, Held

\* How a worker comes to look at the owner again, to the fence and past it.
LEMMA LastLook ==
  ASSUME CInv, [Next]_vars, NEW v \in Workers, worker'[v].pc \in {"again", "dispatch", "send"}
  PROVE  /\ worker'[v].claim = worker[v].claim
         /\ \/ worker'[v] = worker[v]
            \/ /\ worker'[v].pc = "again" /\ ReadOwner(v)
               /\ Expected(worker[v].claim, contact)
            \/ worker'[v].pc = "dispatch" /\ worker[v].pc = "again"
            \/ worker'[v].pc = "send" /\ Dispatch(v) /\ Current(v, worker[v].claim)
<1>0. worker \in [Workers -> WorkerStates] /\ worker[v] \in WorkerStates
  BY DEF CInv, TypeOK, WorkerStates
<1>1. CASE UNCHANGED worker
  BY <1>1
<1>2. ASSUME NEW w \in Workers, w # v, NEW r, worker' = [worker EXCEPT ![w] = r]
      PROVE  worker'[v] = worker[v]
  BY <1>0, <1>2
<1>3. ASSUME NEW w \in Workers, Work(w) \/ Fail(w) \/ Crash(w), w # v
      PROVE  worker'[v] = worker[v]
  BY <1>0, <1>3 DEF Work, Fail, Crash, Check, ReadDeal, ReadOwner, Dispatch, Send, Acknowledge,
                    ReadBack, Finished, Refused, Goto, Finish
<1>4. ASSUME NEW w \in Workers, NEW c \in Claims, Lease(w, c)
      PROVE  worker'[v] = worker[v]
  BY <1>0, <1>4 DEF Lease, Idle
<1>5. ASSUME NEW status, Finish(v, status) PROVE FALSE
  BY <1>0, <1>5 DEF Finish, WorkerStates
<1>6. worker' # [worker EXCEPT ![v] = Idle]
  BY <1>0 DEF Idle
<1>7. ASSUME Refused(v, worker[v].claim) PROVE FALSE
  BY <1>5, <1>6, <1>7 DEF Refused
<1>8. ASSUME NEW pc, Goto(v, pc) PROVE worker'[v].pc = pc /\ worker'[v].claim = worker[v].claim
  BY <1>0, <1>8 DEF Goto, WorkerStates
<1>9. CASE Work(v) \/ Fail(v) \/ Crash(v)
  <2>1. CASE ReadOwner(v)
    BY <1>0, <1>5, <2>1 DEF ReadOwner, WorkerStates
  <2>2. CASE Acknowledge(v)
    BY <1>0, <2>2 DEF Acknowledge, WorkerStates
  <2>3. CASE Dispatch(v)
    BY <1>7, <1>8, <2>3 DEF Dispatch
  <2>4. CASE ReadDeal(v)
    BY <1>5, <1>8, <2>4 DEF ReadDeal
  <2>5. CASE Check(v)
    BY <1>7, <1>8, <2>5 DEF Check
  <2>6. CASE Send(v)
    BY <1>5, <1>8, <2>6 DEF Send
  <2> QED
    BY <1>5, <1>6, <1>9, <2>1, <2>2, <2>3, <2>4, <2>5, <2>6 DEF Work, Fail, Crash, ReadBack, Finished
<1> QED
  BY <1>1, <1>3, <1>4, <1>9
  DEF Next, vars, Expire, Land, Edit, LeaseNone, Snapshot, Reserve, Settle

\* A job whose update may be sent from what a worker has read, or was sent.
Engaged(c) == Outstanding(c) \/ \E w \in Workers : Reader(w, c)

\* A job gets there by a read of the owner under its lease.
LEMMA EngagedKept ==
  ASSUME CInv, [Next]_vars, NEW c \in Claims, Engaged(c)'
  PROVE  \/ Engaged(c)
         \/ \E w \in Workers : /\ worker[w].claim = c /\ worker'[w].pc = "again"
                               /\ ReadOwner(w) /\ Expected(c, contact) /\ Held(w, c)
<1>1. ASSUME NEW w \in Workers, Reader(w, c)'
      PROVE  \/ Engaged(c)
             \/ worker[w].claim = c /\ worker'[w].pc = "again" /\ ReadOwner(w)
                /\ Expected(c, contact) /\ Held(w, c)
  <2>1. worker'[w].claim = c /\ worker'[w].pc \in {"again", "dispatch"} /\ Held(w, c)'
    BY <1>1 DEF Reader
  <2>2. worker[w].claim = c
    BY <2>1, LastLook
  <2>3. Held(w, c)
    <3>1. ~Lease(w, c)
      <4>1. Lease(w, c) => worker'[w].pc \in {"readback", "check"}
        BY DEF Lease, Idle, CInv, TypeOK
      <4> QED
        BY <2>1, <4>1
    <3> QED
      BY <2>1, <3>1, HeldKept
  <2> QED
    BY <2>1, <2>2, <2>3, LastLook DEF Engaged, Reader
<1>2. ASSUME NEW w \in Workers, worker'[w].claim = c, worker'[w].pc = "send"
      PROVE  Engaged(c)
  BY <1>2, LastLook DEF Engaged, Outstanding, Reader, Dispatch, Current
<1>3. ASSUME c \in inflight', c \notin inflight
      PROVE  Engaged(c)
  <2>1. PICK w \in Workers : Send(w) /\ worker[w].claim = c
    BY <1>3 DEF Next, Work, vars, Check, ReadDeal, ReadOwner, Dispatch, Send, Acknowledge, ReadBack,
                Finished, Fail, Crash, Expire, Land, Edit, Lease, LeaseNone, Snapshot, Reserve, Settle,
                Bitrix
  <2> QED
    BY <2>1 DEF Send, Engaged, Outstanding
<1> QED
  BY <1>1, <1>2, <1>3 DEF Engaged, Outstanding

\* Every step keeps Registered.
LEMMA RegisteredStep ==
  ASSUME CInv, Registered, [Next]_vars
  PROVE  Registered'
<1>1. ASSUME NEW c \in Claims, job'[c].status \notin {"none", "snapshot"} PROVE job'[c].gen # 0
  BY <1>1, RowsKept DEF Same, Registered
<1>2. ASSUME NEW c \in Claims, c \in inflight' PROVE job[c].dispatched
  <2>1. \/ c \in inflight
        \/ \E w \in Workers : Send(w) /\ worker[w].claim = c
    BY <1>2 DEF Next, Work, vars, Check, ReadDeal, ReadOwner, Dispatch, Send, Acknowledge, ReadBack,
                Finished, Fail, Crash, Expire, Land, Edit, Lease, LeaseNone, Snapshot, Reserve, Settle,
                Bitrix
  <2> QED
    BY <2>1 DEF Registered, CInv, Fenced, Sending, Send
<1>3. ASSUME NEW c \in Claims, job[c].dispatched PROVE job'[c].dispatched
  BY <1>3, RowsKept DEF Same, CInv, JobShape
<1> QED
  BY <1>1, <1>2, <1>3 DEF Registered

\* What was the owner of the snapshot, or an older employee, still is.
LEMMA MatchedKept ==
  ASSUME CInv, [Next]_vars, NEW c \in Claims, job[c].gen # 0, Matched(c), contact' = contact
  PROVE  Matched(c)'
<1>1. \A d \in Claims : job[d].gen # 0 => /\ job'[d].gen = job[d].gen
                                          /\ job'[d].manager = job[d].manager
                                          /\ job'[d].previous = job[d].previous
  BY RowsKept DEF Same
<1> QED
  BY <1>1 DEF Matched, Rows

\* Such a job is registered, and Edit takes note of it.
LEMMA EngagedRow ==
  ASSUME CInv, Registered, NEW c \in Claims, Engaged(c)
  PROVE  /\ job[c].gen # 0
         /\ \/ job[c].dispatched
            \/ \E w \in Workers : worker[w].claim = c /\ worker[w].pc \in {"again", "dispatch"}
<1>1. Confirmed(c) => job[c].gen # 0
  BY DEF Registered, Confirmed
<1>2. CASE Outstanding(c)
  BY <1>1, <1>2 DEF Registered, CInv, JobShape, Outstanding, Fenced, Sending
<1>3. ASSUME NEW w \in Workers, Reader(w, c)
      PROVE  Confirmed(c) /\ worker[w].claim = c /\ worker[w].pc \in {"again", "dispatch"}
  BY <1>3 DEF Reader, Held, Confirmed
<1> QED
  BY <1>1, <1>2, <1>3 DEF Engaged

\* Every step keeps Kept.
LEMMA KeptStep ==
  ASSUME CInv, Registered, Kept, [Next]_vars
  PROVE  Kept'
<1> SUFFICES ASSUME NEW c \in Claims, byHand', c \notin missed', Engaged(c)'
             PROVE  Matched(c)'
  BY DEF Kept, Engaged
<1>1. CASE \E w \in Workers : /\ worker[w].claim = c /\ worker'[w].pc = "again"
                              /\ ReadOwner(w) /\ Expected(c, contact) /\ Held(w, c)
  <2>1. UNCHANGED <<job, contact>> /\ Expected(c, contact)
    BY <1>1 DEF ReadOwner, Bitrix
  <2> QED
    BY <2>1 DEF Expected, Matched, Rows
<1>2. CASE Engaged(c)
  <2>1. job[c].gen # 0 /\ c \in Rows
    BY <1>2, EngagedRow DEF Rows
  <2>2. CASE \E p \in EditedTo : Edit(p)
    <3>1. c \in missed'
      BY <1>2, <2>1, <2>2, EngagedRow DEF Edit
    <3> QED
      BY <3>1
  <2>3. CASE \E w \in Workers : ReadOwner(w)
    <3>1. PICK w \in Workers : ReadOwner(w)
      BY <2>3
    <3>2. UNCHANGED <<contact, byHand, job>>
      BY <3>1 DEF ReadOwner, Bitrix
    <3>3. CASE c \notin missed
      BY <1>2, <2>1, <3>2, <3>3, MatchedKept DEF Kept, Engaged
    <3>4. CASE c \in missed
      <4>1. worker[w].claim = c /\ Held(w, c)
        BY <3>1, <3>4 DEF ReadOwner
      <4>2. worker[w].pc = "owner" /\ ~job[c].dispatched
        BY <3>1, <4>1 DEF ReadOwner, CInv, Undispatched
      <4>3. ~Outstanding(c)
        BY <4>2 DEF Registered, CInv, Fenced, Sending, Outstanding
      <4>4. UNCHANGED inflight /\ \A v \in Workers : v # w => worker'[v] = worker[v]
        BY <3>1 DEF ReadOwner, Bitrix, Finish, CInv, TypeOK
      <4>5. \A v \in Workers : v # w => ~Reader(v, c)'
        BY <3>2, <4>1 DEF Reader, Held
      <4>6. worker'[w].pc \in {"again", "finish"}
        BY <3>1 DEF ReadOwner, Finish, CInv, TypeOK
      <4>7. Reader(w, c)'
        BY <4>3, <4>4, <4>5, <4>6 DEF Engaged, Outstanding
      <4>8. worker'[w].pc = "again"
        BY <4>6, <4>7 DEF Reader
      <4> QED
        BY <1>1, <3>1, <4>1, <4>2, <4>8, LastLook
    <3> QED
      BY <3>3, <3>4
  <2>4. CASE UNCHANGED <<contact, byHand, missed>>
    BY <1>2, <2>1, <2>4, MatchedKept DEF Kept, Engaged
  <2> QED
    BY <2>2, <2>3, <2>4
    DEF Next, Work, vars, Check, ReadDeal, Dispatch, Send, Acknowledge, ReadBack, Apply,
        Finished, Fail, Crash, Expire, Land, Lease, LeaseNone, Snapshot, Reserve, Settle,
        Bitrix, history
<1> QED
  BY <1>1, <1>2, EngagedKept
-----------------------------------------------------------------------------
\* The contact is updated by Send, or later by Land.
LEMMA AppliedBy ==
  ASSUME CInv, [Next]_vars, NEW c \in Claims, c \in applied', c \notin applied
  PROVE  /\ Outstanding(c)
         /\ UNCHANGED job
<1>1. CASE \E w \in Workers : Send(w)
  BY <1>1 DEF Send, Apply, Outstanding
<1>2. CASE Land(c)
  BY <1>2 DEF Land, Apply, Outstanding
<1> QED
  BY <1>1, <1>2
  DEF Next, Work, vars, Check, ReadDeal, ReadOwner, Dispatch, Acknowledge, ReadBack, Apply,
      Finished, Fail, Crash, Expire, Land, Edit, Lease, LeaseNone, Snapshot, Reserve, Settle,
      Bitrix, history

\* An update never replaces an owner whom a person chose after the snapshot and
\* before the worker's last look, but for the owner of the snapshot and older
\* employees: process() reads the owner under its lease and compares it.
THEOREM EditsKept == Spec => EditKept
<1> DEFINE EditKeptStep == [\A c \in applied' \ applied :
       byHand => \/ c \in missed
                 \/ contact = job[c].previous
                 \/ \E d \in Rows : job[d].gen < job[c].gen /\ job[d].manager = contact]_vars
<1>1. Init => Registered /\ Kept
  BY DEF Init, Registered, Kept, NoJob
<1>2. CInv /\ Registered /\ Kept /\ [Next]_vars => Registered' /\ Kept'
  BY RegisteredStep, KeptStep
<1>3. CInv /\ CInv' /\ Kept /\ [Next]_vars => EditKeptStep
  <2>1. SUFFICES ASSUME CInv, CInv', Kept, [Next]_vars, NEW c \in applied', c \notin applied,
                        byHand, c \notin missed
                 PROVE  Matched(c)
    BY DEF EditKeptStep, Matched
  <2>2. c \in Claims
    BY <2>1 DEF CInv, TypeOK
  <2> QED
    BY <2>1, <2>2, AppliedBy DEF Kept
<1> QED
  BY <1>1, <1>2, <1>3, Invariant, PTL DEF Spec, EditKept

\* As long as people do not choose an employee who claims, contact writes are
\* serialized: one update at a time may still be sent or applied.
THEOREM UpdatesSerialized ==
  ASSUME EditedTo \cap Managers = {}
  PROVE  Spec => []Serialized
<1>1. CInv /\ SInv /\ [Next]_vars => SInv'
  BY SerialStep
<1>2. CInv /\ SInv => Serialized
  BY Sender DEF Serialized
<1> QED
  BY <1>1, <1>2, InitSerial, Invariant, PTL DEF Spec

\* Under the same condition updates are applied in the order of the reservations.
THEOREM UpdatesInOrder ==
  ASSUME EditedTo \cap Managers = {}
  PROVE  Spec => GenerationOrder
<1>1. CInv /\ SInv /\ [Next]_vars => SInv'
  BY SerialStep
<1>2. CInv /\ CInv' /\ SInv /\ [Next]_vars
        => [\A c \in applied' \ applied, d \in applied : job[d].gen < job[c].gen]_vars
  <2>1. SUFFICES ASSUME CInv, CInv', SInv, [Next]_vars, NEW c \in applied', c \notin applied, NEW d \in applied
                 PROVE  job[d].gen < job[c].gen
    OBVIOUS
  <2>2. c \in Claims /\ d \in Claims
    BY <2>1 DEF CInv, TypeOK
  <2>3. Outstanding(c)
    BY <2>1, <2>2, AppliedBy
  <2> QED
    BY <2>1, <2>2, <2>3 DEF SInv, InOrder, Pending
<1> QED
  BY <1>1, <1>2, InitSerial, Invariant, PTL DEF Spec, GenerationOrder
=============================================================================
