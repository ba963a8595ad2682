------------------------ MODULE GreetingOutboxProofs ------------------------
(***************************************************************************)
(* Proofs about GreetingOutbox for any number of claims, loops, actors and *)
(* attempts: the outbox implements GreetingDelivery (GInv), its log agrees *)
(* with it (LogInv), and what forbids a greeting stops it (HInv).          *)
(***************************************************************************)
EXTENDS GreetingOutbox, TLAPS

Codes == {"none", "terminal", "activation", "failure", "sent", "uncertain"}
WorkerStates == [pc : PCs, claim : Claims \cup {None}, code : Codes,
                 log : SUBSET (Claims \X Terminal)]

\* The part of TypeOK the argument rests on.
Typed == /\ job \in [Claims -> Jobs]
         /\ worker \in [Workers -> WorkerStates]
         /\ requests \in [Claims -> Nat] /\ deliveries \in [Claims -> Nat]
         /\ overdue \subseteq {c \in Claims : job[c].status = "checking"}

\* Workers with a job beyond the boundary, and the statuses beyond it.
Beyond == {"send", "wait", "result"}
Crossed == {"dispatching", "sent", "uncertain"}

\* A busy worker has a claim; beyond the boundary it is alone with it.
Working == \A w \in Workers : worker[w].pc \notin {"idle", "audit"} => worker[w].claim \in Claims
Crossing == \A w \in Workers : worker[w].pc \in Beyond => job[worker[w].claim].status \in Crossed
Alone == \A v, w \in Workers : /\ worker[v].pc \in Beyond /\ worker[w].pc \in Beyond
                               /\ worker[v].claim = worker[w].claim
                               => v = w

\* Nothing is requested before the boundary, nor before the worker's request.
Fresh == \A w \in Workers : worker[w].pc = "send" => requests[worker[w].claim] = 0
Counted == \A c \in Claims : /\ requests[c] \in {0, 1} /\ deliveries[c] <= requests[c]
                             /\ requests[c] = 1 => job[c].status \in Crossed
                             /\ job[c].status = "sent" => deliveries[c] = 1

\* A result is known, and "sent" is known from Bitrix's answer.
Known == \A w \in Workers : worker[w].pc = "result" =>
           /\ worker[w].code \in {"sent", "uncertain"}
           /\ worker[w].code = "sent" => deliveries[worker[w].claim] = 1

Fence == Working /\ Crossing /\ Alone /\ Fresh /\ Counted /\ Known
GInv == Typed /\ Fence
-----------------------------------------------------------------------------
(* Types.                                                                  *)

LEMMA NoJobType == NoJob \in Jobs
BY GreetingAssumption DEF NoJob, Jobs, Statuses

LEMMA IdleType == Idle \in WorkerStates
BY DEF Idle, WorkerStates, PCs, Codes

LEMMA InitInv == Init => GInv
<1> SUFFICES ASSUME Init PROVE GInv
  OBVIOUS
<1>1. Typed
  BY NoJobType, IdleType DEF Init, Typed
<1>2. Fence
  BY DEF Init, Idle, NoJob, Fence, Working, Crossing, Alone, Fresh, Counted, Known, Beyond
<1> QED
  BY <1>1, <1>2 DEF GInv

\* The ways a worker's record changes.
LEMMA GotoStep ==
  ASSUME worker \in [Workers -> WorkerStates], NEW w \in Workers, NEW pc \in PCs, Goto(w, pc)
  PROVE  \E r \in WorkerStates : /\ worker' = [worker EXCEPT ![w] = r]
                                 /\ r.pc = pc /\ r.claim = worker[w].claim
                                 /\ r.code = worker[w].code
<1> DEFINE r == [worker[w] EXCEPT !.pc = pc]
<1>1. worker' = [worker EXCEPT ![w] = r]
  BY DEF Goto, WorkerStates
<1>2. r \in WorkerStates /\ r.pc = pc /\ r.claim = worker[w].claim /\ r.code = worker[w].code
  BY DEF WorkerStates
<1> QED
  BY <1>1, <1>2

LEMMA RaiseStep ==
  ASSUME worker \in [Workers -> WorkerStates], NEW w \in Workers,
         NEW code \in {"terminal", "activation", "failure"}, Raise(w, code)
  PROVE  \E r \in WorkerStates : /\ worker' = [worker EXCEPT ![w] = r]
                                 /\ r.pc = "fail" /\ r.claim = worker[w].claim
<1> DEFINE r == [worker[w] EXCEPT !.pc = "fail", !.code = code]
<1>1. worker' = [worker EXCEPT ![w] = r]
  BY DEF Raise, WorkerStates
<1>2. r \in WorkerStates /\ r.pc = "fail" /\ r.claim = worker[w].claim
  BY DEF WorkerStates, PCs, Codes
<1> QED
  BY <1>1, <1>2

LEMMA DoneStep ==
  ASSUME worker \in [Workers -> WorkerStates], NEW w \in Workers,
         NEW pc \in {"idle", "audit"}, NEW log \in SUBSET (Claims \X Terminal), Done(w, pc, log)
  PROVE  \E r \in WorkerStates : worker' = [worker EXCEPT ![w] = r] /\ r.pc \in {"idle", "audit"}
<1> DEFINE r == [Idle EXCEPT !.pc = pc, !.log = log]
<1>1. r \in WorkerStates /\ r.pc = pc
  BY DEF WorkerStates, Idle, PCs, Codes
<1> QED
  BY <1>1 DEF Done

\* The ways a job's row changes.
LEMMA RowStep ==
  ASSUME job \in [Claims -> Jobs], NEW c \in Claims,
         NEW status \in Statuses, NEW attempts \in 0..ActivationAttempts,
         NEW activation \in BOOLEAN, NEW lease \in Workers \cup {None},
         job' = [job EXCEPT ![c] = [status |-> status, attempts |-> attempts,
                                    activation |-> activation, lease |-> lease]]
  PROVE  /\ job' \in [Claims -> Jobs] /\ job'[c].status = status
         /\ \A d \in Claims : d # c => job'[d] = job[d]
BY DEF Jobs

LEMMA PurgedShape ==
  ASSUME Typed
  PROVE  /\ Purged \in [Claims -> Jobs]
         /\ \A c \in Claims : \/ c \in Exhausted /\ Purged[c].status = "manual"
                              \/ c \notin Exhausted /\ Purged[c] = job[c]
<1>1. ASSUME NEW c \in Claims
      PROVE  /\ Purged[c] \in Jobs
             /\ \/ c \in Exhausted /\ Purged[c].status = "manual"
                \/ c \notin Exhausted /\ Purged[c] = job[c]
  <2>1. job[c] \in Jobs
    BY DEF Typed
  <2>2. [job[c] EXCEPT !.status = "manual", !.activation = FALSE, !.lease = None] \in Jobs
    BY <2>1 DEF Jobs, Statuses, Terminal
  <2>3. [job[c] EXCEPT !.status = "manual", !.activation = FALSE, !.lease = None].status = "manual"
    BY <2>1 DEF Jobs
  <2> QED
    BY <2>1, <2>2, <2>3 DEF Purged
<1> QED
  BY <1>1 DEF Purged
-----------------------------------------------------------------------------
(* The steps.  Each keeps the invariant and is a step of GreetingDelivery  *)
(* or changes nothing there.                                               *)

Before == {"none", "pending", "checking"}

\* A worker's record after a step that does not bring it beyond the boundary.
Retreat(r) == /\ r \in WorkerStates /\ r.pc \notin Beyond
              /\ r.pc \notin {"idle", "audit"} => r.claim \in Claims

\* The rows change before the boundary only, or are given up there.
Calm(c) == \/ job'[c].status = job[c].status
           \/ job[c].status \in Before /\ job'[c].status \in Before \cup {"manual"}

\* What is decided stays as it is.
Final == \A c \in Claims : job[c].status \in Terminal => job'[c].status = job[c].status

Step == Typed' /\ Fence' /\ Final /\ [Delivery!Next]_(Delivery!vars)

LEMMA Quiet ==
  ASSUME GInv, UNCHANGED <<requests, deliveries>>,
         job' \in [Claims -> Jobs], \A c \in Claims : Calm(c),
         overdue' \subseteq {c \in Claims : job'[c].status = "checking"},
         worker' \in [Workers -> WorkerStates],
         \A v \in Workers : worker'[v] = worker[v] \/ Retreat(worker'[v])
  PROVE  Step
<1>1. Typed'
  BY DEF GInv, Typed
<1>2. \A c \in Claims : job[c].status \in Crossed => job'[c].status \in Crossed
  BY DEF Calm, Before, Crossed
<1>3. Working' /\ Crossing'
  BY <1>2 DEF GInv, Fence, Working, Crossing, Retreat, Beyond
<1>4. Alone'
  BY DEF GInv, Fence, Alone, Retreat, Beyond
<1>5. Fresh' /\ Known'
  BY DEF GInv, Fence, Fresh, Known, Retreat, Beyond
<1>6. Counted'
  BY <1>2 DEF GInv, Fence, Counted, Calm, Before
<1>7. Delivery!Next
  <2> DEFINE S == {c \in Claims : job[c].status \in Before /\ job'[c].status = "manual"}
  <2>1. \A c \in S : Fate(job[c].status) = "open"
    BY DEF Fate, Before
  <2>2. \A c \in Claims : Fate(job'[c].status) = IF c \in S THEN "manual" ELSE Fate(job[c].status)
    BY DEF Fate, Before, Calm
  <2>3. Delivery!Refuse(S)
    BY <2>1, <2>2 DEF Delivery!Refuse, Delivery!DecideAll
  <2> QED
    BY <2>3 DEF Delivery!Next
<1>8. Final
  BY DEF Final, Calm, Terminal, Before
<1> QED
  BY <1>1, <1>3, <1>4, <1>5, <1>6, <1>7, <1>8 DEF Step, Fence

\* In particular when one worker moves and the rows stay as they are.
LEMMA Moves ==
  ASSUME GInv, UNCHANGED <<job, overdue, requests, deliveries>>, NEW w \in Workers,
         NEW r \in WorkerStates, worker' = [worker EXCEPT ![w] = r], Retreat(r)
  PROVE  Step
BY Quiet DEF GInv, Typed, Calm

Looks(w) == Check(w) \/ Save(w) \/ Target(w) \/ Again(w) \/ LookAtChat(w) \/ Answer(w)

LEMMA LookStep ==
  ASSUME GInv, NEW w \in Workers, Looks(w)
  PROVE  Step
<1>0. /\ worker \in [Workers -> WorkerStates]
      /\ UNCHANGED <<job, overdue, requests, deliveries>>
      /\ worker[w].pc \notin {"idle", "audit"} /\ worker[w].claim \in Claims
  BY DEF GInv, Typed, Fence, Working, Looks, Check, Save, Target, Again, LookAtChat, Answer, mail
<1>1. ASSUME NEW pc \in {"save", "target", "chat", "again", "answer", "last", "dispatch"},
             Goto(w, pc)
      PROVE  Step
  <2>1. pc \in PCs /\ pc \notin Beyond
    BY DEF PCs, Beyond
  <2>2. PICK r \in WorkerStates : worker' = [worker EXCEPT ![w] = r] /\ r.pc = pc
                                  /\ r.claim = worker[w].claim
    BY <1>0, <1>1, <2>1, GotoStep
  <2> QED
    BY <1>0, <2>1, <2>2, Moves DEF Retreat
<1>2. ASSUME NEW code \in {"terminal", "activation", "failure"}, Raise(w, code)
      PROVE  Step
  <2>1. PICK r \in WorkerStates : worker' = [worker EXCEPT ![w] = r] /\ r.pc = "fail"
                                  /\ r.claim = worker[w].claim
    BY <1>0, <1>2, RaiseStep
  <2> QED
    BY <1>0, <2>1, Moves DEF Retreat, Beyond
<1>3. ASSUME worker' = [worker EXCEPT ![w] = Idle]
      PROVE  Step
  BY <1>0, <1>3, IdleType, Moves DEF Retreat, Idle, Beyond
<1> QED
  BY <1>1, <1>2, <1>3 DEF Looks, Check, Save, Target, Again, LookAtChat, Answer

LEMMA EnqueueStep ==
  ASSUME GInv, NEW c \in Claims, Enqueue(c)
  PROVE  Step
<1>1. /\ job \in [Claims -> Jobs] /\ worker \in [Workers -> WorkerStates] /\ job[c].status = "none"
      /\ overdue \subseteq {d \in Claims : job[d].status = "checking"} /\ overdue' = overdue
      /\ worker' = worker /\ UNCHANGED <<requests, deliveries>>
  BY DEF GInv, Typed, Enqueue, mail
<1>2. job' = [job EXCEPT ![c] = [job[c] EXCEPT !.status = "pending"]]
  BY <1>1 DEF Enqueue, Jobs
<1>3. [job[c] EXCEPT !.status = "pending"] \in Jobs
  BY <1>1 DEF Jobs, Statuses
<1>4. job' \in [Claims -> Jobs] /\ job'[c].status = "pending" /\ \A d \in Claims : d # c => job'[d] = job[d]
  BY <1>1, <1>2, <1>3 DEF Jobs
<1>5. \A d \in Claims : Calm(d)
  BY <1>1, <1>4 DEF Calm, Before
<1>6. overdue' \subseteq {d \in Claims : job'[d].status = "checking"}
  BY <1>1, <1>4
<1> QED
  BY <1>1, <1>4, <1>5, <1>6, Quiet

\* What Begin does to the worker.
LEMMA BeginStep ==
  ASSUME worker \in [Workers -> WorkerStates], NEW w \in Workers, NEW c \in Claims, Begin(w, c)
  PROVE  /\ worker' \in [Workers -> WorkerStates] /\ Retreat(worker'[w])
         /\ \A v \in Workers : v # w => worker'[v] = worker[v]
         /\ UNCHANGED <<requests, deliveries>>
<1> DEFINE r == [Idle EXCEPT !.pc = "check", !.claim = c]
<1>1. r \in WorkerStates /\ r.pc = "check" /\ r.claim = c
  BY DEF Idle, WorkerStates, PCs, Codes
<1>2. Retreat(r)
  BY <1>1 DEF Retreat, Beyond
<1> QED
  BY <1>1, <1>2 DEF Begin, mail

LEMMA AvailableBefore ==
  ASSUME Typed, NEW c \in Claims, Available(c)
  PROVE  job[c].status \in {"pending", "checking"}
BY DEF Typed, Available

LEMMA LeaseStep ==
  ASSUME GInv, NEW w \in Workers, NEW c \in Claims, Lease(w, c) \/ LeaseExact(w, c)
  PROVE  Step
<1>0. /\ job \in [Claims -> Jobs] /\ worker \in [Workers -> WorkerStates] /\ Typed
      /\ overdue \subseteq {d \in Claims : job[d].status = "checking"}
      /\ Available(c) /\ Begin(w, c)
      /\ job[c].attempts + 1 \in 0..ActivationAttempts
  <2>1. job[c].attempts \in 0..ActivationAttempts /\ job[c].attempts < ActivationAttempts
    <3>1. job[c] \in Jobs /\ Attempts <= ActivationAttempts /\ Attempts \in Nat
          /\ ActivationAttempts \in Nat
      BY GreetingAssumption DEF GInv, Typed
    <3>2. job[c].attempts \in Nat
      BY <3>1 DEF Jobs
    <3>3. job[c].attempts < Attempts \/ job[c].attempts < ActivationAttempts
      BY DEF Lease, LeaseExact, Limit
    <3> QED
      BY <3>1, <3>2, <3>3
  <2>2. ActivationAttempts \in Nat
    BY GreetingAssumption
  <2> QED
    BY <2>1, <2>2 DEF GInv, Typed, Lease, LeaseExact
<1>1. job[c].status \in {"pending", "checking"}
  BY <1>0, AvailableBefore
<1>2. CASE Lease(w, c)
  <2> DEFINE row == [job[c] EXCEPT !.status = "checking", !.attempts = job[c].attempts + 1,
                                   !.lease = w]
  <2>1. row \in Jobs /\ row.status = "checking"
    BY <1>0 DEF Jobs, Statuses
  <2>2. /\ job' = [Purged EXCEPT ![c] = row] /\ overdue' = overdue \ (Exhausted \cup {c})
    BY <1>2 DEF Lease
  <2>3. /\ job' \in [Claims -> Jobs] /\ job'[c].status = "checking"
        /\ \A d \in Claims : d # c => job'[d] = Purged[d]
    BY <1>0, <2>1, <2>2, PurgedShape
  <2>4. \A d \in Claims : Calm(d)
    BY <1>0, <1>1, <2>3, PurgedShape DEF Calm, Before, Exhausted
  <2>5. overdue' \subseteq {d \in Claims : job'[d].status = "checking"}
    BY <1>0, <2>2, <2>3, PurgedShape
  <2> QED
    BY <1>0, <2>3, <2>4, <2>5, BeginStep, Quiet
<1>3. CASE LeaseExact(w, c)
  <2> DEFINE row == [status |-> "checking", attempts |-> job[c].attempts + 1,
                     activation |-> FALSE, lease |-> w]
  <2>1. row \in Jobs /\ row.status = "checking"
    BY <1>0 DEF Jobs, Statuses
  <2>2. job' = [job EXCEPT ![c] = row] /\ overdue' = overdue \ {c}
    BY <1>3 DEF LeaseExact
  <2>3. /\ job' \in [Claims -> Jobs] /\ job'[c].status = "checking"
        /\ \A d \in Claims : d # c => job'[d] = job[d]
    BY <1>0, <2>1, <2>2
  <2>4. \A d \in Claims : Calm(d)
    BY <1>1, <2>3 DEF Calm, Before
  <2>5. overdue' \subseteq {d \in Claims : job'[d].status = "checking"}
    BY <1>0, <2>2, <2>3
  <2> QED
    BY <1>0, <2>3, <2>4, <2>5, BeginStep, Quiet
<1> QED
  BY <1>2, <1>3

LEMMA LeaseNoneStep ==
  ASSUME GInv, NEW w \in Workers, LeaseNone(w)
  PROVE  Step
<1>1. /\ job' = Purged /\ overdue' = overdue \ Exhausted /\ worker' = worker
      /\ UNCHANGED <<requests, deliveries>> /\ Typed
      /\ overdue \subseteq {d \in Claims : job[d].status = "checking"}
  BY DEF GInv, Typed, LeaseNone, mail
<1>2. job' \in [Claims -> Jobs] /\ \A d \in Claims : Calm(d)
  BY <1>1, PurgedShape DEF Calm, Before, Exhausted
<1>3. overdue' \subseteq {d \in Claims : job'[d].status = "checking"}
  BY <1>1, PurgedShape
<1> QED
  BY <1>1, <1>2, <1>3, Quiet DEF Typed

LEMMA FailStep ==
  ASSUME GInv, NEW w \in Workers, FailCheck(w)
  PROVE  Step
<1> DEFINE c == worker[w].claim
<1>0. /\ job \in [Claims -> Jobs] /\ worker \in [Workers -> WorkerStates]
      /\ overdue \subseteq {d \in Claims : job[d].status = "checking"} /\ overdue' = overdue
      /\ UNCHANGED <<requests, deliveries>> /\ c \in Claims /\ job[c] \in Jobs
  BY DEF GInv, Typed, Fence, Working, FailCheck, mail
<1>1. /\ worker' \in [Workers -> WorkerStates]
      /\ \A v \in Workers : worker'[v] = worker[v] \/ Retreat(worker'[v])
  <2>1. {<<c, "manual">>} \in SUBSET (Claims \X Terminal) /\ {} \in SUBSET (Claims \X Terminal)
    BY <1>0 DEF Terminal
  <2>2. Done(w, "audit", {<<c, "manual">>}) \/ Done(w, "idle", {})
    BY DEF FailCheck
  <2>3. PICK r \in WorkerStates : worker' = [worker EXCEPT ![w] = r] /\ r.pc \in {"idle", "audit"}
    BY <1>0, <2>1, <2>2, DoneStep
  <2> QED
    BY <1>0, <2>3 DEF Retreat, Beyond
<1>2. CASE Owns(w, c) /\ UNCHANGED job
  BY <1>0, <1>1, <1>2, Quiet DEF Calm
<1>3. CASE UNCHANGED job
  BY <1>0, <1>1, <1>3, Quiet DEF Calm
<1>4. CASE /\ Owns(w, c)
           /\ \E status \in {"manual", "pending"}, waits \in BOOLEAN :
                job' = [job EXCEPT ![c] = [job[c] EXCEPT !.status = status, !.lease = None,
                                                         !.activation = waits]]
  <2>1. PICK status \in {"manual", "pending"}, waits \in BOOLEAN :
           job' = [job EXCEPT ![c] = [job[c] EXCEPT !.status = status, !.lease = None,
                                                    !.activation = waits]]
    BY <1>4
  <2> DEFINE row == [job[c] EXCEPT !.status = status, !.lease = None, !.activation = waits]
  <2>2. row \in Jobs /\ row.status = status
    BY <1>0 DEF Jobs, Statuses, Terminal
  <2>3. /\ job' \in [Claims -> Jobs] /\ job'[c].status = status
        /\ \A d \in Claims : d # c => job'[d] = job[d]
    BY <1>0, <2>1, <2>2
  <2>4. c \notin overdue /\ job[c].status = "checking"
    BY <1>4 DEF Owns
  <2>5. \A d \in Claims : Calm(d)
    BY <2>3, <2>4 DEF Calm, Before
  <2>6. overdue' \subseteq {d \in Claims : job'[d].status = "checking"}
    BY <1>0, <2>3, <2>4
  <2> QED
    BY <1>0, <1>1, <2>3, <2>5, <2>6, Quiet
<1> QED
  <2>1. (worker[w].code = "activation") \in BOOLEAN /\ FALSE \in BOOLEAN
    OBVIOUS
  <2> QED
    BY <1>3, <1>4, <2>1 DEF FailCheck

\* Crossing the boundary: the job was being checked, so nobody is beyond it.
LEMMA DispatchStep ==
  ASSUME GInv, NEW w \in Workers, Dispatch(w)
  PROVE  Step
<1> DEFINE c == worker[w].claim
<1>0. /\ job \in [Claims -> Jobs] /\ worker \in [Workers -> WorkerStates]
      /\ overdue \subseteq {d \in Claims : job[d].status = "checking"} /\ overdue' = overdue
      /\ UNCHANGED <<requests, deliveries>> /\ c \in Claims /\ job[c] \in Jobs
  BY DEF GInv, Typed, Fence, Working, Dispatch, mail
<1>1. CASE ~MayDispatch(w, c)
  <2>1. PICK r \in WorkerStates : worker' = [worker EXCEPT ![w] = r] /\ r.pc \in {"idle", "audit"}
    BY <1>0, <1>1, DoneStep DEF Dispatch
  <2> QED
    BY <1>0, <1>1, <2>1, Moves DEF Retreat, Beyond, Dispatch
<1>2. CASE MayDispatch(w, c)
  <2> DEFINE row == [job[c] EXCEPT !.status = "dispatching", !.activation = FALSE, !.lease = w]
  <2>1. row \in Jobs /\ row.status = "dispatching"
    BY <1>0 DEF Jobs, Statuses
  <2>2. /\ job' \in [Claims -> Jobs] /\ job'[c].status = "dispatching"
        /\ \A d \in Claims : d # c => job'[d] = job[d]
    BY <1>0, <1>2, <2>1 DEF Dispatch
  <2>3. PICK r \in WorkerStates : worker' = [worker EXCEPT ![w] = r] /\ r.pc = "send" /\ r.claim = c
    BY <1>0, <1>2, GotoStep DEF Dispatch, PCs
  <2>4. job[c].status = "checking" /\ c \notin overdue
    BY <1>2 DEF MayDispatch, Owns
  <2>5. \A v \in Workers : worker[v].pc \in Beyond => worker[v].claim # c
    BY <2>4 DEF GInv, Fence, Crossing, Crossed
  <2>6. /\ worker'[w].pc = "send" /\ worker'[w].claim = c
        /\ \A v \in Workers : v # w => worker'[v] = worker[v]
    BY <1>0, <2>3
  <2>7. requests[c] = 0
    BY <1>0, <2>4 DEF GInv, Fence, Counted, Crossed
  <2>8. Typed'
    <3>1. worker' \in [Workers -> WorkerStates]
      BY <1>0, <2>3
    <3>2. overdue' \subseteq {d \in Claims : job'[d].status = "checking"}
      BY <1>0, <2>2, <2>4
    <3> QED
      BY <1>0, <2>2, <3>1, <3>2 DEF GInv, Typed
  <2>9. Working'
    BY <1>0, <2>6 DEF GInv, Fence, Working
  <2>10. Crossing'
    BY <1>0, <2>2, <2>5, <2>6 DEF GInv, Fence, Crossing, Crossed, Working, Beyond
  <2>11. Alone'
    BY <2>5, <2>6 DEF GInv, Fence, Alone
  <2>12. Fresh' /\ Known'
    BY <1>0, <2>6, <2>7 DEF GInv, Fence, Fresh, Known
  <2>13. Counted'
    BY <1>0, <2>2, <2>4 DEF GInv, Fence, Counted, Crossed
  <2>14. Delivery!Start(c)
    <3>1. Fate(job[c].status) = "open" /\ Fate(job'[c].status) = "started"
      BY <2>2, <2>4 DEF Fate
    <3>2. \A d \in Claims : d # c => Fate(job'[d].status) = Fate(job[d].status)
      BY <2>2
    <3> QED
      BY <1>0, <3>1, <3>2 DEF Delivery!Start, Delivery!Decide
  <2> QED
    BY <1>0, <2>2, <2>4, <2>8, <2>9, <2>10, <2>11, <2>12, <2>13, <2>14
       DEF Step, Fence, Final, Terminal, Delivery!Next
<1> QED
  BY <1>1, <1>2

LEMMA SendStep ==
  ASSUME GInv, NEW w \in Workers, Send(w)
  PROVE  Step
<1> DEFINE c == worker[w].claim
<1>0. /\ job \in [Claims -> Jobs] /\ worker \in [Workers -> WorkerStates]
      /\ requests \in [Claims -> Nat] /\ UNCHANGED <<job, overdue, deliveries>>
      /\ c \in Claims /\ requests[c] = 0 /\ worker[w].pc = "send"
      /\ job[c].status \in Crossed
  BY DEF GInv, Typed, Fence, Working, Fresh, Crossing, Beyond, Send
<1>1. requests' = [requests EXCEPT ![c] = 1]
  BY <1>0 DEF Send
<1>2. PICK r \in WorkerStates : worker' = [worker EXCEPT ![w] = r] /\ r.pc = "wait" /\ r.claim = c
  BY <1>0, GotoStep DEF Send, PCs
<1>3. /\ worker'[w].pc = "wait" /\ worker'[w].claim = c
      /\ \A v \in Workers : v # w => worker'[v] = worker[v]
  BY <1>0, <1>2
<1>4. Typed'
  BY <1>0, <1>1, <1>2 DEF GInv, Typed
<1>5. Working' /\ Crossing'
  BY <1>0, <1>3 DEF GInv, Fence, Working, Crossing
<1>6. Alone'
  BY <1>0, <1>3 DEF GInv, Fence, Alone, Beyond
<1>7. Fresh'
  <2>1. ASSUME NEW v \in Workers, worker'[v].pc = "send" PROVE requests'[worker'[v].claim] = 0
    <3>1. v # w /\ worker'[v] = worker[v] /\ worker[v].pc = "send"
      BY <1>3, <2>1
    <3>2. worker[v].claim # c /\ worker[v].claim \in Claims
      BY <1>0, <3>1 DEF GInv, Fence, Alone, Beyond, Working
    <3> QED
      BY <1>0, <1>1, <3>1, <3>2 DEF GInv, Fence, Fresh
  <2> QED
    BY <2>1 DEF Fresh
<1>8. Known'
  BY <1>0, <1>3 DEF GInv, Fence, Known
<1>9. Counted'
  <2>1. \A d \in Claims : deliveries[d] \in Nat
    BY DEF GInv, Typed
  <2> QED
    BY <1>0, <1>1, <2>1 DEF GInv, Fence, Counted
<1>10. Delivery!Request(c)
  <2>1. job[c].status # "sent"
    BY <1>0 DEF GInv, Fence, Counted
  <2>2. Fate(job[c].status) \in {"started", "uncertain"}
    BY <1>0, <2>1 DEF Fate, Crossed
  <2> QED
    BY <1>0, <1>1, <2>2 DEF Delivery!Request
<1> QED
  BY <1>0, <1>4, <1>5, <1>6, <1>7, <1>8, <1>9, <1>10
     DEF Step, Fence, Final, Delivery!Next

LEMMA DeliverStep ==
  ASSUME GInv, NEW c \in Claims, Deliver(c)
  PROVE  Step
<1>0. /\ requests \in [Claims -> Nat] /\ deliveries \in [Claims -> Nat]
      /\ UNCHANGED <<job, worker, overdue, requests>>
      /\ requests[c] = 1 /\ deliveries[c] = 0
  <2>1. /\ requests \in [Claims -> Nat] /\ deliveries \in [Claims -> Nat]
        /\ UNCHANGED <<job, worker, overdue, requests>>
        /\ deliveries[c] < requests[c] /\ requests[c] \in {0, 1}
    BY DEF GInv, Typed, Fence, Counted, Deliver
  <2> QED
    BY <2>1
<1>1. deliveries' = [deliveries EXCEPT ![c] = 1]
  BY <1>0 DEF Deliver
<1>2. Typed'
  BY <1>0, <1>1 DEF GInv, Typed
<1>3. Working' /\ Crossing' /\ Alone' /\ Fresh'
  BY <1>0 DEF GInv, Fence, Working, Crossing, Alone, Fresh
<1>4. Counted'
  BY <1>0, <1>1 DEF GInv, Fence, Counted
<1>5. Known'
  BY <1>0, <1>1 DEF GInv, Fence, Known, Working
<1>6. Delivery!Deliver(c)
  BY <1>0, <1>1 DEF Delivery!Deliver
<1> QED
  BY <1>0, <1>2, <1>3, <1>4, <1>5, <1>6 DEF Step, Fence, Final, Delivery!Next

\* Beyond the boundary a worker may learn or lower its result.
LEMMA ResultStep ==
  ASSUME GInv, NEW w \in Workers, UNCHANGED <<job, overdue, requests, deliveries>>,
         worker[w].pc \in {"wait", "result"}, NEW r \in WorkerStates,
         worker' = [worker EXCEPT ![w] = r], r.pc = "result", r.claim = worker[w].claim,
         \/ r.code = "uncertain"
         \/ r.code = "sent" /\ deliveries[worker[w].claim] = 1
  PROVE  Step
<1>1. /\ worker \in [Workers -> WorkerStates] /\ worker'[w] = r
      /\ \A v \in Workers : v # w => worker'[v] = worker[v]
  BY DEF GInv, Typed
<1>2. Typed'
  BY <1>1 DEF GInv, Typed
<1>3. Working' /\ Crossing' /\ Fresh' /\ Counted' /\ Known'
  BY <1>1 DEF GInv, Fence, Working, Crossing, Fresh, Counted, Known, Beyond
<1>4. Alone'
  BY <1>1 DEF GInv, Fence, Alone, Beyond
<1> QED
  BY <1>2, <1>3, <1>4 DEF Step, Fence, Final, Delivery!vars

LEMMA OutcomeStep ==
  ASSUME GInv, NEW w \in Workers, Outcome(w)
  PROVE  Step
<1>0. /\ worker \in [Workers -> WorkerStates] /\ worker[w].pc = "wait"
      /\ UNCHANGED <<job, overdue, requests, deliveries>> /\ worker[w].claim \in Claims
  BY DEF GInv, Typed, Fence, Working, Outcome, mail
<1>1. PICK code \in {"sent", "uncertain"} :
         /\ worker' = [worker EXCEPT ![w].pc = "result", ![w].code = code]
         /\ code = "sent" => Confirmed(worker[w].claim)
  BY DEF Outcome
<1> DEFINE r == [worker[w] EXCEPT !.pc = "result", !.code = code]
<1>2. worker' = [worker EXCEPT ![w] = r]
  BY <1>0, <1>1 DEF WorkerStates
<1>3. r \in WorkerStates /\ r.pc = "result" /\ r.claim = worker[w].claim /\ r.code = code
  BY <1>0 DEF WorkerStates, PCs, Codes
<1>4. code = "sent" => deliveries[worker[w].claim] = 1
  <2>1. /\ requests[worker[w].claim] \in {0, 1} /\ deliveries[worker[w].claim] \in Nat
        /\ deliveries[worker[w].claim] <= requests[worker[w].claim]
    BY <1>0 DEF GInv, Typed, Fence, Counted
  <2> QED
    BY <1>1, <2>1 DEF Confirmed
<1> QED
  BY <1>0, <1>2, <1>3, <1>4, ResultStep

\* Rows beyond the boundary are decided, and the workers on them stop or stay.
LEMMA Decided ==
  ASSUME GInv, UNCHANGED <<overdue, requests, deliveries>>,
         NEW S \in SUBSET Claims, NEW status \in {"sent", "uncertain"},
         \A c \in S : job[c].status = "dispatching" /\ job'[c].status = status,
         \A c \in S : status = "sent" => deliveries[c] = 1 /\ S = {c},
         \A c \in Claims \ S : job'[c] = job[c],
         job' \in [Claims -> Jobs], worker' \in [Workers -> WorkerStates],
         \A v \in Workers : worker'[v] = worker[v] \/ Retreat(worker'[v])
  PROVE  Step
<1>1. overdue' \subseteq {c \in Claims : job'[c].status = "checking"}
  BY DEF GInv, Typed
<1>2. Typed'
  BY <1>1 DEF GInv, Typed
<1>3. \A c \in Claims : job[c].status \in Crossed => job'[c].status \in Crossed
  BY DEF Crossed
<1>4. Working' /\ Crossing'
  BY <1>3 DEF GInv, Fence, Working, Crossing, Retreat, Beyond
<1>5. Alone'
  BY DEF GInv, Fence, Alone, Retreat, Beyond
<1>6. Fresh' /\ Known'
  BY DEF GInv, Fence, Fresh, Known, Retreat, Beyond
<1>7. Counted'
  BY <1>3 DEF GInv, Fence, Counted
<1>8. \A c \in Claims : Fate(job'[c].status) = IF c \in S THEN status ELSE Fate(job[c].status)
  BY DEF Fate
<1>9. \A c \in S : Fate(job[c].status) = "started"
  BY DEF Fate
<1>10. Delivery!Next \/ UNCHANGED Delivery!vars
  <2>1. CASE status = "uncertain"
    BY <1>8, <1>9, <2>1 DEF Delivery!GiveUp, Delivery!DecideAll, Delivery!Next
  <2>2. CASE status = "sent" /\ S # {}
    <3>1. PICK c \in S : S = {c}
      BY <2>2
    <3>2. Delivery!Confirm(c)
      BY <1>8, <1>9, <2>2, <3>1 DEF Delivery!Confirm, Delivery!Decide
    <3> QED
      BY <3>1, <3>2 DEF Delivery!Next
  <2>3. CASE S = {}
    BY <1>8, <2>3 DEF Delivery!vars
  <2> QED
    BY <2>1, <2>2, <2>3
<1> QED
  BY <1>2, <1>4, <1>5, <1>6, <1>7, <1>10 DEF Step, Fence, Final, Terminal

LEMMA RecordStep ==
  ASSUME GInv, NEW w \in Workers, Record(w)
  PROVE  Step
<1> DEFINE c == worker[w].claim
           mine == job[c].status = "dispatching" /\ job[c].lease = w
           row == [job[c] EXCEPT !.status = worker[w].code, !.lease = None]
<1>0. /\ job \in [Claims -> Jobs] /\ worker \in [Workers -> WorkerStates]
      /\ UNCHANGED <<overdue, requests, deliveries>> /\ c \in Claims /\ job[c] \in Jobs
      /\ worker[w].pc = "result" /\ worker[w].code \in {"sent", "uncertain"}
      /\ worker[w].code = "sent" => deliveries[c] = 1
  BY DEF GInv, Typed, Fence, Working, Known, Record, mail
<1>1. CASE /\ job' = IF mine THEN [job EXCEPT ![c] = row] ELSE job
           /\ Done(w, IF Logged(w, c) = {} THEN "idle" ELSE "audit", Logged(w, c))
  <2>1. Logged(w, c) \in SUBSET (Claims \X Terminal)
    BY <1>0 DEF Logged, Terminal
  <2>2. PICK r \in WorkerStates : worker' = [worker EXCEPT ![w] = r] /\ r.pc \in {"idle", "audit"}
    BY <1>0, <1>1, <2>1, DoneStep
  <2>3. /\ worker' \in [Workers -> WorkerStates]
        /\ \A v \in Workers : worker'[v] = worker[v] \/ Retreat(worker'[v])
    BY <1>0, <2>2 DEF Retreat, Beyond
  <2>4. CASE mine
    <3>1. row \in Jobs /\ row.status = worker[w].code
      BY <1>0 DEF Jobs, Statuses, Terminal
    <3>2. job' \in [Claims -> Jobs] /\ job'[c].status = worker[w].code
          /\ \A d \in Claims \ {c} : job'[d] = job[d]
      BY <1>0, <1>1, <2>4, <3>1
    <3> DEFINE S == {c}
    <3>3. /\ S \in SUBSET Claims
          /\ \A d \in S : job[d].status = "dispatching" /\ job'[d].status = worker[w].code
          /\ \A d \in S : worker[w].code = "sent" => deliveries[d] = 1 /\ S = {d}
          /\ \A d \in Claims \ S : job'[d] = job[d]
      BY <1>0, <2>4, <3>2
    <3> HIDE DEF S, mine, row, c
    <3> QED
      BY <1>0, <2>3, <3>2, <3>3, Decided
  <2>5. CASE ~mine
    BY <1>0, <1>1, <2>3, <2>5, Quiet DEF GInv, Typed, Calm
  <2> QED
    BY <2>4, <2>5
<1>2. CASE worker' = [worker EXCEPT ![w].code = "uncertain"] /\ UNCHANGED job
  <2> DEFINE r == [worker[w] EXCEPT !.code = "uncertain"]
  <2>1. worker' = [worker EXCEPT ![w] = r]
    BY <1>2
  <2>2. r \in WorkerStates /\ r.pc = "result" /\ r.claim = c /\ r.code = "uncertain"
    BY <1>0 DEF WorkerStates, Codes
  <2> QED
    BY <1>0, <1>2, <2>1, <2>2, ResultStep
<1> QED
  BY <1>1, <1>2 DEF Record

LEMMA RecoverStep ==
  ASSUME GInv, NEW w \in Workers, NEW stale \in SUBSET Claims, Recover(w, stale)
  PROVE  Step
<1>0. /\ job \in [Claims -> Jobs] /\ worker \in [Workers -> WorkerStates]
      /\ UNCHANGED <<overdue, requests, deliveries>>
  BY DEF GInv, Typed, Recover, mail
<1>1. stale \X {"uncertain"} \in SUBSET (Claims \X Terminal)
  BY DEF Terminal
<1>2. PICK r \in WorkerStates : worker' = [worker EXCEPT ![w] = r] /\ r.pc \in {"idle", "audit"}
  BY <1>0, <1>1, DoneStep DEF Recover
<1>3. /\ worker' \in [Workers -> WorkerStates]
      /\ \A v \in Workers : worker'[v] = worker[v] \/ Retreat(worker'[v])
  BY <1>0, <1>2 DEF Retreat, Beyond
<1>4. ASSUME NEW c \in Claims
      PROVE  /\ job'[c] \in Jobs
             /\ c \in stale => job[c].status = "dispatching" /\ job'[c].status = "uncertain"
             /\ c \notin stale => job'[c] = job[c]
  <2>1. job'[c] = IF c \in stale THEN [job[c] EXCEPT !.status = "uncertain", !.lease = None]
                                 ELSE job[c]
    BY DEF Recover
  <2>2. job[c] \in Jobs
    BY <1>0
  <2>3. c \in stale => job[c].status = "dispatching"
    BY DEF Recover
  <2> QED
    BY <2>1, <2>2, <2>3 DEF Jobs, Statuses, Terminal
<1>5. job' \in [Claims -> Jobs]
  BY <1>4 DEF Recover
<1> QED
  BY <1>0, <1>3, <1>4, <1>5, Decided

LEMMA AuditStep ==
  ASSUME GInv, NEW w \in Workers, Audit(w) \/ Stop(w)
  PROVE  Step
<1>0. /\ worker \in [Workers -> WorkerStates]
      /\ UNCHANGED <<job, overdue, requests, deliveries>>
  BY DEF GInv, Typed, Audit, Stop, mail
<1>1. PICK pc \in {"idle", "audit"}, log \in SUBSET (Claims \X Terminal) : Done(w, pc, log)
  <2>1. worker[w].log \in SUBSET (Claims \X Terminal)
    BY <1>0 DEF WorkerStates
  <2>2. CASE Stop(w)
    <3>1. {} \in SUBSET (Claims \X Terminal)
      OBVIOUS
    <3> QED
      BY <2>2, <3>1 DEF Stop
  <2>3. CASE Audit(w)
    <3>1. PICK entry \in worker[w].log :
             Done(w, IF worker[w].log \ {entry} = {} THEN "idle" ELSE "audit", worker[w].log \ {entry})
      BY <2>3 DEF Audit
    <3>2. worker[w].log \ {entry} \in SUBSET (Claims \X Terminal)
      BY <2>1
    <3> QED
      BY <3>1, <3>2
  <2> QED
    BY <2>2, <2>3
<1>2. PICK r \in WorkerStates : worker' = [worker EXCEPT ![w] = r] /\ r.pc \in {"idle", "audit"}
  BY <1>0, <1>1, DoneStep
<1> QED
  BY <1>0, <1>2, Moves DEF Retreat, Beyond

LEMMA OtherStep ==
  ASSUME GInv,
         \/ \E c \in Claims : RunOut(c) \/ Late(c) \/ Reassign(c) \/ ChatMoves(c)
         \/ UNCHANGED vars
  PROVE  Step
<1>1. UNCHANGED <<job, worker, requests, deliveries>>
  BY DEF RunOut, Late, Reassign, ChatMoves, mail, vars
<1>2. overdue' \subseteq {c \in Claims : job[c].status = "checking"}
  BY DEF GInv, Typed, RunOut, Late, Reassign, ChatMoves, vars
<1> QED
  BY <1>1, <1>2, Quiet DEF GInv, Typed, Calm
-----------------------------------------------------------------------------
LEMMA Steps == GInv /\ [Next]_vars => GInv' /\ Final /\ [Delivery!Next]_(Delivery!vars)
<1> SUFFICES ASSUME GInv, [Next]_vars PROVE Step
  BY DEF Step, GInv
<1> QED
  BY EnqueueStep, LeaseStep, LeaseNoneStep, LookStep, FailStep, DispatchStep, SendStep, DeliverStep,
     OutcomeStep, RecordStep, RecoverStep, AuditStep, OtherStep
     DEF Next, Work, LoopTurn, Looks

THEOREM Invariant == Spec => []GInv
BY InitInv, Steps, PTL DEF Spec

\* Whatever expires, crashes and overlaps, the outbox implements the abstract
\* delivery: a greeting is requested at most once, never after "manual", and
\* "sent" means that it arrived.
THEOREM PromiseKept == Spec => Promise
<1>1. Init => Delivery!Init
  BY DEF Init, NoJob, Delivery!Init, Fate
<1> QED
  BY <1>1, InitInv, Steps, PTL DEF Spec, Promise, Delivery!Spec
-----------------------------------------------------------------------------
(* The greeting log.                                                       *)

\* A claim has one entry at most, which is written or kept by one worker, and
\* tells the outcome of a decided job.
Written == \A c \in Claims : /\ audits[c] \in Seq(Terminal)
                             /\ \/ audits[c] = <<>>
                                \/ job[c].status \in Terminal /\ audits[c] = <<job[c].status>>
Kept == \A w \in Workers :
          /\ worker[w].pc # "audit" => worker[w].log = {}
          /\ \A entry \in worker[w].log : /\ job[entry[1]].status = entry[2]
                                          /\ audits[entry[1]] = <<>>
KeptOnce == \A v, w \in Workers :
              \A d \in worker[v].log, e \in worker[w].log : d[1] = e[1] => v = w
LogInv == Written /\ Kept /\ KeptOnce

\* Steps that write nothing and keep no new entry.
LEMMA QuietLog ==
  ASSUME GInv, LogInv, Final, UNCHANGED audits,
         \A w \in Workers : \/ worker'[w].log = {}
                            \/ worker'[w].log = worker[w].log /\ worker'[w].pc = worker[w].pc
  PROVE  LogInv'
<1>1. \A w \in Workers : worker[w].log \subseteq Claims \X Terminal
  BY DEF GInv, Typed, WorkerStates
<1>2. Written'
  BY DEF LogInv, Written, Final
<1>3. Kept'
  BY <1>1 DEF LogInv, Kept, Final
<1>4. KeptOnce'
  BY DEF LogInv, KeptOnce
<1> QED
  BY <1>2, <1>3, <1>4 DEF LogInv

\* Steps that decide rows and keep the entries for them.
LEMMA NewEntries ==
  ASSUME GInv, LogInv, Final, UNCHANGED audits, NEW w \in Workers,
         NEW S \in SUBSET Claims, NEW status \in Terminal,
         worker[w].pc # "audit", worker'[w].log = S \X {status},
         worker'[w].pc # "audit" => S = {},
         \A v \in Workers : v # w => worker'[v] = worker[v],
         \A c \in S : job[c].status \notin Terminal /\ job'[c].status = status
  PROVE  LogInv'
<1>1. \A v \in Workers : worker[v].log \subseteq Claims \X Terminal
  BY DEF GInv, Typed, WorkerStates
<1>2. \A v \in Workers : \A entry \in worker[v].log : entry[1] \notin S
  BY <1>1 DEF LogInv, Kept
<1>3. Written'
  BY DEF LogInv, Written, Final
<1>4. \A c \in S : audits[c] = <<>>
  BY DEF LogInv, Written
<1>5. Kept'
  <2>1. ASSUME NEW v \in Workers
        PROVE  /\ worker'[v].pc # "audit" => worker'[v].log = {}
               /\ \A entry \in worker'[v].log : /\ job'[entry[1]].status = entry[2]
                                                /\ audits'[entry[1]] = <<>>
    <3>1. CASE v = w
      BY <1>4, <3>1
    <3>2. CASE v # w
      BY <1>1, <3>2 DEF LogInv, Kept, Final
    <3> QED
      BY <3>1, <3>2
  <2> QED
    BY <2>1 DEF Kept
<1>6. KeptOnce'
  <2>1. ASSUME NEW u \in Workers, NEW v \in Workers,
               NEW d \in worker'[u].log, NEW e \in worker'[v].log, d[1] = e[1]
        PROVE  u = v
    <3>1. CASE u = w /\ v # w
      BY <1>2, <2>1, <3>1
    <3>2. CASE u # w /\ v = w
      BY <1>2, <2>1, <3>2
    <3>3. CASE u # w /\ v # w
      BY <2>1, <3>3 DEF LogInv, KeptOnce
    <3> QED
      BY <3>1, <3>2, <3>3
  <2> QED
    BY <2>1 DEF KeptOnce
<1> QED
  BY <1>3, <1>5, <1>6 DEF LogInv

LEMMA DoneLog ==
  ASSUME worker \in [Workers -> WorkerStates], NEW w \in Workers, NEW pc, NEW log, Done(w, pc, log)
  PROVE  /\ worker'[w].pc = pc /\ worker'[w].log = log
         /\ \A v \in Workers : v # w => worker'[v] = worker[v]
BY DEF Done, Idle

LEMMA AuditLog ==
  ASSUME GInv, LogInv, Final, NEW w \in Workers, Audit(w)
  PROVE  LogInv'
<1>0. /\ worker \in [Workers -> WorkerStates] /\ UNCHANGED job /\ worker[w].pc = "audit"
      /\ \A v \in Workers : worker[v].log \subseteq Claims \X Terminal
  BY DEF GInv, Typed, WorkerStates, Audit
<1>1. PICK entry \in worker[w].log :
         /\ \/ audits' = [audits EXCEPT ![entry[1]] = Append(@, entry[2])]
            \/ UNCHANGED audits
         /\ Done(w, IF worker[w].log \ {entry} = {} THEN "idle" ELSE "audit", worker[w].log \ {entry})
  BY DEF Audit
<1> DEFINE c == entry[1]
<1>2. /\ c \in Claims /\ entry[2] \in Terminal /\ job[c].status = entry[2] /\ audits[c] = <<>>
      /\ entry = <<c, entry[2]>>
  BY <1>0 DEF LogInv, Kept
<1>3. /\ worker'[w].log = worker[w].log \ {entry}
      /\ worker'[w].pc # "audit" => worker'[w].log = {}
      /\ \A v \in Workers : v # w => worker'[v] = worker[v]
  BY <1>0, <1>1, DoneLog
<1>4. /\ \A d \in Claims : d # c => audits'[d] = audits[d]
      /\ audits'[c] = <<>> \/ audits'[c] = <<job[c].status>>
  <2>1. CASE audits' = [audits EXCEPT ![c] = Append(@, entry[2])]
    <3>1. Append(audits[c], entry[2]) = <<entry[2]>>
      BY <1>2
    <3> QED
      BY <1>2, <2>1, <3>1
  <2> QED
    BY <1>1, <1>2, <2>1
<1>5. Written'
  BY <1>0, <1>2, <1>4 DEF LogInv, Written
<1>6. \A v \in Workers : \A e \in worker'[v].log : e[1] # c /\ e \in worker[v].log
  <2>1. ASSUME NEW v \in Workers, NEW e \in worker'[v].log
        PROVE  e \in worker[v].log /\ e[1] # c
    <3>1. e \in worker[v].log
      BY <1>3, <2>1
    <3>2. e[2] = job[e[1]].status /\ e = <<e[1], e[2]>>
      BY <1>0, <3>1 DEF LogInv, Kept
    <3>3. ASSUME e[1] = c PROVE FALSE
      <4>1. v = w
        BY <3>1, <3>3 DEF LogInv, KeptOnce
      <4>2. e = entry
        BY <1>2, <3>2, <3>3
      <4> QED
        BY <1>3, <2>1, <4>1, <4>2
    <3> QED
      BY <3>1, <3>3
  <2> QED
    BY <2>1
<1>7. Kept'
  <2>1. \A v \in Workers : worker'[v].pc # "audit" => worker'[v].log = {}
    BY <1>3 DEF LogInv, Kept
  <2>2. \A v \in Workers : \A e \in worker'[v].log :
           job'[e[1]].status = e[2] /\ audits'[e[1]] = <<>>
    BY <1>0, <1>4, <1>6 DEF LogInv, Kept
  <2> QED
    BY <2>1, <2>2 DEF Kept
<1>8. KeptOnce'
  BY <1>6 DEF LogInv, KeptOnce
<1> QED
  BY <1>5, <1>7, <1>8 DEF LogInv

LEMMA LogStep ==
  ASSUME GInv, LogInv, [Next]_vars, Final
  PROVE  LogInv'
<1>0. /\ job \in [Claims -> Jobs] /\ worker \in [Workers -> WorkerStates]
      /\ \A v \in Workers : worker[v] \in WorkerStates
  BY DEF GInv, Typed
<1>1. CASE \/ \E c \in Claims : \/ Enqueue(c) \/ Deliver(c) \/ RunOut(c) \/ Late(c)
                                 \/ Reassign(c) \/ ChatMoves(c)
           \/ \E w \in Workers : LeaseNone(w)
           \/ UNCHANGED vars
  <2>1. UNCHANGED <<worker, audits>>
    BY <1>1 DEF Enqueue, Deliver, RunOut, Late, Reassign, ChatMoves, LeaseNone, vars
  <2> QED
    BY <2>1, QuietLog
<1>2. ASSUME NEW w \in Workers, NEW c \in Claims, Lease(w, c) \/ LeaseExact(w, c)
      PROVE  LogInv'
  <2>1. Begin(w, c) /\ audits' = audits
    BY <1>2 DEF Lease, LeaseExact, Begin
  <2>2. worker'[w].log = {} /\ \A v \in Workers : v # w => worker'[v] = worker[v]
    BY <1>0, <2>1 DEF Begin, Idle
  <2> QED
    BY <2>1, <2>2, QuietLog
<1>3. ASSUME NEW w \in Workers, worker[w].pc \notin {"audit"}, UNCHANGED audits,
             \/ \E pc \in PCs : Goto(w, pc)
             \/ \E code \in Codes : Raise(w, code)
             \/ \E pc \in PCs, code \in Codes :
                  worker' = [worker EXCEPT ![w].pc = pc, ![w].code = code]
             \/ \E code \in Codes : worker' = [worker EXCEPT ![w].code = code]
             \/ Done(w, "idle", {})
             \/ worker' = [worker EXCEPT ![w] = Idle]
      PROVE  LogInv'
  <2>1. worker[w].log = {}
    BY <1>3 DEF LogInv, Kept
  <2>2. worker'[w].log = {} /\ \A v \in Workers : v # w => worker'[v] = worker[v]
    <3>1. CASE \E pc \in PCs : Goto(w, pc)
      BY <1>0, <2>1, <3>1 DEF Goto, WorkerStates
    <3>2. CASE \E code \in Codes : Raise(w, code)
      BY <1>0, <2>1, <3>2 DEF Raise, WorkerStates
    <3>3. CASE \E pc \in PCs, code \in Codes :
                  worker' = [worker EXCEPT ![w].pc = pc, ![w].code = code]
      BY <1>0, <2>1, <3>3 DEF WorkerStates
    <3>4. CASE \E code \in Codes : worker' = [worker EXCEPT ![w].code = code]
      BY <1>0, <2>1, <3>4 DEF WorkerStates
    <3>5. CASE Done(w, "idle", {})
      BY <1>0, <3>5, DoneLog
    <3>6. CASE worker' = [worker EXCEPT ![w] = Idle]
      BY <1>0, <3>6 DEF Idle
    <3> QED
      BY <1>3, <3>1, <3>2, <3>3, <3>4, <3>5, <3>6
  <2> QED
    BY <1>3, <2>2, QuietLog
<1>4. ASSUME NEW w \in Workers, Looks(w) PROVE LogInv'
  <2>1. UNCHANGED audits /\ worker[w].pc # "audit"
    BY <1>4 DEF Looks, Check, Save, Target, Again, LookAtChat, Answer
  <2>2. \/ \E pc \in PCs : Goto(w, pc)
        \/ \E code \in Codes : Raise(w, code)
        \/ worker' = [worker EXCEPT ![w] = Idle]
    BY <1>4 DEF Looks, Check, Save, Target, Again, LookAtChat, Answer, PCs, Codes
  <2> QED
    BY <1>3, <2>1, <2>2
<1>5. ASSUME NEW w \in Workers, Send(w) \/ Outcome(w) PROVE LogInv'
  <2>1. UNCHANGED audits /\ worker[w].pc # "audit"
    BY <1>5 DEF Send, Outcome
  <2>2. \/ \E pc \in PCs : Goto(w, pc)
        \/ \E pc \in PCs, code \in Codes :
              worker' = [worker EXCEPT ![w].pc = pc, ![w].code = code]
    BY <1>5 DEF Send, Outcome, PCs, Codes
  <2> QED
    BY <1>3, <2>1, <2>2
<1>6. ASSUME NEW w \in Workers, Dispatch(w) PROVE LogInv'
  <2>1. UNCHANGED audits /\ worker[w].pc # "audit"
    BY <1>6 DEF Dispatch
  <2>2. (\E pc \in PCs : Goto(w, pc)) \/ Done(w, "idle", {})
    BY <1>6 DEF Dispatch, PCs
  <2> QED
    BY <1>3, <2>1, <2>2
<1>7. ASSUME NEW w \in Workers, FailCheck(w) PROVE LogInv'
  <2> DEFINE c == worker[w].claim
  <2>1. /\ UNCHANGED audits /\ worker[w].pc # "audit" /\ c \in Claims /\ job[c] \in Jobs
    BY <1>0, <1>7 DEF FailCheck, GInv, Fence, Working
  <2>2. CASE Done(w, "idle", {})
    BY <1>3, <2>1, <2>2
  <2>3. CASE ~Done(w, "idle", {})
    <3>1. /\ Owns(w, c) /\ Done(w, "audit", {<<c, "manual">>})
          /\ job' = [job EXCEPT ![c] = [job[c] EXCEPT !.status = "manual", !.lease = None,
                                                      !.activation = worker[w].code = "activation"]]
      BY <1>7, <2>3 DEF FailCheck
    <3>2. job[c].status \notin Terminal /\ job'[c].status = "manual"
      BY <1>0, <2>1, <3>1 DEF Owns, Terminal, Jobs
    <3>3. /\ worker'[w].pc = "audit" /\ worker'[w].log = {c} \X {"manual"}
          /\ \A v \in Workers : v # w => worker'[v] = worker[v]
      BY <1>0, <3>1, DoneLog
    <3> DEFINE S == {c}
               outcome == "manual"
    <3>4. S \in SUBSET Claims /\ outcome \in Terminal /\ worker'[w].log = S \X {outcome}
      BY <2>1, <3>3 DEF Terminal
    <3>5. \A d \in S : job[d].status \notin Terminal /\ job'[d].status = outcome
      BY <3>2
    <3>6. /\ UNCHANGED audits /\ worker[w].pc # "audit" /\ (worker'[w].pc # "audit" => S = {})
          /\ \A v \in Workers : v # w => worker'[v] = worker[v]
      BY <2>1, <3>3
    <3> HIDE DEF S, outcome, c
    <3> QED
      BY <3>4, <3>5, <3>6, NewEntries
  <2> QED
    BY <2>2, <2>3
<1>8. ASSUME NEW w \in Workers, Record(w) PROVE LogInv'
  <2> DEFINE c == worker[w].claim
             mine == job[c].status = "dispatching" /\ job[c].lease = w
  <2>1. /\ UNCHANGED audits /\ worker[w].pc # "audit" /\ c \in Claims /\ job[c] \in Jobs
        /\ worker[w].code \in {"sent", "uncertain"}
    BY <1>0, <1>8 DEF Record, GInv, Fence, Working, Known
  <2>2. CASE worker' = [worker EXCEPT ![w].code = "uncertain"]
    BY <1>3, <2>1, <2>2 DEF Codes
  <2>3. CASE mine /\ Done(w, "audit", {<<c, worker[w].code>>})
             /\ job' = [job EXCEPT ![c] = [job[c] EXCEPT !.status = worker[w].code, !.lease = None]]
    <3>1. job[c].status \notin Terminal /\ job'[c].status = worker[w].code
      BY <1>0, <2>1, <2>3 DEF Terminal, Jobs
    <3>2. /\ worker'[w].pc = "audit" /\ worker'[w].log = {c} \X {worker[w].code}
          /\ \A v \in Workers : v # w => worker'[v] = worker[v]
      BY <1>0, <2>3, DoneLog
    <3>3. worker[w].code \in Terminal /\ {c} \in SUBSET Claims
      BY <2>1 DEF Terminal
    <3>4. \A d \in {c} : job[d].status \notin Terminal /\ job'[d].status = worker[w].code
      BY <3>1
    <3> HIDE DEF c
    <3> QED
      BY <2>1, <3>2, <3>3, <3>4, NewEntries
  <2>4. CASE Done(w, "idle", {})
    BY <1>3, <2>1, <2>4
  <2> QED
    BY <1>8, <2>2, <2>3, <2>4 DEF Record, Logged
<1>9. ASSUME NEW w \in Workers, NEW stale \in SUBSET Claims, Recover(w, stale) PROVE LogInv'
  <2>1. /\ UNCHANGED audits /\ worker[w].pc # "audit" /\ Done(w, "audit", stale \X {"uncertain"})
    BY <1>9 DEF Recover
  <2>2. \A c \in stale : job[c].status \notin Terminal /\ job'[c].status = "uncertain"
    BY <1>0, <1>9 DEF Recover, Terminal, Jobs
  <2>3. /\ worker'[w].pc = "audit" /\ worker'[w].log = stale \X {"uncertain"}
        /\ \A v \in Workers : v # w => worker'[v] = worker[v]
    BY <1>0, <2>1, DoneLog
  <2> QED
    BY <2>1, <2>2, <2>3, NewEntries DEF Terminal
<1>10. ASSUME NEW w \in Workers, Stop(w) PROVE LogInv'
  <2>1. /\ UNCHANGED audits /\ worker'[w].log = {}
        /\ \A v \in Workers : v # w => worker'[v] = worker[v]
    BY <1>0, <1>10, DoneLog DEF Stop
  <2> QED
    BY <2>1, QuietLog
<1> QED
  BY <1>1, <1>2, <1>4, <1>5, <1>6, <1>7, <1>8, <1>9, <1>10, AuditLog DEF Next, Work, LoopTurn, Looks

\* The log never contradicts the outbox and never tells of a greeting twice.
THEOREM AuditedOnce == Spec => []AuditOnce
<1>1. Init => LogInv
  BY DEF Init, Idle, LogInv, Written, Kept, KeptOnce
<1>2. GInv /\ LogInv /\ [Next]_vars => LogInv'
  BY Steps, LogStep
<1>3. ASSUME LogInv PROVE AuditOnce
  <2>1. ASSUME NEW c \in Claims
        PROVE  Len(audits[c]) <= 1 /\ \A i \in 1..Len(audits[c]) : audits[c][i] = job[c].status
    <3>1. CASE audits[c] = <<>>
      BY <3>1
    <3>2. CASE audits[c] = <<job[c].status>>
      <4>1. Len(audits[c]) = 1 /\ audits[c][1] = job[c].status
        BY <3>2
      <4> QED
        BY <4>1
    <3> QED
      BY <1>3, <3>1, <3>2 DEF LogInv, Written
  <2> QED
    BY <2>1 DEF AuditOnce
<1> QED
  BY <1>1, <1>2, <1>3, Invariant, PTL DEF Spec
-----------------------------------------------------------------------------
(* Hindrances.                                                             *)

\* What worker w has noted forbids the greeting still, and is gone once it has
\* been looked at again.
Clear(w) ==
  /\ worker[w].pc \in {"idle", "audit"} => hindered[w] = {}
  /\ hindered[w] # {} => hindered[w] \subseteq Hindrances(worker[w].claim)
  /\ worker[w].pc = "save" /\ w \notin Loops => "deal" \notin hindered[w]
  /\ worker[w].pc \in {"chat", "answer", "last"} => "deal" \notin hindered[w]
  /\ worker[w].pc \in {"dispatch", "send"} => hindered[w] \cap Stops(w) = {}

HInv == /\ chat \in [Claims -> {"waiting", "free", "other"}]
        /\ hindered \in [Workers -> SUBSET {"expired", "deal", "chat"}]
        /\ \A w \in Workers : Clear(w)

\* A step of worker w that leaves the deal, the dialog and the window alone.
LEMMA OwnStep ==
  ASSUME HInv, UNCHANGED bitrix, NEW w \in Workers, Clear(w)',
         hindered' \in [Workers -> SUBSET {"expired", "deal", "chat"}],
         \A v \in Workers : v # w => worker'[v] = worker[v] /\ hindered'[v] = hindered[v]
  PROVE  HInv'
BY DEF HInv, Clear, Hindrances, bitrix

\* A step of the surroundings, after which no hindrance noted is gone.
LEMMA AroundStep ==
  ASSUME HInv, chat' \in [Claims -> {"waiting", "free", "other"}], UNCHANGED worker,
         hindered' \in [Workers -> SUBSET {"expired", "deal", "chat"}],
         \A w \in Workers : /\ hindered'[w] \subseteq hindered[w]
                            /\ hindered'[w] # {} /\ hindered[w] \subseteq Hindrances(worker[w].claim) =>
                                 hindered'[w] \subseteq Hindrances(worker[w].claim)'
  PROVE  HInv'
BY DEF HInv, Clear

LEMMA DoneHindrance ==
  ASSUME GInv, HInv, UNCHANGED bitrix, NEW w \in Workers, NEW pc \in {"idle", "audit"}, NEW log,
         Done(w, pc, log)
  PROVE  HInv'
<1>1. /\ worker'[w].pc = pc /\ \A v \in Workers : v # w => worker'[v] = worker[v]
      /\ hindered'[w] = {} /\ \A v \in Workers : v # w => hindered'[v] = hindered[v]
      /\ hindered' \in [Workers -> SUBSET {"expired", "deal", "chat"}]
  BY DoneLog DEF Done, GInv, Typed, HInv
<1>2. Clear(w)'
  BY <1>1 DEF Clear
<1> QED
  BY <1>1, <1>2, OwnStep

\* The window, the deal and the dialog as the checks see them.
LEMMA Seen ==
  ASSUME NEW c \in Claims
  PROVE  /\ StillHeld(c) => "deal" \notin Hindrances(c)
         /\ ChatAvailable(c) => "chat" \notin Hindrances(c)
         /\ \A w \in Loops : Recent(w, c) => "expired" \notin Hindrances(c)
BY DEF StillHeld, ChatAvailable, Recent, Hindrances

\* The worker goes on; what it has noted stays.
LEMMA GotoHindrance ==
  ASSUME GInv, HInv, UNCHANGED <<bitrix, hindered>>, NEW w \in Workers, NEW pc \in PCs, Goto(w, pc),
         worker[w].pc \notin {"idle", "audit"}, pc \notin {"idle", "audit"},
         pc = "save" => "deal" \notin hindered[w],
         pc \in {"chat", "answer", "last"} => "deal" \notin hindered[w],
         pc \in {"dispatch", "send"} => hindered[w] \cap Stops(w) = {}
  PROVE  HInv'
<1>1. PICK r \in WorkerStates : worker' = [worker EXCEPT ![w] = r] /\ r.pc = pc /\ r.claim = worker[w].claim
  BY GotoStep DEF GInv, Typed
<1>2. worker'[w] = r /\ \A v \in Workers : v # w => worker'[v] = worker[v]
  BY <1>1 DEF GInv, Typed
<1>3. Clear(w)'
  BY <1>1, <1>2 DEF HInv, Clear, Hindrances, bitrix, Stops
<1> QED
  BY <1>2, <1>3, OwnStep DEF HInv

\* The worker is at a place where nothing is promised.
LEMMA AsideHindrance ==
  ASSUME GInv, HInv, UNCHANGED <<bitrix, hindered>>, NEW w \in Workers, NEW r \in WorkerStates,
         worker' = [worker EXCEPT ![w] = r], r.claim = worker[w].claim,
         worker[w].pc \notin {"idle", "audit"},
         r.pc \in {"target", "again", "fail", "wait", "result"}
  PROVE  HInv'
<1>1. worker'[w] = r /\ \A v \in Workers : v # w => worker'[v] = worker[v]
  BY DEF GInv, Typed
<1>2. Clear(w)'
  BY <1>1 DEF HInv, Clear, Hindrances, bitrix
<1> QED
  BY <1>1, <1>2, OwnStep DEF HInv

LEMMA RaiseHindrance ==
  ASSUME GInv, HInv, UNCHANGED <<bitrix, hindered>>, NEW w \in Workers,
         worker[w].pc \notin {"idle", "audit"},
         NEW code \in {"terminal", "activation", "failure"}, Raise(w, code)
  PROVE  HInv'
BY RaiseStep, AsideHindrance DEF GInv, Typed

LEMMA LookHindrance ==
  ASSUME GInv, HInv, NEW w \in Workers,
         Check(w) \/ Target(w) \/ Again(w) \/ LookAtChat(w)
  PROVE  HInv'
<1> DEFINE c == worker[w].claim
<1>0. /\ UNCHANGED <<bitrix, hindered>> /\ worker[w].pc \notin {"idle", "audit"} /\ c \in Claims
      /\ hindered[w] \subseteq Hindrances(c)
  <2>1. worker[w].pc \notin {"idle", "audit"} /\ UNCHANGED <<bitrix, hindered>>
    BY DEF Check, Target, Again, LookAtChat
  <2>2. c \in Claims
    BY <2>1 DEF GInv, Fence, Working
  <2> QED
    BY <2>1, <2>2 DEF HInv, Clear
<1> HIDE DEF c
<1>1. ASSUME NEW code \in {"terminal", "activation", "failure"}, Raise(w, code) PROVE HInv'
  BY <1>0, <1>1, RaiseHindrance
<1>2. CASE Recent(w, c) /\ StillHeld(c) /\ Goto(w, "save")
  <2>1. "deal" \notin hindered[w]
    BY <1>0, <1>2, Seen
  <2>2. "save" \in PCs
    BY DEF PCs
  <2> QED
    BY <1>0, <1>2, <2>1, <2>2, GotoHindrance
<1>3. CASE Goto(w, "again")
  <2>1. "again" \in PCs
    BY DEF PCs
  <2> QED
    BY <1>0, <1>3, <2>1, GotoHindrance
<1>4. CASE StillHeld(c) /\ Goto(w, "last")
  <2>1. "deal" \notin hindered[w]
    BY <1>0, <1>4, Seen
  <2>2. "last" \in PCs
    BY DEF PCs
  <2> QED
    BY <1>0, <1>4, <2>1, <2>2, GotoHindrance
<1>5. CASE worker[w].pc = "chat" /\ Goto(w, "answer")
  <2>1. "deal" \notin hindered[w]
    BY <1>5 DEF HInv, Clear
  <2>2. "answer" \in PCs
    BY DEF PCs
  <2> QED
    BY <1>0, <1>5, <2>1, <2>2, GotoHindrance
<1>6. CASE worker[w].pc = "last" /\ Recent(w, c) /\ ChatAvailable(c) /\ Goto(w, "dispatch")
  <2>1. "deal" \notin hindered[w] /\ "chat" \notin hindered[w] /\ (w \in Loops => "expired" \notin hindered[w])
    BY <1>0, <1>6, Seen DEF HInv, Clear
  <2>2. hindered[w] \cap Stops(w) = {}
    BY <2>1 DEF Stops
  <2>3. "dispatch" \in PCs
    BY DEF PCs
  <2> QED
    BY <1>0, <1>6, <2>2, <2>3, GotoHindrance
<1>7. CASE Check(w)
  BY <1>1, <1>2, <1>7 DEF Check, c
<1>8. CASE Target(w)
  BY <1>1, <1>3, <1>8 DEF Target, c
<1>9. CASE Again(w)
  BY <1>1, <1>4, <1>9 DEF Again, c
<1>10. CASE LookAtChat(w)
  BY <1>1, <1>5, <1>6, <1>10 DEF LookAtChat, c
<1> QED
  BY <1>7, <1>8, <1>9, <1>10

LEMMA SaveHindrance ==
  ASSUME GInv, HInv, NEW w \in Workers, Save(w)
  PROVE  HInv'
<1> DEFINE c == worker[w].claim
<1>0. /\ UNCHANGED bitrix /\ worker[w].pc = "save" /\ c \in Claims
      /\ hindered[w] \in SUBSET {"expired", "deal", "chat"} /\ hindered[w] \subseteq Hindrances(c)
      /\ w \notin Loops => "deal" \notin hindered[w]
  BY DEF Save, GInv, Fence, Working, HInv, Clear
<1>1. CASE ~Owns(w, c)
  <2>1. worker'[w] = Idle /\ hindered'[w] = {}
        /\ \A v \in Workers : v # w => worker'[v] = worker[v] /\ hindered'[v] = hindered[v]
    BY <1>1 DEF Save, HInv, GInv, Typed
  <2>2. hindered' \in [Workers -> SUBSET {"expired", "deal", "chat"}]
    BY <1>1 DEF Save, HInv
  <2>3. Clear(w)'
    BY <2>1 DEF Clear, Idle
  <2> QED
    BY <1>0, <2>1, <2>2, <2>3, OwnStep
<1>2. CASE Owns(w, c)
  <2> DEFINE more == hindered[w] \cup (Hindrances(c) \cap Reread(w))
  <2>1. hindered' = [hindered EXCEPT ![w] = more]
    BY <1>2 DEF Save
  <2>2. more \in SUBSET {"expired", "deal", "chat"} /\ more \subseteq Hindrances(c)
    BY <1>0 DEF Reread
  <2>3. w \notin Loops => "deal" \notin more
    BY <1>0 DEF Reread
  <2>4. PICK pc \in {"target", "chat"} : Goto(w, pc) /\ (pc = "chat" => w \notin Loops)
    BY <1>2 DEF Save
  <2>5. pc \in PCs
    BY DEF PCs
  <2>6. PICK r \in WorkerStates : worker' = [worker EXCEPT ![w] = r] /\ r.pc = pc /\ r.claim = c
    BY <2>4, <2>5, GotoStep DEF GInv, Typed
  <2>7. worker'[w] = r /\ \A v \in Workers : v # w => worker'[v] = worker[v]
    BY <2>6 DEF GInv, Typed
  <2> HIDE DEF more, c
  <2>8. /\ hindered'[w] = more /\ hindered' \in [Workers -> SUBSET {"expired", "deal", "chat"}]
        /\ \A v \in Workers : v # w => hindered'[v] = hindered[v]
    BY <2>1, <2>2 DEF HInv
  <2>9. Clear(w)'
    BY <1>0, <2>2, <2>3, <2>4, <2>6, <2>7, <2>8 DEF Clear, Hindrances, bitrix
  <2> QED
    BY <1>0, <2>7, <2>8, <2>9, OwnStep
<1> QED
  BY <1>1, <1>2

LEMMA AnswerHindrance ==
  ASSUME GInv, HInv, NEW w \in Workers, Answer(w)
  PROVE  HInv'
<1> DEFINE c == worker[w].claim
<1>0. /\ worker[w].pc = "answer" /\ c \in Claims /\ "deal" \notin hindered[w]
      /\ UNCHANGED <<held, expired, hindered>>
  BY DEF Answer, GInv, Fence, Working, HInv, Clear
<1>1. CASE Raise(w, "failure") /\ UNCHANGED chat
  BY <1>0, <1>1, RaiseHindrance DEF bitrix
<1>2. CASE chat' = [chat EXCEPT ![c] = IF @ = "waiting" THEN "free" ELSE @] /\ Goto(w, "last")
  <2>1. /\ chat' \in [Claims -> {"waiting", "free", "other"}]
        /\ \A d \in Claims : chat'[d] = "other" <=> chat[d] = "other"
    BY <1>2 DEF HInv
  <2>2. \A d \in Claims : Hindrances(d)' = Hindrances(d)
    BY <1>0, <2>1 DEF Hindrances
  <2>3. "last" \in PCs
    BY DEF PCs
  <2>4. PICK r \in WorkerStates : worker' = [worker EXCEPT ![w] = r] /\ r.pc = "last" /\ r.claim = c
    BY <1>2, <2>3, GotoStep DEF GInv, Typed
  <2>5. worker'[w] = r /\ \A v \in Workers : v # w => worker'[v] = worker[v]
    BY <2>4 DEF GInv, Typed
  <2>6. \A v \in Workers : worker'[v].claim = worker[v].claim
    BY <2>4, <2>5
  <2>7. \A v \in Workers : hindered[v] # {} => worker[v].claim \in Claims
    BY DEF HInv, Clear, GInv, Fence, Working
  <2>8. \A v \in Workers : hindered'[v] # {} => hindered'[v] \subseteq Hindrances(worker[v].claim)'
    BY <1>0, <2>2, <2>6, <2>7 DEF HInv, Clear
  <2>9. \A v \in Workers : Clear(v)'
    BY <1>0, <2>4, <2>5, <2>8 DEF HInv, Clear, Stops
  <2> QED
    BY <1>0, <2>1, <2>9 DEF HInv
<1> QED
  BY <1>1, <1>2 DEF Answer

LEMMA SurroundingsHindrance ==
  ASSUME GInv, HInv, NEW c \in Claims, Late(c) \/ Reassign(c) \/ ChatMoves(c)
  PROVE  HInv'
<1>0. UNCHANGED worker /\ \A w \in Workers : hindered[w] # {} => worker[w].claim \in Claims
  BY DEF Late, Reassign, ChatMoves, HInv, Clear, GInv, Fence, Working
<1>1. ASSUME NEW gone \in {"expired", "deal", "chat"}, Forgive(c, gone),
             chat' \in [Claims -> {"waiting", "free", "other"}],
             \A d \in Claims : Hindrances(d) \subseteq Hindrances(d)' \cup (IF d = c THEN {gone} ELSE {})
      PROVE  HInv'
  <2>1. \A w \in Workers : hindered'[w] = IF worker[w].claim = c THEN hindered[w] \ {gone} ELSE hindered[w]
    BY <1>1 DEF Forgive
  <2>2. hindered' \in [Workers -> SUBSET {"expired", "deal", "chat"}]
    BY <1>1 DEF Forgive, HInv
  <2>3. ASSUME NEW w \in Workers, hindered'[w] # {}, hindered[w] \subseteq Hindrances(worker[w].claim)
        PROVE  hindered'[w] \subseteq Hindrances(worker[w].claim)'
    <3>1. worker[w].claim \in Claims
      BY <1>0, <2>1, <2>3
    <3> PICK d \in Claims : d = worker[w].claim
      BY <3>1
    <3>2. Hindrances(d) \subseteq Hindrances(d)' \cup (IF d = c THEN {gone} ELSE {})
      BY <1>1
    <3>3. hindered'[w] = IF d = c THEN hindered[w] \ {gone} ELSE hindered[w]
      BY <2>1
    <3>4. hindered'[w] \subseteq Hindrances(d)'
      BY <2>3, <3>2, <3>3
    <3> QED
      BY <1>0, <3>4 DEF Hindrances
  <2> QED
    BY <1>0, <1>1, <2>1, <2>2, <2>3, AroundStep
<1>2. ASSUME UNCHANGED hindered, chat' \in [Claims -> {"waiting", "free", "other"}],
             \A d \in Claims : Hindrances(d) \subseteq Hindrances(d)'
      PROVE  HInv'
  <2>1. ASSUME NEW w \in Workers, hindered'[w] # {}, hindered[w] \subseteq Hindrances(worker[w].claim)
        PROVE  hindered'[w] \subseteq Hindrances(worker[w].claim)'
    <3> PICK d \in Claims : d = worker[w].claim
      BY <1>0, <1>2, <2>1
    <3>1. hindered'[w] \subseteq Hindrances(d)'
      BY <1>2, <2>1
    <3> QED
      BY <1>0, <3>1 DEF Hindrances
  <2> QED
    BY <1>0, <1>2, <2>1, AroundStep DEF HInv
<1>3. CASE Late(c)
  BY <1>2, <1>3 DEF Late, Hindrances, HInv
<1>4. CASE Reassign(c) /\ UNCHANGED hindered /\ held' = held \ {c}
  BY <1>2, <1>4 DEF Reassign, Hindrances, HInv
<1>5. CASE Reassign(c) /\ held' = held \cup {c} /\ Forgive(c, "deal")
  <2>1. \A d \in Claims : Hindrances(d) \subseteq Hindrances(d)' \cup (IF d = c THEN {"deal"} ELSE {})
    BY <1>5 DEF Reassign, Hindrances
  <2> QED
    BY <1>1, <1>5, <2>1 DEF Reassign, HInv
<1>6. CASE ChatMoves(c) /\ chat' = [chat EXCEPT ![c] = "other"] /\ UNCHANGED hindered
  <2>1. chat' \in [Claims -> {"waiting", "free", "other"}]
        /\ \A d \in Claims : chat[d] = "other" => chat'[d] = "other"
    BY <1>6 DEF HInv
  <2>2. \A d \in Claims : Hindrances(d) \subseteq Hindrances(d)'
    BY <1>6, <2>1 DEF ChatMoves, Hindrances
  <2> QED
    BY <1>2, <1>6, <2>1, <2>2
<1>7. CASE ChatMoves(c) /\ chat' = [chat EXCEPT ![c] = "free"] /\ Forgive(c, "chat")
  <2>1. chat' \in [Claims -> {"waiting", "free", "other"}]
        /\ \A d \in Claims : d # c => chat'[d] = chat[d]
    BY <1>7 DEF HInv
  <2>2. \A d \in Claims : Hindrances(d) \subseteq Hindrances(d)' \cup (IF d = c THEN {"chat"} ELSE {})
    BY <1>7, <2>1 DEF ChatMoves, Hindrances
  <2> QED
    BY <1>1, <1>7, <2>1, <2>2
<1> QED
  BY <1>3, <1>4, <1>5, <1>6, <1>7 DEF Reassign, ChatMoves

LEMMA HindranceStep ==
  ASSUME GInv, HInv, [Next]_vars
  PROVE  HInv'
<1>0. worker \in [Workers -> WorkerStates]
  BY DEF GInv, Typed
<1>1. CASE \/ \E c \in Claims : Enqueue(c) \/ Deliver(c) \/ RunOut(c)
           \/ \E w \in Workers : LeaseNone(w)
           \/ UNCHANGED vars
  <2>1. UNCHANGED <<bitrix, worker, hindered>>
    BY <1>1 DEF Enqueue, Deliver, RunOut, LeaseNone, vars, bitrix
  <2> QED
    BY <2>1 DEF HInv, Clear, Hindrances, bitrix
<1>2. ASSUME NEW w \in Workers, NEW c \in Claims, Lease(w, c) \/ LeaseExact(w, c)
      PROVE  HInv'
  <2>1. Begin(w, c)
    BY <1>2 DEF Lease, LeaseExact
  <2>2. /\ worker'[w].pc = "check" /\ worker'[w].claim = c
        /\ \A v \in Workers : v # w => worker'[v] = worker[v]
    BY <1>0, <2>1 DEF Begin, Idle
  <2>3. /\ hindered'[w] = Hindrances(c) /\ UNCHANGED bitrix
        /\ hindered' \in [Workers -> SUBSET {"expired", "deal", "chat"}]
        /\ \A v \in Workers : v # w => hindered'[v] = hindered[v]
    <3>1. Hindrances(c) \in SUBSET {"expired", "deal", "chat"}
      BY DEF Hindrances
    <3> QED
      BY <2>1, <3>1 DEF Begin, HInv
  <2>4. Clear(w)'
    BY <2>2, <2>3 DEF Clear, Hindrances, bitrix
  <2> QED
    BY <2>2, <2>3, <2>4, OwnStep
<1>3. ASSUME NEW w \in Workers, UNCHANGED bitrix,
             \/ \E pc \in {"idle", "audit"} : \E log : Done(w, pc, log)
      PROVE  HInv'
  BY <1>3, DoneHindrance
<1>4. ASSUME NEW w \in Workers, FailCheck(w) \/ Audit(w) \/ Stop(w) PROVE HInv'
  <2>1. CASE FailCheck(w)
    BY <1>3, <2>1 DEF FailCheck
  <2>2. CASE Audit(w)
    BY <1>3, <2>2 DEF Audit
  <2>3. CASE Stop(w)
    BY <1>3, <2>3 DEF Stop
  <2> QED
    BY <1>4, <2>1, <2>2, <2>3
<1>5. ASSUME NEW w \in Workers, NEW stale \in SUBSET Claims, Recover(w, stale) PROVE HInv'
  BY <1>3, <1>5 DEF Recover
<1>6. ASSUME NEW w \in Workers, Record(w) PROVE HInv'
  <2>1. CASE \E pc \in {"idle", "audit"} : \E log : Done(w, pc, log)
    BY <1>3, <1>6, <2>1 DEF Record
  <2>2. CASE worker' = [worker EXCEPT ![w].code = "uncertain"] /\ UNCHANGED hindered
    <3> DEFINE r == [worker[w] EXCEPT !.code = "uncertain"]
    <3>1. r \in WorkerStates /\ r.pc = worker[w].pc /\ r.claim = worker[w].claim
      BY <1>0 DEF WorkerStates, Codes
    <3>2. worker' = [worker EXCEPT ![w] = r]
      BY <1>0, <2>2 DEF WorkerStates
    <3>3. UNCHANGED bitrix /\ worker[w].pc = "result"
      BY <1>6 DEF Record
    <3> HIDE DEF r
    <3> QED
      BY <2>2, <3>1, <3>2, <3>3, AsideHindrance
  <2> QED
    BY <1>6, <2>1, <2>2 DEF Record
<1>7. ASSUME NEW w \in Workers, Dispatch(w) PROVE HInv'
  <2>1. worker[w].pc = "dispatch" /\ UNCHANGED bitrix
    BY <1>7 DEF Dispatch
  <2>2. CASE Goto(w, "send") /\ UNCHANGED hindered
    <3>1. hindered[w] \cap Stops(w) = {} /\ "send" \in PCs
      BY <2>1 DEF HInv, Clear, PCs
    <3> QED
      BY <2>1, <2>2, <3>1, GotoHindrance
  <2> QED
    BY <1>3, <1>7, <2>1, <2>2 DEF Dispatch
<1>8. ASSUME NEW w \in Workers, Send(w) PROVE HInv'
  <2>1. worker[w].pc = "send" /\ UNCHANGED <<bitrix, hindered>> /\ Goto(w, "wait") /\ "wait" \in PCs
    BY <1>8 DEF Send, PCs
  <2> QED
    BY <2>1, GotoHindrance
<1>9. ASSUME NEW w \in Workers, Outcome(w) PROVE HInv'
  <2>1. worker[w].pc = "wait" /\ UNCHANGED <<bitrix, hindered>>
    BY <1>9 DEF Outcome
  <2>2. PICK code \in {"sent", "uncertain"} : worker' = [worker EXCEPT ![w].pc = "result", ![w].code = code]
    BY <1>9 DEF Outcome
  <2> DEFINE r == [worker[w] EXCEPT !.pc = "result", !.code = code]
  <2>3. r \in WorkerStates /\ r.pc = "result" /\ r.claim = worker[w].claim
    BY <1>0 DEF WorkerStates, Codes, PCs
  <2>4. worker' = [worker EXCEPT ![w] = r]
    BY <1>0, <2>2 DEF WorkerStates
  <2> HIDE DEF r
  <2> QED
    BY <2>1, <2>3, <2>4, AsideHindrance
<1> QED
  BY <1>1, <1>2, <1>4, <1>5, <1>6, <1>7, <1>8, <1>9,
     LookHindrance, SaveHindrance, AnswerHindrance, SurroundingsHindrance
     DEF Next, Work, LoopTurn

LEMMA InitHindrance == Init => HInv
BY DEF Init, Idle, HInv, Clear

\* No greeting is sent whose deal, dialog or, for the loop, window forbade it
\* when its text was saved and is looked at again, or when its job was leased.
THEOREM HindrancesRespected == Spec => []NotHindered
<1>1. HInv => NotHindered
  BY DEF HInv, Clear, NotHindered
<1> QED
  BY <1>1, InitHindrance, HindranceStep, Invariant, PTL DEF Spec
=============================================================================
