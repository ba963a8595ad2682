--------------------------- MODULE GreetingOutbox ---------------------------
(***************************************************************************)
(* The greeting_outbox of state_store.py and its two kinds of workers in   *)
(* app.py: the loop that leases any job, and the thread that a claim with  *)
(* the employee's OAuth token starts for its own job ("actor").  Both      *)
(* check the deal and the chat, cross the durable "dispatching" boundary   *)
(* and then ask Bitrix once to send the greeting.                          *)
(*                                                                         *)
(* The clock is left out: a retried job may be tried again at once, leases *)
(* run out and sends become stale at any time, and the 120 seconds of the  *)
(* delivery window end at any time.                                        *)
(***************************************************************************)
EXTENDS Integers, Sequences, FiniteSets

CONSTANTS Claims,             \* confirmed claims with a greeting (operation_key)
          Loops,              \* greeting_outbox_loop, one for each process
          Actors,             \* slots of GREETING_ACTOR_THREAD_SLOTS
          Attempts,           \* max_attempts
          ActivationAttempts, \* GREETING_ACTIVATION_MAX_ATTEMPTS
          None

Workers == Loops \cup Actors

ASSUME GreetingAssumption ==
  /\ Loops \cap Actors = {}
  /\ None \notin Claims \cup Workers
  /\ Attempts \in Nat \ {0} /\ ActivationAttempts \in Nat /\ Attempts <= ActivationAttempts

VARIABLES
  job,        \* greeting_outbox by claim
  overdue,    \* jobs whose lease_expires_at has passed
  expired,    \* jobs created 120 seconds ago or earlier
  held,       \* Bitrix: claims whose deal is still the employee's, in the stage, with the marker
  chat,       \* Bitrix: the dialog is "waiting" for an operator, "free" for the employee or another's
  worker,     \* what each worker is doing
  requests,   \* how often Bitrix was asked to send a greeting
  deliveries, \* how often it arrived in the chat
  audits,     \* greeting log: the outcomes written down for a claim
  hindered    \* what forbade the greeting when the worker leased its job or saved its text

bitrix == <<held, chat, expired>>
mail == <<requests, deliveries>>
vars == <<job, overdue, expired, held, chat, worker, requests, deliveries, audits, hindered>>

Terminal == {"sent", "manual", "uncertain"}
Statuses == {"none", "pending", "checking", "dispatching"} \cup Terminal

NoJob == [status |-> "none", attempts |-> 0, activation |-> FALSE, lease |-> None]
Idle == [pc |-> "idle", claim |-> None, code |-> "none", log |-> {}]

PCs == {"idle", "check", "save", "target", "again", "chat", "answer", "last", "fail",
        "dispatch", "send", "wait", "result", "audit"}

\* activation: error_code is chat_activation_pending
Jobs == [status : Statuses, attempts : 0..ActivationAttempts, activation : BOOLEAN,
         lease : Workers \cup {None}]

TypeOK ==
  /\ job \in [Claims -> Jobs]
  /\ overdue \subseteq {c \in Claims : job[c].status = "checking"}
  /\ expired \subseteq Claims
  /\ held \subseteq Claims
  /\ chat \in [Claims -> {"waiting", "free", "other"}]
  /\ worker \in [Workers -> [pc : PCs, claim : Claims \cup {None},
                             code : {"none", "terminal", "activation", "failure",
                                     "sent", "uncertain"},
                             log : SUBSET (Claims \X Terminal)]]
  /\ requests \in [Claims -> Nat]
  /\ deliveries \in [Claims -> Nat]
  /\ audits \in [Claims -> Seq(Terminal)]
  /\ hindered \in [Workers -> SUBSET {"expired", "deal", "chat"}]

Init ==
  /\ job = [c \in Claims |-> NoJob]
  /\ overdue = {} /\ expired = {}
  /\ held = Claims
  /\ chat \in [Claims -> {"waiting", "free"}]
  /\ worker = [w \in Workers |-> Idle]
  /\ requests = [c \in Claims |-> 0] /\ deliveries = [c \in Claims |-> 0]
  /\ audits = [c \in Claims |-> <<>>]
  /\ hindered = [w \in Workers |-> {}]

Hindrances(c) == {h \in {"expired", "deal", "chat"} :
                    \/ h = "expired" /\ c \in expired
                    \/ h = "deal" /\ c \notin held
                    \/ h = "chat" /\ chat[c] = "other"}
-----------------------------------------------------------------------------
(* Jobs appear with the confirmed claim and are leased for checking.       *)

\* _enqueue_greeting_from_request: once, in the transaction that finalizes the claim
Enqueue(c) ==
  /\ job[c].status = "none"
  /\ job' = [job EXCEPT ![c].status = "pending"]
  /\ UNCHANGED <<overdue, bitrix, worker, mail, audits, hindered>>

\* mutant: a lease forgets that the job waits for the dialog
PlainLimit(j) == Attempts

\* only a recorded wait for the dialog gets the larger allowance
Limit(j) == IF j.activation THEN ActivationAttempts ELSE Attempts

\* mutant: the last attempt of a worker that died is not looked for
NothingExhausted == {}

\* mutant: the purge does not stop at the boundary
EvenSending == {c \in Claims : /\ job[c].status = "dispatching" \/ c \in overdue
                               /\ job[c].attempts >= Limit(job[c])}

Exhausted == {c \in overdue : job[c].attempts >= Limit(job[c])}

\* the UPDATE that opens lease_greeting_outbox; no audit is written for it
Purged == [c \in Claims |-> IF c \in Exhausted
                            THEN [job[c] EXCEPT !.status = "manual", !.activation = FALSE,
                                                !.lease = None]
                            ELSE job[c]]

\* mutant: a dispatching job whose worker seems gone is leased again
EvenDispatching(c) == job[c].status \in {"pending", "dispatching"} \/ c \in overdue

Available(c) == job[c].status = "pending" \/ c \in overdue

Begin(w, c) ==
  /\ worker' = [worker EXCEPT ![w] = [Idle EXCEPT !.pc = "check", !.claim = c]]
  /\ hindered' = [hindered EXCEPT ![w] = Hindrances(c)]
  /\ UNCHANGED <<bitrix, mail, audits>>

\* lease_greeting_outbox
Lease(w, c) ==
  /\ worker[w].pc = "idle" /\ w \in Loops
  /\ Available(c) /\ job[c].attempts < Limit(job[c])
  /\ job' = [Purged EXCEPT ![c] = [job[c] EXCEPT !.status = "checking",
                                                 !.attempts = job[c].attempts + 1, !.lease = w]]
  /\ overdue' = overdue \ (Exhausted \cup {c})
  /\ Begin(w, c)

\* and when it finds no job that may be tried now
LeaseNone(w) ==
  /\ worker[w].pc = "idle" /\ w \in Loops
  /\ Exhausted # {}
  /\ job' = Purged
  /\ overdue' = overdue \ Exhausted
  /\ UNCHANGED <<bitrix, worker, mail, audits, hindered>>

\* start_actor_greeting_delivery, lease_exact_greeting_outbox, by the claim or its replay
LeaseExact(w, c) ==
  /\ worker[w].pc = "idle" /\ w \in Actors
  /\ Available(c) /\ job[c].attempts < Attempts
  /\ job' = [job EXCEPT ![c] = [status |-> "checking", attempts |-> job[c].attempts + 1,
                                activation |-> FALSE, lease |-> w]]
  /\ overdue' = overdue \ {c}
  /\ Begin(w, c)
-----------------------------------------------------------------------------
(* The checks.  An error ends them: "terminal" ones give the job up, the   *)
(* others are tried again.                                                 *)

Goto(w, pc) == worker' = [worker EXCEPT ![w].pc = pc]
Raise(w, code) == worker' = [worker EXCEPT ![w].pc = "fail", ![w].code = code]

\* _owns_active_greeting_check
Owns(w, c) == job[c].status = "checking" /\ job[c].lease = w /\ c \notin overdue

\* mutant: the window is never looked at
EvenLate(w, c) == TRUE

\* require_recent_greeting, which only the loop calls
Recent(w, c) == w \in Loops => c \notin expired

\* mutant: the checks do not ask who has the deal
AnyDeal(c) == TRUE

\* crm.deal.get: owner, stage and marker are the claim's
StillHeld(c) == c \in held

\* the window, the deal, the employee and the access rules
Check(w) ==
  LET c == worker[w].claim
  IN /\ worker[w].pc = "check"
     /\ \/ Recent(w, c) /\ StillHeld(c) /\ Goto(w, "save")
        \/ Raise(w, "terminal")  \* also: another employee, revoked access, a closed dialog
        \/ Raise(w, "failure")
     /\ UNCHANGED <<job, overdue, bitrix, mail, audits, hindered>>

\* what a worker will look at again after it saved the text
Reread(w) == IF w \in Loops THEN {"expired", "deal", "chat"} ELSE {"chat"}

\* update_greeting_outbox_check
Save(w) ==
  LET c == worker[w].claim
  IN /\ worker[w].pc = "save"
     /\ IF Owns(w, c) THEN Goto(w, IF w \in Loops THEN "target" ELSE "chat")
                      ELSE worker' = [worker EXCEPT ![w] = Idle]
     /\ hindered' = IF Owns(w, c)
                    THEN [hindered EXCEPT ![w] = @ \cup (Hindrances(c) \cap Reread(w))]
                    ELSE [hindered EXCEPT ![w] = {}]
     /\ UNCHANGED <<job, overdue, bitrix, mail, audits>>

\* resolve_greeting_target: a dialog nobody accepted yet is waited for
Target(w) ==
  LET c == worker[w].claim
  IN /\ worker[w].pc = "target"
     /\ \/ chat[c] = "free" /\ Goto(w, "again")
        \/ chat[c] = "waiting" /\ Raise(w, "activation")
        \/ Raise(w, "terminal")  \* also: not the latest active dialog of the deal
        \/ Raise(w, "failure")
     /\ UNCHANGED <<job, overdue, bitrix, mail, audits, hindered>>

\* the deal is read again after the target was found
Again(w) ==
  LET c == worker[w].claim
  IN /\ worker[w].pc = "again"
     /\ \/ StillHeld(c) /\ Goto(w, "last")
        \/ ~StillHeld(c) /\ Raise(w, "terminal")
        \/ Raise(w, "failure")
     /\ UNCHANGED <<job, overdue, bitrix, mail, audits, hindered>>

\* mutant: the dialog is not asked for its owner
AnyChat(c) == TRUE

\* require_available_greeting_chat
ChatAvailable(c) == chat[c] # "other"

\* the employee's thread looks at the dialog before and after it accepts it
\* there, the loop at the window and the dialog
LookAtChat(w) ==
  LET c == worker[w].claim
  IN /\ worker[w].pc \in {"chat", "last"}
     /\ \/ /\ worker[w].pc = "last" => Recent(w, c)
           /\ ChatAvailable(c)
           /\ Goto(w, IF worker[w].pc = "chat" THEN "answer" ELSE "dispatch")
        \/ /\ ~ChatAvailable(c) \/ (worker[w].pc = "last" /\ ~Recent(w, c))
           /\ Raise(w, "terminal")
        \/ Raise(w, "failure")
     /\ UNCHANGED <<job, overdue, bitrix, mail, audits, hindered>>

\* answer_openline_for_actor
Answer(w) ==
  LET c == worker[w].claim
  IN /\ worker[w].pc = "answer"
     /\ \/ chat' = [chat EXCEPT ![c] = IF @ = "waiting" THEN "free" ELSE @] /\ Goto(w, "last")
        \/ Raise(w, "failure") /\ UNCHANGED chat
     /\ UNCHANGED <<job, overdue, expired, held, mail, audits, hindered>>

Done(w, pc, log) ==
  /\ worker' = [worker EXCEPT ![w] = [Idle EXCEPT !.pc = pc, !.log = log]]
  /\ hindered' = [hindered EXCEPT ![w] = {}]

\* mark_greeting_outbox_manual, or retry_greeting_outbox_check at its limit
GivenUp(w, c) ==
  \/ worker[w].code = "terminal"
  \/ job[c].attempts >= IF worker[w].code = "activation" THEN ActivationAttempts ELSE Attempts

FailCheck(w) ==
  LET c == worker[w].claim
  IN /\ worker[w].pc = "fail"
     /\ \/ /\ Owns(w, c) /\ GivenUp(w, c)
           /\ job' = [job EXCEPT ![c] = [job[c] EXCEPT !.status = "manual", !.lease = None,
                                           !.activation = worker[w].code = "activation"]]
           /\ Done(w, "audit", {<<c, "manual">>})
        \/ /\ Owns(w, c) /\ ~GivenUp(w, c)
           /\ job' = [job EXCEPT ![c] = [job[c] EXCEPT !.status = "pending", !.lease = None,
                                           !.activation = worker[w].code = "activation"]]
           /\ Done(w, "idle", {})
        \/ ~Owns(w, c) /\ Done(w, "idle", {}) /\ UNCHANGED job
     /\ UNCHANGED <<overdue, bitrix, mail, audits>>
-----------------------------------------------------------------------------
(* The boundary, the request and its result.                               *)

\* mutant: whoever finished the checks crosses the boundary
AnyStatus(w, c) == job[c].status \in {"checking", "dispatching"}

MayDispatch(w, c) == Owns(w, c)

\* mark_greeting_outbox_dispatching
Dispatch(w) ==
  LET c == worker[w].claim
  IN /\ worker[w].pc = "dispatch"
     /\ \/ /\ MayDispatch(w, c)
           /\ job' = [job EXCEPT ![c] = [job[c] EXCEPT !.status = "dispatching",
                                                       !.activation = FALSE, !.lease = w]]
           /\ Goto(w, "send") /\ UNCHANGED hindered
        \/ ~MayDispatch(w, c) /\ Done(w, "idle", {}) /\ UNCHANGED job
     /\ UNCHANGED <<overdue, bitrix, mail, audits>>

\* send_greeting_message, send_chat_message_for_actor
Send(w) ==
  LET c == worker[w].claim
  IN /\ worker[w].pc = "send"
     /\ requests' = [requests EXCEPT ![c] = @ + 1]
     /\ Goto(w, "wait")
     /\ UNCHANGED <<job, overdue, bitrix, deliveries, audits, hindered>>

\* Bitrix sends the greeting it was asked for, at once or later
Deliver(c) ==
  /\ deliveries[c] < requests[c]
  /\ deliveries' = [deliveries EXCEPT ![c] = @ + 1]
  /\ UNCHANGED <<job, overdue, bitrix, worker, requests, audits, hindered>>

\* mutant: a request without a clear answer counts as sent
Believed(c) == TRUE

\* the message id is in the answer
Confirmed(c) == deliveries[c] > 0

Outcome(w) ==
  /\ worker[w].pc = "wait"
  /\ \/ /\ Confirmed(worker[w].claim)
        /\ worker' = [worker EXCEPT ![w].pc = "result", ![w].code = "sent"]
     \/ worker' = [worker EXCEPT ![w].pc = "result", ![w].code = "uncertain"]
  /\ UNCHANGED <<job, overdue, bitrix, mail, audits, hindered>>

\* mutant: the result is logged although the row has been decided
LoggedAnyway(w, c) == {<<c, worker[w].code>>}

\* the result is logged with the change of the row only
Logged(w, c) == IF job[c].status = "dispatching" /\ job[c].lease = w
                THEN {<<c, worker[w].code>>} ELSE {}

\* mark_greeting_outbox_sent, mark_greeting_outbox_uncertain; a failure to
\* record "sent" is followed by "uncertain"
Record(w) ==
  LET c == worker[w].claim
      mine == job[c].status = "dispatching" /\ job[c].lease = w
      pc == IF Logged(w, c) = {} THEN "idle" ELSE "audit"
  IN /\ worker[w].pc = "result"
     /\ \/ /\ job' = IF mine THEN [job EXCEPT ![c] = [job[c] EXCEPT !.status = worker[w].code,
                                                                    !.lease = None]]
                             ELSE job
           /\ Done(w, pc, Logged(w, c))
        \/ /\ worker[w].code = "sent"
           /\ worker' = [worker EXCEPT ![w].code = "uncertain"]
           /\ UNCHANGED <<job, hindered>>
     /\ UNCHANGED <<overdue, bitrix, mail, audits>>

\* recover_stale_greeting_dispatches, at the head of the loop: sends that
\* started 300 seconds ago
Recover(w, stale) ==
  /\ worker[w].pc = "idle" /\ w \in Loops
  /\ stale # {} /\ \A c \in stale : job[c].status = "dispatching"
  /\ job' = [c \in Claims |-> IF c \in stale
                              THEN [job[c] EXCEPT !.status = "uncertain", !.lease = None]
                              ELSE job[c]]
  /\ Done(w, "audit", stale \X {"uncertain"})
  /\ UNCHANGED <<overdue, bitrix, mail, audits>>

\* append_greeting_delivery_audit, which may fail
Audit(w) ==
  /\ worker[w].pc = "audit"
  /\ \E entry \in worker[w].log :
       /\ \/ audits' = [audits EXCEPT ![entry[1]] = Append(@, entry[2])]
          \/ UNCHANGED audits
       /\ LET rest == worker[w].log \ {entry}
          IN Done(w, IF rest = {} THEN "idle" ELSE "audit", rest)
  /\ UNCHANGED <<job, overdue, bitrix, mail>>
-----------------------------------------------------------------------------
(* The surroundings.                                                       *)

\* the process dies, or a result cannot be stored
Stop(w) ==
  /\ worker[w].pc # "idle"
  /\ Done(w, "idle", {})
  /\ UNCHANGED <<job, overdue, bitrix, mail, audits>>

RunOut(c) ==
  /\ job[c].status = "checking" /\ c \notin overdue
  /\ overdue' = overdue \cup {c}
  /\ UNCHANGED <<job, bitrix, worker, mail, audits, hindered>>

\* a hindrance that goes away no longer counts
Forgive(c, hindrance) ==
  hindered' = [w \in Workers |-> IF worker[w].claim = c THEN hindered[w] \ {hindrance}
                                                        ELSE hindered[w]]

Late(c) ==
  /\ c \notin expired /\ job[c].status # "none"
  /\ expired' = expired \cup {c}
  /\ UNCHANGED <<job, overdue, held, chat, worker, mail, audits, hindered>>

Reassign(c) ==
  /\ \/ c \in held /\ held' = held \ {c} /\ UNCHANGED hindered
     \/ c \notin held /\ held' = held \cup {c} /\ Forgive(c, "deal")
  /\ UNCHANGED <<job, overdue, chat, expired, worker, mail, audits>>

\* the dialog is accepted by the employee or by another one, or handed over
ChatMoves(c) ==
  /\ \/ chat[c] # "other" /\ chat' = [chat EXCEPT ![c] = "other"] /\ UNCHANGED hindered
     \/ chat[c] # "free" /\ chat' = [chat EXCEPT ![c] = "free"] /\ Forgive(c, "chat")
  /\ UNCHANGED <<job, overdue, held, expired, worker, mail, audits>>
-----------------------------------------------------------------------------
Work(w) == \/ Check(w) \/ Save(w) \/ Target(w) \/ Again(w) \/ LookAtChat(w) \/ Answer(w)
           \/ FailCheck(w) \/ Dispatch(w) \/ Send(w) \/ Outcome(w) \/ Record(w) \/ Audit(w)

LoopTurn(w) == \/ LeaseNone(w)
               \/ \E c \in Claims : Lease(w, c)

Next ==
  \/ \E c \in Claims : \/ Enqueue(c) \/ Deliver(c) \/ RunOut(c)
                       \/ Late(c) \/ Reassign(c) \/ ChatMoves(c)
  \/ \E w \in Workers : \/ LoopTurn(w) \/ Work(w) \/ Stop(w)
                        \/ \E c \in Claims : LeaseExact(w, c)
                        \/ \E stale \in SUBSET Claims : Recover(w, stale)

Spec == Init /\ [][Next]_vars

\* The loop comes round for ever once the service is ready, also after a crash;
\* a call goes on until it stops, and leases run out.
FairSpec ==
  /\ Spec
  /\ \A c \in Claims : WF_vars(RunOut(c))
  /\ \A w \in Workers : WF_vars(Work(w))
  /\ WF_vars(\E w \in Loops : LoopTurn(w))
  /\ WF_vars(\E w \in Loops : Recover(w, {c \in Claims : job[c].status = "dispatching"}))
-----------------------------------------------------------------------------
Fate(status) == CASE status \in {"none", "pending", "checking"} -> "open"
                  [] status = "dispatching" -> "started"
                  [] OTHER -> status

Delivery == INSTANCE GreetingDelivery WITH outcome <- [c \in Claims |-> Fate(job[c].status)]

\* The outbox keeps the promise of GreetingDelivery, whatever expires, crashes
\* and overlaps: no greeting is requested twice, or after "manual", and one
\* that is "sent" has arrived.
Promise == Delivery!Spec

\* The log never contradicts the outbox and never tells of a greeting twice,
\* although the worker and the recovery of stale sends may both finish a job.
AuditOnce == \A c \in Claims : Len(audits[c]) <= 1 /\ \A i \in 1..Len(audits[c]) :
                                                        audits[c][i] = job[c].status

\* A lost deal, a dialog of another employee or, for the loop, the end of the
\* window stops a greeting if it was there when the text was saved and is
\* looked at again, or when the job was leased, and did not go away since.
Stops(w) == IF w \in Loops THEN {"expired", "deal", "chat"} ELSE {"deal", "chat"}
NotHindered == \A w \in Workers : worker[w].pc = "send" => hindered[w] \cap Stops(w) = {}

\* "An overdue backlog sends no late greetings" (README:541): a job that is
\* leased after its window does not get as far as the request.
NoLateGreeting == \A w \in Workers : worker[w].pc = "send" => "expired" \notin hindered[w]

\* Every greeting is sent, given up or reported as uncertain in the end.
JobsEnd == \A c \in Claims : job[c].status = "pending" ~> job[c].status \in Terminal
=============================================================================
