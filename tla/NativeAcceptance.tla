-------------------------- MODULE NativeAcceptance --------------------------
(***************************************************************************)
(* native_acceptance_sync.py: dialogs that employees accept in Bitrix, not *)
(* through the picker, and the jobs that make the employee the owner of    *)
(* the dialog's deal.  The module is about one deal, the sessions of its   *)
(* chat, and the claims of the picker that compete for the deal.  One      *)
(* thread observes sessions and works on jobs; it shares the fence of the  *)
(* deal with the claims, in one process that may stop at any time.         *)
(*                                                                         *)
(* Times are left out.  What the code asks of a time is whether a claim    *)
(* was recorded, or the deal modified, after it: the module keeps just     *)
(* that ("since") for each time that is stored.                            *)
(***************************************************************************)
EXTENDS Integers, FiniteSets

CONSTANTS MaxSessions, MaxRevisions, \* bounds: sessions of the chat, jobs of a session
          Managers,
          Others,     \* other owners of the deal, Bitrix's 0 among them
          MaxAccepts, \* bound: acceptances since the activation
          MaxEvents,  \* bound: what else happens: other moves of sessions, claims,
                      \* edits by people, crashes and failed requests
          None

ASSUME NativeAssumption ==
  /\ {MaxAccepts, MaxEvents} \subseteq Nat
  /\ {MaxSessions, MaxRevisions} \subseteq Nat \ {0}
  /\ Managers \cap Others = {} /\ Others # {}
  /\ None \notin Managers \cup Others
  /\ None \notin [owner : Managers \cup Others, edition : Nat, binding : Nat, contact : BOOLEAN]

VARIABLES
  session,   \* Bitrix: the sessions of the chat
  deal,      \* Bitrix: the deal
  row,       \* native_acceptance_sessions
  job,       \* native_acceptance_jobs, with the contact job of each
  claim,     \* the picker's latest claim of the deal and its row in claim_operations
  native,    \* what the thread is doing
  inflight,  \* jobs whose update may still be applied
  applied,   \* jobs whose update was applied
  events,    \* how many of MaxEvents have happened
  accepts,   \* history: how often a session was accepted since the activation
  overtaken, \* history: the acceptance was followed by a claim or an edit
  chosen     \* history: a person made the employee of a pending job the owner

history == <<accepts, overtaken, chosen>>
bitrix == <<session, deal, inflight, applied>>
vars == <<session, deal, row, job, claim, native, inflight, applied, events, accepts, overtaken, chosen>>

Sessions == 1..MaxSessions
Keys == Sessions \X (1..MaxRevisions)
Owners == Managers \cup Others
Events == {"claim", "edit"}

\* answered, seen, since: what happened after the acceptance of a session, the
\* last look at one that is armed, the time a job has for its acceptance
NoSession == [status |-> "none", operator |-> None, bound |-> FALSE, historic |-> FALSE,
              answered |-> {}]
NoRow == [known |-> FALSE, armed |-> FALSE, revision |-> 0, seen |-> {}]
NoJob == [status |-> "none", manager |-> None, since |-> {}, touched |-> FALSE, previous |-> None,
          dispatched |-> FALSE, acknowledged |-> FALSE, generation |-> FALSE, contact |-> "none"]
NoClaim == [pc |-> "idle", status |-> "none", manager |-> None, wrote |-> FALSE]

PCs == {"idle", "seen", "fenced", "session", "deal", "reserve", "store", "dispatch", "send", "wait",
        "acknowledge", "reject", "read", "confirm", "ready", "release", "conflict"}

\* round: which of the proofs of process it is at, 3 for the one of readback
Idle == [pc |-> "idle", of |-> 0, session |-> NoSession, since |-> {}, touched |-> FALSE,
         key |-> <<0, 0>>, round |-> 0, read |-> None]

\* native_deal_identity: the edition stands for DATE_MODIFY, the binding for
\* the marker and the contact
Identities == [owner : Owners, edition : Nat, binding : Nat, contact : BOOLEAN]

TypeOK ==
  /\ session \in [Sessions -> [status : {"none", "new", "accepted", "closed"},
                               operator : Managers \cup {None}, bound : BOOLEAN, historic : BOOLEAN,
                               answered : SUBSET Events]]
  /\ deal \in [owner : Owners, edition : Nat, binding : Nat, contact : BOOLEAN, open : BOOLEAN]
  /\ row \in [Sessions -> [known : BOOLEAN, armed : BOOLEAN, revision : 0..MaxRevisions,
                           seen : SUBSET Events]]
  /\ job \in [Keys -> [status : {"none", "pending", "ready", "conflict"},
                       manager : Managers \cup {None}, since : SUBSET Events, touched : BOOLEAN,
                       previous : Identities \cup {None}, dispatched : BOOLEAN,
                       acknowledged : BOOLEAN, generation : BOOLEAN,
                       contact : {"none", "reserved", "pending", "cancelled", "conflict"}]]
  /\ claim \in [pc : {"idle", "guard", "write", "record", "fail"},
                status : {"none", "pending", "succeeded", "failed"},
                manager : Managers \cup {None}, wrote : BOOLEAN]
  /\ native.pc \in PCs /\ native.round \in 0..3
  /\ (native.pc \notin {"idle", "seen", "fenced"} => native.key \in Keys)
  /\ inflight \subseteq Keys /\ applied \subseteq Keys /\ chosen \in BOOLEAN
  /\ events \in 0..MaxEvents
  /\ accepts \in [Sessions -> 0..MaxAccepts]
  /\ overtaken \in [Sessions -> {"no", "yes", "unseen"}]

\* the first session may be older than the activation
Init ==
  /\ \E old \in {NoSession, [NoSession EXCEPT !.status = "new", !.bound = TRUE, !.historic = TRUE]}
           \cup {[NoSession EXCEPT !.status = "accepted", !.operator = m, !.bound = TRUE,
                                   !.historic = TRUE] : m \in Managers} :
       session = [s \in Sessions |-> IF s = 1 THEN old ELSE NoSession]
  /\ deal \in [owner : Others, edition : {0}, binding : {0}, contact : {TRUE}, open : {TRUE}]
  /\ row = [s \in Sessions |-> NoRow]
  /\ job = [k \in Keys |-> NoJob]
  /\ claim = NoClaim
  /\ native = Idle
  /\ inflight = {} /\ applied = {} /\ chosen = FALSE
  /\ events = 0
  /\ accepts = [s \in Sessions |-> 0]
  /\ overtaken = [s \in Sessions |-> "no"]

Latest(s) == session[s].status # "none" /\ \A t \in Sessions : t > s => session[t].status = "none"
Event == events < MaxEvents /\ events' = events + 1

\* the fences of the deal are free: neither a job nor a claim is being worked on
DealFree == native.pc \in {"idle", "seen", "fenced"} /\ claim.pc = "idle"

\* what happens now happens after every time that is stored; claims: whether
\* claim_operations is written as well
Happens(what, claims) ==
  /\ session' = [s \in Sessions |-> IF session[s].status # "accepted" THEN session[s]
       ELSE [session[s] EXCEPT !.answered = @ \cup what]]
  /\ row' = [s \in Sessions |-> IF row[s].armed THEN [row[s] EXCEPT !.seen = @ \cup what] ELSE row[s]]
  /\ job' = [k \in Keys |-> IF job[k].status # "pending" THEN job[k]
       ELSE [job[k] EXCEPT !.since = @ \cup what, !.touched = @ \/ claims]]
  /\ native' = IF native.pc \notin {"seen", "fenced"} THEN native
       ELSE [native EXCEPT !.session.answered = @ \cup what,
               !.since = IF native.pc = "fenced" THEN @ \cup what ELSE @,
               !.touched = @ \/ (native.pc = "fenced" /\ claims)]

\* accepted dialogs are overtaken by what sets the owner of the deal now;
\* unseen: accepted after the thread has read the session and before it takes
\* the time of its look
Overtake == [s \in Sessions |->
  IF session[s].status # "accepted" THEN overtaken[s]
  ELSE IF native.pc = "seen" /\ native.of = s /\ native.session.status = "new" THEN "unseen" ELSE "yes"]
-----------------------------------------------------------------------------
(* Bitrix: clients, employees and people who edit the deal.                *)

Becomes(s, to) ==
  /\ session' = [session EXCEPT ![s] = to]
  /\ UNCHANGED <<deal, row, job, claim, native, inflight, applied, history>>

Open(s) ==
  /\ session[s].status = "none" /\ (s > 1 => session[s - 1].status = "closed" /\ Latest(s - 1))
  /\ \E bound \in BOOLEAN : Becomes(s, [NoSession EXCEPT !.status = "new", !.bound = bound])
  /\ UNCHANGED events

Accept(s, m) ==
  /\ session[s].status = "new"
  /\ Cardinality({a \in Sessions \X (1..MaxAccepts) : a[2] <= accepts[a[1]]}) < MaxAccepts
  /\ session' = [session EXCEPT ![s].status = "accepted", ![s].operator = m, ![s].answered = {}]
  /\ accepts' = [accepts EXCEPT ![s] = @ + 1]
  /\ overtaken' = [overtaken EXCEPT ![s] = "no"]
  /\ UNCHANGED <<deal, row, job, claim, native, inflight, applied, events, chosen>>

\* back to the queue, to another employee without an acceptance, ended, or
\* bound to the deal at last
Move(s) ==
  /\ Event
  /\ \/ /\ session[s].status = "accepted"
        /\ \/ Becomes(s, [session[s] EXCEPT !.status = "new", !.operator = None, !.answered = {}])
           \/ \E m \in Managers \ {session[s].operator} : Becomes(s, [session[s] EXCEPT !.operator = m])
     \/ /\ session[s].status \in {"new", "accepted"}
        /\ \/ Becomes(s, [session[s] EXCEPT !.status = "closed"])
           \/ ~session[s].bound /\ Becomes(s, [session[s] EXCEPT !.bound = TRUE])

\* more than the tolerated second after what came before
Edit(to) ==
  /\ Event
  /\ deal' = [to EXCEPT !.edition = deal.edition + 1]
  /\ Happens({"edit"}, FALSE)
  /\ overtaken' = IF to.owner # deal.owner /\ native.pc \notin {"dispatch", "send"} THEN Overtake ELSE overtaken
  /\ chosen' = (chosen \/ \E k \in Keys : job[k].status = "pending" /\ job[k].manager = to.owner)
  /\ UNCHANGED <<claim, inflight, applied, accepts>>

EditDeal ==
  \/ \E o \in Owners \ {deal.owner} : Edit([deal EXCEPT !.owner = o])
  \/ Edit([deal EXCEPT !.binding = deal.edition + 1, !.contact = FALSE])
  \/ Edit([deal EXCEPT !.open = FALSE])

Apply(k) ==
  /\ k \in inflight
  /\ inflight' = inflight \ {k} /\ applied' = applied \cup {k}
  /\ deal' = [deal EXCEPT !.owner = job[k].manager, !.edition = @ + 1]
  /\ Happens({"edit"}, FALSE)
  /\ UNCHANGED <<claim, events, history>>

Lose(k) ==
  /\ k \in inflight /\ inflight' = inflight \ {k}
  /\ UNCHANGED <<session, deal, row, job, claim, native, applied, events, history>>
-----------------------------------------------------------------------------
(* A claim of the picker, as far as the deal's jobs can see it.            *)

Dispatched(k) == job[k].status = "pending" /\ job[k].dispatched

\* native_deal_unresolved
Unresolved == \E k \in Keys : Dispatched(k)

Begin(m) ==
  /\ DealFree /\ ~Unresolved /\ claim.status # "pending"
  /\ Event
  /\ claim' = [pc |-> "guard", status |-> "pending", manager |-> m, wrote |-> FALSE]
  /\ Happens({}, TRUE)
  /\ UNCHANGED <<deal, inflight, applied, history>>

\* claim_chat_check_response: nobody else has accepted the dialog; another
\* reason may stop the claim as well
Guard ==
  /\ claim.pc = "guard"
  /\ \/ /\ \A s \in Sessions : Latest(s) /\ session[s].status = "accepted" => session[s].operator = claim.manager
        /\ claim' = [claim EXCEPT !.pc = "write"]
     \/ claim' = [claim EXCEPT !.pc = "fail"]
  /\ UNCHANGED <<session, deal, row, job, native, inflight, applied, events, history>>

Write ==
  /\ claim.pc = "write"
  /\ deal' = [deal EXCEPT !.owner = claim.manager, !.edition = @ + 1, !.binding = deal.edition + 1]
  /\ claim' = [claim EXCEPT !.pc = "record", !.wrote = TRUE]
  /\ Happens({"edit"}, FALSE)
  /\ overtaken' = Overtake
  /\ UNCHANGED <<inflight, applied, events, accepts, chosen>>

Record(succeeded) ==
  /\ claim' = [NoClaim EXCEPT !.status = IF succeeded THEN "succeeded" ELSE "failed"]
  /\ Happens(IF succeeded THEN {"claim"} ELSE {}, TRUE)
  /\ UNCHANGED <<deal, inflight, applied, events, history>>

EndClaim == claim.pc \in {"record", "fail"} /\ Record(claim.pc = "record")

\* the sweep, under the fences, for a claim that a crash has left behind
Sweep == claim.status = "pending" /\ DealFree /\ Record(claim.wrote)
-----------------------------------------------------------------------------
(* poll, poll_old_queue, recheck: look at one session and record it.       *)

Rest == native' = Idle
Goto(pc) == native' = [native EXCEPT !.pc = pc]

\* new sessions of any age, other active ones since the activation, and armed
\* ones whatever became of them
Look(s) ==
  /\ native.pc = "idle" /\ row[s].revision < MaxRevisions
  /\ \/ session[s].status = "new"
     \/ session[s].status = "accepted" /\ ~session[s].historic
     \/ row[s].armed
  /\ native' = [Idle EXCEPT !.pc = "seen", !.of = s, !.session = session[s]]
  /\ UNCHANGED <<bitrix, row, job, claim, events, history>>

\* the time and the fence of the claims
Fence ==
  /\ native.pc = "seen" /\ Goto("fenced")
  /\ UNCHANGED <<bitrix, row, job, claim, events, history>>

\* mutant: a session that is known counts as one that waited
AnyKnown(s) == row[s].known \/ ~native.session.historic

Eligible(s) == row[s].armed \/ (~row[s].known /\ ~native.session.historic)

LastSeen(since) == IF native.session.status = "accepted" THEN since ELSE native.since

\* mutant: the first look is the time of the acceptance
FirstLook(s) == IF row[s].armed THEN row[s].seen ELSE native.since

\* Without a time of the acceptance the code takes the start of the session,
\* which is only more cautious.
EventBound(s) == IF row[s].armed THEN row[s].seen ELSE native.session.answered

Observe ==
  /\ native.pc = "fenced"
  /\ LET s == native.of
         seen == native.session
         accepted == Eligible(s) /\ seen.status = "accepted"
         revision == row[s].revision + (IF accepted /\ seen.bound THEN 1 ELSE 0)
         armed == seen.status = "new" \/ (accepted /\ ~seen.bound)
         since == EventBound(s)
     IN /\ row' = [row EXCEPT ![s] = [known |-> TRUE, armed |-> armed, revision |-> revision,
                                      seen |-> IF armed THEN LastSeen(since) ELSE {}]]
        /\ job' = IF revision = row[s].revision THEN job
                  ELSE [job EXCEPT ![<<s, revision>>] = [NoJob EXCEPT !.status = "pending",
                          !.manager = seen.operator, !.since = since, !.touched = native.touched]]
  /\ Rest
  /\ UNCHANGED <<bitrix, claim, events, history>>
-----------------------------------------------------------------------------
(* process: one step of one job.                                           *)

Working(pc) == native.pc = pc
Quiet == UNCHANGED <<bitrix, row, claim, events, history>>
Save(values) == job' = [job EXCEPT ![native.key] = values]
Mine == job[native.key]

Take(k) ==
  /\ native.pc = "idle" /\ DealFree
  /\ job[k].status = "pending" /\ \A j \in Keys \ {k} : ~Dispatched(j)
  /\ native' = [Idle EXCEPT !.key = k, !.pc = IF job[k].dispatched THEN "read" ELSE "session",
                            !.round = IF job[k].dispatched THEN 3 ELSE 1]
  /\ UNCHANGED job /\ Quiet

\* no newer acceptance of the dialog, no newer claim of the deal
Current(k) ==
  /\ row[k[1]].revision = k[2]
  /\ \A j \in Keys : job[j].status # "none" => j[1] < k[1] \/ (j[1] = k[1] /\ j[2] <= k[2])
  /\ ~job[k].touched /\ claim.status # "pending" /\ "claim" \notin job[k].since

\* the dialog is still the employee's
StillAccepted(k) == LET s == session[k[1]] IN
  s.status = "accepted" /\ s.operator = job[k].manager /\ s.bound /\ Latest(k[1])

\* proof: the session and the employee, who may be inactive; then the deal
ReadSession ==
  /\ Working("session") /\ UNCHANGED job /\ Quiet
  /\ \/ Current(native.key) /\ StillAccepted(native.key) /\ Goto("deal")
     \/ Goto("release")

Identity == [owner |-> deal.owner, edition |-> deal.edition, binding |-> deal.binding,
             contact |-> deal.contact]

\* the deal has not changed since the acceptance, the stored intent and the
\* first proof
DealUnchanged ==
  CASE native.round = 1 -> "edit" \notin Mine.since /\ Mine.previous \in {None, Identity}
    [] native.round = 2 -> native.read = Identity
    [] OTHER -> TRUE

ReadDeal ==
  /\ Working("deal") /\ UNCHANGED job /\ Quiet
  /\ native' = IF ~(deal.open /\ Current(native.key) /\ DealUnchanged)
       THEN [native EXCEPT !.pc = "release"]
       ELSE CASE native.round = 1 /\ Mine.previous = None
                   -> [native EXCEPT !.pc = "reserve", !.read = Identity]
              [] native.round = 1 /\ Mine.previous # None
                   -> [native EXCEPT !.pc = "session", !.round = 2, !.read = Identity]
              [] native.round = 2 -> [native EXCEPT !.pc = "dispatch"]
              [] OTHER -> [native EXCEPT !.pc = "confirm"]

\* the contact may have a newer claim, of any of its deals
Reserve ==
  /\ Working("reserve") /\ Quiet
  /\ \/ ~native.read.contact /\ Goto("store") /\ UNCHANGED job
     \/ native.read.contact /\ Goto("store")
        /\ Save([Mine EXCEPT !.contact = IF @ = "none" THEN "reserved" ELSE @])
     \/ native.read.contact /\ Mine.contact = "none" /\ Goto("release") /\ UNCHANGED job

Store ==
  /\ Working("store") /\ Quiet
  /\ Save([Mine EXCEPT !.previous = native.read, !.generation = native.read.contact])
  /\ native' = [native EXCEPT !.pc = "session", !.round = 2]

\* mutant: the boundary becomes a status
Renamed(j) == [j EXCEPT !.status = "dispatched"]

Crossed(j) == [j EXCEPT !.dispatched = TRUE]
Dispatch ==
  /\ Working("dispatch") /\ Quiet
  /\ Save(Crossed(Mine))
  /\ native' = [native EXCEPT !.round = 3,
                  !.pc = IF native.read.owner = Mine.manager THEN "acknowledge" ELSE "send"]

Send ==
  /\ Working("send") /\ Goto("wait")
  /\ inflight' = inflight \cup {native.key}
  /\ UNCHANGED <<session, deal, row, job, claim, applied, events, history>>

\* done, rejected, or no answer
Answer ==
  /\ Working("wait")
  /\ \/ native.key \in applied /\ Goto("acknowledge") /\ UNCHANGED inflight
     \/ native.key \in inflight /\ Goto("reject") /\ inflight' = inflight \ {native.key}
     \/ Goto("read") /\ UNCHANGED inflight
  /\ UNCHANGED <<session, deal, row, job, claim, applied, events, history>>

Acknowledge ==
  /\ Working("acknowledge") /\ Quiet
  /\ Save([Mine EXCEPT !.acknowledged = TRUE]) /\ Goto("read")

Reject ==
  /\ Working("reject") /\ Quiet
  /\ Save([Mine EXCEPT !.dispatched = FALSE]) /\ Goto("release")

\* mutant: an acknowledged update is waited for as well
WaitsOn == deal.owner # Mine.manager

\* mutant: an owner other than the employee means that the update was lost
TakenAsLost == FALSE

\* the owner is not the employee, and nothing says that the update was applied
InDoubt == deal.owner # Mine.manager /\ ~Mine.acknowledged

\* readback never sends; it leaves a job in doubt as it is
ReadBack ==
  /\ Working("read") /\ UNCHANGED job /\ Quiet
  /\ IF InDoubt THEN Rest
     ELSE IF deal.owner = Mine.manager /\ deal.binding = Mine.previous.binding
     THEN Goto("session") ELSE Goto("release")

Confirm ==
  /\ Working("confirm") /\ Quiet /\ Goto("ready")
  /\ Save([Mine EXCEPT !.contact = IF Mine.generation /\ @ = "reserved" THEN "pending" ELSE @])

\* mutant: only a generation the job has stored is cancelled
OnlyStored(j) ==
  IF j.contact # "reserved" \/ ~j.generation THEN j.contact
  ELSE IF j.dispatched THEN "conflict" ELSE "cancelled"

\* cancel_native, cancel_native_operation, conflict_native
Released(j) ==
  CASE j.contact = "reserved" /\ ~j.dispatched -> "cancelled"
    [] j.contact = "reserved" /\ j.dispatched /\ j.generation -> "conflict"
    [] OTHER -> j.contact

Release ==
  /\ Working("release") /\ Quiet
  /\ Save([Mine EXCEPT !.contact = Released(Mine)]) /\ Goto("conflict")

End(status) == Save([Mine EXCEPT !.status = status]) /\ Rest /\ Quiet
Finish == \/ Working("ready") /\ End("ready")
          \/ Working("conflict") /\ End("conflict")

\* a request that fails, other than the update, leaves the job pending
Fails ==
  /\ native.pc \in {"seen", "session", "deal", "reserve", "read"}
  /\ Event /\ Rest
  /\ UNCHANGED <<bitrix, row, job, claim, history>>

Crash ==
  /\ native # Idle \/ claim.pc # "idle"
  /\ Event /\ Rest /\ claim' = [claim EXCEPT !.pc = "idle"]
  /\ UNCHANGED <<bitrix, row, job, history>>
-----------------------------------------------------------------------------
Process ==
  \/ \E k \in Keys : Take(k)
  \/ ReadSession \/ ReadDeal \/ Reserve \/ Store \/ Dispatch \/ Send \/ Answer \/ Acknowledge
  \/ Reject \/ ReadBack \/ Confirm \/ Release \/ Finish

Thread == Fence \/ Observe \/ Process
ClaimSteps == Guard \/ Write \/ EndClaim

Next ==
  \/ \E s \in Sessions : Open(s) \/ Move(s) \/ Look(s) \/ \E m \in Managers : Accept(s, m)
  \/ EditDeal
  \/ \E k \in Keys : Apply(k) \/ Lose(k)
  \/ \E m \in Managers : Begin(m)
  \/ ClaimSteps \/ Sweep
  \/ Thread \/ Fails \/ Crash

Spec == Init /\ [][Next]_vars

\* the loop calls run every thirty seconds, which gives every job its turn
\* after finitely many looks at sessions; a request for a claim ends
FairSpec == Spec /\ WF_vars(Thread) /\ SF_vars(Process) /\ WF_vars(ClaimSteps)
-----------------------------------------------------------------------------
\* A dialog gets a job only for an acceptance that happened after the
\* activation, at most one for each (observe; the docstring of the module).
JobsJustified == \A s \in Sessions : row[s].revision <= accepts[s]

\* "a newer picker action cannot be overwritten after delay" (claim_fence), nor
\* a person's: an update is sent only if, since the acceptance, no claim and, as
\* far as the last proof could see, no person has set the owner of the deal.
\* The one gap is "unseen", between the look at a session and its time.
NotOverwritten ==
  [][\A k \in inflight' \ inflight : overtaken[k[1]] # "yes"]_vars

\* While an update may still be applied its job is pending, which keeps claims
\* and other jobs away from the deal, as long as no person sets the very owner
\* that an update would set (readback, native_deal_unresolved).
Fenced == chosen \/ \A k \in inflight : Dispatched(k)

\* A job that has ended leaves no contact job behind that is still reserved
\* (cancel_native, cancel_native_operation, conflict_native, confirm_native).
ContactSettled ==
  \A k \in Keys : job[k].status \in {"ready", "conflict"} => job[k].contact # "reserved"

\* Again and again the deal has no pending job, or one whose update is in
\* doubt, which stays until a person decides (process, run).
NativeEnds ==
  []<>((\A k \in Keys : job[k].status # "pending")
       \/ \E k \in Keys : Dispatched(k) /\ ~job[k].acknowledged /\ deal.owner # job[k].manager)
=============================================================================
