---------------------------- MODULE ExtraClaims ----------------------------
(***************************************************************************)
(* Claims above the daily limit: the requests and grants that state_store  *)
(* keeps, the integration outbox that tells Baza of requests and of claims,*)
(* and the answers of Baza that are merged into the books.                 *)
(*                                                                         *)
(* The module is about one employee and one business date.  Every claim of *)
(* it needs a grant; claims within the limit and the limit itself are in   *)
(* ClaimProtocol.  Baza keeps the request that key k made under the id k,  *)
(* its grant under the same id, and one open request of an employee.       *)
(* Keys are numbered in the order of the requests, claims in the order in  *)
(* which they succeed: the books forget a claim that they release, so a    *)
(* claim of another deal after it is the same claim once more.             *)
(***************************************************************************)
EXTENDS Integers, FiniteSets, Sequences

CONSTANTS MaxRequests, MaxClaims, \* bounds: requests and claims above the limit
          Shapes,    \* how Baza's answer names the latest request
          Expiring,  \* requests whose grants end at their expires_at, not by a withdrawal
          MaxFaults, \* bound: lost answers, refusals, crashes, late updates and edits of deals
          None

ASSUME ExtraAssumption ==
  /\ Shapes # {} /\ Shapes \subseteq {"keyed", "bare", "absent"}
  /\ {MaxRequests, MaxClaims, MaxFaults} \subseteq Nat
  /\ None \notin Nat \cup ({"request", "claim"} \X Nat)

VARIABLES
  requests, \* extra_claim_requests: row -> status and external_id
  grants,   \* extra_claim_grants: grant -> status, request_key and reserved_operation_key
  order,    \* the grants in the order of created_at
  outbox,   \* integration_outbox: item -> {} without a row, else "queued" and its end
  claims,   \* what became of each claim
  applied,  \* claims that were written to Bitrix by their present attempt
  late,     \* claims whose present attempt's update has no answer and is on its way
  moved,    \* claims whose deal is neither the unchanged source nor carries their marker
  stray,    \* number of updates on their way whose attempt was given up as unapplied
  unpaid,   \* number of those that Bitrix applied
  post,     \* call of Baza that a thread makes
  remote,   \* Baza: request -> status
  spentFor, \* Baza: grant -> the claim whose event consumed it
  latest,   \* Baza: the latest request
  overdue,  \* grants whose expires_at has passed
  shape,    \* what Baza's answers look like
  faults,
  shown     \* history: the grants that Baza listed when the claim under way asked,
            \* any grant if another answer was merged after it

books == <<requests, grants, order>>
strays == <<stray, unpaid>>
deals == <<applied, late, moved, strays>>
baza == <<remote, spentFor, latest, overdue>>
vars == <<requests, grants, order, outbox, claims, applied, late, moved, stray, unpaid, post,
          remote, spentFor, latest, overdue, shape, faults, shown>>

Keys == 1..MaxRequests
Ops == 1..MaxClaims

\* a row that an answer restored has a request_key of its own
Restored(e) == MaxRequests + e
Rows == Keys \cup {Restored(e) : e \in Keys}

\* what the outbox delivers: requests and claim events
Request(k) == <<"request", k>>
Event(o) == <<"claim", o>>
Items == {Request(k) : k \in Keys} \cup {Event(o) : o \in Ops}

\* the outbox loop, a request of the employee's page, a request for a claim
Deliverers == {"loop", "page"}
Threads == Deliverers \cup {"claim"}

Statuses == {"queued", "pending", "approved", "rejected", "consumed", "expired"}
Open == {"queued", "pending", "approved"}
Terminal == {"rejected", "consumed", "expired"}

Answer(code, e, status) == [code |-> code, id |-> e, status |-> status]
NoAnswer == Answer("none", None, "none")
Idle == [pc |-> "idle", about |-> None, answer |-> NoAnswer]

Active(rq) == {r \in Rows : rq[r].status \in Open}

TypeOK ==
  /\ requests \in [Rows -> [status : Statuses \cup {"absent"}, ext : Keys \cup {None}]]
  /\ Cardinality(Active(requests)) <= 1  \* idx_extra_claim_requests_one_active
  /\ grants \in [Keys -> [status : {"absent", "approved", "reserved", "consumed", "expired"},
                          row : Rows \cup {None}, op : Ops \cup {None}]]
  /\ \A g \in Keys : grants[g].status # "absent" <=> \E i \in 1..Len(order) : order[i] = g
  /\ outbox \in [Items -> SUBSET {"queued", "delivered", "dead"}]
  /\ claims \in [Ops -> {"open", "asking", "checked", "reserved", "held", "done"}]
  /\ applied \subseteq Ops /\ late \subseteq Ops /\ moved \subseteq Ops
  /\ stray \in Nat /\ unpaid \in Nat
  /\ \A t \in Threads : post[t].pc \in {"idle", "listed", "answered"}
                        /\ post[t].about \in Items \cup {None}
  /\ remote \in [Keys -> {"none", "pending", "approved", "rejected", "expired", "consumed"}]
  /\ spentFor \in [Keys -> Ops \cup {None}]
  /\ latest \in Keys \cup {None} /\ overdue \subseteq Keys /\ faults \in 0..MaxFaults
  /\ shown \subseteq Keys

Init ==
  /\ requests = [r \in Rows |-> [status |-> "absent", ext |-> None]]
  /\ grants = [g \in Keys |-> [status |-> "absent", row |-> None, op |-> None]]
  /\ order = <<>>
  /\ outbox = [i \in Items |-> {}]
  /\ claims = [o \in Ops |-> "open"]
  /\ applied = {} /\ late = {} /\ moved = {} /\ stray = 0 /\ unpaid = 0
  /\ post = [t \in Threads |-> Idle]
  /\ remote = [e \in Keys |-> "none"] /\ spentFor = [e \in Keys |-> None]
  /\ latest = None /\ overdue = {} /\ shape \in Shapes /\ faults = 0
  /\ shown = {}

Fault == faults < MaxFaults /\ faults' = faults + 1
-----------------------------------------------------------------------------
(* Requests and grants in the state store.                                 *)

\* mutant: any answer of Baza is taken over
LatestStatus(local, told) == told

\* _merge_extra_claim_request_status: only forward
Merge(local, told) ==
  CASE local \in Terminal -> local
    [] local = "approved" -> IF told \in {"consumed", "expired"} THEN told ELSE local
    [] OTHER -> told

\* _assert_extra_request_identity_available raises
Taken(r, e) == \/ requests[r].ext \notin {None, e}
               \/ \E s \in Rows \ {r} : requests[s].ext = e

\* the row takes over what Baza says of request e
Merged(r, e, told) ==
  [requests EXCEPT ![r] = [status |-> Merge(@.status, told), ext |-> IF @.ext = None THEN e ELSE @.ext]]

\* the row bound to e, else the open one
RowFor(rq, e) ==
  IF \E r \in Rows : rq[r].ext = e THEN CHOOSE r \in Rows : rq[r].ext = e
  ELSE IF Active(rq) # {} THEN CHOOSE r \in Active(rq) : TRUE
  ELSE None

\* the grants that an answer lists: Baza has one open request, so one at most
Listed(a) == IF a.status = "approved" THEN {a.id} ELSE {}

\* _find_request_for_remote: by requestKey, else by the id or the open row
Found(a) == IF shape = "keyed" THEN a.id ELSE RowFor(requests, a.id)

\* the answer says something of a request
Says(a) == a.id # None /\ shape # "absent"

\* the request part of import_extra_claim_state
RequestsAfter(a) ==
  IF ~Says(a) THEN requests
  ELSE IF Found(a) # None THEN Merged(Found(a), a.id, a.status)
  ELSE [requests EXCEPT ![Restored(a.id)] = [status |-> a.status, ext |-> a.id]]

\* mutant: a consumed grant that is listed still is there again
ReservedOnly == {g \in Keys : grants[g].status = "reserved"}

\* mutant: a reserved grant that is listed still is there again
ConsumedOnly == {g \in Keys : grants[g].status = "consumed"}

\* grants that an answer does not touch
InUse == {g \in Keys : grants[g].status \in {"reserved", "consumed"}}

\* an approved grant that is not listed expires; a listed one, expired or
\* unknown, is approved for the request it belongs to
GrantsAfter(a, rq) ==
  [g \in Keys |->
     IF g \in Listed(a) \ InUse
     THEN [status |-> "approved", row |-> RowFor(rq, g), op |-> None]
     ELSE IF grants[g].status = "approved" THEN [grants[g] EXCEPT !.status = "expired"]
     ELSE grants[g]]

\* the request of a listed grant is approved, and bound to it
ApprovedAfter(a, rq) ==
  IF \E g \in Listed(a) \ InUse : RowFor(rq, g) # None /\ rq[RowFor(rq, g)].status \in {"queued", "pending"}
  THEN [rq EXCEPT ![RowFor(rq, a.id)] = [status |-> "approved", ext |-> IF @.ext = None THEN a.id ELSE @.ext]]
  ELSE rq

\* what is expired when the grants S have passed their time
RequestsWithout(rq, gs, S) ==
  [r \in Rows |-> IF rq[r].status = "approved" /\ \E g \in S : gs[g].row = r
                  THEN [rq[r] EXCEPT !.status = "expired"] ELSE rq[r]]
GrantsWithout(gs, S) == [g \in Keys |-> IF g \in S THEN [gs[g] EXCEPT !.status = "expired"] ELSE gs[g]]
Lapsed(gs) == {g \in overdue : gs[g].status = "approved"}

\* get_extra_claim_state expires what has passed its time
Expire(rq, gs) ==
  /\ requests' = RequestsWithout(rq, gs, Lapsed(gs))
  /\ grants' = GrantsWithout(gs, Lapsed(gs))

\* a request that cannot be bound makes the whole transaction fail
Raises(a) == Says(a) /\ Found(a) # None /\ Taken(Found(a), a.id)

\* import_extra_claim_state, and get_extra_claim_state after it in any case
Import(a) ==
  IF Raises(a) THEN Expire(requests, grants) /\ UNCHANGED order
  ELSE LET rq == RequestsAfter(a)
       IN /\ Expire(ApprovedAfter(a, rq), GrantsAfter(a, rq))
          /\ order' = IF \E g \in Listed(a) : grants[g].status = "absent" THEN Append(order, a.id)
                      ELSE order

HeldBy(gs, o) == {g \in Keys : gs[g].status = "reserved" /\ gs[g].op = o}

\* the first of the grants S in the order of created_at
Oldest(ord, S) ==
  LET first == {g \in S : \E i \in 1..Len(ord) : ord[i] = g /\ \A j \in 1..(i - 1) : ord[j] \notin S}
  IN IF first = {} THEN None ELSE CHOOSE g \in first : TRUE

\* the grant for claim o: the one that it holds, else the oldest approved one
Candidate(gs, ord, o) ==
  IF HeldBy(gs, o) # {} THEN Oldest(ord, HeldBy(gs, o))
  ELSE Oldest(ord, {g \in Keys : gs[g].status = "approved"} \ overdue)
-----------------------------------------------------------------------------
(* The employee's page.                                                    *)

\* request_extra_claim: a request while there is no open one
Ask(k) ==
  /\ requests[k].status = "absent" /\ \A j \in 1..(k - 1) : requests[j].status # "absent"
  /\ Active(requests) = {}
  /\ requests' = [requests EXCEPT ![k].status = "queued"]
  /\ outbox' = [outbox EXCEPT ![Request(k)] = {"queued"}]
  /\ UNCHANGED <<grants, order, claims, deals, post, baza, shape, faults, shown>>

\* the state without asking Baza
Look ==
  /\ Lapsed(grants) # {} /\ Expire(requests, grants)
  /\ UNCHANGED <<order, outbox, claims, deals, post, baza, shape, faults, shown>>

Calls(t, call) == post' = [post EXCEPT ![t] = call]

\* the answer to grants/query as it is now
State == [pc |-> "answered", about |-> None,
          answer |-> Answer("ok", latest, IF latest = None THEN "none" ELSE remote[latest])]

Query ==
  /\ post["page"] = Idle
  /\ Calls("page", State)
  /\ UNCHANGED <<books, outbox, claims, deals, baza, shape, faults, shown>>

\* refresh_extra_claim_state for the page, under no fence
Refresh ==
  /\ post["page"].pc = "answered" /\ post["page"].about = None
  /\ Import(post["page"].answer)
  /\ Calls("page", Idle)
  /\ shown' = IF \E o \in Ops : claims[o] = "checked" THEN Keys ELSE shown
  /\ UNCHANGED <<outbox, claims, deals, baza, shape, faults>>
-----------------------------------------------------------------------------
(* Delivery of the outbox, by the loop and by the page.                    *)

Due(i) == outbox[i] = {"queued"}

\* list_due_outbox of the loop: a request that is due.  Back-off and the order
\* of a batch are left open; the page may deliver it before the loop comes to it.
List(k) ==
  /\ post["loop"] = Idle /\ Due(Request(k))
  /\ Calls("loop", [Idle EXCEPT !.pc = "listed", !.about = Request(k)])
  /\ UNCHANGED <<books, outbox, claims, deals, baza, shape, faults, shown>>

\* The page sends just its own request, and the loop alone sends claim events:
\* they are due when they are sent.
Sends(t, i) == \/ t = "loop" /\ post[t].pc = "listed" /\ post[t].about = i
               \/ t = "loop" /\ i[1] = "claim" /\ post[t] = Idle /\ Due(i)
               \/ t = "page" /\ i[1] = "request" /\ post[t] = Idle /\ Due(i)

Gets(t, i, a) == Calls(t, [pc |-> "answered", about |-> i, answer |-> a])

\* Baza answers.  Without an answer, and after a 5xx, mark_outbox_failed leaves
\* the item due, whether or not Baza did what it was asked.
Reply(t, i, a) ==
  /\ Sends(t, i)
  /\ \/ Gets(t, i, a) /\ UNCHANGED faults
     \/ Calls(t, Idle) /\ Fault
  /\ UNCHANGED <<books, outbox, claims, deals, overdue, shape, shown>>

\* pending and approved requests of Baza
Undecided == {e \in Keys : remote[e] \in {"pending", "approved"}}

Create(t, k) ==
  /\ remote[k] = "none" /\ Undecided = {}
  /\ Reply(t, Request(k), Answer("ok", k, "pending"))
  /\ remote' = [remote EXCEPT ![k] = "pending"] /\ latest' = k
  /\ UNCHANGED spentFor

\* the same requestKey again
Repeat(t, k) ==
  /\ remote[k] # "none"
  /\ Reply(t, Request(k), Answer("ok", k, remote[k]))
  /\ UNCHANGED <<remote, spentFor, latest>>

Conflict(t, k) ==
  /\ remote[k] = "none"
  /\ \E e \in Undecided : Reply(t, Request(k), Answer("active_request_exists", e, remote[e]))
  /\ UNCHANGED <<remote, spentFor, latest>>

\* a claim event uses the grant up; the same event again changes nothing, and
\* a grant that is not approved any more is not available
Spend(t, o) ==
  \E g \in Keys :
    /\ grants[g].op = o
    /\ IF remote[g] = "approved"
       THEN /\ Reply(t, Event(o), Answer("ok", g, "consumed"))
            /\ remote' = [remote EXCEPT ![g] = "consumed"]
            /\ spentFor' = [spentFor EXCEPT ![g] = o]
       ELSE /\ Reply(t, Event(o), Answer(IF spentFor[g] = o THEN "ok" ELSE "grant_unavailable",
                                         g, remote[g]))
            /\ UNCHANGED <<remote, spentFor>>
    /\ UNCHANGED latest

\* a 4xx that is final, of Baza or of what stands before it
Refuse(t, i) ==
  /\ Sends(t, i) /\ Fault
  /\ Gets(t, i, Answer("refused", None, "none"))
  /\ UNCHANGED <<books, outbox, claims, deals, baza, shape, shown>>

\* the mark that follows in a transaction of its own; the process may stop before
Mark(i, flags) ==
  \/ outbox' = [outbox EXCEPT ![i] = flags] /\ UNCHANGED faults
  \/ Fault /\ UNCHANGED outbox

Delivered(i) == Mark(i, outbox[i] \cup {"delivered"})
Buried(i) == Mark(i, IF "delivered" \in outbox[i] THEN outbox[i] ELSE outbox[i] \cup {"dead"})

\* t has the answer to item i, of one of these codes
Answered(t, i, codes) ==
  /\ post[t].pc = "answered" /\ post[t].about = i /\ post[t].answer.code \in codes
  /\ Calls(t, Idle)
  /\ UNCHANGED <<grants, order, claims, deals, baza, shape, shown>>

\* apply_extra_claim_request_response, also with the open request of a 409
Adopt(t, k) ==
  LET a == post[t].answer
  IN /\ Answered(t, Request(k), {"ok", "active_request_exists"})
     /\ ~Taken(k, a.id)
     /\ requests' = Merged(k, a.id, a.status)
     /\ Delivered(Request(k))

\* the remote request belongs to another row, or the row to another remote
\* request: the exception leaves the item due
Postpone(t, k) ==
  /\ Answered(t, Request(k), {"ok", "active_request_exists"})
  /\ Taken(k, post[t].answer.id)
  /\ UNCHANGED <<requests, outbox, faults>>

Exported(t, o) ==
  /\ Answered(t, Event(o), {"ok"})
  /\ Delivered(Event(o))
  /\ UNCHANGED requests

\* reject_extra_claim_request_locally and the dead letter
Bury(t, i) ==
  /\ Answered(t, i, {"refused", "grant_unavailable"})
  /\ requests' = IF i[1] = "request" /\ requests[i[2]].status \in {"queued", "pending"}
                 THEN [requests EXCEPT ![i[2]].status = "rejected"] ELSE requests
  /\ Buried(i)

Receive(t) ==
  \/ \E k \in Keys : Create(t, k) \/ Repeat(t, k) \/ Conflict(t, k)
  \/ \E o \in Ops : Spend(t, o)
  \/ \E i \in Items : Refuse(t, i)
Handle(t) ==
  \/ \E k \in Keys : Adopt(t, k) \/ Postpone(t, k)
  \/ \E o \in Ops : Exported(t, o)
  \/ \E i \in Items : Bury(t, i)
-----------------------------------------------------------------------------
(* Claims above the limit: one at a time, because of the employee's fence  *)
(* and because an unresolved claim blocks him.                             *)

IsNext(o) == \A p \in 1..(o - 1) : claims[p] = "done"

\* check_manager_access finds a grant; then the last question to Baza.  The
\* attempt before was not applied, as far as the deal shows.
ClaimAsk(o) ==
  /\ claims[o] \in {"open", "held"} /\ o \notin applied \cup moved
  /\ IsNext(o) /\ Candidate(grants, order, o) # None
  /\ claims' = [claims EXCEPT ![o] = "asking"]
  /\ Calls("claim", State)
  /\ UNCHANGED <<books, outbox, deals, baza, shape, faults, shown>>

\* a claim that ends without a write keeps the grant that it holds
AtRest(gs, o) == IF HeldBy(gs, o) # {} THEN "held" ELSE "open"

\* mutant: the grant in the books is enough
AnyGrant(g, a) == g # None

\* "authoritativeGrantAvailable"
Authoritative(g, a) == g \in Listed(a)

ClaimCheck(o) ==
  LET a == post["claim"].answer
  IN /\ claims[o] = "asking"
     /\ Import(a)
     /\ claims' = [claims EXCEPT ![o] =
                     IF ~Raises(a) /\ Authoritative(Candidate(grants', order', o), a)
                     THEN "checked" ELSE AtRest(grants', o)]
     /\ shown' = IF claims'[o] = "checked" THEN Listed(a) ELSE {}
     /\ Calls("claim", Idle)
     /\ UNCHANGED <<outbox, deals, baza, shape, faults>>

\* without an answer nothing is written
ClaimUnanswered(o) ==
  /\ claims[o] = "asking"
  /\ claims' = [claims EXCEPT ![o] = AtRest(grants, o)]
  /\ Calls("claim", Idle)
  /\ UNCHANGED <<books, outbox, deals, baza, shape, faults, shown>>

\* begin_claim_operation and its retries take the grant; older ones that have
\* passed their time expire.  The new attempt's marker gives up what the attempt
\* before it may have on its way: to land, it moves the deal of claim o (Moved).
Reserve(o) ==
  LET g == Candidate(grants, order, o)
      passed == {h \in Lapsed(grants) : \E i, j \in 1..Len(order) :
                                          i < j /\ order[i] = h /\ order[j] = g}
  IN /\ claims[o] = "checked"
     /\ claims' = [claims EXCEPT ![o] = IF g = None THEN "open" ELSE "reserved"]
     /\ IF g = None \/ g \in HeldBy(grants, o) THEN UNCHANGED <<requests, grants>>
        ELSE /\ requests' = RequestsWithout(requests, grants, passed)
             /\ grants' = [GrantsWithout(grants, passed) EXCEPT ![g].status = "reserved", ![g].op = o]
     /\ late' = late \ {o}
     /\ UNCHANGED <<order, outbox, applied, moved, strays, post, baza, shape, faults, shown>>

\* the check before the write passed, and nothing was sent yet
MaySend(o) == claims[o] = "reserved" /\ o \notin applied \cup late \cup moved

\* crm.deal.update, applied
Write(o) ==
  /\ MaySend(o)
  /\ applied' = applied \cup {o}
  /\ shown' = {}
  /\ UNCHANGED <<books, outbox, claims, late, moved, strays, post, baza, shape, faults>>

\* crm.deal.update without an answer, which Bitrix may still apply.  One that is
\* lost for good changes nothing: Hold alone.
Delay(o) ==
  /\ MaySend(o) /\ Fault
  /\ late' = late \cup {o}
  /\ shown' = {}
  /\ UNCHANGED <<books, outbox, claims, applied, moved, strays, post, baza, shape>>

\* the outcome is not known: the operation keeps its grant
Hold(o) ==
  /\ claims[o] = "reserved"
  /\ claims' = [claims EXCEPT ![o] = "held"]
  /\ shown' = {}
  /\ UNCHANGED <<books, outbox, deals, post, baza, shape, faults>>

\* finalize_claim_operation, by the claim or by the sweep, which find the marker
\* of the present attempt in the deal
Finalize(o) ==
  /\ claims[o] \in {"reserved", "held"} /\ o \in applied \ moved
  /\ \E g \in HeldBy(grants, o) :
       /\ grants' = [grants EXCEPT ![g].status = "consumed"]
       /\ requests' = IF grants[g].row = None THEN requests
                      ELSE [requests EXCEPT ![grants[g].row].status = "consumed"]
  /\ claims' = [claims EXCEPT ![o] = "done"]
  /\ outbox' = [outbox EXCEPT ![Event(o)] = {"queued"}]
  /\ UNCHANGED <<order, deals, post, baza, shape, faults, shown>>

\* the requests after fail_claim_operation gave grant g back
RequestsBack(g) ==
  IF grants[g].row = None \/ requests[grants[g].row].status \in {"consumed", "expired"} THEN requests
  ELSE [requests EXCEPT ![grants[g].row].status = "approved"]

\* the check before the write fails, or the sweep finds the source deal unchanged
Unapplied(o) ==
  \/ claims[o] = "reserved" /\ o \notin applied \cup late
  \/ claims[o] = "held" /\ o \notin applied \cup moved

\* fail_claim_operation gives the grant back.  What the sweep saw of the deal
\* says nothing of an update on its way, which is given up.  The unique index of
\* open requests may refuse the release: the operation and the grant stay.
Release(o) ==
  /\ Unapplied(o)
  /\ \E g \in HeldBy(grants, o) :
       /\ Cardinality(Active(RequestsBack(g))) <= 1
       /\ requests' = RequestsBack(g)
       /\ grants' = [grants EXCEPT ![g].status = "approved", ![g].op = None]
  /\ claims' = [claims EXCEPT ![o] = "open"]
  /\ late' = late \ {o} /\ moved' = moved \ {o}
  /\ stray' = IF o \in late THEN stray + 1 ELSE stray
  /\ shown' = {}
  /\ UNCHANGED <<order, outbox, applied, unpaid, post, baza, shape, faults>>
-----------------------------------------------------------------------------
(* The surroundings.                                                       *)

\* Bitrix applies a late update.  One that lands while the claim asks again is
\* left to Land before or after and to Moved: nothing in between looks at the deal.
Land(o) ==
  /\ claims[o] \in {"reserved", "held"} /\ o \in late
  /\ late' = late \ {o} /\ applied' = applied \cup {o} /\ moved' = moved \ {o}
  /\ UNCHANGED <<books, outbox, claims, strays, post, baza, shape, faults, shown>>

\* Bitrix applies an update that was given up: no open operation answers for it.
LandStray ==
  /\ stray > 0
  /\ stray' = stray - 1 /\ unpaid' = unpaid + 1
  /\ UNCHANGED <<books, outbox, claims, applied, late, moved, post, baza, shape, faults, shown>>

\* People, or the late update of an older attempt of the same claim, change the
\* deal: it is not the source any more, or carries another marker.
Moved(o) ==
  /\ claims[o] \in {"reserved", "held"} /\ o \notin moved /\ Fault
  /\ moved' = moved \cup {o}
  /\ UNCHANGED <<books, outbox, claims, applied, late, strays, post, baza, shape, shown>>

Decide(e) ==
  /\ remote[e] = "pending"
  /\ \E s \in {"approved", "rejected"} : remote' = [remote EXCEPT ![e] = s]
  /\ UNCHANGED <<books, outbox, claims, deals, post, spentFor, latest, overdue, shape, faults, shown>>

\* an approved request is withdrawn, or passes its time
Withdraw(e) ==
  /\ remote[e] = "approved"
  /\ remote' = [remote EXCEPT ![e] = "expired"]
  /\ overdue' = overdue \cup ({e} \cap Expiring)
  /\ UNCHANGED <<books, outbox, claims, deals, post, spentFor, latest, shape, faults, shown>>

Crash ==
  /\ Fault
  /\ post' = [t \in Threads |-> Idle]
  /\ claims' = [o \in Ops |-> IF claims[o] \in {"asking", "checked"} THEN AtRest(grants, o)
                              ELSE IF claims[o] = "reserved" THEN "held" ELSE claims[o]]
  /\ shown' = {}
  /\ UNCHANGED <<books, outbox, deals, baza, shape>>

Loop == (\E k \in Keys : List(k)) \/ Receive("loop") \/ Handle("loop")
Page == Look \/ Query \/ Refresh \/ Receive("page") \/ Handle("page")
Claim(o) == ClaimAsk(o) \/ ClaimCheck(o) \/ ClaimUnanswered(o) \/ Reserve(o) \/ Write(o) \/ Delay(o)
            \/ Hold(o)
Close(o) == Finalize(o) \/ Release(o)
Deal(o) == Land(o) \/ Moved(o)

Next ==
  \/ \E k \in Keys : Ask(k) \/ Decide(k) \/ Withdraw(k)
  \/ Loop \/ Page \/ Crash
  \/ \E o \in Ops : Claim(o) \/ Close(o) \/ Deal(o)
  \/ LandStray

Spec == Init /\ [][Next]_vars

\* The loop and the sweep come round for ever and each call ends, in doubt if in
\* no other way.  Employees, the director and Baza need never do anything, and
\* Bitrix need not apply what is on its way.
FairSpec ==
  /\ Spec
  /\ WF_vars(\E o \in Ops : Hold(o))
  /\ WF_vars(Loop) /\ SF_vars(\E o \in Ops : Spend("loop", o))
  /\ SF_vars(\E o \in Ops : Close(o))
-----------------------------------------------------------------------------
EverApproved == {e \in Keys : remote[e] \in {"approved", "consumed", "expired"}}

\* "Terminal local evidence must never be revived": a grant pays for one claim,
\* here and in Baza, whatever late or repeated answers are merged.  A claim that
\* was written keeps its grant, in doubt or recorded, and the claims written never
\* exceed the grants that the director approved.  This counts late writes that
\* land while their attempt is open.  An update that lands after its attempt was
\* given up, by the sweep or by a retry, is not counted: with those (unpaid), two
\* claims may be written on one grant.
PaidOnce ==
  /\ \A o \in applied : \E g \in Keys : grants[g].op = o
  /\ Cardinality(applied) <= Cardinality(EverApproved)
  /\ \A e \in Keys : spentFor[e] # None => grants[e].status = "consumed" /\ grants[e].op = spentFor[e]

\* claims whose present attempt has sent its update
Sent == applied \cup late

\* Nothing is sent on a grant that only the books know: a claim that sends its
\* update had been shown its grant by Baza, unless an answer to the page was
\* merged between its question and its reservation.
Authorized ==
  [][\A o \in Sent' \ Sent : HeldBy(grants, o) \subseteq shown]_vars

\* fail_claim_operation is refused by the index of open requests
Refused(o) ==
  Unapplied(o) /\ \A g \in HeldBy(grants, o) : Cardinality(Active(RequestsBack(g))) > 1

\* Everything is told and settled in the end: claim events leave the outbox, a
\* request does unless Baza has another open one or the books bound it wrongly,
\* and no claim stays open unless the index refuses its release or its deal was
\* changed, which is left to the administrator.
Settled ==
  []<>(/\ \A o \in Ops : /\ ~Due(Event(o))
                        /\ claims[o] \in {"reserved", "held"} => Refused(o) \/ o \in moved
       /\ \A k \in Keys : Due(Request(k)) => Undecided \ {k} # {} \/ Taken(k, k))
=============================================================================
