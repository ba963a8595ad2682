----------------------------- MODULE ClaimLocks -----------------------------
(***************************************************************************)
(* The process-local claim fences of claim_locks.py and the code in app.py *)
(* that runs under them.  ClaimLocks keeps one reference-counted           *)
(* threading.Lock per manager and per deal; hold() registers all keys at   *)
(* once, acquires managers in sorted order and the deal last, and releases *)
(* in reverse.  hold_claim_operation() re-reads the owner of the operation *)
(* after acquiring and starts over when that owner is not fenced.          *)
(*                                                                         *)
(* A lock object is named by its key and the thread whose setdefault       *)
(* created it.  The invariant RefCounted shows that a name is used again   *)
(* only when nobody refers to the object that had it before.               *)
(***************************************************************************)
EXTENDS Integers, FiniteSets

CONSTANTS Threads,      \* threads of one server process
          Managers,     \* employee identities, ordered as sorted() orders them
          Deals,        \* deal identities (one operation key each)
          MaxRequests,  \* bound: calls each thread makes
          None          \* Python's None, "no entry", "unlocked"

ASSUME ThreadsAssumption == IsFiniteSet(Threads) /\ None \notin Threads
ASSUME KeysAssumption == /\ Managers \subseteq Int
                         /\ Managers \cap Deals = {}
                         /\ None \notin Managers \cup Deals
ASSUME BoundAssumption == MaxRequests \in Nat

Keys == Managers \cup Deals
Locations == {"idle", "register", "acquire", "locked", "write", "release", "restart"}
Releasing == {"release", "restart"}   \* the finally block, and what follows it
Requests == [kind : {"claim", "reconcile", "reject"}, manager : Managers, deal : Deals]
              \cup [kind : {"admin"}, manager : Managers, deal : {None}]

VARIABLES
  entry,    \* ClaimLocks._entries: key -> creator of its lock, or None
  refs,     \* the count kept beside that lock
  holder,   \* key -> creator -> thread that has the lock, or None
  grip,     \* hold()'s list of entries: thread -> key -> creator, or None
  got,      \* hold()'s list of acquired locks, as the set of their keys
  pc, req,  \* where a thread is and the call it serves
  fence,    \* the manager identities passed to hold()
  left,     \* calls a thread may still make
  opOwner,  \* managerId of the deal's claim operation, None before begin
  rule      \* manager rule "enabled"

lockVars == <<entry, refs, holder, grip, got>>
vars == <<entry, refs, holder, grip, got, pc, req, fence, left, opOwner, rule>>

Want(t) == fence[t] \cup ({req[t].deal} \ {None})

\* sorted(managers), then the deal: the first key of ks in hold()'s order
IsFirst(k, ks) == \/ k \in Managers /\ \A j \in ks \cap Managers : k <= j
                  \/ k \in Deals /\ ks \cap Managers = {}

\* the reverse of that order, used by the finally block
IsLast(k, ks) == \/ k \in Deals
                 \/ k \in Managers /\ ks \cap Deals = {} /\ \A j \in ks \cap Managers : j <= k

TypeOK ==
  /\ entry \in [Keys -> Threads \cup {None}]
  /\ refs \in [Keys -> Nat]
  /\ holder \in [Keys -> [Threads -> Threads \cup {None}]]
  /\ grip \in [Threads -> [Keys -> Threads \cup {None}]]
  /\ got \in [Threads -> SUBSET Keys]
  /\ pc \in [Threads -> Locations]
  /\ req \in [Threads -> Requests]
  /\ fence \in [Threads -> SUBSET Managers]
  /\ left \in [Threads -> 0..MaxRequests]
  /\ opOwner \in [Deals -> Managers \cup {None}]
  /\ rule \in [Managers -> BOOLEAN]

Init ==
  /\ entry = [k \in Keys |-> None]
  /\ refs = [k \in Keys |-> 0]
  /\ holder = [k \in Keys |-> [t \in Threads |-> None]]
  /\ grip = [t \in Threads |-> [k \in Keys |-> None]]
  /\ got = [t \in Threads |-> {}]
  /\ pc = [t \in Threads |-> "idle"]
  /\ \E m \in Managers : req = [t \in Threads |-> [kind |-> "admin", manager |-> m, deal |-> None]]
  /\ fence = [t \in Threads |-> {}]
  /\ left = [t \in Threads |-> MaxRequests]
  /\ opOwner = [d \in Deals |-> None]
  /\ rule = [m \in Managers |-> TRUE]

Goto(t, l) == pc' = [pc EXCEPT ![t] = l]
-----------------------------------------------------------------------------
(* The callers: preview_claim, reconcile_stale_claim_operations,           *)
(* record_rejection and the manager-rule endpoint.                         *)

Start(t, r, f) ==
  /\ pc[t] = "idle" /\ left[t] > 0
  /\ left' = [left EXCEPT ![t] = @ - 1]
  /\ req' = [req EXCEPT ![t] = r]
  /\ fence' = [fence EXCEPT ![t] = f]
  /\ Goto(t, "register")
  /\ UNCHANGED <<lockVars, opOwner, rule>>

\* mutant: only the owner of an older attempt is fenced
CallClaimOwnerOnly(t, m, d) ==
  Start(t, [kind |-> "claim", manager |-> m, deal |-> d],
        IF opOwner[d] = None THEN {m} ELSE {opOwner[d]})

\* hold_claim_operation: the owner is read once before the locks are taken
CallClaim(t, m, d) ==
  Start(t, [kind |-> "claim", manager |-> m, deal |-> d], {m} \cup ({opOwner[d]} \ {None}))

\* the sweep lists an operation and locks the manager it listed
CallReconcile(t, d) ==
  /\ opOwner[d] # None
  /\ Start(t, [kind |-> "reconcile", manager |-> opOwner[d], deal |-> d], {opOwner[d]})

CallReject(t, m, d) == Start(t, [kind |-> "reject", manager |-> m, deal |-> d], {m})

CallAdmin(t, m) == Start(t, [kind |-> "admin", manager |-> m, deal |-> None], {m})
-----------------------------------------------------------------------------
(* ClaimLocks.hold                                                         *)

\* the keys whose count goes up: a waiting holder keeps a reference too
Counted(t) == Want(t)

\* one registry-lock section: setdefault every key and count a reference
Register(t) ==
  /\ pc[t] = "register"
  /\ LET new == {k \in Want(t) : entry[k] = None}
         now == [k \in Keys |-> IF k \in new THEN t ELSE entry[k]]
     IN /\ entry' = now
        /\ holder' = [k \in Keys |-> IF k \in new THEN [holder[k] EXCEPT ![t] = None]
                                                  ELSE holder[k]]
        /\ grip' = [grip EXCEPT ![t] = [k \in Keys |-> IF k \in Want(t) THEN now[k] ELSE None]]
  /\ refs' = [k \in Keys |-> IF k \in Counted(t) THEN refs[k] + 1 ELSE refs[k]]
  /\ Goto(t, "acquire")
  /\ UNCHANGED <<got, req, fence, left, opOwner, rule>>

\* entry[0].acquire() of the next key; the last one opens the body
Acquire(t) ==
  /\ pc[t] = "acquire"
  /\ \E k \in Want(t) \ got[t] :
       /\ IsFirst(k, Want(t) \ got[t])
       /\ holder[k][grip[t][k]] = None
       /\ holder' = [holder EXCEPT ![k][grip[t][k]] = t]
       /\ got' = [got EXCEPT ![t] = @ \cup {k}]
       /\ Goto(t, IF Want(t) \ got[t] = {k} THEN "locked" ELSE "acquire")
  /\ UNCHANGED <<entry, refs, grip, req, fence, left, opOwner, rule>>

\* finally: release the acquired locks in reverse order
Release(t) ==
  /\ pc[t] \in Releasing
  /\ \E k \in got[t] :
       /\ IsLast(k, got[t])
       /\ holder' = [holder EXCEPT ![k][grip[t][k]] = None]
       /\ got' = [got EXCEPT ![t] = @ \ {k}]
  /\ UNCHANGED <<entry, refs, grip, pc, req, fence, left, opOwner, rule>>

Gripped(t) == {k \in Keys : grip[t][k] # None}

\* mutant: the first thread that leaves deletes the entry
AnyReference(k) == TRUE

LastReference(k) == refs[k] = 1

Dropped(t) == Gripped(t)

\* finally: drop the references, delete an entry nobody counts any more.
\* A claim whose owner was not fenced loops with the owner it read instead.
Unregister(t) ==
  /\ pc[t] \in Releasing /\ got[t] = {}
  /\ refs' = [k \in Keys |-> IF k \in Dropped(t) THEN refs[k] - 1 ELSE refs[k]]
  /\ entry' = [k \in Keys |-> IF k \in Dropped(t) /\ LastReference(k) THEN None ELSE entry[k]]
  /\ grip' = [grip EXCEPT ![t] = [k \in Keys |-> None]]
  /\ Goto(t, IF pc[t] = "restart" THEN "register" ELSE "idle")
  /\ UNCHANGED <<holder, got, req, fence, left, opOwner, rule>>
-----------------------------------------------------------------------------
(* The critical sections.                                                  *)

\* mutant: the loop starts over without taking the new owner along
SameFence(t) == fence[t]

MovedFence(t) == {req[t].manager, opOwner[req[t].deal]}

\* hold_claim_operation re-reads the owner: not fenced, release and restart
RereadMoved(t) ==
  /\ pc[t] = "locked" /\ req[t].kind = "claim"
  /\ opOwner[req[t].deal] \notin fence[t] \cup {None}
  /\ fence' = [fence EXCEPT ![t] = MovedFence(t)]
  /\ Goto(t, "restart")
  /\ UNCHANGED <<lockVars, req, left, opOwner, rule>>

\* the body's own checks: a claim needs an enabled rule, the sweep acts only
\* for the owner it listed, a rejection and a rule change just go on
MayProceed(t) ==
  CASE req[t].kind = "claim" -> rule[req[t].manager]
    [] req[t].kind = "reconcile" -> opOwner[req[t].deal] = req[t].manager
    [] OTHER -> TRUE

\* mutant: the owner read before the locks is trusted
TrustFirstRead(t) == TRUE

\* the re-read found no owner, or one that is fenced
OwnerSettled(t) == req[t].kind = "claim" => opOwner[req[t].deal] \in fence[t] \cup {None}

Enter(t) ==
  /\ pc[t] = "locked" /\ OwnerSettled(t)
  /\ Goto(t, IF MayProceed(t) THEN "write" ELSE "release")
  /\ UNCHANGED <<lockVars, req, fence, left, opOwner, rule>>

\* an early return or an exception inside the body
GiveUp(t) ==
  /\ pc[t] = "write" /\ Goto(t, "release")
  /\ UNCHANGED <<lockVars, req, fence, left, opOwner, rule>>

\* begin or reassign makes the claimant the owner; a recovery of another
\* manager's attempt keeps the owner
WriteClaim(t) ==
  /\ pc[t] = "write" /\ req[t].kind = "claim"
  /\ \/ opOwner' = [opOwner EXCEPT ![req[t].deal] = req[t].manager]
     \/ opOwner[req[t].deal] # None /\ UNCHANGED opOwner
  /\ Goto(t, "release")
  /\ UNCHANGED <<lockVars, req, fence, left, rule>>

WriteRule(t) ==
  /\ pc[t] = "write" /\ req[t].kind = "admin"
  /\ \E b \in BOOLEAN : rule' = [rule EXCEPT ![req[t].manager] = b]
  /\ Goto(t, "release")
  /\ UNCHANGED <<lockVars, req, fence, left, opOwner>>
-----------------------------------------------------------------------------
Call(t) == \/ \E m \in Managers, d \in Deals : CallClaim(t, m, d) \/ CallReject(t, m, d)
           \/ \E d \in Deals : CallReconcile(t, d)
           \/ \E m \in Managers : CallAdmin(t, m)

Run(t) == \/ Register(t) \/ Acquire(t) \/ Release(t) \/ Unregister(t)
          \/ RereadMoved(t) \/ Enter(t) \/ GiveUp(t) \/ WriteClaim(t) \/ WriteRule(t)

Finished == /\ \A t \in Threads : pc[t] = "idle" /\ left[t] = 0
            /\ UNCHANGED vars

Next == (\E t \in Threads : Call(t) \/ Run(t)) \/ Finished

Spec == Init /\ [][Next]_vars

\* A started call keeps running; threading.Lock promises no order to waiters.
FairSpec == Spec /\ \A t \in Threads : WF_vars(Run(t))
-----------------------------------------------------------------------------
InBody(t) == pc[t] \in {"locked", "write"}

\* Two threads inside hold() bodies never share a manager or a deal, although
\* entries are deleted and lock objects replaced (claim_locks.py hold).
MutualExclusion ==
  \A t, u \in Threads : t # u /\ InBody(t) /\ InBody(u) => Want(t) \cap Want(u) = {}

\* "Waiting holders keep references too": the registry has an entry exactly
\* for the keys some thread refers to, every reference is to the registered
\* lock, the count is the number of referring threads, so nothing leaks.
Referring(k) == {t \in Threads : grip[t][k] # None}
RefCounted ==
  \A k \in Keys : /\ refs[k] = Cardinality(Referring(k))
                  /\ entry[k] = None <=> Referring(k) = {}
                  /\ \A t \in Referring(k) : grip[t][k] = entry[k]

\* Code that acts on a claim operation has fenced the operation's owner, even
\* when another claimant took the operation over while it waited.
OwnerFenced ==
  \A t \in Threads : pc[t] = "write" /\ req[t].kind \in {"claim", "reconcile"}
                       => opOwner[req[t].deal] \in fence[t] \cup {None}

\* "Once the administrator receives a successful disable response, no
\* operation that passed the old rule can still be waiting to write Bitrix."
DisableFence ==
  \A t \in Threads : pc[t] = "write" /\ req[t].kind = "claim" => rule[req[t].manager]

\* Every started call ends: manager locks are sorted and never taken from
\* inside a deal section, so that nobody waits in a circle, and the re-read loop of
\* hold_claim_operation settles once other claimants stop moving the owner.
CallsEnd == \A t \in Threads : pc[t] # "idle" ~> pc[t] = "idle"
=============================================================================
