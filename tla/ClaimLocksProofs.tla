-------------------------- MODULE ClaimLocksProofs --------------------------
(***************************************************************************)
(* Proofs about ClaimLocks for any finite set of threads, any employees    *)
(* and deals and any number of calls: the registry counts its references   *)
(* exactly, and hold() bodies that share a key exclude each other.         *)
(***************************************************************************)
EXTENDS ClaimLocks, FiniteSetTheorems, TLAPS

\* What hold() keeps true of each thread: outside a call it refers to no
\* entry; from registration on it refers to the entries of its keys; what it
\* acquired it holds under the lock it refers to; a body holds every key.
HoldInv ==
  \A t \in Threads :
    /\ pc[t] \in {"idle", "register"} => Gripped(t) = {} /\ got[t] = {}
    /\ pc[t] \in {"acquire", "locked", "write"} => Gripped(t) = Want(t)
    /\ InBody(t) => got[t] = Want(t)
    /\ got[t] \subseteq Gripped(t)
    /\ \A k \in got[t] : holder[k][grip[t][k]] = t

IInv == TypeOK /\ RefCounted /\ HoldInv

\* The keys of a call are keys: the fence holds employees, the deal is a deal.
LEMMA WantType ==
  ASSUME TypeOK, NEW t \in Threads
  PROVE  Want(t) \subseteq Keys
BY DEF TypeOK, Want, Keys, Requests

\* A key a thread acquired is registered, under the lock that thread holds.
LEMMA GotRegistered ==
  ASSUME IInv, NEW u \in Threads, NEW j \in got[u]
  PROVE  /\ j \in Keys /\ grip[u][j] \in Threads /\ holder[j][grip[u][j]] = u
         /\ entry[j] # None /\ grip[u][j] = entry[j]
<1>1. j \in Gripped(u) /\ holder[j][grip[u][j]] = u
  BY DEF IInv, HoldInv
<1>2. j \in Keys /\ grip[u][j] \in Threads /\ u \in Referring(j)
  BY <1>1 DEF IInv, TypeOK, Gripped, Referring
<1>3. entry[j] # None /\ grip[u][j] = entry[j]
  BY <1>2 DEF IInv, RefCounted
<1> QED
  BY <1>1, <1>2, <1>3

LEMMA RefCountedKept ==
  ASSUME RefCounted, UNCHANGED <<entry, refs, grip>>
  PROVE  RefCounted'
BY DEF RefCounted, Referring

\* A new call of a thread that is outside hold().
LEMMA StartStep ==
  ASSUME IInv, NEW t \in Threads, NEW r \in Requests, NEW f \in SUBSET Managers, Start(t, r, f)
  PROVE  IInv'
<1>1. TypeOK'
  BY BoundAssumption DEF IInv, TypeOK, Start, Goto, lockVars, Locations
<1>2. RefCounted'
  BY RefCountedKept DEF IInv, Start, lockVars
<1>3. HoldInv'
  BY DEF IInv, TypeOK, HoldInv, Start, Goto, lockVars, Gripped, Want, InBody
<1> QED
  BY <1>1, <1>2, <1>3 DEF IInv

\* Registering takes a reference to every key of the call.  A new lock object
\* is free, and nobody can have acquired it: its key had no referring thread.
LEMMA RegisterStep ==
  ASSUME IInv, NEW t \in Threads, Register(t)
  PROVE  IInv'
<1> DEFINE new == {k \in Want(t) : entry[k] = None}
           now == [k \in Keys |-> IF k \in new THEN t ELSE entry[k]]
<1>1. /\ pc[t] = "register" /\ Gripped(t) = {} /\ got[t] = {}
      /\ entry' = now
      /\ holder' = [k \in Keys |-> IF k \in new THEN [holder[k] EXCEPT ![t] = None]
                                                ELSE holder[k]]
      /\ grip' = [grip EXCEPT ![t] = [k \in Keys |-> IF k \in Want(t) THEN now[k] ELSE None]]
      /\ refs' = [k \in Keys |-> IF k \in Want(t) THEN refs[k] + 1 ELSE refs[k]]
      /\ pc' = [pc EXCEPT ![t] = "acquire"]
      /\ UNCHANGED <<got, req, fence, left, opOwner, rule>>
  BY DEF IInv, HoldInv, Register, Counted, Goto
<1>2. Want(t) \subseteq Keys
  BY WantType DEF IInv
<1>3. TypeOK'
  BY <1>1, <1>2 DEF IInv, TypeOK, Locations
<1>4. RefCounted'
  <2> SUFFICES ASSUME NEW k \in Keys
               PROVE  /\ refs'[k] = Cardinality(Referring(k)')
                      /\ entry'[k] = None <=> Referring(k)' = {}
                      /\ \A u \in Referring(k)' : grip'[u][k] = entry'[k]
    BY DEF RefCounted
  <2>1. CASE k \in Want(t)
    <3>1. now[k] \in Threads /\ now[k] # None
      BY <2>1, ThreadsAssumption DEF IInv, TypeOK
    <3>2. t \notin Referring(k) /\ Referring(k)' = Referring(k) \cup {t}
      BY <1>1, <2>1, <3>1 DEF IInv, TypeOK, Referring, Gripped
    <3>3. Cardinality(Referring(k)') = Cardinality(Referring(k)) + 1
      BY <3>2, ThreadsAssumption, FS_Subset, FS_AddElement DEF Referring
    <3>4. refs'[k] = Cardinality(Referring(k)')
      BY <1>1, <2>1, <3>3 DEF IInv, RefCounted
    <3>5. \A u \in Referring(k)' : grip'[u][k] = entry'[k]
      <4>1. CASE entry[k] = None
        BY <1>1, <2>1, <3>2, <4>1 DEF IInv, TypeOK, RefCounted
      <4>2. CASE entry[k] # None
        BY <1>1, <2>1, <3>2, <4>2 DEF IInv, TypeOK, RefCounted
      <4> QED
        BY <4>1, <4>2
    <3> QED
      BY <1>1, <2>1, <3>1, <3>2, <3>4, <3>5
  <2>2. CASE k \notin Want(t)
    <3>1. Referring(k)' = Referring(k)
      BY <1>1, <2>2 DEF IInv, TypeOK, Referring, Gripped
    <3>2. refs'[k] = refs[k] /\ entry'[k] = entry[k]
      BY <1>1, <2>2
    <3>3. \A u \in Referring(k) : grip'[u][k] = grip[u][k]
      BY <1>1, <2>2 DEF IInv, TypeOK, Referring, Gripped
    <3> QED
      BY <3>1, <3>2, <3>3 DEF IInv, RefCounted
  <2> QED
    BY <2>1, <2>2
<1>5. HoldInv'
  <2> SUFFICES ASSUME NEW u \in Threads
               PROVE  /\ pc'[u] \in {"idle", "register"} => Gripped(u)' = {} /\ got'[u] = {}
                      /\ pc'[u] \in {"acquire", "locked", "write"} => Gripped(u)' = Want(u)'
                      /\ InBody(u)' => got'[u] = Want(u)'
                      /\ got'[u] \subseteq Gripped(u)'
                      /\ \A k \in got'[u] : holder'[k][grip'[u][k]] = u
    BY DEF HoldInv
  <2>1. Want(u)' = Want(u) /\ got'[u] = got[u]
    BY <1>1 DEF Want
  <2>2. CASE u = t
    <3>1. \A k \in Want(t) : now[k] # None
      BY <1>2, ThreadsAssumption DEF IInv, TypeOK
    <3>2. Gripped(t)' = Want(t)
      BY <1>1, <1>2, <3>1 DEF IInv, TypeOK, Gripped
    <3> QED
      BY <1>1, <2>1, <2>2, <3>2 DEF IInv, TypeOK, InBody
  <2>3. CASE u # t
    <3>1. grip'[u] = grip[u] /\ pc'[u] = pc[u]
      BY <1>1, <2>3 DEF IInv, TypeOK
    <3>2. Gripped(u)' = Gripped(u)
      BY <3>1 DEF Gripped
    <3>3. \A k \in got[u] : k \notin new
      BY GotRegistered
    <3>4. \A k \in got[u] : holder'[k] = holder[k]
      BY <1>1, <3>3, GotRegistered DEF IInv, TypeOK
    <3> QED
      BY <2>1, <3>1, <3>2, <3>4 DEF IInv, HoldInv, InBody
  <2> QED
    BY <2>2, <2>3
<1> QED
  BY <1>3, <1>4, <1>5 DEF IInv

\* Acquiring a free lock: no other thread had acquired that key.
LEMMA AcquireStep ==
  ASSUME IInv, NEW t \in Threads, Acquire(t)
  PROVE  IInv'
<1>1. PICK k \in Want(t) \ got[t] :
        /\ holder[k][grip[t][k]] = None
        /\ holder' = [holder EXCEPT ![k][grip[t][k]] = t]
        /\ got' = [got EXCEPT ![t] = @ \cup {k}]
        /\ pc' = [pc EXCEPT ![t] = IF Want(t) \ got[t] = {k} THEN "locked" ELSE "acquire"]
  BY DEF Acquire, Goto
<1>2. /\ pc[t] = "acquire"
      /\ UNCHANGED <<entry, refs, grip, req, fence, left, opOwner, rule>>
  BY DEF Acquire
<1>3. k \in Keys /\ Gripped(t) = Want(t) /\ grip[t][k] \in Threads
  BY <1>2, WantType DEF IInv, HoldInv, Gripped, TypeOK
<1>4. TypeOK'
  BY <1>1, <1>2, <1>3 DEF IInv, TypeOK, Locations
<1>5. RefCounted'
  BY <1>2, RefCountedKept DEF IInv
<1>6. ASSUME NEW u \in Threads
      PROVE  /\ pc'[u] \in {"idle", "register"} => Gripped(u)' = {} /\ got'[u] = {}
             /\ pc'[u] \in {"acquire", "locked", "write"} => Gripped(u)' = Want(u)'
             /\ InBody(u)' => got'[u] = Want(u)'
             /\ got'[u] \subseteq Gripped(u)'
             /\ \A j \in got'[u] : holder'[j][grip'[u][j]] = u
  <2>1. Want(u)' = Want(u) /\ Gripped(u)' = Gripped(u)
    BY <1>2 DEF Want, Gripped
  <2>2. CASE u = t
    <3>1. got'[t] = got[t] \cup {k} /\ got[t] \subseteq Want(t)
      BY <1>1, <1>3 DEF IInv, TypeOK, HoldInv
    <3>2. \A j \in got'[t] : holder'[j][grip'[t][j]] = t
      BY <1>1, <1>2, <1>3, <3>1 DEF IInv, TypeOK, HoldInv
    <3>3. pc'[t] = "acquire" \/ (pc'[t] = "locked" /\ Want(t) = got'[t])
      <4>1. Want(t) \ got[t] = {k} => Want(t) = got'[t]
        BY <3>1
      <4> QED
        BY <1>1, <4>1 DEF IInv, TypeOK
    <3> QED
      BY <1>3, <2>1, <2>2, <3>1, <3>2, <3>3 DEF InBody
  <2>3. CASE u # t
    <3>1. got'[u] = got[u] /\ pc'[u] = pc[u] /\ grip'[u] = grip[u]
      BY <1>1, <1>2, <2>3 DEF IInv, TypeOK
    <3>2. \A j \in got[u] : j \in Keys /\ grip[u][j] \in Threads /\ holder[j][grip[u][j]] = u
      BY DEF IInv, TypeOK, HoldInv, Gripped
    <3>3. \A j \in got[u] : holder'[j][grip[u][j]] = u
      BY <1>1, <1>3, <3>2, <2>3, ThreadsAssumption DEF IInv, TypeOK
    <3> QED
      BY <2>1, <3>1, <3>3 DEF IInv, HoldInv, InBody
  <2> QED
    BY <2>2, <2>3
<1> QED
  BY <1>4, <1>5, <1>6 DEF IInv, HoldInv

\* Releasing one lock: only its holder had acquired that key.
LEMMA ReleaseStep ==
  ASSUME IInv, NEW t \in Threads, Release(t)
  PROVE  IInv'
<1>1. PICK k \in got[t] : /\ holder' = [holder EXCEPT ![k][grip[t][k]] = None]
                          /\ got' = [got EXCEPT ![t] = @ \ {k}]
  BY DEF Release
<1>2. /\ pc[t] \in Releasing
      /\ UNCHANGED <<entry, refs, grip, pc, req, fence, left, opOwner, rule>>
  BY DEF Release
<1>3. /\ k \in Keys /\ grip[t][k] \in Threads /\ grip[t][k] = entry[k]
      /\ holder[k][grip[t][k]] = t
  BY GotRegistered
<1>4. TypeOK'
  BY <1>1, <1>2, <1>3 DEF IInv, TypeOK
<1>5. RefCounted'
  BY <1>2, RefCountedKept DEF IInv
<1>6. ASSUME NEW u \in Threads
      PROVE  /\ pc'[u] \in {"idle", "register"} => Gripped(u)' = {} /\ got'[u] = {}
             /\ pc'[u] \in {"acquire", "locked", "write"} => Gripped(u)' = Want(u)'
             /\ InBody(u)' => got'[u] = Want(u)'
             /\ got'[u] \subseteq Gripped(u)'
             /\ \A j \in got'[u] : holder'[j][grip'[u][j]] = u
  <2>1. Want(u)' = Want(u) /\ Gripped(u)' = Gripped(u)
    BY <1>2 DEF Want, Gripped
  <2>2. \A j \in got[u] : /\ j \in Keys /\ grip[u][j] \in Threads
                          /\ holder[j][grip[u][j]] = u
                          /\ grip[u][j] = entry[j]
    BY GotRegistered
  <2>3. got'[u] \subseteq got[u] /\ \A j \in got'[u] : j # k \/ u # t
    BY <1>1 DEF IInv, TypeOK
  <2>4. \A j \in got'[u] : j # k
    BY <1>3, <2>2, <2>3
  <2>5. \A j \in got'[u] : holder'[j][grip'[u][j]] = u
    BY <1>1, <1>2, <2>2, <2>3, <2>4 DEF IInv, TypeOK
  <2>6. pc[u] \notin Releasing => got'[u] = got[u]
    BY <1>1, <1>2 DEF IInv, TypeOK
  <2> QED
    BY <1>2, <2>1, <2>3, <2>5, <2>6 DEF IInv, HoldInv, InBody, Releasing
<1> QED
  BY <1>4, <1>5, <1>6 DEF IInv, HoldInv

\* Dropping the references; an entry goes exactly with its last reference.
LEMMA UnregisterStep ==
  ASSUME IInv, NEW t \in Threads, Unregister(t)
  PROVE  IInv'
<1>1. /\ pc[t] \in Releasing /\ got[t] = {}
      /\ refs' = [k \in Keys |-> IF k \in Gripped(t) THEN refs[k] - 1 ELSE refs[k]]
      /\ entry' = [k \in Keys |-> IF k \in Gripped(t) /\ refs[k] = 1 THEN None ELSE entry[k]]
      /\ grip' = [grip EXCEPT ![t] = [k \in Keys |-> None]]
      /\ pc' = [pc EXCEPT ![t] = IF pc[t] = "restart" THEN "register" ELSE "idle"]
      /\ UNCHANGED <<holder, got, req, fence, left, opOwner, rule>>
  BY DEF Unregister, Dropped, LastReference, Goto
<1>2. \A k \in Keys : /\ IsFiniteSet(Referring(k)) /\ refs[k] = Cardinality(Referring(k))
                      /\ Cardinality(Referring(k)) \in Nat
  BY ThreadsAssumption, FS_Subset, FS_CardinalityType DEF IInv, RefCounted, Referring
<1>3. \A k \in Gripped(t) : /\ t \in Referring(k)
                            /\ Cardinality(Referring(k) \ {t}) = refs[k] - 1
                            /\ Cardinality(Referring(k) \ {t}) \in Nat
                            /\ IsFiniteSet(Referring(k) \ {t})
  <2> SUFFICES ASSUME NEW k \in Gripped(t)
               PROVE  /\ t \in Referring(k)
                      /\ Cardinality(Referring(k) \ {t}) = refs[k] - 1
                      /\ Cardinality(Referring(k) \ {t}) \in Nat
                      /\ IsFiniteSet(Referring(k) \ {t})
    OBVIOUS
  <2>1. k \in Keys /\ t \in Referring(k)
    BY DEF Gripped, Referring
  <2>2. IsFiniteSet(Referring(k) \ {t}) /\ Cardinality(Referring(k) \ {t}) = refs[k] - 1
    BY <1>2, <2>1, FS_RemoveElement
  <2> QED
    BY <2>1, <2>2, FS_CardinalityType
<1>4. TypeOK'
  <2>1. refs' \in [Keys -> Nat]
    BY <1>1, <1>3 DEF IInv, TypeOK
  <2> QED
    BY <1>1, <2>1 DEF IInv, TypeOK, Locations, Releasing
<1>5. RefCounted'
  <2> SUFFICES ASSUME NEW k \in Keys
               PROVE  /\ refs'[k] = Cardinality(Referring(k)')
                      /\ entry'[k] = None <=> Referring(k)' = {}
                      /\ \A u \in Referring(k)' : grip'[u][k] = entry'[k]
    BY DEF RefCounted
  <2>1. /\ Referring(k)' = Referring(k) \ {t}
        /\ \A u \in Referring(k)' : grip'[u][k] = grip[u][k]
    BY <1>1 DEF IInv, TypeOK, Referring
  <2>2. CASE k \in Gripped(t)
    <3>1. refs'[k] = Cardinality(Referring(k)')
      BY <1>1, <1>3, <2>1, <2>2
    <3>2. Referring(k)' = {} <=> refs[k] = 1
      <4>1. Referring(k)' = {} <=> Cardinality(Referring(k) \ {t}) = 0
        BY <1>3, <2>1, <2>2, FS_EmptySet
      <4> QED
        BY <1>2, <1>3, <2>2, <4>1
    <3>3. entry[k] # None /\ \A u \in Referring(k) : grip[u][k] = entry[k]
      BY <1>3, <2>2 DEF IInv, RefCounted
    <3> QED
      BY <1>1, <2>1, <2>2, <3>1, <3>2, <3>3
  <2>3. CASE k \notin Gripped(t)
    <3>1. Referring(k)' = Referring(k)
      BY <2>1, <2>3 DEF Referring, Gripped
    <3> QED
      BY <1>1, <2>1, <2>3, <3>1 DEF IInv, RefCounted
  <2> QED
    BY <2>2, <2>3
<1>6. ASSUME NEW u \in Threads
      PROVE  /\ pc'[u] \in {"idle", "register"} => Gripped(u)' = {} /\ got'[u] = {}
             /\ pc'[u] \in {"acquire", "locked", "write"} => Gripped(u)' = Want(u)'
             /\ InBody(u)' => got'[u] = Want(u)'
             /\ got'[u] \subseteq Gripped(u)'
             /\ \A j \in got'[u] : holder'[j][grip'[u][j]] = u
  <2>1. CASE u = t
    BY <1>1, <2>1 DEF IInv, TypeOK, Gripped, InBody
  <2>2. CASE u # t
    <3>1. /\ pc'[u] = pc[u] /\ grip'[u] = grip[u] /\ Want(u)' = Want(u)
          /\ got' = got /\ holder' = holder
      BY <1>1, <2>2 DEF IInv, TypeOK, Want
    <3> QED
      BY <3>1 DEF IInv, HoldInv, Gripped, InBody
  <2> QED
    BY <2>1, <2>2
<1> QED
  BY <1>4, <1>5, <1>6 DEF IInv, HoldInv

\* The body leaves the locks alone; only RereadMoved changes a fence, and it
\* leaves the body.
LEMMA BodyStep ==
  ASSUME IInv, NEW t \in Threads,
         RereadMoved(t) \/ Enter(t) \/ GiveUp(t) \/ WriteClaim(t) \/ WriteRule(t)
  PROVE  IInv'
<1>1. /\ pc[t] \in {"locked", "write"}
      /\ UNCHANGED <<entry, refs, holder, grip, got, req, left>>
      /\ \E l \in {"write", "release", "restart"} :
           /\ pc' = [pc EXCEPT ![t] = l]
           /\ l = "write" => pc[t] = "locked" /\ UNCHANGED fence
      /\ \E f \in SUBSET Managers : fence' = [fence EXCEPT ![t] = f]
  <2>1. fence[t] \in SUBSET Managers /\ fence = [fence EXCEPT ![t] = fence[t]]
    BY DEF IInv, TypeOK
  <2>2. CASE RereadMoved(t)
    <3>1. req[t].deal \in Deals /\ req[t].manager \in Managers
      BY <2>2 DEF RereadMoved, IInv, TypeOK, Requests
    <3>2. MovedFence(t) \in SUBSET Managers
      BY <2>2, <3>1 DEF RereadMoved, MovedFence, IInv, TypeOK
    <3> QED
      BY <2>2, <3>2 DEF RereadMoved, Goto, lockVars
  <2>3. CASE Enter(t)
    BY <2>1, <2>3 DEF Enter, Goto, lockVars
  <2>4. CASE GiveUp(t)
    BY <2>1, <2>4 DEF GiveUp, Goto, lockVars
  <2>5. CASE WriteClaim(t)
    BY <2>1, <2>5 DEF WriteClaim, Goto, lockVars
  <2>6. CASE WriteRule(t)
    BY <2>1, <2>6 DEF WriteRule, Goto, lockVars
  <2> QED
    BY <2>2, <2>3, <2>4, <2>5, <2>6
<1>2. opOwner' \in [Deals -> Managers \cup {None}] /\ rule' \in [Managers -> BOOLEAN]
  <2>1. CASE WriteClaim(t)
    BY <2>1 DEF WriteClaim, IInv, TypeOK, Requests
  <2>2. CASE WriteRule(t)
    BY <2>2 DEF WriteRule, IInv, TypeOK, Requests
  <2>3. CASE RereadMoved(t) \/ Enter(t) \/ GiveUp(t)
    BY <2>3 DEF RereadMoved, Enter, GiveUp, IInv, TypeOK
  <2> QED
    BY <2>1, <2>2, <2>3
<1>3. TypeOK'
  BY <1>1, <1>2 DEF IInv, TypeOK, Locations
<1>4. RefCounted'
  BY <1>1, RefCountedKept DEF IInv
<1>5. ASSUME NEW u \in Threads
      PROVE  /\ pc'[u] \in {"idle", "register"} => Gripped(u)' = {} /\ got'[u] = {}
             /\ pc'[u] \in {"acquire", "locked", "write"} => Gripped(u)' = Want(u)'
             /\ InBody(u)' => got'[u] = Want(u)'
             /\ got'[u] \subseteq Gripped(u)'
             /\ \A j \in got'[u] : holder'[j][grip'[u][j]] = u
  <2>1. Gripped(u)' = Gripped(u)
    BY <1>1 DEF Gripped
  <2>2. CASE u = t /\ pc'[t] = "write"
    <3>1. Want(u)' = Want(u)
      BY <1>1, <2>2 DEF IInv, TypeOK, Want
    <3> QED
      BY <1>1, <2>1, <2>2, <3>1 DEF IInv, HoldInv, InBody
  <2>3. CASE u = t /\ pc'[t] # "write"
    <3>1. pc'[u] \in {"release", "restart"}
      BY <1>1, <2>3 DEF IInv, TypeOK
    <3> QED
      BY <1>1, <2>1, <3>1 DEF IInv, HoldInv, InBody
  <2>4. CASE u # t
    <3>1. Want(u)' = Want(u) /\ pc'[u] = pc[u]
      BY <1>1, <2>4 DEF IInv, TypeOK, Want
    <3> QED
      BY <1>1, <2>1, <3>1 DEF IInv, HoldInv, InBody
  <2> QED
    BY <2>2, <2>3, <2>4
<1> QED
  BY <1>3, <1>4, <1>5 DEF IInv, HoldInv

\* The three facts of an inductive invariant.
LEMMA InitIInv == Init => IInv
<1> SUFFICES ASSUME Init PROVE IInv
  OBVIOUS
<1>1. TypeOK
  BY BoundAssumption DEF Init, TypeOK, Requests, Locations
<1>2. \A k \in Keys : Referring(k) = {}
  BY DEF Init, Referring
<1>3. RefCounted
  BY <1>2, FS_EmptySet DEF Init, RefCounted
<1>4. HoldInv
  BY DEF Init, HoldInv, Gripped, InBody
<1> QED
  BY <1>1, <1>3, <1>4 DEF IInv

LEMMA NextIInv == IInv /\ [Next]_vars => IInv'
<1> SUFFICES ASSUME IInv, [Next]_vars PROVE IInv'
  OBVIOUS
<1>1. ASSUME NEW t \in Threads, Call(t) PROVE IInv'
  <2>1. CASE \E m \in Managers, d \in Deals : CallClaim(t, m, d)
    <3>1. PICK m \in Managers, d \in Deals : CallClaim(t, m, d)
      BY <2>1
    <3>2. {m} \cup ({opOwner[d]} \ {None}) \in SUBSET Managers
      BY DEF IInv, TypeOK
    <3> QED
      BY <3>1, <3>2, StartStep DEF CallClaim, Requests
  <2>2. CASE \E m \in Managers, d \in Deals : CallReject(t, m, d)
    BY <2>2, StartStep DEF CallReject, Requests
  <2>3. CASE \E d \in Deals : CallReconcile(t, d)
    <3>1. PICK d \in Deals : CallReconcile(t, d)
      BY <2>3
    <3>2. opOwner[d] \in Managers
      BY <3>1 DEF CallReconcile, IInv, TypeOK
    <3> QED
      BY <3>1, <3>2, StartStep DEF CallReconcile, Requests
  <2>4. CASE \E m \in Managers : CallAdmin(t, m)
    BY <2>4, StartStep DEF CallAdmin, Requests
  <2> QED
    BY <1>1, <2>1, <2>2, <2>3, <2>4 DEF Call
<1>2. ASSUME NEW t \in Threads, Run(t) PROVE IInv'
  BY <1>2, RegisterStep, AcquireStep, ReleaseStep, UnregisterStep, BodyStep DEF Run
<1>3. CASE UNCHANGED vars
  <2>1. TypeOK'
    BY <1>3 DEF IInv, TypeOK, vars
  <2>2. RefCounted'
    BY <1>3, RefCountedKept DEF IInv, vars
  <2>3. HoldInv'
    BY <1>3 DEF IInv, HoldInv, Gripped, Want, InBody, vars
  <2> QED
    BY <2>1, <2>2, <2>3 DEF IInv
<1> QED
  BY <1>1, <1>2, <1>3 DEF Next, Finished

LEMMA Invariance == Spec => []IInv
BY InitIInv, NextIInv, PTL DEF Spec

\* TypeOK: the lock table and the callers stay in their types; in particular
\* no reference count of claim_locks.py ever drops below zero.
THEOREM TypeCorrect == Spec => []TypeOK
<1>1. IInv => TypeOK
  BY DEF IInv
<1> QED
  BY <1>1, Invariance, PTL

\* RefCounted: ClaimLocks._entries holds exactly the keys in use, counts the
\* threads that hold or wait for each, and is empty again when all are done.
THEOREM RegistryExact == Spec => []RefCounted
<1>1. IInv => RefCounted
  BY DEF IInv
<1> QED
  BY <1>1, Invariance, PTL

LEMMA ExclusionNow == IInv => MutualExclusion
<1> SUFFICES ASSUME IInv, NEW t \in Threads, NEW u \in Threads, t # u,
                    InBody(t), InBody(u), NEW k \in Want(t) \cap Want(u)
             PROVE  FALSE
  BY DEF MutualExclusion
<1>1. k \in got[t] /\ k \in got[u]
  BY DEF IInv, HoldInv
<1> QED
  BY <1>1, GotRegistered

\* MutualExclusion: bodies of hold() that share an employee or a deal never
\* overlap: both would hold the one registered lock of the shared key.
THEOREM BodiesExclude == Spec => []MutualExclusion
BY ExclusionNow, Invariance, PTL

\* A running call has fenced its own employee; with mutual exclusion this
\* keeps the policy and the operation owner still under a body that acts.
CallerFenced == \A t \in Threads : pc[t] # "idle" => req[t].manager \in fence[t]

FenceInv == CallerFenced /\ OwnerFenced /\ DisableFence

\* A step that leaves opOwner and rule alone, moves one thread and does not
\* enter the writing part keeps the fences.
LEMMA FenceKept ==
  ASSUME IInv, FenceInv, NEW t \in Threads, UNCHANGED <<opOwner, rule>>,
         \A u \in Threads : u # t => /\ pc'[u] = pc[u] /\ req'[u] = req[u]
                                     /\ fence'[u] = fence[u],
         pc'[t] # "write", pc'[t] # "idle" => req'[t].manager \in fence'[t]
  PROVE  FenceInv'
BY DEF FenceInv, CallerFenced, OwnerFenced, DisableFence

LEMMA StartFences ==
  ASSUME IInv, FenceInv, NEW t \in Threads, NEW r \in Requests, NEW f \in SUBSET Managers,
         r.manager \in f, Start(t, r, f)
  PROVE  FenceInv'
<1>1. pc'[t] = "register" /\ req'[t] = r /\ fence'[t] = f
  BY DEF IInv, TypeOK, Start, Goto
<1>2. \A u \in Threads : u # t => /\ pc'[u] = pc[u] /\ req'[u] = req[u]
                                  /\ fence'[u] = fence[u]
  BY DEF IInv, TypeOK, Start, Goto
<1> QED
  BY <1>1, <1>2, FenceKept DEF Start

LEMMA RunFences ==
  ASSUME IInv, FenceInv, NEW t \in Threads, Run(t)
  PROVE  FenceInv'
<1>1. \A u \in Threads : u # t => pc'[u] = pc[u] /\ fence'[u] = fence[u]
  BY DEF IInv, TypeOK, Run, Register, Acquire, Release, Unregister, RereadMoved, Enter, GiveUp,
         WriteClaim, WriteRule, Goto
<1>2. req' = req
  BY DEF Run, Register, Acquire, Release, Unregister, RereadMoved, Enter, GiveUp, WriteClaim,
         WriteRule, lockVars
<1>3. CASE Register(t) \/ Acquire(t) \/ Release(t) \/ Unregister(t) \/ GiveUp(t)
  <2>1. UNCHANGED <<opOwner, rule, fence>>
    BY <1>3 DEF Register, Acquire, Release, Unregister, GiveUp
  <2>2. pc'[t] # "write"
    BY <1>3 DEF IInv, TypeOK, Register, Acquire, Release, Unregister, GiveUp, Goto, Releasing
  <2>3. pc[t] # "idle"
    BY <1>3 DEF Register, Acquire, Release, Unregister, GiveUp, Releasing
  <2>4. req'[t].manager \in fence'[t]
    BY <1>2, <2>1, <2>3 DEF FenceInv, CallerFenced
  <2> QED
    BY <1>1, <1>2, <2>1, <2>2, <2>4, FenceKept
<1>4. CASE RereadMoved(t)
  <2>1. fence'[t] = MovedFence(t) /\ pc'[t] = "restart"
    BY <1>4 DEF IInv, TypeOK, RereadMoved, Goto
  <2> QED
    BY <1>1, <1>2, <1>4, <2>1, FenceKept DEF RereadMoved, MovedFence
<1>5. CASE Enter(t)
  <2>1. UNCHANGED <<opOwner, rule, fence>> /\ pc[t] = "locked"
    BY <1>5 DEF Enter
  <2>2. CASE MayProceed(t)
    <3>1. pc'[t] = "write"
      BY <1>5, <2>2 DEF IInv, TypeOK, Enter, Goto
    <3>2. req[t].kind = "claim" => rule[req[t].manager]
      BY <2>2 DEF MayProceed
    <3>3. req[t].kind \in {"claim", "reconcile"} => opOwner[req[t].deal] \in fence[t] \cup {None}
      BY <1>5, <2>1, <2>2 DEF Enter, OwnerSettled, MayProceed, FenceInv, CallerFenced
    <3> QED
      BY <1>1, <1>2, <2>1, <3>1, <3>2, <3>3 DEF FenceInv, CallerFenced, OwnerFenced, DisableFence
  <2>3. CASE ~MayProceed(t)
    <3>1. pc'[t] = "release"
      BY <1>5, <2>3 DEF IInv, TypeOK, Enter, Goto
    <3>2. req'[t].manager \in fence'[t]
      BY <1>2, <2>1 DEF FenceInv, CallerFenced
    <3> QED
      BY <1>1, <1>2, <2>1, <3>1, <3>2, FenceKept
  <2> QED
    BY <2>2, <2>3
<1>6. CASE WriteClaim(t)
  <2>1. /\ pc[t] = "write" /\ pc'[t] = "release" /\ UNCHANGED <<rule, fence>>
        /\ \A d \in Deals : d # req[t].deal => opOwner'[d] = opOwner[d]
    BY <1>6 DEF IInv, TypeOK, WriteClaim, Goto
  <2>2. ASSUME NEW u \in Threads, pc'[u] = "write", req[u].kind \in {"claim", "reconcile"}
        PROVE  opOwner'[req[u].deal] = opOwner[req[u].deal]
    <3>1. u # t /\ pc[u] = "write"
      BY <1>1, <2>1, <2>2
    <3>2. req[u].deal \in Deals /\ req[u].deal # None /\ req[t].deal # None
      BY <1>6, <2>2, KeysAssumption DEF IInv, TypeOK, Requests, WriteClaim
    <3>3. req[u].deal # req[t].deal
      BY <2>1, <3>1, <3>2, ExclusionNow DEF MutualExclusion, InBody, Want
    <3> QED
      BY <2>1, <3>2, <3>3
  <2> QED
    BY <1>1, <1>2, <2>1, <2>2 DEF FenceInv, CallerFenced, OwnerFenced, DisableFence
<1>7. CASE WriteRule(t)
  <2>1. /\ pc[t] = "write" /\ pc'[t] = "release" /\ UNCHANGED <<opOwner, fence>>
        /\ \A m \in Managers : m # req[t].manager => rule'[m] = rule[m]
    BY <1>7 DEF IInv, TypeOK, WriteRule, Goto
  <2>2. ASSUME NEW u \in Threads, pc'[u] = "write"
        PROVE  rule'[req[u].manager] = rule[req[u].manager]
    <3>1. u # t /\ pc[u] = "write"
      BY <1>1, <2>1, <2>2
    <3>2. req[u].manager \in fence[u] /\ req[t].manager \in fence[t] /\ req[u].manager \in Managers
      BY <2>1, <3>1 DEF FenceInv, CallerFenced, IInv, TypeOK, Requests
    <3>3. req[u].manager # req[t].manager
      BY <2>1, <3>1, <3>2, ExclusionNow DEF MutualExclusion, InBody, Want
    <3> QED
      BY <2>1, <3>2, <3>3
  <2> QED
    BY <1>1, <1>2, <2>1, <2>2 DEF FenceInv, CallerFenced, OwnerFenced, DisableFence
<1> QED
  BY <1>3, <1>4, <1>5, <1>6, <1>7 DEF Run

LEMMA NextFences == IInv /\ FenceInv /\ [Next]_vars => FenceInv'
<1> SUFFICES ASSUME IInv, FenceInv, [Next]_vars PROVE FenceInv'
  OBVIOUS
<1>1. ASSUME NEW t \in Threads, Call(t) PROVE FenceInv'
  <2>1. ASSUME NEW m \in Managers, NEW d \in Deals, CallClaim(t, m, d) PROVE FenceInv'
    <3>1. {m} \cup ({opOwner[d]} \ {None}) \in SUBSET Managers
      BY DEF IInv, TypeOK
    <3> QED
      BY <2>1, <3>1, StartFences DEF CallClaim, Requests
  <2>2. ASSUME NEW m \in Managers, NEW d \in Deals, CallReject(t, m, d) PROVE FenceInv'
    BY <2>2, StartFences DEF CallReject, Requests
  <2>3. ASSUME NEW d \in Deals, CallReconcile(t, d) PROVE FenceInv'
    <3>1. opOwner[d] \in Managers
      BY <2>3 DEF CallReconcile, IInv, TypeOK
    <3> QED
      BY <2>3, <3>1, StartFences DEF CallReconcile, Requests
  <2>4. ASSUME NEW m \in Managers, CallAdmin(t, m) PROVE FenceInv'
    BY <2>4, StartFences DEF CallAdmin, Requests
  <2> QED
    BY <1>1, <2>1, <2>2, <2>3, <2>4 DEF Call
<1>2. CASE UNCHANGED vars
  BY <1>2 DEF FenceInv, CallerFenced, OwnerFenced, DisableFence, vars
<1> QED
  BY <1>1, <1>2, RunFences DEF Next, Finished

\* OwnerFenced: hold_claim_operation and the sweep act on an operation only
\* under the lock of the employee who owns it now.
THEOREM OwnersFenced == Spec => []OwnerFenced
<1>1. Init => FenceInv
  BY DEF Init, FenceInv, CallerFenced, OwnerFenced, DisableFence
<1>2. FenceInv => OwnerFenced
  BY DEF FenceInv
<1> QED
  BY <1>1, <1>2, NextFences, Invariance, PTL DEF Spec

\* DisableFence: once a rule change has committed, no claim that passed the
\* old rule is still on its way to the CRM write.
THEOREM DisableFences == Spec => []DisableFence
<1>1. Init => FenceInv
  BY DEF Init, FenceInv, CallerFenced, OwnerFenced, DisableFence
<1>2. FenceInv => DisableFence
  BY DEF FenceInv
<1> QED
  BY <1>1, <1>2, NextFences, Invariance, PTL DEF Spec
=============================================================================
