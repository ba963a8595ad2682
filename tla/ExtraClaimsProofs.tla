-------------------------- MODULE ExtraClaimsProofs --------------------------
(***************************************************************************)
(* Proofs about ExtraClaims for any number of requests, claims and faults  *)
(* and for every shape of Baza's answers: the types and what is known of   *)
(* Baza (TInv), which claim has which grant (CInv), and what the claim     *)
(* under way was shown (Fresh).                                            *)
(***************************************************************************)
EXTENDS ExtraClaims, FiniteSetTheorems, TLAPS

\* What Baza says of a request, and of one whose grant exists
Decisions == {"pending", "approved", "rejected", "expired", "consumed"}
Granted == {"approved", "consumed", "expired"}

Codes == {"none", "ok", "active_request_exists", "grant_unavailable", "refused"}
Answers == [code : Codes, id : Keys \cup {None}, status : Decisions \cup {"none"}]
Posts == [pc : {"idle", "listed", "answered"}, about : Items \cup {None}, answer : Answers]

\* A call is about an item that was queued; an answer names a request that Baza
\* has, and "approved" stays true of it in a way.
Truthful(p) ==
  /\ p.answer.id # None => p.answer.status \in Decisions /\ remote[p.answer.id] # "none"
  /\ p.answer.status = "approved" => p.answer.id # None /\ remote[p.answer.id] \in Granted
  /\ p.answer.code \in {"ok", "active_request_exists"} /\ p.about # None => p.answer.id # None
  /\ \A k \in Keys : p.about = Request(k) => requests[k].status # "absent"
  /\ \A o \in Ops : p.about = Event(o) => claims[o] = "done"
  /\ p.pc = "listed" => \E k \in Keys : p.about = Request(k)

\* A request is known to Baza, a grant to the books and an event to the outbox
\* after it was made.
Rooted ==
  /\ \A r \in Rows : requests[r].ext # None => requests[r].status # "absent"
  /\ \A k \in Keys : outbox[Request(k)] # {} \/ remote[k] # "none" => requests[k].status # "absent"
  /\ \A o \in Ops : outbox[Event(o)] # {} => claims[o] = "done"
  /\ latest # None => remote[latest] # "none"
  /\ \A g \in Keys : grants[g].status # "absent" => remote[g] \in Granted

TInv == /\ TypeOK /\ order \in Seq(Keys) /\ post \in [Threads -> Posts]
        /\ \A t \in Threads : Truthful(post[t])
        /\ Rooted

\* A claim that is being written or recorded has a grant, and no other has it;
\* it is consumed with the claim.
Paying ==
  /\ \A g \in Keys : grants[g].op # None <=> grants[g].status \in {"reserved", "consumed"}
  /\ \A g, h \in Keys : grants[g].op = grants[h].op /\ grants[g].op # None => g = h
  /\ \A o \in Ops : claims[o] \in {"reserved", "held"} => HeldBy(grants, o) # {}
  /\ \A o \in Ops : claims[o] = "done" <=> \E g \in Keys : grants[g].status = "consumed" /\ grants[g].op = o

\* One claim at a time is under way.
InTurn ==
  /\ \A o \in Ops : claims[o] # "open" => IsNext(o)
  /\ \A o \in applied : claims[o] \in {"reserved", "held", "done"}

\* What Baza counts as spent was consumed by the same claim.
SpentHere == \A e \in Keys : spentFor[e] # None =>
               grants[e].status = "consumed" /\ grants[e].op = spentFor[e]

CInv == Paying /\ InTurn /\ SpentHere

\* A claim that passed its check takes a grant that Baza has just listed.
Fresh ==
  /\ \A o \in Ops : claims[o] = "checked" =>
       HeldBy(grants, o) \subseteq shown /\ \A g \in Keys : grants[g].status = "approved" => g \in shown
  /\ \A o \in Ops \ Sent : claims[o] = "reserved" => HeldBy(grants, o) \subseteq shown
-----------------------------------------------------------------------------
(* Types.                                                                  *)

RequestType == [status : Statuses \cup {"absent"}, ext : Keys \cup {None}]
GrantType == [status : {"absent", "approved", "reserved", "consumed", "expired"},
              row : Rows \cup {None}, op : Ops \cup {None}]

\* The grants in the order of created_at are those that exist.
Dated(gs, ord) == \A g \in Keys : gs[g].status # "absent" <=> \E i \in 1..Len(ord) : ord[i] = g

Books == /\ requests \in [Rows -> RequestType] /\ Cardinality(Active(requests)) <= 1
         /\ grants \in [Keys -> GrantType] /\ order \in Seq(Keys) /\ Dated(grants, order)

\* Deals and the updates that were sent for them
DealTypes == /\ applied \subseteq Ops /\ late \subseteq Ops /\ moved \subseteq Ops
             /\ stray \in Nat /\ unpaid \in Nat

Around == /\ outbox \in [Items -> SUBSET {"queued", "delivered", "dead"}]
          /\ claims \in [Ops -> {"open", "asking", "checked", "reserved", "held", "done"}]
          /\ DealTypes /\ overdue \subseteq Keys /\ shown \subseteq Keys
          /\ remote \in [Keys -> Decisions \cup {"none"}] /\ spentFor \in [Keys -> Ops \cup {None}]
          /\ latest \in Keys \cup {None} /\ faults \in 0..MaxFaults
          /\ post \in [Threads -> Posts]

Truth == \A t \in Threads : Truthful(post[t])

LEMMA TypesMeet == TInv <=> Books /\ Around /\ Truth /\ Rooted
BY DEF TInv, TypeOK, Books, Around, DealTypes, Truth, RequestType, GrantType, Dated,
       Posts, Decisions

LEMMA Numbers ==
  /\ MaxRequests \in Nat /\ MaxClaims \in Nat /\ MaxFaults \in Nat
  /\ None \notin Rows /\ None \notin Keys /\ None \notin Ops
  /\ Keys \subseteq Rows /\ \A e \in Keys : Restored(e) \in Rows
BY ExtraAssumption DEF Keys, Ops, Rows, Restored

LEMMA FiniteRows == IsFiniteSet(Rows) /\ IsFiniteSet(Keys) /\ IsFiniteSet(Ops)
<1>1. IsFiniteSet(1..(2 * MaxRequests)) /\ IsFiniteSet(1..MaxRequests) /\ IsFiniteSet(1..MaxClaims)
  <2>1. 2 * MaxRequests \in Int /\ MaxRequests \in Int /\ MaxClaims \in Int /\ 1 \in Int
    BY Numbers
  <2> QED
    BY <2>1, FS_Interval
<1>2. Rows \subseteq 1..(2 * MaxRequests)
  BY Numbers DEF Rows, Keys, Restored
<1> QED
  BY <1>1, <1>2, FS_Subset DEF Keys, Ops

\* There stays one open request at most while rows are closed only.
LEMMA FewerActive ==
  ASSUME NEW S \in SUBSET Rows, NEW T \in SUBSET S, Cardinality(S) <= 1
  PROVE  Cardinality(T) <= 1
<1>1. IsFiniteSet(S) /\ IsFiniteSet(T)
  BY FiniteRows, FS_Subset
<1>2. Cardinality(T) <= Cardinality(S) /\ Cardinality(S) \in Nat /\ Cardinality(T) \in Nat
  BY <1>1, FS_Subset, FS_CardinalityType
<1> QED
  BY <1>2

LEMMA OneActive ==
  ASSUME NEW r, NEW T \in SUBSET {r}
  PROVE  Cardinality(T) <= 1
<1>1. IsFiniteSet({r}) /\ Cardinality({r}) = 1
  BY FS_Singleton
<1>2. IsFiniteSet(T) /\ Cardinality(T) <= 1
  BY <1>1, FS_Subset
<1> QED
  BY <1>2

LEMMA GrantFields ==
  ASSUME Books, NEW g \in Keys
  PROVE  /\ grants[g] \in GrantType
         /\ grants[g].status \in {"absent", "approved", "reserved", "consumed", "expired"}
         /\ grants[g].row \in Rows \cup {None} /\ grants[g].op \in Ops \cup {None}
BY DEF Books, GrantType

LEMMA RequestFields ==
  ASSUME NEW rq \in [Rows -> RequestType], NEW r \in Rows
  PROVE  /\ rq[r] \in RequestType
         /\ rq[r].status \in Statuses \cup {"absent"} /\ rq[r].ext \in Keys \cup {None}
BY DEF RequestType

\* The requests after a step: one open row at most, none forgotten.
Sound(rq) ==
  /\ rq \in [Rows -> RequestType] /\ Cardinality(Active(rq)) <= 1
  /\ \A r \in Rows : /\ rq[r].ext # None => rq[r].status # "absent"
                     /\ requests[r].status # "absent" => rq[r].status # "absent"

LEMMA SoundNow == ASSUME TInv PROVE Sound(requests)
BY TypesMeet DEF Sound, Books, Rooted

\* One row changes, and is open only if it was.
LEMMA SoundRow ==
  ASSUME NEW rq, Sound(rq), NEW r \in Rows, NEW row \in RequestType, row.status # "absent",
         row.status \in Open => rq[r].status \in Open
  PROVE  Sound([rq EXCEPT ![r] = row])
<1> DEFINE new == [rq EXCEPT ![r] = row]
<1>1. rq \in [Rows -> RequestType] /\ new \in [Rows -> RequestType] /\ new[r] = row
      /\ \A s \in Rows : s # r => new[s] = rq[s]
  BY DEF Sound
<1> HIDE DEF new
<1>2. Active(new) \in SUBSET Active(rq) /\ Active(rq) \in SUBSET Rows
  BY <1>1 DEF Active
<1>3. Cardinality(Active(new)) <= 1
  BY <1>2, FewerActive DEF Sound
<1>4. Sound(new)
  BY <1>1, <1>3 DEF Sound
<1> QED
  BY <1>4 DEF new

LEMMA MergeForward ==
  ASSUME NEW local \in Statuses, NEW told \in Decisions
  PROVE  Merge(local, told) \in Statuses /\ (Merge(local, told) \in Open => local \in Open)
<1>1. Decisions \subseteq Statuses
  BY DEF Decisions, Statuses
<1>2. CASE local \in Terminal
  BY <1>2 DEF Merge, Terminal, Open
<1>3. CASE local = "approved"
  BY <1>1, <1>3 DEF Merge, Terminal, Open, Statuses
<1>4. CASE local \notin Terminal \cup {"approved"}
  <2>1. Merge(local, told) = told
    BY <1>4 DEF Merge
  <2>2. local \in Open
    BY <1>4 DEF Statuses, Terminal, Open
  <2> QED
    BY <1>1, <2>1, <2>2
<1> QED
  BY <1>2, <1>3, <1>4

LEMMA SoundMerged ==
  ASSUME TInv, NEW r \in Rows, requests[r].status # "absent", NEW e \in Keys, NEW told \in Decisions
  PROVE  Sound(Merged(r, e, told))
<1> DEFINE status == Merge(requests[r].status, told)
           ext == IF requests[r].ext = None THEN e ELSE requests[r].ext
<1>1. requests \in [Rows -> RequestType] /\ requests[r].status \in Statuses /\ requests[r].ext \in Keys \cup {None}
  BY TypesMeet, RequestFields DEF Books
<1>2. status \in Statuses /\ (status \in Open => requests[r].status \in Open) /\ ext \in Keys \cup {None}
  BY <1>1, MergeForward
<1>3. status # "absent"
  BY <1>2 DEF Statuses
<1>4. Merged(r, e, told) = [requests EXCEPT ![r] = [status |-> status, ext |-> ext]]
  BY <1>1 DEF Merged
<1> HIDE DEF status, ext
<1>5. [status |-> status, ext |-> ext] \in RequestType
  BY <1>2 DEF RequestType
<1>6. Sound([requests EXCEPT ![r] = [status |-> status, ext |-> ext]])
  BY <1>2, <1>3, <1>5, SoundNow, SoundRow
<1> QED
  BY <1>4, <1>6
-----------------------------------------------------------------------------
(* An answer that is merged.                                               *)

\* What an answer says that a call of post carries.
Valid(a) == /\ a \in Answers
            /\ a.id # None => a.status \in Decisions /\ remote[a.id] # "none"
            /\ a.status = "approved" => a.id # None /\ remote[a.id] \in Granted

LEMMA ListedGranted ==
  ASSUME NEW a, Valid(a)
  PROVE  Listed(a) \subseteq Keys /\ \A g \in Listed(a) : remote[g] \in Granted
BY DEF Valid, Answers, Listed

LEMMA RowForType ==
  ASSUME NEW rq, NEW e
  PROVE  /\ RowFor(rq, e) \in Rows \cup {None}
         /\ RowFor(rq, e) # None => rq[RowFor(rq, e)].ext = e \/ rq[RowFor(rq, e)].status \in Open
         /\ RowFor(rq, e) = None => Active(rq) = {}
<1>1. CASE \E r \in Rows : rq[r].ext = e
  BY <1>1, Numbers DEF RowFor
<1>2. CASE ~(\E r \in Rows : rq[r].ext = e) /\ Active(rq) # {}
  <2>1. RowFor(rq, e) = CHOOSE r \in Active(rq) : TRUE
    BY <1>2 DEF RowFor
  <2>2. RowFor(rq, e) \in Active(rq)
    BY <1>2, <2>1
  <2> QED
    BY <2>2, Numbers DEF Active
<1>3. CASE ~(\E r \in Rows : rq[r].ext = e) /\ Active(rq) = {}
  BY <1>3 DEF RowFor
<1> QED
  BY <1>1, <1>2, <1>3

LEMMA RequestsAfterSound ==
  ASSUME TInv, NEW a, Valid(a)
  PROVE  Sound(RequestsAfter(a))
<1>1. CASE ~Says(a)
  BY <1>1, SoundNow DEF RequestsAfter
<1>2. CASE Says(a) /\ Found(a) # None
  <2>1. a.id \in Keys /\ a.status \in Decisions /\ remote[a.id] # "none"
    BY <1>2 DEF Says, Valid, Answers
  <2>2. Found(a) \in Rows /\ requests[Found(a)].status # "absent"
    <3>1. CASE shape = "keyed"
      BY <2>1, <3>1, Numbers, TypesMeet DEF Found, Rooted
    <3>2. CASE shape # "keyed"
      <4>1. Found(a) = RowFor(requests, a.id)
        BY <3>2 DEF Found
      <4>2. Found(a) \in Rows
        BY <1>2, <4>1, RowForType
      <4>3. requests[Found(a)].ext = a.id \/ requests[Found(a)].status \in Open
        BY <1>2, <4>1, RowForType
      <4> QED
        BY <2>1, <4>2, <4>3, Numbers, TypesMeet DEF Rooted, Open
    <3> QED
      BY <3>1, <3>2
  <2>3. RequestsAfter(a) = Merged(Found(a), a.id, a.status)
    BY <1>2 DEF RequestsAfter
  <2> QED
    BY <2>1, <2>2, <2>3, SoundMerged
<1>3. CASE Says(a) /\ Found(a) = None
  <2>1. a.id \in Keys /\ a.status \in Decisions
    BY <1>3 DEF Says, Valid, Answers
  <2>2. Active(requests) = {}
    <3>1. shape # "keyed"
      BY <1>3, <2>1, Numbers DEF Found
    <3> QED
      BY <1>3, <3>1, RowForType DEF Found
  <2> DEFINE row == [status |-> a.status, ext |-> a.id]
             r == Restored(a.id)
             new == [requests EXCEPT ![r] = row]
  <2>3. row \in RequestType /\ row.status # "absent" /\ r \in Rows
    <3>1. Decisions \subseteq Statuses /\ "absent" \notin Decisions
      BY DEF Decisions, Statuses
    <3> QED
      BY <2>1, <3>1, Numbers DEF RequestType
  <2>4. requests \in [Rows -> RequestType] /\ new \in [Rows -> RequestType] /\ new[r] = row
        /\ \A s \in Rows : s # r => new[s] = requests[s]
    BY <2>3, TypesMeet DEF Books
  <2>5. RequestsAfter(a) = new
    BY <1>3 DEF RequestsAfter
  <2> HIDE DEF row, r, new
  <2>6. Active(new) \in SUBSET {r}
    BY <2>2, <2>4 DEF Active
  <2>7. Cardinality(Active(new)) <= 1
    BY <2>6, OneActive
  <2> QED
    BY <2>3, <2>4, <2>5, <2>7, SoundNow DEF Sound
<1> QED
  BY <1>1, <1>2, <1>3

LEMMA ApprovedSound ==
  ASSUME TInv, NEW a, Valid(a), NEW rq, Sound(rq)
  PROVE  Sound(ApprovedAfter(a, rq))
<1>1. CASE ApprovedAfter(a, rq) = rq
  BY <1>1
<1>2. CASE ApprovedAfter(a, rq) # rq
  <2> DEFINE r == RowFor(rq, a.id)
             ext == IF rq[r].ext = None THEN a.id ELSE rq[r].ext
             row == [status |-> "approved", ext |-> ext]
  <2>1. \E g \in Listed(a) \ InUse : RowFor(rq, g) # None /\ rq[RowFor(rq, g)].status \in {"queued", "pending"}
    BY <1>2 DEF ApprovedAfter
  <2>2. a.id \in Keys /\ r # None /\ rq[r].status \in {"queued", "pending"}
    BY <2>1, ListedGranted DEF Listed
  <2>3. r \in Rows
    BY <2>2, RowForType
  <2>4. rq \in [Rows -> RequestType] /\ rq[r].ext \in Keys \cup {None}
    BY <2>3, RequestFields DEF Sound
  <2>5. ApprovedAfter(a, rq) = [rq EXCEPT ![r] = row]
    BY <2>1, <2>3, <2>4 DEF ApprovedAfter
  <2>6. row \in RequestType /\ row.status # "absent" /\ rq[r].status \in Open
    BY <2>2, <2>4 DEF RequestType, Statuses, Open
  <2> HIDE DEF row, r
  <2>7. Sound([rq EXCEPT ![r] = row])
    BY <2>3, <2>6, SoundRow
  <2> QED
    BY <2>5, <2>7
<1> QED
  BY <1>1, <1>2

LEMMA WithoutSound ==
  ASSUME NEW rq, Sound(rq), NEW gs, NEW S
  PROVE  Sound(RequestsWithout(rq, gs, S))
<1> DEFINE new == RequestsWithout(rq, gs, S)
<1>1. rq \in [Rows -> RequestType]
  BY DEF Sound
<1>2. ASSUME NEW r \in Rows
      PROVE  /\ new[r] \in RequestType /\ new[r].ext = rq[r].ext
             /\ new[r].status = rq[r].status \/ (rq[r].status = "approved" /\ new[r].status = "expired")
  <2>1. new[r] = IF rq[r].status = "approved" /\ \E g \in S : gs[g].row = r
                 THEN [rq[r] EXCEPT !.status = "expired"] ELSE rq[r]
    BY DEF RequestsWithout
  <2>2. rq[r] \in RequestType
    BY <1>1
  <2>3. [rq[r] EXCEPT !.status = "expired"] \in RequestType
        /\ [rq[r] EXCEPT !.status = "expired"].status = "expired"
        /\ [rq[r] EXCEPT !.status = "expired"].ext = rq[r].ext
    BY <2>2 DEF RequestType, Statuses, Terminal
  <2> HIDE DEF new
  <2> QED
    BY <2>1, <2>2, <2>3
<1>3. new \in [Rows -> RequestType]
  BY <1>2 DEF RequestsWithout
<1> HIDE DEF new
<1>4. Active(new) \in SUBSET Active(rq) /\ Active(rq) \in SUBSET Rows
  BY <1>2 DEF Active, Open
<1>5. Cardinality(Active(new)) <= 1
  BY <1>4, FewerActive DEF Sound
<1>6. Sound(new)
  BY <1>2, <1>3, <1>5 DEF Sound
<1> QED
  BY <1>6 DEF new

\* Grants in use stay; the others are not used.
Unused(gs) ==
  /\ gs \in [Keys -> GrantType]
  /\ \A g \in Keys : IF g \in InUse THEN gs[g] = grants[g]
                     ELSE gs[g].status \notin {"reserved", "consumed"} /\ gs[g].op \in {grants[g].op, None}

LEMMA UnusedNow == ASSUME TInv PROVE Unused(grants)
BY TypesMeet DEF Unused, InUse, Books

LEMMA GrantsAfterUnused ==
  ASSUME TInv, NEW a, Valid(a), NEW rq
  PROVE  /\ Unused(GrantsAfter(a, rq))
         /\ \A g \in Keys : /\ GrantsAfter(a, rq)[g].status # "absent" <=> grants[g].status # "absent" \/ g \in Listed(a)
                            /\ GrantsAfter(a, rq)[g].status = "approved" => g \in Listed(a)
<1> DEFINE new == GrantsAfter(a, rq)
<1>1. ASSUME NEW g \in Keys
      PROVE  /\ new[g] \in GrantType
             /\ IF g \in InUse THEN new[g] = grants[g]
                ELSE new[g].status \notin {"reserved", "consumed"} /\ new[g].op \in {grants[g].op, None}
             /\ new[g].status # "absent" <=> grants[g].status # "absent" \/ g \in Listed(a)
             /\ new[g].status = "approved" => g \in Listed(a)
  <2>1. grants[g] \in GrantType /\ grants[g].status \in {"absent", "approved", "reserved", "consumed", "expired"}
    BY GrantFields, TypesMeet
  <2>2. CASE g \in Listed(a) \ InUse
    <3>1. new[g] = [status |-> "approved", row |-> RowFor(rq, g), op |-> None]
      BY <2>2 DEF GrantsAfter
    <3>2. RowFor(rq, g) \in Rows \cup {None}
      BY RowForType
    <3>3. new[g] \in GrantType /\ new[g].status = "approved" /\ new[g].op = None
      BY <3>1, <3>2 DEF GrantType
    <3> HIDE DEF new
    <3> QED
      BY <2>2, <3>3
  <2>3. CASE g \notin Listed(a) \ InUse /\ grants[g].status = "approved"
    <3>1. new[g] = [grants[g] EXCEPT !.status = "expired"]
      BY <2>3 DEF GrantsAfter
    <3>2. new[g] \in GrantType /\ new[g].status = "expired" /\ new[g].op = grants[g].op
      BY <2>1, <3>1 DEF GrantType
    <3> HIDE DEF new
    <3> QED
      BY <2>3, <3>2 DEF InUse
  <2>4. CASE g \notin Listed(a) \ InUse /\ grants[g].status # "approved"
    <3>1. new[g] = grants[g]
      BY <2>4 DEF GrantsAfter
    <3> HIDE DEF new
    <3> QED
      BY <2>1, <2>4, <3>1 DEF InUse
  <2> QED
    BY <2>2, <2>3, <2>4
<1>2. new \in [Keys -> GrantType]
  BY <1>1 DEF GrantsAfter
<1> HIDE DEF new
<1>3. Unused(new) /\ \A g \in Keys : /\ new[g].status # "absent" <=> grants[g].status # "absent" \/ g \in Listed(a)
                                     /\ new[g].status = "approved" => g \in Listed(a)
  BY <1>1, <1>2 DEF Unused
<1> QED
  BY <1>3 DEF new

LEMMA WithoutUnused ==
  ASSUME TInv, NEW gs, Unused(gs), NEW S, S \subseteq {g \in Keys : gs[g].status = "approved"}
  PROVE  /\ Unused(GrantsWithout(gs, S))
         /\ \A g \in Keys : /\ GrantsWithout(gs, S)[g].status # "absent" <=> gs[g].status # "absent"
                            /\ GrantsWithout(gs, S)[g].status = "approved" => gs[g].status = "approved"
<1> DEFINE new == GrantsWithout(gs, S)
<1>1. ASSUME NEW g \in Keys
      PROVE  /\ new[g] \in GrantType /\ new[g].op = gs[g].op
             /\ new[g] = gs[g] \/ (gs[g].status = "approved" /\ new[g].status = "expired")
  <2>1. gs[g] \in GrantType
    BY DEF Unused
  <2>2. new[g] = IF g \in S THEN [gs[g] EXCEPT !.status = "expired"] ELSE gs[g]
    BY DEF GrantsWithout
  <2>3. [gs[g] EXCEPT !.status = "expired"] \in GrantType
        /\ [gs[g] EXCEPT !.status = "expired"].status = "expired"
        /\ [gs[g] EXCEPT !.status = "expired"].op = gs[g].op
    BY <2>1 DEF GrantType
  <2> HIDE DEF new
  <2> QED
    BY <2>1, <2>2, <2>3
<1>2. new \in [Keys -> GrantType]
  BY <1>1 DEF GrantsWithout
<1> HIDE DEF new
<1>3. \A g \in Keys : g \in InUse => gs[g].status # "approved"
  BY DEF Unused, InUse
<1>4. Unused(new) /\ \A g \in Keys : /\ new[g].status # "absent" <=> gs[g].status # "absent"
                                     /\ new[g].status = "approved" => gs[g].status = "approved"
  BY <1>1, <1>2, <1>3 DEF Unused
<1> QED
  BY <1>4 DEF new

LEMMA LapsedApproved ==
  ASSUME TInv, NEW gs
  PROVE  Lapsed(gs) \subseteq {g \in Keys : gs[g].status = "approved"}
BY TypesMeet DEF Lapsed, Around

\* The books after a merge or an expiry: nothing in use has changed.
Imported == /\ Sound(requests') /\ Unused(grants')
            /\ order' \in Seq(Keys) /\ Dated(grants', order')

LEMMA ExpireEffect ==
  ASSUME TInv, Expire(requests, grants), UNCHANGED order
  PROVE  /\ Imported
         /\ \A g \in Keys : /\ grants'[g].status # "absent" => grants[g].status # "absent"
                            /\ grants'[g].status = "approved" => grants[g].status = "approved"
<1>1. Sound(requests')
  BY SoundNow, WithoutSound DEF Expire
<1>2. Unused(grants')
      /\ \A g \in Keys : /\ grants'[g].status # "absent" <=> grants[g].status # "absent"
                         /\ grants'[g].status = "approved" => grants[g].status = "approved"
  BY UnusedNow, LapsedApproved, WithoutUnused DEF Expire
<1>3. order \in Seq(Keys) /\ Dated(grants, order)
  BY TypesMeet DEF Books
<1> QED
  BY <1>1, <1>2, <1>3 DEF Imported, Dated

LEMMA DatedAppend ==
  ASSUME NEW ord \in Seq(Keys), NEW e \in Keys, NEW g \in Keys
  PROVE  /\ Append(ord, e) \in Seq(Keys)
         /\ (\E i \in 1..Len(Append(ord, e)) : Append(ord, e)[i] = g)
              <=> (g = e \/ \E i \in 1..Len(ord) : ord[i] = g)
<1> DEFINE new == Append(ord, e)
<1>1. new \in Seq(Keys) /\ Len(ord) \in Nat /\ Len(new) = Len(ord) + 1
      /\ \A i \in 1..Len(new) : new[i] = IF i <= Len(ord) THEN ord[i] ELSE e
  OBVIOUS
<1> HIDE DEF new
<1>2. Len(new) \in 1..Len(new) /\ new[Len(new)] = e /\ \A i \in 1..Len(ord) : i \in 1..Len(new) /\ new[i] = ord[i]
  BY <1>1
<1>3. \A i \in 1..Len(new) : i \in 1..Len(ord) \/ i = Len(new)
  BY <1>1
<1>4. (\E i \in 1..Len(new) : new[i] = g) <=> (g = e \/ \E i \in 1..Len(ord) : ord[i] = g)
  BY <1>2, <1>3
<1> QED
  BY <1>1, <1>4 DEF new

LEMMA ImportEffect ==
  ASSUME TInv, NEW a, Valid(a), Import(a)
  PROVE  /\ Imported
         /\ \A g \in Keys : /\ grants'[g].status # "absent" => grants[g].status # "absent" \/ g \in Listed(a)
                            /\ grants'[g].status = "approved" => grants[g].status = "approved" \/ g \in Listed(a)
                            /\ grants'[g].status = "approved" /\ ~Raises(a) => g \in Listed(a)
<1>1. CASE Raises(a)
  <2>1. Expire(requests, grants) /\ UNCHANGED order
    BY <1>1 DEF Import
  <2> QED
    BY <1>1, <2>1, ExpireEffect
<1>2. CASE ~Raises(a)
  <2> DEFINE rq == RequestsAfter(a)
             gs == GrantsAfter(a, rq)
  <2>1. Sound(rq) /\ Sound(ApprovedAfter(a, rq))
    BY RequestsAfterSound, ApprovedSound
  <2>2. Unused(gs) /\ \A g \in Keys : /\ gs[g].status # "absent" <=> grants[g].status # "absent" \/ g \in Listed(a)
                                      /\ gs[g].status = "approved" => g \in Listed(a)
    BY GrantsAfterUnused
  <2>3. /\ Expire(ApprovedAfter(a, rq), gs)
        /\ order' = IF \E g \in Listed(a) : grants[g].status = "absent" THEN Append(order, a.id) ELSE order
    BY <1>2 DEF Import
  <2> HIDE DEF rq, gs
  <2>4. Sound(requests')
    BY <2>1, <2>3, WithoutSound DEF Expire
  <2>5. Unused(grants') /\ \A g \in Keys : /\ grants'[g].status # "absent" <=> gs[g].status # "absent"
                                           /\ grants'[g].status = "approved" => gs[g].status = "approved"
    BY <2>2, <2>3, LapsedApproved, WithoutUnused DEF Expire
  <2>6. order \in Seq(Keys) /\ Dated(grants, order)
    BY TypesMeet DEF Books
  <2>7. order' \in Seq(Keys) /\ Dated(grants', order')
    <3>1. CASE \E g \in Listed(a) : grants[g].status = "absent"
      <4>1. a.id \in Keys /\ Listed(a) = {a.id}
        BY <3>1, ListedGranted DEF Listed
      <4>2. order' = Append(order, a.id)
        BY <2>3, <3>1
      <4>3. ASSUME NEW g \in Keys
            PROVE  grants'[g].status # "absent" <=> \E i \in 1..Len(order') : order'[i] = g
        <5>1. (\E i \in 1..Len(order') : order'[i] = g) <=> (g = a.id \/ \E i \in 1..Len(order) : order[i] = g)
          BY <2>6, <4>1, <4>2, DatedAppend
        <5>2. grants[g].status # "absent" <=> \E i \in 1..Len(order) : order[i] = g
          BY <2>6 DEF Dated
        <5> QED
          BY <2>2, <2>5, <4>1, <5>1, <5>2
      <4>4. order' \in Seq(Keys)
        BY <2>6, <4>1, <4>2, DatedAppend
      <4> QED
        BY <4>3, <4>4 DEF Dated
    <3>2. CASE ~(\E g \in Listed(a) : grants[g].status = "absent")
      BY <2>2, <2>3, <2>5, <2>6, <3>2 DEF Dated
    <3> QED
      BY <3>1, <3>2
  <2> QED
    BY <2>2, <2>4, <2>5, <2>7 DEF Imported
<1> QED
  BY <1>1, <1>2
-----------------------------------------------------------------------------
(* What no step takes back, and the calls of Baza.                         *)

Onward == /\ \A k \in Keys : /\ remote[k] # "none" => remote'[k] # "none"
                             /\ remote[k] \in Granted => remote'[k] \in Granted
          /\ \A r \in Rows : requests[r].status # "absent" => requests'[r].status # "absent"
          /\ \A o \in Ops : claims[o] = "done" => claims'[o] = "done"

LEMMA ItemsApart ==
  /\ \A k \in Keys : /\ Request(k) \in Items /\ Request(k) # None /\ Request(k)[1] = "request" /\ Request(k)[2] = k
                     /\ \A j \in Keys : Request(k) = Request(j) => k = j
                     /\ \A o \in Ops : Request(k) # Event(o)
  /\ \A o \in Ops : /\ Event(o) \in Items /\ Event(o) # None /\ Event(o)[1] = "claim"
                    /\ \A p \in Ops : Event(o) = Event(p) => o = p
<1>1. /\ \A k \in Keys : Request(k) \in {"request", "claim"} \X Nat
      /\ \A o \in Ops : Event(o) \in {"request", "claim"} \X Nat
  BY Numbers DEF Request, Event, Keys, Ops
<1>2. None \notin {"request", "claim"} \X Nat
  BY ExtraAssumption
<1>3. \A k \in Keys : Request(k) # None
  BY <1>1, <1>2
<1>4. \A o \in Ops : Event(o) # None
  BY <1>1, <1>2
<1> QED
  BY <1>3, <1>4 DEF Request, Event, Items

LEMMA DealsStay == ASSUME TInv, UNCHANGED deals PROVE DealTypes'
BY TypesMeet DEF Around, DealTypes, deals, strays

LEMMA TruthStays ==
  ASSUME TInv, Onward, NEW p \in Posts, Truthful(p)
  PROVE  Truthful(p)'
<1>1. p.answer \in Answers /\ p.answer.id \in Keys \cup {None}
  BY DEF Posts, Answers
<1> QED
  BY <1>1, Numbers DEF Truthful, Onward

LEMMA TruthFrame ==
  ASSUME TInv, Onward, UNCHANGED post
  PROVE  Truth'
<1>1. ASSUME NEW t \in Threads PROVE \E p \in Posts : post'[t] = p /\ Truthful(p)'
  <2> PICK p \in Posts : p = post[t]
    BY TypesMeet DEF Around
  <2>1. Truthful(p)'
    BY TruthStays, TypesMeet DEF Truth
  <2>2. post'[t] = p
    OBVIOUS
  <2> QED
    BY <2>1, <2>2
<1>2. ASSUME NEW t \in Threads PROVE Truthful(post[t])'
  BY <1>1 DEF Truthful
<1> QED
  BY <1>2 DEF Truth

LEMMA CallStep ==
  ASSUME TInv, Onward, NEW t \in Threads, NEW q \in Posts, Truthful(q)', Calls(t, q)
  PROVE  Truth' /\ post' \in [Threads -> Posts]
<1>1. post \in [Threads -> Posts] /\ post' = [post EXCEPT ![t] = q]
  BY TypesMeet DEF Around, Calls
<1>2. ASSUME NEW u \in Threads PROVE \E p \in Posts : post'[u] = p /\ Truthful(p)'
  <2> PICK p \in Posts : p = post[u]
    BY <1>1
  <2>1. Truthful(p)'
    BY TruthStays, TypesMeet DEF Truth
  <2>2. post'[u] = IF u = t THEN q ELSE p
    BY <1>1
  <2> QED
    BY <2>1, <2>2
<1>3. ASSUME NEW u \in Threads PROVE Truthful(post[u])'
  BY <1>2 DEF Truthful
<1>4. post' \in [Threads -> Posts]
  BY <1>1
<1> QED
  BY <1>3, <1>4 DEF Truth

LEMMA IdleTruth ==
  /\ Idle \in Posts /\ Truthful(Idle) /\ Truthful(Idle)'
  /\ Idle.pc = "idle" /\ Idle.about = None
<1>1. Idle \in Posts
  BY DEF Idle, NoAnswer, Answer, Posts, Answers, Codes
<1>2. Idle.about = None /\ Idle.pc = "idle" /\ Idle.answer.id = None /\ Idle.answer.status = "none" /\ Idle.answer.code = "none"
  BY DEF Idle, NoAnswer, Answer
<1>3. (\A k \in Keys : Request(k) # None) /\ \A o \in Ops : Event(o) # None
  BY ItemsApart
<1> QED
  BY <1>1, <1>2, <1>3 DEF Truthful

LEMMA BackToIdle ==
  ASSUME TInv, Onward, NEW t \in Threads, Calls(t, Idle)
  PROVE  Truth' /\ post' \in [Threads -> Posts]
BY IdleTruth, CallStep

LEMMA StateTruth ==
  ASSUME TInv
  PROVE  State \in Posts /\ Truthful(State) /\ State.pc = "answered" /\ State.about = None
<1> DEFINE status == IF latest = None THEN "none" ELSE remote[latest]
<1>1. /\ latest \in Keys \cup {None} /\ status \in Decisions \cup {"none"}
      /\ latest # None => status \in Decisions /\ remote[latest] # "none" /\ status = remote[latest]
      /\ latest = None => status = "none"
  BY TypesMeet DEF Around, Rooted
<1>2. /\ State.about = None /\ State.pc = "answered" /\ State.answer = [code |-> "ok", id |-> latest, status |-> status]
      /\ State = [pc |-> "answered", about |-> None, answer |-> [code |-> "ok", id |-> latest, status |-> status]]
  BY DEF State, Answer
<1> HIDE DEF status
<1>3. [code |-> "ok", id |-> latest, status |-> status] \in Answers
  BY <1>1 DEF Answers, Codes
<1>4. State \in Posts
  BY <1>2, <1>3 DEF Posts
<1>5. State.answer.id = latest /\ State.answer.status = status
  BY <1>2
<1>6. (\A k \in Keys : Request(k) # None) /\ \A o \in Ops : Event(o) # None
  BY ItemsApart
<1>7. Truthful(State)
  BY <1>1, <1>2, <1>5, <1>6 DEF Truthful, Granted
<1> QED
  BY <1>2, <1>4, <1>7

LEMMA StateStep ==
  ASSUME TInv, Onward, NEW t \in Threads, Calls(t, State)
  PROVE  Truth' /\ post' \in [Threads -> Posts]
<1> PICK q \in Posts : q = State
  BY StateTruth
<1>1. Truthful(q)'
  BY StateTruth, TruthStays
<1> QED
  BY <1>1, CallStep

\* What is sent was queued before.
LEMMA SendsRooted ==
  ASSUME TInv, NEW t \in Deliverers, NEW i \in Items, Sends(t, i)
  PROVE  /\ \A k \in Keys : i = Request(k) => requests[k].status # "absent"
         /\ \A o \in Ops : i = Event(o) => claims[o] = "done"
<1>1. t \in Threads
  BY DEF Threads
<1>2. Truthful(post[t])
  BY <1>1, TypesMeet DEF Truth
<1>3. post[t].about = i \/ outbox[i] # {}
  BY DEF Sends, Due
<1> QED
  BY <1>2, <1>3, TypesMeet DEF Truthful, Rooted

LEMMA FaultStep ==
  ASSUME TInv, Fault \/ UNCHANGED faults
  PROVE  faults' \in 0..MaxFaults
BY Numbers, TypesMeet DEF Fault, Around

LEMMA GetsStep ==
  ASSUME TInv, Onward, NEW t \in Deliverers, NEW i \in Items, Sends(t, i), NEW a \in Answers,
         a.id # None => a.status \in Decisions /\ remote'[a.id] # "none",
         a.status = "approved" => a.id # None /\ remote'[a.id] \in Granted,
         a.code \in {"ok", "active_request_exists"} => a.id # None,
         Gets(t, i, a)
  PROVE  Truth' /\ post' \in [Threads -> Posts]
<1> DEFINE q == [pc |-> "answered", about |-> i, answer |-> a]
<1>1. q \in Posts /\ q.pc = "answered" /\ q.about = i /\ q.answer = a
  BY DEF Posts
<1>2. t \in Threads /\ Calls(t, q)
  BY DEF Gets, Threads
<1> HIDE DEF q
<1>3. /\ \A k \in Keys : i = Request(k) => requests'[k].status # "absent"
      /\ \A o \in Ops : i = Event(o) => claims'[o] = "done"
  BY SendsRooted, Numbers DEF Onward
<1>4. Truthful(q)'
  BY <1>1, <1>3 DEF Truthful
<1> QED
  BY <1>1, <1>2, <1>4, CallStep

LEMMA ReplyStep ==
  ASSUME TInv, Onward, NEW t \in Deliverers, NEW i \in Items, NEW a \in Answers,
         a.id # None => a.status \in Decisions /\ remote'[a.id] # "none",
         a.status = "approved" => a.id # None /\ remote'[a.id] \in Granted,
         a.code \in {"ok", "active_request_exists"} => a.id # None,
         Reply(t, i, a)
  PROVE  Truth' /\ post' \in [Threads -> Posts] /\ faults' \in 0..MaxFaults
<1>1. t \in Threads /\ Sends(t, i)
  BY DEF Threads, Reply
<1>2. faults' \in 0..MaxFaults
  BY FaultStep DEF Reply
<1>3. CASE Gets(t, i, a)
  BY <1>1, <1>2, <1>3, GetsStep
<1>4. CASE Calls(t, Idle)
  BY <1>1, <1>2, <1>4, BackToIdle
<1> QED
  BY <1>3, <1>4 DEF Reply

\* How the parts make up the invariant after a step.
LEMMA Meets ==
  ASSUME TInv, Sound(requests'), grants' \in [Keys -> GrantType], order' \in Seq(Keys), Dated(grants', order'),
         Around', Truth',
         \A k \in Keys : outbox'[Request(k)] # {} \/ remote'[k] # "none" => requests'[k].status # "absent",
         \A o \in Ops : outbox'[Event(o)] # {} => claims'[o] = "done",
         latest' # None => remote'[latest'] # "none",
         \A g \in Keys : grants'[g].status # "absent" => remote'[g] \in Granted
  PROVE  TInv'
<1>1. Books' /\ Rooted'
  BY DEF Books, Rooted, Sound, Active, Dated
<1> QED
  BY <1>1, TypesMeet DEF TInv, TypeOK, Books, Around, DealTypes, Truth, RequestType, GrantType, Dated,
       Posts, Decisions

\* The books stay.
LEMMA MeetsBooks ==
  ASSUME TInv, UNCHANGED books, Onward, Around', Truth',
         \A k \in Keys : outbox'[Request(k)] # {} => outbox[Request(k)] # {},
         \A k \in Keys : remote'[k] # "none" => remote[k] # "none" \/ requests[k].status # "absent",
         \A o \in Ops : outbox'[Event(o)] # {} => outbox[Event(o)] # {},
         latest' # latest => remote'[latest'] # "none"
  PROVE  TInv'
<1>1. /\ Sound(requests') /\ grants' \in [Keys -> GrantType] /\ order' \in Seq(Keys) /\ Dated(grants', order')
      /\ requests' = requests /\ grants' = grants
  BY SoundNow, TypesMeet DEF books, Books
<1>2. \A k \in Keys : outbox'[Request(k)] # {} \/ remote'[k] # "none" => requests'[k].status # "absent"
  BY <1>1, TypesMeet DEF Rooted
<1>3. /\ \A o \in Ops : outbox'[Event(o)] # {} => claims'[o] = "done"
      /\ \A g \in Keys : grants'[g].status # "absent" => remote'[g] \in Granted
  BY <1>1, TypesMeet DEF Rooted, Onward
<1>4. latest' # None => remote'[latest'] # "none"
  BY TypesMeet DEF Rooted, Onward, Around
<1> QED
  BY <1>1, <1>2, <1>3, <1>4, Meets
-----------------------------------------------------------------------------
(* Types and what is known, step by step.                                  *)

LEMMA OldestIn ==
  ASSUME NEW ord, NEW S
  PROVE  Oldest(ord, S) \in S \cup {None}
<1> DEFINE first == {g \in S : \E i \in 1..Len(ord) : ord[i] = g /\ \A j \in 1..(i - 1) : ord[j] \notin S}
<1>1. Oldest(ord, S) = IF first = {} THEN None ELSE CHOOSE g \in first : TRUE
  BY DEF Oldest
<1>2. first \subseteq S
  OBVIOUS
<1> HIDE DEF first
<1> QED
  BY <1>1, <1>2

LEMMA CandidateIn ==
  ASSUME NEW gs, NEW ord, NEW o, NEW g, g = Candidate(gs, ord, o), g # None
  PROVE  /\ g \in Keys
         /\ g \in HeldBy(gs, o) \/ (HeldBy(gs, o) = {} /\ gs[g].status = "approved" /\ g \notin overdue)
<1>1. CASE HeldBy(gs, o) # {}
  BY <1>1, OldestIn DEF Candidate, HeldBy
<1>2. CASE HeldBy(gs, o) = {}
  <2>1. g \in {h \in Keys : gs[h].status = "approved"} \ overdue
    BY <1>2, OldestIn DEF Candidate
  <2> QED
    BY <1>2, <2>1
<1> QED
  BY <1>1, <1>2

LEMMA AtRestType == \A gs, o : AtRest(gs, o) \in {"held", "open"}
BY DEF AtRest

LEMMA AskTypes ==
  ASSUME TInv, NEW k \in Keys, Ask(k)
  PROVE  TInv'
<1> DEFINE row == [requests[k] EXCEPT !.status = "queued"]
           new == [requests EXCEPT ![k] = row]
<1>1. requests \in [Rows -> RequestType] /\ k \in Rows /\ requests[k] \in RequestType
  BY Numbers, TypesMeet DEF Books
<1>2. row \in RequestType /\ row.status = "queued"
  BY <1>1 DEF RequestType, Statuses
<1>3. requests' = new /\ Active(requests) = {} /\ UNCHANGED <<grants, order, post, claims, remote, latest>>
  BY <1>1 DEF Ask, RequestType, baza
<1>4. new \in [Rows -> RequestType] /\ new[k].status = "queued" /\ \A r \in Rows : r # k => new[r] = requests[r]
  BY <1>1, <1>2
<1> HIDE DEF new, row
<1>5. Active(new) \in SUBSET {k}
  BY <1>3, <1>4 DEF Active
<1>6. Sound(requests')
  <2>1. Cardinality(Active(new)) <= 1
    BY <1>5, OneActive
  <2>2. \A r \in Rows : /\ new[r].ext # None => new[r].status # "absent"
                        /\ requests[r].status # "absent" => new[r].status # "absent"
    BY <1>4, TypesMeet DEF Rooted
  <2> QED
    BY <1>3, <1>4, <2>1, <2>2 DEF Sound
<1>7. Onward
  BY <1>3, <1>6 DEF Onward, Sound
<1>8. Truth'
  BY <1>3, <1>7, TruthFrame
<1>9. /\ outbox' = [outbox EXCEPT ![Request(k)] = {"queued"}] /\ outbox \in [Items -> SUBSET {"queued", "delivered", "dead"}]
      /\ Request(k) \in Items
  BY ItemsApart, TypesMeet DEF Ask, Around
<1>10. Around'
  <2>1. outbox' \in [Items -> SUBSET {"queued", "delivered", "dead"}]
    BY <1>9
  <2> QED
    BY <2>1, DealsStay, TypesMeet DEF Ask, Around, baza
<1>11. /\ \A j \in Keys : j # k => outbox'[Request(j)] = outbox[Request(j)]
       /\ \A o \in Ops : outbox'[Event(o)] = outbox[Event(o)]
  BY <1>9, ItemsApart
<1>12. \A j \in Keys : outbox'[Request(j)] # {} \/ remote'[j] # "none" => requests'[j].status # "absent"
  <2> TAKE j \in Keys
  <2>1. CASE j = k
    BY <1>3, <1>4, <2>1
  <2>2. CASE j # k
    BY <1>3, <1>4, <1>11, <2>2, Numbers, TypesMeet DEF Rooted
  <2> QED
    BY <2>1, <2>2
<1>13. /\ grants' \in [Keys -> GrantType] /\ order' \in Seq(Keys) /\ Dated(grants', order')
       /\ \A o \in Ops : outbox'[Event(o)] # {} => claims'[o] = "done"
       /\ latest' # None => remote'[latest'] # "none"
       /\ \A g \in Keys : grants'[g].status # "absent" => remote'[g] \in Granted
  BY <1>3, <1>11, TypesMeet DEF Books, Rooted
<1> QED
  BY <1>6, <1>8, <1>10, <1>12, <1>13, Meets

\* A merge or an expiry, by whatever call.
LEMMA ImportedTypes ==
  ASSUME TInv, Imported, Around', Truth', UNCHANGED <<outbox, remote, latest>>,
         \A o \in Ops : claims[o] = "done" => claims'[o] = "done",
         \A g \in Keys : grants'[g].status # "absent" => grants[g].status # "absent" \/ remote[g] \in Granted
  PROVE  TInv'
<1>1. /\ Sound(requests') /\ grants' \in [Keys -> GrantType] /\ order' \in Seq(Keys) /\ Dated(grants', order')
  BY DEF Imported, Unused
<1>2. \A k \in Keys : outbox'[Request(k)] # {} \/ remote'[k] # "none" => requests'[k].status # "absent"
  BY <1>1, Numbers, TypesMeet DEF Rooted, Sound
<1>3. /\ \A o \in Ops : outbox'[Event(o)] # {} => claims'[o] = "done"
      /\ latest' # None => remote'[latest'] # "none"
      /\ \A g \in Keys : grants'[g].status # "absent" => remote'[g] \in Granted
  BY TypesMeet DEF Rooted
<1> QED
  BY <1>1, <1>2, <1>3, Meets

LEMMA ImportedOnward ==
  ASSUME TInv, Sound(requests'), UNCHANGED remote,
         \A o \in Ops : claims[o] = "done" => claims'[o] = "done"
  PROVE  Onward
BY DEF Sound, Onward

\* The answer that a call has.
LEMMA PostedAnswer ==
  ASSUME TInv, NEW t \in Threads
  PROVE  Valid(post[t].answer) /\ post[t] \in Posts /\ post[t].about \in Items \cup {None}
BY TypesMeet DEF Around, Truth, Truthful, Valid, Posts

LEMMA PageTypes ==
  ASSUME TInv, Look \/ Query \/ Refresh
  PROVE  TInv'
<1>1. CASE Look
  <2>1. Expire(requests, grants) /\ UNCHANGED <<order, outbox, claims, deals, post, baza, shape, faults, shown>>
    BY <1>1 DEF Look
  <2>2. Imported /\ \A g \in Keys : grants'[g].status # "absent" => grants[g].status # "absent"
    BY <2>1, ExpireEffect
  <2>3. Onward
    BY <2>1, <2>2, ImportedOnward DEF Imported, baza
  <2>4. Truth'
    BY <2>1, <2>3, TruthFrame
  <2>5. Around'
    BY <2>1, DealsStay, TypesMeet DEF Around, baza
  <2> QED
    BY <2>1, <2>2, <2>4, <2>5, ImportedTypes DEF baza
<1>2. CASE Query
  <2>1. Calls("page", State) /\ UNCHANGED <<books, outbox, claims, deals, baza, shape, faults, shown>>
    BY <1>2 DEF Query
  <2>2. Onward /\ "page" \in Threads
    BY <2>1 DEF Onward, books, baza, Threads, Deliverers
  <2>3. Truth' /\ post' \in [Threads -> Posts]
    BY <2>1, <2>2, StateStep
  <2>4. Around'
    BY <2>1, <2>3, DealsStay, TypesMeet DEF Around, baza
  <2> QED
    BY <2>1, <2>2, <2>3, <2>4, MeetsBooks DEF baza
<1>3. CASE Refresh
  <2> DEFINE a == post["page"].answer
  <2>0. "page" \in Threads
    BY DEF Threads, Deliverers
  <2>1. /\ Import(a) /\ Calls("page", Idle) /\ UNCHANGED <<outbox, claims, deals, baza, shape, faults>>
        /\ shown' \subseteq Keys
    BY <1>3, TypesMeet DEF Refresh, Around
  <2>2. Valid(a)
    BY <2>0, PostedAnswer
  <2> HIDE DEF a
  <2>3. Imported /\ \A g \in Keys : grants'[g].status # "absent" => grants[g].status # "absent" \/ g \in Listed(a)
    BY <2>1, <2>2, ImportEffect
  <2>4. Onward
    BY <2>1, <2>3, ImportedOnward DEF Imported, baza
  <2>5. Truth' /\ post' \in [Threads -> Posts]
    BY <2>0, <2>1, <2>4, BackToIdle
  <2>6. Around'
    BY <2>1, <2>5, DealsStay, TypesMeet DEF Around, baza
  <2>7. \A g \in Keys : grants'[g].status # "absent" => grants[g].status # "absent" \/ remote[g] \in Granted
    BY <2>2, <2>3, ListedGranted
  <2> QED
    BY <2>1, <2>3, <2>5, <2>6, <2>7, ImportedTypes DEF baza
<1> QED
  BY <1>1, <1>2, <1>3

LEMMA ListTypes ==
  ASSUME TInv, NEW k \in Keys, List(k)
  PROVE  TInv'
<1> DEFINE q == [Idle EXCEPT !.pc = "listed", !.about = Request(k)]
<1>1. Calls("loop", q) /\ UNCHANGED <<books, outbox, claims, deals, baza, shape, faults, shown>>
      /\ outbox[Request(k)] # {}
  BY DEF List, Due
<1>2. Onward /\ "loop" \in Threads
  BY <1>1 DEF Onward, books, baza, Threads, Deliverers
<1>3. NoAnswer \in Answers /\ NoAnswer.id = None /\ NoAnswer.status = "none" /\ NoAnswer.code = "none"
  BY DEF NoAnswer, Answer, Answers, Codes
<1>4. q \in Posts /\ q.pc = "listed" /\ q.about = Request(k) /\ q.answer.id = None /\ q.answer.status = "none"
      /\ q.answer.code = "none"
  <2>1. Idle \in Posts /\ Idle.answer = NoAnswer
    BY IdleTruth DEF Idle
  <2>2. q.pc = "listed" /\ q.about = Request(k) /\ q.answer = NoAnswer
    BY <2>1 DEF Posts
  <2>3. q \in Posts
    BY <2>1, ItemsApart DEF Posts
  <2> HIDE DEF q
  <2> QED
    BY <1>3, <2>2, <2>3
<1>5. requests[k].status # "absent"
  BY <1>1, TypesMeet DEF Rooted
<1> HIDE DEF q
<1>6. Truthful(q)
  BY <1>4, <1>5, ItemsApart DEF Truthful
<1>7. Truth' /\ post' \in [Threads -> Posts]
  <2> PICK p \in Posts : p = q
    BY <1>4
  <2>1. Truthful(p)'
    BY <1>2, <1>6, TruthStays
  <2> QED
    BY <1>1, <1>2, <2>1, CallStep
<1>8. Around'
  BY <1>1, <1>7, DealsStay, TypesMeet DEF Around, baza
<1> QED
  BY <1>1, <1>2, <1>7, <1>8, MeetsBooks DEF baza

\* A reply: Baza goes on, and the books stay.
LEMMA ReplyTypes ==
  ASSUME TInv, NEW t \in Deliverers, NEW i \in Items, NEW a \in Answers, Reply(t, i, a),
         remote' \in [Keys -> Decisions \cup {"none"}], spentFor' \in [Keys -> Ops \cup {None}],
         latest' \in Keys \cup {None},
         \A k \in Keys : /\ remote[k] # "none" => remote'[k] # "none"
                         /\ remote[k] \in Granted => remote'[k] \in Granted
                         /\ remote'[k] # "none" => remote[k] # "none" \/ requests[k].status # "absent",
         latest' # latest => remote'[latest'] # "none",
         a.id # None => a.status \in Decisions /\ remote'[a.id] # "none",
         a.status = "approved" => a.id # None /\ remote'[a.id] \in Granted,
         a.code \in {"ok", "active_request_exists"} => a.id # None
  PROVE  TInv'
<1>1. UNCHANGED <<books, outbox, claims, deals, overdue, shape, shown>>
  BY DEF Reply
<1>2. Onward
  BY <1>1 DEF Onward, books
<1>3. Truth' /\ post' \in [Threads -> Posts] /\ faults' \in 0..MaxFaults
  BY <1>2, ReplyStep
<1>4. Around'
  BY <1>1, <1>3, DealsStay, TypesMeet DEF Around
<1> QED
  BY <1>1, <1>2, <1>3, <1>4, MeetsBooks

LEMMA AnswerFields ==
  ASSUME NEW code \in Codes, NEW e \in Keys \cup {None}, NEW status \in Decisions \cup {"none"}
  PROVE  /\ Answer(code, e, status) \in Answers
         /\ Answer(code, e, status).code = code /\ Answer(code, e, status).id = e
         /\ Answer(code, e, status).status = status
BY DEF Answer, Answers

LEMMA ReceiveTypes ==
  ASSUME TInv, Paying, NEW t \in Deliverers, Receive(t)
  PROVE  TInv'
<1>0. /\ remote \in [Keys -> Decisions \cup {"none"}] /\ spentFor \in [Keys -> Ops \cup {None}]
      /\ latest \in Keys \cup {None}
      /\ "none" \notin Granted /\ "none" \notin Decisions
      /\ Granted \subseteq Decisions /\ {"ok", "active_request_exists", "grant_unavailable", "refused"} \subseteq Codes
  BY TypesMeet DEF Around, Granted, Decisions, Codes
<1>1. ASSUME NEW k \in Keys, Create(t, k) PROVE TInv'
  <2> PICK a \in Answers : a = Answer("ok", k, "pending") /\ a.code = "ok" /\ a.id = k /\ a.status = "pending"
    BY <1>0, AnswerFields DEF Decisions
  <2>1. /\ Reply(t, Request(k), a) /\ remote[k] = "none" /\ remote' = [remote EXCEPT ![k] = "pending"]
        /\ latest' = k /\ spentFor' = spentFor
    BY <1>1 DEF Create
  <2>2. Request(k) \in Items /\ requests[k].status # "absent"
    <3>1. t \in Deliverers /\ Sends(t, Request(k))
      BY <2>1 DEF Reply
    <3> QED
      BY <3>1, ItemsApart, SendsRooted
  <2>3. "pending" \in Decisions /\ "pending" # "none" /\ "pending" # "approved"
    BY DEF Decisions
  <2>4. remote' \in [Keys -> Decisions \cup {"none"}] /\ remote'[k] = "pending"
        /\ \A j \in Keys : j # k => remote'[j] = remote[j]
    BY <1>0, <2>1, <2>3
  <2> QED
    BY <1>0, <2>1, <2>2, <2>3, <2>4, Numbers, ReplyTypes
<1>2. ASSUME NEW k \in Keys, Repeat(t, k) PROVE TInv'
  <2> PICK a \in Answers : a = Answer("ok", k, remote[k]) /\ a.code = "ok" /\ a.id = k /\ a.status = remote[k]
    BY <1>0, AnswerFields
  <2>1. Reply(t, Request(k), a) /\ remote[k] # "none" /\ UNCHANGED <<remote, spentFor, latest>>
    BY <1>2 DEF Repeat
  <2>2. Request(k) \in Items
    BY ItemsApart
  <2> QED
    BY <1>0, <2>1, <2>2, Numbers, ReplyTypes DEF Granted
<1>3. ASSUME NEW k \in Keys, Conflict(t, k) PROVE TInv'
  <2>1. PICK e \in Undecided : Reply(t, Request(k), Answer("active_request_exists", e, remote[e]))
    BY <1>3 DEF Conflict
  <2>2. e \in Keys /\ remote[e] # "none"
    BY DEF Undecided
  <2> PICK a \in Answers : a = Answer("active_request_exists", e, remote[e])
                           /\ a.code = "active_request_exists" /\ a.id = e /\ a.status = remote[e]
    BY <1>0, <2>2, AnswerFields
  <2>3. Reply(t, Request(k), a) /\ UNCHANGED <<remote, spentFor, latest>>
    BY <1>3, <2>1 DEF Conflict
  <2>4. Request(k) \in Items
    BY ItemsApart
  <2> QED
    BY <1>0, <2>2, <2>3, <2>4, Numbers, ReplyTypes DEF Granted
<1>4. ASSUME NEW o \in Ops, Spend(t, o) PROVE TInv'
  <2>1. PICK g \in Keys :
          /\ grants[g].op = o
          /\ IF remote[g] = "approved"
             THEN /\ Reply(t, Event(o), Answer("ok", g, "consumed"))
                  /\ remote' = [remote EXCEPT ![g] = "consumed"]
                  /\ spentFor' = [spentFor EXCEPT ![g] = o]
             ELSE /\ Reply(t, Event(o), Answer(IF spentFor[g] = o THEN "ok" ELSE "grant_unavailable",
                                               g, remote[g]))
                  /\ UNCHANGED <<remote, spentFor>>
          /\ UNCHANGED latest
    BY <1>4 DEF Spend
  <2>2. Event(o) \in Items
    BY ItemsApart
  <2>3. remote[g] \in Granted
    <3>1. grants[g].op # None /\ grants[g].status \in {"reserved", "consumed"}
      BY <2>1, Numbers DEF Paying
    <3>2. grants[g].status # "absent"
      BY <3>1
    <3> QED
      BY <3>2, TypesMeet DEF Rooted
  <2>4. CASE remote[g] = "approved"
    <3> PICK a \in Answers : a = Answer("ok", g, "consumed") /\ a.code = "ok" /\ a.id = g /\ a.status = "consumed"
      BY <1>0, AnswerFields DEF Decisions
    <3>1. /\ Reply(t, Event(o), a) /\ remote' = [remote EXCEPT ![g] = "consumed"]
          /\ spentFor' = [spentFor EXCEPT ![g] = o] /\ latest' = latest
      BY <2>1, <2>4
    <3>2. "consumed" \in Decisions /\ "consumed" \in Granted /\ "consumed" # "none" /\ "consumed" # "approved"
      BY DEF Decisions, Granted
    <3>3. remote' \in [Keys -> Decisions \cup {"none"}] /\ spentFor' \in [Keys -> Ops \cup {None}]
          /\ remote'[g] = "consumed" /\ \A k \in Keys : k # g => remote'[k] = remote[k]
      BY <1>0, <3>1, <3>2
    <3> QED
      BY <1>0, <2>2, <2>3, <3>1, <3>2, <3>3, Numbers, ReplyTypes
  <2>5. CASE remote[g] # "approved"
    <3> PICK code \in {"ok", "grant_unavailable"} : code = IF spentFor[g] = o THEN "ok" ELSE "grant_unavailable"
      OBVIOUS
    <3> PICK a \in Answers : a = Answer(code, g, remote[g]) /\ a.code = code /\ a.id = g /\ a.status = remote[g]
      BY <1>0, AnswerFields
    <3>1. Reply(t, Event(o), a) /\ UNCHANGED <<remote, spentFor, latest>>
      BY <2>1, <2>5
    <3> QED
      BY <1>0, <2>2, <2>3, <3>1, Numbers, ReplyTypes
  <2> QED
    BY <2>4, <2>5
<1>5. ASSUME NEW i \in Items, Refuse(t, i) PROVE TInv'
  <2> DEFINE a == Answer("refused", None, "none")
  <2>0. a \in Answers /\ a.code = "refused" /\ a.id = None /\ a.status = "none"
    BY DEF Answer, Answers, Codes
  <2>1. Sends(t, i) /\ Fault /\ Gets(t, i, a) /\ UNCHANGED <<books, outbox, claims, deals, baza, shape, shown>>
    BY <1>5 DEF Refuse
  <2> HIDE DEF a
  <2>2. Onward
    BY <2>1 DEF Onward, books, baza
  <2>3. Truth' /\ post' \in [Threads -> Posts]
    BY <2>0, <2>1, <2>2, GetsStep
  <2>4. faults' \in 0..MaxFaults
    BY <2>1, FaultStep
  <2>5. Around'
    BY <2>1, <2>3, <2>4, DealsStay, TypesMeet DEF Around, baza
  <2> QED
    BY <2>1, <2>2, <2>3, <2>5, MeetsBooks DEF baza
<1> QED
  BY <1>1, <1>2, <1>3, <1>4, <1>5 DEF Receive

\* The mark after an answer, with what becomes of the request.
LEMMA AnsweredTypes ==
  ASSUME TInv, NEW t \in Deliverers, NEW i \in Items, NEW codes, Answered(t, i, codes), Sound(requests'),
         NEW flags \in SUBSET {"queued", "delivered", "dead"}, Mark(i, flags)
  PROVE  TInv'
<1>1. t \in Threads /\ Calls(t, Idle) /\ UNCHANGED <<grants, order, claims, deals, baza, shape, shown>>
      /\ post[t].about = i
  BY DEF Answered, Threads
<1>2. Onward
  BY <1>1 DEF Onward, Sound, baza
<1>3. Truth' /\ post' \in [Threads -> Posts]
  BY <1>1, <1>2, BackToIdle
<1>4. faults' \in 0..MaxFaults
  BY FaultStep DEF Mark
<1>5. outbox \in [Items -> SUBSET {"queued", "delivered", "dead"}]
  BY TypesMeet DEF Around
<1>6. outbox' \in [Items -> SUBSET {"queued", "delivered", "dead"}] /\ \A j \in Items : j # i => outbox'[j] = outbox[j]
  BY <1>5 DEF Mark
<1>7. Around'
  BY <1>1, <1>3, <1>4, <1>6, DealsStay, TypesMeet DEF Around, baza
<1>8. Truthful(post[t])
  BY <1>1, TypesMeet DEF Truth
<1>9. \A k \in Keys : outbox'[Request(k)] # {} \/ remote'[k] # "none" => requests'[k].status # "absent"
  <2> TAKE k \in Keys
  <2>1. remote' = remote /\ Request(k) \in Items /\ k \in Rows
    BY <1>1, ItemsApart, Numbers DEF baza
  <2>2. Request(k) = i => requests[k].status # "absent"
    BY <1>1, <1>8 DEF Truthful
  <2>3. outbox'[Request(k)] # {} \/ remote[k] # "none" => requests[k].status # "absent"
    BY <1>6, <2>1, <2>2, TypesMeet DEF Rooted
  <2> QED
    BY <2>1, <2>3 DEF Sound
<1>10. \A o \in Ops : outbox'[Event(o)] # {} => claims'[o] = "done"
  <2> TAKE o \in Ops
  <2>1. claims' = claims /\ Event(o) \in Items
    BY <1>1, ItemsApart
  <2>2. Event(o) = i => claims[o] = "done"
    BY <1>1, <1>8 DEF Truthful
  <2> QED
    BY <1>6, <2>1, <2>2, TypesMeet DEF Rooted
<1>11. /\ grants' \in [Keys -> GrantType] /\ order' \in Seq(Keys) /\ Dated(grants', order')
       /\ latest' # None => remote'[latest'] # "none"
       /\ \A g \in Keys : grants'[g].status # "absent" => remote'[g] \in Granted
  BY <1>1, TypesMeet DEF Books, Rooted, baza
<1> QED
  BY <1>3, <1>7, <1>9, <1>10, <1>11, Meets

LEMMA HandleTypes ==
  ASSUME TInv, NEW t \in Deliverers, Handle(t)
  PROVE  TInv'
<1>0. t \in Threads /\ outbox \in [Items -> SUBSET {"queued", "delivered", "dead"}]
  BY TypesMeet DEF Around, Threads
<1>1. ASSUME NEW k \in Keys, Adopt(t, k) PROVE TInv'
  <2> DEFINE a == post[t].answer
  <2>1. /\ Answered(t, Request(k), {"ok", "active_request_exists"})
        /\ requests' = Merged(k, a.id, a.status) /\ Delivered(Request(k))
    BY <1>1 DEF Adopt
  <2>2. Truthful(post[t]) /\ post[t].about = Request(k) /\ a.code \in {"ok", "active_request_exists"}
    BY <1>0, <2>1, TypesMeet DEF Truth, Answered
  <2>3. Request(k) \in Items /\ Request(k) # None /\ k \in Rows
    BY ItemsApart, Numbers
  <2>4. a.id # None /\ requests[k].status # "absent" /\ a.status \in Decisions
    BY <2>2, <2>3 DEF Truthful
  <2>5. a.id \in Keys
    <3>1. a.id \in Keys \cup {None}
      BY <1>0, PostedAnswer DEF Valid, Answers
    <3> QED
      BY <2>4, <3>1
  <2> HIDE DEF a
  <2>6. Sound(requests')
    BY <2>1, <2>3, <2>4, <2>5, SoundMerged
  <2>7. outbox[Request(k)] \cup {"delivered"} \in SUBSET {"queued", "delivered", "dead"}
        /\ Mark(Request(k), outbox[Request(k)] \cup {"delivered"})
    BY <1>0, <2>1, <2>3 DEF Delivered
  <2> QED
    BY <2>1, <2>3, <2>6, <2>7, AnsweredTypes
<1>2. ASSUME NEW k \in Keys, Postpone(t, k) PROVE TInv'
  <2>1. /\ Calls(t, Idle) /\ UNCHANGED <<grants, order, claims, deals, baza, shape, shown>>
        /\ UNCHANGED <<requests, outbox, faults>>
    BY <1>2 DEF Postpone, Answered
  <2>2. Onward /\ UNCHANGED books
    BY <2>1 DEF Onward, baza, books
  <2>3. Truth' /\ post' \in [Threads -> Posts]
    BY <1>0, <2>1, <2>2, BackToIdle
  <2>4. Around'
    BY <2>1, <2>3, DealsStay, TypesMeet DEF Around, baza
  <2> QED
    BY <2>1, <2>2, <2>3, <2>4, MeetsBooks DEF baza
<1>3. ASSUME NEW o \in Ops, Exported(t, o) PROVE TInv'
  <2>1. Answered(t, Event(o), {"ok"}) /\ Delivered(Event(o)) /\ requests' = requests
    BY <1>3 DEF Exported
  <2>2. Event(o) \in Items
    BY ItemsApart
  <2>3. outbox[Event(o)] \cup {"delivered"} \in SUBSET {"queued", "delivered", "dead"}
        /\ Mark(Event(o), outbox[Event(o)] \cup {"delivered"})
    BY <1>0, <2>1, <2>2 DEF Delivered
  <2>4. Sound(requests')
    BY <2>1, SoundNow
  <2> QED
    BY <2>1, <2>2, <2>3, <2>4, AnsweredTypes
<1>4. ASSUME NEW i \in Items, Bury(t, i) PROVE TInv'
  <2>1. Answered(t, i, {"refused", "grant_unavailable"}) /\ Buried(i)
        /\ requests' = IF i[1] = "request" /\ requests[i[2]].status \in {"queued", "pending"}
                       THEN [requests EXCEPT ![i[2]].status = "rejected"] ELSE requests
    BY <1>4 DEF Bury
  <2> DEFINE flags == IF "delivered" \in outbox[i] THEN outbox[i] ELSE outbox[i] \cup {"dead"}
  <2>2. flags \in SUBSET {"queued", "delivered", "dead"} /\ Mark(i, flags)
    BY <1>0, <2>1 DEF Buried
  <2> HIDE DEF flags
  <2>3. CASE requests' = requests
    BY <2>1, <2>2, <2>3, SoundNow, AnsweredTypes
  <2>4. CASE requests' # requests
    <3>1. /\ i[1] = "request" /\ requests[i[2]].status \in {"queued", "pending"}
          /\ requests' = [requests EXCEPT ![i[2]].status = "rejected"]
      BY <2>1, <2>4
    <3>2. PICK k \in Keys : i = Request(k)
      BY <3>1, ItemsApart DEF Items
    <3>3. i[2] = k /\ k \in Rows
      BY <3>2, ItemsApart, Numbers
    <3> DEFINE row == [requests[k] EXCEPT !.status = "rejected"]
    <3>4. requests[k] \in RequestType /\ requests \in [Rows -> RequestType]
      BY <3>3, TypesMeet DEF Books
    <3>5. row \in RequestType /\ row.status = "rejected"
      BY <3>4 DEF RequestType, Statuses
    <3>6. requests' = [requests EXCEPT ![k] = row]
      BY <3>1, <3>3, <3>4
    <3> HIDE DEF row
    <3>7. row.status # "absent" /\ row.status \notin Open
      BY <3>5 DEF Open
    <3>8. Sound(requests')
      BY <3>3, <3>5, <3>6, <3>7, SoundNow, SoundRow
    <3> QED
      BY <2>1, <2>2, <3>8, AnsweredTypes
  <2> QED
    BY <2>3, <2>4
<1> QED
  BY <1>1, <1>2, <1>3, <1>4 DEF Handle

\* A claim goes on, and nothing else but its call does.
LEMMA ClaimTypes ==
  ASSUME TInv, UNCHANGED <<books, outbox, baza, shape>>,
         claims' \in [Ops -> {"open", "asking", "checked", "reserved", "held", "done"}],
         \A o \in Ops : claims[o] = "done" => claims'[o] = "done",
         DealTypes', shown' \subseteq Keys, faults' \in 0..MaxFaults,
         UNCHANGED post \/ Calls("claim", Idle) \/ Calls("claim", State) \/ post' = [t \in Threads |-> Idle]
  PROVE  TInv'
<1>1. Onward /\ "claim" \in Threads
  BY DEF Onward, books, baza, Threads
<1>2. Truth' /\ post' \in [Threads -> Posts]
  <2>1. CASE UNCHANGED post
    BY <1>1, <2>1, TruthFrame, TypesMeet DEF Around
  <2>2. CASE Calls("claim", Idle)
    BY <1>1, <2>2, BackToIdle
  <2>3. CASE Calls("claim", State)
    BY <1>1, <2>3, StateStep
  <2>4. CASE post' = [t \in Threads |-> Idle]
    <3>1. post' \in [Threads -> Posts] /\ \A t \in Threads : post'[t] = Idle
      BY <2>4, IdleTruth
    <3>2. ASSUME NEW t \in Threads PROVE Truthful(post[t])'
      <4>1. Truthful(Idle)' /\ post'[t] = Idle /\ Idle' = Idle
        BY <3>1, IdleTruth DEF Idle, NoAnswer, Answer
      <4> QED
        BY <4>1 DEF Truthful
    <3> QED
      BY <3>1, <3>2 DEF Truth
  <2> QED
    BY <2>1, <2>2, <2>3, <2>4
<1>3. Around'
  BY <1>2, TypesMeet DEF Around, books, baza
<1> QED
  BY <1>1, <1>2, <1>3, MeetsBooks DEF baza

\* A claim changes the books, but makes no call.
LEMMA BooksTypes ==
  ASSUME TInv, Sound(requests'), grants' \in [Keys -> GrantType],
         \A g \in Keys : grants'[g].status = "absent" <=> grants[g].status = "absent",
         DealTypes', UNCHANGED <<order, post, baza, shape, faults>>, shown' \subseteq Keys, NEW o \in Ops,
         NEW state \in {"open", "asking", "checked", "reserved", "held", "done"},
         claims[o] # "done", claims' = [claims EXCEPT ![o] = state],
         outbox' = outbox \/ (state = "done" /\ outbox' = [outbox EXCEPT ![Event(o)] = {"queued"}])
  PROVE  TInv'
<1>1. /\ claims \in [Ops -> {"open", "asking", "checked", "reserved", "held", "done"}]
      /\ outbox \in [Items -> SUBSET {"queued", "delivered", "dead"}]
  BY TypesMeet DEF Around
<1>2. /\ claims' \in [Ops -> {"open", "asking", "checked", "reserved", "held", "done"}] /\ claims'[o] = state
      /\ \A p \in Ops : p # o => claims'[p] = claims[p]
  BY <1>1
<1>3. Event(o) \in Items
  BY ItemsApart
<1>4. /\ outbox' \in [Items -> SUBSET {"queued", "delivered", "dead"}]
      /\ \A i \in Items : i # Event(o) \/ state # "done" => outbox'[i] = outbox[i]
  BY <1>1, <1>3
<1>5. Onward
  BY <1>2 DEF Onward, Sound, baza
<1>6. Truth'
  BY <1>5, TruthFrame
<1>7. Around'
  BY <1>2, <1>4, TypesMeet DEF Around, baza
<1>8. \A k \in Keys : outbox'[Request(k)] # {} \/ remote'[k] # "none" => requests'[k].status # "absent"
  <2> TAKE k \in Keys
  <2>1. Request(k) \in Items /\ Request(k) # Event(o) /\ k \in Rows
    BY ItemsApart, Numbers
  <2>2. outbox'[Request(k)] = outbox[Request(k)] /\ remote' = remote
    BY <1>4, <2>1 DEF baza
  <2> QED
    BY <2>1, <2>2, TypesMeet DEF Rooted, Sound
<1>9. \A p \in Ops : outbox'[Event(p)] # {} => claims'[p] = "done"
  <2> TAKE p \in Ops
  <2>1. CASE p = o
    BY <1>2, <1>3, <1>4, <2>1, TypesMeet DEF Rooted
  <2>2. CASE p # o
    <3>1. Event(p) \in Items /\ Event(p) # Event(o)
      BY <2>2, ItemsApart
    <3>2. outbox'[Event(p)] = outbox[Event(p)] /\ claims'[p] = claims[p]
      BY <1>2, <1>4, <2>2, <3>1
    <3> QED
      BY <3>2, TypesMeet DEF Rooted
  <2> QED
    BY <2>1, <2>2
<1>10. /\ order' \in Seq(Keys) /\ Dated(grants', order')
       /\ latest' # None => remote'[latest'] # "none"
       /\ \A g \in Keys : grants'[g].status # "absent" => remote'[g] \in Granted
  BY TypesMeet DEF Books, Dated, Rooted, baza
<1> QED
  BY <1>6, <1>7, <1>8, <1>9, <1>10, Meets

LEMMA SimpleClaimTypes ==
  ASSUME TInv, NEW o \in Ops, ClaimAsk(o) \/ ClaimUnanswered(o) \/ Hold(o)
  PROVE  TInv'
<1>0. /\ claims \in [Ops -> {"open", "asking", "checked", "reserved", "held", "done"}]
      /\ shown \subseteq Keys /\ faults \in 0..MaxFaults
  BY TypesMeet DEF Around
<1>1. CASE ClaimAsk(o)
  <2>1. /\ claims[o] # "done" /\ claims' = [claims EXCEPT ![o] = "asking"] /\ Calls("claim", State)
        /\ UNCHANGED <<books, outbox, deals, baza, shape, faults, shown>>
    BY <1>1 DEF ClaimAsk
  <2> QED
    BY <1>0, <2>1, DealsStay, ClaimTypes
<1>2. CASE ClaimUnanswered(o)
  <2>1. PICK state \in {"held", "open"} : state = AtRest(grants, o)
    BY AtRestType
  <2>2. /\ claims[o] # "done" /\ claims' = [claims EXCEPT ![o] = state] /\ Calls("claim", Idle)
        /\ UNCHANGED <<books, outbox, deals, baza, shape, faults, shown>>
    BY <1>2, <2>1 DEF ClaimUnanswered
  <2> QED
    BY <1>0, <2>2, DealsStay, ClaimTypes
<1>3. CASE Hold(o)
  <2>1. /\ claims[o] # "done" /\ claims' = [claims EXCEPT ![o] = "held"] /\ shown' = {}
        /\ UNCHANGED <<books, outbox, deals, post, baza, shape, faults>>
    BY <1>3 DEF Hold
  <2> QED
    BY <1>0, <2>1, DealsStay, ClaimTypes
<1> QED
  BY <1>1, <1>2, <1>3

\* An update is sent, lands, or meets a deal that was changed; the books stay.
LEMMA DealStep ==
  ASSUME TInv, LandStray \/ \E o \in Ops : Write(o) \/ Delay(o) \/ Land(o) \/ Moved(o)
  PROVE  /\ UNCHANGED <<books, outbox, claims, post, baza, shape>>
         /\ DealTypes' /\ shown' \in {shown, {}} /\ faults' \in 0..MaxFaults
<1>1. DealTypes /\ faults \in 0..MaxFaults /\ (Fault => faults' \in 0..MaxFaults)
  BY FaultStep, TypesMeet DEF Around
<1>2. CASE \E o \in Ops : Write(o) \/ Delay(o)
  BY <1>1, <1>2 DEF Write, Delay, DealTypes, strays
<1>3. CASE \E o \in Ops : Land(o) \/ Moved(o)
  BY <1>1, <1>3 DEF Land, Moved, DealTypes, strays
<1>4. CASE LandStray
  BY <1>1, <1>4 DEF LandStray, DealTypes
<1> QED
  BY <1>2, <1>3, <1>4

LEMMA DealStepTypes ==
  ASSUME TInv, LandStray \/ \E o \in Ops : Write(o) \/ Delay(o) \/ Land(o) \/ Moved(o)
  PROVE  TInv'
<1>1. /\ UNCHANGED <<books, outbox, claims, post, baza, shape>>
      /\ DealTypes' /\ shown' \in {shown, {}} /\ faults' \in 0..MaxFaults
  BY DealStep
<1>2. /\ claims \in [Ops -> {"open", "asking", "checked", "reserved", "held", "done"}] /\ shown \subseteq Keys
  BY TypesMeet DEF Around
<1> QED
  BY <1>1, <1>2, ClaimTypes

LEMMA CrashTypes ==
  ASSUME TInv, Crash
  PROVE  TInv'
<1>1. /\ post' = [t \in Threads |-> Idle] /\ shown' = {} /\ UNCHANGED <<books, outbox, deals, baza, shape>>
      /\ faults' \in 0..MaxFaults
      /\ claims' = [o \in Ops |-> IF claims[o] \in {"asking", "checked"} THEN AtRest(grants, o)
                                  ELSE IF claims[o] = "reserved" THEN "held" ELSE claims[o]]
  BY FaultStep DEF Crash
<1>2. claims \in [Ops -> {"open", "asking", "checked", "reserved", "held", "done"}] /\ DealTypes'
  BY <1>1, DealsStay, TypesMeet DEF Around
<1>3. ASSUME NEW o \in Ops
      PROVE  /\ claims'[o] \in {"open", "asking", "checked", "reserved", "held", "done"}
             /\ claims[o] = "done" => claims'[o] = "done"
  <2>1. claims'[o] = IF claims[o] \in {"asking", "checked"} THEN AtRest(grants, o)
                     ELSE IF claims[o] = "reserved" THEN "held" ELSE claims[o]
    BY <1>1
  <2> QED
    BY <1>2, <2>1, AtRestType
<1>4. claims' \in [Ops -> {"open", "asking", "checked", "reserved", "held", "done"}]
  BY <1>1, <1>3
<1> QED
  BY <1>1, <1>2, <1>3, <1>4, ClaimTypes

LEMMA BazaTypes ==
  ASSUME TInv, NEW e \in Keys, Decide(e) \/ Withdraw(e)
  PROVE  TInv'
<1>1. PICK s \in {"approved", "rejected", "expired"} :
        /\ remote' = [remote EXCEPT ![e] = s]
        /\ remote[e] = "pending" \/ (remote[e] = "approved" /\ s = "expired")
        /\ overdue' \in SUBSET (overdue \cup {e})
        /\ UNCHANGED <<books, outbox, claims, deals, post, spentFor, latest, shape, faults, shown>>
  BY DEF Decide, Withdraw
<1>2. remote \in [Keys -> Decisions \cup {"none"}] /\ overdue \subseteq Keys
  BY TypesMeet DEF Around
<1>3. remote' \in [Keys -> Decisions \cup {"none"}] /\ remote'[e] = s /\ \A k \in Keys : k # e => remote'[k] = remote[k]
  BY <1>1, <1>2 DEF Decisions
<1>4. Onward
  <2>1. remote[e] # "none" /\ remote'[e] # "none" /\ (remote[e] \in Granted => remote'[e] \in Granted)
    BY <1>1, <1>3 DEF Granted
  <2> QED
    BY <1>1, <1>3, <2>1 DEF Onward, books
<1>5. Truth'
  BY <1>1, <1>4, TruthFrame
<1>6. Around'
  BY <1>1, <1>2, <1>3, DealsStay, TypesMeet DEF Around
<1>7. \A k \in Keys : remote'[k] # "none" => remote[k] # "none" \/ requests[k].status # "absent"
  BY <1>1, <1>3
<1> QED
  BY <1>1, <1>4, <1>5, <1>6, <1>7, MeetsBooks

LEMMA CheckTypes ==
  ASSUME TInv, NEW o \in Ops, ClaimCheck(o)
  PROVE  TInv'
<1> DEFINE a == post["claim"].answer
<1>0. "claim" \in Threads /\ claims \in [Ops -> {"open", "asking", "checked", "reserved", "held", "done"}]
  BY TypesMeet DEF Threads, Around
<1>1. PICK state \in {"checked", "held", "open"} : claims' = [claims EXCEPT ![o] = state]
  <2>1. AtRest(grants', o) \in {"held", "open"}
    BY AtRestType
  <2> QED
    BY <2>1 DEF ClaimCheck
<1>2. /\ claims[o] = "asking" /\ Import(a) /\ shown' \in {Listed(a), {}} /\ Calls("claim", Idle)
      /\ UNCHANGED <<outbox, deals, baza, shape, faults>>
  BY DEF ClaimCheck
<1>3. Valid(a)
  BY <1>0, PostedAnswer
<1> HIDE DEF a
<1>4. Imported /\ \A g \in Keys : grants'[g].status # "absent" => grants[g].status # "absent" \/ g \in Listed(a)
  BY <1>2, <1>3, ImportEffect
<1>5. Listed(a) \subseteq Keys /\ \A g \in Listed(a) : remote[g] \in Granted
  BY <1>3, ListedGranted
<1>6. /\ claims' \in [Ops -> {"open", "asking", "checked", "reserved", "held", "done"}]
      /\ \A p \in Ops : claims[p] = "done" => claims'[p] = "done"
  BY <1>0, <1>1, <1>2
<1>7. Onward
  BY <1>2, <1>4, <1>6, ImportedOnward DEF Imported, baza
<1>8. Truth' /\ post' \in [Threads -> Posts]
  BY <1>0, <1>2, <1>7, BackToIdle
<1>9. Around'
  BY <1>2, <1>5, <1>6, <1>8, DealsStay, TypesMeet DEF Around, baza
<1> QED
  BY <1>2, <1>4, <1>5, <1>6, <1>8, <1>9, ImportedTypes DEF baza

\* What the reservation of a new grant does to the books.
LEMMA ReserveGrants ==
  ASSUME TInv, NEW o \in Ops, NEW g \in Keys, grants[g].status = "approved",
         NEW S \in SUBSET Lapsed(grants), g \notin S,
         grants' = [GrantsWithout(grants, S) EXCEPT ![g].status = "reserved", ![g].op = o]
  PROVE  /\ grants' \in [Keys -> GrantType]
         /\ grants'[g].status = "reserved" /\ grants'[g].op = o
         /\ \A h \in Keys : h # g => /\ grants'[h].op = grants[h].op
                                     /\ grants'[h] = grants[h]
                                        \/ (grants[h].status = "approved" /\ grants'[h].status = "expired")
<1> DEFINE gs == GrantsWithout(grants, S)
<1>1. grants \in [Keys -> GrantType]
  BY TypesMeet DEF Books
<1>2. ASSUME NEW h \in Keys
      PROVE  /\ gs[h] \in GrantType /\ gs[h].op = grants[h].op
             /\ gs[h] = grants[h] \/ (grants[h].status = "approved" /\ gs[h].status = "expired")
             /\ h = g => gs[h] = grants[h]
  <2>1. gs[h] = IF h \in S THEN [grants[h] EXCEPT !.status = "expired"] ELSE grants[h]
    BY DEF GrantsWithout
  <2>2. grants[h] \in GrantType /\ (h \in S => grants[h].status = "approved")
    BY <1>1, LapsedApproved
  <2>3. [grants[h] EXCEPT !.status = "expired"] \in GrantType
        /\ [grants[h] EXCEPT !.status = "expired"].status = "expired"
        /\ [grants[h] EXCEPT !.status = "expired"].op = grants[h].op
    BY <2>2 DEF GrantType
  <2> HIDE DEF gs
  <2> QED
    BY <2>1, <2>2, <2>3
<1>3. gs \in [Keys -> GrantType]
  BY <1>2 DEF GrantsWithout
<1>4. grants' = [gs EXCEPT ![g] = [gs[g] EXCEPT !.status = "reserved", !.op = o]]
  BY <1>3 DEF GrantType
<1> DEFINE new == [gs[g] EXCEPT !.status = "reserved", !.op = o]
<1> HIDE DEF gs
<1>5. new \in GrantType /\ new.status = "reserved" /\ new.op = o
  BY <1>2 DEF GrantType
<1> HIDE DEF new
<1>6. grants' = [gs EXCEPT ![g] = new]
  BY <1>4 DEF new
<1>7. grants' \in [Keys -> GrantType] /\ grants'[g] = new /\ \A h \in Keys : h # g => grants'[h] = gs[h]
  BY <1>3, <1>5, <1>6
<1> QED
  BY <1>2, <1>5, <1>7

\* Reserve does nothing to the books, or takes an approved grant.
LEMMA ReserveCases ==
  ASSUME TInv, NEW o \in Ops, Reserve(o)
  PROVE  /\ claims[o] = "checked"
         /\ late' = late \ {o} /\ UNCHANGED <<applied, moved, strays>>
         /\ UNCHANGED <<order, outbox, post, baza, shape, faults, shown>>
         /\ \/ claims' = [claims EXCEPT ![o] = "open"] /\ UNCHANGED <<requests, grants>>
            \/ /\ claims' = [claims EXCEPT ![o] = "reserved"] /\ UNCHANGED <<requests, grants>>
               /\ HeldBy(grants, o) # {}
            \/ \E g \in Keys, S \in SUBSET Lapsed(grants) :
                 /\ claims' = [claims EXCEPT ![o] = "reserved"]
                 /\ HeldBy(grants, o) = {} /\ grants[g].status = "approved" /\ g \notin S
                 /\ requests' = RequestsWithout(requests, grants, S)
                 /\ grants' = [GrantsWithout(grants, S) EXCEPT ![g].status = "reserved", ![g].op = o]
<1> DEFINE g == Candidate(grants, order, o)
           S == {h \in Lapsed(grants) : \E i, j \in 1..Len(order) : i < j /\ order[i] = h /\ order[j] = g}
<1>1. /\ claims[o] = "checked"
      /\ claims' = [claims EXCEPT ![o] = IF g = None THEN "open" ELSE "reserved"]
      /\ IF g = None \/ g \in HeldBy(grants, o) THEN UNCHANGED <<requests, grants>>
         ELSE /\ requests' = RequestsWithout(requests, grants, S)
              /\ grants' = [GrantsWithout(grants, S) EXCEPT ![g].status = "reserved", ![g].op = o]
      /\ late' = late \ {o} /\ UNCHANGED <<applied, moved, strays>>
      /\ UNCHANGED <<order, outbox, post, baza, shape, faults, shown>>
  BY DEF Reserve
<1>2. S \in SUBSET Lapsed(grants)
  OBVIOUS
<1>3. g # None => g \in Keys /\ (g \in HeldBy(grants, o) \/
                    (HeldBy(grants, o) = {} /\ grants[g].status = "approved" /\ g \notin overdue))
  BY CandidateIn
<1>4. g \notin overdue => g \notin S
  BY DEF Lapsed
<1> HIDE DEF g, S
<1>5. CASE g = None
  BY <1>1, <1>5
<1>6. CASE g # None /\ g \in HeldBy(grants, o)
  BY <1>1, <1>6
<1>7. CASE g # None /\ g \notin HeldBy(grants, o)
  BY <1>1, <1>2, <1>3, <1>4, <1>7
<1> QED
  BY <1>5, <1>6, <1>7

LEMMA ReserveTypes ==
  ASSUME TInv, NEW o \in Ops, Reserve(o)
  PROVE  TInv'
<1>0. late' = late \ {o} /\ UNCHANGED <<applied, moved, strays, shown>>
  BY ReserveCases
<1>1. /\ claims[o] # "done" /\ UNCHANGED <<order, outbox, post, baza, shape, faults>>
      /\ DealTypes' /\ shown' \subseteq Keys
  BY <1>0, ReserveCases, TypesMeet DEF Around, DealTypes, strays
<1>2. CASE UNCHANGED <<requests, grants>>
  <2>1. PICK state \in {"open", "reserved"} : claims' = [claims EXCEPT ![o] = state]
    BY ReserveCases
  <2>2. Sound(requests') /\ grants' \in [Keys -> GrantType]
    BY <1>2, SoundNow, TypesMeet DEF Books
  <2> QED
    BY <1>1, <1>2, <2>1, <2>2, BooksTypes
<1>3. CASE ~UNCHANGED <<requests, grants>>
  <2>1. PICK g \in Keys, S \in SUBSET Lapsed(grants) :
          /\ claims' = [claims EXCEPT ![o] = "reserved"]
          /\ grants[g].status = "approved" /\ g \notin S
          /\ requests' = RequestsWithout(requests, grants, S)
          /\ grants' = [GrantsWithout(grants, S) EXCEPT ![g].status = "reserved", ![g].op = o]
    BY <1>3, ReserveCases
  <2>2. Sound(requests')
    BY <2>1, SoundNow, WithoutSound
  <2>3. /\ grants' \in [Keys -> GrantType] /\ grants'[g].status = "reserved"
        /\ \A h \in Keys : h # g => grants'[h] = grants[h]
                                    \/ (grants[h].status = "approved" /\ grants'[h].status = "expired")
    <3>1. /\ grants' \in [Keys -> GrantType]
          /\ grants'[g].status = "reserved" /\ grants'[g].op = o
          /\ \A h \in Keys :
               h # g => /\ grants'[h].op = grants[h].op
                        /\ grants'[h] = grants[h] \/ (grants[h].status = "approved" /\ grants'[h].status = "expired")
      BY <2>1, ReserveGrants, Zenon
    <3> QED
      BY <3>1
  <2>4. \A h \in Keys : grants'[h].status = "absent" <=> grants[h].status = "absent"
    BY <2>1, <2>3
  <2> QED
    BY <1>1, <2>1, <2>2, <2>3, <2>4, BooksTypes
<1> QED
  BY <1>2, <1>3

LEMMA FinalizeTypes ==
  ASSUME TInv, NEW o \in Ops, Finalize(o)
  PROVE  TInv'
<1>1. PICK g \in HeldBy(grants, o) :
        /\ grants' = [grants EXCEPT ![g].status = "consumed"]
        /\ requests' = IF grants[g].row = None THEN requests
                       ELSE [requests EXCEPT ![grants[g].row].status = "consumed"]
  BY DEF Finalize
<1>2. /\ claims[o] # "done" /\ claims' = [claims EXCEPT ![o] = "done"]
      /\ outbox' = [outbox EXCEPT ![Event(o)] = {"queued"}]
      /\ UNCHANGED <<order, deals, post, baza, shape, faults, shown>>
  BY DEF Finalize
<1>0. DealTypes' /\ shown' \subseteq Keys
  BY <1>2, DealsStay, TypesMeet DEF Around
<1>3. g \in Keys /\ grants[g].status = "reserved" /\ grants \in [Keys -> GrantType]
  BY TypesMeet DEF HeldBy, Books
<1>4. /\ grants' \in [Keys -> GrantType] /\ grants'[g].status = "consumed"
      /\ \A h \in Keys : h # g => grants'[h] = grants[h]
  BY <1>1, <1>3 DEF GrantType
<1>5. Sound(requests')
  <2>1. CASE grants[g].row = None
    BY <1>1, <2>1, SoundNow
  <2>2. CASE grants[g].row # None
    <3> DEFINE r == grants[g].row
               row == [requests[r] EXCEPT !.status = "consumed"]
    <3>1. r \in Rows /\ requests \in [Rows -> RequestType] /\ requests[r] \in RequestType
      BY <1>3, <2>2, GrantFields, TypesMeet DEF Books
    <3>2. row \in RequestType /\ row.status = "consumed"
      BY <3>1 DEF RequestType, Statuses
    <3>3. requests' = [requests EXCEPT ![r] = row]
      BY <1>1, <2>2, <3>1
    <3> HIDE DEF r, row
    <3>4. row.status # "absent" /\ row.status \notin Open
      BY <3>2 DEF Open
    <3> QED
      BY <3>1, <3>2, <3>3, <3>4, SoundNow, SoundRow
  <2> QED
    BY <2>1, <2>2
<1> QED
  BY <1>0, <1>2, <1>3, <1>4, <1>5, BooksTypes

LEMMA ReleaseTypes ==
  ASSUME TInv, NEW o \in Ops, Release(o)
  PROVE  TInv'
<1>1. PICK g \in HeldBy(grants, o) :
        /\ Cardinality(Active(RequestsBack(g))) <= 1 /\ requests' = RequestsBack(g)
        /\ grants' = [grants EXCEPT ![g].status = "approved", ![g].op = None]
  BY DEF Release
<1>2. /\ claims[o] # "done" /\ claims' = [claims EXCEPT ![o] = "open"]
      /\ UNCHANGED <<order, outbox, post, baza, shape, faults>>
  BY DEF Release, Unapplied
<1>0. DealTypes' /\ shown' \subseteq Keys
  <2>1. /\ late' = late \ {o} /\ moved' = moved \ {o} /\ stray' \in {stray, stray + 1} /\ shown' = {}
        /\ UNCHANGED <<applied, unpaid>>
    BY DEF Release
  <2> QED
    BY <2>1, TypesMeet DEF Around, DealTypes
<1>3. g \in Keys /\ grants[g].status = "reserved" /\ grants \in [Keys -> GrantType] /\ grants[g] \in GrantType
  BY TypesMeet DEF HeldBy, Books
<1>4. /\ grants' \in [Keys -> GrantType] /\ grants'[g].status = "approved"
      /\ \A h \in Keys : h # g => grants'[h] = grants[h]
  <2> DEFINE new == [grants[g] EXCEPT !.status = "approved", !.op = None]
  <2>1. new \in GrantType /\ new.status = "approved"
    BY <1>3 DEF GrantType
  <2>2. grants' = [grants EXCEPT ![g] = new]
    BY <1>1, <1>3
  <2> HIDE DEF new
  <2> QED
    BY <1>3, <2>1, <2>2
<1>5. Sound(requests')
  <2>1. CASE RequestsBack(g) = requests
    BY <1>1, <2>1, SoundNow
  <2>2. CASE RequestsBack(g) # requests
    <3> DEFINE r == grants[g].row
               row == [requests[r] EXCEPT !.status = "approved"]
    <3>1. r # None /\ requests' = [requests EXCEPT ![r].status = "approved"]
      BY <1>1, <2>2 DEF RequestsBack
    <3>2. r \in Rows /\ requests \in [Rows -> RequestType] /\ requests[r] \in RequestType
      BY <1>3, <3>1, GrantFields, TypesMeet DEF Books
    <3>3. row \in RequestType /\ row.status = "approved" /\ row.ext = requests[r].ext
      BY <3>2 DEF RequestType, Statuses
    <3>4. requests' = [requests EXCEPT ![r] = row]
      BY <3>1, <3>2
    <3> HIDE DEF r, row
    <3>5. requests' \in [Rows -> RequestType] /\ requests'[r] = row /\ \A s \in Rows : s # r => requests'[s] = requests[s]
      BY <3>2, <3>3, <3>4
    <3>6. Cardinality(Active(requests')) <= 1
      BY <1>1
    <3> QED
      BY <3>2, <3>3, <3>5, <3>6, SoundNow DEF Sound
  <2> QED
    BY <2>1, <2>2
<1> QED
  BY <1>0, <1>2, <1>3, <1>4, <1>5, BooksTypes
-----------------------------------------------------------------------------
(* Grants and claims, step by step.                                        *)

Inv == TInv /\ CInv /\ Fresh

\* No grant is taken or given back.
Kept == \A g \in Keys : /\ grants'[g].op = grants[g].op
                        /\ grants'[g].status = "reserved" <=> grants[g].status = "reserved"
                        /\ grants'[g].status = "consumed" <=> grants[g].status = "consumed"

LEMMA KeptUnused ==
  ASSUME TInv, Paying, Unused(grants')
  PROVE  Kept
<1>1. ASSUME NEW g \in Keys
      PROVE  /\ grants'[g].op = grants[g].op
             /\ grants'[g].status = "reserved" <=> grants[g].status = "reserved"
             /\ grants'[g].status = "consumed" <=> grants[g].status = "consumed"
  <2>1. CASE g \in InUse
    BY <2>1 DEF Unused
  <2>2. CASE g \notin InUse
    <3>1. grants[g].status \notin {"reserved", "consumed"} /\ grants[g].op = None
      BY <2>2 DEF InUse, Paying
    <3>2. grants'[g].status \notin {"reserved", "consumed"} /\ grants'[g].op \in {grants[g].op, None}
      BY <2>2 DEF Unused
    <3> QED
      BY <3>1, <3>2
  <2> QED
    BY <2>1, <2>2
<1> QED
  BY <1>1 DEF Kept

LEMMA KeptHeld ==
  ASSUME Kept, NEW o
  PROVE  HeldBy(grants', o) = HeldBy(grants, o)
BY DEF Kept, HeldBy

LEMMA ClaimState ==
  ASSUME TInv, NEW o \in Ops
  PROVE  claims \in [Ops -> {"open", "asking", "checked", "reserved", "held", "done"}]
         /\ claims[o] \in {"open", "asking", "checked", "reserved", "held", "done"}
BY TypesMeet DEF Around

\* One claim at a time is asking, checked, written or recorded.
LEMMA OneUnderWay ==
  ASSUME InTurn, NEW o \in Ops, NEW p \in Ops, claims[o] \notin {"open", "done"}, claims[p] \notin {"open", "done"}
  PROVE  o = p
<1>1. IsNext(o) /\ IsNext(p)
  BY DEF InTurn
<1>2. o \in Int /\ p \in Int /\ o >= 1 /\ p >= 1
  BY DEF Ops
<1>3. CASE o < p
  <2>1. o \in 1..(p - 1)
    BY <1>2, <1>3
  <2> QED
    BY <1>1, <2>1 DEF IsNext
<1>4. CASE p < o
  <2>1. p \in 1..(o - 1)
    BY <1>2, <1>4
  <2> QED
    BY <1>1, <2>1 DEF IsNext
<1> QED
  BY <1>2, <1>3, <1>4

\* Claims come and go without a change of what is paid.
LEMMA CKept ==
  ASSUME TInv, CInv, Kept, UNCHANGED <<applied, spentFor>>,
         \A p \in Ops : \/ claims'[p] = claims[p]
                        \/ /\ claims[p] # "done" /\ claims'[p] # "done"
                           /\ claims'[p] # "open" => IsNext(p)
                           /\ claims'[p] \in {"reserved", "held"} => HeldBy(grants, p) # {}
                           /\ p \in applied => claims'[p] \in {"reserved", "held"}
  PROVE  CInv'
<1>1. \A p \in Ops : claims'[p] = "done" <=> claims[p] = "done"
  OBVIOUS
<1>2. Paying'
  <2>1. \A g \in Keys : grants'[g].op # None <=> grants'[g].status \in {"reserved", "consumed"}
    BY DEF CInv, Paying, Kept
  <2>2. \A g, h \in Keys : grants'[g].op = grants'[h].op /\ grants'[g].op # None => g = h
    BY DEF CInv, Paying, Kept
  <2>3. ASSUME NEW o \in Ops, claims'[o] \in {"reserved", "held"} PROVE HeldBy(grants', o) # {}
    BY <2>3, KeptHeld DEF CInv, Paying
  <2>4. ASSUME NEW o \in Ops
        PROVE  claims'[o] = "done" <=> \E g \in Keys : grants'[g].status = "consumed" /\ grants'[g].op = o
    BY <1>1 DEF CInv, Paying, Kept
  <2> QED
    BY <2>1, <2>2, <2>3, <2>4 DEF Paying, HeldBy
<1>3. InTurn'
  <2>1. \A p \in Ops : IsNext(p) => IsNext(p)'
    <3> TAKE p \in Ops
    <3>1. \A q \in 1..(p - 1) : q \in Ops
      BY Numbers DEF Ops
    <3> QED
      BY <1>1, <3>1 DEF IsNext
  <2>2. ASSUME NEW p \in Ops, claims'[p] # "open" PROVE IsNext(p)'
    BY <2>1, <2>2 DEF CInv, InTurn
  <2>3. ASSUME NEW p \in applied PROVE claims'[p] \in {"reserved", "held", "done"}
    <3>1. p \in Ops
      BY TypesMeet DEF Around, DealTypes
    <3> QED
      BY <3>1 DEF CInv, InTurn
  <2> QED
    BY <2>2, <2>3 DEF InTurn
<1>4. SpentHere'
  BY DEF CInv, SpentHere, Kept
<1> QED
  BY <1>2, <1>3, <1>4 DEF CInv

\* Nothing of what is paid changes.
LEMMA CFrame ==
  ASSUME CInv, UNCHANGED <<grants, claims, applied, spentFor>>
  PROVE  CInv'
BY DEF CInv, Paying, InTurn, SpentHere, IsNext, HeldBy

LEMMA FreshFrame ==
  ASSUME Fresh, UNCHANGED <<grants, claims, applied, late, shown>>
  PROVE  Fresh'
BY DEF Fresh, Sent, HeldBy

\* Grants expire or are merged, and shown grows with them.
LEMMA FreshKept ==
  ASSUME TInv, Fresh, Kept, UNCHANGED <<claims, applied, late>>,
         \/ shown' = Keys
         \/ shown' = shown /\ \/ \A o \in Ops : claims[o] # "checked"
                              \/ \A g \in Keys : grants'[g].status = "approved" => grants[g].status = "approved"
  PROVE  Fresh'
<1>1. ASSUME NEW o \in Ops, claims[o] = "checked"
      PROVE  HeldBy(grants', o) \subseteq shown' /\ \A g \in Keys : grants'[g].status = "approved" => g \in shown'
  BY <1>1, KeptHeld DEF Fresh, Sent, HeldBy
<1>2. ASSUME NEW o \in Ops \ Sent, claims[o] = "reserved"
      PROVE  HeldBy(grants', o) \subseteq shown'
  BY <1>2, KeptHeld DEF Fresh, Sent, HeldBy
<1> QED
  BY <1>1, <1>2 DEF Fresh, Sent, HeldBy

\* The claim under way has none, or has just been shown what it takes.
LEMMA FreshClaim ==
  ASSUME Inv, NEW o \in Ops, NEW state, claims' = [claims EXCEPT ![o] = state], claims[o] \notin {"open", "done"},
         state \in {"open", "held", "done"} \/ (state = "reserved" /\ o \in Sent')
           \/ (state = "reserved" /\ HeldBy(grants', o) \subseteq shown')
           \/ (state = "checked" /\ HeldBy(grants', o) \subseteq shown'
               /\ \A g \in Keys : grants'[g].status = "approved" => g \in shown')
  PROVE  Fresh'
<1>1. /\ claims'[o] = state
      /\ \A p \in Ops : p # o => claims'[p] = claims[p] /\ claims[p] \in {"open", "done"}
  BY ClaimState, OneUnderWay DEF Inv, CInv
<1>2. ASSUME NEW p \in Ops, claims'[p] = "checked"
      PROVE  HeldBy(grants', p) \subseteq shown' /\ \A g \in Keys : grants'[g].status = "approved" => g \in shown'
  <2>1. p = o
    BY <1>1, <1>2
  <2> QED
    BY <1>1, <1>2, <2>1
<1>3. ASSUME NEW p \in Ops \ Sent', claims'[p] = "reserved"
      PROVE  HeldBy(grants', p) \subseteq shown'
  <2>1. p = o
    BY <1>1, <1>3
  <2> QED
    BY <1>1, <1>3, <2>1
<1> QED
  BY <1>2, <1>3 DEF Fresh, HeldBy

LEMMA SimpleInv ==
  ASSUME Inv, TInv', UNCHANGED <<grants, claims, applied, late, spentFor, shown>>
  PROVE  Inv'
BY CFrame, FreshFrame DEF Inv

LEMMA KeptNow == ASSUME UNCHANGED grants PROVE Kept
BY DEF Kept

LEMMA PageInv ==
  ASSUME Inv, Look \/ Query \/ Refresh
  PROVE  Inv'
<1>1. TInv' /\ TInv /\ CInv /\ Paying /\ Fresh
  BY PageTypes DEF Inv, CInv
<1>2. CASE Look
  <2>1. Expire(requests, grants) /\ UNCHANGED <<order, claims, applied, late, spentFor, shown>>
    BY <1>2 DEF Look, baza, deals
  <2>2. Imported /\ \A g \in Keys : grants'[g].status = "approved" => grants[g].status = "approved"
    BY <1>1, <2>1, ExpireEffect
  <2>3. Kept
    BY <1>1, <2>2, KeptUnused DEF Imported
  <2>4. CInv'
    BY <1>1, <2>1, <2>3, CKept
  <2>5. Fresh'
    BY <1>1, <2>1, <2>2, <2>3, FreshKept
  <2> QED
    BY <1>1, <2>4, <2>5 DEF Inv
<1>3. CASE Query
  BY <1>1, <1>3, SimpleInv DEF Query, books, baza, deals
<1>4. CASE Refresh
  <2> DEFINE a == post["page"].answer
  <2>1. Import(a) /\ UNCHANGED <<claims, applied, late, spentFor>>
        /\ shown' = IF \E o \in Ops : claims[o] = "checked" THEN Keys ELSE shown
    BY <1>4 DEF Refresh, baza, deals
  <2>2. Valid(a)
    BY <1>1, PostedAnswer DEF Threads, Deliverers
  <2> HIDE DEF a
  <2>3. Imported
    BY <1>1, <2>1, <2>2, ImportEffect
  <2>4. Kept
    BY <1>1, <2>3, KeptUnused DEF Imported
  <2>5. CInv'
    BY <1>1, <2>1, <2>4, CKept
  <2>6. Fresh'
    BY <1>1, <2>1, <2>4, FreshKept
  <2> QED
    BY <1>1, <2>5, <2>6 DEF Inv
<1> QED
  BY <1>2, <1>3, <1>4

LEMMA ReceiveInv ==
  ASSUME Inv, NEW t \in Deliverers, Receive(t)
  PROVE  Inv'
<1>1. TInv' /\ TInv /\ CInv /\ Paying
  BY ReceiveTypes DEF Inv, CInv
<1>2. CASE \E k \in Keys : Create(t, k) \/ Repeat(t, k) \/ Conflict(t, k)
  BY <1>1, <1>2, SimpleInv DEF Create, Repeat, Conflict, Reply, books, deals
<1>3. ASSUME NEW o \in Ops, Spend(t, o) PROVE Inv'
  <2>1. PICK g \in Keys : /\ grants[g].op = o
                          /\ spentFor' = spentFor \/ (spentFor' = [spentFor EXCEPT ![g] = o])
                          /\ UNCHANGED <<books, outbox, claims, applied, late, shown>> /\ Sends(t, Event(o))
    BY <1>3 DEF Spend, Reply, deals
  <2>2. claims[o] = "done"
    BY <1>1, <2>1, ItemsApart, SendsRooted
  <2>3. grants[g].status = "consumed"
    <3>1. PICK h \in Keys : grants[h].status = "consumed" /\ grants[h].op = o
      BY <1>1, <2>2 DEF Paying
    <3>2. h = g
      BY <1>1, <2>1, <3>1, Numbers DEF Paying
    <3> QED
      BY <3>1, <3>2
  <2>4. spentFor \in [Keys -> Ops \cup {None}] /\ UNCHANGED <<grants, claims, applied, late, shown>>
    BY <1>1, <2>1, TypesMeet DEF Around, books
  <2>5. SpentHere'
    BY <1>1, <2>1, <2>3, <2>4 DEF SpentHere, CInv
  <2>6. Paying' /\ InTurn'
    BY <1>1, <2>4 DEF CInv, Paying, InTurn, IsNext, HeldBy
  <2>7. Fresh'
    BY <2>4, FreshFrame DEF Inv
  <2> QED
    BY <1>1, <2>5, <2>6, <2>7 DEF Inv, CInv
<1>4. CASE \E i \in Items : Refuse(t, i)
  BY <1>1, <1>4, SimpleInv DEF Refuse, books, baza, deals
<1> QED
  BY <1>2, <1>3, <1>4 DEF Receive

LEMMA HandleInv ==
  ASSUME Inv, NEW t \in Deliverers, Handle(t)
  PROVE  Inv'
<1>1. TInv'
  BY HandleTypes DEF Inv
<1>2. UNCHANGED <<grants, claims, applied, late, baza, shown>>
  BY DEF Handle, Adopt, Postpone, Exported, Bury, Answered, deals
<1> QED
  BY <1>1, <1>2, SimpleInv DEF baza

LEMMA OutsideInv ==
  ASSUME Inv, NEW k \in Keys, Ask(k) \/ Decide(k) \/ Withdraw(k) \/ List(k)
  PROVE  Inv'
<1>1. TInv'
  BY AskTypes, BazaTypes, ListTypes DEF Inv
<1>2. UNCHANGED <<grants, claims, applied, late, spentFor, shown>>
  BY DEF Ask, Decide, Withdraw, List, books, baza, deals
<1> QED
  BY <1>1, <1>2, SimpleInv

LEMMA AskInv ==
  ASSUME Inv, NEW o \in Ops, ClaimAsk(o)
  PROVE  Inv'
<1>1. TInv' /\ TInv /\ CInv
  BY SimpleClaimTypes DEF Inv
<1>2. /\ claims[o] \in {"open", "held"} /\ o \notin applied /\ IsNext(o) /\ claims' = [claims EXCEPT ![o] = "asking"]
      /\ UNCHANGED <<grants, applied, late, spentFor, shown>>
  BY DEF ClaimAsk, books, baza, deals
<1>3. claims'[o] = "asking" /\ \A p \in Ops : p # o => claims'[p] = claims[p]
  BY <1>1, <1>2, ClaimState
<1>4. CInv'
  BY <1>1, <1>2, <1>3, KeptNow, CKept
<1>5. Fresh'
  BY <1>2, <1>3 DEF Inv, Fresh, Sent, HeldBy
<1> QED
  BY <1>1, <1>4, <1>5 DEF Inv

LEMMA UnansweredInv ==
  ASSUME Inv, NEW o \in Ops, ClaimUnanswered(o)
  PROVE  Inv'
<1>1. TInv' /\ TInv /\ CInv
  BY SimpleClaimTypes DEF Inv
<1>2. PICK state \in {"held", "open"} : state = AtRest(grants, o) /\ (state = "held" => HeldBy(grants, o) # {})
  BY DEF AtRest
<1>3. /\ claims[o] = "asking" /\ claims' = [claims EXCEPT ![o] = state]
      /\ UNCHANGED <<grants, applied, late, spentFor, shown>>
  BY <1>2 DEF ClaimUnanswered, books, baza, deals
<1>4. claims'[o] = state /\ \A p \in Ops : p # o => claims'[p] = claims[p]
  BY <1>1, <1>3, ClaimState
<1>5. o \notin applied /\ IsNext(o)
  BY <1>1, <1>3 DEF CInv, InTurn
<1>6. CInv'
  BY <1>1, <1>2, <1>3, <1>4, <1>5, KeptNow, CKept
<1>7. Fresh'
  BY <1>3, <1>5, FreshClaim
<1> QED
  BY <1>1, <1>6, <1>7 DEF Inv

LEMMA HoldInv ==
  ASSUME Inv, NEW o \in Ops, Hold(o)
  PROVE  Inv'
<1>1. TInv' /\ TInv /\ CInv
  BY SimpleClaimTypes DEF Inv
<1>2. claims[o] = "reserved" /\ claims' = [claims EXCEPT ![o] = "held"] /\ UNCHANGED <<grants, applied, late, spentFor>>
  BY DEF Hold, books, baza, deals
<1>3. claims'[o] = "held" /\ \A p \in Ops : p # o => claims'[p] = claims[p]
  BY <1>1, <1>2, ClaimState
<1>4. HeldBy(grants, o) # {} /\ IsNext(o)
  BY <1>1, <1>2 DEF CInv, InTurn, Paying
<1>5. CInv'
  BY <1>1, <1>2, <1>3, <1>4, KeptNow, CKept
<1>6. Fresh'
  BY <1>2, FreshClaim
<1> QED
  BY <1>1, <1>5, <1>6 DEF Inv

LEMMA DealStepInv ==
  ASSUME Inv, NEW o \in Ops, Write(o) \/ Delay(o) \/ Land(o) \/ Moved(o)
  PROVE  Inv'
<1>1. TInv' /\ TInv /\ CInv /\ Fresh
  BY DealStepTypes DEF Inv
<1>2. UNCHANGED <<grants, claims, spentFor>>
  BY <1>1, DealStep DEF books, baza
<1>3. applied' \subseteq applied \cup {o} /\ (applied' # applied => claims[o] \in {"reserved", "held"})
  BY DEF Write, Delay, Land, Moved, MaySend
<1>4. CInv'
  <2>1. Paying' /\ SpentHere'
    BY <1>1, <1>2 DEF CInv, Paying, SpentHere, HeldBy
  <2>2. InTurn'
    BY <1>1, <1>2, <1>3 DEF CInv, InTurn, IsNext
  <2> QED
    BY <2>1, <2>2 DEF CInv
<1>5. CASE Write(o) \/ Delay(o)
  <2>1. claims[o] = "reserved" /\ o \in Sent'
    BY <1>5 DEF Write, Delay, MaySend, Sent
  <2>2. claims' = [claims EXCEPT ![o] = "reserved"]
    BY <1>1, <1>2, <2>1, ClaimState
  <2>3. Fresh'
    BY <2>1, <2>2, FreshClaim
  <2> QED
    BY <1>1, <1>4, <2>3 DEF Inv
<1>6. CASE Land(o) \/ Moved(o)
  <2>1. Sent' = Sent /\ shown' = shown
    BY <1>6 DEF Land, Moved, Sent
  <2>2. Fresh'
    BY <1>1, <1>2, <2>1 DEF Fresh, HeldBy
  <2> QED
    BY <1>1, <1>4, <2>2 DEF Inv
<1> QED
  BY <1>5, <1>6

LEMMA StrayInv ==
  ASSUME Inv, LandStray
  PROVE  Inv'
<1>1. TInv'
  BY DealStepTypes DEF Inv
<1>2. UNCHANGED <<grants, claims, applied, late, spentFor, shown>>
  BY DEF LandStray, books, baza
<1> QED
  BY <1>1, <1>2, SimpleInv

\* Baza lists what the claim will take.
LEMMA CheckInv ==
  ASSUME Inv, NEW o \in Ops, ClaimCheck(o)
  PROVE  Inv'
<1> DEFINE a == post["claim"].answer
           c == Candidate(grants', order', o)
           state == IF ~Raises(a) /\ Authoritative(c, a) THEN "checked" ELSE AtRest(grants', o)
<1>1. TInv' /\ TInv /\ CInv /\ Paying
  BY CheckTypes DEF Inv, CInv
<1>2. /\ claims[o] = "asking" /\ Import(a) /\ UNCHANGED <<applied, late, spentFor>>
      /\ claims' = [claims EXCEPT ![o] = state] /\ (claims'[o] = "checked" => shown' = Listed(a))
  BY DEF ClaimCheck, baza, deals
<1>3. Valid(a)
  BY <1>1, PostedAnswer DEF Threads
<1>4. c # None => c \in Keys /\ (HeldBy(grants', o) = {} \/ c \in HeldBy(grants', o))
  BY CandidateIn
<1>5. state = "checked" => ~Raises(a) /\ c \in Listed(a)
  BY AtRestType DEF Authoritative
<1>6. state \in {"checked", "held", "open"} /\ (state = "held" => HeldBy(grants', o) # {})
  BY DEF AtRest
<1> HIDE DEF a, c, state
<1>7. /\ Imported
      /\ \A g \in Keys : grants'[g].status = "approved" /\ ~Raises(a) => g \in Listed(a)
  BY <1>1, <1>2, <1>3, ImportEffect
<1>8. Kept
  BY <1>1, <1>7, KeptUnused DEF Imported
<1>9. HeldBy(grants', o) = HeldBy(grants, o)
  BY <1>8, KeptHeld
<1>10. claims'[o] = state /\ \A p \in Ops : p # o => claims'[p] = claims[p]
  BY <1>1, <1>2, ClaimState
<1>11. o \notin applied /\ IsNext(o)
  BY <1>1, <1>2 DEF CInv, InTurn
<1>12. CInv'
  BY <1>1, <1>2, <1>6, <1>8, <1>9, <1>10, <1>11, CKept
<1>13. CASE state = "checked"
  <2>1. \A g \in Keys : grants'[g].status = "approved" => g \in shown'
    BY <1>2, <1>5, <1>7, <1>10, <1>13
  <2>2. ASSUME NEW g \in HeldBy(grants', o) PROVE g \in shown'
    <3>1. c # None
      BY <1>3, <1>5, <1>13, Numbers, ListedGranted
    <3>2. c \in HeldBy(grants, o) /\ g \in HeldBy(grants, o)
      BY <1>4, <1>9, <2>2, <3>1
    <3>3. g = c
      BY <1>1, <3>2, Numbers DEF HeldBy, Paying
    <3> QED
      BY <1>2, <1>5, <1>10, <1>13, <3>3
  <2>3. Fresh'
    BY <1>2, <1>11, <1>13, <2>1, <2>2, FreshClaim
  <2> QED
    BY <1>1, <1>12, <2>3 DEF Inv
<1>14. CASE state # "checked"
  <2>1. Fresh'
    BY <1>2, <1>6, <1>11, <1>14, FreshClaim
  <2> QED
    BY <1>1, <1>12, <2>1 DEF Inv
<1> QED
  BY <1>13, <1>14

\* The reservation takes one of the grants that were shown.
LEMMA ReserveInv ==
  ASSUME Inv, NEW o \in Ops, Reserve(o)
  PROVE  Inv'
<1>1. TInv' /\ TInv /\ CInv /\ Paying /\ InTurn /\ SpentHere
  BY ReserveTypes DEF Inv, CInv
<1>2. claims[o] = "checked" /\ UNCHANGED <<applied, spentFor, shown>>
  BY <1>1, ReserveCases DEF baza
<1>3. o \notin applied /\ IsNext(o)
  BY <1>1, <1>2 DEF InTurn
<1>4. HeldBy(grants, o) \subseteq shown /\ \A g \in Keys : grants[g].status = "approved" => g \in shown
  BY <1>2 DEF Inv, Fresh
<1>5. CASE UNCHANGED grants
  <2>1. PICK state \in {"open", "reserved"} :
          claims' = [claims EXCEPT ![o] = state] /\ (state = "reserved" => HeldBy(grants, o) # {})
    <3>1. ~(\E g \in Keys, S \in SUBSET Lapsed(grants) :
              /\ grants[g].status = "approved" /\ g \notin S
              /\ grants' = [GrantsWithout(grants, S) EXCEPT ![g].status = "reserved", ![g].op = o])
      <4> SUFFICES ASSUME NEW g \in Keys, NEW S \in SUBSET Lapsed(grants),
                          grants[g].status = "approved" /\ g \notin S,
                          grants' = [GrantsWithout(grants, S) EXCEPT ![g].status = "reserved", ![g].op = o]
                   PROVE  FALSE
        OBVIOUS
      <4>1. grants'[g].status = "reserved"
        BY <1>1, ReserveGrants
      <4> QED
        BY <1>5, <4>1
    <3> QED
      BY <1>1, <3>1, ReserveCases
  <2>2. claims'[o] = state /\ \A p \in Ops : p # o => claims'[p] = claims[p]
    BY <1>1, <2>1, ClaimState
  <2>3. CInv'
    BY <1>1, <1>2, <1>3, <1>5, <2>1, <2>2, KeptNow, CKept
  <2>4. HeldBy(grants', o) \subseteq shown'
    BY <1>2, <1>4, <1>5
  <2>5. Fresh'
    BY <1>2, <2>1, <2>4, FreshClaim
  <2> QED
    BY <1>1, <2>3, <2>5 DEF Inv
<1>6. CASE ~UNCHANGED grants
  <2>1. PICK g \in Keys, S \in SUBSET Lapsed(grants) :
          /\ claims' = [claims EXCEPT ![o] = "reserved"]
          /\ HeldBy(grants, o) = {} /\ grants[g].status = "approved" /\ g \notin S
          /\ grants' = [GrantsWithout(grants, S) EXCEPT ![g].status = "reserved", ![g].op = o]
    BY <1>1, <1>6, ReserveCases
  <2>2. /\ grants' \in [Keys -> GrantType]
        /\ grants'[g].status = "reserved" /\ grants'[g].op = o
        /\ \A h \in Keys :
             h # g => /\ grants'[h].op = grants[h].op
                      /\ grants'[h] = grants[h] \/ (grants[h].status = "approved" /\ grants'[h].status = "expired")
    <3>1. TInv
      BY <1>1
    <3> QED
      BY <2>1, <3>1, ReserveGrants, Zenon
  <2>3. claims'[o] = "reserved" /\ \A p \in Ops : p # o => claims'[p] = claims[p]
    BY <1>1, <2>1, ClaimState
  <2>4. \A h \in Keys : grants[h].op # o
    <3> SUFFICES ASSUME NEW h \in Keys, grants[h].op = o PROVE FALSE
      OBVIOUS
    <3>1. grants[h].status \in {"reserved", "consumed"}
      BY <1>1, Numbers DEF Paying
    <3>2. grants[h].status # "reserved"
      BY <2>1 DEF HeldBy
    <3>3. claims[o] = "done"
      BY <1>1, <3>1, <3>2 DEF Paying
    <3> QED
      BY <1>2, <3>3
  <2>5. HeldBy(grants', o) = {g}
    BY <2>2, <2>4 DEF HeldBy
  <2>6. \A p \in Ops : p # o => HeldBy(grants', p) = HeldBy(grants, p)
    <3> TAKE p \in Ops
    <3> HAVE p # o
    <3>1. ASSUME NEW h \in Keys
          PROVE  (grants'[h].status = "reserved" /\ grants'[h].op = p) <=> (grants[h].status = "reserved" /\ grants[h].op = p)
      <4>1. CASE h = g
        BY <2>1, <2>2, <4>1
      <4>2. CASE h # g
        <5>1. grants'[h].op = grants[h].op /\ (grants'[h] = grants[h]
                 \/ (grants[h].status = "approved" /\ grants'[h].status = "expired"))
          BY <2>2, <4>2
        <5> QED
          BY <5>1
      <4> QED
        BY <4>1, <4>2
    <3> QED
      BY <3>1 DEF HeldBy
  <2>7. Paying'
    <3>1. ASSUME NEW h \in Keys PROVE grants'[h].op # None <=> grants'[h].status \in {"reserved", "consumed"}
      <4>1. CASE h = g
        BY <2>2, <4>1, Numbers
      <4>2. CASE h # g
        <5>1. grants'[h].op = grants[h].op /\ (grants'[h] = grants[h]
                 \/ (grants[h].status = "approved" /\ grants'[h].status = "expired"))
          BY <2>2, <4>2
        <5>2. grants[h].op # None <=> grants[h].status \in {"reserved", "consumed"}
          BY <1>1 DEF Paying
        <5> QED
          BY <5>1, <5>2
      <4> QED
        BY <4>1, <4>2
    <3>2. ASSUME NEW h \in Keys, NEW i \in Keys, grants'[h].op = grants'[i].op, grants'[h].op # None PROVE h = i
      <4>1. \A j \in Keys : grants'[j].op = IF j = g THEN o ELSE grants[j].op
        BY <2>2
      <4>2. h = g <=> i = g
        BY <2>4, <3>2, <4>1
      <4> QED
        BY <1>1, <3>2, <4>1, <4>2 DEF Paying
    <3>3. ASSUME NEW p \in Ops, claims'[p] \in {"reserved", "held"} PROVE HeldBy(grants', p) # {}
      BY <1>1, <2>3, <2>5, <2>6, <3>3 DEF Paying
    <3>4. ASSUME NEW p \in Ops
          PROVE  claims'[p] = "done" <=> \E h \in Keys : grants'[h].status = "consumed" /\ grants'[h].op = p
      <4>1. claims'[p] = "done" <=> claims[p] = "done"
        BY <1>2, <2>3
      <4>2. \A h \in Keys : (grants'[h].status = "consumed" /\ grants'[h].op = p)
                              <=> (grants[h].status = "consumed" /\ grants[h].op = p)
        <5> TAKE h \in Keys
        <5>1. CASE h = g
          BY <2>1, <2>2, <5>1
        <5>2. CASE h # g
          <6>1. grants'[h].op = grants[h].op /\ (grants'[h] = grants[h]
                   \/ (grants[h].status = "approved" /\ grants'[h].status = "expired"))
            BY <2>2, <5>2
          <6> QED
            BY <6>1
        <5> QED
          BY <5>1, <5>2
      <4> QED
        BY <1>1, <4>1, <4>2 DEF Paying
    <3> QED
      BY <3>1, <3>2, <3>3, <3>4 DEF Paying, HeldBy
  <2>8. InTurn'
    <3>1. \A p \in Ops : IsNext(p) => IsNext(p)'
      <4> TAKE p \in Ops
      <4>1. \A q \in 1..(p - 1) : q \in Ops
        BY Numbers DEF Ops
      <4> QED
        BY <1>2, <2>3, <4>1 DEF IsNext
    <3>2. applied \subseteq Ops
      BY <1>1, TypesMeet DEF Around, DealTypes
    <3> QED
      BY <1>1, <1>2, <1>3, <2>3, <3>1, <3>2 DEF InTurn
  <2>9. SpentHere'
    <3> SUFFICES ASSUME NEW e \in Keys, spentFor[e] # None
                 PROVE  grants'[e].status = "consumed" /\ grants'[e].op = spentFor[e]
      BY <1>2 DEF SpentHere
    <3>1. grants[e].status = "consumed" /\ grants[e].op = spentFor[e]
      BY <1>1 DEF SpentHere
    <3>2. grants'[e].op = grants[e].op /\ grants'[e] = grants[e]
      BY <2>1, <2>2, <3>1
    <3> QED
      BY <3>1, <3>2
  <2>10. HeldBy(grants', o) \subseteq shown'
    BY <1>2, <1>4, <2>1, <2>5
  <2>11. Fresh'
    BY <1>2, <2>1, <2>10, FreshClaim
  <2> QED
    BY <1>1, <2>7, <2>8, <2>9, <2>11 DEF Inv, CInv
<1> QED
  BY <1>5, <1>6

\* A claim ends: its grant is used up or given back, the others stay.
LEMMA CloseInv ==
  ASSUME Inv, NEW o \in Ops, Finalize(o) \/ Release(o)
  PROVE  Inv'
<1>1. TInv' /\ TInv /\ CInv /\ Paying /\ InTurn /\ SpentHere
  BY FinalizeTypes, ReleaseTypes DEF Inv, CInv
<1>2. PICK g \in HeldBy(grants, o), state \in {"done", "open"} :
        /\ claims' = [claims EXCEPT ![o] = state] /\ claims[o] \in {"reserved", "held"}
        /\ UNCHANGED <<applied, spentFor>>
        /\ IF state = "done" THEN grants' = [grants EXCEPT ![g].status = "consumed"] /\ o \in applied
           ELSE grants' = [grants EXCEPT ![g].status = "approved", ![g].op = None] /\ o \notin applied
  <2>1. CASE Finalize(o)
    BY <2>1 DEF Finalize, baza, deals
  <2>2. CASE Release(o)
    BY <2>2 DEF Release, Unapplied, baza
  <2> QED
    BY <2>1, <2>2
<1>3. g \in Keys /\ grants[g].status = "reserved" /\ grants[g].op = o /\ grants \in [Keys -> GrantType]
  BY <1>1, TypesMeet DEF HeldBy, Books
<1>4. /\ \A h \in Keys : h # g => grants'[h] = grants[h]
      /\ IF state = "done" THEN grants'[g].status = "consumed" /\ grants'[g].op = o
         ELSE grants'[g].status = "approved" /\ grants'[g].op = None
  <2>1. CASE state = "done"
    BY <1>2, <1>3, <2>1 DEF GrantType
  <2>2. CASE state # "done"
    <3> DEFINE new == [grants[g] EXCEPT !.status = "approved", !.op = None]
    <3>1. new.status = "approved" /\ new.op = None
      BY <1>3 DEF GrantType
    <3>2. grants' = [grants EXCEPT ![g] = new]
      BY <1>2, <1>3, <2>2
    <3> HIDE DEF new
    <3> QED
      BY <1>3, <2>2, <3>1, <3>2
  <2> QED
    BY <2>1, <2>2
<1>5. claims'[o] = state /\ \A p \in Ops : p # o => claims'[p] = claims[p]
  BY <1>1, <1>2, ClaimState
<1>6. \A h \in Keys : h # g => grants[h].op # o
  BY <1>1, <1>3, Numbers DEF Paying
<1>7. \A h \in Keys : h # g => grants'[h].op = grants[h].op /\ grants'[h].status = grants[h].status
  BY <1>4
<1>8. Paying'
  <2>1. ASSUME NEW h \in Keys PROVE grants'[h].op # None <=> grants'[h].status \in {"reserved", "consumed"}
    <3>1. CASE h = g
      BY <1>4, <3>1, Numbers
    <3>2. CASE h # g
      BY <1>1, <1>7, <3>2 DEF Paying
    <3> QED
      BY <3>1, <3>2
  <2>2. ASSUME NEW h \in Keys, NEW i \in Keys, grants'[h].op = grants'[i].op, grants'[h].op # None PROVE h = i
    <3>1. h # g /\ i # g => h = i
      BY <1>1, <1>7, <2>2 DEF Paying
    <3>2. grants'[g].op \in {o, None}
      BY <1>4
    <3>3. h = g <=> i = g
      BY <1>6, <1>7, <2>2, <3>2
    <3> QED
      BY <3>1, <3>3
  <2>3. ASSUME NEW p \in Ops, claims'[p] \in {"reserved", "held"} PROVE HeldBy(grants', p) # {}
    <3>1. p # o /\ claims[p] \in {"reserved", "held"}
      BY <1>2, <1>5, <2>3
    <3>2. PICK h \in Keys : grants[h].status = "reserved" /\ grants[h].op = p
      BY <1>1, <3>1 DEF Paying, HeldBy
    <3>3. h # g
      BY <1>3, <3>1, <3>2
    <3> QED
      BY <1>7, <3>2, <3>3 DEF HeldBy
  <2>4. ASSUME NEW p \in Ops
        PROVE  claims'[p] = "done" <=> \E h \in Keys : grants'[h].status = "consumed" /\ grants'[h].op = p
    <3>0. claims[p] = "done" <=> \E h \in Keys : grants[h].status = "consumed" /\ grants[h].op = p
      BY <1>1 DEF Paying
    <3>1. CASE p = o
      <4>1. \A h \in Keys : h # g => grants'[h].op # o
        BY <1>6, <1>7
      <4>2. CASE state = "done"
        BY <1>3, <1>4, <1>5, <3>1, <4>2
      <4>3. CASE state = "open"
        <5>1. grants'[g].status # "consumed" /\ claims'[p] # "done"
          BY <1>4, <1>5, <3>1, <4>3
        <5> QED
          BY <3>1, <4>1, <5>1
      <4> QED
        BY <4>2, <4>3
    <3>2. CASE p # o
      <4>1. \A h \in Keys : (grants'[h].status = "consumed" /\ grants'[h].op = p)
                              <=> (grants[h].status = "consumed" /\ grants[h].op = p)
        <5> TAKE h \in Keys
        <5>1. CASE h = g
          BY <1>3, <1>4, <3>2, <5>1
        <5>2. CASE h # g
          BY <1>7, <5>2
        <5> QED
          BY <5>1, <5>2
      <4> QED
        BY <1>5, <3>0, <3>2, <4>1
    <3> QED
      BY <3>1, <3>2
  <2> QED
    BY <2>1, <2>2, <2>3, <2>4 DEF Paying, HeldBy
<1>9. InTurn'
  <2>1. \A p \in Ops : IsNext(p) => IsNext(p)'
    <3> TAKE p \in Ops
    <3>1. \A q \in 1..(p - 1) : q \in Ops
      BY Numbers DEF Ops
    <3> QED
      BY <1>2, <1>5, <3>1 DEF IsNext
  <2>2. applied \subseteq Ops
    BY <1>1, TypesMeet DEF Around, DealTypes
  <2>3. ASSUME NEW p \in Ops, claims'[p] # "open" PROVE IsNext(p)'
    <3>1. claims[p] # "open"
      BY <1>2, <1>5, <2>3
    <3> QED
      BY <1>1, <2>1, <3>1 DEF InTurn
  <2>4. ASSUME NEW p \in applied' PROVE claims'[p] \in {"reserved", "held", "done"}
    BY <1>1, <1>2, <1>5, <2>2 DEF InTurn
  <2> QED
    BY <2>3, <2>4 DEF InTurn
<1>10. SpentHere'
  <2> SUFFICES ASSUME NEW e \in Keys, spentFor[e] # None
               PROVE  grants'[e].status = "consumed" /\ grants'[e].op = spentFor[e]
    BY <1>2 DEF SpentHere
  <2>1. grants[e].status = "consumed" /\ grants[e].op = spentFor[e]
    BY <1>1 DEF SpentHere
  <2>2. e # g
    BY <1>3, <2>1
  <2> QED
    BY <1>7, <2>1, <2>2
<1>11. Fresh'
  BY <1>2, FreshClaim
<1> QED
  BY <1>1, <1>8, <1>9, <1>10, <1>11 DEF Inv, CInv

LEMMA CrashInv ==
  ASSUME Inv, Crash
  PROVE  Inv'
<1>1. TInv' /\ TInv /\ CInv /\ Paying /\ InTurn
  BY CrashTypes DEF Inv, CInv
<1>2. /\ UNCHANGED <<grants, applied, late, spentFor>>
      /\ claims' = [o \in Ops |-> IF claims[o] \in {"asking", "checked"} THEN AtRest(grants, o)
                                  ELSE IF claims[o] = "reserved" THEN "held" ELSE claims[o]]
  BY DEF Crash, books, baza, deals
<1>3. ASSUME NEW p \in Ops
      PROVE  /\ claims'[p] \notin {"checked", "reserved"}
             /\ \/ claims'[p] = claims[p]
                \/ /\ claims[p] # "done" /\ claims'[p] # "done"
                   /\ claims'[p] # "open" => IsNext(p)
                   /\ claims'[p] \in {"reserved", "held"} => HeldBy(grants, p) # {}
                   /\ p \in applied => claims'[p] \in {"reserved", "held"}
  <2>0. claims'[p] = IF claims[p] \in {"asking", "checked"} THEN AtRest(grants, p)
                     ELSE IF claims[p] = "reserved" THEN "held" ELSE claims[p]
    BY <1>2
  <2>1. CASE claims[p] \in {"asking", "checked"}
    <3>1. IsNext(p) /\ p \notin applied
      BY <1>1, <2>1 DEF InTurn
    <3>2. claims'[p] \in {"open", "held"} /\ (claims'[p] = "held" => HeldBy(grants, p) # {})
      BY <2>0, <2>1 DEF AtRest
    <3> QED
      BY <2>1, <3>1, <3>2
  <2>2. CASE claims[p] = "reserved"
    <3>1. IsNext(p) /\ HeldBy(grants, p) # {} /\ claims'[p] = "held"
      BY <1>1, <2>0, <2>2 DEF InTurn, Paying
    <3> QED
      BY <2>2, <3>1
  <2>3. CASE claims[p] \notin {"asking", "checked", "reserved"}
    BY <2>0, <2>3
  <2> QED
    BY <2>1, <2>2, <2>3
<1>4. CInv'
  BY <1>1, <1>2, <1>3, KeptNow, CKept
<1>5. Fresh'
  BY <1>3 DEF Fresh
<1> QED
  BY <1>1, <1>4, <1>5 DEF Inv
-----------------------------------------------------------------------------
(* The theorems.                                                           *)

LEMMA InitInv == Init => Inv
<1> SUFFICES ASSUME Init PROVE Inv
  OBVIOUS
<1>1. Active(requests) = {}
  BY DEF Init, Active, Open
<1>2. Cardinality(Active(requests)) <= 1
  <2>1. Cardinality({}) = 0
    BY FS_EmptySet
  <2> QED
    BY <1>1, <2>1
<1>3. requests \in [Rows -> RequestType] /\ grants \in [Keys -> GrantType]
  BY DEF Init, RequestType, GrantType
<1>4. order \in Seq(Keys) /\ Len(order) = 0 /\ \A g \in Keys : grants[g].status = "absent"
  BY DEF Init
<1>5. Books
  BY <1>2, <1>3, <1>4 DEF Books, Dated
<1>6. post \in [Threads -> Posts] /\ \A t \in Threads : post[t] = Idle
  BY IdleTruth DEF Init
<1>7. Truth
  <2>1. ASSUME NEW t \in Threads PROVE Truthful(post[t])
    <3>1. Truthful(Idle) /\ post[t] = Idle
      BY <1>6, IdleTruth
    <3> QED
      BY <3>1
  <2> QED
    BY <2>1 DEF Truth
<1>8. Around
  BY <1>6, Numbers DEF Init, Around, DealTypes
<1>9. Rooted
  <2>1. \A k \in Keys : outbox[Request(k)] = {}
    BY ItemsApart DEF Init
  <2>2. \A o \in Ops : outbox[Event(o)] = {}
    BY ItemsApart DEF Init
  <2>3. /\ \A r \in Rows : requests[r].ext = None
        /\ \A k \in Keys : remote[k] = "none" /\ grants[k].status = "absent"
        /\ latest = None
    BY DEF Init
  <2> QED
    BY <2>1, <2>2, <2>3 DEF Rooted
<1>10. TInv
  BY <1>5, <1>7, <1>8, <1>9, TypesMeet
<1>11. /\ \A g \in Keys : grants[g].op = None /\ grants[g].status = "absent" /\ spentFor[g] = None
       /\ \A o \in Ops : claims[o] = "open"
       /\ applied = {}
  BY DEF Init
<1>12. CInv /\ Fresh
  BY <1>11 DEF CInv, Paying, InTurn, SpentHere, Fresh
<1> QED
  BY <1>10, <1>12 DEF Inv

LEMMA NextInv == Inv /\ [Next]_vars => Inv'
<1> SUFFICES ASSUME Inv, [Next]_vars PROVE Inv'
  OBVIOUS
<1>0. Deliverers = {"loop", "page"}
  BY DEF Deliverers
<1>1. CASE \E k \in Keys : Ask(k) \/ Decide(k) \/ Withdraw(k)
  BY <1>1, OutsideInv
<1>2. CASE Loop
  <2>1. CASE \E k \in Keys : List(k)
    BY <2>1, OutsideInv
  <2>2. CASE Receive("loop") \/ Handle("loop")
    BY <1>0, <2>2, ReceiveInv, HandleInv
  <2> QED
    BY <1>2, <2>1, <2>2 DEF Loop
<1>3. CASE Page
  BY <1>0, <1>3, PageInv, ReceiveInv, HandleInv DEF Page
<1>4. CASE Crash
  BY <1>4, CrashInv
<1>5. ASSUME NEW o \in Ops, Claim(o) PROVE Inv'
  BY <1>5, AskInv, CheckInv, UnansweredInv, ReserveInv, DealStepInv, HoldInv DEF Claim
<1>6. ASSUME NEW o \in Ops, Close(o) \/ Deal(o) PROVE Inv'
  BY <1>6, CloseInv, DealStepInv DEF Close, Deal
<1>7. CASE UNCHANGED vars
  <2>1. UNCHANGED <<books, outbox, claims, deals, post, baza, shape, faults, shown>>
    BY <1>7 DEF vars, books, baza, deals, strays
  <2>2. Onward
    BY <2>1 DEF Onward, books, baza
  <2>3. Truth' /\ Around'
    BY <2>1, <2>2, TruthFrame, DealsStay, TypesMeet DEF Inv, Around, baza
  <2>4. TInv'
    BY <2>1, <2>2, <2>3, MeetsBooks DEF Inv, baza
  <2> QED
    BY <2>1, <2>4, SimpleInv DEF books, baza, deals
<1> QED
  BY <1>1, <1>2, <1>3, <1>4, <1>5, <1>6, <1>7, StrayInv DEF Next

\* The invariant holds whatever is merged, lost, repeated or crashes.
THEOREM ExtraInvariant == Spec => []Inv
<1> QED
  BY InitInv, NextInv, PTL DEF Spec

\* TypeOK: the books keep their shape, with one open request of the employee at
\* most, whatever answers are merged.
THEOREM ExtraTypeCorrect == Spec => []TypeOK
<1>1. Inv => TypeOK
  BY DEF Inv, TInv
<1> QED
  BY <1>1, ExtraInvariant, PTL

\* From a claim to its grant: no two claims have the same one.
LEMMA AppliedPaid == Inv => PaidOnce
<1> SUFFICES ASSUME Inv PROVE PaidOnce
  OBVIOUS
<1> DEFINE paid == EverApproved
           used == {g \in Keys : grants[g].op \in applied}
           f == [g \in used |-> grants[g].op]
<1>1. TInv /\ Paying /\ InTurn /\ SpentHere /\ applied \subseteq Ops
  BY TypesMeet DEF Inv, CInv, Around, DealTypes
<1>2. used \in SUBSET paid
  <2> SUFFICES ASSUME NEW g \in used PROVE g \in paid
    OBVIOUS
  <2>1. g \in Keys /\ grants[g].op # None
    BY <1>1, Numbers
  <2>2. grants[g].status \in {"reserved", "consumed"}
    BY <1>1, <2>1 DEF Paying
  <2>3. remote[g] \in Granted
    BY <1>1, <2>1, <2>2, TypesMeet DEF Rooted
  <2> QED
    BY <2>1, <2>3 DEF Granted, EverApproved
<1>3. /\ \A o \in applied : \E g \in Keys : grants[g].op = o
      /\ \A o \in applied : \E g \in used : f[g] = o
  <2>1. ASSUME NEW o \in applied PROVE \E g \in Keys : grants[g].op = o
    <3>1. o \in Ops /\ claims[o] \in {"reserved", "held", "done"}
      BY <1>1 DEF InTurn
    <3> QED
      BY <1>1, <3>1 DEF Paying, HeldBy
  <2> QED
    BY <2>1
<1>4. f \in Surjection(used, applied)
  BY <1>3 DEF Surjection
<1>5. IsFiniteSet(paid)
  BY FiniteRows, FS_Subset DEF EverApproved
<1> HIDE DEF f
<1>6. IsFiniteSet(used) /\ Cardinality(used) <= Cardinality(paid)
  <2> HIDE DEF paid, used
  <2> QED
    BY <1>2, <1>5, FS_Subset
<1>7. IsFiniteSet(applied) /\ Cardinality(applied) <= Cardinality(used)
  <2> HIDE DEF paid, used
  <2> QED
    BY <1>4, <1>6, FS_Surjection
<1>8. Cardinality(applied) \in Nat /\ Cardinality(used) \in Nat /\ Cardinality(paid) \in Nat
  <2> HIDE DEF paid, used
  <2> QED
    BY <1>5, <1>6, <1>7, FS_CardinalityType
<1>9. Cardinality(applied) <= Cardinality(paid)
  <2> HIDE DEF paid, used
  <2> QED
    BY <1>6, <1>7, <1>8
<1> QED
  BY <1>1, <1>3, <1>9 DEF PaidOnce, SpentHere

\* PaidOnce: each claim whose present attempt was written, late writes included,
\* keeps a grant of its own, which the director approved, until it is consumed,
\* and Baza counts a grant as spent only for that claim.  An update that lands after its attempt was given
\* up is not counted: it has no claim, and its grant may pay for another one.
THEOREM ClaimsPaidOnce == Spec => []PaidOnce
<1> QED
  BY AppliedPaid, ExtraInvariant, PTL

\* Only Write and Delay send an update, and they find what the check left.
LEMMA SentShown ==
  ASSUME Inv, [Next]_vars
  PROVE  \A o \in Sent' \ Sent : HeldBy(grants, o) \subseteq shown
<1> SUFFICES ASSUME NEW o \in Sent' \ Sent PROVE HeldBy(grants, o) \subseteq shown
  OBVIOUS
<1>1. ASSUME NEW p \in Ops, Write(p) \/ Delay(p) PROVE o = p /\ claims[o] = "reserved"
  BY <1>1 DEF Write, Delay, MaySend, Sent
<1>2. \E p \in Ops : Write(p) \/ Delay(p)
  <2> SUFFICES ASSUME ~(\E p \in Ops : Write(p) \/ Delay(p)) PROVE Sent' \subseteq Sent
    OBVIOUS
  <2>1. UNCHANGED deals => Sent' = Sent
    BY DEF deals, Sent
  <2>2. CASE \E k \in Keys : Ask(k) \/ Decide(k) \/ Withdraw(k) \/ List(k)
    BY <2>1, <2>2 DEF Ask, Decide, Withdraw, List
  <2>3. ASSUME NEW t \in Deliverers, Receive(t) \/ Handle(t) PROVE Sent' = Sent
    BY <2>1, <2>3 DEF Receive, Handle, Create, Repeat, Conflict, Spend, Refuse, Reply, Adopt, Postpone, Exported, Bury, Answered
  <2>4. CASE Look \/ Query \/ Refresh \/ Crash
    BY <2>1, <2>4 DEF Look, Query, Refresh, Crash
  <2>5. ASSUME NEW p \in Ops, ClaimAsk(p) \/ ClaimCheck(p) \/ ClaimUnanswered(p) \/ Hold(p) \/ Finalize(p)
        PROVE  Sent' = Sent
    BY <2>1, <2>5 DEF ClaimAsk, ClaimCheck, ClaimUnanswered, Hold, Finalize
  <2>6. ASSUME NEW p \in Ops, Reserve(p) \/ Release(p) \/ Land(p) \/ Moved(p) PROVE Sent' \subseteq Sent
    BY <2>6 DEF Reserve, Release, Land, Moved, Sent
  <2>7. CASE LandStray
    BY <2>7 DEF LandStray, Sent
  <2>8. CASE UNCHANGED vars
    BY <2>8 DEF vars, Sent
  <2> QED
    BY <2>2, <2>3, <2>4, <2>5, <2>6, <2>7, <2>8 DEF Next, Loop, Page, Deliverers, Claim, Close, Deal
<1>3. o \in Ops \ Sent /\ claims[o] = "reserved"
  BY <1>1, <1>2
<1> QED
  BY <1>3 DEF Inv, Fresh

\* Authorized: a claim that sends its update was shown its grant by Baza, unless
\* another answer was merged after its question.
THEOREM ClaimsAuthorized == Spec => Authorized
<1>1. Inv /\ [Next]_vars => [\A o \in Sent' \ Sent : HeldBy(grants, o) \subseteq shown]_vars
  BY SentShown
<1> QED
  BY <1>1, ExtraInvariant, PTL DEF Spec, Authorized
=============================================================================
