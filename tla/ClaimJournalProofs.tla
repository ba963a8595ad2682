------------------------- MODULE ClaimJournalProofs -------------------------
(***************************************************************************)
(* Proofs about ClaimJournal for any deals, versions, employees, grants    *)
(* and attempts.  The safety properties of the journal are inductive       *)
(* together: each transaction relies on the others' conjuncts, for example *)
(* the ledger says that an operation without a row holds no grant.         *)
(***************************************************************************)
EXTENDS ClaimJournal, TLAPS

JInv == /\ TypeOK
        /\ OneOpenLifecycle
        /\ OneAllocation
        /\ AuditExact
        /\ GrantLedger
        /\ FollowUpsConfirmed

\* A row is absent or completely written.
LEMMA RowShape ==
  ASSUME JInv, NEW o \in Ops
  PROVE  /\ op[o] \in Rows
         /\ op[o].status # "none" => op[o] \in WrittenRows
         /\ op[o].grant \in Grants \cup {None}
<1>1. op[o] = NoRow \/ op[o] \in WrittenRows
  BY DEF JInv, TypeOK, Rows
<1>2. CASE op[o] = NoRow
  BY <1>2 DEF NoRow, Rows
<1>3. CASE op[o] \in WrittenRows
  BY <1>3 DEF WrittenRows, Rows
<1> QED
  BY <1>1, <1>2, <1>3

\* The ledger, for one operation and one grant.
LEMMA Ledger ==
  ASSUME JInv, NEW o \in Ops, NEW g \in Grants
  PROVE  /\ op[o].grant = g => g[1] = op[o].manager
         /\ (grants[g] = [status |-> "reserved", op |-> o]) <=>
              (op[o].grant = g /\ op[o].status \in {"pending", "failed"})
         /\ (grants[g] = [status |-> "consumed", op |-> o]) <=>
              (op[o].grant = g /\ op[o].status = "succeeded")
BY DEF JInv, GrantLedger

\* The attempt of a succeeded operation was drawn.
LEMMA SucceededAttempt ==
  ASSUME JInv, NEW o \in Ops, op[o].status = "succeeded"
  PROVE  op[o].nonce \in Nonces /\ <<o, op[o].nonce>> \in Attempts
<1>1. PICK e \in events : e.op = o
  BY DEF JInv, AuditExact
<1>2. e.nonce \in Nonces /\ op[e.op].nonce = e.nonce
  BY DEF JInv, AuditExact, TypeOK, Events
<1> QED
  BY <1>1, <1>2 DEF Attempts

\* The grant side of a new attempt: h is the grant the row will hold.
GrantTaken(o, m, h) ==
  \/ h = None /\ HeldBy(o) = {} /\ grants' = grants
  \/ /\ h \in Grants /\ h[1] = m
     /\ grants' = [grants EXCEPT ![h] = [status |-> "reserved", op |-> o]]
     /\ HeldBy(o) \subseteq {h}
     /\ grants[h].status = "approved" \/ h \in HeldBy(o)

\* An operation that no grant is reserved for takes an approved one or none.
LEMMA FreshGrant ==
  ASSUME JInv, NEW o \in Ops, NEW m \in Managers, NEW needGrant \in BOOLEAN, HeldBy(o) = {},
         NEW g \in GrantChoices(o, m, needGrant), ReserveGrant(o, g)
  PROVE  GrantTaken(o, m, g)
<1>1. CASE needGrant
  <2>1. g \in Grants /\ g[1] = m /\ grants[g].status = "approved"
    BY <1>1 DEF GrantChoices, Reservable
  <2>2. g # None
    BY <2>1, JournalAssumption DEF Grants
  <2> QED
    BY <2>1, <2>2 DEF GrantTaken, ReserveGrant
<1>2. CASE ~needGrant
  BY <1>2 DEF GrantChoices, GrantTaken, ReserveGrant
<1> QED
  BY <1>1, <1>2

\* What begin, retry and reassign have in common.
LEMMA AttemptShape ==
  ASSUME JInv, NEW o \in Ops, NEW m \in Managers,
         NEW needGrant \in BOOLEAN, NEW hasContact \in BOOLEAN, NEW greet \in BOOLEAN,
         Attempt(o, m, needGrant, hasContact, greet)
  PROVE  /\ op[o].status \in {"none", "failed"}
         /\ Available(o, FALSE) /\ Draw(o, hasContact)
         /\ \E h \in Grants \cup {None} : /\ GrantTaken(o, m, h)
                                          /\ Pending(o, m, drawn[o] + 1, h, greet)
         /\ UNCHANGED <<events, greeting>>
<1>1. ASSUME op[o].status = "none" \/ (op[o].status = "failed" /\ ~GrantHeld(o))
      PROVE  HeldBy(o) = {}
  <2>1. ASSUME NEW g \in HeldBy(o) PROVE FALSE
    <3>1. g \in Grants /\ grants[g] = [status |-> "reserved", op |-> o]
      BY <2>1 DEF HeldBy
    <3>2. op[o].grant = g /\ op[o].status \in {"pending", "failed"}
      BY <3>1 DEF JInv, GrantLedger
    <3>3. g # None
      BY <3>1, JournalAssumption DEF Grants
    <3> QED
      BY <1>1, <2>1, <3>2, <3>3 DEF GrantHeld
  <2> QED
    BY <2>1
<1>2. CASE Begin(o, m, needGrant, hasContact, greet)
  <2>1. PICK g \in GrantChoices(o, m, needGrant) :
          ReserveGrant(o, g) /\ Pending(o, m, drawn[o] + 1, g, greet)
    BY <1>2 DEF Begin
  <2>2. GrantTaken(o, m, g)
    BY <1>1, <1>2, <2>1, FreshGrant DEF Begin
  <2> QED
    BY <1>2, <2>1, <2>2 DEF Begin, GrantTaken
<1>3. CASE Reassign(o, m, needGrant, hasContact, greet)
  <2>1. PICK g \in GrantChoices(o, m, needGrant) :
          ReserveGrant(o, g) /\ Pending(o, m, drawn[o] + 1, g, greet)
    BY <1>3 DEF Reassign
  <2>2. GrantTaken(o, m, g)
    BY <1>1, <1>3, <2>1, FreshGrant DEF Reassign
  <2> QED
    BY <1>3, <2>1, <2>2 DEF Reassign, GrantTaken
<1>4. CASE Retry(o, m, needGrant, hasContact, greet)
  <2>1. PICK g \in GrantChoices(o, m, needGrant) :
          /\ ReserveGrant(o, g)
          /\ Pending(o, m, drawn[o] + 1, IF g = None THEN op[o].grant ELSE g, greet)
    BY <1>4 DEF Retry
  <2>2. op[o].status = "failed" /\ op[o].manager = m
    BY <1>4 DEF Retry
  <2>3. CASE op[o].grant = None
    <3>1. HeldBy(o) = {}
      BY <1>1, <2>2, <2>3 DEF GrantHeld
    <3>2. GrantTaken(o, m, g)
      BY <2>1, <3>1, FreshGrant
    <3> QED
      BY <1>4, <2>1, <2>3, <3>2 DEF Retry, GrantTaken
  <2>4. CASE op[o].grant # None
    <3> DEFINE h == op[o].grant
    <3>1. h \in Grants
      BY <2>4, RowShape
    <3>2. grants[h] = [status |-> "reserved", op |-> o] /\ h[1] = m
      BY <2>2, <3>1, Ledger
    <3>3. HeldBy(o) = {h}
      <4>1. h \in HeldBy(o)
        BY <3>1, <3>2 DEF HeldBy
      <4>2. \A x \in HeldBy(o) : x = h
        BY DEF HeldBy, JInv, GrantLedger
      <4> QED
        BY <4>1, <4>2
    <3>4. g = None \/ g = h
      <4>1. {x \in HeldBy(o) : x[1] = m} = {h}
        BY <3>2, <3>3
      <4>2. Reservable(o, m) = {h}
        BY <4>1, Zenon DEF Reservable
      <4> QED
        BY <4>2 DEF GrantChoices
    <3>5. grants' = [grants EXCEPT ![h] = [status |-> "reserved", op |-> o]]
      <4>1. grants = [grants EXCEPT ![h] = [status |-> "reserved", op |-> o]]
        BY <3>1, <3>2 DEF JInv, TypeOK
      <4> QED
        BY <2>1, <3>4, <4>1 DEF ReserveGrant
    <3>6. GrantTaken(o, m, h)
      BY <3>1, <3>2, <3>3, <3>5 DEF GrantTaken
    <3>7. Pending(o, m, drawn[o] + 1, h, greet)
      BY <2>1, <3>4
    <3> QED
      BY <1>4, <3>1, <3>6, <3>7 DEF Retry
  <2> QED
    BY <2>3, <2>4
<1> QED
  BY <1>2, <1>3, <1>4 DEF Attempt

\* A step that turns one operation into a pending one and leaves the others.
LEMMA OpenKept ==
  ASSUME OneOpenLifecycle, NEW o \in Ops, \A p \in OtherOps(o) : ~Unresolved(p),
         \A p \in Ops : p # o => op'[p] = op[p]
  PROVE  OneOpenLifecycle'
<1>1. \A p \in Ops : p # o => (Unresolved(p)' <=> Unresolved(p))
  BY DEF Unresolved
<1> QED
  BY <1>1 DEF OneOpenLifecycle, OtherOps

LEMMA AttemptStep ==
  ASSUME JInv, NEW o \in Ops, NEW m \in Managers,
         NEW needGrant \in BOOLEAN, NEW hasContact \in BOOLEAN, NEW greet \in BOOLEAN,
         Attempt(o, m, needGrant, hasContact, greet)
  PROVE  JInv'
<1>1. PICK h \in Grants \cup {None} : /\ GrantTaken(o, m, h)
                                      /\ Pending(o, m, drawn[o] + 1, h, greet)
  BY AttemptShape
<1>2. /\ op[o].status \in {"none", "failed"}
      /\ Available(o, FALSE) /\ Draw(o, hasContact)
      /\ UNCHANGED <<events, greeting>>
  BY AttemptShape
<1>3. /\ drawn[o] + 1 \in Nonces /\ <<o, drawn[o] + 1>> \in Attempts
      /\ drawn' = [drawn EXCEPT ![o] = drawn[o] + 1]
      /\ contact' = [contact EXCEPT ![<<o, drawn[o] + 1>>] =
                       IF hasContact THEN "reserved" ELSE "none"]
  BY <1>2, JournalAssumption DEF Draw, JInv, TypeOK, Nonces, Attempts
<1>4. /\ op'[o] = [status |-> "pending", manager |-> m, nonce |-> drawn[o] + 1,
                   result |-> "none", grant |-> h, greet |-> greet]
      /\ \A p \in Ops : p # o => op'[p] = op[p]
      /\ op' = [op EXCEPT ![o] = op'[o]]
  BY <1>1 DEF Pending, JInv, TypeOK
<1>5. TypeOK'
  <2>1. op'[o] \in Rows
    BY <1>3, <1>4 DEF Rows, WrittenRows
  <2>2. op' \in [Ops -> Rows]
    BY <1>4, <2>1 DEF JInv, TypeOK
  <2>3. drawn' \in [Ops -> 0..MaxAttempts]
    BY <1>3, JournalAssumption DEF JInv, TypeOK, Nonces
  <2>4. contact' \in [Attempts -> {"none", "reserved", "pending", "cancelled"}]
    BY <1>3 DEF JInv, TypeOK
  <2>5. grants' \in [Grants -> [status : {"absent", "approved", "reserved", "consumed", "expired"},
                                op : Ops \cup {None}]]
    BY <1>1 DEF GrantTaken, JInv, TypeOK
  <2> QED
    BY <1>2, <2>2, <2>3, <2>4, <2>5 DEF JInv, TypeOK
<1>6. OneOpenLifecycle'
  BY <1>2, <1>4, OpenKept DEF Available, JInv
<1>7. OneAllocation'
  BY <1>2 DEF JInv, OneAllocation
<1>8. AuditExact'
  <2>1. \A e \in events : e.op # o /\ e.op \in Ops
    BY <1>2 DEF JInv, AuditExact, TypeOK, Events
  <2> QED
    BY <1>2, <1>4, <2>1 DEF JInv, AuditExact
<1>9. GrantLedger'
  <2> SUFFICES ASSUME NEW g \in Grants, NEW p \in Ops
               PROVE  /\ op'[p].grant = g => g[1] = op'[p].manager
                      /\ grants'[g] = [status |-> "reserved", op |-> p] <=>
                           op'[p].grant = g /\ op'[p].status \in {"pending", "failed"}
                      /\ grants'[g] = [status |-> "consumed", op |-> p] <=>
                           op'[p].grant = g /\ op'[p].status = "succeeded"
    BY DEF GrantLedger
  <2>0. /\ op[p].grant = g => g[1] = op[p].manager
        /\ grants[g] = [status |-> "reserved", op |-> p] <=>
             op[p].grant = g /\ op[p].status \in {"pending", "failed"}
        /\ grants[g] = [status |-> "consumed", op |-> p] <=>
             op[p].grant = g /\ op[p].status = "succeeded"
    BY DEF JInv, GrantLedger
  <2>1. g # None
    BY JournalAssumption DEF Grants
  <2>2. CASE h = None
    <3>1. HeldBy(o) = {} /\ grants' = grants
      BY <1>1, <2>2, JournalAssumption DEF GrantTaken, Grants
    <3>2. CASE p = o
      BY <1>2, <1>4, <2>0, <2>1, <2>2, <3>1, <3>2 DEF HeldBy
    <3>3. CASE p # o
      BY <1>4, <2>0, <3>1, <3>3
    <3> QED
      BY <3>2, <3>3
  <2>3. CASE h # None
    <3>1. /\ h \in Grants /\ h[1] = m /\ HeldBy(o) \subseteq {h}
          /\ grants' = [grants EXCEPT ![h] = [status |-> "reserved", op |-> o]]
          /\ grants[h].status = "approved" \/ h \in HeldBy(o)
      BY <1>1, <2>3 DEF GrantTaken
    <3>2. grants'[h] = [status |-> "reserved", op |-> o] /\ (g # h => grants'[g] = grants[g])
      BY <3>1 DEF JInv, TypeOK
    <3>3. grants[h].status # "consumed"
      BY <3>1 DEF HeldBy
    <3>4. p # o => grants[h] # [status |-> "reserved", op |-> p]
      BY <3>1 DEF HeldBy
    <3>5. g # h => grants[g] # [status |-> "reserved", op |-> o]
      BY <3>1 DEF HeldBy
    <3>6. CASE p = o /\ g = h
      BY <1>4, <3>1, <3>2, <3>6
    <3>7. CASE p = o /\ g # h
      BY <1>2, <1>4, <2>0, <3>2, <3>5, <3>7
    <3>8. CASE p # o /\ g = h
      BY <1>4, <2>0, <3>2, <3>3, <3>4, <3>8
    <3>9. CASE p # o /\ g # h
      BY <1>4, <2>0, <3>2, <3>9
    <3> QED
      BY <3>6, <3>7, <3>8, <3>9
  <2> QED
    BY <2>2, <2>3
<1>10. FollowUpsConfirmed'
  <2>1. ASSUME NEW p \in Ops, NEW n \in Nonces, contact'[<<p, n>>] = "pending"
        PROVE  op'[p].status = "succeeded" /\ op'[p].nonce = n
    <3>1. <<p, n>> \in Attempts
      BY DEF Attempts
    <3>2. contact[<<p, n>>] = "pending"
      BY <1>3, <2>1, <3>1 DEF JInv, TypeOK
    <3>3. op[p].status = "succeeded" /\ op[p].nonce = n
      BY <3>2 DEF JInv, FollowUpsConfirmed
    <3> QED
      BY <1>2, <1>4, <3>3
  <2>2. ASSUME NEW p \in Ops, op'[p].status = "succeeded"
        PROVE  contact'[<<p, op'[p].nonce>>] # "reserved"
    <3>1. p # o /\ op'[p] = op[p]
      BY <1>4, <2>2
    <3>2. contact[<<p, op[p].nonce>>] # "reserved"
      BY <2>2, <3>1 DEF JInv, FollowUpsConfirmed
    <3>3. <<p, op[p].nonce>> # <<o, drawn[o] + 1>>
      BY <3>1
    <3>4. contact'[<<p, op[p].nonce>>] = contact[<<p, op[p].nonce>>]
      BY <1>3, <3>3 DEF JInv, TypeOK
    <3> QED
      BY <3>1, <3>2, <3>4
  <2>3. \A p \in greeting : op'[p].status = "succeeded"
    BY <1>2, <1>4 DEF JInv, FollowUpsConfirmed, TypeOK
  <2> QED
    BY <1>2, <2>1, <2>2, <2>3 DEF FollowUpsConfirmed
<1> QED
  BY <1>5, <1>6, <1>7, <1>8, <1>9, <1>10 DEF JInv

\* The steps that keep the employee, the attempt and the grant of a row and
\* change only grants of that row: RetrySame and Fail.
LEMMA RetrySameStep ==
  ASSUME JInv, NEW o \in Ops, NEW m \in Managers, NEW confirmed \in BOOLEAN,
         NEW greet \in BOOLEAN, RetrySame(o, m, confirmed, greet)
  PROVE  JInv'
<1>1. /\ op[o].status = "failed" /\ op[o].manager = m
      /\ Available(o, confirmed)
      /\ UNCHANGED <<drawn, events, grants, contact, greeting>>
  BY DEF RetrySame
<1>2. /\ op'[o] = [status |-> "pending", manager |-> op[o].manager, nonce |-> op[o].nonce,
                   result |-> "none", grant |-> op[o].grant, greet |-> greet]
      /\ \A p \in Ops : p # o => op'[p] = op[p]
      /\ op' = [op EXCEPT ![o] = op'[o]]
  BY DEF RetrySame, Pending, JInv, TypeOK
<1>3. TypeOK'
  <2>1. op'[o] \in Rows
    <3>1. op[o] \in WrittenRows
      BY <1>1, RowShape
    <3> QED
      BY <1>2, <3>1 DEF Rows, WrittenRows
  <2>2. op' \in [Ops -> Rows]
    BY <1>2, <2>1 DEF JInv, TypeOK
  <2> QED
    BY <1>1, <2>2 DEF JInv, TypeOK
<1>4. OneOpenLifecycle'
  BY <1>1, <1>2, OpenKept DEF Available, JInv
<1>5. OneAllocation'
  BY <1>1 DEF JInv, OneAllocation
<1>6. AuditExact'
  <2>1. \A e \in events : e.op # o /\ e.op \in Ops
    BY <1>1 DEF JInv, AuditExact, TypeOK, Events
  <2> QED
    BY <1>1, <1>2, <2>1 DEF JInv, AuditExact
<1>7. GrantLedger'
  <2> SUFFICES ASSUME NEW g \in Grants, NEW p \in Ops
               PROVE  /\ op'[p].grant = g => g[1] = op'[p].manager
                      /\ grants'[g] = [status |-> "reserved", op |-> p] <=>
                           op'[p].grant = g /\ op'[p].status \in {"pending", "failed"}
                      /\ grants'[g] = [status |-> "consumed", op |-> p] <=>
                           op'[p].grant = g /\ op'[p].status = "succeeded"
    BY DEF GrantLedger
  <2>1. CASE p = o
    <3>1. op'[p].grant = op[p].grant /\ op'[p].manager = op[p].manager
      BY <1>2, <2>1
    <3>2. op'[p].status = "pending" /\ op[p].status = "failed"
      BY <1>1, <1>2, <2>1
    <3> QED
      BY <1>1, <3>1, <3>2, Ledger
  <2>2. CASE p # o
    BY <1>1, <1>2, <2>2, Ledger
  <2> QED
    BY <2>1, <2>2
<1>8. FollowUpsConfirmed'
  BY <1>1, <1>2 DEF JInv, FollowUpsConfirmed, TypeOK
<1> QED
  BY <1>3, <1>4, <1>5, <1>6, <1>7, <1>8 DEF JInv

LEMMA FinalizeStep ==
  ASSUME JInv, NEW o \in Ops, NEW n \in Nonces, NEW m \in Managers, NEW recovered \in BOOLEAN,
         Finalize(o, n, m, recovered)
  PROVE  JInv'
<1> DEFINE new == [op |-> o, manager |-> m, nonce |-> n, recovered |-> recovered,
                   grant |-> op[o].grant]
<1>1. /\ op[o].status = "pending" /\ op[o].nonce = n /\ op[o].manager = m
      /\ Available(o, recovered)
      /\ \A e \in events : e.op # o
      /\ events' = events \cup {new}
      /\ contact' = Activate(o, n)
      /\ greeting' = IF op[o].greet THEN greeting \cup {o} ELSE greeting
      /\ drawn' = drawn
  BY DEF Finalize, CurrentAttempt
<1>2. /\ op'[o] = [op[o] EXCEPT !.status = "succeeded"]
      /\ \A p \in Ops : p # o => op'[p] = op[p]
      /\ op' = [op EXCEPT ![o] = op'[o]]
  BY DEF Finalize, JInv, TypeOK
<1>3. \A g \in Grants : grants'[g] = IF g = op[o].grant THEN [grants[g] EXCEPT !.status = "consumed"]
                                                        ELSE grants[g]
  BY DEF Finalize
<1>4. op[o] \in WrittenRows /\ op[o].grant \in Grants \cup {None}
  BY <1>1, RowShape
<1>5. op'[o].status = "succeeded" /\ op'[o].manager = m /\ op'[o].nonce = n
      /\ op'[o].grant = op[o].grant
  BY <1>1, <1>2, <1>4 DEF WrittenRows
<1>6. \A a \in Attempts : contact'[a] = IF a = <<o, n>> /\ contact[a] = "reserved"
                                        THEN "pending" ELSE contact[a]
  BY <1>1 DEF Activate, JInv, TypeOK
<1>7. TypeOK'
  <2>1. op' \in [Ops -> Rows]
    <3>1. op'[o] \in Rows
      BY <1>2, <1>4 DEF Rows, WrittenRows
    <3> QED
      BY <1>2, <3>1 DEF JInv, TypeOK
  <2>2. events' \subseteq Events
    BY <1>1, <1>4 DEF JInv, TypeOK, Events
  <2>3. grants' \in [Grants -> [status : {"absent", "approved", "reserved", "consumed", "expired"},
                                op : Ops \cup {None}]]
    BY DEF Finalize, JInv, TypeOK
  <2>4. contact' \in [Attempts -> {"none", "reserved", "pending", "cancelled"}]
    BY <1>1 DEF Activate, JInv, TypeOK
  <2>5. greeting' \subseteq Ops
    BY <1>1 DEF JInv, TypeOK
  <2> QED
    BY <1>1, <2>1, <2>2, <2>3, <2>4, <2>5 DEF JInv, TypeOK
<1>8. OneOpenLifecycle'
  BY <1>1, <1>2, OpenKept DEF Available, JInv
<1>9. OneAllocation'
  <2>1. ASSUME ~recovered, NEW e \in events, DealOf(e.op) = DealOf(o) PROVE FALSE
    <3>1. e.op \in Ops /\ e.op # o
      BY <1>1 DEF JInv, TypeOK, Events
    <3> QED
      BY <1>1, <2>1, <3>1 DEF Available, DealWasClaimed, OtherOps
  <2> QED
    BY <1>1, <2>1 DEF JInv, OneAllocation
<1>10. AuditExact'
  <2>1. \A e \in events : e.op # o /\ e.op \in Ops
    BY <1>1 DEF JInv, TypeOK, Events
  <2>2. \A e, f \in events' : e.op = f.op => e = f
    BY <1>1, <2>1 DEF JInv, AuditExact
  <2>3. \A p \in Ops : op'[p].status = "succeeded" <=> \E e \in events' : e.op = p
    <3> SUFFICES ASSUME NEW p \in Ops
                 PROVE  op'[p].status = "succeeded" <=> \E e \in events' : e.op = p
      OBVIOUS
    <3>1. CASE p = o
      <4>1. new \in events' /\ new.op = p
        BY <1>1, <3>1
      <4> QED
        BY <1>5, <3>1, <4>1
    <3>2. CASE p # o
      <4>1. op[p].status = "succeeded" <=> \E e \in events : e.op = p
        BY DEF JInv, AuditExact
      <4>2. (\E e \in events' : e.op = p) <=> \E e \in events : e.op = p
        BY <1>1, <3>2
      <4> QED
        BY <1>2, <3>2, <4>1, <4>2
    <3> QED
      BY <3>1, <3>2
  <2>4. \A e \in events' : /\ op'[e.op].manager = e.manager
                           /\ op'[e.op].nonce = e.nonce
                           /\ op'[e.op].grant = e.grant
    <3> SUFFICES ASSUME NEW e \in events'
                 PROVE  /\ op'[e.op].manager = e.manager
                        /\ op'[e.op].nonce = e.nonce
                        /\ op'[e.op].grant = e.grant
      OBVIOUS
    <3>1. CASE e \in events
      BY <1>2, <2>1, <3>1 DEF JInv, AuditExact
    <3>2. CASE e = new
      <4>1. op'[o].manager = m /\ op'[o].nonce = n /\ op'[o].grant = op[o].grant
        BY <1>1, <1>5
      <4> QED
        BY <3>2, <4>1
    <3> QED
      BY <1>1, <3>1, <3>2
  <2> QED
    BY <2>2, <2>3, <2>4 DEF AuditExact
<1>11. GrantLedger'
  <2> SUFFICES ASSUME NEW g \in Grants, NEW p \in Ops
               PROVE  /\ op'[p].grant = g => g[1] = op'[p].manager
                      /\ grants'[g] = [status |-> "reserved", op |-> p] <=>
                           op'[p].grant = g /\ op'[p].status \in {"pending", "failed"}
                      /\ grants'[g] = [status |-> "consumed", op |-> p] <=>
                           op'[p].grant = g /\ op'[p].status = "succeeded"
    BY DEF GrantLedger
  <2>0. /\ op[p].grant = g => g[1] = op[p].manager
        /\ grants[g] = [status |-> "reserved", op |-> p] <=>
             op[p].grant = g /\ op[p].status \in {"pending", "failed"}
        /\ grants[g] = [status |-> "consumed", op |-> p] <=>
             op[p].grant = g /\ op[p].status = "succeeded"
    BY DEF JInv, GrantLedger
  <2>1. CASE g = op[o].grant
    <3>1. grants[g] = [status |-> "reserved", op |-> o]
      BY <1>1, <2>1 DEF JInv, GrantLedger
    <3>2. grants'[g] = [status |-> "consumed", op |-> o]
      BY <1>3, <2>1, <3>1
    <3>3. CASE p = o
      BY <1>1, <1>5, <2>0, <2>1, <3>2, <3>3
    <3>4. CASE p # o
      BY <1>2, <2>0, <3>1, <3>2, <3>4
    <3> QED
      BY <3>3, <3>4
  <2>2. CASE g # op[o].grant
    <3>1. grants'[g] = grants[g]
      BY <1>3, <2>2
    <3>2. CASE p = o
      BY <1>1, <1>5, <2>0, <2>2, <3>1, <3>2
    <3>3. CASE p # o
      BY <1>2, <2>0, <3>1, <3>3
    <3> QED
      BY <3>2, <3>3
  <2> QED
    BY <2>1, <2>2
<1>12. FollowUpsConfirmed'
  <2>1. ASSUME NEW p \in Ops, NEW k \in Nonces, contact'[<<p, k>>] = "pending"
        PROVE  op'[p].status = "succeeded" /\ op'[p].nonce = k
    <3>1. <<p, k>> \in Attempts
      BY DEF Attempts
    <3>2. CASE <<p, k>> = <<o, n>>
      BY <1>5, <3>2
    <3>3. CASE <<p, k>> # <<o, n>>
      <4>1. contact[<<p, k>>] = "pending"
        BY <1>6, <2>1, <3>1, <3>3
      <4>2. op[p].status = "succeeded" /\ op[p].nonce = k
        BY <4>1 DEF JInv, FollowUpsConfirmed
      <4> QED
        BY <1>1, <1>2, <4>2
    <3> QED
      BY <3>2, <3>3
  <2>2. ASSUME NEW p \in Ops, op'[p].status = "succeeded"
        PROVE  contact'[<<p, op'[p].nonce>>] # "reserved"
    <3>1. CASE p = o
      <4>1. <<o, n>> \in Attempts
        BY DEF Attempts
      <4> QED
        BY <1>5, <1>6, <3>1, <4>1
    <3>2. CASE p # o
      <4>1. op'[p] = op[p] /\ contact[<<p, op[p].nonce>>] # "reserved"
        BY <1>2, <2>2, <3>2 DEF JInv, FollowUpsConfirmed
      <4>2. <<p, op[p].nonce>> # <<o, n>>
        BY <3>2
      <4>3. contact'[<<p, op[p].nonce>>] = contact[<<p, op[p].nonce>>]
        BY <1>1, <4>2 DEF Activate, JInv, TypeOK
      <4> QED
        BY <4>1, <4>3
    <3> QED
      BY <3>1, <3>2
  <2>3. \A p \in greeting' : op'[p].status = "succeeded"
    <3> SUFFICES ASSUME NEW p \in greeting' PROVE op'[p].status = "succeeded"
      OBVIOUS
    <3>1. CASE p = o
      BY <1>5, <3>1
    <3>2. CASE p # o
      <4>1. p \in greeting /\ p \in Ops
        BY <1>1, <3>2 DEF JInv, TypeOK
      <4>2. op[p].status = "succeeded"
        BY <4>1 DEF JInv, FollowUpsConfirmed
      <4> QED
        BY <1>2, <3>2, <4>1, <4>2
    <3> QED
      BY <3>1, <3>2
  <2> QED
    BY <2>1, <2>2, <2>3 DEF FollowUpsConfirmed
<1> QED
  BY <1>7, <1>8, <1>9, <1>10, <1>11, <1>12 DEF JInv

LEMMA FailStep ==
  ASSUME JInv, NEW o \in Ops, NEW r \in Results, Fail(o, r)
  PROVE  JInv'
<1> DEFINE g0 == IF HoldsGrant(r) THEN op[o].grant ELSE None
<1>1. op[o].status = "pending" /\ UNCHANGED <<drawn, events, greeting>>
  BY DEF Fail, Failable
<1>2. op[o] \in WrittenRows /\ op[o].grant \in Grants \cup {None}
  BY <1>1, RowShape
<1>3. /\ op'[o] = [op[o] EXCEPT !.status = "failed", !.result = r, !.grant = g0]
      /\ \A p \in Ops : p # o => op'[p] = op[p]
      /\ op' = [op EXCEPT ![o] = op'[o]]
  BY DEF Fail, JInv, TypeOK
<1>4. /\ op'[o].status = "failed" /\ op'[o].manager = op[o].manager
      /\ op'[o].nonce = op[o].nonce /\ op'[o].grant = g0 /\ op'[o] \in Rows
  BY <1>2, <1>3 DEF Rows, WrittenRows
<1>5. \A g \in Grants : grants'[g] = IF ~HoldsGrant(r) /\ g = op[o].grant /\ g \in HeldBy(o)
                                     THEN [status |-> "approved", op |-> None] ELSE grants[g]
  BY DEF Fail
<1>6. /\ contact' \in [Attempts -> {"none", "reserved", "pending", "cancelled"}]
      /\ contact' = contact \/ contact' = [contact EXCEPT ![<<o, op[o].nonce>>] =
                                             IF @ = "reserved" THEN "cancelled" ELSE @]
  BY DEF Fail, JInv, TypeOK
<1>7. TypeOK'
  <2>1. op' \in [Ops -> Rows]
    BY <1>3, <1>4 DEF JInv, TypeOK
  <2>2. grants' \in [Grants -> [status : {"absent", "approved", "reserved", "consumed", "expired"},
                                op : Ops \cup {None}]]
    BY DEF Fail, JInv, TypeOK
  <2> QED
    BY <1>1, <1>6, <2>1, <2>2 DEF JInv, TypeOK
<1>8. OneOpenLifecycle'
  <2>1. \A p \in OtherOps(o) : ~Unresolved(p)
    BY <1>1 DEF JInv, OneOpenLifecycle, Unresolved, OtherOps
  <2> QED
    BY <1>3, <2>1, OpenKept DEF JInv
<1>9. OneAllocation'
  BY <1>1 DEF JInv, OneAllocation
<1>10. AuditExact'
  <2>1. \A e \in events : e.op # o /\ e.op \in Ops
    BY <1>1 DEF JInv, AuditExact, TypeOK, Events
  <2>2. \A p \in Ops : op'[p].status = "succeeded" <=> op[p].status = "succeeded"
    BY <1>1, <1>3, <1>4
  <2>3. \A e \in events : op'[e.op] = op[e.op]
    BY <1>3, <2>1
  <2> QED
    BY <1>1, <2>2, <2>3 DEF JInv, AuditExact
<1>11. GrantLedger'
  <2> SUFFICES ASSUME NEW g \in Grants, NEW p \in Ops
               PROVE  /\ op'[p].grant = g => g[1] = op'[p].manager
                      /\ grants'[g] = [status |-> "reserved", op |-> p] <=>
                           op'[p].grant = g /\ op'[p].status \in {"pending", "failed"}
                      /\ grants'[g] = [status |-> "consumed", op |-> p] <=>
                           op'[p].grant = g /\ op'[p].status = "succeeded"
    BY DEF GrantLedger
  <2>0. /\ op[p].grant = g => g[1] = op[p].manager
        /\ grants[g] = [status |-> "reserved", op |-> p] <=>
             op[p].grant = g /\ op[p].status \in {"pending", "failed"}
        /\ grants[g] = [status |-> "consumed", op |-> p] <=>
             op[p].grant = g /\ op[p].status = "succeeded"
    BY DEF JInv, GrantLedger
  <2>1. g # None
    BY JournalAssumption DEF Grants
  <2>2. CASE ~HoldsGrant(r) /\ g = op[o].grant
    <3>1. grants[g] = [status |-> "reserved", op |-> o]
      BY <1>1, <2>2 DEF JInv, GrantLedger
    <3>2. grants'[g] = [status |-> "approved", op |-> None]
      BY <1>5, <2>2, <3>1 DEF HeldBy
    <3>3. CASE p = o
      BY <1>4, <2>1, <2>2, <3>2, <3>3
    <3>4. CASE p # o
      BY <1>3, <2>0, <3>1, <3>2, <3>4
    <3> QED
      BY <3>3, <3>4
  <2>3. CASE ~(~HoldsGrant(r) /\ g = op[o].grant)
    <3>1. grants'[g] = grants[g]
      BY <1>5, <2>3
    <3>2. CASE p = o
      BY <1>1, <1>4, <2>0, <2>1, <2>3, <3>1, <3>2
    <3>3. CASE p # o
      BY <1>3, <2>0, <3>1, <3>3
    <3> QED
      BY <3>2, <3>3
  <2> QED
    BY <2>2, <2>3
<1>12. FollowUpsConfirmed'
  <2>1. ASSUME NEW p \in Ops, NEW n \in Nonces, contact'[<<p, n>>] = "pending"
        PROVE  op'[p].status = "succeeded" /\ op'[p].nonce = n
    <3>1. <<p, n>> \in Attempts
      BY DEF Attempts
    <3>2. contact[<<p, n>>] = "pending"
      BY <1>6, <2>1, <3>1 DEF JInv, TypeOK
    <3>3. op[p].status = "succeeded" /\ op[p].nonce = n
      BY <3>2 DEF JInv, FollowUpsConfirmed
    <3> QED
      BY <1>1, <1>3, <3>3
  <2>2. ASSUME NEW p \in Ops, op'[p].status = "succeeded"
        PROVE  contact'[<<p, op'[p].nonce>>] # "reserved"
    <3>1. p # o /\ op'[p] = op[p]
      BY <1>3, <1>4, <2>2
    <3>2. contact[<<p, op[p].nonce>>] # "reserved"
      BY <2>2, <3>1 DEF JInv, FollowUpsConfirmed
    <3>3. <<p, op[p].nonce>> # <<o, op[o].nonce>>
      BY <3>1
    <3>4. contact'[<<p, op[p].nonce>>] = contact[<<p, op[p].nonce>>]
      <4>1. <<p, op[p].nonce>> \in Attempts
        BY <2>2, <3>1, SucceededAttempt
      <4>2. \A a \in Attempts : a # <<o, op[o].nonce>> => contact'[a] = contact[a]
        BY <1>6 DEF JInv, TypeOK
      <4> QED
        BY <3>3, <4>1, <4>2
    <3> QED
      BY <3>1, <3>2, <3>4
  <2>3. \A p \in greeting : op'[p].status = "succeeded"
    BY <1>1, <1>3 DEF JInv, FollowUpsConfirmed, TypeOK
  <2> QED
    BY <1>1, <2>1, <2>2, <2>3 DEF FollowUpsConfirmed
<1> QED
  BY <1>7, <1>8, <1>9, <1>10, <1>11, <1>12 DEF JInv

\* The import and the expiry touch only grants nobody reserved or consumed.
LEMMA GrantStep ==
  ASSUME JInv, NEW g \in Grants, ApproveGrant(g) \/ ExpireGrant(g)
  PROVE  JInv'
<1>1. /\ UNCHANGED <<op, drawn, events, contact, greeting>>
      /\ grants[g].status \notin {"reserved", "consumed"}
      /\ grants'[g].status \in {"approved", "expired"}
      /\ \A h \in Grants : h # g => grants'[h] = grants[h]
      /\ grants' \in [Grants -> [status : {"absent", "approved", "reserved", "consumed", "expired"},
                                 op : Ops \cup {None}]]
  BY DEF ApproveGrant, ExpireGrant, JInv, TypeOK
<1>2. TypeOK' /\ OneOpenLifecycle' /\ OneAllocation' /\ AuditExact' /\ FollowUpsConfirmed'
  BY <1>1 DEF JInv, TypeOK, OneOpenLifecycle, Unresolved, OneAllocation, AuditExact,
              FollowUpsConfirmed
<1>3. GrantLedger'
  <2> SUFFICES ASSUME NEW h \in Grants, NEW p \in Ops
               PROVE  /\ op[p].grant = h => h[1] = op[p].manager
                      /\ (grants'[h] = [status |-> "reserved", op |-> p]) <=>
                           (op[p].grant = h /\ op[p].status \in {"pending", "failed"})
                      /\ (grants'[h] = [status |-> "consumed", op |-> p]) <=>
                           (op[p].grant = h /\ op[p].status = "succeeded")
    BY <1>1 DEF GrantLedger
  <2>1. CASE h = g
    <3>1. /\ grants[g] # [status |-> "reserved", op |-> p]
          /\ grants[g] # [status |-> "consumed", op |-> p]
      BY <1>1
    <3>2. /\ grants'[g] # [status |-> "reserved", op |-> p]
          /\ grants'[g] # [status |-> "consumed", op |-> p]
      BY <1>1
    <3> QED
      BY <2>1, <3>1, <3>2, Ledger
  <2>2. CASE h # g
    <3>1. grants'[h] = grants[h]
      BY <1>1, <2>2
    <3> QED
      BY <3>1, Ledger
  <2> QED
    BY <2>1, <2>2
<1> QED
  BY <1>2, <1>3 DEF JInv

LEMMA JournalInitJInv == JournalInit => JInv
<1> SUFFICES ASSUME JournalInit PROVE JInv
  OBVIOUS
<1>1. \A o \in Ops : op[o] = NoRow
  BY DEF JournalInit
<1>2. TypeOK
  BY <1>1, JournalAssumption DEF JournalInit, TypeOK, NoRow, Rows
<1>3. OneOpenLifecycle
  BY <1>1 DEF OneOpenLifecycle, Unresolved, NoRow
<1>4. OneAllocation /\ AuditExact
  BY <1>1 DEF JournalInit, OneAllocation, AuditExact, NoRow
<1>5. GrantLedger
  BY <1>1, JournalAssumption DEF JournalInit, GrantLedger, NoRow, Grants
<1>6. FollowUpsConfirmed
  BY <1>1 DEF JournalInit, FollowUpsConfirmed, NoRow, Attempts
<1> QED
  BY <1>2, <1>3, <1>4, <1>5, <1>6 DEF JInv

LEMMA JournalStep == JInv /\ [JournalNext]_journalVars => JInv'
<1> SUFFICES ASSUME JInv, [JournalNext]_journalVars PROVE JInv'
  OBVIOUS
<1>1. CASE JournalNext
  BY <1>1, AttemptStep, RetrySameStep, FinalizeStep, FailStep, GrantStep DEF JournalNext
<1>2. CASE UNCHANGED journalVars
  BY <1>2 DEF journalVars, JInv, TypeOK, OneOpenLifecycle, Unresolved, OneAllocation, AuditExact,
              GrantLedger, FollowUpsConfirmed
<1> QED
  BY <1>1, <1>2

LEMMA JournalInvariance == Spec => []JInv
BY JournalInitJInv, JournalStep, PTL DEF Spec

\* TypeOK: every row of the journal keeps its shape under every transaction.
THEOREM TypeCorrect == Spec => []TypeOK
<1>1. JInv => TypeOK
  BY DEF JInv
<1> QED
  BY <1>1, JournalInvariance, PTL

\* OneOpenLifecycle: whatever processes share the database, two versions of
\* one deal are never reserved or awaiting reconciliation together.
THEOREM LifecyclesExclude == Spec => []OneOpenLifecycle
<1>1. JInv => OneOpenLifecycle
  BY DEF JInv
<1> QED
  BY <1>1, JournalInvariance, PTL

\* OneAllocation: a deal is allocated by at most one ordinary claim event.
THEOREM AllocatedOnce == Spec => []OneAllocation
<1>1. JInv => OneAllocation
  BY DEF JInv
<1> QED
  BY <1>1, JournalInvariance, PTL

\* AuditExact: claim_events and succeeded claim_operations correspond one to
\* one and agree on employee, attempt and grant.
THEOREM AuditCorrect == Spec => []AuditExact
<1>1. JInv => AuditExact
  BY DEF JInv
<1> QED
  BY <1>1, JournalInvariance, PTL

\* GrantLedger: an extra-claim grant is neither double-spent nor leaked.
THEOREM GrantsConserved == Spec => []GrantLedger
<1>1. JInv => GrantLedger
  BY DEF JInv
<1> QED
  BY <1>1, JournalInvariance, PTL

\* FollowUpsConfirmed: contact and greeting work exists only for the attempt
\* that was confirmed.
THEOREM FollowUpsCorrect == Spec => []FollowUpsConfirmed
<1>1. JInv => FollowUpsConfirmed
  BY DEF JInv
<1> QED
  BY <1>1, JournalInvariance, PTL
-----------------------------------------------------------------------------
\* A transaction rewrites the row of one operation, and not of a succeeded one.
LEMMA SucceededKept ==
  ASSUME JInv, [JournalNext]_journalVars, NEW o \in Ops, op[o].status = "succeeded"
  PROVE  op'[o] = op[o]
<1>0. op \in [Ops -> Rows]
  BY DEF JInv, TypeOK
<1>1. ASSUME NEW p \in Ops, NEW m \in Managers,
             \/ \E needGrant, hasContact, greet \in BOOLEAN : Attempt(p, m, needGrant, hasContact, greet)
             \/ \E confirmed, greet \in BOOLEAN : RetrySame(p, m, confirmed, greet)
      PROVE  op'[o] = op[o]
  <2>1. p # o
    BY <1>1 DEF Attempt, Begin, Retry, Reassign, RetrySame
  <2> QED
    BY <1>0, <1>1, <2>1 DEF Attempt, Begin, Retry, Reassign, RetrySame, Pending
<1>2. ASSUME NEW p \in Ops, NEW m \in Managers, NEW n \in Nonces, NEW recovered \in BOOLEAN,
             Finalize(p, n, m, recovered)
      PROVE  op'[o] = op[o]
  BY <1>0, <1>2 DEF Finalize
<1>3. ASSUME NEW p \in Ops, NEW r \in Results, Fail(p, r) PROVE op'[o] = op[o]
  <2>1. p # o
    BY <1>3 DEF Fail, Failable
  <2> QED
    BY <1>0, <1>3, <2>1 DEF Fail
<1> QED
  BY <1>1, <1>2, <1>3 DEF JournalNext, ApproveGrant, ExpireGrant, journalVars

\* A transaction writes grants that are not consumed.
LEMMA ConsumedKept ==
  ASSUME JInv, [JournalNext]_journalVars, NEW g \in Grants, grants[g].status = "consumed"
  PROVE  grants'[g] = grants[g]
<1>0. grants \in [Grants -> [status : {"absent", "approved", "reserved", "consumed", "expired"},
                             op : Ops \cup {None}]]
  BY DEF JInv, TypeOK
<1>1. \A o \in Ops : g \notin HeldBy(o)
  BY DEF HeldBy
<1>2. ASSUME NEW o \in Ops, NEW m \in Managers, NEW needGrant \in BOOLEAN,
             NEW h \in GrantChoices(o, m, needGrant), ReserveGrant(o, h)
      PROVE  grants'[g] = grants[g]
  <2>1. g \notin GrantChoices(o, m, needGrant)
    BY <1>1, JournalAssumption DEF GrantChoices, Reservable, Grants
  <2> QED
    BY <1>0, <1>2, <2>1 DEF ReserveGrant
<1>3. ASSUME NEW o \in Ops, NEW m \in Managers,
             \/ \E needGrant, hasContact, greet \in BOOLEAN : Attempt(o, m, needGrant, hasContact, greet)
             \/ \E confirmed, greet \in BOOLEAN : RetrySame(o, m, confirmed, greet)
      PROVE  grants'[g] = grants[g]
  BY <1>2, <1>3 DEF Attempt, Begin, Retry, Reassign, RetrySame
<1>4. ASSUME NEW o \in Ops, NEW m \in Managers, NEW n \in Nonces, NEW recovered \in BOOLEAN,
             Finalize(o, n, m, recovered)
      PROVE  grants'[g] = grants[g]
  <2>1. g # op[o].grant
    BY <1>1, <1>4, JournalAssumption DEF Finalize, Grants
  <2> QED
    BY <1>4, <2>1 DEF Finalize
<1>5. ASSUME NEW o \in Ops, NEW r \in Results, Fail(o, r) PROVE grants'[g] = grants[g]
  BY <1>1, <1>5 DEF Fail
<1>6. ASSUME NEW h \in Grants, ApproveGrant(h) \/ ExpireGrant(h) PROVE grants'[g] = grants[g]
  BY <1>0, <1>6 DEF ApproveGrant, ExpireGrant
<1> QED
  BY <1>3, <1>4, <1>5, <1>6 DEF JournalNext, journalVars

\* TerminalImmutable: a confirmed claim, its audit and the grant it was paid
\* with are final, whichever transactions of whichever processes follow.
THEOREM TerminalKept == Spec => TerminalImmutable
<1>1. JInv /\ [JournalNext]_journalVars =>
        [/\ \A o \in Ops : op[o].status = "succeeded" => op'[o] = op[o]
         /\ events \subseteq events'
         /\ \A g \in Grants : grants[g].status = "consumed" => grants'[g] = grants[g]]_journalVars
  <2>1. SUFFICES ASSUME JInv, [JournalNext]_journalVars
                 PROVE  /\ \A o \in Ops : op[o].status = "succeeded" => op'[o] = op[o]
                        /\ events \subseteq events'
                        /\ \A g \in Grants : grants[g].status = "consumed" => grants'[g] = grants[g]
    OBVIOUS
  <2>2. events \subseteq events'
    <3>1. ASSUME NEW o \in Ops, NEW m \in Managers, NEW n \in Nonces, NEW recovered \in BOOLEAN,
                 Finalize(o, n, m, recovered)
          PROVE  events \subseteq events'
      BY <3>1 DEF Finalize
    <3>2. ASSUME NEW o \in Ops, NEW m \in Managers,
                 \/ \E needGrant, hasContact, greet \in BOOLEAN : Attempt(o, m, needGrant, hasContact, greet)
                 \/ \E confirmed, greet \in BOOLEAN : RetrySame(o, m, confirmed, greet)
          PROVE  events' = events
      BY <3>2 DEF Attempt, Begin, Retry, Reassign, RetrySame
    <3> QED
      BY <2>1, <3>1, <3>2 DEF JournalNext, Fail, ApproveGrant, ExpireGrant, journalVars
  <2> QED
    BY <2>1, <2>2, SucceededKept, ConsumedKept
<1> QED
  BY <1>1, JournalInvariance, PTL DEF Spec, TerminalImmutable
=============================================================================
