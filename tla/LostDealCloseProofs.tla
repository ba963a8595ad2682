------------------------ MODULE LostDealCloseProofs ------------------------
(***************************************************************************)
(* Proofs about LostDealClose, for any number of deals, pollers, moves,    *)
(* edits and faults.  Four invariants share the first layer:               *)
(*                                                                         *)
(*   TInv        types, where each poller is in the history, and what an   *)
(*               operation records of the session it names;                *)
(*   NInv        every row up to the cursor is decided, and so is every    *)
(*               row that a poll without an error has passed;              *)
(*   HInv        a hindrance is one that the checks to come will see;      *)
(*   OneRequest  the finish of a move is sent by the one poller that       *)
(*               crossed the boundary.                                     *)
(*                                                                         *)
(* A step of a poller changes no dialog and no move, and moves an          *)
(* operation forward only (Quiet, Decides, Onward); a step of the          *)
(* surroundings changes no operation and only adds to the history and to   *)
(* the sessions (Around, Aging).                                           *)
(***************************************************************************)
EXTENDS LostDealClose, TLAPS

\* The places at which a poller works on a row of the history
AtRow == {"prove", "claim", "first", "again", "final", "dispatch", "finish", "wait", "confirm",
          "uncertain", "recheck"}

\* Past the dispatching boundary
Beyond == {"finish", "wait", "confirm", "uncertain", "recheck"}
Started == {"dispatching", "uncertain", "closed"}

\* Where poller w is in the history, and what it holds there.
Place(w) ==
  /\ w.last <= Len(moves)
  /\ w.pc \notin {"idle", "arm"} => boundary # None
  /\ w.pc \in {"reconcile", "page"} => w.row <= boundary.scan
  /\ w.pc = "row" => w.row >= 1 /\ w.row <= w.last + 1
  /\ w.pc \in AtRow => w.row >= 1 /\ w.row <= w.last /\ w.row > boundary.baseline
  /\ w.pc \in {"again", "final", "dispatch"} =>
       w.snap \in Chats /\ w.snap.session <= DealChat(w.row).session
  /\ w.pc \in Beyond => op[w.row].status \in Started

\* An operation exists for a row after the baseline, and names a session of its
\* dialog exactly when it crossed the boundary.
Recorded(t) ==
  /\ op[t].status # "none" => boundary # None /\ t > boundary.baseline /\ t <= Len(moves)
  /\ op[t].status \in Started => op[t].session # 0 /\ op[t].session <= DealChat(t).session
  /\ op[t].status \notin Started => op[t].session = 0

\* A session is opened by an edit only, and so is an edition.
Counted == \A d \in Deals : chat[d].session <= edits + 1 /\ chat[d].edition <= edits

TInv == /\ TypeOK /\ Counted
        /\ \A p \in Pollers : Place(poller[p])
        /\ \A t \in Moves : Recorded(t)

\* Every move up to the cursor is decided.
Decided == boundary # None =>
  \A t \in Moves : t > boundary.baseline /\ t <= boundary.scan /\ Proven(t) => op[t].status \in Final

\* A poll without an error decided every row that it passed.
Passed(w) == w.pc \in AtRow \cup {"row"} /\ ~w.errors =>
  \A t \in Moves : t > boundary.baseline /\ t < w.row /\ Proven(t) => op[t].status \in Final

NInv == Decided /\ \A p \in Pollers : Passed(poller[p])

\* The dialog is not what the snapshot shows any more, for good.
Gone(c, snap) == c.edition > snap.edition \/ (~c.open /\ snap.open)

\* A hindrance is one that the checks still to come will see.
Watched(w) ==
  /\ w.pc = "first" /\ w.hindered => ~Proven(w.row) \/ DealChat(w.row).said >= w.row
  /\ w.pc \in {"again", "final"} =>
       /\ DealChat(w.row).edition >= w.snap.edition
       /\ DealChat(w.row).edition = w.snap.edition /\ DealChat(w.row).open => w.snap.open
  /\ w.pc = "again" /\ w.hindered => ~Proven(w.row) \/ Gone(DealChat(w.row), w.snap)
  /\ w.pc = "final" /\ w.hindered => Gone(DealChat(w.row), w.snap)
  /\ w.pc \in {"dispatch", "finish"} => ~w.hindered

HInv == \A p \in Pollers : Watched(poller[p])

\* One request at most, by the one poller that crossed the boundary.
OneRequest ==
  /\ \A t \in Moves : /\ requests[t] <= 1
                      /\ op[t].status \notin Started => requests[t] = 0
  /\ \A p \in Pollers : poller[p].pc = "finish" => requests[poller[p].row] = 0
  /\ \A p, q \in Pollers : poller[p].pc = "finish" /\ poller[q].pc = "finish"
                           /\ poller[p].row = poller[q].row => p = q
-----------------------------------------------------------------------------
(* One poller moves.                                                       *)

Pollings == [pc : PCs, last : 0..MaxMoves, row : 0..(MaxMoves + 1), errors : BOOLEAN,
             todo : SUBSET Moves, snap : Chats \cup {None}, lost : BOOLEAN, hindered : BOOLEAN]

Alone(p) == \A q \in Pollers \ {p} : poller'[q] = poller[q]

\* What becomes of an operation: a decision and a crossed boundary are kept.
Forward(t) ==
  /\ op[t].status \in Final => op'[t].status \in Final
  /\ op[t].status \in Started => op'[t].status \in Started
  /\ op'[t].status \in Started /\ op[t].status \in Started => op'[t].session = op[t].session

LEMMA Numbers ==
  ASSUME TInv
  PROVE  /\ MaxMoves \in Nat /\ MaxEdits \in Nat /\ MaxFaults \in Nat /\ MaxAttempts \in Nat
         /\ Len(moves) \in 0..MaxMoves
         /\ boundary # None => boundary.baseline \in Nat /\ boundary.scan \in Nat
                               /\ boundary.baseline <= boundary.scan /\ boundary.scan <= Len(moves)
BY LostDealAssumption DEF TInv, TypeOK

LEMMA ChatNumbers ==
  ASSUME TInv, NEW c \in Chats
  PROVE  /\ c.session \in Nat /\ c.said \in Nat /\ c.edition \in Nat /\ c.dropped \in Nat
         /\ c.open \in BOOLEAN /\ c.listed \in BOOLEAN /\ c.fit \in BOOLEAN
<1>1. /\ c.session \in 1..(MaxEdits + 1) /\ c.said \in 0..MaxMoves /\ c.edition \in 0..MaxEdits
      /\ c.dropped \in 0..MaxMoves /\ c.open \in BOOLEAN /\ c.listed \in BOOLEAN /\ c.fit \in BOOLEAN
  BY DEF Chats
<1> QED
  BY <1>1, Numbers

LEMMA RowDeal ==
  ASSUME TInv, NEW t \in 1..Len(moves)
  PROVE  moves[t] \in [deal : Deals, from : {"P", "F"}, to : {"P", "F"}] /\ moves[t].deal \in Deals
<1> DEFINE R == [deal : Deals, from : {"P", "F"}, to : {"P", "F"}]
<1>1. moves \in Seq(R)
  BY DEF TInv, TypeOK
<1>2. moves[t] \in R
  <2> HIDE DEF R
  <2> QED
    BY <1>1
<1> QED
  BY <1>2

LEMMA Polling ==
  ASSUME TInv, NEW p \in Pollers
  PROVE  /\ poller[p] \in Pollings /\ Place(poller[p])
         /\ poller[p].last \in 0..MaxMoves /\ poller[p].row \in 0..(MaxMoves + 1)
         /\ poller[p].pc \in PCs /\ poller[p].errors \in BOOLEAN /\ poller[p].hindered \in BOOLEAN
         /\ poller[p].lost \in BOOLEAN /\ poller[p].todo \in SUBSET Moves
         /\ poller[p].snap \in Chats \cup {None}
BY DEF TInv, TypeOK, Pollings

LEMMA IdleType == Idle \in Pollings /\ Idle.pc = "idle" /\ Idle.last = 0 /\ ~Idle.errors /\ ~Idle.hindered
BY LostDealAssumption DEF Idle, Pollings, PCs

LEMMA AtRowMove ==
  ASSUME TInv, NEW p \in Pollers, poller[p].pc \in AtRow
  PROVE  /\ poller[p].row \in Moves /\ poller[p].row <= Len(moves) /\ poller[p].row <= poller[p].last
         /\ boundary # None /\ poller[p].row > boundary.baseline
BY Polling, Numbers DEF Place, Moves, AtRow

LEMMA Goes ==
  ASSUME TInv, NEW p \in Pollers, NEW pc \in PCs, Goto(p, pc)
  PROVE  /\ poller' \in [Pollers -> Pollings] /\ Alone(p)
         /\ poller'[p] = [poller[p] EXCEPT !.pc = pc]
         /\ poller'[p].pc = pc /\ poller'[p].last = poller[p].last /\ poller'[p].row = poller[p].row
         /\ poller'[p].errors = poller[p].errors /\ poller'[p].snap = poller[p].snap
         /\ poller'[p].hindered = poller[p].hindered
BY DEF TInv, TypeOK, Pollings, Goto, Alone

LEMMA Rests ==
  ASSUME TInv, NEW p \in Pollers, Rest(p)
  PROVE  poller' \in [Pollers -> Pollings] /\ Alone(p) /\ poller'[p] = Idle
BY IdleType DEF TInv, TypeOK, Pollings, Rest, Alone

LEMMA GoesOn ==
  ASSUME TInv, NEW p \in Pollers, NEW errors \in BOOLEAN, NextRow(p, errors), poller[p].row <= MaxMoves
  PROVE  /\ poller' \in [Pollers -> Pollings] /\ Alone(p)
         /\ poller'[p].pc = "row" /\ poller'[p].last = poller[p].last
         /\ poller'[p].row = poller[p].row + 1
         /\ poller'[p].errors = (poller[p].errors \/ errors)
<1>1. poller[p] \in Pollings /\ poller[p].row + 1 \in 0..(MaxMoves + 1)
  BY Polling, Numbers
<1>2. poller \in [Pollers -> Pollings]
  BY DEF TInv, TypeOK, Pollings
<1>3. (poller[p].errors \/ errors) \in BOOLEAN
  OBVIOUS
<1> QED
  BY <1>1, <1>2, <1>3 DEF NextRow, Alone, Pollings, PCs

\* A step of poller p that leaves Bitrix and the boundary alone.
Quiet(p) == /\ UNCHANGED <<bitrix, boundary>>
            /\ poller' \in [Pollers -> Pollings] /\ Alone(p)
            /\ \A t \in Moves : Forward(t)

\* No row is passed without an error and undecided.
Onward(p) ==
  poller'[p].pc \in AtRow \cup {"row"} /\ ~poller'[p].errors =>
    \/ /\ poller[p].pc \in AtRow \cup {"row"} /\ ~poller[p].errors
       /\ \/ poller'[p].row = poller[p].row
          \/ /\ poller'[p].row = poller[p].row + 1 /\ poller[p].row \in Moves
             /\ poller[p].row > boundary.baseline /\ Proven(poller[p].row) =>
                  op'[poller[p].row].status \in Final
    \/ poller[p].pc = "page" /\ poller'[p].row = poller[p].row + 1

LEMMA PollerStep ==
  ASSUME TInv, NEW p \in Pollers, Quiet(p),
         op' \in [Moves -> Ops], \A t \in Moves : Recorded(t)',
         lapsed' \subseteq {t \in Moves : op'[t].status = "checking"},
         inflight' \subseteq Moves, requests' \in [Moves -> Nat], faults' \in 0..MaxFaults,
         Place(poller[p])'
  PROVE  TInv'
<1>1. TypeOK'
  BY DEF TInv, TypeOK, Quiet, bitrix, Pollings
<1>2. ASSUME NEW q \in Pollers \ {p} PROVE Place(poller[q])'
  <2>1. poller'[q] = poller[q] /\ UNCHANGED <<moves, chat, boundary>>
    BY DEF Quiet, Alone, bitrix
  <2>2. poller[q].pc \in Beyond => poller[q].row \in Moves
    BY AtRowMove DEF AtRow, Beyond
  <2>3. poller[q].pc \in Beyond => op'[poller[q].row].status \in Started
    BY <2>2 DEF TInv, Place, Quiet, Forward
  <2> QED
    BY <2>1, <2>3 DEF TInv, Place, DealChat
<1> QED
  BY <1>1, <1>2 DEF TInv, Counted, Quiet, bitrix

\* The row is left as it is.
LEMMA OpKept ==
  ASSUME TInv, UNCHANGED <<op, lapsed, bitrix, boundary>>
  PROVE  /\ op' \in [Moves -> Ops] /\ \A t \in Moves : Recorded(t)' /\ Forward(t)
         /\ lapsed' \subseteq {t \in Moves : op'[t].status = "checking"}
BY DEF TInv, TypeOK, Recorded, DealChat, Forward, bitrix

\* A step that reads or counts: the operations stay.
LEMMA ReadStep ==
  ASSUME TInv, NEW p \in Pollers, poller' \in [Pollers -> Pollings], Alone(p),
         UNCHANGED <<bitrix, op, lapsed, boundary>>,
         inflight' \subseteq Moves, requests' \in [Moves -> Nat], faults' \in 0..MaxFaults,
         Place(poller[p])'
  PROVE  TInv' /\ Quiet(p)
<1>1. Quiet(p)
  BY OpKept DEF Quiet
<1> QED
  BY <1>1, OpKept, PollerStep

LEMMA FaultType ==
  ASSUME TInv, Fault \/ UNCHANGED faults
  PROVE  faults' \in 0..MaxFaults
BY Numbers DEF TInv, TypeOK, Fault

\* An operation gets another status, and keeps its session.
Becomes(t, status) ==
  /\ \A u \in Moves \ {t} : op'[u] = op[u]
  /\ op' \in [Moves -> Ops]
  /\ op'[t].status = status /\ op'[t].session = op[t].session

LEMMA Became ==
  ASSUME TInv, UNCHANGED <<bitrix, boundary>>, NEW t \in Moves, NEW status, Becomes(t, status),
         op[t].status # "none" \/ (boundary # None /\ t > boundary.baseline /\ t <= Len(moves)),
         op[t].status \in Started <=> status \in Started,
         op[t].status \in Final => status \in Final,
         lapsed' \subseteq lapsed, t \notin lapsed' \/ status = "checking"
  PROVE  /\ \A u \in Moves : Recorded(u)' /\ Forward(u)
         /\ lapsed' \subseteq {u \in Moves : op'[u].status = "checking"}
<1>1. UNCHANGED <<moves, chat, boundary>>
  BY DEF bitrix
<1>2. ASSUME NEW u \in Moves PROVE Recorded(u)' /\ Forward(u)
  BY <1>1, Zenon DEF TInv, Recorded, DealChat, Forward, Becomes
<1> QED
  BY <1>2 DEF Becomes, TInv, TypeOK

\* What Finalize does: the leased row is decided or released, or an error.
LEMMA Finalized ==
  ASSUME TInv, NEW p \in Pollers, poller[p].pc \in AtRow, NEW status \in {"skipped", "dry_run", "retryable"},
         NEW errors \in BOOLEAN, errors \/ status \in Final, Finalize(p, status, errors),
         UNCHANGED <<bitrix, boundary, inflight, requests>>, Fault \/ UNCHANGED faults
  PROVE  /\ TInv' /\ Quiet(p) /\ Onward(p) /\ poller'[p].pc = "row"
         /\ \/ op' = op
            \/ Becomes(poller[p].row, status) /\ op[poller[p].row].status = "checking"
<1> PICK t \in Moves : t = poller[p].row
  BY AtRowMove
<1>1. /\ t <= Len(moves) /\ t <= poller[p].last /\ boundary # None /\ t > boundary.baseline /\ t >= 1
      /\ t <= MaxMoves
  BY AtRowMove DEF Moves
<1>2. faults' \in 0..MaxFaults /\ UNCHANGED <<moves, chat>>
  BY FaultType DEF bitrix
<1>3. CASE Leased(p)
  <2>1. NextRow(p, errors) /\ lapsed' = lapsed \ {t}
        /\ op' = [op EXCEPT ![t].status = status, ![t].lease = None]
    BY <1>3 DEF Finalize
  <2>2. Becomes(t, status) /\ op[t].status = "checking"
    <3>1. op \in [Moves -> Ops] /\ status \in Statuses /\ op[t].status = "checking"
      BY <1>3 DEF Leased, TInv, TypeOK, Statuses
    <3> QED
      BY <2>1, <3>1 DEF Becomes, Ops
  <2>3. /\ poller' \in [Pollers -> Pollings] /\ Alone(p)
        /\ poller'[p].pc = "row" /\ poller'[p].last = poller[p].last
        /\ poller'[p].row = t + 1 /\ (~poller'[p].errors => ~poller[p].errors /\ ~errors)
    BY <1>1, <2>1, GoesOn
  <2>4. /\ \A u \in Moves : Recorded(u)' /\ Forward(u)
        /\ lapsed' \subseteq {u \in Moves : op'[u].status = "checking"}
    BY <2>1, <2>2, Became DEF Started, Final
  <2>5. Place(poller[p])'
    BY <1>1, <1>2, <2>3, Polling DEF Place, AtRow, Beyond
  <2>6. Quiet(p)
    BY <2>3, <2>4 DEF Quiet
  <2>7. TInv'
    BY <1>2, <2>2, <2>4, <2>5, <2>6, PollerStep DEF Becomes, TInv, TypeOK
  <2>8. Onward(p)
    BY <1>1, <2>2, <2>3 DEF Onward, Becomes
  <2> QED
    BY <2>2, <2>3, <2>6, <2>7, <2>8
<1>4. CASE ~Leased(p)
  <2>1. NextRow(p, TRUE) /\ UNCHANGED <<op, lapsed>>
    BY <1>4 DEF Finalize
  <2>2. /\ poller' \in [Pollers -> Pollings] /\ Alone(p)
        /\ poller'[p].pc = "row" /\ poller'[p].last = poller[p].last
        /\ poller'[p].row = t + 1 /\ poller'[p].errors
    BY <1>1, <2>1, GoesOn
  <2>3. Place(poller[p])'
    BY <1>1, <1>2, <2>2, Polling DEF Place, AtRow, Beyond
  <2>4. TInv' /\ Quiet(p)
    BY <1>2, <2>1, <2>2, <2>3, ReadStep DEF TInv, TypeOK
  <2> QED
    BY <2>1, <2>2, <2>4 DEF Onward
<1> QED
  BY <1>3, <1>4
-----------------------------------------------------------------------------
(* The types and the operations: the steps of a poller.                    *)

LEMMA ReadsTyped ==
  ASSUME TInv, NEW p \in Pollers, Start(p) \/ Poll(p) \/ Page(p) \/ Row(p) \/ Prove(p)
  PROVE  TInv' /\ Quiet(p) /\ Onward(p)
<1>0. /\ UNCHANGED <<bitrix, op, lapsed, boundary, moves, chat>>
      /\ inflight' \subseteq Moves /\ requests' \in [Moves -> Nat] /\ faults' \in 0..MaxFaults
  BY FaultType DEF Start, Poll, Page, Row, Prove, TInv, TypeOK, bitrix
<1>1. ASSUME poller' \in [Pollers -> Pollings], Alone(p), Place(poller[p])', Onward(p)
      PROVE  TInv' /\ Quiet(p) /\ Onward(p)
  BY <1>0, <1>1, ReadStep
<1>2. CASE Start(p)
  <2> PICK n \in 0..MaxMoves : n = Len(moves)
    BY Numbers
  <2> DEFINE r == [Idle EXCEPT !.pc = "arm", !.last = n]
  <2>1. r \in Pollings /\ r.pc = "arm" /\ r.last = n
    BY IdleType DEF Idle, Pollings, PCs
  <2>2. poller' = [poller EXCEPT ![p] = r] /\ poller \in [Pollers -> Pollings]
    BY <1>2 DEF Start, TInv, TypeOK, Pollings
  <2>3. poller' \in [Pollers -> Pollings] /\ Alone(p) /\ poller'[p] = r
    BY <2>1, <2>2 DEF Alone
  <2>4. Place(poller[p])'
    BY <1>0, <2>1, <2>3, Numbers DEF Place, AtRow, Beyond
  <2>5. Onward(p)
    BY <2>1, <2>3 DEF Onward, AtRow
  <2> QED
    BY <1>1, <2>3, <2>4, <2>5
<1>3. CASE Poll(p)
  <2> PICK n \in 0..MaxMoves : n = boundary.scan
    BY <1>3, Numbers DEF Poll
  <2> PICK pc \in {"page", "reconcile"} : pc = IF Unresolved = {} THEN "page" ELSE "reconcile"
    OBVIOUS
  <2> PICK todo \in SUBSET Moves : todo = Unresolved
    BY DEF Unresolved
  <2> DEFINE r == [Idle EXCEPT !.pc = pc, !.row = n, !.todo = todo]
  <2>0. n \in 0..(MaxMoves + 1)
    BY Numbers
  <2>1. r \in Pollings /\ r.pc = pc /\ r.last = 0 /\ r.row = n
    BY <2>0, IdleType DEF Idle, Pollings, PCs
  <2>2. poller' = [poller EXCEPT ![p] = r] /\ poller \in [Pollers -> Pollings]
    BY <1>3 DEF Poll, TInv, TypeOK, Pollings
  <2>3. poller' \in [Pollers -> Pollings] /\ Alone(p) /\ poller'[p] = r
    BY <2>1, <2>2 DEF Alone
  <2>4. Place(poller[p])'
    BY <1>0, <1>3, <2>1, <2>3, Numbers DEF Place, Poll, AtRow, Beyond
  <2>5. Onward(p)
    BY <2>1, <2>3 DEF Onward, AtRow
  <2> QED
    BY <1>1, <2>3, <2>4, <2>5
<1>4. CASE Page(p)
  <2>1. CASE Rest(p)
    BY <1>0, <1>1, <2>1, Rests, IdleType, Numbers DEF Place, AtRow, Beyond, Onward
  <2>2. CASE poller' = [poller EXCEPT ![p].pc = "row", ![p].row = @ + 1, ![p].last = Len(moves)]
    <3>1. poller[p].pc = "page" /\ boundary # None /\ poller[p].row <= boundary.scan
      BY <1>4, Polling DEF Page, Place
    <3>2. /\ poller[p].row + 1 \in 0..(MaxMoves + 1) /\ Len(moves) \in 0..MaxMoves
          /\ poller[p].row \in Nat /\ poller[p].row <= Len(moves)
      <4>1. /\ poller[p].row \in 0..(MaxMoves + 1) /\ boundary.scan \in Nat
            /\ boundary.scan <= Len(moves) /\ Len(moves) \in 0..MaxMoves /\ MaxMoves \in Nat
        BY <3>1, Polling, Numbers
      <4> QED
        BY <3>1, <4>1
    <3>a. poller[p] \in Pollings /\ poller \in [Pollers -> Pollings]
      BY Polling DEF TInv, TypeOK, Pollings
    <3>3. /\ poller' \in [Pollers -> Pollings] /\ Alone(p) /\ poller'[p].pc = "row"
          /\ poller'[p].row = poller[p].row + 1 /\ poller'[p].last = Len(moves)
      BY <2>2, <3>2, <3>a DEF Alone, Pollings, PCs
    <3>4. Place(poller[p])'
      BY <1>0, <3>1, <3>2, <3>3 DEF Place, AtRow, Beyond
    <3>5. Onward(p)
      BY <3>1, <3>3 DEF Onward
    <3> QED
      BY <1>1, <3>3, <3>4, <3>5
  <2> QED
    BY <1>4, <2>1, <2>2 DEF Page
<1>5. CASE Row(p)
  <2>1. /\ poller[p].pc = "row" /\ poller[p].row <= poller[p].last /\ poller[p].row >= 1
        /\ boundary # None /\ poller[p].last <= Len(moves) /\ poller[p].row <= MaxMoves
    BY <1>5, Polling, Numbers DEF Row, Place
  <2>2. CASE Goto(p, "prove") /\ poller[p].row > boundary.baseline
    <3>1. /\ poller' \in [Pollers -> Pollings] /\ Alone(p) /\ poller'[p].pc = "prove"
          /\ poller'[p].row = poller[p].row /\ poller'[p].last = poller[p].last
          /\ poller'[p].errors = poller[p].errors
      BY <2>2, Goes DEF PCs
    <3>2. Place(poller[p])'
      BY <1>0, <2>1, <2>2, <3>1 DEF Place, Beyond
    <3>3. Onward(p)
      BY <2>1, <3>1 DEF Onward
    <3> QED
      BY <1>1, <3>1, <3>2, <3>3
  <2>3. CASE /\ NextRow(p, FALSE)
             /\ ~(/\ poller[p].row > boundary.baseline /\ ToLost(poller[p].row)
                  /\ op[poller[p].row].status \notin Final)
    <3>1. /\ poller' \in [Pollers -> Pollings] /\ Alone(p) /\ poller'[p].pc = "row"
          /\ poller'[p].row = poller[p].row + 1 /\ poller'[p].last = poller[p].last
          /\ ~poller'[p].errors => ~poller[p].errors
      BY <2>1, <2>3, GoesOn
    <3>2. Place(poller[p])'
      BY <1>0, <2>1, <3>1, Polling DEF Place, AtRow, Beyond
    <3>3. Onward(p)
      BY <1>0, <1>5, <2>1, <2>3, <3>1, Polling, Numbers DEF Onward, Proven, Moves
    <3> QED
      BY <1>1, <3>1, <3>2, <3>3
  <2> QED
    BY <1>5, <2>2, <2>3 DEF Row
<1>6. CASE Prove(p)
  <2>1. /\ poller[p].row <= poller[p].last /\ poller[p].row >= 1 /\ boundary # None
        /\ poller[p].last <= Len(moves) /\ poller[p].row <= MaxMoves /\ poller[p].row > boundary.baseline
    BY <1>6, Polling, Numbers DEF Prove, Place, AtRow
  <2>2. CASE Goto(p, "claim")
    <3>1. /\ poller' \in [Pollers -> Pollings] /\ Alone(p) /\ poller'[p].pc = "claim"
          /\ poller'[p].row = poller[p].row /\ poller'[p].last = poller[p].last
          /\ poller'[p].errors = poller[p].errors
      BY <2>2, Goes DEF PCs
    <3>2. Place(poller[p])'
      BY <1>0, <2>1, <3>1 DEF Place, Beyond
    <3>3. Onward(p)
      BY <1>6, <3>1 DEF Onward, Prove, AtRow
    <3> QED
      BY <1>1, <3>1, <3>2, <3>3
  <2>3. ASSUME NEW e \in BOOLEAN, NextRow(p, e), e \/ ~Proven(poller[p].row)
        PROVE  TInv' /\ Quiet(p) /\ Onward(p)
    <3>1. /\ poller' \in [Pollers -> Pollings] /\ Alone(p) /\ poller'[p].pc = "row"
          /\ poller'[p].row = poller[p].row + 1 /\ poller'[p].last = poller[p].last
          /\ ~poller'[p].errors => ~poller[p].errors /\ ~e
      BY <2>1, <2>3, GoesOn
    <3>2. Place(poller[p])'
      BY <1>0, <2>1, <3>1, Polling DEF Place, AtRow, Beyond
    <3>3. Onward(p)
      BY <1>6, <2>1, <2>3, <3>1, Polling, Numbers DEF Onward, Prove, AtRow, Moves
    <3> QED
      BY <1>1, <3>1, <3>2, <3>3
  <2> QED
    BY <1>6, <2>2, <2>3 DEF Prove
<1> QED
  BY <1>2, <1>3, <1>4, <1>5, <1>6

\* The boundary is set once, and its cursor moves forward only.
LEMMA BoundaryTyped ==
  ASSUME TInv, NEW p \in Pollers, Arm(p) \/ Advance(p)
  PROVE  TInv'
<1>0. /\ UNCHANGED <<bitrix, moves, chat, op, lapsed, inflight, requests, faults>> /\ Rest(p)
      /\ stage' = stage /\ edits' = edits
      /\ poller[p].last \in 0..Len(moves)
  BY Polling, Numbers DEF Arm, Advance, bitrix, Place
<1>1. poller' \in [Pollers -> Pollings] /\ Alone(p) /\ poller'[p] = Idle
  BY <1>0, Rests
<1>2. CASE boundary' = boundary
  <2>1. Place(poller[p])'
    BY <1>0, <1>1, IdleType, Numbers DEF Place, AtRow, Beyond
  <2> QED
    BY <1>0, <1>1, <1>2, <2>1, ReadStep DEF TInv, TypeOK
<1>3. ASSUME NEW b, boundary' = b, b # None, b \in [baseline : 0..Len(moves), scan : 0..Len(moves)],
             b.baseline <= b.scan,
             boundary # None => b.baseline = boundary.baseline /\ boundary.scan <= b.scan
      PROVE  TInv'
  <2>1. TypeOK'
    BY <1>0, <1>1, <1>3 DEF TInv, TypeOK, Pollings
  <2>2. \A t \in Moves : Recorded(t)'
    BY <1>0, <1>3 DEF TInv, Recorded, DealChat
  <2>3. Place(poller[p])'
    BY <1>0, <1>1, IdleType, Numbers DEF Place, AtRow, Beyond
  <2>4. ASSUME NEW q \in Pollers \ {p} PROVE Place(poller[q])'
    <3>1. poller'[q] = poller[q] /\ Place(poller[q]) /\ poller[q].row \in 0..(MaxMoves + 1)
          /\ b.scan \in Nat /\ poller[q].pc \in PCs
      BY <1>1, <1>3, Polling DEF Alone
    <3>2. CASE boundary # None
      BY <1>0, <1>3, <3>1, <3>2, Numbers DEF Place, DealChat
    <3>3. CASE boundary = None
      <4>1. poller[q].pc \in {"idle", "arm"}
        BY <3>1, <3>3 DEF Place
      <4> QED
        BY <1>0, <3>1, <4>1 DEF Place, AtRow, Beyond
    <3> QED
      BY <3>2, <3>3
  <2> QED
    BY <1>0, <2>1, <2>2, <2>3, <2>4 DEF TInv, Counted
<1>4. CASE Arm(p) /\ boundary = None
  <2> PICK n \in 0..Len(moves) : n = poller[p].last
    BY <1>0
  <2> DEFINE b == [baseline |-> n, scan |-> n]
  <2>1. boundary' = b
    BY <1>4 DEF Arm, ArmedAs
  <2>2. b \in [baseline : 0..Len(moves), scan : 0..Len(moves)] /\ b.baseline <= b.scan /\ n \in Nat
    BY Numbers
  <2>3. b # None
    BY <2>2, LostDealAssumption
  <2> HIDE DEF b
  <2> QED
    BY <1>3, <1>4, <2>1, <2>2, <2>3
<1>5. CASE Advance(p) /\ boundary' # boundary
  <2> PICK n \in 0..Len(moves) : n = poller[p].last
    BY <1>0
  <2>0. boundary # None /\ boundary \in [baseline : 0..Len(moves), scan : 0..Len(moves)]
        /\ boundary.baseline <= boundary.scan
    BY <1>5, Polling DEF Advance, Place, TInv, TypeOK
  <2> DEFINE b == [boundary EXCEPT !.scan = n]
  <2>1. boundary' = b /\ n > boundary.scan
    BY <1>5 DEF Advance
  <2>2. /\ b \in [baseline : 0..Len(moves), scan : 0..Len(moves)]
        /\ b.baseline = boundary.baseline /\ b.scan = n
    BY <2>0
  <2>3. b # None /\ b.baseline <= b.scan /\ boundary.scan <= b.scan
    <3>1. b \in [baseline : Nat, scan : Nat]
      BY <2>2, Numbers
    <3>2. b # None
      BY <3>1, LostDealAssumption
    <3> QED
      BY <2>0, <2>1, <2>2, <3>2, Numbers
  <2> HIDE DEF b
  <2> QED
    BY <1>3, <2>1, <2>2, <2>3
<1> QED
  BY <1>2, <1>4, <1>5 DEF Arm, ArmedAs

\* What a poller does to the operations, but for the boundary itself.
Decides ==
  \/ op' = op
  \/ \E t \in Moves :
       \/ \E status \in {"checking", "retryable"} :
            Becomes(t, status) /\ op[t].status \in {"none", "checking", "retryable"}
       \/ \E status \in {"skipped", "dry_run"} : Becomes(t, status) /\ op[t].status = "checking"
       \/ Becomes(t, "uncertain") /\ op[t].status = "dispatching"
       \/ Becomes(t, "closed") /\ op[t].status \in {"dispatching", "uncertain"} /\ Inactive(t)

LEMMA Replaced ==
  ASSUME TInv, NEW p \in Pollers, NEW r \in Pollings, poller' = [poller EXCEPT ![p] = r]
  PROVE  poller' \in [Pollers -> Pollings] /\ Alone(p) /\ poller'[p] = r
<1>1. poller \in [Pollers -> Pollings]
  BY DEF TInv, TypeOK, Pollings
<1> QED
  BY <1>1 DEF Alone

\* From place to place within a row.
LEMMA Stays ==
  ASSUME TInv, NEW p \in Pollers, poller[p].pc \in AtRow, NEW pc \in AtRow, Goto(p, pc),
         UNCHANGED <<bitrix, op, lapsed, boundary>>, Fault \/ UNCHANGED faults,
         inflight' \subseteq Moves, requests' \in [Moves -> Nat],
         pc \in Beyond => poller[p].pc \in Beyond,
         pc \in {"again", "final", "dispatch"} => poller[p].pc \in {"again", "final", "dispatch"}
  PROVE  TInv' /\ Quiet(p) /\ Onward(p)
<1>1. /\ poller' \in [Pollers -> Pollings] /\ Alone(p) /\ poller'[p].pc = pc
      /\ poller'[p].row = poller[p].row /\ poller'[p].last = poller[p].last
      /\ poller'[p].errors = poller[p].errors /\ poller'[p].snap = poller[p].snap
  BY Goes DEF AtRow, PCs
<1>2. Place(poller[p])'
  BY <1>1, Polling DEF Place, AtRow, DealChat, bitrix
<1>3. TInv' /\ Quiet(p)
  BY <1>1, <1>2, FaultType, ReadStep
<1> QED
  BY <1>1, <1>3 DEF Onward

\* From a row to the next one.
LEMMA Passes ==
  ASSUME TInv, NEW p \in Pollers, poller[p].pc \in AtRow, NEW errors \in BOOLEAN, NextRow(p, errors),
         UNCHANGED <<bitrix, op, lapsed, boundary, inflight, requests>>, Fault \/ UNCHANGED faults,
         errors \/ op'[poller[p].row].status \in Final
  PROVE  TInv' /\ Quiet(p) /\ Onward(p) /\ poller'[p].pc = "row"
<1>1. /\ poller[p].row \in Moves /\ poller[p].row <= poller[p].last /\ boundary # None
      /\ poller[p].last <= Len(moves) /\ poller[p].row <= MaxMoves /\ poller[p].row >= 1
  BY AtRowMove, Polling DEF Moves, Place
<1>2. /\ poller' \in [Pollers -> Pollings] /\ Alone(p) /\ poller'[p].pc = "row"
      /\ poller'[p].row = poller[p].row + 1 /\ poller'[p].last = poller[p].last
      /\ ~poller'[p].errors => ~poller[p].errors /\ ~errors
  BY <1>1, GoesOn
<1>3. Place(poller[p])'
  BY <1>1, <1>2, Polling DEF Place, AtRow, Beyond, bitrix
<1>4. TInv' /\ Quiet(p)
  BY <1>2, <1>3, FaultType, ReadStep DEF TInv, TypeOK
<1> QED
  BY <1>1, <1>2, <1>4 DEF Onward

\* The row gets another status, and the poller goes on or stays.
LEMMA Turns ==
  ASSUME TInv, NEW p \in Pollers, poller[p].pc \in AtRow, NEW status, Becomes(poller[p].row, status),
         UNCHANGED <<bitrix, boundary, inflight, requests>>, Fault \/ UNCHANGED faults,
         op[poller[p].row].status \in Started <=> status \in Started,
         op[poller[p].row].status \in Final => status \in Final,
         lapsed' \subseteq lapsed, poller[p].row \notin lapsed' \/ status = "checking",
         poller' \in [Pollers -> Pollings], Alone(p), poller'[p].last = poller[p].last,
         \/ poller'[p].row = poller[p].row /\ poller'[p].errors = poller[p].errors
            /\ (poller'[p].pc \in {"claim", "first"} \/ (poller'[p].pc \in Beyond /\ status \in Started))
         \/ poller'[p].row = poller[p].row + 1 /\ poller'[p].pc = "row" /\ status \in Final
            /\ (~poller'[p].errors => ~poller[p].errors)
  PROVE  TInv' /\ Quiet(p) /\ Onward(p)
<1> PICK t \in Moves : t = poller[p].row
  BY AtRowMove
<1>1. /\ t <= Len(moves) /\ t <= poller[p].last /\ boundary # None /\ t > boundary.baseline /\ t >= 1
      /\ poller[p].last <= Len(moves) /\ UNCHANGED <<moves, chat, boundary>>
  BY AtRowMove, Polling DEF Moves, bitrix, Place
<1>2. /\ \A u \in Moves : Recorded(u)' /\ Forward(u)
      /\ lapsed' \subseteq {u \in Moves : op'[u].status = "checking"}
  BY <1>1, Became
<1>3. Place(poller[p])'
  <2>1. CASE poller'[p].row = t + 1 /\ poller'[p].pc = "row"
    BY <1>1, <2>1, Polling DEF Place, AtRow, Beyond
  <2>2. CASE /\ poller'[p].row = t
             /\ poller'[p].pc \in {"claim", "first"} \/ (poller'[p].pc \in Beyond /\ status \in Started)
    BY <1>1, <2>2, Zenon DEF Place, AtRow, Beyond, Becomes
  <2> QED
    BY <2>1, <2>2
<1>4. TInv' /\ Quiet(p)
  BY <1>2, <1>3, FaultType, PollerStep DEF Becomes, TInv, TypeOK, Quiet
<1>5. Onward(p)
  BY <1>1 DEF Onward, AtRow, Becomes
<1> QED
  BY <1>4, <1>5

LEMMA Settled ==
  ASSUME TInv, NEW p \in Pollers, poller[p].pc \in AtRow, NEW status \in {"closed", "uncertain"},
         Settle(p, status), UNCHANGED <<bitrix, lapsed, boundary, inflight, requests>>,
         Fault \/ UNCHANGED faults
  PROVE  /\ TInv' /\ Quiet(p) /\ Onward(p) /\ poller'[p].pc = "row"
         /\ \/ op' = op
            \/ Becomes(poller[p].row, status) /\ op[poller[p].row].status = "dispatching"
<1> PICK t \in Moves : t = poller[p].row
  BY AtRowMove
<1>0. poller[p].row <= MaxMoves
  BY DEF Moves
<1>1. CASE op[t].status = "dispatching"
  <2>1. op' = [op EXCEPT ![t].status = status] /\ NextRow(p, FALSE)
    BY <1>1 DEF Settle
  <2>2. Becomes(t, status) /\ t \notin lapsed
    <3>1. op \in [Moves -> Ops] /\ status \in Statuses /\ t \notin lapsed
      BY <1>1 DEF TInv, TypeOK, Statuses
    <3> QED
      BY <2>1, <3>1 DEF Becomes, Ops
  <2>3. /\ poller' \in [Pollers -> Pollings] /\ Alone(p) /\ poller'[p].pc = "row"
        /\ poller'[p].row = poller[p].row + 1 /\ poller'[p].last = poller[p].last
        /\ ~poller'[p].errors => ~poller[p].errors
    BY <1>0, <2>1, GoesOn
  <2>4. TInv' /\ Quiet(p) /\ Onward(p)
    BY <1>1, <2>2, <2>3, Turns DEF Started, Final
  <2> QED
    BY <1>1, <2>2, <2>3, <2>4
<1>2. CASE op[t].status # "dispatching"
  BY <1>2, Passes DEF Settle
<1> QED
  BY <1>1, <1>2

LEMMA ReconcileTyped ==
  ASSUME TInv, NEW p \in Pollers, Reconcile(p)
  PROVE  TInv' /\ Quiet(p) /\ Onward(p) /\ Decides
<1> PICK t \in poller[p].todo :
      /\ \/ Inactive(t) /\ op[t].status \in {"dispatching", "uncertain"} /\ Close(t) /\ UNCHANGED faults
         \/ ~(Inactive(t) /\ op[t].status \in {"dispatching", "uncertain"}) /\ UNCHANGED <<op, faults>>
         \/ Fault /\ UNCHANGED op
      /\ LET rest == poller[p].todo \ {t}
         IN poller' = [poller EXCEPT ![p].todo = rest,
                                     ![p].pc = IF rest = {} THEN "page" ELSE "reconcile"]
  BY DEF Reconcile
<1>0. /\ t \in Moves /\ faults' \in 0..MaxFaults
      /\ UNCHANGED <<bitrix, moves, chat, boundary, lapsed, inflight, requests>>
  BY Polling, FaultType DEF Reconcile, bitrix
<1> PICK rest \in SUBSET Moves : rest = poller[p].todo \ {t}
  BY Polling
<1> PICK pc \in {"page", "reconcile"} : pc = IF rest = {} THEN "page" ELSE "reconcile"
  OBVIOUS
<1>1. /\ poller' \in [Pollers -> Pollings] /\ Alone(p) /\ poller'[p].pc = pc
      /\ poller'[p].row = poller[p].row /\ poller'[p].last = poller[p].last
  <2> DEFINE r == [poller[p] EXCEPT !.todo = rest, !.pc = pc]
  <2>1. poller' = [poller EXCEPT ![p] = r]
    BY DEF TInv, TypeOK
  <2>2. r \in Pollings /\ r.pc = pc /\ r.row = poller[p].row /\ r.last = poller[p].last
    BY Polling DEF Pollings, PCs
  <2> QED
    BY <2>1, <2>2, Replaced
<1>2. Place(poller[p])'
  BY <1>0, <1>1, Polling DEF Place, AtRow, Beyond, Reconcile
<1>3. Onward(p)
  BY <1>1 DEF Onward, AtRow
<1>4. CASE UNCHANGED op
  BY <1>0, <1>1, <1>2, <1>3, <1>4, ReadStep DEF TInv, TypeOK, Decides
<1>5. CASE Inactive(t) /\ Close(t) /\ op[t].status \in {"dispatching", "uncertain"}
  <2>1. Becomes(t, "closed") /\ t \notin lapsed
    <3>1. op \in [Moves -> Ops] /\ "closed" \in Statuses /\ t \notin lapsed
      BY <1>5 DEF TInv, TypeOK, Statuses
    <3> QED
      BY <1>0, <1>5, <3>1 DEF Becomes, Ops, Close
  <2>2. /\ \A u \in Moves : Recorded(u)' /\ Forward(u)
        /\ lapsed' \subseteq {u \in Moves : op'[u].status = "checking"}
    BY <1>0, <1>5, <2>1, Became DEF Started, Final
  <2>3. Quiet(p)
    BY <1>0, <1>1, <2>2 DEF Quiet
  <2>4. TInv'
    BY <1>0, <1>2, <2>1, <2>2, <2>3, PollerStep DEF Becomes, TInv, TypeOK
  <2>5. Decides
    BY <1>0, <1>5, <2>1 DEF Decides
  <2> QED
    BY <1>3, <2>3, <2>4, <2>5
<1> QED
  BY <1>4, <1>5

LEMMA ClaimTyped ==
  ASSUME TInv, NEW p \in Pollers, Claim(p)
  PROVE  TInv' /\ Quiet(p) /\ Onward(p) /\ Decides /\ poller'[p].pc \in {"first", "row"}
<1>0. poller[p].pc = "claim" /\ poller[p].pc \in AtRow
      /\ UNCHANGED <<bitrix, boundary, inflight, requests, faults>>
  BY DEF Claim, AtRow
<1> PICK t \in Moves : t = poller[p].row
  BY <1>0, AtRowMove
<1>1. CASE Free(t)
  <2>1. /\ op' = [op EXCEPT ![t].status = "checking", ![t].lease = p, ![t].attempts = @ + 1]
        /\ lapsed' = lapsed \ {t}
    BY <1>1 DEF Claim
  <2>2. op[t].status \in {"none", "checking", "retryable"}
    BY <1>1 DEF Free, TInv, TypeOK
  <2>3. Becomes(t, "checking")
    <3>1. op \in [Moves -> Ops] /\ "checking" \in Statuses
      BY DEF TInv, TypeOK, Statuses
    <3>2. op[t].attempts + 1 \in Nat
      BY <3>1 DEF Ops
    <3> QED
      BY <2>1, <3>1, <3>2 DEF Becomes, Ops
  <2> PICK hindered \in BOOLEAN : hindered <=> (~Proven(t) \/ DealChat(t).said >= t)
    OBVIOUS
  <2>4. poller' = [poller EXCEPT ![p].pc = "first", ![p].hindered = hindered]
    <3>1. poller' = [poller EXCEPT ![p].pc = "first", ![p].hindered = ~Proven(t) \/ DealChat(t).said >= t]
      BY <1>1 DEF Claim
    <3>2. hindered = (~Proven(t) \/ DealChat(t).said >= t)
      BY Zenon
    <3> QED
      BY <3>1, <3>2, Zenon
  <2>5. /\ poller' \in [Pollers -> Pollings] /\ Alone(p) /\ poller'[p].pc = "first"
        /\ poller'[p].row = poller[p].row /\ poller'[p].last = poller[p].last
        /\ poller'[p].errors = poller[p].errors
    <3> DEFINE r == [poller[p] EXCEPT !.pc = "first", !.hindered = hindered]
    <3>1. poller' = [poller EXCEPT ![p] = r]
      BY <2>4 DEF TInv, TypeOK
    <3>2. /\ r \in Pollings /\ r.pc = "first" /\ r.row = poller[p].row /\ r.last = poller[p].last
          /\ r.errors = poller[p].errors
      BY Polling DEF Pollings, PCs
    <3> QED
      BY <3>1, <3>2, Replaced
  <2>6. TInv' /\ Quiet(p) /\ Onward(p)
    BY <1>0, <2>1, <2>2, <2>3, <2>5, Turns DEF Started, Final
  <2> QED
    BY <2>2, <2>3, <2>5, <2>6 DEF Decides
<1>2. CASE ~Free(t)
  <2> PICK errors \in BOOLEAN : errors = (op[t].status \notin Final)
    OBVIOUS
  <2>1. NextRow(p, errors) /\ UNCHANGED <<op, lapsed>> /\ (errors \/ op'[t].status \in Final)
    BY <1>2 DEF Claim
  <2> QED
    BY <1>0, <2>1, Passes DEF Decides
<1> QED
  BY <1>1, <1>2

LEMMA SkipTyped ==
  ASSUME TInv, NEW p \in Pollers, poller[p].pc \in AtRow, Skip(p) \/ ReadFails(p),
         UNCHANGED <<bitrix, boundary, inflight, requests>>
  PROVE  /\ TInv' /\ Quiet(p) /\ Onward(p) /\ poller'[p].pc = "row"
         /\ \/ op' = op
            \/ \E status \in {"skipped", "retryable"} :
                 Becomes(poller[p].row, status) /\ op[poller[p].row].status = "checking"
<1>1. /\ Fault \/ UNCHANGED faults
      /\ Finalize(p, "skipped", FALSE) \/ Finalize(p, "retryable", TRUE)
  BY DEF Skip, ReadFails
<1>2. CASE Finalize(p, "skipped", FALSE)
  BY <1>1, <1>2, Finalized DEF Final
<1>3. CASE Finalize(p, "retryable", TRUE)
  BY <1>1, <1>3, Finalized
<1> QED
  BY <1>1, <1>2, <1>3

LEMMA ChecksTyped ==
  ASSUME TInv, NEW p \in Pollers, First(p) \/ Again(p) \/ LookAgain(p)
  PROVE  TInv' /\ Quiet(p) /\ Onward(p) /\ Decides
<1>0. poller[p].pc \in {"first", "again", "final"} /\ poller[p].pc \in AtRow
      /\ UNCHANGED <<bitrix, boundary, inflight, requests>>
  BY DEF First, Again, LookAgain, AtRow
<1> PICK t \in Moves : t = poller[p].row
  BY <1>0, AtRowMove
<1>1. CASE Skip(p) \/ ReadFails(p)
  <2>1. /\ TInv' /\ Quiet(p) /\ Onward(p)
        /\ \/ op' = op
           \/ \E status \in {"skipped", "retryable"} : Becomes(t, status) /\ op[t].status = "checking"
    BY <1>0, <1>1, SkipTyped
  <2> QED
    BY <2>1 DEF Decides
<1>2. CASE UNCHANGED <<op, lapsed, faults>> /\ (Goto(p, "final") \/ Goto(p, "dispatch"))
           /\ poller[p].pc \in {"again", "final"}
  BY <1>0, <1>2, Stays DEF AtRow, Beyond, TInv, TypeOK, Decides
<1>3. CASE /\ poller' = [poller EXCEPT ![p].pc = "again", ![p].snap = DealChat(t)]
           /\ UNCHANGED <<op, lapsed, faults>>
  <2>0. moves[t].deal \in Deals
    <3>1. t \in 1..Len(moves)
      BY <1>0, AtRowMove, Numbers DEF Moves
    <3> QED
      BY <3>1, RowDeal
  <2> PICK c \in Chats : c = DealChat(t)
    BY <2>0 DEF DealChat, TInv, TypeOK
  <2>1. /\ poller' \in [Pollers -> Pollings] /\ Alone(p) /\ poller'[p].pc = "again"
        /\ poller'[p].row = poller[p].row /\ poller'[p].last = poller[p].last
        /\ poller'[p].errors = poller[p].errors /\ poller'[p].snap = c
    <3> DEFINE r == [poller[p] EXCEPT !.pc = "again", !.snap = c]
    <3>1. poller' = [poller EXCEPT ![p] = r]
      BY <1>3 DEF TInv, TypeOK
    <3>2. /\ r \in Pollings /\ r.pc = "again" /\ r.row = poller[p].row /\ r.last = poller[p].last
          /\ r.errors = poller[p].errors /\ r.snap = c
      BY Polling DEF Pollings, PCs
    <3> QED
      BY <3>1, <3>2, Replaced
  <2>2. c.session <= c.session
    BY Numbers DEF Chats
  <2>3. Place(poller[p])'
    BY <1>0, <2>1, <2>2, Polling DEF Place, AtRow, Beyond, DealChat, bitrix
  <2>4. TInv' /\ Quiet(p)
    BY <1>0, <1>3, <2>1, <2>3, ReadStep DEF TInv, TypeOK
  <2> QED
    BY <1>0, <1>3, <2>1, <2>4 DEF Onward, Decides
<1> QED
  BY <1>0, <1>1, <1>2, <1>3 DEF First, Again, LookAgain

\* Across the boundary: the operation names a session of its dialog.
LEMMA DispatchTyped ==
  ASSUME TInv, NEW p \in Pollers, Dispatch(p)
  PROVE  /\ TInv' /\ Quiet(p) /\ Onward(p)
         /\ \/ poller'[p].pc = "row" /\ op' = op
            \/ /\ poller'[p].pc = "row" /\ Becomes(poller[p].row, "dry_run")
               /\ op[poller[p].row].status = "checking"
            \/ /\ poller'[p].pc = "finish" /\ poller'[p].row = poller[p].row
               /\ poller'[p].hindered = poller[p].hindered
               /\ \A u \in Moves \ {poller[p].row} : op'[u] = op[u]
               /\ op[poller[p].row].status = "checking" /\ op'[poller[p].row].status = "dispatching"
<1>0. poller[p].pc = "dispatch" /\ poller[p].pc \in AtRow
      /\ UNCHANGED <<bitrix, moves, chat, boundary, inflight, requests, faults>>
  BY DEF Dispatch, AtRow, bitrix
<1> PICK t \in Moves : t = poller[p].row
  BY <1>0, AtRowMove
<1>1. CASE Finalize(p, "dry_run", FALSE)
  BY <1>0, <1>1, Finalized DEF Final
<1>2. CASE NextRow(p, TRUE) /\ UNCHANGED <<op, lapsed>>
  BY <1>0, <1>2, Passes
<1>3. CASE /\ MayCross(p)
           /\ op' = [op EXCEPT ![t].status = "dispatching", ![t].lease = None,
                               ![t].session = poller[p].snap.session, ![t].fallback = ~poller[p].snap.listed]
           /\ lapsed' = lapsed \ {t}
           /\ Goto(p, "finish")
  <2>0. op[t].status = "checking"
    BY <1>3 DEF MayCross, Leased
  <2> PICK snap \in Chats : snap = poller[p].snap
    BY <1>0, Polling DEF Place
  <2>1. /\ snap.session <= DealChat(t).session /\ snap.session \in 1..(MaxEdits + 1)
        /\ snap.listed \in BOOLEAN
    BY <1>0, Polling DEF Place, Chats
  <2>2. snap.session \in 0..(MaxEdits + 1) /\ snap.session # 0
    BY <2>1, Numbers
  <2> PICK fallback \in BOOLEAN : fallback = ~snap.listed
    OBVIOUS
  <2>3. /\ op' \in [Moves -> Ops] /\ \A u \in Moves \ {t} : op'[u] = op[u]
        /\ op'[t].status = "dispatching" /\ op'[t].session = snap.session
    <3>1. op \in [Moves -> Ops] /\ "dispatching" \in Statuses
      BY DEF TInv, TypeOK, Statuses
    <3>2. op' = [op EXCEPT ![t].status = "dispatching", ![t].lease = None,
                           ![t].session = snap.session, ![t].fallback = fallback]
      BY <1>3
    <3> DEFINE r == [op[t] EXCEPT !.status = "dispatching", !.lease = None, !.session = snap.session,
                                  !.fallback = fallback]
    <3>3. op' = [op EXCEPT ![t] = r]
      BY <3>1, <3>2
    <3>4. r \in Ops /\ r.status = "dispatching" /\ r.session = snap.session
      <4>1. op[t] \in Ops
        BY <3>1
      <4> QED
        BY <2>2, <3>1, <4>1 DEF Ops
    <3> QED
      BY <3>1, <3>3, <3>4
  <2>4. /\ poller' \in [Pollers -> Pollings] /\ Alone(p) /\ poller'[p].pc = "finish"
        /\ poller'[p].row = t /\ poller'[p].last = poller[p].last
        /\ poller'[p].errors = poller[p].errors /\ poller'[p].hindered = poller[p].hindered
    BY <1>3, Goes DEF PCs
  <2>5. ASSUME NEW u \in Moves PROVE Recorded(u)' /\ Forward(u)
    <3>1. CASE u = t
      BY <1>0, <2>0, <2>1, <2>2, <2>3, <3>1, AtRowMove DEF Recorded, Forward, DealChat, Started, Final
    <3>2. CASE u # t
      BY <1>0, <2>3, <3>2 DEF TInv, Recorded, Forward, DealChat
    <3> QED
      BY <3>1, <3>2
  <2>6. lapsed' \subseteq {u \in Moves : op'[u].status = "checking"}
    BY <1>3, <2>3 DEF TInv, TypeOK
  <2>7. Place(poller[p])'
    BY <1>0, <2>3, <2>4, Polling DEF Place, AtRow, Beyond, Started
  <2>8. Quiet(p)
    BY <1>0, <2>4, <2>5 DEF Quiet
  <2>9. TInv'
    BY <1>0, <2>3, <2>5, <2>6, <2>7, <2>8, PollerStep DEF TInv, TypeOK
  <2> QED
    BY <1>0, <2>0, <2>3, <2>4, <2>8, <2>9 DEF Onward
<1> QED
  BY <1>1, <1>2, <1>3 DEF Dispatch

\* The request, its answer and the look that follows.
LEMMA SendTyped ==
  ASSUME TInv, NEW p \in Pollers, Finish(p) \/ Answer(p)
  PROVE  TInv' /\ Quiet(p) /\ Onward(p)
<1>0. poller[p].pc \in {"finish", "wait"} /\ poller[p].pc \in AtRow /\ poller[p].pc \in Beyond
      /\ UNCHANGED <<bitrix, op, lapsed, boundary, faults>>
  BY DEF Finish, Answer, AtRow, Beyond
<1> PICK t \in Moves : t = poller[p].row
  BY <1>0, AtRowMove
<1>1. CASE Finish(p)
  <2>1. requests' \in [Moves -> Nat] /\ inflight' \subseteq Moves /\ Goto(p, "wait")
    BY <1>1 DEF Finish, TInv, TypeOK
  <2> QED
    BY <1>0, <2>1, Stays DEF AtRow, Beyond
<1>2. CASE Answer(p)
  <2>0. inflight' \subseteq Moves /\ requests' \in [Moves -> Nat]
    BY <1>2 DEF Answer, TInv, TypeOK
  <2>1. CASE Goto(p, "confirm") \/ Goto(p, "uncertain")
    BY <1>0, <2>0, <2>1, Stays DEF AtRow, Beyond
  <2>2. CASE poller' = [poller EXCEPT ![p].pc = "uncertain", ![p].lost = TRUE]
    <3> DEFINE r == [poller[p] EXCEPT !.pc = "uncertain", !.lost = TRUE]
    <3>1. poller' = [poller EXCEPT ![p] = r]
      BY <2>2 DEF TInv, TypeOK
    <3>2. /\ r \in Pollings /\ r.pc = "uncertain" /\ r.row = poller[p].row /\ r.last = poller[p].last
          /\ r.errors = poller[p].errors
      BY Polling DEF Pollings, PCs
    <3>3. /\ poller' \in [Pollers -> Pollings] /\ Alone(p) /\ poller'[p].pc = "uncertain"
          /\ poller'[p].row = t /\ poller'[p].last = poller[p].last
          /\ poller'[p].errors = poller[p].errors
      BY <3>1, <3>2, Replaced
    <3>4. Place(poller[p])'
      BY <1>0, <3>3, Polling DEF Place, AtRow, Beyond, bitrix
    <3>5. TInv' /\ Quiet(p)
      BY <1>0, <2>0, <3>3, <3>4, ReadStep DEF TInv, TypeOK
    <3> QED
      BY <1>0, <3>3, <3>5 DEF Onward
  <2> QED
    BY <1>2, <2>1, <2>2 DEF Answer
<1> QED
  BY <1>1, <1>2

LEMMA AfterTyped ==
  ASSUME TInv, NEW p \in Pollers, Confirm(p) \/ Uncertain(p) \/ Recheck(p)
  PROVE  TInv' /\ Quiet(p) /\ Onward(p) /\ Decides
<1>0. /\ poller[p].pc \in {"confirm", "uncertain", "recheck"} /\ poller[p].pc \in AtRow
      /\ poller[p].pc \in Beyond
      /\ UNCHANGED <<bitrix, lapsed, boundary, inflight, requests>> /\ (Fault \/ UNCHANGED faults)
  BY DEF Confirm, Uncertain, Recheck, AtRow, Beyond
<1> PICK t \in Moves : t = poller[p].row
  BY <1>0, AtRowMove
<1>1. op[t].status \in Started /\ op[t].status \in Final /\ t <= MaxMoves /\ op \in [Moves -> Ops]
  BY <1>0, Polling DEF Place, Started, Final, TInv, TypeOK, Moves
<1>2. CASE (Inactive(t) /\ Settle(p, "closed")) \/ Settle(p, "uncertain")
  <2>1. CASE Inactive(t) /\ Settle(p, "closed")
    BY <1>0, <2>1, Settled DEF Decides
  <2>2. CASE Settle(p, "uncertain")
    BY <1>0, <2>2, Settled DEF Decides
  <2> QED
    BY <1>2, <2>1, <2>2
<1>3. ASSUME NEW status \in {"uncertain", "closed"}, op' = [op EXCEPT ![t].status = status]
      PROVE  Becomes(t, status) /\ t \notin lapsed
  <2>1. status \in Statuses /\ t \notin lapsed
    BY <1>1 DEF TInv, TypeOK, Statuses, Started
  <2> QED
    BY <1>1, <1>3, <2>1 DEF Becomes, Ops
<1>4. CASE /\ op[t].status = "dispatching"
           /\ op' = [op EXCEPT ![t].status = "uncertain"] /\ Goto(p, "recheck")
  <2>1. /\ poller' \in [Pollers -> Pollings] /\ Alone(p) /\ poller'[p].pc = "recheck"
        /\ poller'[p].row = t /\ poller'[p].last = poller[p].last
        /\ poller'[p].errors = poller[p].errors
    BY <1>4, Goes DEF PCs
  <2> QED
    BY <1>0, <1>1, <1>3, <1>4, <2>1, Turns DEF Started, Final, Beyond, Decides
<1>5. CASE Inactive(t) /\ op[t].status = "uncertain" /\ Close(t) /\ NextRow(p, FALSE)
  <2>1. /\ poller' \in [Pollers -> Pollings] /\ Alone(p) /\ poller'[p].pc = "row"
        /\ poller'[p].row = t + 1 /\ poller'[p].last = poller[p].last
        /\ ~poller'[p].errors => ~poller[p].errors
    BY <1>1, <1>5, GoesOn
  <2> QED
    BY <1>0, <1>1, <1>3, <1>5, <2>1, Turns DEF Started, Final, Close, Decides
<1>6. CASE UNCHANGED op /\ NextRow(p, FALSE)
  BY <1>0, <1>1, <1>6, Passes DEF Decides
<1>7. CASE Confirm(p)
  BY <1>2, <1>7 DEF Confirm, Confirmed
<1>8. CASE Uncertain(p)
  BY <1>2, <1>4, <1>8 DEF Uncertain
<1>9. CASE Recheck(p)
  BY <1>5, <1>6, <1>9 DEF Recheck
<1> QED
  BY <1>7, <1>8, <1>9

LEMMA CrashTyped ==
  ASSUME TInv, NEW p \in Pollers, Crash(p)
  PROVE  TInv' /\ Quiet(p) /\ Onward(p)
<1>0. /\ UNCHANGED <<bitrix, moves, op, lapsed, boundary, inflight, requests>> /\ Rest(p) /\ Fault
  BY DEF Crash, bitrix
<1>1. poller' \in [Pollers -> Pollings] /\ Alone(p) /\ poller'[p] = Idle
  BY <1>0, Rests
<1>2. Place(poller[p])'
  BY <1>0, <1>1, IdleType, Numbers DEF Place, AtRow, Beyond
<1>3. TInv' /\ Quiet(p)
  BY <1>0, <1>1, <1>2, FaultType, ReadStep DEF TInv, TypeOK
<1> QED
  BY <1>1, <1>3, IdleType DEF Onward, AtRow

\* Every step of a poller but those that move the boundary.
LEMMA StepTyped ==
  ASSUME TInv, NEW p \in Pollers, Step(p) \/ Crash(p), ~Arm(p), ~Advance(p)
  PROVE  TInv' /\ Quiet(p) /\ Onward(p) /\ (Decides \/ Dispatch(p))
<1>1. CASE Start(p) \/ Poll(p) \/ Page(p) \/ Row(p) \/ Prove(p)
  BY <1>1, ReadsTyped DEF Start, Poll, Page, Row, Prove, Decides
<1>2. CASE Reconcile(p)
  BY <1>2, ReconcileTyped
<1>3. CASE Claim(p)
  BY <1>3, ClaimTyped
<1>4. CASE First(p) \/ Again(p) \/ LookAgain(p)
  BY <1>4, ChecksTyped
<1>5. CASE Dispatch(p)
  BY <1>5, DispatchTyped
<1>6. CASE Finish(p) \/ Answer(p)
  BY <1>6, SendTyped DEF Finish, Answer, Decides
<1>7. CASE Confirm(p) \/ Uncertain(p) \/ Recheck(p)
  BY <1>7, AfterTyped
<1>8. CASE Crash(p)
  BY <1>8, CrashTyped DEF Crash, Decides
<1> QED
  BY <1>1, <1>2, <1>3, <1>4, <1>5, <1>6, <1>7, <1>8 DEF Step
-----------------------------------------------------------------------------
(* The types and the operations: the surroundings.                         *)

\* Bitrix moves, a client or an employee acts: the pollers stay where they are,
\* sessions and the history only grow.
Around == /\ UNCHANGED <<op, lapsed, boundary, requests, faults>> /\ inflight' \subseteq inflight
          /\ Len(moves) <= Len(moves') /\ \A t \in 1..Len(moves) : moves'[t] = moves[t]
          /\ \A d \in Deals : chat[d].session <= chat'[d].session
          /\ poller' \in [Pollers -> Pollings]
          /\ \A p \in Pollers : /\ poller'[p].pc = poller[p].pc /\ poller'[p].row = poller[p].row
                                /\ poller'[p].last = poller[p].last /\ poller'[p].snap = poller[p].snap
                                /\ poller'[p].errors = poller[p].errors

LEMMA AroundTyped ==
  ASSUME TInv, Around, stage' \in [Deals -> {"P", "F"}],
         moves' \in Seq([deal : Deals, from : {"P", "F"}, to : {"P", "F"}]), Len(moves') <= MaxMoves,
         chat' \in [Deals -> Chats], edits' \in 0..MaxEdits, Counted'
  PROVE  TInv'
<1>0. Len(moves) \in 0..MaxMoves /\ Len(moves') \in 0..MaxMoves
      /\ MaxMoves \in Nat
  BY Numbers
<1>1. TypeOK'
  <2>1. boundary' \in {None} \cup {b \in [baseline : 0..Len(moves'), scan : 0..Len(moves')] :
                                  b.baseline <= b.scan}
    BY <1>0 DEF TInv, TypeOK, Around
  <2> QED
    BY <2>1 DEF TInv, TypeOK, Around, Pollings
<1>2. ASSUME NEW t \in Moves, t <= Len(moves)
      PROVE  DealChat(t).session \in Nat /\ DealChat(t).session <= DealChat(t)'.session
             /\ DealChat(t)'.session \in Nat
  <2>1. t \in 1..Len(moves)
    BY <1>0, <1>2 DEF Moves
  <2>2. moves'[t] = moves[t] /\ moves[t].deal \in Deals
    BY <2>1, RowDeal DEF Around
  <2>3. /\ chat[moves[t].deal] \in Chats /\ chat'[moves[t].deal] \in Chats
        /\ chat[moves[t].deal].session <= chat'[moves[t].deal].session
    BY <2>2 DEF TInv, TypeOK, Around
  <2>4. chat[moves[t].deal].session \in Nat /\ chat'[moves[t].deal].session \in Nat
    BY <2>3, ChatNumbers
  <2> QED
    BY <2>2, <2>3, <2>4 DEF DealChat
<1>3. ASSUME NEW t \in Moves PROVE Recorded(t)'
  <2>0. op[t] \in Ops
    BY DEF TInv, TypeOK
  <2>1. Recorded(t) /\ op' = op /\ boundary' = boundary /\ op[t].session \in Nat /\ t \in Nat
    BY <2>0, Numbers DEF TInv, Around, Ops, Moves
  <2>2. op[t].status \in Started => t <= Len(moves)
    BY <2>1 DEF Recorded, Started
  <2> QED
    BY <1>0, <1>2, <2>1, <2>2, Numbers DEF Recorded, Around
<1>4. ASSUME NEW p \in Pollers PROVE Place(poller[p])'
  <2>1. poller[p].last <= Len(moves') /\ Place(poller[p])
    BY <1>0, Polling DEF Place, Around
  <2>2. CASE poller[p].pc \in {"again", "final", "dispatch"}
    <3>1. poller[p].row \in Moves /\ poller[p].row <= Len(moves) /\ poller[p].snap \in Chats
      BY <2>2, AtRowMove, Polling DEF AtRow, Place
    <3>2. poller[p].snap.session \in Nat
      BY <3>1, Numbers DEF Chats
    <3> QED
      BY <1>2, <2>1, <2>2, <3>1, <3>2 DEF Place, Around, Beyond
  <2>3. CASE poller[p].pc \notin {"again", "final", "dispatch"}
    BY <2>1, <2>3 DEF Place, Around
  <2> QED
    BY <2>2, <2>3
<1> QED
  BY <1>1, <1>3, <1>4 DEF TInv

LEMMA Hindered ==
  ASSUME TInv, NEW d \in Deals, NEW pcs, Hinder(d, pcs)
  PROVE  /\ poller' \in [Pollers -> Pollings]
         /\ \A p \in Pollers : /\ poller'[p].pc = poller[p].pc /\ poller'[p].row = poller[p].row
                               /\ poller'[p].last = poller[p].last /\ poller'[p].snap = poller[p].snap
                               /\ poller'[p].errors = poller[p].errors
<1>1. ASSUME NEW p \in Pollers PROVE [poller[p] EXCEPT !.hindered = TRUE] \in Pollings
  BY Polling DEF Pollings
<1>2. ASSUME NEW p \in Pollers PROVE poller'[p] \in {poller[p], [poller[p] EXCEPT !.hindered = TRUE]}
  BY DEF Hinder
<1>3. poller' \in [Pollers -> Pollings]
  BY <1>1, Polling DEF Hinder
<1>4. ASSUME NEW p \in Pollers
      PROVE  /\ poller'[p].pc = poller[p].pc /\ poller'[p].row = poller[p].row
             /\ poller'[p].last = poller[p].last /\ poller'[p].snap = poller[p].snap
             /\ poller'[p].errors = poller[p].errors
  BY <1>2, Polling DEF Pollings
<1> QED
  BY <1>3, <1>4

LEMMA MoveTyped ==
  ASSUME TInv, NEW d \in Deals, Move(d)
  PROVE  TInv' /\ Around
<1> DEFINE R == [deal : Deals, from : {"P", "F"}, to : {"P", "F"}]
<1>1. PICK to \in {"F"} \cup ({"P"} \ {stage[d]}) :
        /\ moves' = Append(moves, [deal |-> d, from |-> stage[d], to |-> to])
        /\ stage' = [stage EXCEPT ![d] = to]
        /\ \/ UNCHANGED chat
           \/ /\ to = "F" /\ chat[d].listed
              /\ chat' = [chat EXCEPT ![d].listed = FALSE, ![d].dropped = Len(moves) + 1]
  BY DEF Move
<1>2. /\ Len(moves) < MaxMoves /\ Len(moves) \in Nat /\ MaxMoves \in Nat
      /\ UNCHANGED <<edits, op, lapsed, boundary, inflight, requests, faults>>
  BY Numbers DEF Move
<1> PICK m \in R : m = [deal |-> d, from |-> stage[d], to |-> to]
  BY <1>1 DEF TInv, TypeOK
<1>3. moves' \in Seq(R) /\ Len(moves') = Len(moves) + 1 /\ \A t \in 1..Len(moves) : moves'[t] = moves[t]
  <2>1. moves \in Seq(R) /\ moves' = Append(moves, m)
    BY <1>1 DEF TInv, TypeOK
  <2> HIDE DEF R
  <2> QED
    BY <2>1
<1>4. /\ chat' \in [Deals -> Chats] /\ \A e \in Deals : chat[e].session <= chat'[e].session
      /\ Counted'
  <2>0. chat \in [Deals -> Chats] /\ Counted /\ edits' = edits
        /\ \A e \in Deals : chat[e].session \in Nat /\ chat[e].edition \in Nat
    BY <1>2, ChatNumbers DEF TInv, TypeOK
  <2>1. CASE UNCHANGED chat
    BY <2>0, <2>1 DEF Counted
  <2>2. CASE chat' = [chat EXCEPT ![d].listed = FALSE, ![d].dropped = Len(moves) + 1]
    <3> PICK n \in 0..MaxMoves : n = Len(moves) + 1
      BY <1>2
    <3> DEFINE c == [chat[d] EXCEPT !.listed = FALSE, !.dropped = n]
    <3>1. chat' = [chat EXCEPT ![d] = c]
      BY <2>0, <2>2
    <3>2. c \in Chats /\ c.session = chat[d].session /\ c.edition = chat[d].edition
      <4>1. chat[d] \in Chats
        BY <2>0
      <4> QED
        BY <4>1 DEF Chats
    <3> HIDE DEF c
    <3> QED
      BY <2>0, <3>1, <3>2 DEF Counted
  <2> QED
    BY <1>1, <2>1, <2>2
<1>5. Around
  BY <1>2, <1>3, <1>4, Hindered DEF Around, Move
<1>6. stage' \in [Deals -> {"P", "F"}]
  BY <1>1 DEF TInv, TypeOK
<1> QED
  BY <1>2, <1>3, <1>4, <1>5, <1>6, AroundTyped DEF TInv, TypeOK

\* What clients and employees do to the dialog of a deal.
LEMMA EditTyped ==
  ASSUME TInv, NEW d \in Deals, NEW c \in Chats, Edit(d, c), chat[d].session <= c.session,
         c.session <= edits + 2, c.edition <= edits + 1,
         poller' \in [Pollers -> Pollings],
         \A p \in Pollers : /\ poller'[p].pc = poller[p].pc /\ poller'[p].row = poller[p].row
                            /\ poller'[p].last = poller[p].last /\ poller'[p].snap = poller[p].snap
                            /\ poller'[p].errors = poller[p].errors
  PROVE  TInv' /\ Around
<1>1. /\ edits' \in 0..MaxEdits /\ chat' = [chat EXCEPT ![d] = c]
      /\ UNCHANGED <<stage, moves, op, lapsed, boundary, inflight, requests, faults>>
  BY Numbers DEF Edit, TInv, TypeOK
<1>2. chat' \in [Deals -> Chats] /\ \A e \in Deals : chat[e].session <= chat'[e].session
  <2>1. chat \in [Deals -> Chats] /\ \A e \in Deals : chat[e].session \in Nat
    BY ChatNumbers DEF TInv, TypeOK
  <2> QED
    BY <1>1, <2>1
<1>4. Counted'
  <2>1. edits' = edits + 1 /\ edits \in Nat
    BY Numbers DEF Edit, TInv, TypeOK
  <2>2. ASSUME NEW e \in Deals PROVE chat'[e].session <= edits' + 1 /\ chat'[e].edition <= edits'
    <3>1. /\ chat[e].session \in Nat /\ chat[e].edition \in Nat
          /\ chat[e].session <= edits + 1 /\ chat[e].edition <= edits
          /\ c.session \in Nat /\ c.edition \in Nat
      BY ChatNumbers DEF TInv, TypeOK, Counted
    <3>2. chat'[e] = IF e = d THEN c ELSE chat[e]
      BY <1>1 DEF TInv, TypeOK
    <3> QED
      BY <2>1, <3>1, <3>2
  <2> QED
    BY <2>2 DEF Counted
<1>3. Around
  BY <1>1, <1>2, Numbers DEF Around
<1> QED
  BY <1>1, <1>2, <1>3, <1>4, AroundTyped DEF TInv, TypeOK

\* The dialog after a message.
Spoken(d) == [chat[d] EXCEPT !.open = TRUE, !.listed = TRUE, !.said = Len(moves), !.edition = @ + 1,
                             !.session = IF chat[d].open THEN @ ELSE @ + 1]

LEMMA EndedType ==
  ASSUME TInv, NEW c \in Chats
  PROVE  /\ Ended(c) \in Chats /\ Ended(c).session = c.session /\ Ended(c).edition = c.edition
         /\ Ended(c).said = c.said /\ ~Ended(c).open
BY DEF Ended, Chats

LEMMA SpokenType ==
  ASSUME TInv, NEW d \in Deals, edits < MaxEdits
  PROVE  /\ Spoken(d) \in Chats /\ Spoken(d).said = Len(moves)
         /\ Spoken(d).edition = chat[d].edition + 1 /\ Spoken(d).open
         /\ Spoken(d).session = IF chat[d].open THEN chat[d].session ELSE chat[d].session + 1
<1>1. chat[d] \in Chats /\ chat[d].session <= edits + 1 /\ chat[d].edition <= edits
  BY DEF TInv, TypeOK, Counted
<1>2. edits \in Nat /\ MaxEdits \in Nat /\ edits < MaxEdits /\ Len(moves) \in 0..MaxMoves
  BY Numbers DEF TInv, TypeOK
<1> PICK session \in 1..(MaxEdits + 1) : session = IF chat[d].open THEN chat[d].session ELSE chat[d].session + 1
  <2>1. chat[d].session \in 1..(MaxEdits + 1)
    BY <1>1 DEF Chats
  <2> QED
    BY <1>1, <1>2, <2>1
<1> PICK edition \in 0..MaxEdits : edition = chat[d].edition + 1
  <2>1. chat[d].edition \in 0..MaxEdits
    BY <1>1 DEF Chats
  <2> QED
    BY <1>1, <1>2, <2>1
<1> PICK said \in 0..MaxMoves : said = Len(moves)
  BY <1>2
<1>3. Spoken(d) = [chat[d] EXCEPT !.open = TRUE, !.listed = TRUE, !.said = said, !.edition = edition,
                                  !.session = session]
  BY <1>1 DEF Spoken, Chats
<1>4. /\ Spoken(d) \in Chats /\ Spoken(d).said = said
      /\ Spoken(d).edition = edition /\ Spoken(d).open /\ Spoken(d).session = session
  BY <1>1, <1>3 DEF Chats
<1> QED
  BY <1>4

LEMMA DialogTyped ==
  ASSUME TInv, NEW d \in Deals, Message(d) \/ EndChat(d) \/ Refit(d)
  PROVE  /\ TInv' /\ Around
         /\ \E c \in Chats : /\ Edit(d, c)
                             /\ chat[d].session < c.session \/ (chat[d].session = c.session
                                                                /\ (~chat[d].open => ~c.open))
<1>0. /\ chat[d] \in Chats /\ chat[d].session <= edits + 1 /\ chat[d].edition <= edits
      /\ edits \in Nat /\ chat[d].session \in Nat /\ chat[d].edition \in Nat
  BY Numbers, ChatNumbers DEF TInv, TypeOK, Counted
<1>1. CASE Message(d)
  <2>1. Edit(d, Spoken(d)) /\ edits < MaxEdits /\ Hinder(d, {"first", "again", "final"})
    BY <1>1 DEF Message, Spoken, Edit
  <2>2. /\ Spoken(d) \in Chats /\ Spoken(d).edition = chat[d].edition + 1
        /\ Spoken(d).session = IF chat[d].open THEN chat[d].session ELSE chat[d].session + 1
    BY <2>1, SpokenType
  <2>3. /\ chat[d].session <= Spoken(d).session /\ Spoken(d).session <= edits + 2
        /\ Spoken(d).edition <= edits + 1
    BY <1>0, <2>2
  <2>4. TInv' /\ Around
    BY <2>1, <2>2, <2>3, Hindered, EditTyped
  <2> QED
    BY <1>0, <2>1, <2>2, <2>4
<1>2. CASE EndChat(d)
  <2>1. Edit(d, Ended(chat[d])) /\ Hinder(d, {"again", "final"})
    BY <1>2 DEF EndChat
  <2>2. /\ Ended(chat[d]) \in Chats /\ Ended(chat[d]).session = chat[d].session
        /\ Ended(chat[d]).edition = chat[d].edition /\ ~Ended(chat[d]).open
    BY <1>0, EndedType
  <2>3. TInv' /\ Around
    BY <1>0, <2>1, <2>2, Hindered, EditTyped
  <2> QED
    BY <2>1, <2>2, <2>3
<1>3. CASE Refit(d)
  <2> DEFINE c == [chat[d] EXCEPT !.fit = ~@]
  <2>1. Edit(d, c) /\ UNCHANGED poller
    BY <1>3 DEF Refit
  <2>2. c \in Chats /\ c.session = chat[d].session /\ c.edition = chat[d].edition /\ c.open = chat[d].open
    BY <1>0 DEF Chats
  <2> HIDE DEF c
  <2>3. TInv' /\ Around
    <3>1. poller' \in [Pollers -> Pollings] /\ poller' = poller
      BY <2>1 DEF TInv, TypeOK, Pollings
    <3>2. c.session <= edits + 2 /\ c.edition <= edits + 1 /\ chat[d].session <= c.session
      BY <1>0, <2>2
    <3> QED
      BY <2>1, <2>2, <3>1, <3>2, EditTyped
  <2> QED
    BY <2>1, <2>2, <2>3
<1> QED
  BY <1>1, <1>2, <1>3

LEMMA ApplyTyped ==
  ASSUME TInv, NEW t \in Moves, Apply(t)
  PROVE  TInv' /\ Around
<1>1. /\ chat' = [chat EXCEPT ![moves[t].deal] = Ended(@)] /\ inflight' = inflight \ {t}
      /\ UNCHANGED <<stage, moves, edits, op, lapsed, boundary, poller, requests, faults>>
  BY DEF Apply
<1>2. ASSUME NEW e \in Deals PROVE chat'[e] \in {chat[e], Ended(chat[e])} /\ chat[e] \in Chats
  BY <1>1 DEF TInv, TypeOK
<1>3. ASSUME NEW e \in Deals
      PROVE  /\ chat'[e] \in Chats /\ chat'[e].session = chat[e].session
             /\ chat'[e].edition = chat[e].edition /\ chat[e].session \in Nat
  BY <1>2, EndedType, ChatNumbers
<1>4. chat' \in [Deals -> Chats] /\ \A e \in Deals : chat[e].session <= chat'[e].session
  <2>1. chat \in [Deals -> Chats] /\ DOMAIN chat' = Deals /\ chat' = [e \in Deals |-> chat'[e]]
    BY <1>1 DEF TInv, TypeOK
  <2> QED
    BY <1>3, <2>1
<1>5. Counted' /\ edits' \in 0..MaxEdits
  BY <1>1, <1>3 DEF TInv, TypeOK, Counted
<1>6. Around
  BY <1>1, <1>4, Numbers DEF Around, TInv, TypeOK, Pollings
<1> QED
  BY <1>1, <1>4, <1>5, <1>6, AroundTyped DEF TInv, TypeOK

LEMMA LapseTyped ==
  ASSUME TInv, NEW t \in Moves, Lapse(t)
  PROVE  TInv'
<1>1. /\ UNCHANGED <<bitrix, stage, moves, chat, edits, op, boundary, poller, inflight, requests>>
      /\ lapsed' = lapsed \cup {t} /\ op[t].status = "checking"
  BY DEF Lapse, bitrix
<1>2. faults' \in 0..MaxFaults
  BY FaultType DEF Lapse
<1>3. TypeOK'
  BY <1>1, <1>2 DEF TInv, TypeOK
<1> QED
  BY <1>1, <1>3 DEF TInv, Counted, Place, Recorded, DealChat

LEMMA Untouched ==
  ASSUME TInv, UNCHANGED vars
  PROVE  TInv'
BY DEF TInv, TypeOK, Counted, Place, Recorded, DealChat, vars, bitrix

LEMMA NextTyped ==
  ASSUME TInv, [Next]_vars
  PROVE  TInv'
<1>1. ASSUME NEW p \in Pollers, Step(p) \/ Crash(p) PROVE TInv'
  <2>1. CASE Arm(p) \/ Advance(p)
    BY <2>1, BoundaryTyped
  <2>2. CASE ~Arm(p) /\ ~Advance(p)
    BY <1>1, <2>2, StepTyped
  <2> QED
    BY <2>1, <2>2
<1>2. ASSUME NEW t \in Moves, Lapse(t) \/ Apply(t) PROVE TInv'
  BY <1>2, LapseTyped, ApplyTyped
<1>3. ASSUME NEW d \in Deals, Move(d) \/ Message(d) \/ EndChat(d) \/ Refit(d) PROVE TInv'
  BY <1>3, MoveTyped, DialogTyped
<1>4. CASE UNCHANGED vars
  BY <1>4, Untouched
<1> QED
  BY <1>1, <1>2, <1>3, <1>4 DEF Next

LEMMA InitTyped ==
  ASSUME Init
  PROVE  TInv
<1>0. /\ MaxAttempts \in Nat /\ MaxMoves \in Nat /\ MaxEdits \in Nat /\ MaxFaults \in Nat
      /\ moves = <<>> /\ boundary = None
  BY LostDealAssumption DEF Init
<1> DEFINE c == [open |-> TRUE, listed |-> TRUE, session |-> 1, dropped |-> 0,
                 said |-> 0, fit |-> TRUE, edition |-> 0]
<1>1. c \in Chats /\ c.session = 1 /\ c.edition = 0
  BY <1>0 DEF Chats
<1>2. NoOp \in Ops /\ NoOp.status = "none" /\ NoOp.session = 0
  BY <1>0 DEF NoOp, Ops, Statuses
<1>3. chat = [d \in Deals |-> c] /\ op = [t \in Moves |-> NoOp] /\ poller = [p \in Pollers |-> Idle]
  BY DEF Init
<1> HIDE DEF c
<1>4. TypeOK
  <2>1. moves \in Seq([deal : Deals, from : {"P", "F"}, to : {"P", "F"}]) /\ Len(moves) = 0
    BY <1>0
  <2>2. /\ chat \in [Deals -> Chats] /\ op \in [Moves -> Ops] /\ poller \in [Pollers -> Pollings]
    BY <1>1, <1>2, <1>3, IdleType
  <2> QED
    BY <1>0, <2>1, <2>2 DEF Init, TypeOK, Pollings
<1>5. Counted
  BY <1>1, <1>3 DEF Counted, Init
<1>6. ASSUME NEW p \in Pollers PROVE Place(poller[p])
  BY <1>0, <1>3, IdleType DEF Place, AtRow, Beyond
<1>7. ASSUME NEW t \in Moves PROVE Recorded(t)
  BY <1>2, <1>3 DEF Recorded, Started
<1> QED
  BY <1>4, <1>5, <1>6, <1>7 DEF TInv

\* TypeOK: the table, the cursor, the pollers and Bitrix keep their types.
THEOREM LostDealTypeCorrect == Spec => []TypeOK
<1>1. Spec => []TInv
  BY InitTyped, NextTyped, PTL DEF Spec
<1>2. TInv => TypeOK
  BY DEF TInv
<1> QED
  BY <1>1, <1>2, PTL
-----------------------------------------------------------------------------
(* No lost deal is missed.                                                 *)

LEMMA ProvenBefore ==
  ASSUME TInv, Around, NEW t \in 1..Len(moves), Proven(t)'
  PROVE  Proven(t)
<1>1. Len(moves) \in Nat /\ Len(moves') \in Nat /\ Len(moves) <= Len(moves')
  <2>1. Len(moves') \in Nat
    BY Numbers DEF Around, Proven, Latest
  <2> QED
    BY <2>1, Numbers DEF Around
<1>2. \A u \in 1..Len(moves) : moves'[u] = moves[u] /\ u \in 1..Len(moves')
  BY <1>1 DEF Around
<1>3. \A u \in (t + 1)..Len(moves) : moves[u].deal # moves[t].deal
  <2>1. \A u \in (t + 1)..Len(moves') : moves'[u].deal # moves'[t].deal
    BY DEF Proven, Latest
  <2>2. ASSUME NEW u \in (t + 1)..Len(moves) PROVE u \in (t + 1)..Len(moves') /\ u \in 1..Len(moves)
    BY <1>1
  <2> QED
    BY <1>2, <2>1, <2>2
<1> QED
  BY <1>1, <1>2, <1>3 DEF Proven, Latest, ToLost

LEMMA AroundMissesNothing ==
  ASSUME TInv, NInv, Around
  PROVE  NInv'
<1>1. UNCHANGED <<op, boundary>>
  BY DEF Around
<1>2. ASSUME NEW t \in Moves, t <= Len(moves), Proven(t)' PROVE Proven(t)
  BY <1>2, Numbers, ProvenBefore DEF Moves
<1>3. Decided'
  BY <1>1, <1>2, Numbers DEF NInv, Decided, Moves
<1>4. ASSUME NEW p \in Pollers PROVE Passed(poller[p])'
  <2>1. poller'[p].pc = poller[p].pc /\ poller'[p].row = poller[p].row /\ poller'[p].errors = poller[p].errors
    BY DEF Around
  <2>2. poller[p].pc \in AtRow \cup {"row"} => poller[p].row <= Len(moves) + 1
    BY Polling, Numbers DEF Place
  <2>3. ASSUME NEW t \in Moves, poller[p].pc \in AtRow \cup {"row"}, t < poller[p].row PROVE t <= Len(moves)
    BY <2>2, <2>3, Polling, Numbers DEF Moves
  <2> QED
    BY <1>1, <1>2, <2>1, <2>3 DEF NInv, Passed
<1> QED
  BY <1>3, <1>4 DEF NInv

LEMMA BoundaryMissesNothing ==
  ASSUME TInv, NInv, NEW p \in Pollers, Arm(p) \/ Advance(p)
  PROVE  NInv'
<1>0. /\ UNCHANGED <<op, moves>> /\ Rest(p) /\ poller[p].last \in 0..Len(moves)
      /\ poller[p].row \in 0..(MaxMoves + 1)
  BY Polling, Numbers DEF Arm, Advance, bitrix, Place
<1>1. poller' \in [Pollers -> Pollings] /\ Alone(p) /\ poller'[p] = Idle
  BY <1>0, Rests
<1>2. \A t \in Moves : Proven(t)' <=> Proven(t)
  BY <1>0 DEF Proven, Latest, ToLost
<1>3. CASE boundary' = boundary
  <2>1. Decided'
    BY <1>0, <1>2, <1>3 DEF NInv, Decided
  <2>2. ASSUME NEW q \in Pollers PROVE Passed(poller[q])'
    BY <1>0, <1>1, <1>2, <1>3, IdleType DEF NInv, Passed, Alone, AtRow
  <2> QED
    BY <2>1, <2>2 DEF NInv
<1>4. CASE Arm(p) /\ boundary = None
  <2> PICK n \in 0..Len(moves) : n = poller[p].last
    BY <1>0
  <2>1. boundary' = [baseline |-> n, scan |-> n]
    BY <1>4 DEF Arm, ArmedAs
  <2>2. Decided'
    BY <2>1 DEF Decided, Moves
  <2>3. ASSUME NEW q \in Pollers PROVE Passed(poller[q])'
    <3>1. poller'[q].pc \in {"idle", "arm"}
      BY <1>1, <1>4, IdleType, Polling DEF Alone, Place
    <3> QED
      BY <3>1 DEF Passed, AtRow
  <2> QED
    BY <2>2, <2>3 DEF NInv
<1>5. CASE Advance(p) /\ boundary' # boundary
  <2> PICK n \in 0..Len(moves) : n = poller[p].last
    BY <1>0
  <2>0. boundary # None /\ boundary \in [baseline : 0..Len(moves), scan : 0..Len(moves)]
    BY <1>5, Polling DEF Advance, Place, TInv, TypeOK
  <2>1. /\ boundary' = [boundary EXCEPT !.scan = n] /\ poller[p].pc = "row" /\ poller[p].row > n
        /\ ~poller[p].errors
    BY <1>5 DEF Advance, MayAdvance
  <2>2. boundary'.baseline = boundary.baseline /\ boundary'.scan = n
    BY <2>0, <2>1
  <2>3. \A t \in Moves : t > boundary.baseline /\ t < poller[p].row /\ Proven(t) => op[t].status \in Final
    BY <2>1 DEF NInv, Passed
  <2>4. ASSUME NEW t \in Moves, t <= n PROVE t < poller[p].row
    BY <1>0, <2>1, <2>4, Numbers DEF Moves
  <2>5. Decided'
    BY <1>0, <1>2, <2>2, <2>3, <2>4 DEF Decided
  <2>6. ASSUME NEW q \in Pollers PROVE Passed(poller[q])'
    BY <1>0, <1>1, <1>2, <2>2, IdleType DEF NInv, Passed, Alone, AtRow
  <2> QED
    BY <2>5, <2>6 DEF NInv
<1> QED
  BY <1>3, <1>4, <1>5 DEF Arm, ArmedAs

LEMMA PollerMissesNothing ==
  ASSUME TInv, NInv, NEW p \in Pollers, Quiet(p), Onward(p)
  PROVE  NInv'
<1>1. /\ UNCHANGED <<boundary, moves>> /\ Alone(p)
      /\ \A t \in Moves : op[t].status \in Final => op'[t].status \in Final
  BY DEF Quiet, bitrix, Forward
<1>2. \A t \in Moves : Proven(t)' <=> Proven(t)
  BY <1>1 DEF Proven, Latest, ToLost
<1>3. Decided'
  BY <1>1, <1>2 DEF NInv, Decided
<1>4. ASSUME NEW q \in Pollers \ {p} PROVE Passed(poller[q])'
  BY <1>1, <1>2 DEF NInv, Passed, Alone
<1>5. Passed(poller[p])'
  <2>0. poller[p].row \in Nat /\ \A t \in Moves : t \in Nat
    BY Polling, Numbers DEF Moves
  <2> SUFFICES ASSUME poller'[p].pc \in AtRow \cup {"row"}, ~poller'[p].errors,
                      NEW t \in Moves, t > boundary.baseline, t < poller'[p].row, Proven(t)
               PROVE  op'[t].status \in Final
    BY <1>1, <1>2 DEF Passed
  <2>1. CASE poller[p].pc = "page" /\ poller'[p].row = poller[p].row + 1
    <3>1. t <= boundary.scan /\ boundary # None
      BY <2>0, <2>1, Polling, Numbers DEF Place
    <3> QED
      BY <1>1, <3>1 DEF NInv, Decided
  <2>2. CASE /\ poller[p].pc \in AtRow \cup {"row"} /\ ~poller[p].errors
             /\ poller'[p].row = poller[p].row
    BY <1>1, <2>2 DEF NInv, Passed
  <2>3. CASE /\ poller[p].pc \in AtRow \cup {"row"} /\ ~poller[p].errors
             /\ poller'[p].row = poller[p].row + 1 /\ poller[p].row \in Moves
             /\ poller[p].row > boundary.baseline /\ Proven(poller[p].row) =>
                  op'[poller[p].row].status \in Final
    <3>1. t = poller[p].row \/ t < poller[p].row
      BY <2>0, <2>3
    <3> QED
      BY <1>1, <2>3, <3>1 DEF NInv, Passed
  <2> QED
    BY <2>1, <2>2, <2>3 DEF Onward
<1> QED
  BY <1>3, <1>4, <1>5 DEF NInv

LEMMA NextMissesNothing ==
  ASSUME TInv, NInv, [Next]_vars
  PROVE  NInv'
<1>1. ASSUME NEW p \in Pollers, Step(p) \/ Crash(p) PROVE NInv'
  BY <1>1, BoundaryMissesNothing, StepTyped, PollerMissesNothing
<1>2. ASSUME NEW t \in Moves, Apply(t) PROVE NInv'
  BY <1>2, ApplyTyped, AroundMissesNothing
<1>3. ASSUME NEW d \in Deals, Move(d) \/ Message(d) \/ EndChat(d) \/ Refit(d) PROVE NInv'
  BY <1>3, MoveTyped, DialogTyped, AroundMissesNothing
<1>4. CASE UNCHANGED vars \/ \E t \in Moves : Lapse(t)
  <2>1. UNCHANGED <<op, moves, boundary, poller>>
    BY <1>4 DEF vars, bitrix, Lapse
  <2> QED
    BY <2>1 DEF NInv, Decided, Passed, Proven, Latest, ToLost
<1> QED
  BY <1>1, <1>2, <1>3, <1>4 DEF Next

LEMMA NothingIsMissed ==
  ASSUME TInv, NInv
  PROVE  NothingMissed
BY DEF TInv, Recorded, NInv, Decided, NothingMissed

\* NothingMissed: a row that failed, a row within its grace period and a row
\* that another poller holds keep the cursor where it is, so that it never
\* passes a deal still to be decided, whatever crashes and lapsed leases do;
\* and what was lost before the first poll gets no operation.
THEOREM NoLossMissed == Spec => []NothingMissed
<1>1. Init => TInv /\ NInv
  BY InitTyped, IdleType DEF Init, NInv, Decided, Passed, AtRow
<1>2. TInv /\ NInv /\ [Next]_vars => TInv' /\ NInv'
  BY NextTyped, NextMissesNothing
<1>3. TInv /\ NInv => NothingMissed
  BY NothingIsMissed
<1> QED
  BY <1>1, <1>2, <1>3, PTL DEF Spec
-----------------------------------------------------------------------------
(* A finish is justified.                                                  *)

WatchedAt == {"first", "again", "final", "dispatch", "finish"}

\* The dialog is the same but for its end.
Fades(c, new) == new.said = c.said /\ new.edition = c.edition /\ (new.open => c.open)

LEMMA WatchedRow ==
  ASSUME TInv, NEW p \in Pollers, poller[p].pc \in WatchedAt
  PROVE  /\ poller[p].row \in Moves /\ poller[p].row \in 1..Len(moves)
         /\ moves[poller[p].row].deal \in Deals
         /\ DealChat(poller[p].row) \in Chats /\ DealChat(poller[p].row) = chat[moves[poller[p].row].deal]
         /\ poller[p].pc \in {"again", "final", "dispatch"} => poller[p].snap \in Chats
<1>1. poller[p].pc \in AtRow
  BY DEF WatchedAt, AtRow
<1>2. poller[p].row \in Moves /\ poller[p].row \in 1..Len(moves)
  BY <1>1, AtRowMove, Numbers DEF Moves
<1>3. moves[poller[p].row].deal \in Deals
  BY <1>2, RowDeal
<1> QED
  BY <1>2, <1>3, Polling DEF DealChat, TInv, TypeOK, Place

LEMMA StaysWatched ==
  ASSUME TInv, HInv, Around, NEW p \in Pollers, NEW t, t = poller[p].row,
         \A d \in Deals : Fades(chat[d], chat'[d]),
         poller'[p].hindered =>
           \/ poller[p].hindered
           \/ poller[p].pc \in {"first", "again"} /\ ~Proven(t)'
           \/ poller[p].pc \in {"again", "final"} /\ DealChat(t).open /\ ~DealChat(t)'.open
  PROVE  Watched(poller[p])'
<1>1. /\ poller'[p].pc = poller[p].pc /\ poller'[p].row = t /\ poller'[p].snap = poller[p].snap
  BY DEF Around
<1>2. CASE poller[p].pc \notin WatchedAt
  BY <1>1, <1>2 DEF Watched, WatchedAt
<1>3. CASE poller[p].pc \in WatchedAt
  <2>1. /\ t \in 1..Len(moves) /\ moves'[t] = moves[t] /\ moves[t].deal \in Deals
        /\ DealChat(t) \in Chats /\ DealChat(t)' = chat'[moves[t].deal]
    BY <1>3, WatchedRow DEF Around, DealChat
  <2>2. Fades(DealChat(t), DealChat(t)')
    BY <2>1 DEF DealChat
  <2>3. Proven(t)' => Proven(t)
    BY <2>1, ProvenBefore
  <2>4. /\ DealChat(t).edition \in Nat /\ DealChat(t).said \in Nat
        /\ poller[p].pc \in {"again", "final"} => poller[p].snap.edition \in Nat
    BY <1>3, <2>1, WatchedRow, ChatNumbers
  <2>5. Watched(poller[p])
    BY DEF HInv
  <2>6. CASE poller[p].pc = "first"
    BY <1>1, <2>2, <2>3, <2>5, <2>6 DEF Watched, Fades
  <2>7. CASE poller[p].pc \in {"again", "final"}
    BY <1>1, <2>2, <2>3, <2>4, <2>5, <2>7 DEF Watched, Fades, Gone
  <2>8. CASE poller[p].pc \in {"dispatch", "finish"}
    BY <1>1, <2>5, <2>8 DEF Watched
  <2> QED
    BY <1>3, <2>6, <2>7, <2>8 DEF WatchedAt
<1> QED
  BY <1>2, <1>3

LEMMA MoveWatched ==
  ASSUME TInv, HInv, NEW d \in Deals, Move(d)
  PROVE  HInv'
<1>1. Around
  BY MoveTyped
<1>2. ASSUME NEW e \in Deals PROVE Fades(chat[e], chat'[e])
  <2>1. chat[e] \in Chats /\ chat \in [Deals -> Chats]
    BY DEF TInv, TypeOK
  <2>2. CASE UNCHANGED chat
    BY <2>2 DEF Fades
  <2>3. CASE chat' = [chat EXCEPT ![d].listed = FALSE, ![d].dropped = Len(moves) + 1]
    <3>1. e # d => chat'[e] = chat[e]
      BY <2>1, <2>3
    <3>2. e = d => chat'[e] = [chat[e] EXCEPT !.listed = FALSE, !.dropped = Len(moves) + 1]
      BY <2>1, <2>3
    <3> QED
      BY <2>1, <3>1, <3>2 DEF Fades, Chats
  <2> QED
    BY <2>2, <2>3 DEF Move
<1>3. PICK m : moves' = Append(moves, m) /\ m.deal = d
  BY DEF Move
<1>4. Len(moves') = Len(moves) + 1 /\ moves'[Len(moves) + 1] = m /\ Len(moves) \in Nat
  <2> DEFINE R == [deal : Deals, from : {"P", "F"}, to : {"P", "F"}]
  <2>1. moves \in Seq(R)
    BY DEF TInv, TypeOK
  <2> HIDE DEF R
  <2> QED
    BY <1>3, <2>1
<1>5. ASSUME NEW p \in Pollers PROVE Watched(poller[p])'
  <2> PICK t : t = poller[p].row
    OBVIOUS
  <2>1. poller'[p].hindered => poller[p].hindered \/ (poller[p].pc \in {"first", "again"} /\ moves[t].deal = d)
    BY DEF Move, Hinder
  <2>2. poller[p].pc \in {"first", "again"} => t \in 1..Len(moves)
    BY WatchedRow DEF WatchedAt
  <2>3. poller[p].pc \in {"first", "again"} /\ moves[t].deal = d => ~Proven(t)'
    <3> SUFFICES ASSUME t \in 1..Len(moves), moves[t].deal = d PROVE ~Latest(t)'
      BY <2>2 DEF Proven
    <3>1. moves'[t] = moves[t]
      BY <1>1 DEF Around
    <3>2. Len(moves) + 1 \in (t + 1)..Len(moves')
      BY <1>4
    <3> QED
      BY <1>3, <1>4, <3>1, <3>2 DEF Latest
  <2> QED
    BY <1>1, <1>2, <2>1, <2>3, StaysWatched
<1> QED
  BY <1>5 DEF HInv

LEMMA MessageWatched ==
  ASSUME TInv, HInv, NEW d \in Deals, Message(d)
  PROVE  HInv'
<1>1. Around
  BY DialogTyped
<1>2. /\ edits < MaxEdits /\ chat' = [chat EXCEPT ![d] = Spoken(d)] /\ UNCHANGED moves
      /\ Hinder(d, {"first", "again", "final"})
  BY DEF Message, Edit, Spoken
<1>3. /\ chat'[d].said = Len(moves) /\ chat'[d].edition = chat[d].edition + 1
      /\ \A e \in Deals \ {d} : chat'[e] = chat[e]
  BY <1>2, SpokenType DEF TInv, TypeOK
<1>4. ASSUME NEW p \in Pollers PROVE Watched(poller[p])'
  <2> PICK t : t = poller[p].row
    OBVIOUS
  <2>0. /\ poller'[p].pc = poller[p].pc /\ poller'[p].row = t /\ poller'[p].snap = poller[p].snap
        /\ Watched(poller[p])
    BY <1>1 DEF Around, HInv
  <2>1. CASE poller[p].pc \notin WatchedAt
    BY <2>0, <2>1 DEF Watched, WatchedAt
  <2>2. CASE poller[p].pc \in WatchedAt
    <3>1. /\ t \in 1..Len(moves) /\ moves[t].deal \in Deals
          /\ DealChat(t) = chat[moves[t].deal] /\ DealChat(t)' = chat'[moves[t].deal]
          /\ DealChat(t) \in Chats
      BY <1>2, <2>2, WatchedRow DEF DealChat
    <3>2. /\ Len(moves) \in Nat /\ t <= Len(moves)
          /\ DealChat(t).edition \in Nat
          /\ poller[p].pc \in {"again", "final"} => poller[p].snap.edition \in Nat
      BY <2>2, <3>1, Numbers, WatchedRow, ChatNumbers
    <3>3. poller[p].pc \in {"dispatch", "finish"} \/ moves[t].deal # d => poller'[p].hindered = poller[p].hindered
      BY <1>2 DEF Hinder
    <3>4. CASE moves[t].deal = d
      <4>1. DealChat(t)'.said = Len(moves) /\ DealChat(t)'.edition = DealChat(t).edition + 1
        BY <1>3, <3>1, <3>4
      <4>2. poller[p].pc \in {"again", "final"} => DealChat(t).edition >= poller[p].snap.edition
        BY <2>0 DEF Watched
      <4>3. DealChat(t)'.said >= t
        BY <3>1, <3>2, <4>1
      <4>4. CASE poller[p].pc \in {"again", "final"}
        <5>1. /\ DealChat(t)'.edition > poller[p].snap.edition
              /\ DealChat(t)'.edition >= poller[p].snap.edition
              /\ DealChat(t)'.edition # poller[p].snap.edition
          <6>1. DealChat(t).edition \in Nat /\ poller[p].snap.edition \in Nat
            BY <3>2, <4>4
          <6>2. DealChat(t).edition >= poller[p].snap.edition
            BY <4>2, <4>4
          <6> QED
            BY <4>1, <6>1, <6>2
        <5> QED
          BY <2>0, <4>4, <5>1 DEF Watched, Gone
      <4>5. CASE poller[p].pc \notin {"again", "final"}
        BY <2>0, <3>3, <4>3, <4>5 DEF Watched
      <4> QED
        BY <4>4, <4>5
    <3>5. CASE moves[t].deal # d
      BY <1>2, <1>3, <2>0, <3>1, <3>3, <3>5 DEF Watched, Proven, Latest, ToLost
    <3> QED
      BY <3>4, <3>5
  <2> QED
    BY <2>1, <2>2
<1> QED
  BY <1>4 DEF HInv

LEMMA EndWatched ==
  ASSUME TInv, HInv, NEW d \in Deals, EndChat(d)
  PROVE  HInv'
<1>1. Around
  BY DialogTyped
<1>2. /\ chat[d].open /\ chat' = [chat EXCEPT ![d] = Ended(chat[d])] /\ UNCHANGED moves
      /\ Hinder(d, {"again", "final"})
  BY DEF EndChat, Edit
<1>3. chat[d] \in Chats /\ chat \in [Deals -> Chats]
  BY DEF TInv, TypeOK
<1>4. Fades(chat[d], chat'[d]) /\ ~chat'[d].open
  BY <1>2, <1>3, EndedType DEF Fades
<1>5. \A e \in Deals : Fades(chat[e], chat'[e])
  BY <1>2, <1>3, <1>4 DEF Fades
<1>6. ASSUME NEW p \in Pollers PROVE Watched(poller[p])'
  <2> PICK t : t = poller[p].row
    OBVIOUS
  <2>1. poller'[p].hindered => poller[p].hindered \/ (poller[p].pc \in {"again", "final"} /\ moves[t].deal = d)
    BY <1>2 DEF Hinder
  <2>2. moves[t].deal = d => DealChat(t).open /\ ~DealChat(t)'.open
    BY <1>2, <1>4 DEF DealChat
  <2> QED
    BY <1>1, <1>5, <2>1, <2>2, StaysWatched
<1> QED
  BY <1>6 DEF HInv

LEMMA OthersWatched ==
  ASSUME TInv, HInv, (\E d \in Deals : Refit(d)) \/ (\E t \in Moves : Apply(t))
  PROVE  HInv'
<1>1. Around /\ UNCHANGED poller
  BY DialogTyped, ApplyTyped DEF Refit, Apply
<1>2. ASSUME NEW e \in Deals PROVE Fades(chat[e], chat'[e])
  <2>1. chat[e] \in Chats /\ chat \in [Deals -> Chats]
    BY DEF TInv, TypeOK
  <2>2. chat'[e] \in {chat[e], Ended(chat[e]), [chat[e] EXCEPT !.fit = ~@]}
    BY <2>1 DEF Refit, Edit, Apply
  <2>3. CASE chat'[e] = Ended(chat[e])
    BY <2>1, <2>3, EndedType DEF Fades
  <2>4. CASE chat'[e] = [chat[e] EXCEPT !.fit = ~@]
    BY <2>1, <2>4 DEF Fades, Chats
  <2> QED
    BY <2>2, <2>3, <2>4 DEF Fades
<1>3. ASSUME NEW p \in Pollers PROVE Watched(poller[p])'
  BY <1>1, <1>2, StaysWatched
<1> QED
  BY <1>3 DEF HInv

\* A step of a poller leaves what the others watch as it was.
LEMMA AloneWatched ==
  ASSUME TInv, HInv, NEW p \in Pollers, UNCHANGED <<moves, chat>>, Alone(p), Watched(poller[p])'
  PROVE  HInv'
<1>1. ASSUME NEW q \in Pollers \ {p} PROVE Watched(poller[q])'
  BY DEF HInv, Alone, Watched, DealChat, Proven, Latest, ToLost
<1> QED
  BY <1>1 DEF HInv

LEMMA ClaimWatched ==
  ASSUME TInv, HInv, NEW p \in Pollers, Claim(p)
  PROVE  Watched(poller[p])'
<1>0. UNCHANGED <<moves, chat>> /\ poller[p].pc \in AtRow
  BY DEF Claim, bitrix, AtRow
<1> PICK t \in Moves : t = poller[p].row
  BY <1>0, AtRowMove
<1>1. CASE Free(t)
  <2> PICK hindered \in BOOLEAN : hindered = (~Proven(t) \/ DealChat(t).said >= t)
    BY Zenon
  <2>1. poller' = [poller EXCEPT ![p].pc = "first", ![p].hindered = hindered]
    <3>1. poller' = [poller EXCEPT ![p].pc = "first", ![p].hindered = ~Proven(t) \/ DealChat(t).said >= t]
      BY <1>1 DEF Claim
    <3> QED
      BY <3>1, Zenon
  <2> DEFINE r == [poller[p] EXCEPT !.pc = "first", !.hindered = hindered]
  <2>2. poller' = [poller EXCEPT ![p] = r]
    BY <2>1 DEF TInv, TypeOK
  <2>3. r \in Pollings /\ r.pc = "first" /\ r.row = t /\ r.hindered = hindered
    BY Polling DEF Pollings, PCs
  <2>4. poller'[p].pc = "first" /\ poller'[p].row = t /\ poller'[p].hindered = hindered
    BY <2>2, <2>3, Replaced
  <2>5. hindered => ~Proven(t)' \/ DealChat(t)'.said >= t
    BY <1>0 DEF Proven, Latest, ToLost, DealChat
  <2> QED
    BY <2>4, <2>5 DEF Watched
<1>2. CASE ~Free(t)
  <2>1. poller'[p].pc = "row"
    <3> PICK errors \in BOOLEAN : errors = (op[t].status \notin Final)
      OBVIOUS
    <3>1. NextRow(p, errors) /\ poller[p].row <= MaxMoves
      BY <1>2 DEF Claim, Moves
    <3> QED
      BY <3>1, GoesOn
  <2> QED
    BY <2>1 DEF Watched
<1> QED
  BY <1>1, <1>2

LEMMA ChecksWatched ==
  ASSUME TInv, HInv, NEW p \in Pollers, First(p) \/ Again(p) \/ LookAgain(p)
  PROVE  Watched(poller[p])'
<1>0. /\ UNCHANGED <<moves, chat, bitrix, boundary, inflight, requests>> /\ poller[p].pc \in WatchedAt
      /\ poller[p].pc \in AtRow
  BY DEF First, Again, LookAgain, bitrix, AtRow, WatchedAt
<1> PICK t \in Moves : t = poller[p].row
  BY <1>0, AtRowMove
<1>1. /\ DealChat(t) \in Chats /\ DealChat(t)' = DealChat(t)
      /\ DealChat(t).edition \in Nat /\ DealChat(t).said \in Nat
      /\ Proven(t)' <=> Proven(t)
  BY <1>0, WatchedRow, ChatNumbers DEF DealChat, Proven, Latest, ToLost
<1>2. Watched(poller[p])
  BY DEF HInv
<1>3. CASE Skip(p) \/ ReadFails(p)
  <2>1. poller'[p].pc = "row"
    BY <1>0, <1>3, SkipTyped
  <2> QED
    BY <2>1 DEF Watched
<1>4. CASE /\ First(p) /\ MayFinish(DealChat(t), t)
           /\ poller' = [poller EXCEPT ![p].pc = "again", ![p].snap = DealChat(t)]
  <2> PICK c \in Chats : c = DealChat(t)
    BY <1>1
  <2> DEFINE r == [poller[p] EXCEPT !.pc = "again", !.snap = c]
  <2>1. poller' = [poller EXCEPT ![p] = r]
    BY <1>4 DEF TInv, TypeOK
  <2>2. r \in Pollings /\ r.pc = "again" /\ r.row = t /\ r.hindered = poller[p].hindered /\ r.snap = c
    BY Polling DEF Pollings, PCs
  <2>3. /\ poller'[p].pc = "again" /\ poller'[p].row = t /\ poller'[p].hindered = poller[p].hindered
        /\ poller'[p].snap = c
    BY <2>1, <2>2, Replaced
  <2>4. poller[p].hindered => ~Proven(t)
    <3>1. poller[p].pc = "first" /\ DealChat(t).said < t /\ t \in Nat
      BY <1>4 DEF First, MayFinish, Moves
    <3>2. ~(DealChat(t).said >= t)
      BY <1>1, <3>1
    <3> QED
      BY <1>2, <3>1, <3>2 DEF Watched
  <2> QED
    BY <1>1, <2>3, <2>4 DEF Watched
<1>5. CASE Again(p) /\ StillProven(t) /\ Goto(p, "final")
  <2>1. /\ poller'[p].pc = "final" /\ poller'[p].row = t /\ poller'[p].hindered = poller[p].hindered
        /\ poller'[p].snap = poller[p].snap
    BY <1>5, Goes DEF PCs
  <2>2. poller[p].pc = "again" /\ Proven(t)
    BY <1>5 DEF Again, StillProven
  <2> QED
    BY <1>1, <1>2, <2>1, <2>2 DEF Watched
<1>6. CASE LookAgain(p) /\ Unchanged(DealChat(t), poller[p].snap) /\ Goto(p, "dispatch")
  <2>1. poller'[p].pc = "dispatch" /\ poller'[p].hindered = poller[p].hindered
    BY <1>6, Goes DEF PCs
  <2>2. poller[p].pc = "final" /\ poller[p].snap = DealChat(t)
    BY <1>6 DEF LookAgain, Unchanged
  <2>3. ~Gone(DealChat(t), poller[p].snap)
    BY <1>1, <2>2 DEF Gone
  <2> QED
    BY <1>2, <2>1, <2>2, <2>3 DEF Watched
<1> QED
  BY <1>3, <1>4, <1>5, <1>6 DEF First, Again, LookAgain

\* The other steps leave the watched part of the way.
LEMMA Leaves ==
  ASSUME TInv, NEW p \in Pollers, Step(p) \/ Crash(p),
         ~Claim(p), ~First(p), ~Again(p), ~LookAgain(p), ~Dispatch(p)
  PROVE  poller'[p].pc \notin WatchedAt
<1>1. poller[p] \in Pollings /\ poller \in [Pollers -> Pollings]
  BY Polling DEF TInv, TypeOK, Pollings
<1>2. CASE Start(p) \/ Poll(p) \/ Arm(p) \/ Reconcile(p) \/ Page(p) \/ Advance(p) \/ Crash(p)
  <2>1. CASE Rest(p)
    BY <2>1, Rests, IdleType DEF WatchedAt
  <2>2. CASE Start(p)
    BY <1>1, <2>2 DEF Start, Idle, WatchedAt
  <2>3. CASE Poll(p)
    BY <1>1, <2>3 DEF Poll, Idle, WatchedAt
  <2>4. CASE Reconcile(p)
    BY <1>1, <2>4 DEF Reconcile, Pollings, WatchedAt
  <2>5. CASE Page(p) /\ poller' = [poller EXCEPT ![p].pc = "row", ![p].row = @ + 1, ![p].last = Len(moves)]
    BY <1>1, <2>5 DEF Pollings, WatchedAt
  <2> QED
    BY <1>2, <2>1, <2>2, <2>3, <2>4, <2>5 DEF Arm, Page, Advance, Crash
<1>3. ASSUME NEW errors, NextRow(p, errors) PROVE poller'[p].pc = "row"
  BY <1>1, <1>3 DEF NextRow, Pollings
<1>4. ASSUME NEW status, Settle(p, status) PROVE poller'[p].pc = "row"
  BY <1>3, <1>4 DEF Settle
<1>5. CASE Row(p) \/ Prove(p) \/ Finish(p) \/ Answer(p) \/ Confirm(p) \/ Uncertain(p) \/ Recheck(p)
  <2>1. ASSUME NEW pc, Goto(p, pc) PROVE poller'[p].pc = pc
    BY <1>1, <2>1 DEF Goto, Pollings
  <2>2. CASE Row(p) \/ Prove(p)
    BY <1>3, <2>1, <2>2 DEF Row, Prove, WatchedAt
  <2>3. CASE Finish(p)
    BY <2>1, <2>3 DEF Finish, WatchedAt
  <2>4. CASE Answer(p)
    BY <1>1, <2>1, <2>4 DEF Answer, Pollings, WatchedAt
  <2>5. CASE Confirm(p)
    BY <1>4, <2>5, Zenon DEF Confirm, WatchedAt
  <2>6. CASE Uncertain(p)
    BY <1>4, <2>1, <2>6 DEF Uncertain, WatchedAt
  <2>7. CASE Recheck(p)
    BY <1>3, <2>7 DEF Recheck, WatchedAt
  <2> QED
    BY <1>5, <2>2, <2>3, <2>4, <2>5, <2>6, <2>7
<1> QED
  BY <1>2, <1>5 DEF Step

LEMMA RestWatched ==
  ASSUME TInv, HInv, NEW p \in Pollers, Step(p) \/ Crash(p),
         ~Claim(p), ~First(p), ~Again(p), ~LookAgain(p)
  PROVE  Watched(poller[p])'
<1>1. CASE Dispatch(p)
  <2>1. Watched(poller[p]) /\ poller[p].pc = "dispatch"
    BY <1>1 DEF HInv, Dispatch
  <2>2. poller'[p].pc = "row" \/ (poller'[p].pc = "finish" /\ poller'[p].hindered = poller[p].hindered)
    BY <1>1, DispatchTyped
  <2> QED
    BY <2>1, <2>2 DEF Watched
<1>2. CASE ~Dispatch(p)
  BY <1>2, Leaves DEF Watched, WatchedAt
<1> QED
  BY <1>1, <1>2

LEMMA NextWatched ==
  ASSUME TInv, HInv, [Next]_vars
  PROVE  HInv'
<1>1. ASSUME NEW p \in Pollers, Step(p) \/ Crash(p) PROVE HInv'
  <2>1. UNCHANGED <<moves, chat>>
    BY <1>1 DEF Step, Crash, Start, Arm, Poll, Reconcile, Page, Advance, Row, Prove, Claim, First, Again,
             LookAgain, Dispatch, Finish, Answer, Confirm, Uncertain, Recheck, bitrix
  <2>2. Alone(p)
    <3>1. CASE Arm(p) \/ Advance(p)
      BY <3>1, Rests DEF Arm, Advance
    <3>2. CASE ~Arm(p) /\ ~Advance(p)
      BY <1>1, <3>2, StepTyped DEF Quiet
    <3> QED
      BY <3>1, <3>2
  <2>3. Watched(poller[p])'
    BY <1>1, ClaimWatched, ChecksWatched, RestWatched
  <2> QED
    BY <2>1, <2>2, <2>3, AloneWatched
<1>2. ASSUME NEW d \in Deals, Move(d) \/ Message(d) \/ EndChat(d) PROVE HInv'
  BY <1>2, MoveWatched, MessageWatched, EndWatched
<1>3. CASE UNCHANGED vars \/ \E t \in Moves : Lapse(t)
  <2>1. UNCHANGED <<moves, chat, poller>>
    BY <1>3 DEF vars, bitrix, Lapse
  <2> QED
    BY <2>1 DEF HInv, Watched, DealChat, Proven, Latest, ToLost
<1> QED
  BY <1>1, <1>2, <1>3, OthersWatched DEF Next

\* Justified: what a poller proves before it sends the finish is still so, or
\* has been looked at again, when it crosses the boundary: the two proofs and
\* the two looks leave no time between them in which a move, a message, an end
\* or a new session could hide.
THEOREM FinishJustified == Spec => []Justified
<1>1. Init => TInv /\ HInv
  BY InitTyped, IdleType DEF Init, HInv, Watched
<1>2. TInv /\ HInv /\ [Next]_vars => TInv' /\ HInv'
  BY NextTyped, NextWatched
<1>3. HInv => Justified
  BY DEF HInv, Watched, Justified
<1> QED
  BY <1>1, <1>2, <1>3, PTL DEF Spec
-----------------------------------------------------------------------------
(* The auto-close implements ChatFinish.                                   *)

Fates == [t \in Moves |-> Fate(op[t].status)]
Ends == [t \in Moves |-> SessionEnded(t)]

LEMMA FateOf ==
  /\ \A status \in {"none", "checking", "retryable"} : Fate(status) = "open"
  /\ \A status \in {"skipped", "dry_run"} : Fate(status) = "refused"
  /\ Fate("dispatching") = "started" /\ Fate("uncertain") = "uncertain" /\ Fate("closed") = "closed"
BY DEF Fate

LEMMA StartedFate ==
  ASSUME TInv, NEW t \in Moves
  PROVE  op[t].status \in Started <=> Fate(op[t].status) \notin {"open", "refused"}
<1>1. op[t].status \in Statuses
  BY DEF TInv, TypeOK, Ops
<1> QED
  BY <1>1, FateOf DEF Statuses, Started

\* The session of an operation stays what it is.
LEMMA SameSessions ==
  ASSUME UNCHANGED <<moves, chat>>, NEW t \in Moves, op'[t].session = op[t].session
  PROVE  SessionEnded(t)' <=> SessionEnded(t)
BY DEF SessionEnded, DealChat

LEMMA Recast ==
  ASSUME TInv, UNCHANGED <<moves, chat>>, NEW t \in Moves, NEW status, Becomes(t, status)
  PROVE  Ends' = Ends /\ Fates' = [Fates EXCEPT ![t] = Fate(status)]
<1>1. \A u \in Moves : op'[u].session = op[u].session
  BY DEF Becomes
<1>2. Ends' = Ends
  <2>1. \A u \in Moves : SessionEnded(u)' <=> SessionEnded(u)
    BY <1>1, SameSessions
  <2>2. \A u \in Moves : SessionEnded(u)' = SessionEnded(u)
    BY <2>1 DEF SessionEnded
  <2> QED
    BY <2>2, Zenon DEF Ends
<1>3. \A u \in Moves : op'[u].status = IF u = t THEN status ELSE op[u].status
  BY DEF Becomes
<1> QED
  BY <1>2, <1>3 DEF Fates

LEMMA DecidesPromised ==
  ASSUME TInv, UNCHANGED <<moves, chat, requests>>, Decides
  PROVE  Promised!Next \/ UNCHANGED <<Fates, requests, Ends>>
<1>1. CASE op' = op
  BY <1>1, Zenon DEF Fates, Ends, SessionEnded, DealChat
<1>2. ASSUME NEW t \in Moves, NEW status \in {"checking", "retryable"}, Becomes(t, status),
             op[t].status \in {"none", "checking", "retryable"}
      PROVE  UNCHANGED <<Fates, requests, Ends>>
  <2>1. Fates' = [Fates EXCEPT ![t] = Fate(op[t].status)] /\ Ends' = Ends
    BY <1>2, Recast, FateOf
  <2> QED
    BY <2>1 DEF Fates
<1>3. ASSUME NEW t \in Moves, NEW status \in {"skipped", "dry_run"}, Becomes(t, status),
             op[t].status = "checking"
      PROVE  Promised!Refuse(t)
  <2>1. Fates' = [Fates EXCEPT ![t] = "refused"] /\ Ends' = Ends /\ Fates[t] = "open"
    BY <1>3, Recast, FateOf DEF Fates
  <2> QED
    BY <2>1 DEF Promised!Refuse, Promised!Decide, Fates, Ends
<1>4. ASSUME NEW t \in Moves, Becomes(t, "uncertain"), op[t].status = "dispatching"
      PROVE  Promised!GiveUp(t)
  <2>1. Fates' = [Fates EXCEPT ![t] = "uncertain"] /\ Ends' = Ends /\ Fates[t] = "started"
    BY <1>4, Recast, FateOf DEF Fates
  <2> QED
    BY <2>1 DEF Promised!GiveUp, Promised!Decide, Fates, Ends
<1>5. ASSUME NEW t \in Moves, Becomes(t, "closed"), op[t].status \in {"dispatching", "uncertain"}, Inactive(t)
      PROVE  Promised!Confirm(t)
  <2>1. Fates' = [Fates EXCEPT ![t] = "closed"] /\ Ends' = Ends /\ Fates[t] \in {"started", "uncertain"}
    BY <1>5, Recast, FateOf DEF Fates
  <2>2. SessionEnded(t)
    BY <1>5 DEF SessionEnded, Inactive, TInv, Recorded, Started
  <2> QED
    BY <2>1, <2>2 DEF Promised!Confirm, Promised!Decide, Fates, Ends
<1> QED
  BY <1>1, <1>2, <1>3, <1>4, <1>5 DEF Decides, Promised!Next

LEMMA DispatchPromised ==
  ASSUME TInv, NEW p \in Pollers, Dispatch(p)
  PROVE  Promised!Next \/ UNCHANGED <<Fates, requests, Ends>>
<1>0. poller[p].pc \in AtRow /\ UNCHANGED <<moves, chat, requests>>
  BY DEF Dispatch, AtRow, bitrix
<1> PICK t \in Moves : t = poller[p].row
  BY <1>0, AtRowMove
<1>1. CASE op' = op \/ (Becomes(t, "dry_run") /\ op[t].status = "checking")
  <2>1. Decides
    BY <1>1 DEF Decides
  <2> QED
    BY <1>0, <2>1, DecidesPromised
<1>2. CASE /\ \A u \in Moves \ {t} : op'[u] = op[u]
           /\ op[t].status = "checking" /\ op'[t].status = "dispatching"
  <2>1. Fates' = [Fates EXCEPT ![t] = "started"] /\ Fates[t] = "open"
    BY <1>2, FateOf DEF Fates
  <2>2. ~SessionEnded(t)
    BY <1>2 DEF SessionEnded, TInv, Recorded, Started
  <2>3. \A u \in Moves \ {t} : SessionEnded(u)' = SessionEnded(u)
    BY <1>0, <1>2 DEF SessionEnded, DealChat
  <2>4. Ends' \in {Ends, [Ends EXCEPT ![t] = TRUE]}
    <3>1. CASE SessionEnded(t)'
      <4>1. \A u \in Moves : SessionEnded(u)' = IF u = t THEN TRUE ELSE Ends[u]
        BY <2>3, <3>1 DEF Ends, SessionEnded
      <4> QED
        BY <4>1, Zenon DEF Ends
    <3>2. CASE ~SessionEnded(t)'
      <4>1. \A u \in Moves : SessionEnded(u)' = SessionEnded(u)
        BY <2>2, <2>3, <3>2 DEF SessionEnded
      <4> QED
        BY <4>1, Zenon DEF Ends
    <3> QED
      BY <3>1, <3>2
  <2>5. Promised!Start(t)
    BY <1>0, <2>1, <2>4 DEF Promised!Start, Promised!Decide, Fates, Ends
  <2> QED
    BY <2>5 DEF Promised!Next
<1> QED
  BY <1>1, <1>2, DispatchTyped

LEMMA FinishPromised ==
  ASSUME TInv, OneRequest, NEW p \in Pollers, Finish(p)
  PROVE  Promised!Next
<1>0. poller[p].pc = "finish" /\ poller[p].pc \in AtRow /\ poller[p].pc \in Beyond
      /\ UNCHANGED <<moves, chat, op>>
  BY DEF Finish, AtRow, Beyond, bitrix
<1> PICK t \in Moves : t = poller[p].row
  BY <1>0, AtRowMove
<1>1. requests[t] = 0 /\ requests \in [Moves -> Nat] /\ requests' = [requests EXCEPT ![t] = @ + 1]
  BY <1>0 DEF OneRequest, TInv, TypeOK, Finish
<1>2. requests' = [requests EXCEPT ![t] = 1]
  BY <1>1
<1>3. op[t].status \in Started
  BY <1>0, Polling DEF Place
<1>4. Fates[t] \notin {"open", "refused"}
  BY <1>3, StartedFate DEF Fates
<1>5. UNCHANGED <<Fates, Ends>>
  BY <1>0, Zenon DEF Fates, Ends, SessionEnded, DealChat
<1>6. Promised!Request(t)
  BY <1>1, <1>2, <1>4, <1>5 DEF Promised!Request, Fates, Ends
<1> QED
  BY <1>6 DEF Promised!Next

\* Sessions only go forward, and an ended one stays ended.
Aging == \A d \in Deals : \/ chat[d].session < chat'[d].session
                          \/ chat[d].session = chat'[d].session /\ (~chat[d].open => ~chat'[d].open)

LEMMA AgingPromised ==
  ASSUME TInv, TInv', Around, Aging
  PROVE  Promised!Next
<1>0. UNCHANGED <<op, requests>>
  BY DEF Around
<1>1. ASSUME NEW t \in Moves, SessionEnded(t) PROVE SessionEnded(t)'
  <2>1. op[t].session # 0 /\ op[t].status \in Started /\ t <= Len(moves)
        /\ op[t].session <= DealChat(t).session
    BY <1>1 DEF SessionEnded, TInv, Recorded, Started
  <2>2. t \in 1..Len(moves)
    BY <2>1, Numbers DEF Moves
  <2>3. moves'[t] = moves[t] /\ moves[t].deal \in Deals
    BY <2>2, RowDeal DEF Around
  <2>4. chat[moves[t].deal] \in Chats /\ op[t] \in Ops /\ chat[moves[t].deal].session \in Nat
    BY <2>3, ChatNumbers DEF TInv, TypeOK
  <2>5. op[t].session \in Nat
    BY <2>4, Numbers DEF Ops
  <2>6. chat'[moves[t].deal].session \in Nat
    <3>1. chat'[moves[t].deal] \in Chats
      BY <2>3 DEF TInv, TypeOK
    <3> QED
      BY <3>1, ChatNumbers
  <2> QED
    BY <1>0, <1>1, <2>1, <2>3, <2>4, <2>5, <2>6 DEF SessionEnded, DealChat, Aging
<1> DEFINE S == {t \in Moves : SessionEnded(t)' /\ ~SessionEnded(t)}
<1>2. Ends' = [t \in Moves |-> t \in S \/ Ends[t]]
  <2>1. \A t \in Moves : SessionEnded(t)' <=> (t \in S \/ SessionEnded(t))
    BY <1>1
  <2>2. \A t \in Moves : SessionEnded(t)' = (t \in S \/ Ends[t])
    BY <2>1 DEF Ends, SessionEnded
  <2> QED
    BY <2>2, Zenon DEF Ends
<1>3. \A t \in S : Fates[t] \notin {"open", "refused"}
  <2>1. \A t \in S : op[t].session # 0
    BY <1>0 DEF SessionEnded
  <2>2. \A t \in S : op[t].status \in Started
    BY <2>1 DEF TInv, Recorded
  <2> QED
    BY <2>2, StartedFate DEF Fates
<1>4. Fates' = Fates
  BY <1>0 DEF Fates
<1>5. Promised!End(S)
  BY <1>0, <1>2, <1>3, <1>4, Zenon DEF Promised!End, Fates, Ends
<1> QED
  BY <1>5 DEF Promised!Next

LEMMA AroundAges ==
  ASSUME TInv, \/ \E d \in Deals : Move(d) \/ Message(d) \/ EndChat(d) \/ Refit(d)
               \/ \E t \in Moves : Apply(t)
  PROVE  Around /\ Aging
<1>0. chat \in [Deals -> Chats]
  BY DEF TInv, TypeOK
<1>1. ASSUME NEW d \in Deals, Move(d) PROVE Around /\ Aging
  <2>1. ASSUME NEW e \in Deals PROVE chat'[e].session = chat[e].session /\ chat'[e].open = chat[e].open
    <3>1. chat[e] \in Chats
      BY <1>0
    <3>2. CASE UNCHANGED chat
      BY <3>2
    <3>3. CASE chat' = [chat EXCEPT ![d].listed = FALSE, ![d].dropped = Len(moves) + 1]
      <4>1. chat'[e] \in {chat[e], [chat[e] EXCEPT !.listed = FALSE, !.dropped = Len(moves) + 1]}
        BY <1>0, <3>3
      <4> QED
        BY <3>1, <4>1 DEF Chats
    <3> QED
      BY <1>1, <3>2, <3>3 DEF Move
  <2> QED
    BY <1>1, <2>1, MoveTyped DEF Aging
<1>2. ASSUME NEW d \in Deals, Message(d) \/ EndChat(d) \/ Refit(d) PROVE Around /\ Aging
  <2>1. PICK c \in Chats : /\ Edit(d, c)
                           /\ chat[d].session < c.session \/ (chat[d].session = c.session
                                                              /\ (~chat[d].open => ~c.open))
    BY <1>2, DialogTyped
  <2>2. ASSUME NEW e \in Deals PROVE chat'[e] = IF e = d THEN c ELSE chat[e]
    BY <1>0, <2>1 DEF Edit
  <2> QED
    BY <1>2, <2>1, <2>2, DialogTyped DEF Aging
<1>3. ASSUME NEW t \in Moves, Apply(t) PROVE Around /\ Aging
  <2>1. ASSUME NEW e \in Deals
        PROVE  chat'[e].session = chat[e].session /\ (~chat[e].open => ~chat'[e].open)
    <3>1. chat'[e] \in {chat[e], Ended(chat[e])} /\ chat[e] \in Chats
      BY <1>0, <1>3 DEF Apply
    <3> QED
      BY <3>1, EndedType
  <2> QED
    BY <1>3, <2>1, ApplyTyped DEF Aging
<1> QED
  BY <1>1, <1>2, <1>3

LEMMA OneRequestKept ==
  ASSUME TInv, OneRequest, [Next]_vars
  PROVE  OneRequest'
<1>1. ASSUME NEW p \in Pollers, Step(p) \/ Crash(p), ~Finish(p), ~Dispatch(p) PROVE OneRequest'
  <2>1. requests' = requests /\ poller'[p].pc # "finish"
    <3>1. CASE Claim(p) \/ First(p) \/ Again(p) \/ LookAgain(p)
      <4>1. poller[p].pc \in AtRow /\ UNCHANGED <<requests, bitrix, boundary, inflight>>
        BY <3>1 DEF Claim, First, Again, LookAgain, AtRow
      <4>2. poller[p] \in Pollings /\ poller \in [Pollers -> Pollings]
        BY Polling DEF TInv, TypeOK, Pollings
      <4>3. ASSUME NEW errors, NextRow(p, errors) PROVE poller'[p].pc # "finish"
        BY <4>2, <4>3 DEF NextRow, Pollings
      <4>4. Skip(p) \/ ReadFails(p) => poller'[p].pc # "finish"
        BY <4>1, SkipTyped
      <4>5. Goto(p, "final") \/ Goto(p, "dispatch") => poller'[p].pc # "finish"
        BY <4>2 DEF Goto, Pollings
      <4>6. CASE Claim(p)
        BY <4>1, <4>6, ClaimTyped
      <4>7. CASE First(p)
        <5>1. ASSUME NEW c, poller' = [poller EXCEPT ![p].pc = "again", ![p].snap = c]
              PROVE  poller'[p].pc # "finish"
          BY <4>2, <5>1 DEF Pollings
        <5> QED
          BY <4>1, <4>4, <4>7, <5>1 DEF First
      <4> QED
        BY <3>1, <4>1, <4>4, <4>5, <4>6, <4>7 DEF Again, LookAgain
    <3>2. CASE ~Claim(p) /\ ~First(p) /\ ~Again(p) /\ ~LookAgain(p)
      <4>1. poller'[p].pc \notin WatchedAt
        BY <1>1, <3>2, Leaves
      <4>2. requests' = requests
        BY <1>1, <3>2 DEF Step, Crash, Start, Arm, Poll, Reconcile, Page, Advance, Row, Prove, Answer,
                          Confirm, Uncertain, Recheck
      <4> QED
        BY <4>1, <4>2 DEF WatchedAt
    <3> QED
      BY <3>1, <3>2
  <2>2. Alone(p) /\ \A t \in Moves : op[t].status \in Started => op'[t].status \in Started
    <3>1. CASE Arm(p) \/ Advance(p)
      BY <3>1, Rests DEF Arm, Advance
    <3>2. CASE ~Arm(p) /\ ~Advance(p)
      BY <1>1, <3>2, StepTyped DEF Quiet, Forward
    <3> QED
      BY <3>1, <3>2
  <2> QED
    BY <2>1, <2>2 DEF OneRequest, Alone
<1>2. ASSUME NEW p \in Pollers, Dispatch(p) PROVE OneRequest'
  <2>0. poller[p].pc \in AtRow /\ requests' = requests
    BY <1>2 DEF Dispatch, AtRow
  <2> PICK t \in Moves : t = poller[p].row
    BY <2>0, AtRowMove
  <2>1. Alone(p) /\ \A u \in Moves : op[u].status \in Started => op'[u].status \in Started
    BY <1>2, DispatchTyped DEF Quiet, Forward
  <2>2. CASE poller'[p].pc = "row"
    BY <2>0, <2>1, <2>2 DEF OneRequest, Alone
  <2>3. CASE poller'[p].pc = "finish" /\ poller'[p].row = t /\ op[t].status = "checking"
    <3>1. requests[t] = 0
      BY <2>3 DEF OneRequest, Started
    <3>2. ASSUME NEW q \in Pollers, poller[q].pc = "finish" PROVE poller[q].row # t
      BY <2>3, <3>2, Polling DEF Place, Beyond, Started
    <3> QED
      BY <2>0, <2>1, <2>3, <3>1, <3>2 DEF OneRequest, Alone
  <2> QED
    BY <1>2, <2>2, <2>3, DispatchTyped
<1>3. ASSUME NEW p \in Pollers, Finish(p) PROVE OneRequest'
  <2>0. poller[p].pc = "finish" /\ poller[p].pc \in AtRow /\ poller[p].pc \in Beyond /\ op' = op
    BY <1>3 DEF Finish, AtRow, Beyond
  <2> PICK t \in Moves : t = poller[p].row
    BY <2>0, AtRowMove
  <2>1. /\ requests[t] = 0 /\ requests \in [Moves -> Nat] /\ requests' = [requests EXCEPT ![t] = @ + 1]
        /\ op[t].status \in Started
    BY <1>3, <2>0, Polling DEF OneRequest, TInv, TypeOK, Finish, Place
  <2>2. requests'[t] = 1 /\ \A u \in Moves \ {t} : requests'[u] = requests[u]
    BY <2>1
  <2>3. Alone(p) /\ poller'[p].pc = "wait"
    BY <1>3, Goes DEF Finish, PCs
  <2>4. ASSUME NEW q \in Pollers, poller'[q].pc = "finish"
        PROVE  q # p /\ poller'[q] = poller[q] /\ poller[q].row # t /\ poller[q].row \in Moves
    <3>1. q # p /\ poller'[q] = poller[q]
      BY <2>3, <2>4 DEF Alone
    <3> QED
      BY <2>0, <2>4, <3>1, AtRowMove DEF OneRequest, AtRow
  <2> QED
    BY <2>0, <2>1, <2>2, <2>4 DEF OneRequest
<1>4. CASE \/ \E d \in Deals : Move(d) \/ Message(d) \/ EndChat(d) \/ Refit(d)
           \/ \E t \in Moves : Apply(t)
  BY <1>4, AroundAges DEF OneRequest, Around
<1>5. CASE UNCHANGED vars \/ \E t \in Moves : Lapse(t)
  <2>1. UNCHANGED <<op, poller, requests>>
    BY <1>5 DEF vars, Lapse
  <2> QED
    BY <2>1 DEF OneRequest
<1> QED
  BY <1>1, <1>2, <1>3, <1>4, <1>5 DEF Next

LEMMA NextPromised ==
  ASSUME TInv, TInv', OneRequest, [Next]_vars
  PROVE  [Promised!Next]_Promised!vars
<1> SUFFICES Promised!Next \/ UNCHANGED <<Fates, requests, Ends>>
  BY DEF Promised!vars, Fates, Ends
<1>1. ASSUME NEW p \in Pollers, Step(p) \/ Crash(p)
      PROVE  Promised!Next \/ UNCHANGED <<Fates, requests, Ends>>
  <2>1. CASE Finish(p)
    BY <2>1, FinishPromised
  <2>2. CASE Dispatch(p)
    BY <2>2, DispatchPromised
  <2>3. CASE ~Finish(p) /\ ~Dispatch(p)
    <3>1. UNCHANGED <<moves, chat, requests>>
      BY <1>1, <2>3 DEF Step, Crash, Start, Arm, Poll, Reconcile, Page, Advance, Row, Prove, Claim, First, Again,
               LookAgain, Answer, Confirm, Uncertain, Recheck, bitrix
    <3>2. Decides
      <4>1. CASE Arm(p) \/ Advance(p)
        BY <4>1 DEF Arm, Advance, Decides
      <4> QED
        BY <1>1, <2>3, <4>1, StepTyped
    <3> QED
      BY <3>1, <3>2, DecidesPromised
  <2> QED
    BY <2>1, <2>2, <2>3
<1>2. CASE \/ \E d \in Deals : Move(d) \/ Message(d) \/ EndChat(d) \/ Refit(d)
           \/ \E t \in Moves : Apply(t)
  BY <1>2, AroundAges, AgingPromised
<1>3. CASE UNCHANGED vars \/ \E t \in Moves : Lapse(t)
  <2>1. UNCHANGED <<op, moves, chat, requests>>
    BY <1>3 DEF vars, bitrix, Lapse
  <2> QED
    BY <2>1, Zenon DEF Fates, Ends, SessionEnded, DealChat
<1> QED
  BY <1>1, <1>2, <1>3 DEF Next

LEMMA InitPromised ==
  ASSUME Init
  PROVE  OneRequest /\ Promised!Init
<1>1. /\ op = [t \in Moves |-> NoOp] /\ requests = [t \in Moves |-> 0]
      /\ \A p \in Pollers : poller[p].pc = "idle"
  BY IdleType DEF Init
<1>2. NoOp.status = "none" /\ NoOp.session = 0
  BY DEF NoOp
<1>3. \A t \in Moves : Fate(op[t].status) = "open" /\ SessionEnded(t) = FALSE
  BY <1>1, <1>2, FateOf DEF SessionEnded
<1>4. OneRequest
  BY <1>1 DEF OneRequest
<1>5. Promised!Init
  BY <1>1, <1>3 DEF Promised!Init
<1> QED
  BY <1>4, <1>5

\* FinishPromise: the leases, the boundary, the reads and the list of unresolved
\* operations together implement ChatFinish, whatever two pollers, crashes and
\* late requests do: one request at most for each move, none after a refusal,
\* and "closed" only of a session that has ended.
THEOREM FinishPromiseKept == Spec => FinishPromise
<1>1. Init => TInv /\ OneRequest /\ Promised!Init
  BY InitTyped, InitPromised
<1>2. TInv /\ OneRequest /\ [Next]_vars => TInv' /\ OneRequest'
  BY NextTyped, OneRequestKept
<1>3. TInv /\ TInv' /\ OneRequest /\ [Next]_vars => [Promised!Next]_Promised!vars
  BY NextPromised
<1> QED
  BY <1>1, <1>2, <1>3, PTL DEF Spec, FinishPromise, Promised!Spec
=============================================================================
