--------------------------- MODULE LostDealClose ---------------------------
(***************************************************************************)
(* The worker of app.py that finishes the dialog of a deal which has moved *)
(* from an open or won stage to a lost one, and its table                  *)
(* lost_deal_close_operations.  A poller reads the rows of Bitrix's stage  *)
(* history after its cursor, proves each move, leases it, looks at the     *)
(* dialog before and after a second proof, crosses the dispatching         *)
(* boundary and asks Bitrix to finish the dialog.  Two instances of the    *)
(* service may poll at once, for example during a deployment.              *)
(*                                                                         *)
(* "P" stands for open and won stages, "F" for lost ones.  A snapshot of a *)
(* dialog is read twice and compared by the code, and is one step here.    *)
(***************************************************************************)
EXTENDS Integers, Sequences, FiniteSets

CONSTANTS Deals, Pollers,
          MaxAttempts,  \* LOST_DEAL_MAX_PREFLIGHT_ATTEMPTS
          MaxMoves,     \* bound: rows of the stage history
          MaxEdits,     \* bound: what clients and employees do to dialogs
          MaxFaults,    \* bound: crashes, failed or early reads, leases that end during the work
          None

ASSUME LostDealAssumption ==
  /\ MaxAttempts \in Nat \ {0}
  /\ {MaxMoves, MaxEdits, MaxFaults} \subseteq Nat
  /\ None \notin Pollers \cup [baseline : Nat, scan : Nat]

VARIABLES
  stage,     \* Bitrix: whether a deal is lost
  moves,     \* Bitrix: the stage history since the installation
  chat,      \* Bitrix: the dialog of each deal
  op,        \* lost_deal_close_operations by move
  lapsed,    \* moves whose lease_expires_at has passed
  boundary,  \* meta: baselineHistoryId and scanAfterHistoryId
  poller,    \* what each poller is doing
  inflight,  \* moves whose request may still be applied
  requests,  \* how often the dialog of a move was asked to be finished
  edits, faults

bitrix == <<stage, moves, chat, edits>>
vars == <<bitrix, op, lapsed, boundary, poller, inflight, requests, faults>>

Moves == 1..MaxMoves

\* open: a session is open; listed: it is among the active chats of the deal;
\* dropped: the move with which Bitrix took it from them; said: the last move
\* before the newest message; fit: it passes the checks of identity, binding
\* and uniqueness; edition: changes with every message and session
Chats == [open : BOOLEAN, listed : BOOLEAN, session : 1..(MaxEdits + 1), dropped : 0..MaxMoves,
          said : 0..MaxMoves, fit : BOOLEAN, edition : 0..MaxEdits]

Statuses == {"none", "checking", "retryable", "skipped", "dry_run",
             "dispatching", "uncertain", "closed"}

NoOp == [status |-> "none", attempts |-> 0, lease |-> None, session |-> 0, fallback |-> FALSE]
Ops == [status : Statuses, attempts : Nat, lease : Pollers \cup {None},
        session : 0..(MaxEdits + 1), fallback : BOOLEAN]

PCs == {"idle", "arm", "reconcile", "page", "row", "prove", "claim", "first", "again", "final",
        "dispatch", "finish", "wait", "confirm", "uncertain", "recheck"}

\* last: the last row of the poll; row: the row it is at, before: the cursor;
\* hindered: history, whether a hindrance arose that its checks could see
Idle == [pc |-> "idle", last |-> 0, row |-> 0, errors |-> FALSE, todo |-> {},
         snap |-> None, lost |-> FALSE, hindered |-> FALSE]

TypeOK ==
  /\ stage \in [Deals -> {"P", "F"}]
  /\ moves \in Seq([deal : Deals, from : {"P", "F"}, to : {"P", "F"}]) /\ Len(moves) <= MaxMoves
  /\ chat \in [Deals -> Chats]
  /\ op \in [Moves -> Ops]
  /\ lapsed \subseteq {t \in Moves : op[t].status = "checking"}
  /\ boundary \in {None} \cup {b \in [baseline : 0..Len(moves), scan : 0..Len(moves)] :
                                  b.baseline <= b.scan}
  /\ poller \in [Pollers -> [pc : PCs, last : 0..MaxMoves,
                             row : 0..(MaxMoves + 1), errors : BOOLEAN, todo : SUBSET Moves,
                             snap : Chats \cup {None}, lost : BOOLEAN, hindered : BOOLEAN]]
  /\ inflight \subseteq Moves
  /\ requests \in [Moves -> Nat]
  /\ edits \in 0..MaxEdits /\ faults \in 0..MaxFaults

Init ==
  /\ stage \in [Deals -> {"P", "F"}]
  /\ moves = <<>>
  /\ chat = [d \in Deals |-> [open |-> TRUE, listed |-> TRUE, session |-> 1, dropped |-> 0,
                              said |-> 0, fit |-> TRUE, edition |-> 0]]
  /\ op = [t \in Moves |-> NoOp]
  /\ lapsed = {}
  /\ boundary = None
  /\ poller = [p \in Pollers |-> Idle]
  /\ inflight = {}
  /\ requests = [t \in Moves |-> 0]
  /\ edits = 0 /\ faults = 0

Goto(p, pc) == poller' = [poller EXCEPT ![p].pc = pc]
Rest(p) == poller' = [poller EXCEPT ![p] = Idle]
NextRow(p, errors) ==
  poller' = [poller EXCEPT ![p].pc = "row", ![p].row = @ + 1, ![p].errors = @ \/ errors,
                           ![p].snap = None, ![p].lost = FALSE, ![p].hindered = FALSE]
Fault == faults < MaxFaults /\ faults' = faults + 1

Latest(t) == t <= Len(moves) /\ \A u \in (t + 1)..Len(moves) : moves[u].deal # moves[t].deal
ToLost(t) == moves[t].to = "F"
\* exact_failed_transition: the deal's last move took it to a lost stage
Proven(t) == Latest(t) /\ moves[t].from = "P" /\ ToLost(t)
DealChat(t) == chat[moves[t].deal]
-----------------------------------------------------------------------------
(* lost_deal_autoclose_loop: arm once, then poll.                          *)

\* the first poll remembers the newest row and does nothing else
Start(p) ==
  /\ poller[p].pc = "idle" /\ boundary = None
  /\ poller' = [poller EXCEPT ![p] = [Idle EXCEPT !.pc = "arm", !.last = Len(moves)]]
  /\ UNCHANGED <<bitrix, op, lapsed, boundary, inflight, requests, faults>>

\* mutant: the baseline is the row after the newest one
ArmedBeyond(b, last) == IF b = None THEN [baseline |-> last + 1, scan |-> last] ELSE b

\* mutant: the poller that arms last decides
ArmedAgain(b, last) == [baseline |-> last, scan |-> last]

ArmedAs(b, last) == IF b = None THEN [baseline |-> last, scan |-> last] ELSE b

Arm(p) ==
  /\ poller[p].pc = "arm"
  /\ boundary' = ArmedAs(boundary, poller[p].last)
  /\ Rest(p)
  /\ UNCHANGED <<bitrix, op, lapsed, inflight, requests, faults>>

Unresolved == {t \in Moves : op[t].status \in {"dispatching", "uncertain"} /\ ~op[t].fallback}

Poll(p) ==
  /\ poller[p].pc = "idle" /\ boundary # None
  /\ poller' = [poller EXCEPT ![p] = [Idle EXCEPT
                  !.pc = IF Unresolved = {} THEN "page" ELSE "reconcile",
                  !.row = boundary.scan, !.todo = Unresolved]]
  /\ UNCHANGED <<bitrix, op, lapsed, boundary, inflight, requests, faults>>

\* mutant: no longer listed is taken for ended
Unlisted(t) == ~DealChat(t).listed

\* selected_chat_is_confirmed_inactive: not listed, and no session is open
Inactive(t) == LET c == DealChat(t) IN ~c.listed /\ ~c.open /\ c.fit

Close(t) == op' = [op EXCEPT ![t].status = "closed"]

\* one operation of the list; a failed read or a row that another poller has
\* closed changes nothing
Reconcile(p) ==
  /\ poller[p].pc = "reconcile"
  /\ \E t \in poller[p].todo :
       /\ \/ Inactive(t) /\ op[t].status \in {"dispatching", "uncertain"} /\ Close(t) /\ UNCHANGED faults
          \/ ~(Inactive(t) /\ op[t].status \in {"dispatching", "uncertain"}) /\ UNCHANGED <<op, faults>>
          \/ Fault /\ UNCHANGED op
       /\ LET rest == poller[p].todo \ {t}
          IN poller' = [poller EXCEPT ![p].todo = rest,
                                      ![p].pc = IF rest = {} THEN "page" ELSE "reconcile"]
  /\ UNCHANGED <<bitrix, lapsed, boundary, inflight, requests>>

\* the rows after the cursor; a failed read ends the poll
Page(p) ==
  /\ poller[p].pc = "page"
  /\ \/ /\ poller' = [poller EXCEPT ![p].pc = "row", ![p].row = @ + 1,
                                    ![p].last = Len(moves)]
        /\ UNCHANGED faults
     \/ Fault /\ Rest(p)
  /\ UNCHANGED <<bitrix, op, lapsed, boundary, inflight, requests>>

\* mutant: the cursor moves on past rows that are not settled
AdvanceAnyway(w) == w.row > w.last

\* had_errors keeps the cursor where it was
MayAdvance(w) == w.row > w.last /\ ~w.errors

\* advance_lost_deal_autoclose_history_id never moves the cursor back
Advance(p) ==
  /\ poller[p].pc = "row" /\ poller[p].row > poller[p].last
  /\ IF MayAdvance(poller[p]) /\ poller[p].last > boundary.scan
     THEN boundary' = [boundary EXCEPT !.scan = poller[p].last]
     ELSE UNCHANGED boundary
  /\ Rest(p)
  /\ UNCHANGED <<bitrix, op, lapsed, inflight, requests, faults>>
-----------------------------------------------------------------------------
(* process_lost_deal_transition up to the boundary.                        *)

Final == {"skipped", "dry_run", "dispatching", "uncertain", "closed"}

\* rows before the baseline, of other stages and of finished operations
Row(p) ==
  /\ poller[p].pc = "row" /\ poller[p].row <= poller[p].last
  /\ LET t == poller[p].row
     IN IF t > boundary.baseline /\ ToLost(t) /\ op[t].status \notin Final
        THEN Goto(p, "prove") ELSE NextRow(p, FALSE)
  /\ UNCHANGED <<bitrix, op, lapsed, boundary, inflight, requests, faults>>

\* a move that is not proven is passed over; a failed read, or a move within
\* its grace period, keeps the cursor
Prove(p) ==
  /\ poller[p].pc = "prove"
  /\ LET t == poller[p].row
     IN \/ Proven(t) /\ Goto(p, "claim") /\ UNCHANGED faults
        \/ ~Proven(t) /\ NextRow(p, FALSE) /\ UNCHANGED faults
        \/ Fault /\ NextRow(p, TRUE)
  /\ UNCHANGED <<bitrix, op, lapsed, boundary, inflight, requests>>

\* mutant: nobody takes over from a poller that died
NeverLapsed(t) == op[t].status \in {"none", "retryable"}

Free(t) == op[t].status \in {"none", "retryable"} \/ t \in lapsed

\* claim_lost_deal_close_transition
Claim(p) ==
  /\ poller[p].pc = "claim"
  /\ LET t == poller[p].row
     IN IF Free(t)
        THEN /\ op' = [op EXCEPT ![t].status = "checking", ![t].lease = p, ![t].attempts = @ + 1]
             /\ lapsed' = lapsed \ {t}
             /\ poller' = [poller EXCEPT ![p].pc = "first", ![p].hindered = ~Proven(t) \/ DealChat(t).said >= t]
        ELSE NextRow(p, op[t].status \notin Final) /\ UNCHANGED <<op, lapsed>>
  /\ UNCHANGED <<bitrix, boundary, inflight, requests, faults>>

Leased(p) == LET t == poller[p].row IN op[t].status = "checking" /\ op[t].lease = p

\* _update_lost_deal_check_status: without the lease it raises an error, and
\* so the row is not settled
Finalize(p, status, errors) ==
  LET t == poller[p].row
  IN IF Leased(p)
     THEN /\ op' = [op EXCEPT ![t].status = status, ![t].lease = None]
          /\ lapsed' = lapsed \ {t}
          /\ NextRow(p, errors)
     ELSE NextRow(p, TRUE) /\ UNCHANGED <<op, lapsed>>

Skip(p) == Finalize(p, "skipped", FALSE) /\ UNCHANGED faults

\* a read fails before the boundary
ReadFails(p) ==
  /\ Fault
  /\ IF op[poller[p].row].attempts >= MaxAttempts THEN Finalize(p, "skipped", FALSE)
                                                  ELSE Finalize(p, "retryable", TRUE)

\* auto_completed_chat_candidate: Bitrix dropped the chat with this move
Dropped(c, t) == ~c.listed /\ c.open /\ c.dropped = t

\* read_single_active_deal_chat_snapshot
Found(c, t) == c.fit /\ (c.listed \/ Dropped(c, t))

\* mutant: messages after the move do not matter
AnyMessage(c, t) == Found(c, t)

\* no message after the move, whose time may be that of the message
MayFinish(c, t) == Found(c, t) /\ c.said < t

First(p) ==
  /\ poller[p].pc = "first"
  /\ LET c == DealChat(poller[p].row)
     IN \/ /\ MayFinish(c, poller[p].row)
           /\ poller' = [poller EXCEPT ![p].pc = "again", ![p].snap = c]
           /\ UNCHANGED <<op, lapsed, faults>>
        \/ ~MayFinish(c, poller[p].row) /\ Skip(p)
        \/ ReadFails(p)
  /\ UNCHANGED <<bitrix, boundary, inflight, requests>>

\* mutant: the second proof is forgotten
StillHistory(t) == t <= Len(moves)

StillProven(t) == Proven(t)

Again(p) ==
  /\ poller[p].pc = "again"
  /\ \/ StillProven(poller[p].row) /\ Goto(p, "final") /\ UNCHANGED <<op, lapsed, faults>>
     \/ ~StillProven(poller[p].row) /\ Skip(p)
     \/ ReadFails(p)
  /\ UNCHANGED <<bitrix, boundary, inflight, requests>>

\* mutant: the second snapshot is only checked by itself
Unchecked(c, snap) == c.fit

Unchanged(c, snap) == c = snap

LookAgain(p) ==
  /\ poller[p].pc = "final"
  /\ LET c == DealChat(poller[p].row)
     IN \/ Unchanged(c, poller[p].snap) /\ Goto(p, "dispatch") /\ UNCHANGED <<op, lapsed, faults>>
        \/ ~Unchanged(c, poller[p].snap) /\ Skip(p)
        \/ ReadFails(p)
  /\ UNCHANGED <<bitrix, boundary, inflight, requests>>
-----------------------------------------------------------------------------
(* The boundary and what follows it.                                       *)

\* mutant: whoever reaches the boundary crosses it
Anybody(p) == op[poller[p].row].status \in {"checking", "dispatching", "uncertain"}

MayCross(p) == Leased(p)

\* mark_lost_deal_close_dispatching; in a service with DRY_RUN the check ends
Dispatch(p) ==
  /\ poller[p].pc = "dispatch"
  /\ LET t == poller[p].row  snap == poller[p].snap
     IN \/ Finalize(p, "dry_run", FALSE)
        \/ /\ MayCross(p)
           /\ op' = [op EXCEPT ![t].status = "dispatching", ![t].lease = None,
                               ![t].session = snap.session, ![t].fallback = ~snap.listed]
           /\ lapsed' = lapsed \ {t}
           /\ Goto(p, "finish")
        \/ ~MayCross(p) /\ NextRow(p, TRUE) /\ UNCHANGED <<op, lapsed>>
  /\ UNCHANGED <<bitrix, boundary, inflight, requests, faults>>

\* imopenlines.operator.another.finish
Finish(p) ==
  /\ poller[p].pc = "finish"
  /\ requests' = [requests EXCEPT ![poller[p].row] = @ + 1]
  /\ inflight' = inflight \cup {poller[p].row}
  /\ Goto(p, "wait")
  /\ UNCHANGED <<bitrix, op, lapsed, boundary, faults>>

\* True, something else or no answer; the dialog may end sooner or later
Answer(p) ==
  /\ poller[p].pc = "wait"
  /\ \/ Goto(p, "confirm") \/ Goto(p, "uncertain")
     \/ poller' = [poller EXCEPT ![p].pc = "uncertain", ![p].lost = TRUE]
  /\ UNCHANGED <<bitrix, op, lapsed, boundary, inflight, requests, faults>>

\* _finalize_lost_deal_dispatch raises an error when the list of unresolved
\* operations has closed it before
Settle(p, status) ==
  LET t == poller[p].row
  IN IF op[t].status = "dispatching"
     THEN op' = [op EXCEPT ![t].status = status] /\ NextRow(p, FALSE)
     ELSE NextRow(p, TRUE) /\ UNCHANGED op

\* mutant: an acknowledgement is enough
Acknowledged(t) == TRUE

Confirmed(t) == Inactive(t)

\* mark_lost_deal_close_closed, or uncertain when the look does not confirm
\* it or fails
Confirm(p) ==
  /\ poller[p].pc = "confirm"
  /\ \/ Settle(p, IF Confirmed(poller[p].row) THEN "closed" ELSE "uncertain") /\ UNCHANGED faults
     \/ Fault /\ Settle(p, "uncertain")
  /\ UNCHANGED <<bitrix, lapsed, boundary, inflight, requests>>

\* mark_lost_deal_close_uncertain; a lost answer is looked into at once,
\* except for a dialog that was not listed before either
Uncertain(p) ==
  /\ poller[p].pc = "uncertain"
  /\ LET t == poller[p].row
     IN IF op[t].status = "dispatching" /\ poller[p].lost /\ ~op[t].fallback
        THEN op' = [op EXCEPT ![t].status = "uncertain"] /\ Goto(p, "recheck")
        ELSE Settle(p, "uncertain")
  /\ UNCHANGED <<bitrix, lapsed, boundary, inflight, requests, faults>>

Recheck(p) ==
  /\ poller[p].pc = "recheck"
  /\ LET t == poller[p].row
     IN \/ Inactive(t) /\ op[t].status = "uncertain" /\ Close(t) /\ UNCHANGED faults
        \/ ~(Inactive(t) /\ op[t].status = "uncertain") /\ UNCHANGED <<op, faults>>
        \/ Fault /\ UNCHANGED op
  /\ NextRow(p, FALSE)
  /\ UNCHANGED <<bitrix, lapsed, boundary, inflight, requests>>
-----------------------------------------------------------------------------
(* The surroundings.                                                       *)

Crash(p) ==
  /\ poller[p].pc # "idle" /\ Fault
  /\ Rest(p)
  /\ UNCHANGED <<bitrix, op, lapsed, boundary, inflight, requests>>

Working(t) == \E p \in Pollers : poller[p].row = t /\ op[t].lease = p
                                 /\ poller[p].pc \in {"first", "again", "final", "dispatch"}

\* a lease runs out; it counts as a fault while its poller is at work
Lapse(t) ==
  /\ op[t].status = "checking" /\ t \notin lapsed
  /\ IF Working(t) THEN Fault ELSE UNCHANGED faults
  /\ lapsed' = lapsed \cup {t}
  /\ UNCHANGED <<bitrix, op, boundary, poller, inflight, requests>>

\* the checks that are still to come must see it
Hinder(d, pcs) ==
  poller' = [p \in Pollers |->
               IF poller[p].pc \in pcs /\ moves[poller[p].row].deal = d
               THEN [poller[p] EXCEPT !.hindered = TRUE] ELSE poller[p]]

\* with a move to a lost stage Bitrix may drop the chat from the active ones;
\* moves between open stages are left out, they change nothing here
Move(d) ==
  /\ Len(moves) < MaxMoves
  /\ \E to \in {"F"} \cup ({"P"} \ {stage[d]}) :
       /\ moves' = Append(moves, [deal |-> d, from |-> stage[d], to |-> to])
       /\ stage' = [stage EXCEPT ![d] = to]
       /\ \/ UNCHANGED chat
          \/ /\ to = "F" /\ chat[d].listed
             /\ chat' = [chat EXCEPT ![d].listed = FALSE, ![d].dropped = Len(moves) + 1]
  /\ Hinder(d, {"first", "again"})
  /\ UNCHANGED <<edits, op, lapsed, boundary, inflight, requests, faults>>

Edit(d, new) ==
  /\ edits < MaxEdits /\ edits' = edits + 1
  /\ chat' = [chat EXCEPT ![d] = new]
  /\ UNCHANGED <<stage, moves, op, lapsed, boundary, inflight, requests, faults>>

\* a message goes to the open session, or opens a new one
Message(d) ==
  /\ Edit(d, [chat[d] EXCEPT !.open = TRUE, !.listed = TRUE, !.said = Len(moves), !.edition = @ + 1,
                             !.session = IF chat[d].open THEN @ ELSE @ + 1])
  /\ Hinder(d, {"first", "again", "final"})

Ended(c) == [c EXCEPT !.open = FALSE, !.listed = FALSE]

\* an employee finishes the dialog
EndChat(d) ==
  /\ chat[d].open
  /\ Edit(d, Ended(chat[d]))
  /\ Hinder(d, {"again", "final"})

\* a second chat, another binding or a second activity comes or goes
Refit(d) == Edit(d, [chat[d] EXCEPT !.fit = ~@]) /\ UNCHANGED poller

\* the request is applied, maybe after its answer was given up
Apply(t) ==
  /\ t \in inflight
  /\ inflight' = inflight \ {t}
  /\ chat' = [chat EXCEPT ![moves[t].deal] = Ended(@)]
  /\ UNCHANGED <<stage, moves, edits, op, lapsed, boundary, poller, requests, faults>>
-----------------------------------------------------------------------------
Step(p) ==
  \/ Start(p) \/ Arm(p) \/ Poll(p) \/ Reconcile(p) \/ Page(p) \/ Advance(p) \/ Row(p) \/ Prove(p)
  \/ Claim(p) \/ First(p) \/ Again(p) \/ LookAgain(p) \/ Dispatch(p) \/ Finish(p) \/ Answer(p)
  \/ Confirm(p) \/ Uncertain(p) \/ Recheck(p)

Next ==
  \/ \E p \in Pollers : Step(p) \/ Crash(p)
  \/ \E t \in Moves : Lapse(t) \/ Apply(t)
  \/ \E d \in Deals : Move(d) \/ Message(d) \/ EndChat(d) \/ Refit(d)

Spec == Init /\ [][Next]_vars

\* A poller goes on unless it stops, and leases run out.
FairSpec ==
  /\ Spec
  /\ \A p \in Pollers : WF_vars(Step(p))
  /\ WF_vars(\E t \in Moves : Lapse(t))
-----------------------------------------------------------------------------
Fate(status) == CASE status \in {"none", "checking", "retryable"} -> "open"
                  [] status \in {"skipped", "dry_run"} -> "refused"
                  [] status = "dispatching" -> "started"
                  [] OTHER -> status

SessionEnded(t) == op[t].session # 0 /\ (op[t].session < DealChat(t).session \/ ~DealChat(t).open)

Promised == INSTANCE ChatFinish WITH Transitions <- Moves,
                                     fate <- [t \in Moves |-> Fate(op[t].status)],
                                     ended <- [t \in Moves |-> SessionEnded(t)]

\* A dialog is asked to be finished at most once for a move and never after
\* the move was refused; "closed" is said of sessions that have ended only.
\* This is what the fields of the operation and the reads promise together,
\* whatever two pollers, crashes and late requests do.
FinishPromise == Promised!Spec

\* The finish is sent only if from the lease to the second proof the deal was
\* lost by exactly this move, and no message, end or new session of the
\* dialog came before the last look at it.
Justified == \A p \in Pollers : poller[p].pc = "finish" => ~poller[p].hindered

\* The cursor never passes a lost deal that is still to be decided, nor does
\* an operation exist for a deal that was lost before the first poll.
NothingMissed ==
  \A t \in Moves : /\ op[t].status # "none" => boundary # None /\ t > boundary.baseline
                   /\ boundary # None =>
                        (t > boundary.baseline /\ t <= boundary.scan /\ Proven(t) => op[t].status \in Final)

\* No lost deal stays undecided as long as it is lost by its last move, and no
\* operation without a known result stays so while its dialog is seen to be
\* inactive, except when the dialog had been dropped from the list before.
Pending(t) == /\ boundary # None /\ t > boundary.baseline /\ t <= Len(moves)
              /\ \/ Proven(t) /\ op[t].status \notin Final
                 \/ t \in Unresolved /\ Inactive(t)
LossesHandled == \A t \in Moves : []<>~Pending(t)
=============================================================================
