----------------------------- MODULE ChatFinish -----------------------------
(***************************************************************************)
(* What the auto-close promises of each move of a deal to a lost stage:    *)
(* either it is refused before anything is sent, or the dialog chosen for  *)
(* it is finished by at most one request, and "closed" is said only of a   *)
(* dialog that has really ended.                                           *)
(***************************************************************************)
EXTENDS Integers

CONSTANT Transitions

VARIABLES
  fate,      \* "open" until the finish starts, or is refused
  requests,  \* how often Bitrix was asked to finish the dialog
  ended      \* whether the chosen session has ended

vars == <<fate, requests, ended>>

Init ==
  /\ fate = [t \in Transitions |-> "open"]
  /\ requests = [t \in Transitions |-> 0]
  /\ ended = [t \in Transitions |-> FALSE]

Decide(t, from, to) == fate[t] \in from /\ fate' = [fate EXCEPT ![t] = to]

Refuse(t) == Decide(t, {"open"}, "refused") /\ UNCHANGED <<requests, ended>>

\* the session that is chosen may have ended meanwhile
Start(t) ==
  /\ Decide(t, {"open"}, "started")
  /\ ended' \in {ended, [ended EXCEPT ![t] = TRUE]}
  /\ UNCHANGED requests

Request(t) ==
  /\ fate[t] \notin {"open", "refused"} /\ requests[t] = 0
  /\ requests' = [requests EXCEPT ![t] = 1]
  /\ UNCHANGED <<fate, ended>>

GiveUp(t) == Decide(t, {"started"}, "uncertain") /\ UNCHANGED <<requests, ended>>

Confirm(t) ==
  /\ ended[t]
  /\ Decide(t, {"started", "uncertain"}, "closed")
  /\ UNCHANGED <<requests, ended>>

\* one end of a chat ends the session chosen for several moves of its deal
End(S) ==
  /\ \A t \in S : fate[t] \notin {"open", "refused"}
  /\ ended' = [t \in Transitions |-> t \in S \/ ended[t]]
  /\ UNCHANGED <<fate, requests>>

Next ==
  \/ \E t \in Transitions : Refuse(t) \/ Start(t) \/ Request(t) \/ GiveUp(t) \/ Confirm(t)
  \/ \E S \in SUBSET Transitions : End(S)

Spec == Init /\ [][Next]_vars
=============================================================================
