-------------------------- MODULE GreetingDelivery --------------------------
(***************************************************************************)
(* What the automatic greeting promises of each confirmed claim: either    *)
(* its fate is decided before anything is sent, or the request to send it  *)
(* is made at most once, and a greeting reported as sent has reached the   *)
(* chat.  A greeting whose fate is uncertain may still arrive, once.       *)
(***************************************************************************)
EXTENDS Integers

CONSTANT Claims

VARIABLES
  outcome,    \* "open" until the sending starts, or is refused
  requests,   \* how often Bitrix was asked to send it
  deliveries  \* how often it arrived in the chat

vars == <<outcome, requests, deliveries>>

Init ==
  /\ outcome = [c \in Claims |-> "open"]
  /\ requests = [c \in Claims |-> 0]
  /\ deliveries = [c \in Claims |-> 0]

Decide(c, from, to) == outcome[c] = from /\ outcome' = [outcome EXCEPT ![c] = to]

Start(c) == Decide(c, "open", "started") /\ UNCHANGED <<requests, deliveries>>

Request(c) ==
  /\ outcome[c] \in {"started", "uncertain"} /\ requests[c] = 0
  /\ requests' = [requests EXCEPT ![c] = 1]
  /\ UNCHANGED <<outcome, deliveries>>

Deliver(c) ==
  /\ requests[c] = 1 /\ deliveries[c] = 0
  /\ deliveries' = [deliveries EXCEPT ![c] = 1]
  /\ UNCHANGED <<outcome, requests>>

Confirm(c) ==
  /\ deliveries[c] = 1
  /\ Decide(c, "started", "sent")
  /\ UNCHANGED <<requests, deliveries>>

\* several greetings may be refused, or given up, at once
DecideAll(S, from, to) ==
  /\ \A c \in S : outcome[c] = from
  /\ outcome' = [c \in Claims |-> IF c \in S THEN to ELSE outcome[c]]
  /\ UNCHANGED <<requests, deliveries>>

Refuse(S) == DecideAll(S, "open", "manual")
GiveUp(S) == DecideAll(S, "started", "uncertain")

Next ==
  \/ \E c \in Claims : Start(c) \/ Request(c) \/ Deliver(c) \/ Confirm(c)
  \/ \E S \in SUBSET Claims : Refuse(S) \/ GiveUp(S)

Spec == Init /\ [][Next]_vars
=============================================================================
