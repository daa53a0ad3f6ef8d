----------------------------- MODULE OrderService -----------------------------
(***************************************************************************)
(* What a client of POST /api/sendOrder is promised: a request is turned   *)
(* away or accepted; accepted orders are processed one at a time, in the   *)
(* order of acceptance, each to one outcome; an outage of the daemon loses *)
(* the accepted orders that have no outcome yet and nothing else.          *)
(*                                                                         *)
(* OrderQueue implements this module.                                      *)
(***************************************************************************)
EXTENDS Sequences

CONSTANT Requests

VARIABLES
  order,      \* what has become of each request
  pending     \* the accepted orders that wait, oldest first

vars == <<order, pending>>

Open == {"accepted", "processing"}

Init ==
  /\ order = [r \in Requests |-> "new"]
  /\ pending = <<>>

TurnAway(r) ==
  /\ order[r] = "new"
  /\ order' = [order EXCEPT ![r] = "turned away"]
  /\ UNCHANGED pending

Accept(r) ==
  /\ order[r] = "new"
  /\ order' = [order EXCEPT ![r] = "accepted"]
  /\ pending' = Append(pending, r)

Begin ==
  /\ pending # <<>>
  /\ \A r \in Requests : order[r] # "processing"
  /\ order' = [order EXCEPT ![Head(pending)] = "processing"]
  /\ pending' = Tail(pending)

Settle(r) ==
  /\ order[r] = "processing"
  /\ \E outcome \in {"done", "failed"} : order' = [order EXCEPT ![r] = outcome]
  /\ UNCHANGED pending

\* Requests being handled are turned away, open orders are lost.
Outage ==
  /\ \E dropped \in SUBSET {r \in Requests : order[r] = "new"} :
       order' = [r \in Requests |-> IF r \in dropped THEN "turned away"
                                    ELSE IF order[r] \in Open THEN "lost"
                                    ELSE order[r]]
  /\ pending' = <<>>

Next ==
  \/ \E r \in Requests : TurnAway(r) \/ Accept(r) \/ Settle(r)
  \/ Begin
  \/ Outage

Spec == Init /\ [][Next]_vars
=============================================================================
