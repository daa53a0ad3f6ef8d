---------------------------- MODULE NumberSequence ----------------------------
(***************************************************************************)
(* What the callers of OrderNumberStore.Next may rely on: a counter that   *)
(* each call increments in one indivisible step.  The two weaknesses of    *)
(* the store are part of the promise: a call may be refused, and while     *)
(* some call is in progress the counter may be lost and restart at zero.   *)
(*                                                                         *)
(* OrderNumberStore implements this module, OrderQueue uses the store as   *)
(* this module describes it.                                               *)
(***************************************************************************)
EXTENDS Naturals

CONSTANTS
  Calls,      \* the calls of Next, each made once
  Legacy      \* the number the counter starts from (0: nothing seeded)

VARIABLES
  last,       \* the number the next call increments
  call,       \* how far each call is
  result      \* the number a call was given, 0 before it has one

vars == <<last, call, result>>

Init ==
  /\ last = Legacy
  /\ call = [c \in Calls |-> "new"]
  /\ result = [c \in Calls |-> 0]

Move(c, from, to) ==
  /\ call[c] = from
  /\ call' = [call EXCEPT ![c] = to]

Begin(c) == Move(c, "new", "busy") /\ UNCHANGED <<last, result>>

\* The call takes effect: the counter grows by one and the call owns the value.
Issue(c) ==
  /\ Move(c, "busy", "issued")
  /\ last' = last + 1
  /\ result' = [result EXCEPT ![c] = last + 1]

Refuse(c) == Move(c, "busy", "refused") /\ UNCHANGED <<last, result>>

\* The counter is lost: only while a call is in progress.
Lose ==
  /\ \E c \in Calls : call[c] = "busy"
  /\ last' = 0
  /\ UNCHANGED <<call, result>>

\* The process ends.  Calls in progress never return; a number already issued
\* is burned if its caller had not used it yet.
Crash ==
  /\ last' \in {last} \cup (IF \E c \in Calls : call[c] = "busy" THEN {0} ELSE {})
  /\ call' = [c \in Calls |-> IF call[c] = "busy" THEN "dead" ELSE call[c]]
  /\ UNCHANGED result

Next ==
  \/ \E c \in Calls : Begin(c) \/ Issue(c) \/ Refuse(c)
  \/ Lose
  \/ Crash

Spec == Init /\ [][Next]_vars
=============================================================================
