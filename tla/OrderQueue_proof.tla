--------------------------- MODULE OrderQueue_proof ---------------------------
(***************************************************************************)
(* Proofs about OrderQueue, for any set of requests, any capacity and any  *)
(* number of failures, cancellations and restarts: type correctness, the   *)
(* uniqueness of the order numbers, that no order is processed twice, and  *)
(* that the jobs map tells the truth about every order.                    *)
(***************************************************************************)
EXTENDS OrderQueue, TLAPS

-----------------------------------------------------------------------------
(* The channel: what sending and receiving do to the jobs it holds.        *)

Elements(s) == {s[i] : i \in 1..Len(s)}

Injective(s) == \A i, j \in 1..Len(s) : s[i] = s[j] => i = j

\* Sending an element to a channel adds it, and keeps the elements distinct if
\* it was not there.
LEMMA SendElements ==
  ASSUME NEW S, NEW s \in Seq(S), NEW e \in S
  PROVE  /\ Append(s, e) \in Seq(S)
         /\ Elements(Append(s, e)) = Elements(s) \cup {e}
         /\ Injective(s) /\ e \notin Elements(s) => Injective(Append(s, e))
<1>1. /\ Append(s, e) \in Seq(S)
      /\ Len(Append(s, e)) = Len(s) + 1
      /\ \A i \in 1..Len(s) : Append(s, e)[i] = s[i]
      /\ Append(s, e)[Len(s) + 1] = e
      /\ Len(s) \in Nat
  OBVIOUS
<1>2. 1..(Len(s) + 1) = (1..Len(s)) \cup {Len(s) + 1}
  BY <1>1
<1>3. Elements(Append(s, e)) = Elements(s) \cup {e}
  BY <1>1, <1>2 DEF Elements
<1>4. Injective(s) /\ e \notin Elements(s) => Injective(Append(s, e))
  BY <1>1, <1>2 DEF Elements, Injective
<1> QED
  BY <1>1, <1>3, <1>4

\* Receiving takes the head out of the channel, and keeps distinct elements
\* distinct.
LEMMA ReceiveElements ==
  ASSUME NEW S, NEW s \in Seq(S), s # <<>>
  PROVE  /\ Tail(s) \in Seq(S)
         /\ Head(s) \in Elements(s)
         /\ Elements(s) = Elements(Tail(s)) \cup {Head(s)}
         /\ Injective(s) => Injective(Tail(s)) /\ Head(s) \notin Elements(Tail(s))
<1>1. /\ Tail(s) \in Seq(S)
      /\ Len(s) \in Nat /\ Len(s) > 0
      /\ Len(Tail(s)) = Len(s) - 1
      /\ \A i \in 1..(Len(s) - 1) : Tail(s)[i] = s[i + 1]
      /\ Head(s) = s[1]
  OBVIOUS
<1>2. Elements(s) = Elements(Tail(s)) \cup {Head(s)}
  <2>1. ASSUME NEW i \in 1..Len(s) PROVE s[i] \in Elements(Tail(s)) \cup {Head(s)}
    <3>1. CASE i = 1
      BY <1>1, <3>1
    <3>2. CASE i # 1
      <4>1. i - 1 \in 1..(Len(s) - 1) /\ s[i] = Tail(s)[i - 1]
        BY <1>1, <3>2
      <4> QED
        BY <1>1, <4>1 DEF Elements
    <3> QED
      BY <3>1, <3>2
  <2>2. ASSUME NEW i \in 1..Len(Tail(s)) PROVE Tail(s)[i] \in Elements(s)
    BY <1>1 DEF Elements
  <2> QED
    BY <1>1, <2>1, <2>2 DEF Elements
<1>3. Injective(s) => Injective(Tail(s)) /\ Head(s) \notin Elements(Tail(s))
  BY <1>1 DEF Elements, Injective
<1> QED
  BY <1>1, <1>2, <1>3

-----------------------------------------------------------------------------
\* The variables of the queue have their types (queue.go:53-61).
THEOREM QueueTypeCorrect == Spec => []TypeOK
<1>1. Init => TypeOK
  <2> SUFFICES ASSUME Init PROVE TypeOK
    OBVIOUS
  <2>1. last \in 0..MaxNumber /\ exits \in 0..MaxExits /\ faults \in 0..MaxFaults
    BY QueueAssumption DEF QueueAssumption, Init
  <2>2. lost \in BOOLEAN /\ closed \in BOOLEAN /\ cancelled \in BOOLEAN /\ alive \in BOOLEAN
    BY DEF Init
  <2>3. handler \in [Requests -> HandlerStages] /\ num \in [Requests -> 0..MaxNumber]
    BY QueueAssumption DEF QueueAssumption, Init, HandlerStages
  <2>4. jobs \in [Numbers -> Status \cup {"absent"}] /\ ch \in Seq(Requests)
    BY DEF Init, NoJobs
  <2>5. worker \in [pc : WorkerStages, job : Requests \cup {NoRequest}]
    BY DEF Init, IdleWorker, WorkerStages
  <2>6. /\ fate \in [Requests -> {"open", "done", "failed"}]
        /\ before \in [Requests -> SUBSET Requests]
    BY DEF Init
  <2> QED
    BY <2>1, <2>2, <2>3, <2>4, <2>5, <2>6 DEF TypeOK
<1>2. TypeOK /\ [Next]_queueVars => TypeOK'
  <2> SUFFICES ASSUME TypeOK, [Next]_queueVars PROVE TypeOK'
    OBVIOUS
  <2> USE QueueAssumption DEF QueueAssumption, TypeOK, storeVars, historyVars, lifeVars
  <2>1. ASSUME NEW r \in Requests, Arrive(r) PROVE TypeOK'
    BY <2>1 DEF Arrive, Move, HandlerStages
  <2>2. ASSUME NEW r \in Requests, Invalid(r) PROVE TypeOK'
    BY <2>2 DEF Invalid, Move, HandlerStages
  <2>3. ASSUME NEW r \in Requests, Reserve(r) PROVE TypeOK'
    BY <2>3 DEF Reserve, Move, HandlerStages
  <2>4. ASSUME NEW r \in Requests, ReserveFails(r) PROVE TypeOK'
    BY <2>4 DEF ReserveFails, Move, HandlerStages
  <2>5. ASSUME NEW r \in Requests, Register(r) PROVE TypeOK'
    BY <2>5 DEF Register, Move, HandlerStages, SetStatus, Status
  <2>6. ASSUME NEW r \in Requests, Enqueue(r) PROVE TypeOK'
    BY <2>6, SendElements DEF Enqueue, Move, HandlerStages
  <2>7. ASSUME NEW r \in Requests, Overflow(r) PROVE TypeOK'
    BY <2>7 DEF Overflow, Move, HandlerStages
  <2>8. ASSUME NEW r \in Requests, Unregister(r) PROVE TypeOK'
    BY <2>8 DEF Unregister, Move, HandlerStages, SetStatus
  <2>9. ASSUME NEW r \in Requests, SendPanics(r) PROVE TypeOK'
    BY <2>9 DEF SendPanics, Move, HandlerStages
  <2>10. ASSUME NumberLost PROVE TypeOK'
    BY <2>10 DEF NumberLost
  <2>11. ASSUME Take PROVE TypeOK'
    BY <2>11, ReceiveElements DEF Take, WorkerStages
  <2>12. ASSUME WorkerExits PROVE TypeOK'
    BY <2>12 DEF WorkerExits, WorkerMove, WorkerStages
  <2>13. ASSUME MarkRunning PROVE TypeOK'
    BY <2>13 DEF MarkRunning, WorkerMove, WorkerStages, SetStatus, Status
  <2>14. ASSUME NEW result \in {"succeeded", "erred"}, Processed(result) PROVE TypeOK'
    BY <2>14 DEF Processed, WorkerMove, WorkerStages
  <2>15. ASSUME MarkDone PROVE TypeOK'
    BY <2>15 DEF MarkDone, WorkerMove, WorkerStages, SetStatus, Status
  <2>16. ASSUME MarkFailed PROVE TypeOK'
    BY <2>16 DEF MarkFailed, IdleWorker, WorkerStages, SetStatus, Status
  <2>17. ASSUME HooksDone PROVE TypeOK'
    BY <2>17 DEF HooksDone, IdleWorker, WorkerStages
  <2>18. ASSUME Cancel PROVE TypeOK'
    BY <2>18 DEF Cancel
  <2>19. ASSUME StopQueue PROVE TypeOK'
    BY <2>19 DEF StopQueue
  <2>20. ASSUME Exit PROVE TypeOK'
    <3>1. last' \in 0..MaxNumber /\ exits' \in 0..MaxExits
      BY <2>20 DEF Exit
    <3>2. lost' \in BOOLEAN
      BY <2>20 DEF Exit
    <3>3. handler' \in [Requests -> HandlerStages]
      BY <2>20 DEF Exit, HandlerStages
    <3>4. jobs' \in [Numbers -> Status \cup {"absent"}] /\ ch' \in Seq(Requests)
      BY <2>20 DEF Exit, NoJobs
    <3>5. worker' \in [pc : WorkerStages, job : Requests \cup {NoRequest}]
      BY <2>20 DEF Exit, IdleWorker, WorkerStages
    <3>6. alive' \in BOOLEAN /\ UNCHANGED <<num, closed, cancelled, faults, fate, before>>
      BY <2>20 DEF Exit
    <3> QED
      BY <3>1, <3>2, <3>3, <3>4, <3>5, <3>6
  <2>21. ASSUME Boot PROVE TypeOK'
    BY <2>21 DEF Boot
  <2>22. CASE UNCHANGED queueVars
    BY <2>22 DEF queueVars
  <2> QED
    BY <2>1, <2>2, <2>3, <2>4, <2>5, <2>6, <2>7, <2>8, <2>9, <2>10, <2>11,
       <2>12, <2>13, <2>14, <2>15, <2>16, <2>17, <2>18, <2>19, <2>20, <2>21,
       <2>22, SMTT(30) DEF Next, SubmitStep, WorkerStep, ProcessStep
<1> QED
  BY <1>1, <1>2, PTL DEF Spec
-----------------------------------------------------------------------------
(* The order numbers.                                                      *)

\* A request has no number until it has reserved one, and every number
\* reserved is counted by the number file.
NumbersCounted ==
  /\ \A r \in Requests : handler[r] \in {"new", "reserving"} => num[r] = 0
  /\ ~lost => \A r \in Requests : num[r] <= last

\* NumbersCounted holds in every reachable state, and with it the uniqueness of
\* the numbers (queue.go:147-158).
LEMMA NumbersInductive == Spec => [](NumbersCounted /\ UniqueOrderNumbers)
<1> DEFINE NumInv == NumbersCounted /\ UniqueOrderNumbers
<1>1. Init => NumInv
  BY QueueAssumption DEF QueueAssumption, Init, NumbersCounted, UniqueOrderNumbers
<1>2. TypeOK /\ NumInv /\ [Next]_queueVars => NumInv'
  <2> SUFFICES ASSUME TypeOK, NumInv, [Next]_queueVars PROVE NumInv'
    OBVIOUS
  <2> USE DEF TypeOK, NumbersCounted, UniqueOrderNumbers
  <2>1. ASSUME NEW r \in Requests, Reserve(r) PROVE NumInv'
    BY <2>1 DEF Reserve, Move
  <2>2. ASSUME NEW r \in Requests,
               \/ Arrive(r) \/ Invalid(r) \/ ReserveFails(r) \/ Register(r)
               \/ Enqueue(r) \/ Overflow(r) \/ Unregister(r) \/ SendPanics(r)
        PROVE  NumInv'
    <3>1. /\ UNCHANGED <<last, lost, num>>
          /\ \A q \in Requests : handler'[q] \in {"new", "reserving"} =>
                                 handler[q] \in {"new", "reserving"}
      BY <2>2 DEF Arrive, Invalid, ReserveFails, Register, Enqueue, Overflow,
         Unregister, SendPanics, Move, storeVars
    <3> QED
      BY <3>1
  <2>3. ASSUME NumberLost PROVE NumInv'
    BY <2>3 DEF NumberLost
  <2>4. ASSUME \/ WorkerStep \/ ProcessStep \/ Cancel \/ StopQueue \/ Boot
               \/ UNCHANGED queueVars
        PROVE  NumInv'
    <3>1. UNCHANGED <<last, lost, num, handler>>
      BY <2>4 DEF WorkerStep, Take, WorkerExits, MarkRunning, MarkDone, MarkFailed,
         HooksDone, ProcessStep, Processed, Cancel, StopQueue, Boot, storeVars,
         queueVars
    <3> QED
      BY <3>1
  <2>5. ASSUME Exit PROVE NumInv'
    <3>1. ~lost' => ~lost /\ last' = last
      BY <2>5, Zenon DEF Exit
    <3> QED
      BY <2>5, <3>1 DEF Exit
  <2> QED
    BY <2>1, <2>2, <2>3, <2>4, <2>5 DEF Next, SubmitStep
<1> QED
  BY <1>1, <1>2, QueueTypeCorrect, PTL DEF Spec

\* No two requests ever hold the same order number, whatever the interleaving
\* of the handlers and through every restart, unless the number file has been
\* lost (queue.go:147-158).
THEOREM QueueNumbersUnique == Spec => []UniqueOrderNumbers
BY NumbersInductive, PTL
-----------------------------------------------------------------------------
(* Each order is processed at most once.                                   *)

\* An order in the channel or in the worker's hands was answered 202 by this
\* process, has no outcome and is there once; an outcome is only ever recorded
\* for an order that was answered 202.
Places ==
  /\ \A r \in InChannel \cup InHand : handler[r] = "accepted" /\ fate[r] = "open"
  /\ InHand \subseteq Requests
  /\ InChannel \cap InHand = {}
  /\ Injective(ch)
  /\ \A r \in Requests : fate[r] # "open" => handler[r] \in {"accepted", "past"}

\* Places holds in every reachable state of the queue (queue.go:81-139).
LEMMA PlacesInductive == Spec => []Places
<1>1. Init => Places
  <2> SUFFICES ASSUME Init PROVE Places
    OBVIOUS
  <2>1. InChannel = {} /\ InHand = {} /\ Injective(ch)
    BY DEF Init, InChannel, InHand, IdleWorker, Injective
  <2> QED
    BY <2>1 DEF Init, Places
<1>2. TypeOK /\ TypeOK' /\ Places /\ [Next]_queueVars => Places'
  <2> SUFFICES ASSUME TypeOK, TypeOK', Places, [Next]_queueVars PROVE Places'
    OBVIOUS
  <2>c. InChannel = Elements(ch) /\ InChannel' = Elements(ch')
    BY DEF InChannel, Elements
  <2>r. InChannel \cup InHand \subseteq Requests
    <3>1. InChannel \subseteq Requests
      BY SMTT(30) DEF TypeOK, InChannel
    <3> QED
      BY <3>1 DEF Places
  <2>u. /\ UNCHANGED ch => UNCHANGED InChannel
        /\ UNCHANGED worker => UNCHANGED InHand
        /\ UNCHANGED ch => (Injective(ch) <=> Injective(ch'))
    BY DEF InChannel, InHand
  <2> USE DEF TypeOK, Places
  <2>1. ASSUME NEW r \in Requests, Enqueue(r) PROVE Places'
    <3>1. handler[r] = "registered" /\ handler' = [handler EXCEPT ![r] = "accepted"]
      BY <2>1 DEF Enqueue, Move
    <3>2. r \notin InChannel \cup InHand /\ fate[r] = "open"
      BY <3>1
    <3>3. InChannel' = InChannel \cup {r} /\ Injective(ch')
      BY <2>1, <2>c, <3>2, SendElements DEF Enqueue
    <3>4. UNCHANGED <<InHand, fate>>
      BY <2>1 DEF Enqueue, InHand, historyVars
    <3>6. \A q \in InChannel' \cup InHand' : handler'[q] = "accepted" /\ fate'[q] = "open"
      BY <3>1, <3>2, <3>3, <3>4, <2>r
    <3> QED
      BY <3>1, <3>2, <3>3, <3>4, <3>6, <2>r
  <2>2. ASSUME NEW r \in Requests,
               \/ Arrive(r) \/ Invalid(r) \/ Reserve(r) \/ ReserveFails(r)
               \/ Register(r) \/ Overflow(r) \/ Unregister(r) \/ SendPanics(r)
        PROVE  Places'
    <3>1. UNCHANGED <<ch, worker, fate>>
      BY <2>2 DEF Arrive, Invalid, Reserve, ReserveFails, Register, Overflow,
         Unregister, SendPanics, historyVars
    <3>2. \A q \in Requests : handler[q] \in {"accepted", "past"} => handler'[q] = handler[q]
      BY <2>2 DEF Arrive, Invalid, Reserve, ReserveFails, Register, Overflow,
         Unregister, SendPanics, Move
    <3>3. UNCHANGED <<InChannel, InHand>> /\ Injective(ch')
      BY <3>1, <2>u
    <3> QED
      BY <3>1, <3>2, <3>3, <2>r
  <2>3. ASSUME Take PROVE Places'
    <3>1. /\ InHand = {} /\ InHand' = {Head(ch)}
          /\ InChannel = InChannel' \cup {Head(ch)}
          /\ Head(ch) \notin InChannel'
          /\ Injective(ch')
      BY <2>3, <2>c, ReceiveElements DEF Take, InHand
    <3> QED
      BY <2>3, <3>1 DEF Take, historyVars
  <2>4. ASSUME \/ WorkerExits \/ MarkRunning \/ ProcessStep \/ HooksDone
        PROVE  Places'
    <3>1. UNCHANGED <<ch, handler, fate>>
      BY <2>4 DEF WorkerExits, MarkRunning, ProcessStep, Processed, HooksDone,
         historyVars
    <3>2. InHand' = InHand
      <4>1. CASE WorkerExits
        BY <4>1 DEF WorkerExits, WorkerMove, InHand
      <4>2. CASE MarkRunning
        BY <4>2 DEF MarkRunning, WorkerMove, InHand
      <4>3. CASE ProcessStep
        BY <4>3 DEF ProcessStep, Processed, WorkerMove, InHand
      <4>4. CASE HooksDone
        BY <4>4 DEF HooksDone, IdleWorker, InHand
      <4> QED
        BY <2>4, <4>1, <4>2, <4>3, <4>4
    <3> QED
      BY <3>1, <3>2, <2>u
  <2>5. ASSUME MarkDone \/ MarkFailed PROVE Places'
    <3>1. InHand = {worker.job} /\ InHand' = {}
      BY <2>5 DEF MarkDone, MarkFailed, WorkerMove, IdleWorker, InHand
    <3>2. UNCHANGED <<ch, handler, InChannel>>
      BY <2>5, <2>u DEF MarkDone, MarkFailed
    <3>3. \A q \in Requests : q # worker.job => fate'[q] = fate[q]
      BY <2>5 DEF MarkDone, MarkFailed
    <3>4. worker.job \notin InChannel /\ handler[worker.job] = "accepted"
      BY <3>1
    <3> QED
      BY <3>1, <3>2, <3>3, <3>4, <2>r, <2>u
  <2>6. ASSUME Exit PROVE Places'
    <3>1. InChannel' = {} /\ InHand' = {} /\ Injective(ch')
      BY <2>6 DEF Exit, IdleWorker, InChannel, InHand, Injective
    <3>2. \A q \in Requests : handler[q] \in {"accepted", "past"} => handler'[q] = "past"
      BY <2>6 DEF Exit, InSubmit
    <3>3. UNCHANGED fate
      BY <2>6 DEF Exit, historyVars
    <3> QED
      BY <3>1, <3>2, <3>3
  <2>7. ASSUME NumberLost \/ Cancel \/ StopQueue \/ Boot \/ UNCHANGED queueVars
        PROVE  Places'
    <3>1. UNCHANGED <<ch, worker, handler, fate>>
      BY <2>7 DEF NumberLost, Cancel, StopQueue, Boot, queueVars, historyVars
    <3> QED
      BY <3>1, <2>u
  <2> QED
    BY <2>1, <2>2, <2>3, <2>4, <2>5, <2>6, <2>7 DEF Next, SubmitStep, WorkerStep
<1> QED
  BY <1>1, <1>2, QueueTypeCorrect, PTL DEF Spec

\* An order is never processed a second time: not after its outcome, not by a
\* duplicate in the channel, and not after a restart (queue.go:81-109).
THEOREM QueueProcessesOnce == Spec => []NeverProcessedTwice
<1>1. Places => NeverProcessedTwice
  BY DEF Places, NeverProcessedTwice, Injective
<1> QED
  BY <1>1, PlacesInductive, PTL
-----------------------------------------------------------------------------
(* The jobs map.                                                           *)

\* A request that has reserved a number holds one for good.
Holding == {"reserved", "registered", "overflow", "accepted", "past"}

HoldsNumber == \A r \in Requests : handler[r] \in Holding => num[r] \in Numbers

\* What the jobs map says of a request on its way into the channel; and a queue
\* that is down has no map.
EnteredFirst ==
  /\ ~lost => \A r \in Requests : handler[r] \in {"registered", "overflow"} =>
                jobs[num[r]] = "queued"
  /\ ~alive => jobs = NoJobs

\* What the jobs map should say of an order that was answered 202.
DueStatus(r) ==
  CASE r \in InChannel                      -> "queued"
    [] r \in InHand /\ worker.pc = "taken"  -> "queued"
    [] r \in InHand /\ worker.pc # "taken"  -> "running"
    [] OTHER                                -> fate[r]

\* HoldsNumber holds in every reachable state of the queue (queue.go:114-118).
LEMMA HoldsNumberInductive == Spec => []HoldsNumber
<1>1. Init => HoldsNumber
  BY DEF Init, HoldsNumber, Holding
<1>2. TypeOK /\ HoldsNumber /\ [Next]_queueVars => HoldsNumber'
  <2> SUFFICES ASSUME TypeOK, HoldsNumber, [Next]_queueVars PROVE HoldsNumber'
    OBVIOUS
  <2> USE DEF TypeOK, HoldsNumber, Holding, Numbers
  <2>1. ASSUME NEW r \in Requests, Reserve(r) PROVE HoldsNumber'
    <3>1. last + 1 \in Numbers
      BY <2>1, QueueAssumption DEF QueueAssumption, Reserve
    <3> QED
      BY <2>1, <3>1 DEF Reserve, Move
  <2>2. ASSUME NEW r \in Requests,
               \/ Arrive(r) \/ Invalid(r) \/ ReserveFails(r) \/ Register(r)
               \/ Enqueue(r) \/ Overflow(r) \/ Unregister(r) \/ SendPanics(r)
        PROVE  HoldsNumber'
    BY <2>2 DEF Arrive, Invalid, ReserveFails, Register, Enqueue, Overflow,
       Unregister, SendPanics, Move, storeVars
  <2>3. ASSUME \/ NumberLost \/ WorkerStep \/ ProcessStep \/ Cancel \/ StopQueue \/ Boot
               \/ UNCHANGED queueVars
        PROVE  HoldsNumber'
    <3>1. UNCHANGED <<num, handler>>
      BY <2>3 DEF NumberLost, WorkerStep, Take, WorkerExits, MarkRunning, MarkDone,
         MarkFailed, HooksDone, ProcessStep, Processed, Cancel, StopQueue, Boot, queueVars
    <3> QED
      BY <3>1
  <2>4. ASSUME Exit PROVE HoldsNumber'
    BY <2>4 DEF Exit, InSubmit
  <2> QED
    BY <2>1, <2>2, <2>3, <2>4 DEF Next, SubmitStep
<1> QED
  BY <1>1, <1>2, QueueTypeCorrect, PTL DEF Spec

\* Changing the entry of one order leaves the entries of all others that hold a
\* number.
LEMMA OtherEntries ==
  ASSUME TypeOK, UniqueOrderNumbers, ~lost,
         NEW q \in Requests, num[q] \in Numbers, NEW status, SetStatus(num[q], status)
  PROVE  /\ jobs'[num[q]] = status
         /\ \A r \in Requests : num[r] \in Numbers /\ r # q => jobs'[num[r]] = jobs[num[r]]
<1>1. \A r \in Requests : num[r] \in Numbers /\ r # q => num[r] # num[q]
  BY DEF UniqueOrderNumbers, Numbers, TypeOK
<1> QED
  BY <1>1 DEF SetStatus, TypeOK

\* EnteredFirst holds in every reachable state of the queue (queue.go:120-137).
LEMMA EnteredFirstInductive == Spec => []EnteredFirst
<1>1. Init => EnteredFirst
  BY DEF Init, EnteredFirst
<1>2. /\ TypeOK /\ UniqueOrderNumbers /\ HoldsNumber /\ Places /\ EnteredFirst
      /\ [Next]_queueVars
      => EnteredFirst'
  <2> SUFFICES ASSUME TypeOK, UniqueOrderNumbers, HoldsNumber, Places, EnteredFirst,
                      [Next]_queueVars
               PROVE  EnteredFirst'
    OBVIOUS
  <2> USE DEF EnteredFirst
  <2>w. \A r \in InHand : r \in Requests /\ handler[r] = "accepted" /\ num[r] \in Numbers
    BY DEF Places, HoldsNumber, Holding
  <2>1. ASSUME NEW r \in Requests,
               \/ Arrive(r) \/ Invalid(r) \/ Reserve(r) \/ ReserveFails(r)
               \/ Enqueue(r) \/ Overflow(r) \/ SendPanics(r)
        PROVE  EnteredFirst'
    <3>1. UNCHANGED <<jobs, lost, alive>>
      BY <2>1 DEF Arrive, Invalid, Reserve, ReserveFails, Enqueue, Overflow, SendPanics,
         storeVars, lifeVars
    <3>2. \A q \in Requests : handler'[q] \in {"registered", "overflow"} =>
            handler[q] \in {"registered", "overflow"} /\ num'[q] = num[q]
      BY <2>1 DEF Arrive, Invalid, Reserve, ReserveFails, Enqueue, Overflow, SendPanics,
         Move, TypeOK
    <3> QED
      BY <3>1, <3>2
  <2>2. ASSUME NEW r \in Requests, Register(r) \/ Unregister(r) PROVE EnteredFirst'
    <3>1. UNCHANGED <<lost, alive, num>> /\ alive
      BY <2>2 DEF Register, Unregister, Move, storeVars, lifeVars
    <3>2. num[r] \in Numbers
      BY <2>2 DEF Register, Unregister, Move, HoldsNumber, Holding
    <3>3. \A q \in Requests : q # r => handler'[q] = handler[q]
      BY <2>2 DEF Register, Unregister, Move, TypeOK
    <3>4. \/ handler'[r] = "registered" /\ SetStatus(num[r], "queued")
          \/ handler'[r] = "refused" /\ SetStatus(num[r], "absent")
      <4>1. CASE Register(r)
        <5>1. SetStatus(num[r], "queued")
          BY <4>1, Zenon DEF Register
        <5>2. handler'[r] = "registered"
          BY <4>1 DEF Register, Move, TypeOK
        <5> QED
          BY <5>1, <5>2, Zenon
      <4>2. CASE Unregister(r)
        <5>1. SetStatus(num[r], "absent")
          BY <4>2, Zenon DEF Unregister
        <5>2. handler'[r] = "refused"
          BY <4>2 DEF Unregister, Move, TypeOK
        <5> QED
          BY <5>1, <5>2, Zenon
      <4> QED
        BY <2>2, <4>1, <4>2
    <3>5. \A q \in Requests : handler'[q] \in {"registered", "overflow"} /\ q # r =>
            num[q] \in Numbers
      BY <3>3 DEF HoldsNumber, Holding
    <3>6. ASSUME ~lost
          PROVE  /\ jobs'[num[r]] = "queued" \/ handler'[r] = "refused"
                 /\ \A q \in Requests : num[q] \in Numbers /\ q # r =>
                      jobs'[num[q]] = jobs[num[q]]
      <4>1. CASE SetStatus(num[r], "queued")
        BY <3>2, <3>6, <4>1, OtherEntries
      <4>2. CASE SetStatus(num[r], "absent") /\ handler'[r] = "refused"
        BY <3>2, <3>6, <4>2, OtherEntries
      <4> QED
        BY <3>4, <4>1, <4>2
    <3> QED
      BY <3>1, <3>3, <3>5, <3>6
  <2>3. ASSUME MarkRunning \/ MarkDone \/ MarkFailed PROVE EnteredFirst'
    <3>1. UNCHANGED <<lost, alive, num, handler>> /\ alive
      BY <2>3 DEF MarkRunning, MarkDone, MarkFailed, WorkerMove, storeVars, lifeVars
    <3>2. worker.job \in InHand
      BY <2>3 DEF MarkRunning, MarkDone, MarkFailed, WorkerMove, InHand
    <3>3. \E status \in {"running", "done", "failed"} : SetStatus(num[worker.job], status)
      BY <2>3 DEF MarkRunning, MarkDone, MarkFailed
    <3>4. \A q \in Requests : handler[q] \in {"registered", "overflow"} =>
            q # worker.job /\ num[q] \in Numbers
      BY <2>w, <3>2 DEF HoldsNumber, Holding
    <3> QED
      BY <2>w, <3>1, <3>2, <3>3, <3>4, OtherEntries
  <2>4. ASSUME NumberLost PROVE EnteredFirst'
    BY <2>4 DEF NumberLost, lifeVars
  <2>5. ASSUME \/ Take \/ WorkerExits \/ HooksDone \/ ProcessStep \/ Cancel \/ StopQueue
               \/ UNCHANGED queueVars
        PROVE  EnteredFirst'
    <3>1. UNCHANGED <<jobs, lost, alive, num, handler>>
      BY <2>5 DEF Take, WorkerExits, HooksDone, ProcessStep, Processed, Cancel, StopQueue,
         storeVars, lifeVars, queueVars
    <3> QED
      BY <3>1
  <2>6. ASSUME Exit PROVE EnteredFirst'
    BY <2>6 DEF Exit, InSubmit, TypeOK
  <2>7. ASSUME Boot PROVE EnteredFirst'
    BY <2>7 DEF Boot, storeVars
  <2> QED
    BY <2>1, <2>2, <2>3, <2>4, <2>5, <2>6, <2>7 DEF Next, SubmitStep, WorkerStep
<1> QED
  BY <1>1, <1>2, QueueTypeCorrect, QueueNumbersUnique, HoldsNumberInductive, PlacesInductive,
     PTL DEF Spec

\* What an order is due depends on the channel, the worker and its outcome.
LEMMA SameDue ==
  ASSUME NEW r, (r \in InChannel') = (r \in InChannel), (r \in InHand') = (r \in InHand),
         (worker'.pc = "taken") = (worker.pc = "taken"), fate'[r] = fate[r]
  PROVE  DueStatus(r)' = DueStatus(r)
BY DEF DueStatus

\* The jobs map tells the truth about every order answered 202
\* (queue.go:81-109, 120-137).
THEOREM QueueStatusIsTrue == Spec => []StatusIsTrue
<1> DEFINE Told == ~lost => \A r \in Requests : handler[r] = "accepted" =>
                     jobs[num[r]] = DueStatus(r)
<1>1. Told <=> StatusIsTrue
  BY Zenon DEF StatusIsTrue, DueStatus
<1>2. Init => Told
  BY DEF Init
<1>3. /\ TypeOK /\ UniqueOrderNumbers /\ HoldsNumber /\ Places /\ EnteredFirst
      /\ Told /\ [Next]_queueVars
      => Told'
  <2> SUFFICES ASSUME TypeOK, UniqueOrderNumbers, HoldsNumber, Places, EnteredFirst, Told,
                      [Next]_queueVars, ~lost',
                      NEW r \in Requests, handler'[r] = "accepted"
               PROVE  jobs'[num'[r]] = DueStatus(r)'
    OBVIOUS
  <2>w. \A q \in InHand : q \in Requests /\ handler[q] = "accepted" /\ num[q] \in Numbers
    BY DEF Places, HoldsNumber, Holding
  <2>n. handler[r] = "accepted" => num[r] \in Numbers
    BY DEF HoldsNumber, Holding
  <2>c. InChannel = Elements(ch) /\ InChannel' = Elements(ch')
    BY DEF InChannel, Elements
  <2>u. /\ UNCHANGED ch => InChannel' = InChannel
        /\ UNCHANGED worker => InHand' = InHand
    BY DEF InChannel, InHand
  <2>1. ASSUME ~lost, handler[r] = "accepted", UNCHANGED <<jobs, num>>,
               DueStatus(r)' = DueStatus(r)
        PROVE  jobs'[num'[r]] = DueStatus(r)'
    BY <2>1
  <2>2. ASSUME NEW q \in Requests,
               \/ Arrive(q) \/ Invalid(q) \/ Reserve(q) \/ ReserveFails(q)
               \/ Overflow(q) \/ SendPanics(q)
        PROVE  jobs'[num'[r]] = DueStatus(r)'
    <3>1. UNCHANGED <<jobs, lost, ch, worker, fate>>
      BY <2>2 DEF Arrive, Invalid, Reserve, ReserveFails, Overflow, SendPanics, storeVars,
         historyVars
    <3>2. handler[r] = "accepted" /\ num'[r] = num[r]
      BY <2>2 DEF Arrive, Invalid, Reserve, ReserveFails, Overflow, SendPanics, Move, TypeOK
    <3>3. DueStatus(r)' = DueStatus(r)
      BY <2>u, <3>1, SameDue
    <3> QED
      BY <3>1, <3>2, <3>3
  <2>3. ASSUME NEW q \in Requests, Enqueue(q)
        PROVE  jobs'[num'[r]] = DueStatus(r)'
    <3>1. /\ UNCHANGED <<jobs, lost, num, worker, fate>>
          /\ handler[q] = "registered"
          /\ r # q => handler[r] = "accepted"
      BY <2>3 DEF Enqueue, Move, TypeOK, storeVars, historyVars
    <3>2. InChannel' = InChannel \cup {q}
      BY <2>3, <2>c, SendElements DEF Enqueue, TypeOK
    <3>3. CASE r = q
      <4>w. r \in InChannel'
        BY <3>2, <3>3
      <4>h. r \notin InHand'
        BY <2>w, <2>u, <3>1, <3>3
      <4>1. DueStatus(r)' = "queued"
        BY <4>w, <4>h DEF DueStatus
      <4>2. jobs[num[r]] = "queued"
        BY <3>1, <3>3 DEF EnteredFirst
      <4> QED
        BY <3>1, <4>1, <4>2
    <3>4. CASE r # q
      <4>1. DueStatus(r)' = DueStatus(r)
        BY <2>u, <3>1, <3>2, <3>4, SameDue
      <4> QED
        BY <2>1, <3>1, <3>4, <4>1
    <3> QED
      BY <3>3, <3>4
  <2>4. ASSUME NEW q \in Requests, Register(q) \/ Unregister(q)
        PROVE  jobs'[num'[r]] = DueStatus(r)'
    <3>1. UNCHANGED <<lost, num, ch, worker, fate>>
      BY <2>4 DEF Register, Unregister, storeVars, historyVars
    <3>2. handler[r] = "accepted" /\ r # q
      BY <2>4 DEF Register, Unregister, Move, TypeOK
    <3>3. num[q] \in Numbers
      BY <2>4 DEF Register, Unregister, Move, HoldsNumber, Holding
    <3>4. \E status \in {"queued", "absent"} : SetStatus(num[q], status)
      BY <2>4 DEF Register, Unregister
    <3>5. jobs'[num[r]] = jobs[num[r]]
      BY <2>n, <3>1, <3>2, <3>3, <3>4, OtherEntries
    <3>6. DueStatus(r)' = DueStatus(r)
      BY <2>u, <3>1, SameDue
    <3> QED
      BY <3>1, <3>2, <3>5, <3>6
  <2>5. ASSUME Take PROVE jobs'[num'[r]] = DueStatus(r)'
    <3>1. UNCHANGED <<jobs, lost, num, handler, fate>>
      BY <2>5 DEF Take, storeVars, historyVars
    <3>2. /\ InHand = {} /\ InHand' = {Head(ch)} /\ worker'.pc = "taken"
          /\ InChannel = InChannel' \cup {Head(ch)}
      BY <2>5, <2>c, ReceiveElements DEF Take, InHand, TypeOK
    <3>3. DueStatus(r)' = DueStatus(r)
      BY <3>1, <3>2 DEF DueStatus
    <3> QED
      BY <2>1, <3>1, <3>3
  <2>6. ASSUME MarkRunning PROVE jobs'[num'[r]] = DueStatus(r)'
    <3>1. /\ UNCHANGED <<lost, num, handler, fate, ch>>
          /\ worker.job \in InHand /\ InHand' = InHand /\ InHand = {worker.job}
          /\ worker'.pc # "taken"
          /\ SetStatus(num[worker.job], "running")
      BY <2>6 DEF MarkRunning, WorkerMove, InHand, TypeOK, storeVars, historyVars
    <3>2. CASE r = worker.job
      <4>1. jobs'[num[r]] = "running"
        BY <2>w, <3>1, <3>2, OtherEntries
      <4>2. DueStatus(r)' = "running"
        BY <2>u, <3>1, <3>2 DEF DueStatus, Places
      <4> QED
        BY <3>1, <4>1, <4>2
    <3>3. CASE r # worker.job
      <4>1. jobs'[num[r]] = jobs[num[r]]
        BY <2>w, <2>n, <3>1, <3>3, OtherEntries
      <4>2. DueStatus(r)' = DueStatus(r)
        BY <2>u, <3>1, <3>3 DEF DueStatus
      <4> QED
        BY <3>1, <4>1, <4>2
    <3> QED
      BY <3>2, <3>3
  <2>7. ASSUME MarkDone \/ MarkFailed PROVE jobs'[num'[r]] = DueStatus(r)'
    <3>1. PICK status \in {"done", "failed"} :
            /\ SetStatus(num[worker.job], status)
            /\ fate' = [fate EXCEPT ![worker.job] = status]
      BY <2>7 DEF MarkDone, MarkFailed
    <3>2. /\ UNCHANGED <<lost, num, handler, ch>>
          /\ InHand = {worker.job} /\ InHand' = {}
      BY <2>7 DEF MarkDone, MarkFailed, WorkerMove, IdleWorker, InHand, TypeOK, storeVars
    <3>3. CASE r = worker.job
      <4>1. jobs'[num[r]] = status
        BY <2>w, <3>1, <3>2, <3>3, OtherEntries
      <4>2. r \notin InChannel'
        BY <2>u, <3>2, <3>3 DEF Places
      <4>3. DueStatus(r)' = status
        BY <3>1, <3>2, <3>3, <4>2 DEF DueStatus, TypeOK
      <4> QED
        BY <3>2, <4>1, <4>3
    <3>4. CASE r # worker.job
      <4>1. jobs'[num[r]] = jobs[num[r]]
        BY <2>w, <2>n, <3>1, <3>2, <3>4, OtherEntries
      <4>2. fate'[r] = fate[r]
        BY <3>1, <3>4 DEF TypeOK
      <4>3. DueStatus(r)' = DueStatus(r)
        BY <2>u, <3>2, <3>4, <4>2 DEF DueStatus
      <4> QED
        BY <3>2, <4>1, <4>3
    <3> QED
      BY <3>3, <3>4
  <2>8. ASSUME WorkerExits \/ HooksDone \/ ProcessStep PROVE jobs'[num'[r]] = DueStatus(r)'
    <3>1. UNCHANGED <<jobs, lost, num, handler, fate, ch>>
      BY <2>8 DEF WorkerExits, HooksDone, ProcessStep, Processed, storeVars, historyVars
    <3>2. InHand' = InHand /\ worker.pc # "taken" /\ worker'.pc # "taken"
      <4>1. CASE WorkerExits
        BY <4>1 DEF WorkerExits, WorkerMove, InHand, TypeOK
      <4>2. CASE HooksDone
        BY <4>2 DEF HooksDone, IdleWorker, InHand, TypeOK
      <4>3. ASSUME NEW result \in {"succeeded", "erred"}, Processed(result)
            PROVE  InHand' = InHand /\ worker.pc # "taken" /\ worker'.pc # "taken"
        BY <4>3 DEF Processed, WorkerMove, InHand, TypeOK
      <4> QED
        BY <2>8, <4>1, <4>2, <4>3 DEF ProcessStep
    <3>3. DueStatus(r)' = DueStatus(r)
      BY <2>u, <3>1, <3>2, SameDue
    <3> QED
      BY <2>1, <3>1, <3>3
  <2>9. ASSUME NumberLost \/ Exit PROVE FALSE
    BY <2>9 DEF NumberLost, Exit, TypeOK
  <2>10. ASSUME Cancel \/ StopQueue \/ Boot \/ UNCHANGED queueVars
         PROVE  jobs'[num'[r]] = DueStatus(r)'
    <3>1. UNCHANGED <<jobs, lost, num, handler, fate, ch, worker>>
      BY <2>10 DEF Cancel, StopQueue, Boot, queueVars, storeVars, historyVars
    <3>2. DueStatus(r)' = DueStatus(r)
      BY <2>u, <3>1, SameDue
    <3> QED
      BY <2>1, <3>1, <3>2
  <2> QED
    BY <2>2, <2>3, <2>4, <2>5, <2>6, <2>7, <2>8, <2>9, <2>10
       DEF Next, SubmitStep, WorkerStep
<1> QED
  BY <1>1, <1>2, <1>3, QueueTypeCorrect, QueueNumbersUnique, HoldsNumberInductive,
     PlacesInductive, EnteredFirstInductive, PTL DEF Spec

\* A request whose order is entered and not yet taken up by the worker.
OnItsWay(r) ==
  \/ handler[r] \in {"registered", "overflow"}
  \/ r \in InChannel
  \/ worker.pc = "taken" /\ worker.job = r

\* No stale "queued" entry: each stands for a request in Submit, in the channel
\* or just received (queue.go:120-137, 81-83).
THEOREM QueueQueuedIsOnItsWay == Spec => []QueuedIsOnItsWay
<1> DEFINE Expected(n) == \E r \in Requests : num[r] = n /\ OnItsWay(r)
           Known == (~lost /\ ~closed) => \A n \in Numbers : jobs[n] = "queued" => Expected(n)
<1>1. Known <=> QueuedIsOnItsWay
  BY Zenon DEF QueuedIsOnItsWay, OnItsWay
<1>2. Init => Known
  BY DEF Init, NoJobs
<1>3. /\ TypeOK /\ UniqueOrderNumbers /\ HoldsNumber /\ Places /\ EnteredFirst
      /\ Known /\ [Next]_queueVars
      => Known'
  <2> SUFFICES ASSUME TypeOK, UniqueOrderNumbers, HoldsNumber, Places, EnteredFirst, Known,
                      [Next]_queueVars, ~lost', ~closed',
                      NEW n \in Numbers, jobs'[n] = "queued"
               PROVE  Expected(n)'
    OBVIOUS
  <2>c. InChannel = Elements(ch) /\ InChannel' = Elements(ch')
    BY DEF InChannel, Elements
  <2>u. UNCHANGED ch => InChannel' = InChannel
    BY DEF InChannel
  <2>i. \A r \in InChannel : handler[r] = "accepted"
    BY DEF Places
  <2>h. worker.pc = "taken" => handler[worker.job] = "accepted"
    BY DEF Places, InHand
  <2>1. ASSUME ~lost, ~closed, jobs[n] = "queued",
               \A r \in Requests : num[r] = n /\ OnItsWay(r) => num'[r] = n /\ OnItsWay(r)'
        PROVE  Expected(n)'
    BY <2>1
  <2>2. ASSUME NEW q \in Requests,
               \/ Arrive(q) \/ Invalid(q) \/ Reserve(q) \/ ReserveFails(q) \/ Overflow(q)
        PROVE  Expected(n)'
    <3>1. UNCHANGED <<jobs, lost, closed, ch, worker>>
      BY <2>2 DEF Arrive, Invalid, Reserve, ReserveFails, Overflow, storeVars, lifeVars
    <3>2. \A r \in Requests : r # q => handler'[r] = handler[r] /\ num'[r] = num[r]
      BY <2>2 DEF Arrive, Invalid, Reserve, ReserveFails, Overflow, Move, TypeOK
    <3>3. \/ handler[q] \in {"new", "reserving"}
          \/ handler[q] = "registered" /\ handler'[q] = "overflow" /\ num'[q] = num[q]
      BY <2>2 DEF Arrive, Invalid, Reserve, ReserveFails, Overflow, Move, TypeOK
    <3>4. ASSUME NEW r \in Requests, num[r] = n, OnItsWay(r)
          PROVE  num'[r] = n /\ OnItsWay(r)'
      BY <2>u, <2>i, <2>h, <3>1, <3>2, <3>3, <3>4 DEF OnItsWay
    <3> QED
      BY <2>1, <3>1, <3>4
  <2>3. ASSUME NEW q \in Requests, SendPanics(q) PROVE FALSE
    BY <2>3 DEF SendPanics, lifeVars
  <2>4. ASSUME NEW q \in Requests, Register(q) PROVE Expected(n)'
    <3>1. /\ UNCHANGED <<lost, closed, num, ch, worker>>
          /\ \A r \in Requests : r # q => handler'[r] = handler[r]
          /\ handler[q] = "reserved" /\ handler'[q] = "registered"
      BY <2>4 DEF Register, Move, TypeOK, storeVars, lifeVars
    <3>2. CASE num[q] = n
      BY <3>1, <3>2 DEF OnItsWay
    <3>3. CASE num[q] # n
      <4>1. jobs[n] = "queued"
        BY <2>4, <3>3 DEF Register, SetStatus, TypeOK
      <4>2. ASSUME NEW r \in Requests, num[r] = n, OnItsWay(r)
            PROVE  num'[r] = n /\ OnItsWay(r)'
        BY <2>u, <3>1, <3>3, <4>2 DEF OnItsWay
      <4> QED
        BY <2>1, <3>1, <4>1, <4>2
    <3> QED
      BY <3>2, <3>3
  <2>5. ASSUME NEW q \in Requests, Enqueue(q) PROVE Expected(n)'
    <3>1. /\ UNCHANGED <<jobs, lost, closed, num, worker>>
          /\ \A r \in Requests : r # q => handler'[r] = handler[r]
      BY <2>5 DEF Enqueue, Move, TypeOK, storeVars, lifeVars
    <3>2. InChannel' = InChannel \cup {q}
      BY <2>5, <2>c, SendElements DEF Enqueue, TypeOK
    <3>3. ASSUME NEW r \in Requests, num[r] = n, OnItsWay(r)
          PROVE  num'[r] = n /\ OnItsWay(r)'
      <4>1. CASE r = q
        BY <3>1, <3>2, <3>3, <4>1 DEF OnItsWay
      <4>2. CASE r # q
        BY <3>1, <3>2, <3>3, <4>2 DEF OnItsWay
      <4> QED
        BY <4>1, <4>2
    <3> QED
      BY <2>1, <3>1, <3>3
  <2>6. ASSUME NEW q \in Requests, Unregister(q) PROVE Expected(n)'
    <3>1. /\ UNCHANGED <<lost, closed, num, ch, worker>>
          /\ \A r \in Requests : r # q => handler'[r] = handler[r]
          /\ handler[q] = "overflow" /\ num[q] \in Numbers
      BY <2>6 DEF Unregister, Move, TypeOK, storeVars, lifeVars, HoldsNumber, Holding
    <3>2. num[q] # n /\ jobs[n] = "queued"
      BY <2>6, <3>1 DEF Unregister, SetStatus, TypeOK
    <3>3. ASSUME NEW r \in Requests, num[r] = n, OnItsWay(r)
          PROVE  num'[r] = n /\ OnItsWay(r)'
      BY <2>u, <3>1, <3>2, <3>3 DEF OnItsWay
    <3> QED
      BY <2>1, <3>1, <3>2, <3>3
  <2>7. ASSUME Take PROVE Expected(n)'
    <3>1. UNCHANGED <<jobs, lost, closed, num, handler>> /\ worker.pc = "select"
      BY <2>7 DEF Take, storeVars, lifeVars
    <3>2. /\ worker'.pc = "taken" /\ worker'.job = Head(ch)
          /\ InChannel = InChannel' \cup {Head(ch)}
      BY <2>7, <2>c, ReceiveElements DEF Take, TypeOK
    <3>3. ASSUME NEW r \in Requests, num[r] = n, OnItsWay(r)
          PROVE  num'[r] = n /\ OnItsWay(r)'
      BY <3>1, <3>2, <3>3 DEF OnItsWay
    <3> QED
      BY <2>1, <3>1, <3>3
  <2>8. ASSUME MarkRunning PROVE Expected(n)'
    <3>1. /\ UNCHANGED <<lost, closed, num, handler, ch>>
          /\ worker.job \in InHand /\ SetStatus(num[worker.job], "running")
      BY <2>8 DEF MarkRunning, WorkerMove, InHand, storeVars, lifeVars
    <3>2. num[worker.job] \in Numbers
      BY <3>1 DEF Places, HoldsNumber, Holding
    <3>3. num[worker.job] # n /\ jobs[n] = "queued"
      BY <3>1, <3>2 DEF SetStatus, TypeOK
    <3>4. ASSUME NEW r \in Requests, num[r] = n, OnItsWay(r)
          PROVE  num'[r] = n /\ OnItsWay(r)'
      BY <2>u, <3>1, <3>3, <3>4 DEF OnItsWay
    <3> QED
      BY <2>1, <3>1, <3>3, <3>4
  <2>9. ASSUME MarkDone \/ MarkFailed PROVE Expected(n)'
    <3>1. /\ UNCHANGED <<lost, closed, num, handler, ch>>
          /\ worker.pc # "taken" /\ worker.job \in InHand
      BY <2>9 DEF MarkDone, MarkFailed, WorkerMove, InHand, storeVars, lifeVars
    <3>2. PICK status \in {"done", "failed"} : SetStatus(num[worker.job], status)
      BY <2>9 DEF MarkDone, MarkFailed
    <3>3. num[worker.job] \in Numbers
      BY <3>1 DEF Places, HoldsNumber, Holding
    <3>4. jobs[n] = "queued"
      BY <3>2, <3>3 DEF SetStatus, TypeOK
    <3>5. ASSUME NEW r \in Requests, num[r] = n, OnItsWay(r)
          PROVE  num'[r] = n /\ OnItsWay(r)'
      BY <2>u, <3>1, <3>5 DEF OnItsWay
    <3> QED
      BY <2>1, <3>1, <3>4, <3>5
  <2>10. ASSUME WorkerExits \/ HooksDone \/ ProcessStep PROVE Expected(n)'
    <3>1. /\ UNCHANGED <<jobs, lost, closed, num, handler, ch>>
          /\ worker.pc # "taken"
      BY <2>10 DEF WorkerExits, HooksDone, ProcessStep, Processed, WorkerMove, storeVars,
         lifeVars
    <3>2. ASSUME NEW r \in Requests, num[r] = n, OnItsWay(r)
          PROVE  num'[r] = n /\ OnItsWay(r)'
      BY <2>u, <3>1, <3>2 DEF OnItsWay
    <3> QED
      BY <2>1, <3>1, <3>2
  <2>11. ASSUME NumberLost \/ StopQueue PROVE FALSE
    BY <2>11 DEF NumberLost, StopQueue
  <2>12. ASSUME Exit \/ Boot PROVE FALSE
    <3>1. jobs' = NoJobs
      BY <2>12 DEF Exit, Boot, EnteredFirst
    <3> QED
      BY <3>1 DEF NoJobs
  <2>13. ASSUME Cancel \/ UNCHANGED queueVars PROVE Expected(n)'
    <3>1. UNCHANGED <<jobs, lost, closed, num, handler, ch, worker>>
      BY <2>13 DEF Cancel, queueVars, storeVars
    <3>2. ASSUME NEW r \in Requests, num[r] = n, OnItsWay(r)
          PROVE  num'[r] = n /\ OnItsWay(r)'
      BY <2>u, <3>1, <3>2 DEF OnItsWay
    <3> QED
      BY <2>1, <3>1, <3>2
  <2> QED
    BY <2>2, <2>3, <2>4, <2>5, <2>6, <2>7, <2>8, <2>9, <2>10, <2>11, <2>12, <2>13
       DEF Next, SubmitStep, WorkerStep
<1> QED
  BY <1>1, <1>2, <1>3, QueueTypeCorrect, QueueNumbersUnique, HoldsNumberInductive,
     PlacesInductive, EnteredFirstInductive, PTL DEF Spec
=============================================================================
