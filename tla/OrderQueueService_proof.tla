------------------------ MODULE OrderQueueService_proof -----------------------
(***************************************************************************)
(* Proofs that OrderQueue keeps its promises, for any set of requests, any *)
(* capacity and any number of failures, cancellations and restarts: orders *)
(* are numbered and served in the order of arrival, the number store is    *)
(* used as NumberSequence allows, and the clients are served as            *)
(* OrderService says.                                                      *)
(***************************************************************************)
EXTENDS OrderQueue_proof

\* The facts about the queue that the proofs below rest on.
KnownOfQueue ==
  /\ TypeOK
  /\ NumbersCounted
  /\ HoldsNumber
  /\ Places

\* What is known of the queue holds in every state.
LEMMA KnownOfQueueHolds == Spec => []KnownOfQueue
BY QueueTypeCorrect, NumbersInductive, HoldsNumberInductive, PlacesInductive, PTL
   DEF KnownOfQueue

-----------------------------------------------------------------------------
(* The use of the number store.                                            *)

\* A step that leaves a request's number and its place before or after the
\* reservation alone leaves its stage alone.
LEMMA SameNumberStage ==
  ASSUME KnownOfQueue, UNCHANGED num,
         \A r \in Requests : handler'[r] # handler[r] =>
           num[r] # 0 \/ (handler[r] \in {"new", "invalid"} /\ handler'[r] \in {"new", "invalid"})
  PROVE  AbsCall' = AbsCall
<1>1. \A r \in Requests : NumberStage(r)' = NumberStage(r)
  BY DEF NumberStage
<1> QED
  BY <1>1 DEF AbsCall

\* Each step of the queue is a step of the number sequence or leaves it alone.
LEMMA NumberStepRefines ==
  ASSUME KnownOfQueue, [Next]_queueVars
  PROVE  [Sequence!Next]_(Sequence!vars)
<1> USE DEF KnownOfQueue
<1>n. \A r \in Requests : handler[r] \in Holding => num[r] # 0
  BY DEF HoldsNumber, Numbers
<1>z. \A r \in Requests : handler[r] \in {"new", "reserving"} => num[r] = 0
  BY DEF NumbersCounted
<1>1. ASSUME UNCHANGED <<last, num, AbsCall>>
      PROVE  [Sequence!Next]_(Sequence!vars)
  BY <1>1 DEF Sequence!vars
<1>2. ASSUME NEW r \in Requests, Arrive(r) PROVE Sequence!Next
  <2>1. AbsCall[r] = "new" /\ AbsCall' = [AbsCall EXCEPT ![r] = "busy"]
    BY <1>2, <1>z DEF Arrive, Move, AbsCall, NumberStage, TypeOK
  <2> QED
    BY <1>2, <2>1 DEF Arrive, storeVars, Sequence!Next, Sequence!Begin, Sequence!Move
<1>3. ASSUME NEW r \in Requests, Reserve(r) PROVE Sequence!Next
  <2>n. /\ handler[r] = "reserving" /\ num[r] = 0 /\ num'[r] # 0
        /\ \A q \in Requests : q # r => num'[q] = num[q] /\ handler'[q] = handler[q]
    BY <1>3, <1>z, QueueAssumption DEF Reserve, Move, TypeOK, QueueAssumption
  <2>1. AbsCall[r] = "busy" /\ AbsCall' = [AbsCall EXCEPT ![r] = "issued"]
    BY <2>n DEF AbsCall, NumberStage
  <2> QED
    BY <1>3, <2>1 DEF Reserve, Sequence!Next, Sequence!Issue, Sequence!Move
<1>4. ASSUME NEW r \in Requests, ReserveFails(r) PROVE Sequence!Next
  <2>1. AbsCall[r] = "busy" /\ AbsCall' = [AbsCall EXCEPT ![r] = "refused"]
    BY <1>4, <1>z DEF ReserveFails, Move, AbsCall, NumberStage, TypeOK
  <2> QED
    BY <1>4, <2>1 DEF ReserveFails, Sequence!Next, Sequence!Refuse, Sequence!Move
<1>5. ASSUME NEW r \in Requests,
             \/ Invalid(r) \/ Register(r) \/ Enqueue(r) \/ Overflow(r) \/ Unregister(r)
             \/ SendPanics(r)
      PROVE  [Sequence!Next]_(Sequence!vars)
  <2>1. UNCHANGED <<last, num>>
    BY <1>5 DEF Invalid, Register, Enqueue, Overflow, Unregister, SendPanics, storeVars
  <2>2. \A q \in Requests : handler'[q] # handler[q] =>
          \/ handler[q] \in Holding
          \/ handler[q] \in {"new", "invalid"} /\ handler'[q] \in {"new", "invalid"}
    BY <1>5 DEF Invalid, Register, Enqueue, Overflow, Unregister, SendPanics, Move, Holding,
       TypeOK
  <2>3. AbsCall' = AbsCall
    BY <1>n, <2>1, <2>2, SameNumberStage
  <2> QED
    BY <1>1, <2>1, <2>3
<1>b. \A r \in Requests : handler[r] = "reserving" => AbsCall[r] = "busy"
  BY <1>z DEF AbsCall, NumberStage
<1>6. ASSUME NumberLost PROVE Sequence!Next
  <2>1. UNCHANGED <<num, handler>> /\ last' = 0
    BY <1>6 DEF NumberLost
  <2>2. AbsCall' = AbsCall
    BY <2>1, SameNumberStage
  <2>3. \E r \in Requests : AbsCall[r] = "busy"
    BY <1>6, <1>b DEF NumberLost
  <2> QED
    BY <2>1, <2>2, <2>3 DEF Sequence!Next, Sequence!Lose
<1>7. ASSUME Exit PROVE Sequence!Next
  <2>1. UNCHANGED num
    BY <1>7 DEF Exit
  <2>2. \A r \in Requests :
          NumberStage(r)' = IF NumberStage(r) = "busy" THEN "dead" ELSE NumberStage(r)
    <3> SUFFICES ASSUME NEW r \in Requests
                 PROVE  NumberStage(r)' = IF NumberStage(r) = "busy" THEN "dead"
                                                                     ELSE NumberStage(r)
      OBVIOUS
    <3>1. handler'[r] = IF handler[r] \in InSubmit THEN "dropped"
                        ELSE IF handler[r] = "accepted" THEN "past" ELSE handler[r]
      BY <1>7 DEF Exit
    <3>2. CASE num[r] # 0
      BY <2>1, <3>2 DEF NumberStage
    <3>3. CASE num[r] = 0
      <4>1. handler[r] \notin Holding
        BY <1>n, <3>3
      <4> QED
        BY <2>1, <3>1, <3>3, <4>1 DEF NumberStage, InSubmit, Holding
    <3> QED
      BY <3>2, <3>3
  <2>3. AbsCall' = [r \in Requests |-> IF AbsCall[r] = "busy" THEN "dead" ELSE AbsCall[r]]
    BY <2>2 DEF AbsCall
  <2>4. last' \in {last} \cup (IF \E r \in Requests : AbsCall[r] = "busy" THEN {0} ELSE {})
    BY <1>7, <1>b DEF Exit
  <2> QED
    BY <2>1, <2>3, <2>4 DEF Sequence!Next, Sequence!Crash
<1>8. CASE \/ WorkerStep \/ ProcessStep \/ Cancel \/ StopQueue \/ Boot
           \/ UNCHANGED queueVars
  <2>1. UNCHANGED <<last, num, handler>>
    BY <1>8 DEF WorkerStep, Take, WorkerExits, MarkRunning, MarkDone, MarkFailed, HooksDone,
       ProcessStep, Processed, Cancel, StopQueue, Boot, storeVars, queueVars
  <2>2. AbsCall' = AbsCall
    BY <2>1, SameNumberStage
  <2> QED
    BY <1>1, <2>1, <2>2
<1> QED
  BY <1>2, <1>3, <1>4, <1>5, <1>6, <1>7, <1>8 DEF Next, SubmitStep

\* The queue uses the number store only as NumberSequence allows: one call for
\* each request, none after an answer (queue.go:114-118, 147-158).
THEOREM QueueUsesNumberSequence == Spec => UsesNumberSequence
<1>1. Init => Sequence!Init
  BY DEF Init, Sequence!Init, AbsCall, NumberStage
<1> QED
  BY <1>1, NumberStepRefines, KnownOfQueueHolds, PTL
     DEF Spec, UsesNumberSequence, Sequence!Spec
-----------------------------------------------------------------------------
(* The service to the clients.                                             *)

\* A request's place in the service depends on its handler, its outcome and
\* whether the worker has it.
LEMMA SameOrderStage ==
  ASSUME NEW r, handler'[r] = handler[r], fate'[r] = fate[r],
         handler[r] = "accepted" => (r \in InHand' <=> r \in InHand)
  PROVE  OrderStage(r)' = OrderStage(r)
BY DEF OrderStage, Outcome, InSubmit

\* The place of a request before it is served, and of one that is served.
LEMMA OrderStageFacts ==
  ASSUME NEW r
  PROVE  /\ handler[r] \in {"invalid", "refused", "dropped"} => OrderStage(r) = "turned away"
         /\ handler[r] \in {"new"} \cup InSubmit => OrderStage(r) = "new"
         /\ handler[r] \in {"accepted", "past"} => OrderStage(r) = Outcome(r)
BY DEF OrderStage, InSubmit

\* Each step of the queue is a step of the service or is not seen by its clients.
LEMMA ServiceStepRefines ==
  ASSUME KnownOfQueue, [Next]_queueVars
  PROVE  [Service!Next]_(Service!vars)
<1> USE DEF KnownOfQueue
<1>f. \A r \in Requests : handler[r] \notin {"accepted", "past"} => fate[r] = "open"
  BY DEF Places, TypeOK
<1>h. \A r \in InHand : r \in Requests /\ handler[r] = "accepted" /\ fate[r] = "open"
  BY DEF Places
<1>s. ASSUME \A r \in Requests : OrderStage(r)' = OrderStage(r), UNCHANGED ch
      PROVE  [Service!Next]_(Service!vars)
  BY <1>s DEF Service!vars, AbsOrder
<1>u. UNCHANGED worker => InHand' = InHand
  BY DEF InHand
<1>1. ASSUME NEW r \in Requests, Arrive(r) \/ Reserve(r) \/ Register(r) \/ Overflow(r)
      PROVE  [Service!Next]_(Service!vars)
  <2>1. /\ UNCHANGED <<ch, worker, fate>>
        /\ handler[r] \in {"new"} \cup InSubmit /\ handler'[r] \in {"new"} \cup InSubmit
        /\ \A q \in Requests : q # r => handler'[q] = handler[q]
    BY <1>1 DEF Arrive, Reserve, Register, Overflow, Move, InSubmit, TypeOK, historyVars
  <2>2. OrderStage(r)' = OrderStage(r)
    BY <2>1, OrderStageFacts DEF OrderStage, InSubmit
  <2> QED
    BY <1>s, <1>u, <2>1, <2>2, SameOrderStage
<1>2. ASSUME NEW r \in Requests,
             Invalid(r) \/ ReserveFails(r) \/ Unregister(r) \/ SendPanics(r)
      PROVE  Service!Next
  <2>1. /\ UNCHANGED <<ch, worker, fate>>
        /\ handler[r] \in {"new"} \cup InSubmit
        /\ handler'[r] \in {"invalid", "refused", "dropped"}
        /\ \A q \in Requests : q # r => handler'[q] = handler[q]
    BY <1>2 DEF Invalid, ReserveFails, Unregister, SendPanics, Move, InSubmit, TypeOK,
       historyVars
  <2>2. OrderStage(r) = "new" /\ OrderStage(r)' = "turned away"
    BY <2>1 DEF OrderStage, InSubmit
  <2>3. \A q \in Requests : q # r => OrderStage(q)' = OrderStage(q)
    BY <1>u, <2>1, SameOrderStage
  <2>4. AbsOrder[r] = "new" /\ AbsOrder' = [AbsOrder EXCEPT ![r] = "turned away"]
    BY <2>2, <2>3 DEF AbsOrder
  <2> QED
    BY <2>1, <2>4 DEF Service!Next, Service!TurnAway
<1>3. ASSUME NEW r \in Requests, Enqueue(r) PROVE Service!Next
  <2>1. /\ UNCHANGED <<worker, fate>> /\ ch' = Append(ch, r)
        /\ handler[r] = "registered" /\ handler'[r] = "accepted"
        /\ \A q \in Requests : q # r => handler'[q] = handler[q]
    BY <1>3 DEF Enqueue, Move, TypeOK, historyVars
  <2>2. OrderStage(r) = "new" /\ OrderStage(r)' = "accepted"
    <3>1. fate'[r] = "open" /\ r \notin InHand'
      BY <1>f, <1>h, <1>u, <2>1
    <3> QED
      BY <2>1, <3>1 DEF OrderStage, Outcome, InSubmit
  <2>3. \A q \in Requests : q # r => OrderStage(q)' = OrderStage(q)
    BY <1>u, <2>1, SameOrderStage
  <2>4. AbsOrder[r] = "new" /\ AbsOrder' = [AbsOrder EXCEPT ![r] = "accepted"]
    BY <2>2, <2>3 DEF AbsOrder
  <2> QED
    BY <2>1, <2>4 DEF Service!Next, Service!Accept
<1>4. ASSUME Take PROVE Service!Next
  <2>1. /\ UNCHANGED <<handler, fate>> /\ ch # <<>> /\ ch' = Tail(ch)
        /\ InHand = {} /\ InHand' = {Head(ch)} /\ Head(ch) \in InChannel
    BY <1>4, ReceiveElements DEF Take, TypeOK, InHand, InChannel, Elements, historyVars
  <2>2. PICK r \in Requests : r = Head(ch) /\ handler[r] = "accepted" /\ fate[r] = "open"
    BY <2>1 DEF Places, TypeOK
  <2>3. OrderStage(r)' = "processing"
    BY <2>1, <2>2 DEF OrderStage, Outcome, InSubmit
  <2>4. \A q \in Requests : q # r => OrderStage(q)' = OrderStage(q)
    BY <2>1, <2>2, SameOrderStage
  <2>5. AbsOrder' = [AbsOrder EXCEPT ![r] = "processing"]
    BY <2>2, <2>3, <2>4 DEF AbsOrder
  <2>6. ASSUME NEW q \in Requests PROVE OrderStage(q) # "processing"
    <3>1. fate[q] \in {"open", "done", "failed"} /\ handler[q] \in HandlerStages
      BY DEF TypeOK
    <3>2. Outcome(q) # "processing"
      BY <2>1, <3>1 DEF Outcome
    <3> QED
      BY <3>1, <3>2 DEF OrderStage, InSubmit, HandlerStages
  <2> QED
    BY <2>1, <2>2, <2>5, <2>6 DEF Service!Next, Service!Begin, AbsOrder
<1>5. ASSUME MarkDone \/ MarkFailed PROVE Service!Next
  <2>1. PICK outcome \in {"done", "failed"} : fate' = [fate EXCEPT ![worker.job] = outcome]
    BY <1>5 DEF MarkDone, MarkFailed
  <2>2. UNCHANGED <<handler, ch>> /\ InHand = {worker.job} /\ InHand' = {}
    BY <1>5 DEF MarkDone, MarkFailed, WorkerMove, IdleWorker, InHand, TypeOK
  <2>3. PICK r \in Requests : /\ r = worker.job /\ handler[r] = "accepted"
                              /\ fate[r] = "open" /\ fate'[r] = outcome
    BY <1>h, <2>1, <2>2 DEF TypeOK
  <2>4. OrderStage(r) = "processing" /\ OrderStage(r)' = outcome
    BY <2>2, <2>3 DEF OrderStage, Outcome, InSubmit
  <2>5. \A q \in Requests : q # r => OrderStage(q)' = OrderStage(q)
    BY <2>1, <2>2, <2>3, SameOrderStage DEF TypeOK
  <2>6. AbsOrder[r] = "processing" /\ AbsOrder' = [AbsOrder EXCEPT ![r] = outcome]
    BY <2>4, <2>5 DEF AbsOrder
  <2> QED
    BY <2>2, <2>6 DEF Service!Next, Service!Settle
<1>6. ASSUME Exit PROVE Service!Next
  <2> DEFINE Dropped == {r \in Requests : handler[r] \in InSubmit}
  <2>1. /\ ch' = <<>> /\ UNCHANGED fate
        /\ \A r \in Requests :
             handler'[r] = IF handler[r] \in InSubmit THEN "dropped"
                           ELSE IF handler[r] = "accepted" THEN "past" ELSE handler[r]
    BY <1>6 DEF Exit, historyVars
  <2>2. ASSUME NEW r \in Requests
        PROVE  OrderStage(r)' = IF r \in Dropped THEN "turned away"
                                ELSE IF OrderStage(r) \in Service!Open THEN "lost"
                                ELSE OrderStage(r)
    <3>1. CASE handler[r] \in InSubmit
      BY <2>1, <3>1 DEF OrderStage, InSubmit
    <3>2. CASE handler[r] \in {"new", "invalid", "refused", "dropped"}
      BY <2>1, <3>2 DEF OrderStage, InSubmit, Service!Open
    <3>3. CASE handler[r] \in {"accepted", "past"}
      <4>1. fate[r] \in {"open", "done", "failed"}
        BY DEF TypeOK
      <4>2. r \in InHand => handler[r] = "accepted"
        BY <1>h
      <4>3. r \notin Dropped /\ handler'[r] = "past" /\ OrderStage(r) = Outcome(r)
            /\ OrderStage(r)' = Outcome(r)'
        BY <2>1, <3>3 DEF OrderStage, InSubmit
      <4> QED
        BY <2>1, <3>3, <4>1, <4>2, <4>3 DEF Outcome, Service!Open
    <3> QED
      BY <3>1, <3>2, <3>3 DEF TypeOK, HandlerStages, InSubmit
  <2>3. Dropped \in SUBSET {r \in Requests : AbsOrder[r] = "new"}
    BY OrderStageFacts DEF AbsOrder
  <2>4. AbsOrder' = [r \in Requests |-> IF r \in Dropped THEN "turned away"
                                        ELSE IF AbsOrder[r] \in Service!Open THEN "lost"
                                        ELSE AbsOrder[r]]
    BY <2>2 DEF AbsOrder
  <2> HIDE DEF Dropped
  <2> QED
    BY <2>1, <2>3, <2>4 DEF Service!Next, Service!Outage
<1>7. CASE \/ NumberLost \/ WorkerExits \/ MarkRunning \/ HooksDone \/ ProcessStep
           \/ Cancel \/ StopQueue \/ Boot \/ UNCHANGED queueVars
  <2>1. UNCHANGED <<handler, ch, fate>>
    BY <1>7 DEF NumberLost, WorkerExits, MarkRunning, HooksDone, ProcessStep, Processed,
       Cancel, StopQueue, Boot, queueVars, historyVars
  <2>2. InHand' = InHand
    <3>1. CASE WorkerExits \/ MarkRunning
      BY <3>1 DEF WorkerExits, MarkRunning, WorkerMove, InHand, TypeOK
    <3>2. CASE HooksDone
      BY <3>2 DEF HooksDone, IdleWorker, InHand
    <3>3. CASE ProcessStep
      BY <3>3 DEF ProcessStep, Processed, WorkerMove, InHand, TypeOK
    <3>4. CASE NumberLost \/ Cancel \/ StopQueue \/ Boot \/ UNCHANGED queueVars
      BY <1>u, <3>4 DEF NumberLost, Cancel, StopQueue, Boot, queueVars
    <3> QED
      BY <1>7, <3>1, <3>2, <3>3, <3>4
  <2> QED
    BY <1>s, <2>1, <2>2, SameOrderStage
<1> QED
  BY <1>1, <1>2, <1>3, <1>4, <1>5, <1>6, <1>7 DEF Next, SubmitStep, WorkerStep

\* The queue serves its clients as OrderService says, through cancellations,
\* crashes and restarts (queue.go:45-171).
THEOREM QueueImplementsService == Spec => ImplementsService
<1>1. Init => Service!Init
  BY DEF Init, Service!Init, AbsOrder, OrderStage, InSubmit
<1> QED
  BY <1>1, ServiceStepRefines, KnownOfQueueHolds, PTL
     DEF Spec, ImplementsService, Service!Spec
-----------------------------------------------------------------------------
(* The order of arrival.                                                   *)

\* The requests a request came after had been answered 202.
BeforeServed ==
  \A r \in Requests :
    /\ handler[r] = "new" => before[r] = {}
    /\ r \notin before[r]
    /\ \A q \in before[r] : handler[q] \in {"accepted", "past"}

\* A client that posts an order after another was answered 202 sees them
\* numbered, queued and processed in that order (queue.go:45-52, 113-140).
THEOREM QueueInOrderOfArrival == Spec => []InOrderOfArrival
<1> DEFINE Inv == BeforeServed /\ InOrderOfArrival
<1>1. Init => Inv
  BY DEF Init, BeforeServed, InOrderOfArrival
<1>2. KnownOfQueue /\ Inv /\ [Next]_queueVars => Inv'
  <2> SUFFICES ASSUME KnownOfQueue, BeforeServed, InOrderOfArrival, [Next]_queueVars
               PROVE  BeforeServed' /\ InOrderOfArrival'
    OBVIOUS
  <2> USE DEF KnownOfQueue
  <2>t. \A r \in Requests : before[r] \subseteq Requests
    BY DEF TypeOK
  <2>c. InChannel = Elements(ch) /\ InChannel' = Elements(ch')
    BY DEF InChannel, Elements
  <2>p. \A r \in InChannel \cup InHand : handler[r] = "accepted"
    BY DEF Places
  <2>a. \A i \in 1..Len(ch) : ch[i] \in InChannel
    BY DEF InChannel
  <2>1. ASSUME UNCHANGED <<before, num, ch>>, ~lost' => ~lost, InHand' \subseteq InHand,
               \A r \in Requests :
                 /\ handler[r] \in {"accepted", "past"} => handler'[r] \in {"accepted", "past"}
                 /\ handler'[r] = "new" => handler[r] = "new"
        PROVE  BeforeServed' /\ InOrderOfArrival'
    <3>1. InChannel' = InChannel
      BY <2>1 DEF InChannel
    <3>2. BeforeServed'
      BY <2>1, <2>t DEF BeforeServed
    <3>3. InOrderOfArrival'
      BY <2>1, <3>1 DEF InOrderOfArrival
    <3> QED
      BY <3>2, <3>3
  <2>u. UNCHANGED worker => InHand' = InHand
    BY DEF InHand
  <2>2. ASSUME NEW r \in Requests, Arrive(r) PROVE BeforeServed' /\ InOrderOfArrival'
    <3>1. /\ UNCHANGED <<lost, num, ch, worker>>
          /\ handler[r] = "new" /\ handler'[r] = "reserving"
          /\ \A q \in Requests : q # r => handler'[q] = handler[q] /\ before'[q] = before[q]
          /\ before'[r] = {q \in Requests : handler[q] = "accepted"}
      BY <2>2 DEF Arrive, Move, TypeOK, storeVars
    <3>2. num[r] = 0 /\ r \notin InChannel /\ r \notin InHand
      BY <2>p, <3>1 DEF NumbersCounted
    <3>3. BeforeServed'
      BY <2>t, <3>1 DEF BeforeServed
    <3>4. InChannel' = InChannel /\ InHand' = InHand
      BY <2>u, <3>1 DEF InChannel
    <3>5. ASSUME NEW s \in Requests, NEW q \in before'[s]
          PROVE  /\ (~lost' /\ num'[s] # 0) => num'[q] < num'[s]
                 /\ s \in InHand' => q \notin InChannel'
                 /\ \A i, j \in 1..Len(ch') : ch'[i] = q /\ ch'[j] = s => i < j
      <4>1. CASE s = r
        BY <2>a, <3>1, <3>2, <3>4, <4>1
      <4>2. CASE s # r
        BY <3>1, <3>4, <3>5, <4>2 DEF InOrderOfArrival
      <4> QED
        BY <4>1, <4>2
    <3> QED
      BY <3>3, <3>5 DEF InOrderOfArrival
  <2>3. ASSUME NEW r \in Requests, Reserve(r) PROVE BeforeServed' /\ InOrderOfArrival'
    <3>1. /\ UNCHANGED <<lost, before, ch, worker>>
          /\ handler[r] = "reserving" /\ handler'[r] = "reserved"
          /\ \A q \in Requests : q # r => handler'[q] = handler[q] /\ num'[q] = num[q]
          /\ num'[r] = last + 1
      BY <2>3 DEF Reserve, Move, TypeOK, historyVars
    <3>2. BeforeServed'
      BY <2>t, <3>1 DEF BeforeServed
    <3>3. InChannel' = InChannel /\ InHand' = InHand
      BY <2>u, <3>1 DEF InChannel
    <3>4. ASSUME NEW s \in Requests, NEW q \in before'[s], ~lost', num'[s] # 0
          PROVE  num'[q] < num'[s]
      <4>1. q \in Requests /\ q # r /\ q \in before[s]
        BY <2>t, <3>1, <3>4 DEF BeforeServed
      <4>2. CASE s = r
        <5>1. num[q] <= last
          BY <3>1, <3>4, <4>1 DEF NumbersCounted
        <5>2. num[q] \in Nat /\ last \in Nat
          BY <4>1, QueueAssumption DEF TypeOK, QueueAssumption
        <5> QED
          BY <3>1, <4>1, <4>2, <5>1, <5>2
      <4>3. CASE s # r
        BY <3>1, <3>4, <4>1, <4>3 DEF InOrderOfArrival
      <4> QED
        BY <4>2, <4>3
    <3>5. InOrderOfArrival'
      BY <3>1, <3>3, <3>4 DEF InOrderOfArrival
    <3> QED
      BY <3>2, <3>5
  <2>4. ASSUME NEW r \in Requests,
               \/ Invalid(r) \/ ReserveFails(r) \/ Register(r) \/ Overflow(r)
               \/ Unregister(r) \/ SendPanics(r)
        PROVE  BeforeServed' /\ InOrderOfArrival'
    <3>1. /\ UNCHANGED <<before, num, ch, lost, worker>>
          /\ \A q \in Requests :
               /\ handler[q] \in {"accepted", "past"} => handler'[q] \in {"accepted", "past"}
               /\ handler'[q] = "new" => handler[q] = "new"
      BY <2>4 DEF Invalid, ReserveFails, Register, Overflow, Unregister, SendPanics, Move,
         TypeOK, storeVars, historyVars
    <3> QED
      BY <2>1, <2>u, <3>1
  <2>5. ASSUME NEW r \in Requests, Enqueue(r) PROVE BeforeServed' /\ InOrderOfArrival'
    <3>1. /\ UNCHANGED <<before, num, lost, worker>> /\ ch' = Append(ch, r)
          /\ handler[r] = "registered" /\ handler'[r] = "accepted"
          /\ \A q \in Requests : q # r => handler'[q] = handler[q]
      BY <2>5 DEF Enqueue, Move, TypeOK, storeVars, historyVars
    <3>2. BeforeServed'
      BY <2>t, <3>1 DEF BeforeServed
    <3>3. InChannel' = InChannel \cup {r} /\ InHand' = InHand
      BY <2>c, <2>u, <3>1, SendElements DEF TypeOK
    <3>q. /\ Len(ch') = Len(ch) + 1 /\ Len(ch) \in Nat /\ ch'[Len(ch) + 1] = r
          /\ \A i \in 1..Len(ch) : ch'[i] = ch[i]
      BY <3>1 DEF TypeOK
    <3>r. \A i \in 1..Len(ch) : ch[i] # r
      BY <2>a, <2>p, <3>1
    <3>4. /\ Len(ch') = Len(ch) + 1 /\ Len(ch) \in Nat /\ ch'[Len(ch) + 1] = r
          /\ \A i \in 1..Len(ch) : ch'[i] = ch[i] /\ ch[i] # r
      BY <3>q, <3>r
    <3>5. ASSUME NEW s \in Requests, NEW q \in before[s]
          PROVE  /\ s \in InHand' => q \notin InChannel'
                 /\ \A i, j \in 1..Len(ch') : ch'[i] = q /\ ch'[j] = s => i < j
      <4>1. q # r
        BY <3>1, <3>5 DEF BeforeServed
      <4>2. s \in InHand' => q \notin InChannel'
        BY <3>3, <3>5, <4>1 DEF InOrderOfArrival
      <4>3. ASSUME NEW i \in 1..Len(ch'), NEW j \in 1..Len(ch'), ch'[i] = q, ch'[j] = s
            PROVE  i < j
        <5>1. i \in 1..Len(ch) /\ ch[i] = q
          BY <3>4, <4>1, <4>3
        <5>2. CASE j = Len(ch) + 1
          BY <3>4, <5>1, <5>2
        <5>3. CASE j \in 1..Len(ch)
          BY <3>4, <3>5, <4>3, <5>1, <5>3 DEF InOrderOfArrival
        <5> QED
          BY <3>4, <5>2, <5>3
      <4> QED
        BY <4>2, <4>3
    <3> QED
      BY <3>1, <3>2, <3>5 DEF InOrderOfArrival
  <2>6. ASSUME Take PROVE BeforeServed' /\ InOrderOfArrival'
    <3>1. /\ UNCHANGED <<before, num, lost, handler>> /\ ch # <<>> /\ ch' = Tail(ch)
          /\ InHand' = {Head(ch)}
      BY <2>6 DEF Take, InHand, historyVars, storeVars
    <3>2. BeforeServed'
      BY <3>1 DEF BeforeServed
    <3>3. /\ Len(ch) \in Nat /\ Len(ch) > 0 /\ Len(ch') = Len(ch) - 1 /\ Head(ch) = ch[1]
          /\ \A i \in 1..Len(ch') : ch'[i] = ch[i + 1] /\ i + 1 \in 1..Len(ch)
      BY <3>1 DEF TypeOK
    <3>4. ASSUME NEW s \in Requests, NEW q \in before[s]
          PROVE  /\ s \in InHand' => q \notin InChannel'
                 /\ \A i, j \in 1..Len(ch') : ch'[i] = q /\ ch'[j] = s => i < j
      <4>1. \A i, j \in 1..Len(ch) : ch[i] = q /\ ch[j] = s => i < j
        BY <3>4 DEF InOrderOfArrival
      <4>2. \A i, j \in 1..Len(ch') : ch'[i] = q /\ ch'[j] = s => i < j
        BY <3>3, <4>1, SMTT(30)
      <4>3. ASSUME s \in InHand', q \in InChannel' PROVE FALSE
        <5>1. PICK i \in 1..Len(ch') : ch'[i] = q
          BY <4>3 DEF InChannel
        <5>2. ch[i + 1] = q /\ i + 1 \in 1..Len(ch) /\ ch[1] = s /\ 1 \in 1..Len(ch)
          BY <3>1, <3>3, <4>3, <5>1
        <5>3. i + 1 < 1
          BY <4>1, <5>2
        <5> QED
          BY <5>3
      <4> QED
        BY <4>2, <4>3
    <3> QED
      BY <3>1, <3>2, <3>4 DEF InOrderOfArrival
  <2>7. CASE \/ WorkerExits \/ MarkRunning \/ MarkDone \/ MarkFailed \/ HooksDone
             \/ ProcessStep \/ NumberLost \/ Cancel \/ StopQueue \/ Boot
             \/ UNCHANGED queueVars
    <3>1. UNCHANGED <<before, num, ch, handler>> /\ (~lost' => ~lost)
      BY <2>7 DEF WorkerExits, MarkRunning, MarkDone, MarkFailed, HooksDone, ProcessStep,
         Processed, NumberLost, Cancel, StopQueue, Boot, queueVars, storeVars, historyVars
    <3>2. InHand' \subseteq InHand
      <4>1. CASE WorkerExits \/ MarkRunning \/ MarkDone
        BY <4>1 DEF WorkerExits, MarkRunning, MarkDone, WorkerMove, InHand, TypeOK
      <4>2. CASE HooksDone \/ MarkFailed
        BY <4>2 DEF HooksDone, MarkFailed, IdleWorker, InHand
      <4>3. CASE ProcessStep
        BY <4>3 DEF ProcessStep, Processed, WorkerMove, InHand, TypeOK
      <4>4. CASE NumberLost \/ Cancel \/ StopQueue \/ Boot \/ UNCHANGED queueVars
        BY <2>u, <4>4 DEF NumberLost, Cancel, StopQueue, Boot, queueVars
      <4> QED
        BY <2>7, <4>1, <4>2, <4>3, <4>4
    <3> QED
      BY <2>1, <3>1, <3>2
  <2>8. CASE Exit
    <3>1. /\ UNCHANGED <<before, num>> /\ ch' = <<>> /\ (~lost' => ~lost)
          /\ \A r \in Requests :
               /\ handler[r] \in {"accepted", "past"} => handler'[r] \in {"accepted", "past"}
               /\ handler'[r] = "new" => handler[r] = "new"
      <4>1. /\ UNCHANGED <<before, num>> /\ ch' = <<>>
            /\ \A r \in Requests :
                 handler'[r] = IF handler[r] \in InSubmit THEN "dropped"
                               ELSE IF handler[r] = "accepted" THEN "past" ELSE handler[r]
        BY <2>8 DEF Exit, historyVars
      <4>2. ~lost' => ~lost
        BY <2>8, Zenon DEF Exit
      <4> QED
        BY <4>1, <4>2 DEF InSubmit
    <3>2. InHand' = {} /\ InChannel' = {}
      BY <2>8 DEF Exit, IdleWorker, InHand, InChannel
    <3>3. BeforeServed'
      BY <2>t, <3>1 DEF BeforeServed
    <3> QED
      BY <3>1, <3>2, <3>3 DEF InOrderOfArrival
  <2> QED
    BY <2>2, <2>3, <2>4, <2>5, <2>6, <2>7, <2>8 DEF Next, SubmitStep, WorkerStep
<1> QED
  BY <1>1, <1>2, KnownOfQueueHolds, PTL DEF Spec
=============================================================================
