------------------------------ MODULE OrderQueue ------------------------------
(***************************************************************************)
(* internal/erp/hasavshevet/queue.go and the send-order handler in front   *)
(* of it: HTTP handlers reserve an order number, enter a job in the jobs   *)
(* map and send it to a bounded channel; one worker goroutine takes the    *)
(* jobs, has the Sender process them and records how each ended.           *)
(*                                                                         *)
(* The order number store is used as NumberSequence describes it.  What    *)
(* the Sender and the post-order hooks do is left to SendOrder; here       *)
(* processing succeeds or fails.  The daemon's life enters through three   *)
(* actions: Cancel (the queue's context), Exit (the process ends, by a     *)
(* crash or at the end of Stop) and Boot.                                  *)
(***************************************************************************)
EXTENDS Naturals, Sequences, FiniteSets

CONSTANTS
  Requests,     \* POST /api/sendOrder requests, each made once
  Capacity,     \* defaultQueueSize
  Legacy,       \* the number seeded in lastOrderNumber.json
  MaxNumber,    \* bound on order numbers
  MaxExits,     \* bound on ends of the process
  MaxFaults,    \* bound on failed number reservations
  CallsStop,    \* the owner of the queue calls OrderQueue.Stop (the daemon does not)
  NoRequest     \* not a request: the worker has no job

ASSUME QueueAssumption ==
  /\ Capacity \in Nat \ {0}
  /\ Legacy \in Nat
  /\ MaxNumber \in Nat
  /\ Legacy <= MaxNumber
  /\ MaxExits \in Nat
  /\ MaxFaults \in Nat
  /\ CallsStop \in BOOLEAN
  /\ NoRequest \notin Requests

VARIABLES
  last,       \* the number in lastOrderNumber.json
  lost,       \* history: that number has been lost at some time
  handler,    \* where each request's handler is
  num,        \* the order number reserved for a request (0: none yet)
  jobs,       \* OrderQueue.jobs: the status of each job ID
  ch,         \* OrderQueue.ch
  worker,     \* the worker goroutine: its place in run and its job
  closed,     \* OrderQueue.Stop has closed the channel
  cancelled,  \* the queue's context has been cancelled
  alive,      \* the daemon's process runs
  exits,      \* number of ends of the process so far
  faults,     \* number of failed reservations so far
  fate,       \* history: how processing of a request's order ended
  before      \* history: requests answered 202 before a request arrived

storeVars == <<last, lost, faults>>
historyVars == <<fate, before>>
lifeVars == <<closed, cancelled, alive, exits>>
queueVars == <<last, lost, handler, num, jobs, ch, worker, closed,
               cancelled, alive, exits, faults, fate, before>>

Numbers == 1..MaxNumber

Status == {"queued", "running", "done", "failed"}

\* The handler's answers are 400 "invalid", 202 "accepted", 503 "refused";
\* "dropped" lost its connection when the process ended, and "past" was
\* answered 202 by a process that has ended since.
HandlerStages == {"new", "reserving", "reserved", "registered", "overflow",
                  "invalid", "accepted", "refused", "dropped", "past"}

InSubmit == {"reserving", "reserved", "registered", "overflow"}

WorkerStages == {"select", "taken", "processing", "succeeded", "erred",
                 "hooks", "exited"}

TypeOK ==
  /\ last \in 0..MaxNumber
  /\ lost \in BOOLEAN
  /\ handler \in [Requests -> HandlerStages]
  /\ num \in [Requests -> 0..MaxNumber]
  /\ jobs \in [Numbers -> Status \cup {"absent"}]
  /\ ch \in Seq(Requests)
  /\ worker \in [pc : WorkerStages, job : Requests \cup {NoRequest}]
  /\ closed \in BOOLEAN
  /\ cancelled \in BOOLEAN
  /\ alive \in BOOLEAN
  /\ exits \in 0..MaxExits
  /\ faults \in 0..MaxFaults
  /\ fate \in [Requests -> {"open", "done", "failed"}]
  /\ before \in [Requests -> SUBSET Requests]

InChannel == {ch[i] : i \in 1..Len(ch)}

NoJobs == [n \in Numbers |-> "absent"]

IdleWorker == [pc |-> "select", job |-> NoRequest]

Init ==
  /\ last = Legacy
  /\ lost = FALSE
  /\ handler = [r \in Requests |-> "new"]
  /\ num = [r \in Requests |-> 0]
  /\ jobs = NoJobs
  /\ ch = <<>>
  /\ worker = IdleWorker
  /\ closed = FALSE
  /\ cancelled = FALSE
  /\ alive = TRUE
  /\ exits = 0
  /\ faults = 0
  /\ fate = [r \in Requests |-> "open"]
  /\ before = [r \in Requests |-> {}]

Move(r, from, to) ==
  /\ alive
  /\ handler[r] = from
  /\ handler' = [handler EXCEPT ![r] = to]

\* OrderQueue.jobs[id] = status, under the mutex.
SetStatus(n, status) == jobs' = [jobs EXCEPT ![n] = status]

-----------------------------------------------------------------------------
(* The handler and Submit.                                                 *)

\* The handler has validated the request and calls Submit.
Arrive(r) ==
  /\ Move(r, "new", "reserving")
  /\ before' = [before EXCEPT ![r] = {q \in Requests : handler[q] = "accepted"}]
  /\ UNCHANGED <<storeVars, num, jobs, ch, worker, lifeVars, fate>>

\* The handler answers 400 and never calls Submit.
Invalid(r) ==
  /\ Move(r, "new", "invalid")
  /\ UNCHANGED <<storeVars, num, jobs, ch, worker, lifeVars, historyVars>>

\* Mutant: the incremented number is not stored.
ReserveUnpersisted(r) ==
  /\ Move(r, "reserving", "reserved")
  /\ last < MaxNumber
  /\ num' = [num EXCEPT ![r] = last + 1]
  /\ UNCHANGED <<storeVars, jobs, ch, worker, lifeVars, historyVars>>

\* reserveJobIdentity: OrderNumberStore.Next returns a number.
Reserve(r) ==
  /\ Move(r, "reserving", "reserved")
  /\ last < MaxNumber
  /\ last' = last + 1
  /\ num' = [num EXCEPT ![r] = last + 1]
  /\ UNCHANGED <<lost, faults, jobs, ch, worker, lifeVars, historyVars>>

\* OrderNumberStore.Next fails; the handler answers 503 QUEUE_FULL.
ReserveFails(r) ==
  /\ Move(r, "reserving", "refused")
  /\ faults < MaxFaults
  /\ faults' = faults + 1
  /\ UNCHANGED <<last, lost, num, jobs, ch, worker, lifeVars, historyVars>>

\* A failed read or write inside OrderNumberStore.Next loses the number.
NumberLost ==
  /\ alive
  /\ \E r \in Requests : handler[r] = "reserving"
  /\ faults < MaxFaults
  /\ faults' = faults + 1
  /\ last # 0
  /\ last' = 0
  /\ lost' = TRUE
  /\ UNCHANGED <<handler, num, jobs, ch, worker, lifeVars, historyVars>>

\* Mutant: the job is sent without having been entered in the map.
RegisterForgotten(r) ==
  /\ Move(r, "reserved", "registered")
  /\ UNCHANGED <<storeVars, num, jobs, ch, worker, lifeVars, historyVars>>

\* Submit enters the job in the map before it sends it.
Register(r) ==
  /\ Move(r, "reserved", "registered")
  /\ SetStatus(num[r], "queued")
  /\ UNCHANGED <<storeVars, num, ch, worker, lifeVars, historyVars>>

\* Mutant: no return after the send, so that Submit may send again.
EnqueueWithoutReturn(r) ==
  /\ alive
  /\ handler[r] = "registered"
  /\ ~closed
  /\ Len(ch) < Capacity
  /\ ch' = Append(ch, r)
  /\ UNCHANGED <<storeVars, handler, num, jobs, worker, lifeVars, historyVars>>

\* Mutant: the newest job is served first.
EnqueueInFront(r) ==
  /\ Move(r, "registered", "accepted")
  /\ ~closed
  /\ Len(ch) < Capacity
  /\ ch' = <<r>> \o ch
  /\ UNCHANGED <<storeVars, num, jobs, worker, lifeVars, historyVars>>

\* The channel has room: the job is sent and the handler answers 202.
Enqueue(r) ==
  /\ Move(r, "registered", "accepted")
  /\ ~closed
  /\ Len(ch) < Capacity
  /\ ch' = Append(ch, r)
  /\ UNCHANGED <<storeVars, num, jobs, worker, lifeVars, historyVars>>

\* Mutant: no default branch, so that Submit waits for room.
OverflowBlocks(r) == FALSE

\* The channel is full: select takes its default branch ...
Overflow(r) ==
  /\ Move(r, "registered", "overflow")
  /\ ~closed
  /\ Len(ch) = Capacity
  /\ UNCHANGED <<storeVars, num, jobs, ch, worker, lifeVars, historyVars>>

\* Mutant: the entry of a refused job stays in the map.
UnregisterKeepsEntry(r) ==
  /\ Move(r, "overflow", "refused")
  /\ UNCHANGED <<storeVars, num, jobs, ch, worker, lifeVars, historyVars>>

\* Mutant: a refused job gets a status of its own.
UnregisterMarks(r) ==
  /\ Move(r, "overflow", "refused")
  /\ SetStatus(num[r], "refused")
  /\ UNCHANGED <<storeVars, num, ch, worker, lifeVars, historyVars>>

\* ... which deletes the map entry; the handler answers 503.
Unregister(r) ==
  /\ Move(r, "overflow", "refused")
  /\ SetStatus(num[r], "absent")
  /\ UNCHANGED <<storeVars, num, ch, worker, lifeVars, historyVars>>

\* The channel is closed: the send panics, net/http recovers and drops the
\* connection; the map entry stays.
SendPanics(r) ==
  /\ Move(r, "registered", "dropped")
  /\ closed
  /\ UNCHANGED <<storeVars, num, jobs, ch, worker, lifeVars, historyVars>>

-----------------------------------------------------------------------------
(* The worker.                                                             *)

WorkerMove(from, to) ==
  /\ alive
  /\ worker.pc = from
  /\ worker' = [worker EXCEPT !.pc = to]

\* Mutant: the job is peeked at, not received.
TakeKeepsJob ==
  /\ alive
  /\ worker.pc = "select"
  /\ ch # <<>>
  /\ worker' = [pc |-> "taken", job |-> Head(ch)]
  /\ UNCHANGED <<storeVars, handler, num, jobs, ch, lifeVars, historyVars>>

\* select receives a job, cancelled or not: it chooses at random when both
\* of its cases are ready.
Take ==
  /\ alive
  /\ worker.pc = "select"
  /\ ch # <<>>
  /\ worker' = [pc |-> "taken", job |-> Head(ch)]
  /\ ch' = Tail(ch)
  /\ UNCHANGED <<storeVars, handler, num, jobs, lifeVars, historyVars>>

\* select sees ctx.Done, or the closed channel once it is empty: run returns.
WorkerExits ==
  /\ WorkerMove("select", "exited")
  /\ cancelled \/ (closed /\ ch = <<>>)
  /\ UNCHANGED <<storeVars, handler, num, jobs, ch, lifeVars, historyVars>>

MarkRunning ==
  /\ WorkerMove("taken", "processing")
  /\ SetStatus(num[worker.job], "running")
  /\ UNCHANGED <<storeVars, handler, num, ch, lifeVars, historyVars>>

\* processOrderWithNumber returns a result or an error.
Processed(result) ==
  /\ WorkerMove("processing", result)
  /\ UNCHANGED <<storeVars, handler, num, jobs, ch, lifeVars, historyVars>>

MarkDone ==
  /\ WorkerMove("succeeded", "hooks")
  /\ SetStatus(num[worker.job], "done")
  /\ fate' = [fate EXCEPT ![worker.job] = "done"]
  /\ UNCHANGED <<storeVars, handler, num, ch, lifeVars, before>>

\* Mutant: run returns after a failed order.
MarkFailedAndReturn ==
  /\ alive
  /\ worker.pc = "erred"
  /\ worker' = [IdleWorker EXCEPT !.pc = "exited"]
  /\ SetStatus(num[worker.job], "failed")
  /\ fate' = [fate EXCEPT ![worker.job] = "failed"]
  /\ UNCHANGED <<storeVars, handler, num, ch, lifeVars, before>>

MarkFailed ==
  /\ alive
  /\ worker.pc = "erred"
  /\ worker' = IdleWorker
  /\ SetStatus(num[worker.job], "failed")
  /\ fate' = [fate EXCEPT ![worker.job] = "failed"]
  /\ UNCHANGED <<storeVars, handler, num, ch, lifeVars, before>>

\* The post-order hooks have run, whatever they returned.
HooksDone ==
  /\ alive
  /\ worker.pc = "hooks"
  /\ worker' = IdleWorker
  /\ UNCHANGED <<storeVars, handler, num, jobs, ch, lifeVars, historyVars>>

-----------------------------------------------------------------------------
(* The daemon's life.                                                      *)

\* serverApp.Stop begins: queueCancel().
Cancel ==
  /\ alive
  /\ ~cancelled
  /\ cancelled' = TRUE
  /\ UNCHANGED <<storeVars, handler, num, jobs, ch, worker, closed, alive,
                 exits, historyVars>>

\* OrderQueue.Stop: close(q.ch). What the channel holds is still received.
StopQueue ==
  /\ CallsStop
  /\ alive
  /\ ~closed
  /\ closed' = TRUE
  /\ UNCHANGED <<storeVars, handler, num, jobs, ch, worker, cancelled, alive,
                 exits, historyVars>>

\* The process ends.  The jobs map and the channel were only in memory; a
\* reservation in progress may leave the number file truncated.
Exit ==
  /\ alive
  /\ exits < MaxExits
  /\ exits' = exits + 1
  /\ alive' = FALSE
  /\ last' \in {last} \cup
       (IF \E r \in Requests : handler[r] = "reserving" THEN {0} ELSE {})
  /\ lost' = (lost \/ last' # last)
  /\ handler' = [r \in Requests |->
       IF handler[r] \in InSubmit THEN "dropped"
       ELSE IF handler[r] = "accepted" THEN "past" ELSE handler[r]]
  /\ jobs' = NoJobs
  /\ ch' = <<>>
  /\ worker' = IdleWorker
  /\ UNCHANGED <<num, closed, cancelled, faults, historyVars>>

\* serverApp.Start builds a new queue and starts its worker.
Boot ==
  /\ ~alive
  /\ alive' = TRUE
  /\ closed' = FALSE
  /\ cancelled' = FALSE
  /\ UNCHANGED <<storeVars, handler, num, jobs, ch, worker, exits, historyVars>>

-----------------------------------------------------------------------------
SubmitStep(r) ==
  \/ Reserve(r) \/ ReserveFails(r) \/ Register(r)
  \/ Enqueue(r) \/ Overflow(r) \/ Unregister(r) \/ SendPanics(r)

ProcessStep == \E result \in {"succeeded", "erred"} : Processed(result)

WorkerStep ==
  \/ Take \/ WorkerExits \/ MarkRunning
  \/ MarkDone \/ MarkFailed \/ HooksDone

Next ==
  \/ \E r \in Requests : Arrive(r) \/ Invalid(r) \/ SubmitStep(r)
  \/ NumberLost
  \/ WorkerStep
  \/ ProcessStep
  \/ Cancel
  \/ StopQueue
  \/ Exit
  \/ Boot

Spec == Init /\ [][Next]_queueVars

\* Goroutines that can run do run, processing an order comes to an end, and a
\* stopped daemon is started again (autostart).
FairSpec ==
  /\ Spec
  /\ \A r \in Requests : WF_queueVars(SubmitStep(r))
  /\ WF_queueVars(WorkerStep)
  /\ WF_queueVars(ProcessStep)
  /\ WF_queueVars(Boot)
-----------------------------------------------------------------------------
(* Properties.                                                             *)

\* The job the worker has taken and not settled yet.
InHand ==
  IF worker.pc \in {"taken", "processing", "succeeded", "erred"}
  THEN {worker.job} ELSE {}

\* No two requests ever hold the same order number, across restarts too, as
\* long as the number file has not been lost: it is the job ID, the history
\* directory and the key of the document in Hasavshevet.
UniqueOrderNumbers ==
  ~lost => \A q, r \in Requests : num[q] = num[r] /\ num[r] # 0 => q = r

\* An entry "queued" in the jobs map stands for an order that is really on its
\* way: in Submit, in the channel, or just received by the worker.  A request
\* turned away at a full channel leaves none behind.
QueuedIsOnItsWay ==
  (~lost /\ ~closed) => \A n \in Numbers : jobs[n] = "queued" =>
    \E r \in Requests :
      /\ num[r] = n
      /\ \/ handler[r] \in {"registered", "overflow"}
         \/ r \in InChannel
         \/ worker.pc = "taken" /\ worker.job = r

\* The jobs map tells the truth about every order answered 202: waiting,
\* running, or settled with the outcome its processing had.
StatusIsTrue ==
  ~lost => \A r \in Requests : handler[r] = "accepted" =>
    jobs[num[r]] = CASE r \in InChannel                      -> "queued"
                     [] r \in InHand /\ worker.pc = "taken"  -> "queued"
                     [] r \in InHand /\ worker.pc # "taken"  -> "running"
                     [] OTHER                                -> fate[r]

\* No order is processed twice: what waits in the channel or is in the
\* worker's hands has no outcome yet and is there once.
NeverProcessedTwice ==
  /\ \A r \in InChannel \cup InHand : fate[r] = "open"
  /\ InChannel \cap InHand = {}
  /\ \A i, j \in 1..Len(ch) : ch[i] = ch[j] => i = j

\* A client that posts an order after another was answered 202 sees them
\* numbered and processed in that order (queue.go:52).
InOrderOfArrival ==
  \A r \in Requests : \A q \in before[r] :
    /\ (~lost /\ num[r] # 0) => num[q] < num[r]
    /\ r \in InHand => q \notin InChannel
    /\ \A i, j \in 1..Len(ch) : ch[i] = q /\ ch[j] = r => i < j

\* Submit never waits for the worker: every request is answered, however full
\* the channel and whatever the worker does, unless the process ends.
SubmitAnswers ==
  \A r \in Requests :
    handler[r] = "reserving" ~> handler[r] \in {"accepted", "refused", "dropped", "past"}

\* Every order answered 202 comes to an outcome, unless the queue is cancelled
\* or the process ends first.
AcceptedIsSettled ==
  \A r \in Requests :
    handler[r] = "accepted" ~> (fate[r] # "open" \/ cancelled \/ handler[r] = "past")

\* Once the queue is cancelled the worker leaves, even while jobs wait
\* (queue.go:76).
CancelEndsWorker == cancelled ~> (worker.pc = "exited" \/ ~alive)

-----------------------------------------------------------------------------
(* Refinements.                                                            *)

\* How far a request is with its number.
NumberStage(r) ==
  IF num[r] # 0 THEN "issued"
  ELSE CASE handler[r] \in {"new", "invalid"} -> "new"
         [] handler[r] = "reserving"          -> "busy"
         [] handler[r] = "refused"            -> "refused"
         [] OTHER                             -> "dead"

AbsCall == [r \in Requests |-> NumberStage(r)]

Sequence == INSTANCE NumberSequence WITH
  Calls <- Requests, call <- AbsCall, result <- num

\* The queue uses the number store only as NumberSequence allows.
UsesNumberSequence == Sequence!Spec

\* What has become of an order that was answered 202 ...
Outcome(r) ==
  IF fate[r] # "open" THEN fate[r]
  ELSE IF handler[r] = "past" THEN "lost"
  ELSE IF r \in InHand THEN "processing" ELSE "accepted"

\* ... and of any request.
OrderStage(r) ==
  CASE handler[r] \in {"invalid", "refused", "dropped"} -> "turned away"
    [] handler[r] \in {"new"} \cup InSubmit             -> "new"
    [] handler[r] \in {"accepted", "past"}              -> Outcome(r)

AbsOrder == [r \in Requests |-> OrderStage(r)]

Service == INSTANCE OrderService WITH order <- AbsOrder, pending <- ch

\* The queue serves its clients as OrderService says, through cancellations,
\* crashes and restarts.
ImplementsService == Service!Spec
=============================================================================
