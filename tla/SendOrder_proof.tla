--------------------------- MODULE SendOrder_proof ----------------------------
(***************************************************************************)
(* Proofs about SendOrder, for any set of requests, any bound on errors    *)
(* and each kind of importer: the pipeline implements the queue, the files *)
(* handed to an importer are those of its order, an order reported failed  *)
(* was not imported, and the history copies are complete and permanent.    *)
(***************************************************************************)
EXTENDS SendOrder, OrderQueue_proof

-----------------------------------------------------------------------------
(* The pipeline is a queue.                                                *)

\* Each step of the pipeline is a step of the queue or changes none of the
\* queue's variables.
LEMMA SendStepIsQueueStep == [SendNext]_vars => [Next]_queueVars
<1> SUFFICES ASSUME [SendNext]_vars PROVE [Next]_queueVars
  OBVIOUS
<1>1. CASE QueueOnly
  BY <1>1 DEF QueueOnly, Next, WorkerStep
<1>2. CASE BeginProcessing
  BY <1>2 DEF BeginProcessing, Next, WorkerStep
<1>3. CASE Returns
  BY <1>3 DEF Returns, Next, ProcessStep
<1>4. CASE Pipeline /\ ~Returns
  BY <1>4 DEF Pipeline, Prepared, PrepareFails, MkdirHistory, OpenFails, OpenFile,
     FillFile, FillFails, StartImporter, NoImporter, ImporterReturns
<1>5. CASE RunHooks
  BY <1>5 DEF RunHooks, Next, WorkerStep
<1>6. CASE \/ \E r \in Requests : ImporterReads(r) \/ ImporterExits(r)
           \/ KillImporter
  BY <1>6 DEF ImporterReads, ImporterExits, KillImporter
<1>7. CASE DaemonExits
  BY <1>7 DEF DaemonExits, Next
<1>8. CASE UNCHANGED vars
  BY <1>8 DEF vars
<1> QED
  BY <1>1, <1>2, <1>3, <1>4, <1>5, <1>6, <1>7, <1>8 DEF SendNext

\* Seen through the variables of the queue, the pipeline is the queue: it only
\* says in more detail how an order is processed (queue.go:86-111,
\* send_order.go:101-205).
THEOREM SendImplementsQueue == SendSpec => ImplementsQueue
<1>1. SendInit => Init
  BY DEF SendInit
<1> QED
  BY <1>1, SendStepIsQueueStep, PTL DEF SendSpec, ImplementsQueue, Spec

\* What was proved of the queue holds of the pipeline.
QueueInv == TypeOK /\ UniqueOrderNumbers /\ HoldsNumber /\ Places

\* The queue inside the pipeline keeps its own invariant.
LEMMA QueueInvHolds == SendSpec => []QueueInv
BY SendImplementsQueue, QueueTypeCorrect, QueueNumbersUnique, HoldsNumberInductive,
   PlacesInductive, PTL DEF ImplementsQueue, QueueInv

\* An order was answered 202, by this process or an earlier one.
Served == {"accepted", "past"}

\* A served order keeps its number, and once out of the channel never gets back
\* there nor into the worker's hands; only what is in hand gets an outcome.
LEMMA ServedKeeps ==
  ASSUME QueueInv, [Next]_queueVars, NEW r \in Requests, handler[r] \in Served
  PROVE  /\ handler'[r] \in Served
         /\ num'[r] = num[r] /\ num[r] \in Numbers
         /\ r \notin InChannel => r \notin InChannel' /\ (r \in InHand' => r \in InHand)
         /\ fate'[r] # fate[r] => r \in InHand /\ worker.job = r
<1> USE DEF Served, QueueInv
<1>c. InChannel = Elements(ch) /\ InChannel' = Elements(ch')
  BY DEF InChannel, Elements
<1>1. num[r] \in Numbers
  BY DEF HoldsNumber, Holding
<1>2. ASSUME NEW q \in Requests,
             Arrive(q) \/ Invalid(q) \/ SubmitStep(q)
      PROVE  handler'[r] = handler[r] /\ num'[r] = num[r] /\ UNCHANGED <<worker, fate>>
  BY <1>2 DEF Arrive, Invalid, SubmitStep, Reserve, ReserveFails, Register, Enqueue,
     Overflow, Unregister, SendPanics, Move, TypeOK, historyVars, storeVars
<1>3. ASSUME NEW q \in Requests, Enqueue(q)
      PROVE  r \notin InChannel => r \notin InChannel'
  <2>1. InChannel' = InChannel \cup {q}
    BY <1>3, <1>c, SendElements DEF Enqueue, TypeOK
  <2>2. r # q
    BY <1>3 DEF Enqueue, Move
  <2> QED
    BY <2>1, <2>2
<1>4. ASSUME NEW q \in Requests, \/ Arrive(q) \/ Invalid(q)
                                 \/ SubmitStep(q) /\ ~Enqueue(q)
      PROVE  UNCHANGED ch
  BY <1>4 DEF Arrive, Invalid, SubmitStep, Reserve, ReserveFails, Register,
     Overflow, Unregister, SendPanics
<1>5. CASE \E q \in Requests : Arrive(q) \/ Invalid(q) \/ SubmitStep(q)
  BY <1>1, <1>2, <1>3, <1>4, <1>5 DEF InHand, InChannel
<1>6. CASE Take
  <2>1. UNCHANGED <<handler, num, fate>>
    BY <1>6 DEF Take, historyVars
  <2>2. InChannel = InChannel' \cup {Head(ch)} /\ InHand' = {Head(ch)}
    BY <1>6, <1>c, ReceiveElements DEF Take, InHand, TypeOK
  <2> QED
    BY <1>1, <2>1, <2>2
<1>7. CASE MarkDone \/ MarkFailed
  <2>1. UNCHANGED <<handler, num, ch>> /\ InHand = {worker.job} /\ InHand' = {}
    BY <1>7 DEF MarkDone, MarkFailed, WorkerMove, IdleWorker, InHand, TypeOK
  <2>2. PICK status : fate' = [fate EXCEPT ![worker.job] = status]
    BY <1>7 DEF MarkDone, MarkFailed
  <2>3. r # worker.job => fate'[r] = fate[r]
    BY <2>2 DEF TypeOK
  <2> QED
    BY <1>1, <2>1, <2>3 DEF InChannel
<1>8. CASE \/ NumberLost \/ WorkerExits \/ MarkRunning \/ HooksDone \/ ProcessStep
           \/ Cancel \/ StopQueue \/ Boot \/ UNCHANGED queueVars
  <2>1. UNCHANGED <<handler, num, ch, fate>>
    BY <1>8 DEF NumberLost, WorkerExits, MarkRunning, HooksDone, ProcessStep, Processed,
       Cancel, StopQueue, Boot, queueVars, historyVars
  <2>2. InHand' \subseteq InHand
    <3>1. CASE WorkerExits \/ MarkRunning
      BY <3>1 DEF WorkerExits, MarkRunning, WorkerMove, InHand, TypeOK
    <3>2. CASE HooksDone
      BY <3>2 DEF HooksDone, IdleWorker, InHand
    <3>3. CASE ProcessStep
      BY <3>3 DEF ProcessStep, Processed, WorkerMove, InHand, TypeOK
    <3>4. CASE NumberLost \/ Cancel \/ StopQueue \/ Boot \/ UNCHANGED queueVars
      BY <3>4 DEF NumberLost, Cancel, StopQueue, Boot, queueVars, InHand
    <3> QED
      BY <1>8, <3>1, <3>2, <3>3, <3>4
  <2> QED
    BY <1>1, <2>1, <2>2 DEF InChannel
<1>9. CASE Exit
  <2>1. UNCHANGED <<num, fate>> /\ handler'[r] = "past"
    BY <1>9 DEF Exit, historyVars, InSubmit, TypeOK
  <2>2. InChannel' = {} /\ InHand' = {}
    BY <1>9 DEF Exit, IdleWorker, InChannel, InHand
  <2> QED
    BY <1>1, <2>1, <2>2
<1> QED
  BY <1>5, <1>6, <1>7, <1>8, <1>9 DEF Next, WorkerStep
-----------------------------------------------------------------------------
(* Types.                                                                  *)

\* processOrderWithNumber runs while the worker is processing, and only then.
StageFollowsWorker == stage # "idle" <=> worker.pc = "processing"

\* StageFollowsWorker holds in every reachable state (queue.go:86).
LEMMA StageInductive == SendSpec => []StageFollowsWorker
<1> USE DEF StageFollowsWorker
<1>1. SendInit => StageFollowsWorker
  BY DEF SendInit, Init, IdleWorker
<1>2. QueueInv /\ StageFollowsWorker /\ [SendNext]_vars => StageFollowsWorker'
  <2> SUFFICES ASSUME TypeOK, StageFollowsWorker, [SendNext]_vars PROVE StageFollowsWorker'
    BY DEF QueueInv
  <2>1. CASE QueueOnly
    <3>1. ASSUME Take \/ WorkerExits \/ MarkDone \/ MarkFailed
          PROVE  worker.pc # "processing" /\ worker'.pc # "processing"
      BY <3>1 DEF Take, WorkerExits, MarkDone, MarkFailed, WorkerMove, IdleWorker, TypeOK
    <3>2. ASSUME \/ \E r \in Requests : Arrive(r) \/ Invalid(r) \/ SubmitStep(r)
                 \/ NumberLost \/ Cancel \/ StopQueue \/ Boot
          PROVE  UNCHANGED worker
      BY <3>2 DEF Arrive, Invalid, SubmitStep, Reserve, ReserveFails, Register, Enqueue,
         Overflow, Unregister, SendPanics, NumberLost, Cancel, StopQueue, Boot
    <3> QED
      BY <2>1, <3>1, <3>2 DEF QueueOnly, fileVars
  <2>2. CASE BeginProcessing
    BY <2>2 DEF BeginProcessing, MarkRunning, WorkerMove, Goto, TypeOK
  <2>3. CASE Returns
    BY <2>3 DEF Returns, Processed, WorkerMove, Goto, TypeOK
  <2>4. CASE Pipeline /\ ~Returns
    BY <2>4 DEF Pipeline, Prepared, PrepareFails, MkdirHistory, OpenFails, OpenFile,
       FillFile, FillFails, StartImporter, NoImporter, ImporterReturns, Goto, queueVars,
       Writing
  <2>5. CASE RunHooks
    BY <2>5 DEF RunHooks, HooksDone, IdleWorker, fileVars
  <2>6. CASE (\E r \in Requests : ImporterReads(r) \/ ImporterExits(r)) \/ KillImporter
    BY <2>6 DEF ImporterReads, ImporterExits, KillImporter, queueVars
  <2>7. CASE DaemonExits
    BY <2>7 DEF DaemonExits, Exit, IdleWorker
  <2>8. CASE UNCHANGED vars
    BY <2>8 DEF vars, queueVars, fileVars
  <2> QED
    BY <2>1, <2>2, <2>3, <2>4, <2>5, <2>6, <2>7, <2>8 DEF SendNext
<1> QED
  BY <1>1, <1>2, QueueInvHolds, PTL DEF SendSpec

\* The paths of the four files an order is written to.
LEMMA ToWriteFacts ==
  ASSUME NEW n \in Numbers
  PROVE  /\ ToWrite(n)[1] = <<0, "doc">> /\ ToWrite(n)[2] = <<0, "prm">>
         /\ ToWrite(n)[3] = <<n, "doc">> /\ ToWrite(n)[4] = <<n, "prm">>
         /\ n # 0
         /\ \A i \in 1..4 : ToWrite(n)[i] \in Paths
         /\ \A i, j \in 1..4 : ToWrite(n)[i] = ToWrite(n)[j] => i = j
         /\ \A x \in {"doc", "prm"} : <<0, x>> \in Paths /\ <<n, x>> \in Paths
<1>1. n \in 0..MaxNumber /\ 0 \in 0..MaxNumber /\ n # 0
  BY SendOrderAssumption, QueueAssumption DEF Numbers, QueueAssumption
<1>2. \A x \in {"doc", "prm"} : <<0, x>> \in Paths /\ <<n, x>> \in Paths
  BY <1>1 DEF Paths
<1>3. /\ ToWrite(n)[1] = <<0, "doc">> /\ ToWrite(n)[2] = <<0, "prm">>
      /\ ToWrite(n)[3] = <<n, "doc">> /\ ToWrite(n)[4] = <<n, "prm">>
  BY DEF ToWrite
<1>4. \A i \in 1..4 : i = 1 \/ i = 2 \/ i = 3 \/ i = 4
  OBVIOUS
<1>5. \A x, y, k, m : <<k, x>> = <<m, y>> => k = m /\ x = y
  OBVIOUS
<1>6. ASSUME NEW i \in 1..4, NEW j \in 1..4, ToWrite(n)[i] = ToWrite(n)[j]
      PROVE  i = j
  BY <1>1, <1>3, <1>4, <1>5, <1>6
<1> QED
  BY <1>1, <1>2, <1>3, <1>4, <1>6

\* The path of each of the four files that are written.
LEMMA PathFacts ==
  /\ target = 1 => Path = <<0, "doc">>
  /\ target = 2 => Path = <<0, "prm">>
  /\ target = 3 => Path = <<num[worker.job], "doc">>
  /\ target = 4 => Path = <<num[worker.job], "prm">>
BY DEF Path, ToWrite

\* While an order is being processed it is the one in the worker's hands, and
\* has a number.
LEMMA InProcess ==
  ASSUME QueueInv, StageFollowsWorker, stage # "idle"
  PROVE  /\ InHand = {worker.job} /\ worker.job \in Requests
         /\ handler[worker.job] = "accepted" /\ fate[worker.job] = "open"
         /\ num[worker.job] \in Numbers /\ worker.job \notin InChannel
<1>1. worker.pc = "processing"
  BY DEF StageFollowsWorker
<1>2. InHand = {worker.job}
  BY <1>1 DEF InHand
<1> QED
  BY <1>2 DEF QueueInv, Places, HoldsNumber, Holding

\* The pipeline's variables keep their types: the four indices of toWrite are
\* never exceeded, a file holds one order, nothing, or is torn
\* (send_order.go:178-198).
THEOREM SendTypeCorrect == SendSpec => []SendTypeOK
<1> USE DEF SendTypeOK, Writing
<1>1. SendInit => SendTypeOK
  BY SendOrderAssumption DEF SendInit, Contents, SendOrderAssumption
<1>2. QueueInv /\ StageFollowsWorker /\ SendTypeOK /\ [SendNext]_vars => SendTypeOK'
  <2> SUFFICES ASSUME QueueInv, StageFollowsWorker, SendTypeOK, [SendNext]_vars
               PROVE  SendTypeOK'
    OBVIOUS
  <2> USE SendOrderAssumption DEF SendOrderAssumption
  <2>1. CASE QueueOnly \/ RunHooks
    BY <2>1 DEF QueueOnly, RunHooks, fileVars
  <2>2. CASE BeginProcessing
    BY <2>2 DEF BeginProcessing, Goto
  <2>3. CASE Prepared \/ PrepareFails \/ MkdirHistory \/ NoImporter \/ ImporterReturns
             \/ Returns
    BY <2>3 DEF Prepared, PrepareFails, MkdirHistory, NoImporter, ImporterReturns, Returns,
       Goto
  <2>4. CASE OpenFails \/ FillFails
    BY <2>4 DEF OpenFails, FillFails, Goto, Error
  <2>5. CASE OpenFile \/ FillFile
    <3>1. worker.job \in Contents /\ Torn \in Contents
      BY <2>5, InProcess DEF OpenFile, FillFile, Goto, Contents
    <3>2. PICK c \in Contents : disk' = [disk EXCEPT ![Path] = c]
      BY <2>5, <3>1 DEF OpenFile, FillFile
    <3>3. disk' \in [Paths -> Contents]
      BY <3>2
    <3>4. target' \in 1..4 /\ stage' \in {"fill", "import", "open"}
      BY <2>5 DEF OpenFile, FillFile, Goto
    <3>5. UNCHANGED <<importer, orphans, erp, errors>>
      BY <2>5 DEF OpenFile, FillFile
    <3> QED
      BY <3>3, <3>4, <3>5
  <2>6. CASE StartImporter
    BY <2>6 DEF StartImporter, Goto
  <2>7. ASSUME NEW r \in Requests, ImporterReads(r) PROVE SendTypeOK'
    <3>1. disk[<<0, "doc">>] \in Contents /\ disk[<<0, "prm">>] \in Contents
      BY QueueAssumption DEF Paths, QueueAssumption
    <3>2. (r \in orphans) \in BOOLEAN
      OBVIOUS
    <3>3. [by |-> r, doc |-> disk[<<0, "doc">>], prm |-> disk[<<0, "prm">>],
           late |-> r \in orphans]
            \in [by : Requests, doc : Contents, prm : Contents, late : BOOLEAN]
      BY <3>1, <3>2
    <3>4. erp' \in SUBSET [by : Requests, doc : Contents, prm : Contents, late : BOOLEAN]
      BY <2>7, <3>3 DEF ImporterReads
    <3>5. /\ importer' = [importer EXCEPT ![r] = "read"]
          /\ UNCHANGED <<stage, target, disk, orphans, errors>>
      BY <2>7 DEF ImporterReads
    <3> QED
      BY <3>4, <3>5
  <2>8. ASSUME NEW r \in Requests, ImporterExits(r) PROVE SendTypeOK'
    BY <2>8 DEF ImporterExits, Active
  <2>9. CASE KillImporter
    BY <2>9 DEF KillImporter
  <2>10. CASE DaemonExits
    <3>1. PICK survivors \in SUBSET {r \in Requests : Active(r)} :
            /\ orphans' = survivors
            /\ importer' = [r \in Requests |->
                 IF Active(r) /\ r \notin survivors THEN "failed" ELSE importer[r]]
      BY <2>10 DEF DaemonExits
    <3>2. orphans' \in SUBSET Requests
      BY <3>1
    <3>3. importer' \in [Requests -> {"none", "running", "read", "failed", "imported"}]
      BY <3>1
    <3> QED
      BY <2>10, <3>2, <3>3 DEF DaemonExits
  <2>11. CASE UNCHANGED vars
    BY <2>11 DEF vars, fileVars
  <2> QED
    BY <2>1, <2>2, <2>3, <2>4, <2>5, <2>6, <2>7, <2>8, <2>9, <2>10, <2>11
       DEF SendNext, Pipeline
<1> QED
  BY <1>1, <1>2, QueueInvHolds, StageInductive, PTL DEF SendSpec
-----------------------------------------------------------------------------
(* The files of the order being processed.                                 *)

\* The steps that leave the files alone do not disturb an order in process.
\* One that has been processed goes to the hooks or is marked failed.
LEMMA QuietStep ==
  ASSUME QueueInv, StageFollowsWorker, QueueOnly \/ RunHooks \/ UNCHANGED vars
  PROVE  /\ UNCHANGED fileVars
         /\ stage # "idle" => UNCHANGED worker
         /\ worker.pc = "succeeded" => UNCHANGED worker \/ worker'.pc = "hooks"
         /\ worker'.pc = "succeeded" => UNCHANGED worker
         /\ worker'.pc = "taken" => UNCHANGED worker \/ worker.pc = "select"
         /\ \A r \in Requests : fate'[r] = "failed" => fate[r] = "failed" \/ worker.pc = "erred"
         /\ \A r \in Requests : fate'[r] = "done" =>
              fate[r] = "done" \/ (worker.pc = "succeeded" /\ worker.job = r)
<1> USE DEF QueueInv, StageFollowsWorker, fileVars
<1>1. ASSUME \/ \E r \in Requests : Arrive(r) \/ Invalid(r) \/ SubmitStep(r)
             \/ NumberLost \/ Cancel \/ StopQueue \/ Boot
      PROVE  UNCHANGED <<worker, fate>>
  BY <1>1 DEF Arrive, Invalid, SubmitStep, Reserve, ReserveFails, Register, Enqueue,
     Overflow, Unregister, SendPanics, NumberLost, Cancel, StopQueue, Boot, historyVars
<1>2. ASSUME Take \/ WorkerExits
      PROVE  worker.pc = "select" /\ worker'.pc # "succeeded" /\ UNCHANGED fate
  BY <1>2 DEF Take, WorkerExits, WorkerMove, historyVars, TypeOK
<1>3. ASSUME MarkDone
      PROVE  /\ worker.pc = "succeeded" /\ worker'.pc = "hooks"
             /\ \A r \in Requests : fate'[r] = IF r = worker.job THEN "done" ELSE fate[r]
  BY <1>3 DEF MarkDone, WorkerMove, TypeOK
<1>4. ASSUME MarkFailed
      PROVE  /\ worker.pc = "erred" /\ worker'.pc = "select"
             /\ \A r \in Requests : fate'[r] = IF r = worker.job THEN "failed" ELSE fate[r]
  BY <1>4 DEF MarkFailed, IdleWorker, TypeOK
<1>5. ASSUME HooksDone
      PROVE  worker.pc = "hooks" /\ worker'.pc = "select" /\ UNCHANGED fate
  BY <1>5 DEF HooksDone, IdleWorker, historyVars
<1>6. CASE QueueOnly
  BY <1>1, <1>2, <1>3, <1>4, <1>6 DEF QueueOnly
<1>7. CASE RunHooks
  BY <1>5, <1>7 DEF RunHooks
<1>8. CASE UNCHANGED vars
  BY <1>8 DEF vars, queueVars
<1> QED
  BY <1>6, <1>7, <1>8

\* The files written so far hold the order in process; once they are handed to
\* the importer, and until it has returned, all four do.
FilesWritten ==
  /\ stage \in Writing =>
       \A i \in 1..4 : i < target => disk[ToWrite(num[worker.job])[i]] = worker.job
  /\ stage \in {"import", "wait", "ok"} =>
       \A i \in 1..4 : disk[ToWrite(num[worker.job])[i]] = worker.job

\* FilesWritten holds in every reachable state (send_order.go:178-205).
LEMMA FilesWrittenInductive == SendSpec => []FilesWritten
<1> USE DEF FilesWritten, Writing
<1>1. SendInit => FilesWritten
  BY DEF SendInit
<1>2. /\ QueueInv /\ StageFollowsWorker /\ SendTypeOK /\ FilesWritten /\ [SendNext]_vars
      => FilesWritten'
  <2> SUFFICES ASSUME QueueInv, StageFollowsWorker, SendTypeOK, FilesWritten,
                      [SendNext]_vars
               PROVE  FilesWritten'
    OBVIOUS
  <2>k. stage # "idle" => num'[worker.job] = num[worker.job]
    BY InProcess, ServedKeeps, SendStepIsQueueStep DEF Served
  <2> DEFINE Distinct ==
        \A i \in 1..4 :
          /\ ToWrite(num[worker.job])[i] \in Paths
          /\ \A j \in 1..4 :
               ToWrite(num[worker.job])[i] = ToWrite(num[worker.job])[j] => i = j
  <2>d. stage # "idle" => Distinct
    BY InProcess, ToWriteFacts
  <2>f. ASSUME UNCHANGED <<stage, target, disk>>, stage # "idle" => UNCHANGED worker
        PROVE  FilesWritten'
    BY <2>k, <2>f
  <2>1. CASE QueueOnly \/ RunHooks \/ UNCHANGED vars
    BY <2>f, <2>1, QuietStep DEF fileVars
  <2>2. CASE \/ BeginProcessing \/ Prepared \/ PrepareFails \/ Returns
    BY <2>2 DEF BeginProcessing, Prepared, PrepareFails, Returns, Goto
  <2>3. CASE OpenFails \/ FillFails
    BY <2>3 DEF OpenFails, FillFails, Goto
  <2>4. CASE MkdirHistory
    BY <2>4 DEF MkdirHistory, Goto
  <2>5. CASE NoImporter \/ ImporterReturns \/ StartImporter
    BY <2>k, <2>5 DEF NoImporter, ImporterReturns, StartImporter, Goto, queueVars
  <2>6. CASE OpenFile
    <3>1. /\ stage = "open" /\ stage' = "fill" /\ target \in 1..4
          /\ UNCHANGED <<target, num, worker>>
          /\ disk' = [disk EXCEPT ![ToWrite(num[worker.job])[target]] = Torn]
      BY <2>6 DEF OpenFile, Goto, queueVars, Path, SendTypeOK
    <3>2. Distinct
      BY <2>d, <3>1
    <3>3. \A i \in 1..4 : i < target =>
            disk'[ToWrite(num[worker.job])[i]] = disk[ToWrite(num[worker.job])[i]]
      BY <3>1, <3>2 DEF SendTypeOK
    <3> QED
      BY <3>1, <3>3
  <2>7. CASE FillFile
    <3>1. /\ stage = "fill" /\ target \in 1..4
          /\ UNCHANGED <<num, worker>>
          /\ disk' = [disk EXCEPT ![ToWrite(num[worker.job])[target]] = worker.job]
          /\ \/ target = 4 /\ stage' = "import"
             \/ target # 4 /\ stage' = "open" /\ target' = target + 1
      BY <2>7 DEF FillFile, Goto, queueVars, Path, SendTypeOK
    <3>2. Distinct
      BY <2>d, <3>1
    <3>3. \A i \in 1..4 : i <= target => disk'[ToWrite(num[worker.job])[i]] = worker.job
      BY <3>1, <3>2 DEF SendTypeOK
    <3> QED
      BY <3>1, <3>3
  <2>8. CASE (\E r \in Requests : ImporterReads(r) \/ ImporterExits(r)) \/ KillImporter
    BY <2>f, <2>8 DEF ImporterReads, ImporterExits, KillImporter, queueVars
  <2>9. CASE DaemonExits
    BY <2>9 DEF DaemonExits
  <2> QED
    BY <2>1, <2>2, <2>3, <2>4, <2>5, <2>6, <2>7, <2>8, <2>9 DEF SendNext, Pipeline
<1> QED
  BY <1>1, <1>2, QueueInvHolds, StageInductive, SendTypeCorrect, PTL DEF SendSpec
-----------------------------------------------------------------------------
(* The importers.                                                          *)

\* An order that an importer was started for was served, is no longer waiting
\* and has not failed; if it is still in the worker's hands, the importer has
\* been started already.  An importer that runs under its daemon is the one the
\* worker waits for.
ImportersKnown ==
  /\ \A r \in Requests : importer[r] # "none" =>
       /\ handler[r] \in Served
       /\ r \notin InChannel
       /\ fate[r] # "failed"
       /\ r \in InHand => stage \in {"wait", "ok"} \/ worker.pc = "succeeded"
  /\ \A r \in Requests : Active(r) /\ r \notin orphans => stage = "wait" /\ worker.job = r

\* ImportersKnown holds in every reachable state (send_order.go:200-205,
\* exec_windows.go).
LEMMA ImportersKnownInductive == SendSpec => []ImportersKnown
<1> USE DEF ImportersKnown
<1>1. SendInit => ImportersKnown
  BY DEF SendInit, Active
<1>2. /\ QueueInv /\ StageFollowsWorker /\ SendTypeOK /\ ImportersKnown /\ [SendNext]_vars
      => ImportersKnown'
  <2> SUFFICES ASSUME QueueInv, StageFollowsWorker, SendTypeOK, ImportersKnown,
                      [SendNext]_vars
               PROVE  ImportersKnown'
    OBVIOUS
  <2>k. \A r \in Requests : importer[r] # "none" =>
          /\ handler'[r] \in Served
          /\ r \notin InChannel'
          /\ r \in InHand' => r \in InHand
    BY ServedKeeps, SendStepIsQueueStep
  <2>p. stage # "idle" => InHand = {worker.job} /\ worker.job \in Requests
                          /\ fate[worker.job] = "open"
    BY InProcess
  <2>s. \A r \in Requests : importer[r] # "none" /\ worker.job = r =>
          stage \in {"idle", "wait", "ok"}
    BY <2>p DEF StageFollowsWorker
  <2>1. CASE QueueOnly \/ RunHooks \/ UNCHANGED vars
    <3>1. /\ UNCHANGED <<stage, importer, orphans>>
          /\ stage # "idle" => UNCHANGED worker
          /\ worker.pc = "succeeded" => UNCHANGED worker \/ worker'.pc = "hooks"
      BY <2>1, QuietStep DEF fileVars
    <3>2. ASSUME NEW r \in Requests, importer[r] # "none" PROVE fate'[r] # "failed"
      <4>1. CASE fate'[r] = fate[r]
        BY <3>2, <4>1
      <4>2. CASE fate'[r] # fate[r]
        <5>1. r \in InHand
          BY <3>2, <4>2, ServedKeeps, SendStepIsQueueStep
        <5>2. worker.pc # "erred"
          BY <3>2, <5>1 DEF StageFollowsWorker
        <5> QED
          BY <2>1, <3>2, <5>2, QuietStep
      <4> QED
        BY <4>1, <4>2
    <3>3. ASSUME NEW r \in Requests, importer[r] # "none", r \in InHand'
          PROVE  stage' \in {"wait", "ok"} \/ worker'.pc = "succeeded"
      <4>1. r \in InHand
        BY <2>k, <3>3
      <4>2. CASE stage \in {"wait", "ok"}
        BY <3>1, <4>2
      <4>3. CASE worker.pc = "succeeded"
        BY <3>1, <3>3, <4>3 DEF InHand
      <4> QED
        BY <3>3, <4>1, <4>2, <4>3
    <3>4. ASSUME NEW r \in Requests, Active(r)', r \notin orphans'
          PROVE  stage' = "wait" /\ worker'.job = r
      BY <3>1, <3>4 DEF Active
    <3> QED
      BY <2>k, <3>1, <3>2, <3>3, <3>4
  <2>2. ASSUME UNCHANGED <<importer, orphans, fate>>, stage # "wait",
               worker'.job = worker.job,
               \/ stage = "ok" /\ worker'.pc = "succeeded"
               \/ \A r \in Requests : importer[r] # "none" => r \notin InHand
        PROVE  ImportersKnown'
    <3>1. \A r \in Requests : importer[r] # "none" /\ r \in InHand' =>
            worker'.pc = "succeeded"
      BY <2>k, <2>2
    <3> QED
      BY <2>k, <2>2, <3>1 DEF Active
  <2>3. CASE BeginProcessing
    <3>1. /\ UNCHANGED <<importer, orphans, fate>> /\ stage = "idle"
          /\ worker'.job = worker.job /\ worker.pc = "taken"
      BY <2>3 DEF BeginProcessing, MarkRunning, WorkerMove, Goto, QueueInv, TypeOK, historyVars
    <3>2. \A r \in Requests : importer[r] # "none" => r \notin InHand
      BY <3>1
    <3> QED
      BY <2>2, <3>1, <3>2
  <2>4. CASE \/ Prepared \/ PrepareFails \/ MkdirHistory \/ OpenFails \/ OpenFile
             \/ FillFile \/ FillFails \/ NoImporter
    <3>1. /\ UNCHANGED <<importer, orphans, fate, worker>>
          /\ stage \in {"prepare", "mkdir", "open", "fill", "import"}
      BY <2>4 DEF Prepared, PrepareFails, MkdirHistory, OpenFails, OpenFile, FillFile,
         FillFails, NoImporter, Goto, queueVars
    <3>2. \A r \in Requests : importer[r] # "none" => r \notin InHand
      BY <2>p, <2>s, <3>1
    <3> QED
      BY <2>2, <3>1, <3>2
  <2>5. CASE Returns
    <3>1. /\ UNCHANGED <<importer, orphans, fate>> /\ worker'.job = worker.job
          /\ \/ stage = "ok" /\ worker'.pc = "succeeded"
             \/ stage = "err"
      BY <2>5 DEF Returns, Processed, WorkerMove, Goto, QueueInv, TypeOK, historyVars
    <3>2. stage = "err" => \A r \in Requests : importer[r] # "none" => r \notin InHand
      BY <2>p, <2>s
    <3> QED
      BY <2>2, <3>1, <3>2
  <2>6. CASE StartImporter
    <3>1. /\ stage = "import" /\ stage' = "wait" /\ UNCHANGED <<orphans, queueVars>>
          /\ importer' = [importer EXCEPT ![worker.job] = "running"]
      BY <2>6 DEF StartImporter, Goto
    <3>2. /\ worker.job \in Requests /\ handler[worker.job] = "accepted"
          /\ fate[worker.job] = "open" /\ worker.job \notin InChannel
      BY <3>1, InProcess
    <3>3. \A r \in Requests : r # worker.job => importer'[r] = importer[r]
      BY <3>1 DEF SendTypeOK
    <3>4. InChannel' = InChannel /\ InHand' = InHand
      BY <3>1 DEF InChannel, InHand, queueVars
    <3>5. \A r \in Requests : r # worker.job /\ Active(r)' /\ r \notin orphans => FALSE
      BY <3>1, <3>3 DEF Active
    <3> QED
      BY <3>1, <3>2, <3>3, <3>4, <3>5 DEF queueVars, Served
  <2>7. CASE ImporterReturns
    <3>1. /\ stage = "wait" /\ stage' = "ok" /\ UNCHANGED <<queueVars, importer, orphans>>
          /\ ~Active(worker.job)
      BY <2>7 DEF ImporterReturns, Goto
    <3>2. InChannel' = InChannel /\ InHand' = InHand
      BY <3>1 DEF InChannel, InHand, queueVars
    <3> QED
      BY <3>1, <3>2 DEF queueVars, Active
  <2>8. ASSUME UNCHANGED <<queueVars, stage>>,
               \A r \in Requests :
                 /\ importer'[r] # "none" => importer[r] # "none"
                 /\ Active(r)' /\ r \notin orphans' => Active(r) /\ r \notin orphans
        PROVE  ImportersKnown'
    <3>1. InChannel' = InChannel /\ InHand' = InHand
      BY <2>8 DEF InChannel, InHand, queueVars
    <3> QED
      BY <2>8, <3>1 DEF queueVars
  <2>9. ASSUME NEW q \in Requests, ImporterReads(q) \/ ImporterExits(q)
        PROVE  ImportersKnown'
    <3>1. /\ UNCHANGED <<queueVars, stage>>
          /\ Active(q) /\ \A r \in Requests : r # q => importer'[r] = importer[r]
          /\ \A r \in Requests : r # q => (r \in orphans' <=> r \in orphans)
          /\ Active(q)' => q \in orphans' <=> q \in orphans
      BY <2>9 DEF ImporterReads, ImporterExits, Active, SendTypeOK
    <3> QED
      BY <2>8, <3>1 DEF Active
  <2>10. CASE KillImporter
    <3>1. /\ UNCHANGED <<queueVars, stage, orphans>> /\ Active(worker.job)
          /\ importer' = [importer EXCEPT ![worker.job] = "failed"]
      BY <2>10 DEF KillImporter
    <3> QED
      BY <2>8, <3>1 DEF Active, SendTypeOK
  <2>11. CASE DaemonExits
    <3>1. PICK survivors \in SUBSET {r \in Requests : Active(r)} :
            /\ orphans' = survivors
            /\ importer' = [r \in Requests |->
                 IF Active(r) /\ r \notin survivors THEN "failed" ELSE importer[r]]
      BY <2>11 DEF DaemonExits
    <3>2. InHand' = {} /\ UNCHANGED fate
      BY <2>11 DEF DaemonExits, Exit, IdleWorker, InHand, historyVars
    <3>3. \A r \in Requests : importer'[r] # "none" => importer[r] # "none"
      BY <3>1 DEF Active
    <3>4. \A r \in Requests : Active(r)' => r \in orphans'
      BY <3>1 DEF Active
    <3> QED
      BY <2>k, <3>2, <3>3, <3>4
  <2> QED
    BY <2>1, <2>3, <2>4, <2>5, <2>6, <2>7, <2>9, <2>10, <2>11 DEF SendNext, Pipeline
<1> QED
  BY <1>1, <1>2, QueueInvHolds, StageInductive, SendTypeCorrect, PTL DEF SendSpec

\* What an importer is recorded to have read is its order's, if it ran under the
\* daemon that started it.
ReadsKnown == \A i \in erp : importer[i.by] # "none" /\ (~i.late => i.doc = i.by /\ i.prm = i.by)

\* ReadsKnown holds in every state.
LEMMA ReadsKnownInductive == SendSpec => []ReadsKnown
<1> USE DEF ReadsKnown
<1>1. SendInit => ReadsKnown
  BY DEF SendInit
<1>2. /\ QueueInv /\ StageFollowsWorker /\ SendTypeOK /\ FilesWritten /\ ImportersKnown
      /\ ReadsKnown /\ [SendNext]_vars
      => ReadsKnown'
  <2> SUFFICES ASSUME QueueInv, StageFollowsWorker, SendTypeOK, FilesWritten,
                      ImportersKnown, ReadsKnown, [SendNext]_vars
               PROVE  ReadsKnown'
    OBVIOUS
  <2>t. \A i \in erp : i.by \in Requests
    BY DEF SendTypeOK
  <2>1. ASSUME UNCHANGED erp,
               \A r \in Requests : importer[r] # "none" => importer'[r] # "none"
        PROVE  ReadsKnown'
    BY <2>t, <2>1
  <2>2. CASE QueueOnly \/ RunHooks \/ UNCHANGED vars
    BY <2>1, <2>2, QuietStep DEF fileVars
  <2>3. CASE BeginProcessing \/ (Pipeline /\ ~StartImporter)
    BY <2>1, <2>3 DEF BeginProcessing, Pipeline, Prepared, PrepareFails, MkdirHistory,
       OpenFails, OpenFile, FillFile, FillFails, NoImporter, ImporterReturns, Returns
  <2>4. CASE StartImporter \/ KillImporter
    BY <2>1, <2>4 DEF StartImporter, KillImporter, SendTypeOK
  <2>5. ASSUME NEW r \in Requests, ImporterReads(r) PROVE ReadsKnown'
    <3> DEFINE Entry == [by |-> r, doc |-> disk[<<0, "doc">>],
                         prm |-> disk[<<0, "prm">>], late |-> r \in orphans]
    <3>1. erp' = erp \cup {Entry}
      BY <2>5 DEF ImporterReads
    <3>2. Active(r) /\ importer' = [importer EXCEPT ![r] = "read"]
      BY <2>5 DEF ImporterReads, Active
    <3>3. \A q \in Requests : importer[q] # "none" => importer'[q] # "none"
      BY <3>2 DEF SendTypeOK
    <3>4. ASSUME r \notin orphans
          PROVE  disk[<<0, "doc">>] = r /\ disk[<<0, "prm">>] = r
      <4>1. stage = "wait" /\ worker.job = r
        BY <3>2, <3>4 DEF ImportersKnown
      <4>2. num[r] \in Numbers
        BY <4>1, InProcess
      <4>3. disk[ToWrite(num[r])[1]] = r /\ disk[ToWrite(num[r])[2]] = r
        BY <4>1 DEF FilesWritten
      <4> QED
        BY <4>2, <4>3, ToWriteFacts
    <3>5. importer'[Entry.by] # "none" /\ (~Entry.late => Entry.doc = Entry.by
                                                       /\ Entry.prm = Entry.by)
      <4>1. /\ Entry.by = r /\ Entry.doc = disk[<<0, "doc">>]
            /\ Entry.prm = disk[<<0, "prm">>]
        OBVIOUS
      <4>2. Entry.late <=> r \in orphans
        OBVIOUS
      <4>3. importer'[r] # "none"
        BY <3>2 DEF SendTypeOK
      <4> QED
        BY <3>4, <4>1, <4>2, <4>3
    <3> HIDE DEF Entry
    <3> QED
      BY <2>t, <3>1, <3>3, <3>5
  <2>6. ASSUME NEW r \in Requests, ImporterExits(r) PROVE ReadsKnown'
    <3>1. PICK result \in {"failed", "imported"} :
            importer' = [importer EXCEPT ![r] = result]
      BY <2>6 DEF ImporterExits
    <3>2. UNCHANGED erp
      BY <2>6 DEF ImporterExits
    <3> QED
      BY <2>1, <3>1, <3>2 DEF SendTypeOK
  <2>7. CASE DaemonExits
    <3>1. PICK survivors \in SUBSET {r \in Requests : Active(r)} :
            importer' = [r \in Requests |->
              IF Active(r) /\ r \notin survivors THEN "failed" ELSE importer[r]]
      BY <2>7 DEF DaemonExits
    <3> QED
      BY <2>1, <2>7, <3>1 DEF DaemonExits
  <2> QED
    BY <2>2, <2>3, <2>4, <2>5, <2>6, <2>7 DEF SendNext, Pipeline
<1> QED
  BY <1>1, <1>2, QueueInvHolds, StageInductive, SendTypeCorrect, FilesWrittenInductive,
     ImportersKnownInductive, PTL DEF SendSpec

\* An importer imports the order it was started for, from a matching pair of
\* complete files, unless it outlived its daemon (send_order.go:178-205).
THEOREM SendImportsOwnOrder == SendSpec => []ImportsOwnOrder
<1>1. ReadsKnown => ImportsOwnOrder
  BY DEF ReadsKnown, ImportsOwnOrder
<1> QED
  BY <1>1, ReadsKnownInductive, PTL

\* An order reported failed was not imported: every error return of
\* processOrderWithNumber comes before the importer (send_order.go:101-205).
THEOREM SendFailedNeverImported == SendSpec => []FailedNeverImported
<1>1. ReadsKnown /\ ImportersKnown => FailedNeverImported
  BY DEF ReadsKnown, ImportersKnown, FailedNeverImported
<1> QED
  BY <1>1, ReadsKnownInductive, ImportersKnownInductive, PTL
-----------------------------------------------------------------------------
(* The history copies.                                                     *)

\* A lost number file stays lost.
LEMMA LostStays == ASSUME [Next]_queueVars, ~lost' PROVE ~lost
BY DEF Next, Arrive, Invalid, SubmitStep, Reserve, ReserveFails, Register, Enqueue,
   Overflow, Unregister, SendPanics, NumberLost, WorkerStep, Take, WorkerExits, MarkRunning,
   MarkDone, MarkFailed, HooksDone, ProcessStep, Processed, Cancel, StopQueue, Exit, Boot,
   queueVars, storeVars

\* If the order in the worker's hands has written file x of its history, how
\* far it is.
WroteHistory(x) ==
  /\ worker.pc # "taken"
  /\ stage \notin {"prepare", "mkdir"}
  /\ stage \in Writing => x = "doc" /\ target = 4

\* Only an order's own history directory holds the order, and the worker has
\* not got to a file of the history that is there already.
HistoryOwned ==
  ~lost => \A n \in Numbers, x \in {"doc", "prm"}, r \in Requests :
    disk[<<n, x>>] = r =>
      /\ num[r] = n
      /\ handler[r] \in Served
      /\ r \notin InChannel
      /\ r \in InHand => WroteHistory(x)

\* The file that is being written is not one that holds an order for good.
LEMMA WritesNoHistory ==
  ASSUME QueueInv, StageFollowsWorker, SendTypeOK, HistoryOwned, ~lost, stage \in Writing,
         NEW n \in Numbers, NEW x \in {"doc", "prm"}, disk[<<n, x>>] \in Requests
  PROVE  Path # <<n, x>>
<1> SUFFICES ASSUME Path = <<n, x>> PROVE FALSE
  OBVIOUS
<1> DEFINE r == disk[<<n, x>>]
<1>1. /\ InHand = {worker.job} /\ worker.job \in Requests /\ num[worker.job] \in Numbers
  BY InProcess DEF Writing
<1>2. num[r] = n /\ (r \in InHand => WroteHistory(x))
  BY DEF HistoryOwned
<1>3. target \in 3..4 /\ n = num[worker.job] /\ (target = 4 => x = "prm")
  <2>1. target \in {1, 2} => Path[1] = 0
    BY PathFacts
  <2>2. target \in {3, 4} => Path[1] = num[worker.job]
    BY PathFacts
  <2>3. target = 4 => Path[2] = "prm"
    BY PathFacts
  <2>4. Path[1] = n /\ Path[2] = x /\ n # 0
    BY ToWriteFacts
  <2>5. target \in {1, 2} \/ target \in {3, 4}
    BY DEF SendTypeOK
  <2> QED
    BY <2>1, <2>2, <2>3, <2>4, <2>5
<1>4. r = worker.job
  BY <1>1, <1>2, <1>3 DEF QueueInv, UniqueOrderNumbers, Numbers
<1> QED
  BY <1>1, <1>2, <1>3, <1>4 DEF WroteHistory

\* HistoryOwned holds in every reachable state (send_order.go:171-198).
LEMMA HistoryOwnedInductive == SendSpec => []HistoryOwned
<1>1. SendInit => HistoryOwned
  <2> SUFFICES ASSUME SendInit, NEW n \in Numbers, NEW x \in {"doc", "prm"}
               PROVE  disk[<<n, x>>] \notin Requests
    BY DEF HistoryOwned
  <2>1. disk[<<n, x>>] = Absent
    BY ToWriteFacts DEF SendInit
  <2> QED
    BY <2>1, SendOrderAssumption DEF SendOrderAssumption
<1>2. /\ QueueInv /\ StageFollowsWorker /\ SendTypeOK /\ HistoryOwned /\ [SendNext]_vars
      => HistoryOwned'
  <2> SUFFICES ASSUME QueueInv, StageFollowsWorker, SendTypeOK, HistoryOwned,
                      [SendNext]_vars, ~lost',
                      NEW n \in Numbers, NEW x \in {"doc", "prm"}, NEW r \in Requests,
                      disk'[<<n, x>>] = r
               PROVE  /\ num'[r] = n
                      /\ handler'[r] \in Served
                      /\ r \notin InChannel'
                      /\ r \in InHand' => WroteHistory(x)'
    BY Zenon DEF HistoryOwned
  <2>l. ~lost
    BY LostStays, SendStepIsQueueStep
  <2>p. stage # "idle" => /\ InHand = {worker.job} /\ worker.job \in Requests
                          /\ handler[worker.job] = "accepted"
                          /\ num[worker.job] \in Numbers /\ worker.job \notin InChannel
    BY InProcess
  <2>1. ASSUME disk[<<n, x>>] = r, WroteHistory(x) /\ r \in InHand => WroteHistory(x)'
        PROVE  /\ num'[r] = n
               /\ handler'[r] \in Served
               /\ r \notin InChannel'
               /\ r \in InHand' => WroteHistory(x)'
    <3>1. /\ num[r] = n /\ handler[r] \in Served /\ r \notin InChannel
          /\ r \in InHand => WroteHistory(x)
      BY <2>l, <2>1 DEF HistoryOwned
    <3> QED
      BY <2>1, <3>1, ServedKeeps, SendStepIsQueueStep
  <2>2. CASE QueueOnly \/ RunHooks \/ UNCHANGED vars
    <3>1. /\ UNCHANGED <<disk, stage, target>>
          /\ worker'.pc = "taken" => UNCHANGED worker \/ worker.pc = "select"
      BY <2>2, QuietStep DEF fileVars
    <3>2. WroteHistory(x) /\ r \in InHand => WroteHistory(x)'
      BY <3>1 DEF WroteHistory, InHand
    <3> QED
      BY <2>1, <3>1, <3>2
  <2>3. CASE BeginProcessing
    <3>1. UNCHANGED disk /\ worker.pc = "taken"
      BY <2>3 DEF BeginProcessing, MarkRunning, WorkerMove
    <3> QED
      BY <2>1, <3>1 DEF WroteHistory
  <2>4. CASE Prepared \/ PrepareFails \/ MkdirHistory
    <3>1. UNCHANGED <<disk, worker>> /\ stage \in {"prepare", "mkdir"}
      BY <2>4 DEF Prepared, PrepareFails, MkdirHistory, Goto, queueVars
    <3> QED
      BY <2>1, <3>1 DEF WroteHistory
  <2>5. CASE OpenFails \/ FillFails \/ StartImporter \/ NoImporter \/ ImporterReturns
    <3>1. UNCHANGED <<disk, worker>> /\ stage' \in {"err", "wait", "ok"}
      BY <2>5 DEF OpenFails, FillFails, StartImporter, NoImporter, ImporterReturns, Goto,
         queueVars
    <3> QED
      BY <2>1, <3>1 DEF WroteHistory, Writing
  <2>6. CASE Returns
    <3>1. UNCHANGED disk /\ stage' = "idle" /\ worker'.pc # "taken"
      BY <2>6 DEF Returns, Processed, WorkerMove, Goto, QueueInv, TypeOK
    <3> QED
      BY <2>1, <3>1 DEF WroteHistory, Writing
  <2>7. CASE (\E q \in Requests : ImporterReads(q) \/ ImporterExits(q)) \/ KillImporter
    <3>1. UNCHANGED <<disk, stage, target, worker>>
      BY <2>7 DEF ImporterReads, ImporterExits, KillImporter, queueVars
    <3> QED
      BY <2>1, <3>1 DEF WroteHistory
  <2>8. CASE DaemonExits
    <3>1. UNCHANGED disk /\ stage' = "idle" /\ worker'.pc # "taken"
      BY <2>8 DEF DaemonExits, Exit, IdleWorker
    <3> QED
      BY <2>1, <3>1 DEF WroteHistory, Writing
  <2>9. CASE OpenFile
    <3>1. /\ stage = "open" /\ stage' = "fill" /\ UNCHANGED <<target, worker>>
          /\ disk' = [disk EXCEPT ![Path] = Torn]
      BY <2>9 DEF OpenFile, Goto, queueVars
    <3>2. Torn \notin Requests /\ <<n, x>> \in Paths
      BY SendOrderAssumption, ToWriteFacts DEF SendOrderAssumption
    <3>3. disk[<<n, x>>] = r
      BY <3>1, <3>2 DEF SendTypeOK
    <3> QED
      BY <2>1, <3>1, <3>3 DEF WroteHistory, Writing
  <2>10. CASE FillFile
    <3>1. /\ stage = "fill" /\ UNCHANGED queueVars
          /\ disk' = [disk EXCEPT ![Path] = worker.job]
          /\ \/ target = 4 /\ stage' = "import"
             \/ target # 4 /\ stage' = "open" /\ target' = target + 1
      BY <2>10 DEF FillFile, Goto
    <3>2. /\ InHand' = InHand /\ InChannel' = InChannel
          /\ UNCHANGED <<num, handler, worker>>
      BY <3>1 DEF InHand, InChannel, queueVars
    <3>3. CASE Path # <<n, x>>
      <4>1. disk[<<n, x>>] = r
        BY <3>1, <3>3, ToWriteFacts DEF SendTypeOK
      <4>2. WroteHistory(x) => WroteHistory(x)'
        BY <3>1, <3>2 DEF WroteHistory, Writing
      <4> QED
        BY <2>1, <4>1, <4>2
    <3>4. CASE Path = <<n, x>>
      <4>1. r = worker.job
        BY <3>1, <3>4, ToWriteFacts DEF SendTypeOK
      <4>2. \/ target = 3 /\ n = num[worker.job] /\ x = "doc"
            \/ target = 4 /\ n = num[worker.job]
        <5>1. target \in {1, 2} => Path[1] = 0
          BY PathFacts
        <5>2. target = 3 => Path[1] = num[worker.job] /\ Path[2] = "doc"
          BY PathFacts
        <5>3. target = 4 => Path[1] = num[worker.job]
          BY PathFacts
        <5>4. n # 0 /\ Path[1] = n /\ Path[2] = x
          BY <3>4, ToWriteFacts
        <5>5. target \in {1, 2} \/ target = 3 \/ target = 4
          BY DEF SendTypeOK
        <5> QED
          BY <5>1, <5>2, <5>3, <5>4, <5>5
      <4>3. WroteHistory(x)'
        BY <2>p, <3>1, <3>2, <4>2 DEF WroteHistory, Writing, StageFollowsWorker
      <4> QED
        BY <2>p, <3>1, <3>2, <4>1, <4>2, <4>3 DEF Served
    <3> QED
      BY <3>3, <3>4
  <2> QED
    BY <2>2, <2>3, <2>4, <2>5, <2>6, <2>7, <2>8, <2>9, <2>10 DEF SendNext, Pipeline
<1> QED
  BY <1>1, <1>2, QueueInvHolds, StageInductive, SendTypeCorrect, PTL DEF SendSpec

\* A history copy, once complete, is never written again
\* (docs/hasavshevet-send-order.md:177-178, send_order.go:178-198).
THEOREM SendHistoryIsPermanent == SendSpec => HistoryIsPermanent
<1> DEFINE Kept == ~lost' => \A p \in Paths :
                     (p[1] # 0 /\ disk[p] \in Requests) => disk'[p] = disk[p]
<1>1. /\ QueueInv /\ StageFollowsWorker /\ SendTypeOK /\ HistoryOwned /\ [SendNext]_vars
      => Kept
  <2> SUFFICES ASSUME QueueInv, StageFollowsWorker, SendTypeOK, HistoryOwned,
                      [SendNext]_vars, ~lost',
                      NEW p \in Paths, p[1] # 0, disk[p] \in Requests
               PROVE  disk'[p] = disk[p]
    OBVIOUS
  <2>1. CASE OpenFile \/ FillFile
    <3>1. stage \in Writing
      BY <2>1 DEF OpenFile, FillFile, Goto, Writing
    <3>2. PICK c : disk' = [disk EXCEPT ![Path] = c]
      BY <2>1 DEF OpenFile, FillFile
    <3>3. p[1] \in Numbers /\ p[2] \in {"doc", "prm"} /\ p = <<p[1], p[2]>>
      BY QueueAssumption DEF Paths, Numbers, QueueAssumption
    <3>4. ~lost
      BY LostStays, SendStepIsQueueStep
    <3>5. Path # p
      BY <3>1, <3>3, <3>4, WritesNoHistory
    <3> QED
      BY <3>2, <3>5 DEF SendTypeOK
  <2>2. CASE QueueOnly \/ RunHooks \/ UNCHANGED vars
    BY <2>2, QuietStep DEF fileVars
  <2>3. CASE \/ BeginProcessing \/ Prepared \/ PrepareFails \/ MkdirHistory \/ OpenFails
             \/ FillFails \/ StartImporter \/ NoImporter \/ ImporterReturns \/ Returns
             \/ \E r \in Requests : ImporterReads(r) \/ ImporterExits(r)
             \/ KillImporter \/ DaemonExits
    BY <2>3 DEF BeginProcessing, Prepared, PrepareFails, MkdirHistory, OpenFails, FillFails,
       StartImporter, NoImporter, ImporterReturns, Returns, ImporterReads, ImporterExits,
       KillImporter, DaemonExits
  <2> QED
    BY <2>1, <2>2, <2>3 DEF SendNext, Pipeline
<1>2. /\ QueueInv /\ StageFollowsWorker /\ SendTypeOK /\ HistoryOwned /\ [SendNext]_vars
      => [Kept]_vars
  BY <1>1
<1> QED
  BY <1>2, QueueInvHolds, StageInductive, SendTypeCorrect, HistoryOwnedInductive, PTL
     DEF SendSpec, HistoryIsPermanent

HistoryComplete(r) == disk[<<num[r], "doc">>] = r /\ disk[<<num[r], "prm">>] = r

\* An order settled as done, or that an importer was started for, has both of
\* its history copies, and keeps them (send_order.go:181-198).
THEOREM SendHistoryOfProcessed == SendSpec => []HistoryOfProcessed
<1> DEFINE Inv == ~lost =>
      /\ worker.pc = "succeeded" => HistoryComplete(worker.job)
      /\ \A r \in Requests : fate[r] = "done" \/ importer[r] # "none" => HistoryComplete(r)
<1>1. SendInit => Inv
  BY DEF SendInit, Init, IdleWorker
<1>2. /\ QueueInv /\ StageFollowsWorker /\ SendTypeOK /\ FilesWritten /\ ImportersKnown
      /\ HistoryOwned /\ Inv /\ [SendNext]_vars
      => Inv'
  <2> SUFFICES ASSUME QueueInv, StageFollowsWorker, SendTypeOK, FilesWritten, ImportersKnown,
                      HistoryOwned, Inv, [SendNext]_vars, ~lost'
               PROVE  /\ worker'.pc = "succeeded" => HistoryComplete(worker.job)'
                      /\ \A r \in Requests : fate'[r] = "done" \/ importer'[r] # "none"
                           => HistoryComplete(r)'
    OBVIOUS
  <2>l. ~lost
    BY LostStays, SendStepIsQueueStep
  <2>s. \A r \in Requests : fate[r] = "done" \/ importer[r] # "none" =>
          handler[r] \in Served /\ num[r] \in Numbers /\ num'[r] = num[r]
    BY ServedKeeps, SendStepIsQueueStep DEF QueueInv, Places, ImportersKnown, Served
  <2>h. worker.pc = "succeeded" => worker.job \in Requests /\ num'[worker.job] = num[worker.job]
    BY ServedKeeps, SendStepIsQueueStep DEF QueueInv, Places, InHand, Served
  <2>p. stage # "idle" => /\ worker.pc = "processing" /\ worker.job \in Requests
                          /\ fate[worker.job] = "open"
                          /\ num[worker.job] \in Numbers
                          /\ num'[worker.job] = num[worker.job]
    BY InProcess, ServedKeeps, SendStepIsQueueStep DEF StageFollowsWorker, Served
  <2>c. stage \in {"import", "wait", "ok"} => HistoryComplete(worker.job)
    <3>1. stage \in {"import", "wait", "ok"} =>
            /\ disk[ToWrite(num[worker.job])[3]] = worker.job
            /\ disk[ToWrite(num[worker.job])[4]] = worker.job
      BY DEF FilesWritten
    <3> QED
      BY <2>p, <3>1, ToWriteFacts DEF HistoryComplete
  <2>1. ASSUME UNCHANGED disk,
               worker'.pc = "succeeded" => \/ UNCHANGED worker
                                           \/ stage = "ok" /\ worker'.job = worker.job,
               \A r \in Requests : fate'[r] = "done" \/ importer'[r] # "none" =>
                 \/ fate[r] = "done" \/ importer[r] # "none"
                 \/ worker.job = r /\ (worker.pc = "succeeded" \/ stage = "import")
        PROVE  /\ worker'.pc = "succeeded" => HistoryComplete(worker.job)'
               /\ \A r \in Requests : fate'[r] = "done" \/ importer'[r] # "none"
                    => HistoryComplete(r)'
    BY <2>l, <2>s, <2>h, <2>p, <2>c, <2>1 DEF HistoryComplete
  <2>2. CASE QueueOnly \/ RunHooks \/ UNCHANGED vars
    <3>1. UNCHANGED <<disk, importer>>
      BY <2>2, QuietStep DEF fileVars
    <3>2. worker'.pc = "succeeded" => UNCHANGED worker
      BY <2>2, QuietStep
    <3>3. \A r \in Requests : fate'[r] = "done" =>
            fate[r] = "done" \/ (worker.pc = "succeeded" /\ worker.job = r)
      BY <2>2, QuietStep
    <3> QED
      BY <2>1, <3>1, <3>2, <3>3
  <2>3. CASE BeginProcessing
    BY <2>1, <2>3 DEF BeginProcessing, MarkRunning, WorkerMove, historyVars, QueueInv, TypeOK
  <2>4. CASE \/ Prepared \/ PrepareFails \/ MkdirHistory \/ OpenFails \/ FillFails
             \/ NoImporter \/ ImporterReturns
    BY <2>1, <2>4 DEF Prepared, PrepareFails, MkdirHistory, OpenFails, FillFails,
       NoImporter, ImporterReturns, queueVars
  <2>5. CASE Returns
    <3>1. /\ UNCHANGED <<disk, importer, fate>> /\ worker'.job = worker.job
          /\ worker'.pc = "succeeded" => stage = "ok"
      BY <2>5 DEF Returns, Processed, WorkerMove, Goto, historyVars, QueueInv, TypeOK
    <3> QED
      BY <2>1, <3>1
  <2>6. CASE StartImporter
    <3>1. /\ UNCHANGED <<disk, fate, worker>> /\ stage = "import"
          /\ \A r \in Requests : r # worker.job => importer'[r] = importer[r]
      BY <2>6 DEF StartImporter, Goto, SendTypeOK, queueVars
    <3> QED
      BY <2>1, <3>1
  <2>7. ASSUME NEW q \in Requests, ImporterReads(q) \/ ImporterExits(q)
        PROVE  /\ UNCHANGED <<disk, fate, worker>>
               /\ \A r \in Requests : importer'[r] # "none" => importer[r] # "none"
    BY <2>7 DEF ImporterReads, ImporterExits, Active, SendTypeOK, queueVars
  <2>8. ASSUME KillImporter
        PROVE  /\ UNCHANGED <<disk, fate, worker>>
               /\ \A r \in Requests : importer'[r] # "none" => importer[r] # "none"
    BY <2>8 DEF KillImporter, Active, SendTypeOK, queueVars
  <2>9. CASE DaemonExits
    <3>1. UNCHANGED <<disk, fate>> /\ worker'.pc # "succeeded"
      BY <2>9 DEF DaemonExits, Exit, IdleWorker, historyVars
    <3>2. PICK survivors \in SUBSET {r \in Requests : Active(r)} :
            importer' = [r \in Requests |->
              IF Active(r) /\ r \notin survivors THEN "failed" ELSE importer[r]]
      BY <2>9 DEF DaemonExits
    <3>3. \A r \in Requests : importer'[r] # "none" => importer[r] # "none"
      BY <3>2 DEF Active
    <3> QED
      BY <2>1, <3>1, <3>3
  <2>10. CASE OpenFile \/ FillFile
    <3>1. stage \in Writing /\ UNCHANGED <<queueVars, importer>>
      BY <2>10 DEF OpenFile, FillFile, Goto, Writing
    <3>2. PICK c : disk' = [disk EXCEPT ![Path] = c]
      BY <2>10 DEF OpenFile, FillFile
    <3>3. worker'.pc # "succeeded"
      BY <2>p, <3>1 DEF queueVars, Writing
    <3>4. ASSUME NEW r \in Requests, fate'[r] = "done" \/ importer'[r] # "none"
          PROVE  HistoryComplete(r)'
      <4>1. HistoryComplete(r) /\ num[r] \in Numbers /\ UNCHANGED num
        BY <2>l, <2>s, <3>1, <3>4 DEF queueVars
      <4>2. ASSUME NEW x \in {"doc", "prm"}
            PROVE  disk'[<<num[r], x>>] = disk[<<num[r], x>>]
        <5>1. disk[<<num[r], x>>] = r
          BY <4>1 DEF HistoryComplete
        <5>2. Path # <<num[r], x>>
          BY <2>l, <3>1, <4>1, <5>1, WritesNoHistory
        <5>3. <<num[r], x>> \in Paths
          BY <4>1, ToWriteFacts
        <5> QED
          BY <3>2, <5>2, <5>3 DEF SendTypeOK
      <4> QED
        BY <4>1, <4>2 DEF HistoryComplete
    <3> QED
      BY <3>3, <3>4
  <2> QED
    BY <2>1, <2>2, <2>3, <2>4, <2>5, <2>6, <2>7, <2>8, <2>9, <2>10 DEF SendNext, Pipeline
<1>3. Inv => HistoryOfProcessed
  BY DEF HistoryOfProcessed, HistoryComplete
<1> QED
  BY <1>1, <1>2, <1>3, QueueInvHolds, StageInductive, SendTypeCorrect, FilesWrittenInductive,
     ImportersKnownInductive, HistoryOwnedInductive, PTL DEF SendSpec
=============================================================================
