------------------------- MODULE PostOrderHook_proof --------------------------
(***************************************************************************)
(* Proofs about PostOrderHook, for any set of requests, any settings and   *)
(* any installed print engines: the hook only refines how the worker gets  *)
(* through the post-order hooks, what is printed for an order is its own   *)
(* invoice, once, and the mail does not depend on the printer.             *)
(***************************************************************************)
EXTENDS PostOrderHook, SendOrder_proof

-----------------------------------------------------------------------------
(* The pipeline with the inside of the hook is the pipeline.               *)

\* The hook's own steps on the way to the mail touch none of the pipeline's
\* variables.
HookInside ==
  \/ HookBegins \/ Fetched \/ Rendered \/ SaveOpens \/ SaveFails \/ SaveFills
  \/ PrintSkipped \/ PrintStarts \/ PrintNotStarted \/ PrintReturns

\* The steps that end the hook.
HookEnds == HookSkipped \/ FetchFails \/ RenderFails \/ Mail \/ MailSkipped

\* What the hook's own steps do to the pipeline: nothing but, at its end, to
\* send the worker back to the channel (pdf_hook.go:98-202).
LEMMA HookStepKinds ==
  /\ AfterOrder <=> HookInside \/ HookEnds
  /\ HookInside => UNCHANGED vars /\ worker.pc = "hooks" /\ hook' # "idle"
  /\ HookEnds => RunHooks /\ hook' = "idle" /\ worker'.pc = "select"
  /\ \A r \in Requests : EngineSubmits(r) \/ EngineExits(r) => UNCHANGED <<vars, hook>>
  /\ EngineKilled => UNCHANGED <<vars, hook>>
  /\ HookBoot => QueueOnly /\ UNCHANGED hook
<1>1. AfterOrder <=> HookInside \/ HookEnds
  BY DEF AfterOrder, HookInside, HookEnds
<1>2. HookInside => UNCHANGED vars /\ worker.pc = "hooks" /\ hook' # "idle"
  BY DEF HookInside, HookBegins, Fetched, Rendered, SaveOpens, SaveFails, SaveFills,
     PrintSkipped, PrintStarts, PrintNotStarted, PrintReturns, HookMove
<1>3. HookEnds => RunHooks /\ hook' = "idle" /\ worker'.pc = "select"
  BY DEF HookEnds, HookSkipped, FetchFails, RenderFails, Mail, MailSkipped,
     AfterOrderReturns, HookMove, RunHooks, HooksDone, IdleWorker
<1>4. \A r \in Requests : EngineSubmits(r) \/ EngineExits(r) => UNCHANGED <<vars, hook>>
  BY DEF EngineSubmits, EngineExits
<1>5. EngineKilled => UNCHANGED <<vars, hook>>
  BY DEF EngineKilled
<1>6. HookBoot => QueueOnly /\ UNCHANGED hook
  BY DEF HookBoot, QueueOnly
<1> QED
  BY <1>1, <1>2, <1>3, <1>4, <1>5, <1>6

\* Each step is a step of the pipeline or changes none of its variables.
LEMMA HookStepIsSendStep == [HookNext]_allVars => [SendNext]_vars
<1> SUFFICES ASSUME [HookNext]_allVars PROVE [SendNext]_vars
  OBVIOUS
<1>1. CASE PipelineOnly
  BY <1>1 DEF PipelineOnly, SendNext
<1>2. CASE AfterOrder
  BY <1>2, HookStepKinds DEF SendNext
<1>3. CASE (\E r \in Requests : EngineSubmits(r) \/ EngineExits(r)) \/ EngineKilled
  BY <1>3, HookStepKinds
<1>4. CASE HookExits
  BY <1>4 DEF HookExits, SendNext
<1>5. CASE HookBoot
  BY <1>5, HookStepKinds DEF SendNext
<1>6. CASE UNCHANGED allVars
  BY <1>6 DEF allVars
<1> QED
  BY <1>1, <1>2, <1>3, <1>4, <1>5, <1>6 DEF HookNext

\* The hook is what SendOrder leaves open between MarkDone and HooksDone
\* (queue.go:103-110): all that was proved of the pipeline holds with it.
THEOREM HookImplementsPipeline == HookSpec => SendSpec
<1>1. HookInit => SendInit
  BY DEF HookInit
<1> QED
  BY <1>1, HookStepIsSendStep, PTL DEF HookSpec, SendSpec
-----------------------------------------------------------------------------
(* The order the hook works for.                                           *)

\* The hook runs inside the worker, for an order that was answered 202 and
\* settled as done.
HookFollowsWorker ==
  /\ hook # "idle" => worker.pc = "hooks"
  /\ worker.pc = "hooks" =>
       /\ worker.job \in Requests
       /\ handler[worker.job] = "accepted"
       /\ fate[worker.job] = "done"

\* The pipeline's steps without the hook: the worker stays in the hooks, and
\* gets there with an order that it has just settled as done.
LEMMA HooksEntered ==
  ASSUME QueueInv, PipelineOnly
  PROVE  /\ worker.pc = "hooks" => UNCHANGED worker
         /\ worker'.pc = "hooks" =>
              \/ worker.pc = "hooks"
              \/ /\ worker.pc = "succeeded" /\ worker'.job = worker.job
                 /\ fate'[worker.job] = "done"
         /\ \A r \in Requests : handler[r] = "accepted" => handler'[r] = "accepted"
         /\ \A r \in Requests : fate[r] = "done" => fate'[r] = "done"
<1> USE DEF QueueInv, TypeOK
<1> DEFINE Quiet == UNCHANGED <<worker, fate>>
           Answered == \A r \in Requests : handler[r] = "accepted" => handler'[r] = "accepted"
<1>1. ASSUME NEW r \in Requests, Arrive(r) \/ Invalid(r) \/ SubmitStep(r)
      PROVE  Quiet /\ Answered
  BY <1>1 DEF Arrive, Invalid, SubmitStep, Reserve, ReserveFails, Register, Enqueue,
     Overflow, Unregister, SendPanics, Move, historyVars
<1>2. ASSUME NumberLost \/ Cancel \/ StopQueue \/ Boot PROVE Quiet /\ Answered
  BY <1>2 DEF NumberLost, Cancel, StopQueue, Boot, historyVars
<1>3. ASSUME Take \/ WorkerExits \/ BeginProcessing \/ Returns
      PROVE  worker.pc # "hooks" /\ worker'.pc # "hooks" /\ UNCHANGED fate /\ Answered
  BY <1>3 DEF Take, WorkerExits, BeginProcessing, MarkRunning, Returns, Processed,
     WorkerMove, historyVars
<1>4. ASSUME MarkDone
      PROVE  /\ worker.pc = "succeeded" /\ worker'.job = worker.job /\ Answered
             /\ \A r \in Requests : fate'[r] = IF r = worker.job THEN "done" ELSE fate[r]
             /\ fate'[worker.job] = "done"
  <2>1. worker.job \in Requests
    BY <1>4 DEF MarkDone, WorkerMove, Places, InHand
  <2> QED
    BY <1>4, <2>1 DEF MarkDone, WorkerMove
<1>5. ASSUME MarkFailed
      PROVE  /\ worker.pc = "erred" /\ worker'.pc = "select" /\ Answered
             /\ \A r \in Requests : fate[r] = "done" => fate'[r] = "done"
  <2>1. fate[worker.job] = "open"
    BY <1>5 DEF MarkFailed, Places, InHand
  <2> QED
    BY <1>5, <2>1 DEF MarkFailed, IdleWorker
<1>6. ASSUME Pipeline /\ ~Returns PROVE Quiet /\ Answered
  BY <1>6 DEF Pipeline, Prepared, PrepareFails, MkdirHistory, OpenFails, OpenFile,
     FillFile, FillFails, StartImporter, NoImporter, ImporterReturns, queueVars
<1>7. ASSUME (\E r \in Requests : ImporterReads(r) \/ ImporterExits(r)) \/ KillImporter
      PROVE  Quiet /\ Answered
  BY <1>7 DEF ImporterReads, ImporterExits, KillImporter, queueVars
<1>8. CASE QueueOnly
  BY <1>1, <1>2, <1>3, <1>4, <1>5, <1>8 DEF QueueOnly
<1>9. CASE BeginProcessing \/ Pipeline
  BY <1>3, <1>6, <1>9
<1> QED
  BY <1>7, <1>8, <1>9 DEF PipelineOnly

\* HookFollowsWorker holds in every reachable state (queue.go:98-110).
LEMMA HookFollowsInductive == HookSpec => []HookFollowsWorker
<1> USE DEF HookFollowsWorker
<1>1. HookInit => HookFollowsWorker
  BY DEF HookInit, SendInit, Init, IdleWorker
<1>2. QueueInv /\ HookFollowsWorker /\ [HookNext]_allVars => HookFollowsWorker'
  <2> SUFFICES ASSUME QueueInv, HookFollowsWorker, [HookNext]_allVars
               PROVE  HookFollowsWorker'
    OBVIOUS
  <2>1. CASE PipelineOnly
    <3>1. UNCHANGED hook
      BY <2>1 DEF PipelineOnly, hookVars
    <3>2. worker.pc = "succeeded" => worker.job \in Requests /\ handler[worker.job] = "accepted"
      BY DEF QueueInv, Places, InHand
    <3> QED
      BY <2>1, <3>1, <3>2, HooksEntered
  <2>2. CASE HookInside
    BY <2>2, HookStepKinds DEF vars, queueVars
  <2>3. CASE HookEnds
    BY <2>3, HookStepKinds
  <2>4. CASE \/ (\E r \in Requests : EngineSubmits(r) \/ EngineExits(r)) \/ EngineKilled
             \/ UNCHANGED allVars
    BY <2>4, HookStepKinds DEF vars, queueVars, allVars, hookVars
  <2>5. CASE HookExits
    BY <2>5 DEF HookExits, DaemonExits, Exit, IdleWorker
  <2>6. CASE HookBoot
    BY <2>6 DEF HookBoot, Boot, historyVars
  <2> QED
    BY <2>1, <2>2, <2>3, <2>4, <2>5, <2>6, HookStepKinds DEF HookNext
<1> QED
  BY <1>1, <1>2, HookImplementsPipeline, QueueInvHolds, PTL DEF HookSpec
-----------------------------------------------------------------------------
(* Types, and what the print engines of the orders have done.              *)

\* A settled order stays settled, and keeps its number.
LEMMA DoneLasts ==
  ASSUME QueueInv, [HookNext]_allVars, NEW r \in Requests, fate[r] = "done"
  PROVE  fate'[r] = "done" /\ num'[r] = num[r] /\ num[r] \in Numbers
<1>1. handler[r] \in Served
  BY DEF QueueInv, Places, Served
<1>2. num'[r] = num[r] /\ num[r] \in Numbers
  BY <1>1, ServedKeeps, HookStepIsSendStep, SendStepIsQueueStep
<1>3. r \notin InHand
  BY DEF QueueInv, Places
<1>4. fate'[r] = "done"
  BY <1>1, <1>3, ServedKeeps, HookStepIsSendStep, SendStepIsQueueStep
<1> QED
  BY <1>2, <1>4

\* A print engine is started for a settled order only, from the one run of the
\* hook that gets to printing, and hands the file over once.
EnginesKnown ==
  \A r \in Requests :
    /\ engine[r] # "none" => fate[r] = "done"
    /\ engine[r] # "none" /\ worker.pc = "hooks" /\ worker.job = r =>
         hook \in {"printing", "mail"}
    /\ engine[r] \in {"none", "running"} => paper[r] = <<>>
    /\ Len(paper[r]) <= 1

\* A step of the hook that leaves the engines alone and moves on.
LEMMA EnginesLeftAlone ==
  ASSUME QueueInv, HookFollowsWorker, EnginesKnown, [HookNext]_allVars,
         UNCHANGED <<engine, paper>>,
         worker'.pc = "hooks" =>
           \/ /\ worker.pc = "hooks" /\ worker'.job = worker.job
              /\ hook \in {"printing", "mail"} => hook' \in {"printing", "mail"}
           \/ worker.pc = "succeeded" /\ worker'.job = worker.job
  PROVE  EnginesKnown'
<1>1. ASSUME NEW r \in Requests, engine'[r] # "none", worker'.pc = "hooks", worker'.job = r
      PROVE  hook' \in {"printing", "mail"}
  <2>1. fate[r] = "done"
    BY <1>1 DEF EnginesKnown
  <2>2. ~(worker.pc = "succeeded" /\ worker.job = r)
    BY <2>1 DEF QueueInv, Places, InHand
  <2> QED
    BY <1>1, <2>2 DEF EnginesKnown
<1>2. ASSUME NEW r \in Requests, engine'[r] # "none" PROVE fate'[r] = "done"
  BY <1>2, DoneLasts DEF EnginesKnown
<1> QED
  BY <1>1, <1>2 DEF EnginesKnown

\* The inductive invariant: the hook's variables have their types, and each
\* engine has done what it can have done by then (pdf_hook.go:159-187).
HookInv == HookTypeOK /\ EnginesKnown

\* HookInv holds in every reachable state.
LEMMA HookInvInductive == HookSpec => []HookInv
<1> USE HookAssumption DEF HookAssumption
<1>1. HookInit => HookInv
  <2> SUFFICES ASSUME HookInit PROVE HookInv
    OBVIOUS
  <2>1. <<>> \in Seq(Contents) /\ Len(<<>>) = 0
    OBVIOUS
  <2>2. HookTypeOK
    BY <2>1 DEF HookInit, HookTypeOK, Contents
  <2>3. EnginesKnown
    BY <2>1 DEF HookInit, EnginesKnown
  <2> QED
    BY <2>2, <2>3 DEF HookInv
<1>2. QueueInv /\ HookFollowsWorker /\ HookInv /\ [HookNext]_allVars => HookInv'
  <2> SUFFICES ASSUME QueueInv, HookFollowsWorker, HookInv, [HookNext]_allVars
               PROVE  HookTypeOK' /\ EnginesKnown'
    BY DEF HookInv
  <2>t. HookTypeOK /\ EnginesKnown
    BY DEF HookInv
  <2>j. hook # "idle" => worker.job \in Requests /\ num[worker.job] \in Numbers
    BY DoneLasts DEF HookFollowsWorker
  <2>1. CASE PipelineOnly
    <3>1. UNCHANGED hookVars
      BY <2>1 DEF PipelineOnly
    <3>2. HookTypeOK'
      BY <2>t, <3>1 DEF HookTypeOK, hookVars
    <3>3. EnginesKnown'
      BY <2>1, <2>t, <3>1, EnginesLeftAlone, HooksEntered DEF hookVars
    <3> QED
      BY <3>2, <3>3
  <2>2. CASE HookEnds
    <3>1. UNCHANGED <<pdfCfg, written, invoice, engine, paper>> /\ hook' = "idle"
      BY <2>2 DEF HookEnds, HookSkipped, FetchFails, RenderFails, Mail, MailSkipped,
         AfterOrderReturns, HookMove
    <3>2. mailed' \in SUBSET Requests
      <4>1. CASE Mail
        BY <2>t, <4>1 DEF Mail, HookTypeOK
      <4>2. CASE ~Mail
        BY <2>2, <2>t, <4>2 DEF HookEnds, HookSkipped, FetchFails, RenderFails, MailSkipped,
           HookTypeOK
      <4> QED
        BY <4>1, <4>2
    <3>3. HookTypeOK'
      BY <2>t, <3>1, <3>2 DEF HookTypeOK
    <3>4. EnginesKnown'
      BY <2>2, <2>t, <3>1, EnginesLeftAlone, HookStepKinds
    <3> QED
      BY <3>3, <3>4
  <2>3. CASE HookInside /\ ~PrintStarts
    <3>1. UNCHANGED <<engine, paper, pdfCfg, mailed>> /\ UNCHANGED vars
      BY <2>3 DEF HookInside, HookBegins, Fetched, Rendered, SaveOpens, SaveFails, SaveFills,
         PrintSkipped, PrintNotStarted, PrintReturns
    <3>2. /\ hook' \in {"fetch", "render", "save", "fill", "print", "mail"}
          /\ hook \in {"printing", "mail"} => hook' = "mail"
      BY <2>3 DEF HookInside, HookBegins, Fetched, Rendered, SaveOpens, SaveFails, SaveFills,
         PrintSkipped, PrintNotStarted, PrintReturns, HookMove
    <3>3. written' \in BOOLEAN
      BY <2>3, <2>t DEF HookInside, HookBegins, Fetched, Rendered, SaveOpens, SaveFails,
         SaveFills, PrintSkipped, PrintNotStarted, PrintReturns, HookTypeOK
    <3>4. invoice' \in [Numbers -> Contents]
      <4>1. CASE SaveOpens \/ SaveFills
        <5>1. PICK c \in Contents : invoice' = [invoice EXCEPT ![InvoiceOf(worker.job)] = c]
          BY <2>j, <4>1 DEF SaveOpens, SaveFills, HookMove, Contents
        <5> QED
          BY <2>t, <5>1 DEF HookTypeOK
      <4>2. CASE ~SaveOpens /\ ~SaveFills
        BY <2>3, <2>t, <4>2 DEF HookInside, HookBegins, Fetched, Rendered, SaveFails,
           PrintSkipped, PrintNotStarted, PrintReturns, HookTypeOK
      <4> QED
        BY <4>1, <4>2
    <3>5. HookTypeOK'
      BY <2>t, <3>1, <3>2, <3>3, <3>4 DEF HookTypeOK
    <3>6. EnginesKnown'
      BY <2>t, <2>3, <3>1, <3>2, EnginesLeftAlone, HookStepKinds DEF vars, queueVars
    <3> QED
      BY <3>5, <3>6
  <2>4. CASE PrintStarts
    <3>1. /\ worker.pc = "hooks" /\ hook = "print" /\ hook' = "printing" /\ UNCHANGED vars
          /\ engine' = [engine EXCEPT ![worker.job] = "running"]
          /\ UNCHANGED <<pdfCfg, written, invoice, paper, mailed>>
      BY <2>4 DEF PrintStarts, HookMove
    <3>2. HookTypeOK'
      BY <2>t, <3>1 DEF HookTypeOK
    <3>3. worker.job \in Requests /\ fate[worker.job] = "done"
      BY <3>1 DEF HookFollowsWorker
    <3>4. engine[worker.job] = "none"
      BY <2>t, <3>1, <3>3 DEF EnginesKnown
    <3>5. UNCHANGED <<worker, fate>>
      BY <3>1 DEF vars, queueVars
    <3>6. EnginesKnown'
      BY <2>t, <3>1, <3>3, <3>4, <3>5 DEF EnginesKnown, HookTypeOK
    <3> QED
      BY <3>2, <3>6
  <2>5. ASSUME NEW r \in Requests, EngineSubmits(r) PROVE HookTypeOK' /\ EnginesKnown'
    <3>1. /\ engine[r] = "running" /\ engine' = [engine EXCEPT ![r] = "submitted"]
          /\ paper' = [paper EXCEPT ![r] = Append(paper[r], invoice[num[r]])]
          /\ UNCHANGED <<vars, pdfCfg, hook, written, invoice, mailed>>
      BY <2>5 DEF EngineSubmits, InvoiceOf
    <3>2. fate[r] = "done" /\ paper[r] = <<>>
      BY <2>t, <3>1 DEF EnginesKnown
    <3>3. invoice[num[r]] \in Contents
      BY <2>t, <3>2, DoneLasts DEF HookTypeOK
    <3>4. paper'[r] = <<invoice[num[r]]>> /\ \A q \in Requests : q # r => paper'[q] = paper[q]
      BY <2>t, <3>1, <3>2 DEF HookTypeOK
    <3>5. paper'[r] \in Seq(Contents) /\ Len(paper'[r]) = 1
      BY <3>3, <3>4
    <3>6. HookTypeOK'
      BY <2>t, <3>1, <3>3 DEF HookTypeOK
    <3>7. UNCHANGED <<worker, fate>>
      BY <3>1 DEF vars, queueVars
    <3>8. \A q \in Requests : q # r => engine'[q] = engine[q]
      BY <2>t, <3>1 DEF HookTypeOK
    <3>9. engine'[r] = "submitted"
      BY <2>t, <3>1 DEF HookTypeOK
    <3>10. EnginesKnown'
      BY <2>t, <3>1, <3>2, <3>4, <3>5, <3>7, <3>8, <3>9 DEF EnginesKnown
    <3> QED
      BY <3>6, <3>10
  <2>6. ASSUME NEW exiting \in SUBSET Requests,
               \A r \in exiting : engine[r] # "none",
               engine' = [r \in Requests |-> IF r \in exiting THEN "exited" ELSE engine[r]],
               UNCHANGED paper,
               worker'.pc = "hooks" => UNCHANGED <<worker, hook>>
        PROVE  EnginesKnown' /\ engine' \in [Requests -> {"none", "running", "submitted", "exited"}]
    <3>1. \A r \in Requests : engine'[r] # "none" => fate'[r] = "done" /\ engine[r] # "none"
      BY <2>6, <2>t, DoneLasts DEF EnginesKnown
    <3> QED
      BY <2>6, <2>t, <3>1 DEF EnginesKnown, HookTypeOK
  <2>7. ASSUME NEW r \in Requests, Printing(r), engine' = [engine EXCEPT ![r] = "exited"],
               UNCHANGED <<vars, pdfCfg, hook, written, invoice, paper, mailed>>
        PROVE  HookTypeOK' /\ EnginesKnown'
    <3>1. engine' = [q \in Requests |-> IF q \in {r} THEN "exited" ELSE engine[q]]
      BY <2>7, <2>t DEF HookTypeOK
    <3>2. EnginesKnown' /\ engine' \in [Requests -> {"none", "running", "submitted", "exited"}]
      BY <2>6, <2>7, <3>1 DEF Printing, vars, queueVars
    <3> QED
      BY <2>7, <2>t, <3>2 DEF HookTypeOK
  <2>8. CASE (\E r \in Requests : EngineExits(r)) \/ EngineKilled
    BY <2>7, <2>8, <2>j DEF EngineExits, EngineKilled
  <2>9. CASE HookExits
    <3>1. PICK survivors \in SUBSET {r \in Requests : Printing(r)} :
            engine' = [r \in Requests |->
              IF Printing(r) /\ r \notin survivors THEN "exited" ELSE engine[r]]
      BY <2>9 DEF HookExits
    <3> DEFINE exiting == {r \in Requests : Printing(r) /\ r \notin survivors}
    <3>2. engine' = [r \in Requests |-> IF r \in exiting THEN "exited" ELSE engine[r]]
      BY <3>1
    <3>3. UNCHANGED <<pdfCfg, invoice, paper, mailed>> /\ hook' = "idle" /\ written' = FALSE
          /\ worker'.pc = "select"
      BY <2>9 DEF HookExits, DaemonExits, Exit, IdleWorker
    <3>4. EnginesKnown' /\ engine' \in [Requests -> {"none", "running", "submitted", "exited"}]
      BY <2>6, <3>2, <3>3 DEF Printing
    <3> QED
      BY <2>t, <3>3, <3>4 DEF HookTypeOK
  <2>10. CASE HookBoot \/ UNCHANGED allVars
    <3>1. UNCHANGED <<hook, written, invoice, engine, paper, mailed, worker>>
      BY <2>10 DEF HookBoot, Boot, allVars, hookVars, vars, queueVars
    <3>2. pdfCfg' \in PdfConfigs
      BY <2>10, <2>t DEF HookBoot, allVars, hookVars, HookTypeOK
    <3>3. HookTypeOK'
      BY <2>t, <3>1, <3>2 DEF HookTypeOK
    <3> QED
      BY <2>t, <3>1, <3>3, EnginesLeftAlone
  <2> QED
    BY <2>1, <2>2, <2>3, <2>4, <2>5, <2>8, <2>9, <2>10, HookStepKinds DEF HookNext
<1> QED
  BY <1>1, <1>2, HookImplementsPipeline, QueueInvHolds, HookFollowsInductive, PTL DEF HookSpec

\* The hook's variables keep their types (pdf_hook.go:98-202).
THEOREM HookTypeCorrect == HookSpec => []HookTypeOK
BY HookInvInductive, PTL DEF HookInv
-----------------------------------------------------------------------------
(* What is printed and mailed.                                             *)

\* The file a print engine is given, and what it hands over, is the invoice of
\* its order: it is complete before printing is considered, and no other order
\* writes to it, as long as the order numbers differ (pdf_hook.go:148-175).
InvoicesOwn ==
  /\ hook \in {"save", "fill"} => ~written
  /\ ~lost /\ hook = "print" /\ written => invoice[num[worker.job]] = worker.job
  /\ ~lost => \A r \in Requests :
       /\ engine[r] = "running" => invoice[num[r]] = r
       /\ paper[r] # <<>> => paper[r][1] = r

\* A step that leaves the invoices and the paper alone, and starts no engine.
LEMMA InvoicesLeftAlone ==
  ASSUME QueueInv, HookFollowsWorker, EnginesKnown, InvoicesOwn, [HookNext]_allVars,
         UNCHANGED <<invoice, paper>>,
         \A r \in Requests : engine'[r] = "running" => engine[r] = "running",
         hook' \in {"save", "fill"} => ~written',
         hook' = "print" /\ written' =>
           hook = "print" /\ written /\ worker'.job = worker.job
  PROVE  InvoicesOwn'
<1>1. ~lost' => ~lost
  BY LostStays, HookStepIsSendStep, SendStepIsQueueStep
<1>2. ASSUME hook' = "print", written', ~lost'
      PROVE  invoice'[num'[worker'.job]] = worker'.job
  <2>1. fate[worker.job] = "done" /\ worker.job \in Requests
    BY <1>2 DEF HookFollowsWorker
  <2>2. num'[worker.job] = num[worker.job] /\ worker'.job = worker.job
    BY <1>2, <2>1, DoneLasts
  <2> QED
    BY <1>1, <1>2, <2>2 DEF InvoicesOwn
<1>3. ASSUME NEW r \in Requests, engine'[r] = "running", ~lost' PROVE invoice'[num'[r]] = r
  <2>1. fate[r] = "done" /\ engine[r] = "running"
    BY <1>3 DEF EnginesKnown
  <2>2. num'[r] = num[r]
    BY <2>1, DoneLasts
  <2> QED
    BY <1>1, <1>3, <2>1, <2>2 DEF InvoicesOwn
<1>4. ASSUME NEW r \in Requests, paper'[r] # <<>>, ~lost' PROVE paper'[r][1] = r
  BY <1>1, <1>4 DEF InvoicesOwn
<1> QED
  BY <1>2, <1>3, <1>4 DEF InvoicesOwn

\* InvoicesOwn holds in every reachable state (pdf_hook.go:148-175).
LEMMA InvoicesOwnInductive == HookSpec => []InvoicesOwn
<1>1. HookInit => InvoicesOwn
  <2> SUFFICES ASSUME HookInit PROVE InvoicesOwn
    OBVIOUS
  <2> QED
    BY DEF HookInit, InvoicesOwn
<1>2. QueueInv /\ HookFollowsWorker /\ HookInv /\ InvoicesOwn /\ [HookNext]_allVars
      => InvoicesOwn'
  <2> SUFFICES ASSUME QueueInv, HookFollowsWorker, HookInv, InvoicesOwn, [HookNext]_allVars
               PROVE  InvoicesOwn'
    OBVIOUS
  <2>t. HookTypeOK /\ EnginesKnown
    BY DEF HookInv
  <2>j. hook # "idle" => /\ worker.job \in Requests /\ num[worker.job] \in Numbers
                         /\ worker.pc = "hooks"
    BY DoneLasts DEF HookFollowsWorker
  <2>1. CASE PipelineOnly
    <3>1. UNCHANGED <<hook, written, invoice, engine, paper>>
      BY <2>1 DEF PipelineOnly, hookVars
    <3>2. hook # "idle" => UNCHANGED worker
      BY <2>1, <2>j, HooksEntered
    <3>3. hook' \in {"save", "fill"} => ~written'
      BY <3>1 DEF InvoicesOwn
    <3> QED
      BY <2>t, <3>1, <3>2, <3>3, InvoicesLeftAlone
  <2>2. CASE HookEnds
    <3>1. UNCHANGED <<invoice, engine, paper>> /\ hook' = "idle"
      BY <2>2 DEF HookEnds, HookSkipped, FetchFails, RenderFails, Mail, MailSkipped,
         AfterOrderReturns, HookMove
    <3> QED
      BY <2>t, <3>1, InvoicesLeftAlone
  <2>3. CASE HookBegins \/ Fetched \/ PrintSkipped \/ PrintNotStarted \/ PrintReturns
    <3>1. UNCHANGED <<invoice, engine, paper>> /\ hook' \in {"fetch", "render", "mail"}
      BY <2>3 DEF HookBegins, Fetched, PrintSkipped, PrintNotStarted, PrintReturns, HookMove
    <3> QED
      BY <2>t, <3>1, InvoicesLeftAlone
  <2>4. CASE Rendered
    <3>1. UNCHANGED <<invoice, engine, paper>> /\ hook' = "save" /\ written' = FALSE
      BY <2>4 DEF Rendered, HookMove
    <3> QED
      BY <2>t, <3>1, InvoicesLeftAlone
  <2>5. CASE SaveFails
    <3>1. UNCHANGED <<invoice, engine, paper, written>> /\ hook \in {"save", "fill"}
          /\ hook' = "print"
      BY <2>5 DEF SaveFails, HookMove
    <3>2. ~written
      BY <3>1 DEF InvoicesOwn
    <3> QED
      BY <2>t, <3>1, <3>2, InvoicesLeftAlone
  <2>6. CASE SaveOpens \/ SaveFills
    <3>1. /\ hook \in {"save", "fill"} /\ UNCHANGED <<vars, engine, paper>>
          /\ UNCHANGED <<lost, num, worker>>
      BY <2>6 DEF SaveOpens, SaveFills, HookMove, vars, queueVars
    <3>2. PICK c : invoice' = [invoice EXCEPT ![num[worker.job]] = c]
      BY <2>6 DEF SaveOpens, SaveFills, InvoiceOf
    <3>3. \A n \in Numbers : n # num[worker.job] => invoice'[n] = invoice[n]
      BY <2>t, <3>2 DEF HookTypeOK
    <3>4. ASSUME NEW r \in Requests, engine'[r] = "running", ~lost' PROVE invoice'[num'[r]] = r
      <4>1. engine[r] = "running" /\ r # worker.job
        BY <2>j, <2>t, <3>1, <3>4 DEF EnginesKnown
      <4>2. fate[r] = "done"
        BY <2>t, <4>1 DEF EnginesKnown
      <4>3. num[r] \in Numbers
        BY <4>2, DoneLasts
      <4>4. num[r] # 0
        BY <4>3 DEF Numbers
      <4>5. num[r] # num[worker.job]
        BY <2>j, <3>1, <3>4, <4>1, <4>4 DEF QueueInv, UniqueOrderNumbers
      <4>6. invoice'[num[r]] = invoice[num[r]]
        BY <3>3, <4>3, <4>5
      <4> QED
        BY <3>1, <3>4, <4>1, <4>6 DEF InvoicesOwn
    <3>5. ASSUME NEW r \in Requests, paper'[r] # <<>>, ~lost' PROVE paper'[r][1] = r
      BY <3>1, <3>5 DEF InvoicesOwn
    <3>6. CASE SaveOpens
      <4>1. hook' = "fill" /\ ~written'
        BY <3>1, <3>6 DEF SaveOpens, HookMove, InvoicesOwn
      <4> QED
        BY <3>4, <3>5, <4>1 DEF InvoicesOwn
    <3>7. CASE SaveFills
      <4>1. hook' = "print" /\ invoice'[num'[worker'.job]] = worker'.job
        BY <2>j, <2>t, <3>1, <3>7 DEF SaveFills, HookMove, InvoiceOf, HookTypeOK
      <4> QED
        BY <3>4, <3>5, <4>1 DEF InvoicesOwn
    <3> QED
      BY <2>6, <3>6, <3>7
  <2>7. CASE PrintStarts
    <3>1. /\ hook = "print" /\ hook' = "printing" /\ written
          /\ UNCHANGED <<lost, num, worker, invoice, paper>>
          /\ engine' = [engine EXCEPT ![worker.job] = "running"]
      BY <2>7 DEF PrintStarts, HookMove, vars, queueVars
    <3>2. ASSUME NEW r \in Requests, engine'[r] = "running", ~lost' PROVE invoice'[num'[r]] = r
      <4>1. CASE r = worker.job
        BY <3>1, <3>2, <4>1 DEF InvoicesOwn
      <4>2. CASE r # worker.job
        BY <2>t, <3>1, <3>2, <4>2 DEF InvoicesOwn, HookTypeOK
      <4> QED
        BY <4>1, <4>2
    <3> QED
      BY <3>1, <3>2 DEF InvoicesOwn
  <2>8. ASSUME NEW r \in Requests, EngineSubmits(r) PROVE InvoicesOwn'
    <3>1. /\ engine[r] = "running" /\ engine' = [engine EXCEPT ![r] = "submitted"]
          /\ paper' = [paper EXCEPT ![r] = Append(paper[r], invoice[num[r]])]
          /\ UNCHANGED <<lost, num, worker, invoice, hook, written>>
      BY <2>8 DEF EngineSubmits, InvoiceOf, vars, queueVars
    <3>2. fate[r] = "done" /\ paper[r] = <<>>
      BY <2>t, <3>1 DEF EnginesKnown
    <3>3. paper'[r] = <<invoice[num[r]]>> /\ \A q \in Requests : q # r => paper'[q] = paper[q]
      BY <2>t, <3>1, <3>2 DEF HookTypeOK
    <3>4. ~lost => paper'[r][1] = r
      BY <3>1, <3>3 DEF InvoicesOwn
    <3>5. \A q \in Requests : engine'[q] = "running" => engine[q] = "running"
      BY <2>t, <3>1 DEF HookTypeOK
    <3> QED
      BY <3>1, <3>3, <3>4, <3>5 DEF InvoicesOwn
  <2>9. CASE (\E r \in Requests : EngineExits(r)) \/ EngineKilled
    <3>1. /\ UNCHANGED <<invoice, paper, hook, written, worker>>
          /\ \A r \in Requests : engine'[r] = "running" => engine[r] = "running"
      BY <2>9, <2>j, <2>t DEF EngineExits, EngineKilled, HookTypeOK, vars, queueVars
    <3>2. hook' \in {"save", "fill"} => ~written'
      BY <3>1 DEF InvoicesOwn
    <3> QED
      BY <2>t, <3>1, <3>2, InvoicesLeftAlone
  <2>10. CASE HookExits
    <3>1. PICK survivors \in SUBSET {r \in Requests : Printing(r)} :
            engine' = [r \in Requests |->
              IF Printing(r) /\ r \notin survivors THEN "exited" ELSE engine[r]]
      BY <2>10 DEF HookExits
    <3>2. \A r \in Requests : engine'[r] = "running" => engine[r] = "running"
      BY <3>1
    <3>3. UNCHANGED <<invoice, paper>> /\ hook' = "idle"
      BY <2>10 DEF HookExits
    <3> QED
      BY <2>t, <3>2, <3>3, InvoicesLeftAlone
  <2>11. CASE HookBoot \/ UNCHANGED allVars
    <3>1. UNCHANGED <<hook, written, invoice, engine, paper, worker>>
      BY <2>11 DEF HookBoot, Boot, allVars, hookVars, vars, queueVars
    <3>2. hook' \in {"save", "fill"} => ~written'
      BY <3>1 DEF InvoicesOwn
    <3> QED
      BY <2>t, <3>1, <3>2, InvoicesLeftAlone
  <2> QED
    BY <2>1, <2>2, <2>3, <2>4, <2>5, <2>6, <2>7, <2>8, <2>9, <2>10, <2>11, HookStepKinds
       DEF HookNext, HookInside
<1> QED
  BY <1>1, <1>2, HookImplementsPipeline, QueueInvHolds, HookFollowsInductive,
     HookInvInductive, PTL DEF HookSpec

\* What goes to the spooler for an order is its own complete invoice, at most
\* once, and only if the order was settled as done (pdf_hook.go:148-187).
THEOREM HookPaperIsOwnInvoice == HookSpec => []PaperIsOwnInvoice
<1>1. HookInv /\ InvoicesOwn => PaperIsOwnInvoice
  <2> SUFFICES ASSUME HookInv, InvoicesOwn, NEW r \in Requests, paper[r] # <<>>
               PROVE  /\ Len(paper[r]) = 1 /\ fate[r] = "done"
                      /\ ~lost => paper[r][1] = r
    BY DEF PaperIsOwnInvoice
  <2>1. engine[r] # "none" /\ Len(paper[r]) <= 1 /\ fate[r] = "done"
    BY DEF HookInv, EnginesKnown
  <2>2. Len(paper[r]) \in Nat /\ Len(paper[r]) # 0
    BY DEF HookInv, HookTypeOK
  <2>3. \A k \in Nat : k <= 1 /\ k # 0 => k = 1
    OBVIOUS
  <2>4. Len(paper[r]) = 1
    BY <2>1, <2>2, <2>3
  <2> QED
    BY <2>1, <2>4 DEF InvoicesOwn
<1> QED
  BY <1>1, HookInvInductive, InvoicesOwnInductive, PTL

\* A customer whose invoice was rendered is written to, although the PDF could
\* not be saved or printed (pdf_hook.go:148-200).
THEOREM HookMailNotHeldByPrinter == HookSpec => MailNotHeldByPrinter
<1>1. ASSUME QueueInv, HookNext, NEW r \in WithEmail,
             worker = [pc |-> "hooks", job |-> r], hook \notin {"idle", "fetch", "render"},
             pdfCfg.email, alive', worker'.pc # "hooks"
      PROVE  r \in mailed'
  <2>1. CASE HookEnds
    <3>1. Mail \/ MailSkipped
      BY <1>1, <2>1 DEF HookEnds, HookSkipped, FetchFails, RenderFails, AfterOrderReturns,
         HookMove
    <3>2. ~MailSkipped
      BY <1>1 DEF MailSkipped
    <3> QED
      BY <1>1, <3>1, <3>2 DEF Mail
  <2>2. ~PipelineOnly
    BY <1>1, HooksEntered
  <2>3. ~HookExits
    BY <1>1 DEF HookExits, DaemonExits, Exit
  <2>4. worker' # worker
    BY <1>1
  <2>5. ~HookInside /\ ~EngineKilled /\ ~(\E q \in Requests : EngineSubmits(q) \/ EngineExits(q))
    BY <2>4, HookStepKinds DEF vars, queueVars
  <2>6. ~HookBoot
    BY <2>4 DEF HookBoot, Boot
  <2> QED
    BY <1>1, <2>1, <2>2, <2>3, <2>5, <2>6, HookStepKinds DEF HookNext
<1>2. QueueInv /\ [HookNext]_allVars =>
        [\A r \in WithEmail :
           (/\ worker = [pc |-> "hooks", job |-> r]
            /\ hook \notin {"idle", "fetch", "render"}
            /\ pdfCfg.email
            /\ alive'
            /\ worker'.pc # "hooks") => r \in mailed']_allVars
  BY <1>1
<1> QED
  BY <1>2, HookImplementsPipeline, QueueInvHolds, PTL DEF HookSpec, MailNotHeldByPrinter
=============================================================================
