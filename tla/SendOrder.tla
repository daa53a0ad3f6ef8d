------------------------------ MODULE SendOrder -------------------------------
(***************************************************************************)
(* The send-order pipeline: OrderQueue's worker together with what         *)
(* Sender.processOrderWithNumber (send_order.go) does to the files of      *)
(* SendOrderDir, the Hasavshevet importer it starts (exec_windows.go) and  *)
(* the post-order hooks.                                                   *)
(*                                                                         *)
(* A file's content is the order it was generated from.  A write truncates *)
(* the file and then fills it, so that a crash or a full disk leaves it    *)
(* torn.  The importer is a process of its own: it reads IMOVEIN.doc and   *)
(* IMOVEIN.prm at a moment of its choosing and may outlive the daemon.     *)
(***************************************************************************)
EXTENDS OrderQueue

CONSTANTS
  Importer,     \* "bat" (HasBatFile), "exe" (HasExePath) or "none"
  MaxErrors,    \* bound on file system errors in the pipeline
  Absent,       \* content of a file that does not exist
  Torn          \* content of a file truncated but not filled

ASSUME SendOrderAssumption ==
  /\ Importer \in {"bat", "exe", "none"}
  /\ MaxErrors \in Nat
  /\ {Absent, Torn} \cap (Requests \cup {NoRequest}) = {}
  /\ Absent # Torn

VARIABLES
  stage,      \* where processOrderWithNumber is
  target,     \* index of the file being written
  disk,       \* content of the IMOVEIN files
  importer,   \* the importer process started for each order
  orphans,    \* the importers that outlived the daemon that started them
  erp,        \* history: what the importers have read and posted
  errors      \* number of file system errors so far

fileVars == <<stage, target, disk, importer, orphans, erp, errors>>
vars == <<queueVars, fileVars>>

\* SendOrderDir itself is directory 0, history/<n> is directory n.
Paths == (0..MaxNumber) \X {"doc", "prm"}

Contents == Requests \cup {Absent, Torn}

\* Mutant: one history directory for all orders.
ToWriteOneHistory(n) == <<<<0, "doc">>, <<0, "prm">>, <<1, "doc">>, <<1, "prm">>>>

\* toWrite: the four files of an order in the order they are written.
ToWrite(n) == <<<<0, "doc">>, <<0, "prm">>, <<n, "doc">>, <<n, "prm">>>>

Path == ToWrite(num[worker.job])[target]

Writing == {"open", "fill"}

SendTypeOK ==
  /\ stage \in {"idle", "prepare", "mkdir", "import", "wait", "ok", "err"} \cup Writing
  /\ target \in 1..4
  /\ disk \in [Paths -> Contents]
  /\ importer \in [Requests -> {"none", "running", "read", "failed", "imported"}]
  /\ orphans \in SUBSET Requests
  /\ erp \in SUBSET [by : Requests, doc : Contents, prm : Contents, late : BOOLEAN]
  /\ errors \in 0..MaxErrors

SendInit ==
  /\ Init
  /\ stage = "idle"
  /\ target = 1
  /\ disk = [p \in Paths |-> Absent]
  /\ importer = [r \in Requests |-> "none"]
  /\ orphans = {}
  /\ erp = {}
  /\ errors = 0

Goto(from, to) ==
  /\ alive
  /\ stage = from
  /\ stage' = to

Error ==
  /\ errors < MaxErrors
  /\ errors' = errors + 1

Active(r) == importer[r] \in {"running", "read"}

-----------------------------------------------------------------------------
(* processOrderWithNumber.                                                 *)

BeginProcessing ==
  /\ MarkRunning
  /\ Goto("idle", "prepare")
  /\ UNCHANGED <<target, disk, importer, orphans, erp, errors>>

\* Configuration, validation and account lookup pass; the lookup fails under
\* a cancelled context.  The rate lookup cannot fail the order.
Prepared ==
  /\ Goto("prepare", "mkdir")
  /\ ~cancelled
  /\ UNCHANGED <<queueVars, target, disk, importer, orphans, erp, errors>>

\* A setting is missing, the order breaks a rule, the account is not found.
PrepareFails ==
  /\ Goto("prepare", "err")
  /\ UNCHANGED <<queueVars, target, disk, importer, orphans, erp, errors>>

MkdirHistory ==
  /\ Goto("mkdir", "open")
  /\ target' = 1
  /\ UNCHANGED <<queueVars, disk, importer, orphans, erp, errors>>

\* MkdirAll, or the opening of the next file, fails.
OpenFails ==
  /\ stage \in {"mkdir", "open"}
  /\ Goto(stage, "err")
  /\ Error
  /\ UNCHANGED <<queueVars, target, disk, importer, orphans, erp>>

OpenFile ==
  /\ Goto("open", "fill")
  /\ disk' = [disk EXCEPT ![Path] = Torn]
  /\ UNCHANGED <<queueVars, target, importer, orphans, erp, errors>>

\* Mutant: the loop stops before the last file.
FillFileStopsEarly ==
  /\ Goto("fill", IF target = 3 THEN "import" ELSE "open")
  /\ target' = IF target = 3 THEN 1 ELSE target + 1
  /\ disk' = [disk EXCEPT ![Path] = worker.job]
  /\ UNCHANGED <<queueVars, importer, orphans, erp, errors>>

\* Mutant: the index runs past the last file.
FillFileRunsOn ==
  /\ Goto("fill", IF target = 4 THEN "import" ELSE "open")
  /\ target' = target + 1
  /\ disk' = [disk EXCEPT ![Path] = worker.job]
  /\ UNCHANGED <<queueVars, importer, orphans, erp, errors>>

\* The file is filled; the next one follows, or the importer after the last.
FillFile ==
  /\ Goto("fill", IF target = 4 THEN "import" ELSE "open")
  /\ target' = IF target = 4 THEN 1 ELSE target + 1
  /\ disk' = [disk EXCEPT ![Path] = worker.job]
  /\ UNCHANGED <<queueVars, importer, orphans, erp, errors>>

FillFails ==
  /\ Goto("fill", "err")
  /\ Error
  /\ UNCHANGED <<queueVars, target, disk, importer, orphans, erp>>

\* exec.CommandContext refuses to start a process once the context is done.
StartImporter ==
  /\ Importer # "none"
  /\ ~cancelled
  /\ Goto("import", "wait")
  /\ importer' = [importer EXCEPT ![worker.job] = "running"]
  /\ UNCHANGED <<queueVars, target, disk, orphans, erp, errors>>

\* No importer is configured, or it cannot be started: the error is logged
\* and the order goes on as complete.
NoImporter ==
  /\ Goto("import", "ok")
  /\ UNCHANGED <<queueVars, target, disk, importer, orphans, erp, errors>>

\* Mutant: Start instead of CombinedOutput, nobody waits for the importer.
ImporterDetached ==
  /\ Goto("wait", "ok")
  /\ UNCHANGED <<queueVars, target, disk, importer, orphans, erp, errors>>

\* Mutant: the importer's exit code fails the order.
ImporterFailsOrder ==
  /\ Goto("wait", IF importer[worker.job] = "imported" THEN "ok" ELSE "err")
  /\ ~Active(worker.job)
  /\ UNCHANGED <<queueVars, target, disk, importer, orphans, erp, errors>>

\* CombinedOutput returns; the importer's exit code is only logged.
ImporterReturns ==
  /\ Goto("wait", "ok")
  /\ ~Active(worker.job)
  /\ UNCHANGED <<queueVars, target, disk, importer, orphans, erp, errors>>

\* processOrderWithNumber returns to the worker.
Returns ==
  /\ \/ Goto("ok", "idle") /\ Processed("succeeded")
     \/ Goto("err", "idle") /\ Processed("erred")
  /\ UNCHANGED <<target, disk, importer, orphans, erp, errors>>

\* Mutant: an error of a hook fails the order.
RunHooksFailOrder ==
  /\ alive
  /\ worker.pc = "hooks"
  /\ worker' = IdleWorker
  /\ SetStatus(num[worker.job], "failed")
  /\ UNCHANGED <<storeVars, handler, num, ch, lifeVars, historyVars,
                 stage, target, disk, importer, orphans, erp, errors>>

\* AfterOrder of the registered hooks; PostOrderHook says what it does.
RunHooks == HooksDone /\ UNCHANGED fileVars

-----------------------------------------------------------------------------
(* The importer's process.                                                 *)

\* It reads the active files and posts what it found to the ERP.
ImporterReads(r) ==
  /\ importer[r] = "running"
  /\ importer' = [importer EXCEPT ![r] = "read"]
  /\ erp' = erp \cup {[by |-> r, doc |-> disk[<<0, "doc">>],
                       prm |-> disk[<<0, "prm">>], late |-> r \in orphans]}
  /\ UNCHANGED <<queueVars, stage, target, disk, orphans, errors>>

\* It exits, having imported the files or having failed at any point.
ImporterExits(r) ==
  /\ Active(r)
  /\ \E result \in {"failed"} \cup (IF importer[r] = "read" THEN {"imported"} ELSE {}) :
       importer' = [importer EXCEPT ![r] = result]
  /\ orphans' = orphans \ {r}
  /\ UNCHANGED <<queueVars, stage, target, disk, erp, errors>>

\* Mutant: exec.Command, which no context kills.
KillNothing == FALSE

\* A cancelled context kills the process CommandContext started.  With a BAT
\* file that is cmd.exe: has.exe lives on and keeps the output pipe, and so
\* CombinedOutput, open.
KillImporter ==
  /\ Importer = "exe"
  /\ cancelled
  /\ alive
  /\ stage = "wait"
  /\ Active(worker.job)
  /\ importer' = [importer EXCEPT ![worker.job] = "failed"]
  /\ UNCHANGED <<queueVars, stage, target, disk, orphans, erp, errors>>

\* The daemon ends.  A running importer dies with it (power loss) or lives on.
DaemonExits ==
  /\ Exit
  /\ stage' = "idle"
  /\ target' = 1
  /\ \E survivors \in SUBSET {r \in Requests : Active(r)} :
       /\ orphans' = survivors
       /\ importer' = [r \in Requests |->
            IF Active(r) /\ r \notin survivors THEN "failed" ELSE importer[r]]
  /\ UNCHANGED <<disk, erp, errors>>

-----------------------------------------------------------------------------
Pipeline ==
  \/ Prepared \/ PrepareFails \/ MkdirHistory \/ OpenFails
  \/ OpenFile \/ FillFile \/ FillFails
  \/ StartImporter \/ NoImporter \/ ImporterReturns \/ Returns

\* The steps of the queue that the files take no part in.
QueueOnly ==
  /\ \/ \E r \in Requests : Arrive(r) \/ Invalid(r) \/ SubmitStep(r)
     \/ NumberLost
     \/ Take \/ WorkerExits \/ MarkDone \/ MarkFailed
     \/ Cancel \/ StopQueue \/ Boot
  /\ UNCHANGED fileVars

SendNext ==
  \/ QueueOnly
  \/ BeginProcessing
  \/ Pipeline
  \/ RunHooks
  \/ \E r \in Requests : ImporterReads(r) \/ ImporterExits(r)
  \/ KillImporter
  \/ DaemonExits

SendSpec == SendInit /\ [][SendNext]_vars

\* The worker runs whenever it can and os/exec kills what it was told to.  The
\* importer is another vendor's program: nothing says that it ever exits.
WorkerRuns ==
  \/ (Take \/ WorkerExits \/ MarkDone \/ MarkFailed) /\ UNCHANGED fileVars
  \/ BeginProcessing \/ Pipeline \/ RunHooks

SendFairSpec ==
  /\ SendSpec
  /\ WF_vars(WorkerRuns)
  /\ WF_vars(KillImporter)

-----------------------------------------------------------------------------
(* Properties.                                                             *)

\* An importer that runs under the daemon that started it imports the order it
\* was started for, from a matching pair of complete files.
ImportsOwnOrder ==
  \A i \in erp : ~i.late => i.doc = i.by /\ i.prm = i.by

\* An order reported failed was not imported, so that sending it again does
\* not enter it twice: every error return comes before the importer.
FailedNeverImported ==
  \A i \in erp : (~i.late /\ i.doc \in Requests) => fate[i.doc] # "failed"

\* An order that was settled as done, or that an importer was started for, has
\* both of its history copies, and keeps them (send_order.go:181-182).
HistoryOfProcessed ==
  ~lost => \A r \in Requests : (fate[r] = "done" \/ importer[r] # "none") =>
    disk[<<num[r], "doc">>] = r /\ disk[<<num[r], "prm">>] = r

\* A history copy, once complete, is never written again: it is the permanent
\* copy of its order (docs/hasavshevet-send-order.md:177-178).
HistoryIsPermanent ==
  [][~lost' => \A p \in Paths : (p[1] # 0 /\ disk[p] \in Requests) => disk'[p] = disk[p]]_vars

\* The pipeline only refines how an order is processed: seen through the
\* variables of the queue, it is the queue.
ImplementsQueue == Spec

\* The documented guarantee about the active files: they are never written or
\* imported concurrently (docs/architecture.md:81-82).
NeverWrittenWhileImported ==
  \A r \in Requests : Active(r) => stage \notin Writing
=============================================================================
