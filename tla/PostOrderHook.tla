---------------------------- MODULE PostOrderHook -----------------------------
(***************************************************************************)
(* SendOrder with the inside of PDFPostOrderHook.AfterOrder (pdf_hook.go): *)
(* the worker fetches the order's HTML from the backend, has headless      *)
(* Chrome render it, saves the PDF beside the order's history copies,      *)
(* prints the saved file and mails the rendered bytes.                     *)
(*                                                                         *)
(* The print engine is a process of its own: it reads the saved file at a  *)
(* moment of its choosing, may hang, and may outlive the daemon.           *)
(***************************************************************************)
EXTENDS SendOrder, Sequences

CONSTANTS
  PdfConfigs,   \* the PDF settings a start of the daemon may find
  Installed,    \* the print engines found on the machine
  WithToken,    \* requests whose document type has a remote token
  WithEmail     \* requests that carry a customer's address

Engines == {"PDFtoPrinter", "Acrobat", "SumatraPDF"}

ASSUME HookAssumption ==
  /\ PdfConfigs \subseteq [hooked : BOOLEAN, remote : BOOLEAN,
                          print : BOOLEAN, email : BOOLEAN]
  /\ Installed \subseteq Engines
  /\ WithToken \subseteq Requests
  /\ WithEmail \subseteq Requests

VARIABLES
  pdfCfg,     \* PDFPostOrderHook.cfg, read when the daemon started
  hook,       \* where AfterOrder is
  written,    \* pdfWritten
  invoice,    \* content of history/<n>/invoice_<n>.pdf
  engine,     \* the print engine's process for each order
  paper,      \* history: what has gone to the spooler for each order
  mailed      \* history: the orders SendInvoice was called for

hookVars == <<pdfCfg, hook, written, invoice, engine, paper, mailed>>
allVars == <<vars, hookVars>>

Printing(r) == engine[r] \in {"running", "submitted"}

HookTypeOK ==
  /\ pdfCfg \in PdfConfigs
  /\ hook \in {"idle", "fetch", "render", "save", "fill", "print", "printing", "mail"}
  /\ written \in BOOLEAN
  /\ invoice \in [Numbers -> Contents]
  /\ engine \in [Requests -> {"none", "running", "submitted", "exited"}]
  /\ paper \in [Requests -> Seq(Contents)]
  /\ mailed \in SUBSET Requests

HookInit ==
  /\ SendInit
  /\ pdfCfg \in PdfConfigs
  /\ hook = "idle"
  /\ written = FALSE
  /\ invoice = [n \in Numbers |-> Absent]
  /\ engine = [r \in Requests |-> "none"]
  /\ paper = [r \in Requests |-> <<>>]
  /\ mailed = {}

HookMove(from, to) ==
  /\ alive
  /\ worker.pc = "hooks"
  /\ hook = from
  /\ hook' = to

\* AfterOrder returns nil, whatever went wrong inside it.
AfterOrderReturns(from) ==
  /\ HookMove(from, "idle")
  /\ RunHooks

\* invoice_<n>.pdf in the directory of the order's history copies.
InvoiceOf(r) == num[r]

-----------------------------------------------------------------------------
(* AfterOrder.                                                             *)

\* The hook is registered when an outlet is on and Chrome is found, and goes
\* ahead when the document type has a remote token.  pdfCfg.email stands for
\* EmailAfterOrder with an SMTP host, without which there is no sender.
Applies(r) ==
  /\ pdfCfg.hooked
  /\ pdfCfg.remote
  /\ r \in WithToken

HookSkipped ==
  /\ ~Applies(worker.job)
  /\ AfterOrderReturns("idle")
  /\ UNCHANGED <<pdfCfg, written, invoice, engine, paper, mailed>>

HookBegins ==
  /\ Applies(worker.job)
  /\ HookMove("idle", "fetch")
  /\ UNCHANGED <<vars, pdfCfg, written, invoice, engine, paper, mailed>>

Fetched ==
  /\ HookMove("fetch", "render")
  /\ ~cancelled
  /\ UNCHANGED <<vars, pdfCfg, written, invoice, engine, paper, mailed>>

\* The backend refuses, answers nothing, is cut off, or its time is up.
FetchFails ==
  /\ AfterOrderReturns("fetch")
  /\ UNCHANGED <<pdfCfg, written, invoice, engine, paper, mailed>>

Rendered ==
  /\ HookMove("render", "save")
  /\ ~cancelled
  /\ written' = FALSE
  /\ UNCHANGED <<vars, pdfCfg, invoice, engine, paper, mailed>>

\* The temporary file cannot be written, Chrome fails, or its minute is over.
RenderFails ==
  /\ AfterOrderReturns("render")
  /\ UNCHANGED <<pdfCfg, written, invoice, engine, paper, mailed>>

SaveOpens ==
  /\ HookMove("save", "fill")
  /\ invoice' = [invoice EXCEPT ![InvoiceOf(worker.job)] = Torn]
  /\ UNCHANGED <<vars, pdfCfg, written, engine, paper, mailed>>

\* Mutant: pdfWritten is set before WriteFile has returned.
SaveFailsUnnoticed ==
  /\ HookMove("fill", "print")
  /\ written' = TRUE
  /\ UNCHANGED <<vars, pdfCfg, invoice, engine, paper, mailed>>

\* MkdirAll or WriteFile fails: a warning, and the PDF is not printed.
SaveFails ==
  /\ \/ HookMove("save", "print")
     \/ HookMove("fill", "print")
  /\ UNCHANGED <<vars, pdfCfg, written, invoice, engine, paper, mailed>>

\* Mutant: the document's number is written in place of the document.
SaveFillsNumber ==
  /\ HookMove("fill", "print")
  /\ invoice' = [invoice EXCEPT ![InvoiceOf(worker.job)] = InvoiceOf(worker.job)]
  /\ written' = TRUE
  /\ UNCHANGED <<vars, pdfCfg, engine, paper, mailed>>

SaveFills ==
  /\ HookMove("fill", "print")
  /\ invoice' = [invoice EXCEPT ![InvoiceOf(worker.job)] = worker.job]
  /\ written' = TRUE
  /\ UNCHANGED <<vars, pdfCfg, engine, paper, mailed>>

\* PrintAfterOrder is off, or there is no file to print.
PrintSkipped ==
  /\ ~(pdfCfg.print /\ written)
  /\ HookMove("print", "mail")
  /\ UNCHANGED <<vars, pdfCfg, written, invoice, engine, paper, mailed>>

\* PrintPDF takes the best engine it finds.
Engine ==
  IF "PDFtoPrinter" \in Installed THEN "PDFtoPrinter"
  ELSE IF "Acrobat" \in Installed THEN "Acrobat"
  ELSE IF "SumatraPDF" \in Installed THEN "SumatraPDF"
  ELSE "none"

PrintStarts ==
  /\ pdfCfg.print /\ written
  /\ Engine # "none"
  /\ ~cancelled
  /\ HookMove("print", "printing")
  /\ engine' = [engine EXCEPT ![worker.job] = "running"]
  /\ UNCHANGED <<vars, pdfCfg, written, invoice, paper, mailed>>

\* No engine, no default printer, or a process that does not start.
PrintNotStarted ==
  /\ pdfCfg.print /\ written
  /\ HookMove("print", "mail")
  /\ UNCHANGED <<vars, pdfCfg, written, invoice, engine, paper, mailed>>

\* Mutant: when an engine fails the next one is tried.
PrintReturnsFallback ==
  /\ HookMove("printing", "printing") \/ HookMove("printing", "mail")
  /\ engine[worker.job] = "exited"
  /\ engine' = IF hook' = "printing" /\ Len(paper[worker.job]) < 2
               THEN [engine EXCEPT ![worker.job] = "running"] ELSE engine
  /\ UNCHANGED <<vars, pdfCfg, written, invoice, paper, mailed>>

\* Mutant: a failed print ends the hook.
PrintReturnsError ==
  /\ AfterOrderReturns("printing")
  /\ engine[worker.job] = "exited"
  /\ UNCHANGED <<pdfCfg, written, invoice, engine, paper, mailed>>

\* CombinedOutput returns.  An exit code is logged, and Acrobat's is not even
\* an error; nothing is printed a second time.
PrintReturns ==
  /\ HookMove("printing", "mail")
  /\ engine[worker.job] = "exited"
  /\ UNCHANGED <<vars, pdfCfg, written, invoice, engine, paper, mailed>>

\* EmailAfterOrder with a sender and an address: one attempt, of 30 seconds at
\* most, whose error is logged.
Mail ==
  /\ pdfCfg.email
  /\ worker.job \in WithEmail
  /\ AfterOrderReturns("mail")
  /\ mailed' = mailed \cup {worker.job}
  /\ UNCHANGED <<pdfCfg, written, invoice, engine, paper>>

MailSkipped ==
  /\ ~(pdfCfg.email /\ worker.job \in WithEmail)
  /\ AfterOrderReturns("mail")
  /\ UNCHANGED <<pdfCfg, written, invoice, engine, paper, mailed>>

-----------------------------------------------------------------------------
(* The print engine's process.                                             *)

\* It reads the file and hands it to the spooler.
EngineSubmits(r) ==
  /\ engine[r] = "running"
  /\ engine' = [engine EXCEPT ![r] = "submitted"]
  /\ paper' = [paper EXCEPT ![r] = Append(@, invoice[InvoiceOf(r)])]
  /\ UNCHANGED <<vars, pdfCfg, hook, written, invoice, mailed>>

EngineExits(r) ==
  /\ Printing(r)
  /\ engine' = [engine EXCEPT ![r] = "exited"]
  /\ UNCHANGED <<vars, pdfCfg, hook, written, invoice, paper, mailed>>

\* Mutant: the engine is killed when the queue is cancelled, and only then.
EngineKilledOnCancel ==
  /\ alive
  /\ cancelled
  /\ hook = "printing"
  /\ Printing(worker.job)
  /\ engine' = [engine EXCEPT ![worker.job] = "exited"]
  /\ UNCHANGED <<vars, pdfCfg, hook, written, invoice, paper, mailed>>

\* The time limit of 30 or 60 seconds, or the cancelled queue, kills it.
EngineKilled ==
  /\ alive
  /\ hook = "printing"
  /\ Printing(worker.job)
  /\ engine' = [engine EXCEPT ![worker.job] = "exited"]
  /\ UNCHANGED <<vars, pdfCfg, hook, written, invoice, paper, mailed>>

\* The daemon ends; a running engine dies with it or lives on.
HookExits ==
  /\ DaemonExits
  /\ hook' = "idle"
  /\ written' = FALSE
  /\ \E survivors \in SUBSET {r \in Requests : Printing(r)} :
       engine' = [r \in Requests |->
         IF Printing(r) /\ r \notin survivors THEN "exited" ELSE engine[r]]
  /\ UNCHANGED <<pdfCfg, invoice, paper, mailed>>

\* The next daemon reads the settings as they are then.
HookBoot ==
  /\ Boot
  /\ pdfCfg' \in PdfConfigs
  /\ UNCHANGED <<fileVars, hook, written, invoice, engine, paper, mailed>>

-----------------------------------------------------------------------------
AfterOrder ==
  \/ HookSkipped \/ HookBegins \/ Fetched \/ FetchFails
  \/ Rendered \/ RenderFails
  \/ SaveOpens \/ SaveFails \/ SaveFills
  \/ PrintSkipped \/ PrintStarts \/ PrintNotStarted \/ PrintReturns
  \/ Mail \/ MailSkipped

\* The steps of the pipeline that the hook takes no part in.
PipelineOnly ==
  /\ \/ QueueOnly \/ BeginProcessing \/ Pipeline
     \/ \E r \in Requests : ImporterReads(r) \/ ImporterExits(r)
     \/ KillImporter
  /\ UNCHANGED hookVars

HookNext ==
  \/ PipelineOnly
  \/ AfterOrder
  \/ \E r \in Requests : EngineSubmits(r) \/ EngineExits(r)
  \/ EngineKilled
  \/ HookExits
  \/ HookBoot

HookSpec == HookInit /\ [][HookNext]_allVars

WorkerGoesOn ==
  \/ /\ \/ (Take \/ WorkerExits \/ MarkDone \/ MarkFailed) /\ UNCHANGED fileVars
        \/ BeginProcessing \/ Pipeline
     /\ UNCHANGED hookVars
  \/ AfterOrder

\* The worker goes on whenever it can, and os/exec kills what it was told to.
\* Neither the importer nor a print engine ever has to exit by itself.
HookFairSpec ==
  /\ HookSpec
  /\ WF_allVars(WorkerGoesOn)
  /\ WF_allVars(KillImporter /\ UNCHANGED hookVars)
  /\ WF_allVars(EngineKilled)

-----------------------------------------------------------------------------
(* Properties.                                                             *)

\* What goes to the spooler for an order is its own complete invoice, at most
\* once, and only if the order was settled as done: an engine that is slow, is
\* killed or outlives the daemon, and a PDF that could not be saved, included.
PaperIsOwnInvoice ==
  \A r \in Requests : paper[r] # <<>> =>
    /\ Len(paper[r]) = 1
    /\ fate[r] = "done"
    /\ ~lost => paper[r][1] = r

\* A customer whose invoice was rendered is written to although the PDF could
\* not be saved or printed (pdf_hook.go:148-200): AfterOrder gives up before the
\* mail only while fetching and rendering.
MailNotHeldByPrinter ==
  [][\A r \in WithEmail :
       (/\ worker = [pc |-> "hooks", job |-> r]
        /\ hook \notin {"idle", "fetch", "render"}
        /\ pdfCfg.email
        /\ alive'
        /\ worker'.pc # "hooks") => r \in mailed']_allVars

\* No backend, no Chrome and no printer can keep the worker from its next
\* order: it always leaves the hooks.
HooksRelease == worker.pc = "hooks" ~> worker.pc # "hooks"
=============================================================================
