------------------------- MODULE ServiceControl_proof -------------------------
(***************************************************************************)
(* Proofs about ServiceControl, for any number of saves, clicks,           *)
(* interventions by hand, crashes and requests: type correctness with the  *)
(* single value in the error channel, that no request loses its database,  *)
(* and that the form is told the truth.                                    *)
(***************************************************************************)
EXTENDS ServiceControl, TLAPS

\* Places of the daemon before the goroutine of ListenAndServe is launched.
BeforeServer == {"none", "load", "open", "queue", "server"}

\* One value at most is ever in the error channel, because the goroutine of
\* ListenAndServe sends when it returns and is launched once in a life.
SentOnce ==
  /\ http # "closed" => errCh = <<>>
  /\ app \in BeforeServer => http = "none"

-----------------------------------------------------------------------------
(* Types.                                                                  *)

\* The daemon's variables and the error channel have their types.
DaemonTypes ==
  /\ app \in {"none", "ready", "run", "await", "over"} \cup Starting \cup Stopping
  /\ loaded \in 0..MaxSaves
  /\ http \in {"none", "starting", "serving", "closed"}
  /\ db \in {"none", "open", "closed"}
  /\ worker \in {"none", "running", "told"}
  /\ errCh \in Seq({"failed", "closed"}) /\ Len(errCh) <= 1
  /\ inflight \in 0..MaxRequests
  /\ overdue \in BOOLEAN

\* The bounds are natural numbers.
LEMMA BoundsAreNatural ==
  /\ MaxSaves \in Nat /\ MaxClicks \in Nat /\ MaxManual \in Nat
  /\ MaxCrashes \in Nat /\ MaxRequests \in Nat
BY ServiceAssumption, Zenon DEF ServiceAssumption

\* An empty error channel is one.
LEMMA NoValue == <<>> \in Seq({"failed", "closed"}) /\ Len(<<>>) <= 1
OBVIOUS

\* A value sent to an empty error channel is the only one there.
LEMMA FirstValue ==
  ASSUME NEW v \in {"failed", "closed"}
  PROVE  Append(<<>>, v) \in Seq({"failed", "closed"}) /\ Len(Append(<<>>, v)) <= 1
OBVIOUS

\* Receiving from the error channel leaves it empty.
LEMMA OnlyValue ==
  ASSUME NEW s \in Seq({"failed", "closed"}), Len(s) <= 1, s # <<>>
  PROVE  Tail(s) \in Seq({"failed", "closed"}) /\ Len(Tail(s)) <= 1
OBVIOUS

-----------------------------------------------------------------------------
\* What the service manager shows, what is on disk, and the history of both.
ManagerTypes ==
  /\ console \in BOOLEAN
  /\ file \in 0..MaxSaves
  /\ svc \in SvcStates
  /\ told \in BOOLEAN
  /\ seen \subseteq SvcStates
  /\ ran \in 0..MaxSaves

\* The goroutine of a click and what it told the form.
GuiTypes ==
  /\ gui \in [pc : {"idle", "persist", "ensure", "query stop", "control", "wait stop",
                    "query start", "start", "wait start"},
              op : {"start", "stop", "restart"}, stopOk : BOOLEAN, since : 0..MaxSaves]
  /\ report \in {<<>>} \cup {<<r>> : r \in Reports}

\* The three parts are the type invariant of the module.
LEMMA TypeParts == ServiceTypeOK <=> DaemonTypes /\ ManagerTypes /\ GuiTypes
BY DEF ServiceTypeOK, DaemonTypes, ManagerTypes, GuiTypes

\* The steps of the process outside Execute's reports to the service manager.
QuietDaemonStep ==
  \/ ProcessStarts \/ LoadConfig \/ StartFails \/ OpenDb \/ StartQueue \/ ServerRefused
  \/ LaunchServer \/ CancelQueue \/ CloseListener \/ ShutdownReturns
  \/ ShutdownGivesUp \/ CloseDb \/ ErrorAwaited
  \/ Listens \/ ListenFails \/ RequestArrives \/ RequestEnds

\* The steps that the service manager sees.
ShownDaemonStep ==
  ReportRunning \/ StopRequest \/ ServerError \/ ProcessExits \/ Crash

ClickStep == ClickStart \/ ClickStop \/ ClickRestart

\* Every step is one of the daemon, of an operator or of the form.
LEMMA StepKinds ==
  ASSUME [Next]_vars
  PROVE  \/ QuietDaemonStep \/ ShownDaemonStep
         \/ ManualStart \/ ManualStop
         \/ ClickStep \/ GuiStep
         \/ UNCHANGED vars
BY DEF Next, DaemonStep, QuietDaemonStep, ShownDaemonStep, ClickStep

\* What the form's steps leave alone.
LEMMA FormLeavesDaemon ==
  ASSUME ClickStep \/ GuiStep
  PROVE  UNCHANGED <<console, daemonVars, ran>>
<1>1. CASE ClickStep
  BY <1>1 DEF ClickStep, ClickStart, ClickStop, ClickRestart, Click
<1>2. CASE GuiStep
  BY <1>2 DEF GuiStep, Persist, PersistFails, Ensure, QueryStop, Control, StopWaited,
     StopGivesUp, QueryStart, Start, StartWaited, StartGivesUp, GuiOnly
<1> QED
  BY <1>1, <1>2

\* What the daemon's quiet steps leave alone.
LEMMA QuietLeavesRest ==
  ASSUME QuietDaemonStep
  PROVE  UNCHANGED <<console, file, svc, told, guiVars, seen, ran>>
BY DEF QuietDaemonStep, ProcessStarts, LoadConfig, StartFails, OpenDb, StartQueue,
   ServerRefused, LaunchServer, CancelQueue, CloseListener, ShutdownReturns,
   ShutdownGivesUp, CloseDb, ErrorAwaited, Listens, ListenFails, RequestArrives, RequestEnds

\* What the steps that the service manager sees leave alone.
LEMMA ShownLeavesRest ==
  ASSUME ShownDaemonStep
  PROVE  UNCHANGED <<console, file, guiVars>>
BY DEF ShownDaemonStep, ReportRunning, StopRequest, ServerError, ProcessExits, Crash,
   ProcessGone

-----------------------------------------------------------------------------
\* The daemon's variables keep their types, and one value at most is sent.
LEMMA DaemonTypesStep ==
  ASSUME DaemonTypes, ManagerTypes, SentOnce, [Next]_vars
  PROVE  DaemonTypes' /\ SentOnce'
<1> USE BoundsAreNatural DEF DaemonTypes, ManagerTypes, SentOnce, Starting,
        Stopping, BeforeServer, App
<1>1. ASSUME \/ ProcessStarts \/ LoadConfig \/ StartFails \/ OpenDb \/ StartQueue
             \/ ServerRefused \/ LaunchServer \/ CancelQueue \/ ShutdownReturns
             \/ ShutdownGivesUp \/ CloseDb
      PROVE  DaemonTypes' /\ SentOnce'
  <2>1. UNCHANGED <<errCh, inflight>>
    BY <1>1 DEF ProcessStarts, LoadConfig, StartFails, OpenDb, StartQueue, ServerRefused,
       LaunchServer, CancelQueue, ShutdownReturns, ShutdownGivesUp, CloseDb
  <2>2. /\ app' \in {"none", "ready", "run", "await", "over"} \cup Starting \cup Stopping
        /\ loaded' \in 0..MaxSaves
        /\ http' \in {"none", "starting", "serving", "closed"}
        /\ db' \in {"none", "open", "closed"}
        /\ worker' \in {"none", "running", "told"}
        /\ overdue' \in BOOLEAN
        /\ app' \in BeforeServer => http' = "none"
        /\ http' # "closed" => http # "closed"
    BY <1>1, ZenonT(60) DEF ProcessStarts, LoadConfig, StartFails, OpenDb, StartQueue, ServerRefused,
       LaunchServer, CancelQueue, ShutdownReturns, ShutdownGivesUp, CloseDb
  <2> QED
    BY <2>1, <2>2
<1>2. ASSUME Listens \/ RequestArrives \/ RequestEnds
      PROVE  DaemonTypes' /\ SentOnce'
  BY <1>2 DEF Listens, RequestArrives, RequestEnds
<1>3. ASSUME ListenFails \/ CloseListener
      PROVE  DaemonTypes' /\ SentOnce'
  <2>1. errCh = <<>>
    BY <1>3 DEF ListenFails, CloseListener
  <2>2. errCh' \in Seq({"failed", "closed"}) /\ Len(errCh') <= 1
    BY <1>3, <2>1, FirstValue DEF ListenFails, CloseListener
  <2>3. http' = "closed" /\ app' = app /\ app \notin BeforeServer
    BY <1>3 DEF ListenFails, CloseListener
  <2>4. UNCHANGED <<loaded, db, worker, inflight, overdue>>
    BY <1>3 DEF ListenFails, CloseListener
  <2> QED
    BY <2>2, <2>3, <2>4
<1>4. ASSUME ServerError \/ ErrorAwaited
      PROVE  DaemonTypes' /\ SentOnce'
  <2>1. errCh # <<>> /\ errCh' = Tail(errCh)
    BY <1>4 DEF ServerError, ErrorAwaited
  <2>2. errCh' \in Seq({"failed", "closed"}) /\ Len(errCh') <= 1
    BY <2>1, OnlyValue
  <2>3. http = "closed" /\ http' = "closed" /\ app' \in {"over", "cancel"}
    BY <1>4, <2>1 DEF ServerError, ErrorAwaited
  <2>4. UNCHANGED <<loaded, db, worker, inflight, overdue>>
    BY <1>4 DEF ServerError, ErrorAwaited
  <2> QED
    BY <2>2, <2>3, <2>4
<1>5. ASSUME ReportRunning \/ StopRequest
      PROVE  DaemonTypes' /\ SentOnce'
  BY <1>5 DEF ReportRunning, StopRequest
<1>6. ASSUME ProcessExits \/ Crash
      PROVE  DaemonTypes' /\ SentOnce'
  <2>1. /\ app' = "none" /\ http' = "none" /\ db' = "none" /\ worker' = "none"
        /\ errCh' = <<>> /\ inflight' = 0 /\ overdue' = FALSE /\ loaded' = loaded
    BY <1>6 DEF ProcessExits, Crash, ProcessGone
  <2>2. errCh' \in Seq({"failed", "closed"}) /\ Len(errCh') <= 1
    BY <2>1, NoValue
  <2>3. inflight' \in 0..MaxRequests
    BY <2>1
  <2> QED
    BY <2>1, <2>2, <2>3
<1>7. ASSUME UNCHANGED daemonVars
      PROVE  DaemonTypes' /\ SentOnce'
  BY <1>7 DEF daemonVars
<1>8. ASSUME ManualStart \/ ManualStop \/ ClickStep \/ GuiStep \/ UNCHANGED vars
      PROVE  UNCHANGED daemonVars
  <2>1. CASE ClickStep \/ GuiStep
    BY <2>1, FormLeavesDaemon
  <2>2. CASE ManualStart \/ ManualStop \/ UNCHANGED vars
    BY <2>2 DEF ManualStart, ManualStop, vars
  <2> QED
    BY <1>8, <2>1, <2>2
<1> QED
  BY <1>1, <1>2, <1>3, <1>4, <1>5, <1>6, <1>7, <1>8, StepKinds
     DEF QuietDaemonStep, ShownDaemonStep

\* What the service manager shows keeps its type.
LEMMA ManagerTypesStep ==
  ASSUME DaemonTypes, ManagerTypes, [Next]_vars
  PROVE  ManagerTypes'
<1> USE BoundsAreNatural DEF ManagerTypes, SvcStates, SetSvc
<1>1. CASE QuietDaemonStep
  BY <1>1, QuietLeavesRest
<1>2. CASE ShownDaemonStep
  <2>1. told' \in BOOLEAN /\ ran' \in 0..MaxSaves
    BY <1>2 DEF ShownDaemonStep, ReportRunning, StopRequest, ServerError, ProcessExits, Crash,
       ProcessGone, DaemonTypes
  <2>2. svc' \in SvcStates /\ seen' \subseteq SvcStates
    BY <1>2 DEF ShownDaemonStep, ReportRunning, StopRequest, ServerError, ProcessExits, Crash,
       ProcessGone, Status
  <2> QED
    BY <1>2, <2>1, <2>2, ShownLeavesRest
<1>3. CASE ManualStart \/ ManualStop
  BY <1>3 DEF ManualStart, ManualStop, ManagerStarts
<1>4. CASE ClickStep
  BY <1>4 DEF ClickStep, ClickStart, ClickStop, ClickRestart, Click
<1>5. CASE GuiStep
  <2>1. UNCHANGED <<console, ran>>
    BY <1>5, FormLeavesDaemon
  <2>2. told' \in BOOLEAN
    BY <1>5 DEF GuiStep, Persist, PersistFails, Ensure, QueryStop, Control, StopWaited,
       StopGivesUp, QueryStart, Start, StartWaited, StartGivesUp, GuiOnly
  <2>3. file' \in 0..MaxSaves
    <3>1. CASE Persist
      BY <3>1 DEF Persist
    <3>2. CASE UNCHANGED file
      BY <3>2
    <3> QED
      BY <1>5, <3>1, <3>2 DEF GuiStep, PersistFails, Ensure, QueryStop, Control, StopWaited,
         StopGivesUp, QueryStart, Start, StartWaited, StartGivesUp, GuiOnly
  <2>4. svc' \in SvcStates /\ seen' \subseteq SvcStates
    BY <1>5 DEF GuiStep, Persist, PersistFails, Ensure, QueryStop, Control, StopWaited,
       StopGivesUp, QueryStart, Start, StartWaited, StartGivesUp, GuiOnly, ManagerStarts
  <2> QED
    BY <2>1, <2>2, <2>3, <2>4
<1>6. CASE UNCHANGED vars
  BY <1>6 DEF vars
<1> QED
  BY <1>1, <1>2, <1>3, <1>4, <1>5, <1>6, StepKinds

\* So do the goroutine of a click and what it reports.
LEMMA GuiTypesStep ==
  ASSUME ManagerTypes, GuiTypes, [Next]_vars
  PROVE  GuiTypes'
<1> USE DEF GuiTypes
<1>1. CASE UNCHANGED guiVars
  BY <1>1 DEF guiVars
<1>2. CASE QuietDaemonStep \/ ShownDaemonStep
  BY <1>1, <1>2, QuietLeavesRest, ShownLeavesRest
<1>3. CASE ManualStart \/ ManualStop \/ UNCHANGED vars
  BY <1>1, <1>3 DEF ManualStart, ManualStop, vars
<1>4. CASE ClickStep
  <2>1. ASSUME NEW op \in {"start", "stop", "restart"}, NEW first \in {"persist", "query stop"},
               Click(op, first)
        PROVE  GuiTypes'
    <3>1. gui' = [pc |-> first, op |-> op, stopOk |-> TRUE, since |-> file] /\ report' = <<>>
      BY <2>1 DEF Click
    <3>2. file \in 0..MaxSaves
      BY DEF ManagerTypes
    <3> QED
      BY <3>1, <3>2
  <2> QED
    BY <1>4, <2>1 DEF ClickStep, ClickStart, ClickStop, ClickRestart
<1>5. ASSUME NEW ok \in BOOLEAN, Finish(ok)
      PROVE  GuiTypes'
  <2>1. [op |-> gui.op, ok |-> ok, stopOk |-> gui.stopOk,
         since |-> gui.since, seen |-> seen, ran |-> ran] \in Reports
    BY <1>5 DEF Reports, ManagerTypes
  <2>2. report' \in {<<r>> : r \in Reports}
    BY <1>5, <2>1 DEF Finish
  <2>3. gui' = [gui EXCEPT !.pc = "idle"]
    BY <1>5 DEF Finish
  <2> QED
    BY <2>2, <2>3
<1>6. ASSUME UNCHANGED report,
             \/ \E from \in {gui.pc} : \E to \in {"ensure", "control", "wait stop", "query start",
                                               "start", "wait start"} : Gui(from, to)
             \/ \E ok \in BOOLEAN : gui' = [gui EXCEPT !.pc = "query start", !.stopOk = ok]
      PROVE  GuiTypes'
  BY <1>6 DEF Gui
<1>7. ASSUME NEW ok \in BOOLEAN, StopReturns(ok)
      PROVE  GuiTypes'
  <2>1. CASE gui.op = "stop"
    BY <1>5, <1>7, <2>1 DEF StopReturns
  <2>2. CASE gui.op # "stop"
    BY <1>6, <1>7, <2>2 DEF StopReturns
  <2> QED
    BY <2>1, <2>2
<1>8. CASE GuiStep
  <2>1. CASE Persist \/ Ensure \/ Start
    BY <1>6, <2>1 DEF Persist, Ensure, Start, Gui
  <2>2. CASE PersistFails \/ StartWaited \/ StartGivesUp
    BY <1>5, <2>2 DEF PersistFails, StartWaited, StartGivesUp
  <2>3. CASE StopWaited \/ StopGivesUp
    BY <1>7, <2>3 DEF StopWaited, StopGivesUp
  <2>4. CASE QueryStop
    BY <1>6, <1>7, <2>4 DEF QueryStop, Gui
  <2>5. CASE Control
    BY <1>6, <1>7, <2>5 DEF Control, Gui
  <2>6. CASE QueryStart
    BY <1>5, <1>6, <2>6 DEF QueryStart, Gui
  <2> QED
    BY <1>8, <2>1, <2>2, <2>3, <2>4, <2>5, <2>6 DEF GuiStep
<1> QED
  BY <1>2, <1>3, <1>4, <1>8, StepKinds

\* The variables have their types in every reachable state; among them the
\* error channel, into which no send ever blocks (app.go:156-159).
THEOREM ServiceTypeCorrect == Spec => [](ServiceTypeOK /\ SentOnce)
<1>1. Init => ServiceTypeOK /\ SentOnce
  <2> SUFFICES ASSUME Init PROVE ServiceTypeOK /\ SentOnce
    OBVIOUS
  <2> USE BoundsAreNatural DEF Init
  <2>1. DaemonTypes /\ SentOnce
    <3>1. errCh \in Seq({"failed", "closed"}) /\ Len(errCh) <= 1
      BY NoValue
    <3>2. loaded \in 0..MaxSaves /\ inflight \in 0..MaxRequests
      OBVIOUS
    <3>3. app = "none" /\ http = "none" /\ db = "none" /\ worker = "none" /\ overdue = FALSE
      OBVIOUS
    <3>4. errCh = <<>>
      OBVIOUS
    <3> QED
      BY <3>1, <3>2, <3>3, <3>4 DEF DaemonTypes, SentOnce
  <2>2. ManagerTypes
    <3>1. file \in 0..MaxSaves /\ ran \in 0..MaxSaves
      OBVIOUS
    <3>2. console \in BOOLEAN /\ told \in BOOLEAN
      OBVIOUS
    <3>3. svc \in SvcStates /\ seen \subseteq SvcStates
      BY DEF SvcStates
    <3> QED
      BY <3>1, <3>2, <3>3 DEF ManagerTypes
  <2>3. GuiTypes
    BY DEF GuiTypes
  <2> QED
    BY <2>1, <2>2, <2>3, TypeParts
<1>2. ServiceTypeOK /\ SentOnce /\ [Next]_vars => (ServiceTypeOK /\ SentOnce)'
  <2> SUFFICES ASSUME ServiceTypeOK, SentOnce, [Next]_vars
               PROVE  ServiceTypeOK' /\ SentOnce'
    OBVIOUS
  <2>1. DaemonTypes /\ ManagerTypes /\ GuiTypes
    BY TypeParts
  <2>2. DaemonTypes' /\ SentOnce' /\ ManagerTypes' /\ GuiTypes'
    BY <2>1, DaemonTypesStep, ManagerTypesStep, GuiTypesStep
  <2> QED
    BY <2>2 DEF ServiceTypeOK, DaemonTypes, ManagerTypes, GuiTypes
<1> QED
  BY <1>1, <1>2, PTL DEF Spec

-----------------------------------------------------------------------------
(* The database outlives the requests.                                     *)

\* Where the daemon may be while it listens.
Listening == {"ready", "run", "cancel", "shutdown"}

\* The handle is open from before the listener until Shutdown is over; while
\* the server listens the daemon is not past Shutdown; without a server there
\* are no requests; and past Shutdown there are none unless its time was over.
HandleOpen ==
  /\ app \in {"queue", "server"} \cup Listening => db = "open"
  /\ http \in {"starting", "serving"} => app \in Listening
  /\ http = "none" => inflight = 0
  /\ app \in {"close", "await"} => inflight = 0 \/ overdue

\* HandleOpen and RequestsHaveDatabase together are inductive: the second says
\* what is left when the process is over and not gone yet.
DatabaseInv == HandleOpen /\ RequestsHaveDatabase

\* A request never finds the database handle missing or closed under it, unless
\* Shutdown's time was over (app.go:166-178).
THEOREM RequestsKeepDatabase == Spec => []RequestsHaveDatabase
<1>1. Init => DatabaseInv
  BY DEF Init, DatabaseInv, HandleOpen, RequestsHaveDatabase, Listening
<1>2. ServiceTypeOK /\ SentOnce /\ DatabaseInv /\ [Next]_vars => DatabaseInv'
  <2> SUFFICES ASSUME ServiceTypeOK, SentOnce, DatabaseInv, [Next]_vars PROVE DatabaseInv'
    OBVIOUS
  <2>0. inflight \in Nat /\ overdue \in BOOLEAN
    <3>1. DaemonTypes
      BY TypeParts
    <3> QED
      BY <3>1, BoundsAreNatural DEF DaemonTypes
  <2> USE DEF DatabaseInv, HandleOpen, RequestsHaveDatabase, Listening, App
  <2>1. CASE ProcessStarts \/ LoadConfig \/ StartFails \/ OpenDb \/ StartQueue \/ ServerRefused
    BY <2>0, <2>1 DEF SentOnce, BeforeServer, ProcessStarts, LoadConfig, StartFails, OpenDb,
       StartQueue, ServerRefused
  <2>2. CASE LaunchServer \/ ReportRunning \/ StopRequest \/ CancelQueue
    BY <2>0, <2>2 DEF LaunchServer, ReportRunning, StopRequest, CancelQueue
  <2>3. CASE Listens \/ ListenFails \/ CloseListener
    BY <2>0, <2>3 DEF Listens, ListenFails, CloseListener
  <2>4. CASE RequestArrives \/ RequestEnds
    BY <2>0, <2>4 DEF RequestArrives, RequestEnds
  <2>5. CASE ServerError \/ ErrorAwaited
    BY <2>0, <2>5 DEF SentOnce, ServerError, ErrorAwaited
  <2>6. CASE ShutdownReturns \/ ShutdownGivesUp \/ CloseDb
    BY <2>0, <2>6 DEF ShutdownReturns, ShutdownGivesUp, CloseDb
  <2>7. CASE ProcessExits \/ Crash
    BY <2>7 DEF ProcessExits, Crash, ProcessGone
  <2>8. CASE ManualStart \/ ManualStop \/ ClickStep \/ GuiStep \/ UNCHANGED vars
    <3>1. UNCHANGED daemonVars
      BY <2>8, FormLeavesDaemon DEF ManualStart, ManualStop, vars
    <3> QED
      BY <3>1 DEF daemonVars
  <2> QED
    BY <2>1, <2>2, <2>3, <2>4, <2>5, <2>6, <2>7, <2>8, StepKinds
       DEF QuietDaemonStep, ShownDaemonStep
<1>3. DatabaseInv => RequestsHaveDatabase
  BY DEF DatabaseInv
<1> QED
  BY <1>1, <1>2, <1>3, ServiceTypeCorrect, PTL DEF Spec

-----------------------------------------------------------------------------
(* The form is told the truth.                                             *)

\* A click is made where there is a service, whose present state it has seen;
\* the settings it started from are on disk; only a start saves them, and a stop
\* never starts anything; and a service that does not exist or is stopped has no
\* process.
ClickSeesService ==
  /\ gui.pc \in {"persist", "ensure"} => gui.op = "start"
  /\ gui.pc \in {"query start", "start", "wait start"} => gui.op # "stop"
  /\ gui.pc # "idle" => console = FALSE /\ svc \in seen
  /\ gui.since <= file
  /\ console = FALSE /\ svc \in {"absent", "Stopped"} => app = "none"

\* After a restart has seen the service stopped, every daemon that is started,
\* or has been, reads settings no older than those at the click.
RestartedIsFresh ==
  (gui.op = "restart" /\ gui.stopOk /\ gui.pc \in {"query start", "start", "wait start"}) =>
    /\ svc = "Running" => ran >= gui.since
    /\ app \in {"open", "queue", "server", "ready"} => loaded >= gui.since

\* What one report says is true.
Truthful(r) ==
  r.ok =>
    /\ r.op = "stop" => "Stopped" \in r.seen
    /\ r.op \in {"start", "restart"} => "Running" \in r.seen
    /\ (r.op = "restart" /\ r.stopOk) => r.ran >= r.since

\* What the next report must be for ReportsAreTrue.
LEMMA OneReport ==
  ASSUME NEW r, Truthful(r), report' = <<r>>
  PROVE  ReportsAreTrue'
<1>1. {report'[i] : i \in 1..Len(report')} = {r}
  OBVIOUS
<1>2. (\A q \in {report'[i] : i \in 1..Len(report')} : Truthful(q)) => ReportsAreTrue'
  BY Zenon DEF ReportsAreTrue, Truthful
<1> QED
  BY <1>1, <1>2, Zenon

\* No report is a true one.
LEMMA EmptyReport == report' = <<>> => ReportsAreTrue'
BY DEF ReportsAreTrue

\* A report stays true.
LEMMA SameReport == ReportsAreTrue /\ report' = report => ReportsAreTrue'
BY DEF ReportsAreTrue

\* A click that ends tells the truth if what it says is true of the present
\* state; a failure says nothing.
LEMMA FinishIsTrue ==
  ASSUME NEW ok \in BOOLEAN, Finish(ok),
         ok => /\ gui.op = "stop" => "Stopped" \in seen
               /\ gui.op \in {"start", "restart"} => "Running" \in seen
               /\ (gui.op = "restart" /\ gui.stopOk) => ran >= gui.since
  PROVE  ReportsAreTrue'
<1> DEFINE r == [op |-> gui.op, ok |-> ok, stopOk |-> gui.stopOk,
                 since |-> gui.since, seen |-> seen, ran |-> ran]
<1>1. report' = <<r>>
  BY DEF Finish
<1>2. Truthful(r)
  BY DEF Truthful
<1> QED
  BY <1>1, <1>2, OneReport

\* What is inductive.
ReportInv == ClickSeesService /\ RestartedIsFresh /\ ReportsAreTrue

\* The order of numbers is transitive.
LEMMA LeqTransitive == \A a, b, c \in Nat : a <= b /\ c >= b => a <= c
OBVIOUS

\* Settings only grow.
LEMMA FileGrows ==
  ASSUME ServiceTypeOK, [Next]_vars
  PROVE  file \in Nat /\ file' \in Nat /\ loaded \in Nat /\ ran \in Nat /\ gui.since \in Nat
         /\ file' >= file
<1>1. file \in Nat /\ loaded \in Nat /\ ran \in Nat
  <2>1. DaemonTypes /\ ManagerTypes
    BY TypeParts
  <2> QED
    BY <2>1, BoundsAreNatural DEF DaemonTypes, ManagerTypes
<1>2. gui.since \in Nat
  <2>1. GuiTypes
    BY TypeParts
  <2>2. gui.since \in 0..MaxSaves
    BY <2>1 DEF GuiTypes
  <2> QED
    BY <2>2, BoundsAreNatural
<1>3. file' = file \/ file' = file + 1
  <2>1. CASE GuiStep
    BY <2>1 DEF GuiStep, Persist, PersistFails, Ensure, QueryStop, Control, StopWaited,
       StopGivesUp, QueryStart, Start, StartWaited, StartGivesUp, GuiOnly
  <2>2. CASE ClickStep \/ ManualStart \/ ManualStop \/ UNCHANGED vars
    BY <2>2 DEF ClickStep, ClickStart, ClickStop, ClickRestart, Click, ManualStart, ManualStop,
       vars
  <2> QED
    BY <2>1, <2>2, StepKinds, QuietLeavesRest, ShownLeavesRest
<1> QED
  BY <1>1, <1>2, <1>3

\* What a click was told is true: stopped and started services were seen to be
\* so, and a restart whose stop succeeded left a daemon with the settings of the
\* click (service_manage_windows.go:113-175, main.go:519-542).
THEOREM ReportsTrue == Spec => []ReportsAreTrue
<1>1. Init => ReportInv
  BY DEF Init, ReportInv, ClickSeesService, RestartedIsFresh, ReportsAreTrue
<1>2. ServiceTypeOK /\ SentOnce /\ ReportInv /\ [Next]_vars => ReportInv'
  <2> SUFFICES ASSUME ServiceTypeOK, SentOnce, ReportInv, [Next]_vars PROVE ReportInv'
    OBVIOUS
  <2>0. file \in Nat /\ file' \in Nat /\ loaded \in Nat /\ ran \in Nat /\ gui.since \in Nat
        /\ file' >= file
    BY FileGrows
  <2>g. GuiTypes /\ console \in BOOLEAN
    BY TypeParts DEF ManagerTypes
  <2> USE DEF ReportInv, ClickSeesService, RestartedIsFresh
  <2>d. gui.since <= file'
    <3>1. gui.since <= file
      OBVIOUS
    <3> QED
      BY <2>0, <3>1, LeqTransitive, Zenon
  <2>1. CASE QuietDaemonStep
    <3>1. UNCHANGED <<console, file, svc, told, gui, report, seen, ran>>
      BY <2>1, QuietLeavesRest DEF guiVars
    <3>2. console = FALSE /\ svc \in {"absent", "Stopped"} => app' = "none"
      BY <2>1 DEF QuietDaemonStep, ProcessStarts, LoadConfig, StartFails, OpenDb, StartQueue,
         ServerRefused, LaunchServer, CancelQueue, CloseListener, ShutdownReturns,
         ShutdownGivesUp, CloseDb, ErrorAwaited, Listens, ListenFails, RequestArrives,
         RequestEnds, App
    <3>3. app' \in {"open", "queue", "server", "ready"} =>
            \/ app \in {"open", "queue", "server", "ready"} /\ loaded' = loaded
            \/ loaded' = file
      BY <2>1 DEF QuietDaemonStep, ProcessStarts, LoadConfig, StartFails, OpenDb, StartQueue,
         ServerRefused, LaunchServer, CancelQueue, CloseListener, ShutdownReturns,
         ShutdownGivesUp, CloseDb, ErrorAwaited, Listens, ListenFails, RequestArrives,
         RequestEnds, App
    <3> QED
      BY <2>0, <3>1, <3>2, <3>3, SameReport
  <2>2. CASE ShownDaemonStep
    <3>1. UNCHANGED <<console, file, gui, report>>
      BY <2>2, ShownLeavesRest DEF guiVars
    <3>2. console = FALSE => svc' \in seen' /\ (svc' \in {"absent", "Stopped"} => app' = "none")
      BY <2>2 DEF ShownDaemonStep, ReportRunning, StopRequest, ServerError, ProcessExits, Crash,
         ProcessGone, Status, SetSvc, App
    <3>3. gui.pc # "idle" => (svc' = "Running" => ran' = loaded /\ app = "ready")
      BY <2>2 DEF ShownDaemonStep, ReportRunning, StopRequest, ServerError, ProcessExits, Crash,
         ProcessGone, Status, SetSvc, App
    <3>4. app' \notin {"open", "queue", "server", "ready"}
      BY <2>2 DEF ShownDaemonStep, ReportRunning, StopRequest, ServerError, ProcessExits, Crash,
         ProcessGone, App
    <3> QED
      BY <2>0, <3>1, <3>2, <3>3, <3>4, SameReport
  <2>3. CASE ManualStart \/ ManualStop
    <3>1. UNCHANGED <<console, file, gui, report, app, loaded, ran>>
      BY <2>3 DEF ManualStart, ManualStop, guiVars, daemonVars
    <3>2. UNCHANGED <<svc, seen>> \/ (svc' = "StartPending" /\ seen' = seen \cup {svc'})
      BY <2>3 DEF ManualStart, ManualStop, ManagerStarts, SetSvc
    <3> QED
      BY <3>1, <3>2, SameReport
  <2>4. CASE ClickStep
    <3>1. ASSUME NEW op \in {"start", "stop", "restart"}, NEW first \in {"persist", "query stop"},
                 Click(op, first), first = "persist" => op = "start"
          PROVE  ReportInv'
      <4>1. /\ gui' = [pc |-> first, op |-> op, stopOk |-> TRUE, since |-> file]
            /\ report' = <<>> /\ seen' = {svc} /\ console = FALSE
            /\ UNCHANGED <<console, file, svc, app>>
        BY <2>g, <3>1 DEF Click, daemonVars
      <4>2. gui'.since = file /\ gui'.pc = first /\ gui'.op = op
        BY <4>1
      <4> QED
        BY <2>0, <3>1, <4>1, <4>2, EmptyReport
    <3> QED
      BY <2>4, <3>1 DEF ClickStep, ClickStart, ClickStop, ClickRestart
  <2>5. CASE GuiStep
    <3>1. UNCHANGED <<console, app, loaded, ran>>
      BY <2>5, FormLeavesDaemon DEF daemonVars
    <3>2. ASSUME NEW ok \in BOOLEAN, Finish(ok), UNCHANGED <<svc, seen>>,
                 ok => /\ gui.op = "stop" => "Stopped" \in seen
                       /\ gui.op \in {"start", "restart"} => "Running" \in seen
                       /\ (gui.op = "restart" /\ gui.stopOk) => ran >= gui.since
          PROVE  ReportInv'
      <4>1. gui'.pc = "idle" /\ gui'.since = gui.since
        BY <2>g, <3>2 DEF Finish, GuiTypes
      <4>2. ReportsAreTrue'
        BY <3>2, FinishIsTrue
      <4>3. ClickSeesService' /\ RestartedIsFresh'
        BY <2>d, <3>1, <3>2, <4>1
      <4> QED
        BY <4>2, <4>3
    <3>3. ASSUME NEW to \in {"ensure", "control", "wait stop", "query start", "start",
                         "wait start"},
                 gui.pc # "idle",
                 gui' = [gui EXCEPT !.pc = to],
                 to = "ensure" => gui.pc = "persist",
                 to \in {"query start", "start", "wait start"} =>
                   gui.pc \in {"ensure", "query start", "start"},
                 UNCHANGED report,
                 UNCHANGED <<svc, seen>> \/ (svc' # "Running" /\ svc' \in seen'),
                 svc' \in {"absent", "Stopped"} => svc \in {"absent", "Stopped"}
          PROVE  ReportInv'
      <4>1. /\ gui'.pc = to /\ gui'.since = gui.since
            /\ gui'.op = gui.op /\ gui'.stopOk = gui.stopOk
        BY <2>g, <3>3 DEF GuiTypes
      <4>2. ReportsAreTrue'
        BY <3>3, SameReport
      <4>3. ClickSeesService'
        BY <2>d, <3>1, <3>3, <4>1
      <4>4. RestartedIsFresh'
        BY <2>0, <3>1, <3>3, <4>1
      <4> QED
        BY <4>2, <4>3, <4>4
    <3>4. ASSUME NEW ok \in BOOLEAN, StopReturns(ok), UNCHANGED <<svc, seen>>,
                 gui.pc \in {"query stop", "control", "wait stop"},
                 ok => svc = "Stopped"
          PROVE  ReportInv'
      <4>1. CASE gui.op = "stop"
        <5>1. Finish(ok)
          BY <3>4, <4>1 DEF StopReturns
        <5>2. ok => "Stopped" \in seen
          BY <3>4
        <5> QED
          BY <3>2, <3>4, <4>1, <5>1, <5>2
      <4>2. CASE gui.op # "stop"
        <5>1. /\ gui'.pc = "query start" /\ gui'.since = gui.since
              /\ gui'.op = gui.op /\ gui'.stopOk = ok /\ report' = report
          BY <2>g, <3>4, <4>2 DEF StopReturns, GuiTypes
        <5>2. ok => app = "none" /\ svc # "Running"
          BY <3>4
        <5>3. ReportsAreTrue'
          BY <5>1, SameReport
        <5>4. /\ gui'.pc \in {"query start", "start", "wait start"} => gui'.op # "stop"
              /\ gui'.pc \notin {"persist", "ensure"}
          BY <4>2, <5>1
        <5>6. ClickSeesService'
          BY <2>d, <3>1, <3>4, <5>1, <5>4
        <5>5. RestartedIsFresh'
          BY <2>0, <3>1, <3>4, <5>1, <5>2
        <5> QED
          BY <5>3, <5>5, <5>6
      <4> QED
        BY <4>1, <4>2
    <3>5. CASE Persist
      BY <3>3, <3>5 DEF Persist, Gui
    <3>6. CASE PersistFails
      BY <3>2, <3>6 DEF PersistFails, GuiOnly
    <3>7. CASE Ensure
      BY <3>3, <3>7 DEF Ensure, Gui, SetSvc
    <3>8. CASE QueryStop
      <4>1. UNCHANGED <<svc, seen>> /\ gui.pc = "query stop"
        BY <3>8 DEF QueryStop, GuiOnly
      <4>2. \/ StopReturns(FALSE)
            \/ svc = "Stopped" /\ StopReturns(TRUE)
            \/ \E to \in {"control", "wait stop"} : gui' = [gui EXCEPT !.pc = to] /\ UNCHANGED report
        BY <3>8 DEF QueryStop, Gui
      <4> QED
        BY <3>3, <3>4, <4>1, <4>2
    <3>9. CASE Control
      <4>1. UNCHANGED <<svc, seen>> /\ gui.pc = "control"
        BY <3>9 DEF Control
      <4>2. \/ StopReturns(FALSE)
            \/ gui' = [gui EXCEPT !.pc = "wait stop"] /\ UNCHANGED report
        BY <3>9 DEF Control, Gui
      <4> QED
        BY <3>3, <3>4, <4>1, <4>2
    <3>10. CASE StopWaited \/ StopGivesUp
      BY <3>4, <3>10 DEF StopWaited, StopGivesUp, GuiOnly
    <3>11. CASE QueryStart
      <4>1. UNCHANGED <<svc, seen>> /\ gui.pc = "query start"
        BY <3>11 DEF QueryStart, GuiOnly
      <4>2. \/ Finish(FALSE)
            \/ svc = "Running" /\ Finish(TRUE)
            \/ \E to \in {"start", "wait start"} : gui' = [gui EXCEPT !.pc = to] /\ UNCHANGED report
        BY <3>11 DEF QueryStart, Gui
      <4>3. CASE svc = "Running" /\ Finish(TRUE)
        BY <3>2, <4>1, <4>3
      <4> QED
        BY <3>2, <3>3, <4>1, <4>2, <4>3
    <3>12. CASE Start
      BY <3>3, <3>12 DEF Start, Gui, ManagerStarts, SetSvc
    <3>13. CASE StartWaited
      <4>1. Finish(TRUE) /\ svc = "Running" /\ gui.pc = "wait start" /\ UNCHANGED <<svc, seen>>
        BY <3>13 DEF StartWaited, GuiOnly
      <4> QED
        BY <3>2, <4>1
    <3>14. CASE StartGivesUp
      BY <3>2, <3>14 DEF StartGivesUp, GuiOnly
    <3> QED
      BY <2>5, <3>5, <3>6, <3>7, <3>8, <3>9, <3>10, <3>11, <3>12, <3>13, <3>14 DEF GuiStep
  <2>6. CASE UNCHANGED vars
    BY <2>6, SameReport DEF vars, guiVars, daemonVars
  <2> QED
    BY <2>1, <2>2, <2>3, <2>4, <2>5, <2>6, StepKinds
<1>3. ReportInv => ReportsAreTrue
  BY DEF ReportInv
<1> QED
  BY <1>1, <1>2, <1>3, ServiceTypeCorrect, PTL DEF Spec
=============================================================================
