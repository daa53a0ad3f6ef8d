---------------------------- MODULE ServiceControl ----------------------------
(***************************************************************************)
(* The life of the daemon and its control.                                 *)
(*                                                                         *)
(* The daemon: serverApp.Start and Stop (app.go), run by Execute under the *)
(* Windows service manager (service_windows.go) or by main in a console.   *)
(* The control client: the Start, Stop and Restart buttons of the GUI      *)
(* (main.go) over StartWindowsService and StopWindowsService               *)
(* (service_manage_windows.go).                                            *)
(*                                                                         *)
(* Time limits are steps that give up.  The service manager and an         *)
(* operator with services.msc are external.                                *)
(***************************************************************************)
EXTENDS Naturals, Sequences

CONSTANTS
  MaxSaves,     \* bound on configurations saved by the Start button
  MaxClicks,    \* bound on clicks
  MaxManual,    \* bound on starts and stops by hand, a console included
  MaxCrashes,   \* bound on crashes of the daemon
  MaxRequests   \* bound on HTTP requests in progress at a time

ASSUME ServiceAssumption ==
  {MaxSaves, MaxClicks, MaxManual, MaxCrashes, MaxRequests} \subseteq Nat

VARIABLES
  console,    \* the daemon runs in a console, not as a service
  file,       \* version of the configuration on disk
  svc,        \* state of the service
  told,       \* the daemon has been told to stop: a control or a signal
  app,        \* where the daemon is
  loaded,     \* version of the configuration it has read
  http,       \* its HTTP server
  db,         \* its database handle
  worker,     \* its order worker
  errCh,      \* serverApp.errCh
  inflight,   \* number of HTTP requests in progress
  gui,        \* the GUI's goroutine: its place, button and history
  report,     \* what the last click was told
  clicks, manual, crashes,  \* numbers of those so far
  overdue,    \* history: Shutdown's time limit has passed
  seen,       \* history: states of the service since the last click
  ran         \* history: version read by the last daemon that got Running

daemonVars == <<app, loaded, http, db, worker, errCh, inflight, overdue>>
guiVars == <<gui, report, clicks>>
boundVars == <<manual, crashes>>
vars == <<console, file, svc, told, daemonVars, guiVars, boundVars, seen, ran>>

SvcStates == {"absent", "Stopped", "StartPending", "Running", "StopPending"}

Starting == {"load", "open", "queue", "server"}

Stopping == {"cancel", "shutdown", "close"}

Reports == [op : {"start", "stop", "restart"}, ok : BOOLEAN, stopOk : BOOLEAN,
            since : 0..MaxSaves, seen : SUBSET SvcStates, ran : 0..MaxSaves]

ServiceTypeOK ==
  /\ console \in BOOLEAN
  /\ file \in 0..MaxSaves
  /\ svc \in SvcStates
  /\ told \in BOOLEAN
  /\ app \in {"none", "ready", "run", "await", "over"} \cup Starting \cup Stopping
  /\ loaded \in 0..MaxSaves
  /\ http \in {"none", "starting", "serving", "closed"}
  /\ db \in {"none", "open", "closed"}
  /\ worker \in {"none", "running", "told"}
  /\ errCh \in Seq({"failed", "closed"}) /\ Len(errCh) <= 1
  /\ inflight \in 0..MaxRequests
  /\ gui \in [pc : {"idle", "persist", "ensure", "query stop", "control", "wait stop",
                    "query start", "start", "wait start"},
              op : {"start", "stop", "restart"}, stopOk : BOOLEAN, since : 0..MaxSaves]
  /\ report \in {<<>>} \cup {<<r>> : r \in Reports}
  /\ overdue \in BOOLEAN
  /\ seen \subseteq SvcStates
  /\ ran \in 0..MaxSaves

Init ==
  /\ console \in BOOLEAN
  /\ file = 0
  /\ svc \in {"absent", "Stopped"}
  /\ console => svc = "absent"
  /\ told = FALSE
  /\ app = "none"
  /\ loaded = 0
  /\ http = "none"
  /\ db = "none"
  /\ worker = "none"
  /\ errCh = <<>>
  /\ inflight = 0
  /\ gui = [pc |-> "idle", op |-> "stop", stopOk |-> TRUE, since |-> 0]
  /\ report = <<>>
  /\ clicks = 0
  /\ manual = 0
  /\ crashes = 0
  /\ overdue = FALSE
  /\ seen = {}
  /\ ran = 0

SetSvc(state) ==
  /\ svc' = state
  /\ seen' = seen \cup {state}

\* What the service manager shows; a console has no service.
Status(state) == IF console THEN UNCHANGED <<svc, seen>> ELSE SetSvc(state)

App(from, to) ==
  /\ app = from
  /\ app' = to

-----------------------------------------------------------------------------
(* The daemon: serverApp.Start.                                            *)

\* The service manager, or a user, starts the process.
ProcessStarts ==
  /\ App("none", "load")
  /\ IF console THEN manual < MaxManual /\ manual' = manual + 1
                ELSE svc = "StartPending" /\ UNCHANGED manual
  /\ UNCHANGED <<console, file, svc, told, loaded, http, db, worker, errCh, inflight,
                 overdue, guiVars, crashes, seen, ran>>

LoadConfig ==
  /\ App("load", "open")
  /\ loaded' = file
  /\ UNCHANGED <<console, file, svc, told, http, db, worker, errCh, inflight, overdue,
                 guiVars, boundVars, seen, ran>>

\* No configuration, or no database within five seconds.
StartFails ==
  /\ App("load", "over") \/ App("open", "over")
  /\ UNCHANGED <<console, file, svc, told, loaded, http, db, worker, errCh, inflight,
                 overdue, guiVars, boundVars, seen, ran>>

OpenDb ==
  /\ App("open", "queue")
  /\ db' = "open"
  /\ UNCHANGED <<console, file, svc, told, loaded, http, worker, errCh, inflight, overdue,
                 guiVars, boundVars, seen, ran>>

StartQueue ==
  /\ App("queue", "server")
  /\ worker' = "running"
  /\ UNCHANGED <<console, file, svc, told, loaded, http, db, errCh, inflight, overdue,
                 guiVars, boundVars, seen, ran>>

\* NewServer refuses the configuration: Start calls Stop itself.
ServerRefused ==
  /\ App("server", "cancel")
  /\ UNCHANGED <<console, file, svc, told, loaded, http, db, worker, errCh, inflight,
                 overdue, guiVars, boundVars, seen, ran>>

\* The goroutine of ListenAndServe is launched and Start returns nil.
LaunchServer ==
  /\ App("server", "ready")
  /\ http' = "starting"
  /\ UNCHANGED <<console, file, svc, told, loaded, db, worker, errCh, inflight, overdue,
                 guiVars, boundVars, seen, ran>>

\* Execute reports Running; main begins to wait.
ReportRunning ==
  /\ App("ready", "run")
  /\ Status("Running")
  /\ ran' = loaded
  /\ UNCHANGED <<console, file, told, loaded, http, db, worker, errCh, inflight, overdue,
                 guiVars, boundVars>>

-----------------------------------------------------------------------------
(* The goroutine of ListenAndServe and the handlers it starts.             *)

Listens ==
  /\ http = "starting"
  /\ http' = "serving"
  /\ UNCHANGED <<console, file, svc, told, app, loaded, db, worker, errCh, inflight,
                 overdue, guiVars, boundVars, seen, ran>>

\* Mutant: listening is tried again after a failure, which is sent each time.
ListenRetries ==
  /\ http = "starting"
  /\ errCh' = Append(errCh, "failed")
  /\ UNCHANGED <<console, file, svc, told, app, loaded, http, db, worker, inflight, overdue,
                 guiVars, boundVars, seen, ran>>

\* The address is taken: ListenAndServe returns at once.
ListenFails ==
  /\ http = "starting"
  /\ http' = "closed"
  /\ errCh' = Append(errCh, "failed")
  /\ UNCHANGED <<console, file, svc, told, app, loaded, db, worker, inflight, overdue,
                 guiVars, boundVars, seen, ran>>

RequestArrives ==
  /\ http = "serving"
  /\ inflight < MaxRequests
  /\ inflight' = inflight + 1
  /\ UNCHANGED <<console, file, svc, told, app, loaded, http, db, worker, errCh, overdue,
                 guiVars, boundVars, seen, ran>>

RequestEnds ==
  /\ inflight > 0
  /\ inflight' = inflight - 1
  /\ UNCHANGED <<console, file, svc, told, app, loaded, http, db, worker, errCh, overdue,
                 guiVars, boundVars, seen, ran>>

-----------------------------------------------------------------------------
(* The daemon: Execute, main and serverApp.Stop.                           *)

\* A stop control, a shutdown of Windows, or a signal in the console.
StopRequest ==
  /\ told
  /\ App("run", "cancel")
  /\ Status("StopPending")
  /\ UNCHANGED <<console, file, told, loaded, http, db, worker, errCh, inflight, overdue,
                 guiVars, boundVars, ran>>

\* ListenAndServe has returned.  Execute stops the rest; main exits as it is.
ServerError ==
  /\ errCh # <<>>
  /\ errCh' = Tail(errCh)
  /\ App("run", IF console THEN "over" ELSE "cancel")
  /\ Status("StopPending")
  /\ UNCHANGED <<console, file, told, loaded, http, db, worker, inflight, overdue,
                 guiVars, boundVars, ran>>

CancelQueue ==
  /\ App("cancel", IF http = "none" THEN "close" ELSE "shutdown")
  /\ worker' = "told"
  /\ UNCHANGED <<console, file, svc, told, loaded, http, db, errCh, inflight, overdue,
                 guiVars, boundVars, seen, ran>>

\* Shutdown closes the listener, and ListenAndServe returns ErrServerClosed
\* whether it was serving or had not begun to.
CloseListener ==
  /\ app = "shutdown"
  /\ http \in {"starting", "serving"}
  /\ http' = "closed"
  /\ errCh' = Append(errCh, "closed")
  /\ UNCHANGED <<console, file, svc, told, app, loaded, db, worker, inflight, overdue,
                 guiVars, boundVars, seen, ran>>

\* Mutant: the database is closed as soon as the listener is.
ShutdownReturnsAtOnce ==
  /\ http = "closed"
  /\ App("shutdown", "close")
  /\ UNCHANGED <<console, file, svc, told, loaded, http, db, worker, errCh, inflight,
                 overdue, guiVars, boundVars, seen, ran>>

\* It waits for the requests in progress ...
ShutdownReturns ==
  /\ http = "closed"
  /\ inflight = 0
  /\ App("shutdown", "close")
  /\ UNCHANGED <<console, file, svc, told, loaded, http, db, worker, errCh, inflight,
                 overdue, guiVars, boundVars, seen, ran>>

\* Mutant: Shutdown without a time limit.
ShutdownNeverGivesUp == FALSE

\* ... for ten seconds.
ShutdownGivesUp ==
  /\ http = "closed"
  /\ inflight > 0
  /\ App("shutdown", "close")
  /\ overdue' = TRUE
  /\ UNCHANGED <<console, file, svc, told, loaded, http, db, worker, errCh, inflight,
                 guiVars, boundVars, seen, ran>>

\* After a stop in the console, main waits for ListenAndServe's error.
CloseDb ==
  /\ App("close", IF console /\ http # "none" THEN "await" ELSE "over")
  /\ db' = "closed"
  /\ UNCHANGED <<console, file, svc, told, loaded, http, worker, errCh, inflight, overdue,
                 guiVars, boundVars, seen, ran>>

ErrorAwaited ==
  /\ App("await", "over")
  /\ errCh # <<>>
  /\ errCh' = Tail(errCh)
  /\ UNCHANGED <<console, file, svc, told, loaded, http, db, worker, inflight, overdue,
                 guiVars, boundVars, seen, ran>>

\* Execute or main returns: the process, with all it held, is gone.
ProcessGone ==
  /\ app' = "none"
  /\ Status("Stopped")
  /\ told' = FALSE
  /\ http' = "none"
  /\ db' = "none"
  /\ worker' = "none"
  /\ errCh' = <<>>
  /\ inflight' = 0
  /\ overdue' = FALSE
  /\ UNCHANGED <<console, file, loaded, guiVars, manual, ran>>

ProcessExits == app = "over" /\ ProcessGone /\ UNCHANGED crashes

Crash ==
  /\ app # "none"
  /\ crashes < MaxCrashes
  /\ crashes' = crashes + 1
  /\ ProcessGone

-----------------------------------------------------------------------------
(* The service manager, and an operator at it or at the console.           *)

\* StartService: refused unless the service is stopped.
ManagerStarts == svc = "Stopped" /\ SetSvc("StartPending")

\* Services.msc, or Windows starting up.
ManualStart ==
  /\ manual < MaxManual
  /\ manual' = manual + 1
  /\ ManagerStarts
  /\ UNCHANGED <<console, file, told, daemonVars, guiVars, crashes, ran>>

\* Services.msc, Windows shutting down, or Ctrl-C.
ManualStop ==
  /\ manual < MaxManual
  /\ manual' = manual + 1
  /\ app = "run"
  /\ told' = TRUE
  /\ UNCHANGED <<console, file, svc, daemonVars, guiVars, crashes, seen, ran>>

-----------------------------------------------------------------------------
(* The buttons.                                                            *)

Gui(from, to) ==
  /\ gui.pc = from
  /\ gui' = [gui EXCEPT !.pc = to]

\* f.busy: one click at a time.
Click(op, first) ==
  /\ ~console
  /\ gui.pc = "idle"
  /\ clicks < MaxClicks
  /\ clicks' = clicks + 1
  /\ gui' = [pc |-> first, op |-> op, stopOk |-> TRUE, since |-> file]
  /\ report' = <<>>
  /\ seen' = {svc}
  /\ UNCHANGED <<console, file, svc, told, daemonVars, boundVars, ran>>

ClickStart == Click("start", "persist")
ClickStop == Click("stop", "query stop")
ClickRestart == Click("restart", "query stop")

\* Synchronize: the form is told how the click ended.
Finish(ok) ==
  /\ gui' = [gui EXCEPT !.pc = "idle"]
  /\ report' = <<[op |-> gui.op, ok |-> ok, stopOk |-> gui.stopOk,
                  since |-> gui.since, seen |-> seen, ran |-> ran]>>

GuiOnly == UNCHANGED <<console, file, svc, told, daemonVars, clicks, boundVars, seen, ran>>

Persist ==
  /\ Gui("persist", "ensure")
  /\ file < MaxSaves
  /\ file' = file + 1
  /\ UNCHANGED <<console, svc, told, daemonVars, report, clicks, boundVars, seen, ran>>

\* The configuration is not saved, the daemon's binary is not found, or the
\* service manager refuses the service.
PersistFails ==
  /\ gui.pc \in {"persist", "ensure"}
  /\ Finish(FALSE)
  /\ GuiOnly

\* EnsureWindowsServiceAutoStart creates the service or updates it.
Ensure ==
  /\ Gui("ensure", "query start")
  /\ IF svc = "absent" THEN SetSvc("Stopped") ELSE UNCHANGED <<svc, seen>>
  /\ UNCHANGED <<console, file, told, daemonVars, report, clicks, boundVars, ran>>

\* StopWindowsService returns.  A restart goes on to start, whatever it was.
StopReturns(ok) ==
  IF gui.op = "stop"
  THEN Finish(ok)
  ELSE /\ gui' = [gui EXCEPT !.pc = "query start", !.stopOk = ok]
       /\ UNCHANGED report

QueryStop ==
  /\ gui.pc = "query stop"
  /\ \/ svc = "absent" /\ StopReturns(FALSE)
     \/ svc = "Stopped" /\ StopReturns(TRUE)
     \/ svc = "StopPending" /\ Gui("query stop", "wait stop") /\ UNCHANGED report
     \/ svc \in {"StartPending", "Running"} /\ Gui("query stop", "control") /\ UNCHANGED report
  /\ GuiOnly

\* Mutant: StopWindowsService returns once the control was sent.
ControlReturns ==
  /\ gui.pc = "control"
  /\ \/ svc \in {"Running", "Stopped"} /\ StopReturns(TRUE)
     \/ svc \in {"StartPending", "StopPending"} /\ StopReturns(FALSE)
  /\ told' = (told \/ svc = "Running")
  /\ UNCHANGED <<console, file, svc, daemonVars, clicks, boundVars, seen, ran>>

\* The control reaches a running service only; that it is not active is no
\* error, any other refusal is.
Control ==
  /\ gui.pc = "control"
  /\ \/ svc \in {"Running", "Stopped"} /\ Gui("control", "wait stop") /\ UNCHANGED report
     \/ svc \in {"StartPending", "StopPending"} /\ StopReturns(FALSE)
  /\ told' = (told \/ svc = "Running")
  /\ UNCHANGED <<console, file, svc, daemonVars, clicks, boundVars, seen, ran>>

\* waitForServiceState(Stopped): it polls until the state is reached ...
StopWaited ==
  /\ gui.pc = "wait stop"
  /\ svc = "Stopped"
  /\ StopReturns(TRUE)
  /\ GuiOnly

\* Mutant: waitForServiceState polls without a deadline.
StopNeverGivesUp == FALSE

\* ... or 20 seconds have passed.
StopGivesUp ==
  /\ gui.pc = "wait stop"
  /\ svc # "Stopped"
  /\ StopReturns(FALSE)
  /\ GuiOnly

QueryStart ==
  /\ gui.pc = "query start"
  /\ \/ svc = "absent" /\ Finish(FALSE)
     \/ svc = "Running" /\ Finish(TRUE)
     \/ svc = "StartPending" /\ Gui("query start", "wait start") /\ UNCHANGED report
     \/ svc \in {"Stopped", "StopPending"} /\ Gui("query start", "start") /\ UNCHANGED report
  /\ GuiOnly

\* StartService; that the service is not stopped is no error.
Start ==
  /\ Gui("start", "wait start")
  /\ IF svc = "Stopped" THEN ManagerStarts ELSE UNCHANGED <<svc, seen>>
  /\ UNCHANGED <<console, file, told, daemonVars, report, clicks, boundVars, ran>>

\* Mutant: waitForServiceState reports its time limit as success.
StartGivesUpQuietly ==
  /\ gui.pc = "wait start"
  /\ svc # "Running"
  /\ Finish(TRUE)
  /\ GuiOnly

StartWaited ==
  /\ gui.pc = "wait start"
  /\ svc = "Running"
  /\ Finish(TRUE)
  /\ GuiOnly

\* 30 seconds have passed.
StartGivesUp ==
  /\ gui.pc = "wait start"
  /\ svc # "Running"
  /\ Finish(FALSE)
  /\ GuiOnly

-----------------------------------------------------------------------------
DaemonStep ==
  \/ ProcessStarts /\ ~console
  \/ LoadConfig \/ StartFails \/ OpenDb \/ StartQueue \/ ServerRefused \/ LaunchServer
  \/ ReportRunning \/ StopRequest \/ ServerError \/ CancelQueue
  \/ CloseListener \/ ShutdownReturns \/ ShutdownGivesUp \/ CloseDb \/ ErrorAwaited
  \/ ProcessExits

GuiStep ==
  \/ Persist \/ PersistFails \/ Ensure
  \/ QueryStop \/ Control \/ StopWaited \/ StopGivesUp
  \/ QueryStart \/ Start \/ StartWaited \/ StartGivesUp

Next ==
  \/ ProcessStarts
  \/ DaemonStep
  \/ Listens \/ ListenFails
  \/ RequestArrives \/ RequestEnds
  \/ Crash
  \/ ManualStart \/ ManualStop
  \/ ClickStart \/ ClickStop \/ ClickRestart
  \/ GuiStep

Spec == Init /\ [][Next]_vars

\* Goroutines run and time limits expire.  Nothing is assumed of requests: a
\* handler may take for ever.
FairSpec ==
  /\ Spec
  /\ WF_vars(DaemonStep)
  /\ WF_vars(Listens \/ ListenFails)
  /\ WF_vars(GuiStep)

-----------------------------------------------------------------------------
(* Properties.                                                             *)

\* A request never finds its database handle missing or closed under it: it is
\* opened before the listener and closed after the last request has ended,
\* unless Shutdown's ten seconds were not enough (app.go:166-178).
RequestsHaveDatabase ==
  (http = "serving" \/ inflight > 0) => db = "open" \/ overdue

\* The form is told the truth.  "Stopped" and "started" have been seen since
\* the click, and a restart whose stop succeeded is one by a daemon that has
\* read the settings as they were at the click, whatever an operator or a
\* crash did meanwhile.
ReportsAreTrue ==
  \A r \in {report[i] : i \in 1..Len(report)} : r.ok =>
    /\ r.op = "stop" => "Stopped" \in r.seen
    /\ r.op \in {"start", "restart"} => "Running" \in r.seen
    /\ (r.op = "restart" /\ r.stopOk) => r.ran >= r.since

\* A daemon that was told to stop is gone in the end, as a service and in a
\* console, even when a request never ends.
StopsWhenTold == told ~> app = "none"

\* Every click comes to an end, whatever the service does.
ClickEnds == gui.pc # "idle" ~> gui.pc = "idle"
=============================================================================
