-------------------------------- MODULE Main ---------------------------------
(***************************************************************************)
(* The program, src/main.go: what runs beside main, the three ways to end  *)
(* it (the terminal UI, a signal, a restart request of the web interface)  *)
(* and the order in which main takes everything down.  The web server is   *)
(* the module WebServer; the probe engine is its contract, EngineContract, *)
(* which ProbeEngine implements; of the updater only its loop and whether  *)
(* an update is staged remain (Updater has the rest).                      *)
(***************************************************************************)
EXTENDS WebServer

CONSTANTS Triggers   \* identities of manually triggered probe cycles

ASSUME MainAssumption == {"main", "tui"} \subseteq WebCallers /\ "loop" \notin Triggers

VARIABLES main,                    \* position of main
          headless, webEnabled,    \* --server and WEB_ENABLED
          signaled,                \* a signal waits in sigCh
          shutdownStarted,         \* the channel is closed
          restartRequested, failed,\* the local of main, and whether it returns 1
          handler,                 \* position of the handler of each request
          tui, stopRequested, quit,\* the TUI: position, App.stopRequested, p.Quit sent
          phase, jobs,             \* the probe engine
          canceled, updates,       \* updateContext, and the checker's goroutine
          staged,                  \* its status is restart_required
          dbOpen

config     == <<headless, webEnabled>>
locals     == <<signaled, shutdownStarted, restartRequested, failed>>
tuiVars    == <<tui, stopRequested, quit>>
engineVars == <<phase, jobs>>
updateVars == <<canceled, updates, staged>>
others     == <<config, tuiVars, engineVars, updateVars, dbOpen>>
vars       == <<web, main, locals, handler, others>>

Engine == INSTANCE EngineContract WITH LoopJobs <- {"loop"}, ManualJobs <- Triggers

TypeOK ==
  /\ WebTypeOK
  /\ main \in {"web", "select", "quitTui", "waitTui", "updates", "stopWeb", "waitWeb",
               "stopEngine", "waitEngine", "close", "exec", "exit"}
  /\ {headless, webEnabled, signaled, shutdownStarted, restartRequested, failed} \subseteq BOOLEAN
  /\ handler \in [Requests -> {"none", "other", "restart", "asking", "answered"}]
  /\ tui \in {"none", "starting", "running", "stopWeb", "over"}
  /\ {stopRequested, quit, canceled, staged, dbOpen} \subseteq BOOLEAN
  /\ Engine!TypeOK
  /\ updates \in {"live", "over"}

(* run() has opened the database and started the engine and the updater;   *)
(* the latter only if it is enabled.                                       *)
Init ==
  /\ WebInit
  /\ main = "web"
  /\ headless \in BOOLEAN /\ webEnabled \in BOOLEAN /\ (headless => webEnabled)
  /\ signaled = FALSE /\ shutdownStarted = FALSE
  /\ restartRequested = FALSE /\ failed = FALSE
  /\ handler = [r \in Requests |-> "none"]
  /\ tui = "none" /\ stopRequested = FALSE /\ quit = FALSE
  /\ phase = "open" /\ jobs = {"loop"}
  /\ canceled = FALSE /\ staged = FALSE /\ updates \in {"live", "over"}
  /\ dbOpen = TRUE

----------------------------------------------------------------------------
(* main, up to its select. *)
AppStarts == /\ main' = "select"
             /\ tui' = IF headless THEN "none" ELSE "starting"

NoWeb ==
  /\ main = "web" /\ ~webEnabled
  /\ AppStarts
  /\ UNCHANGED <<web, locals, handler, config, stopRequested, quit, engineVars, updateVars, dbOpen>>

WebStarts ==
  /\ main = "web" /\ webEnabled
  /\ StartWeb("main")
  /\ AppStarts
  /\ UNCHANGED <<locals, handler, config, stopRequested, quit, engineVars, updateVars, dbOpen>>

(* The port is taken: tolerated with a terminal UI, fatal without one.     *)
WebFails ==
  /\ main = "web" /\ webEnabled
  /\ ~headless
  /\ AppStarts
  /\ UNCHANGED <<web, locals, handler, config, stopRequested, quit, engineVars, updateVars, dbOpen>>

WebFailsHeadless ==
  /\ main = "web" /\ headless
  /\ main' = "updates" /\ canceled' = TRUE /\ failed' = TRUE
  /\ UNCHANGED <<web, signaled, shutdownStarted, restartRequested, handler, config, tuiVars,
                 engineVars, updates, staged, dbOpen>>

(* The three branches of the select.  A name with an underscore, here and  *)
(* below, is a slip that the checks must notice: the definition after it   *)
(* with a plausible mistake.                                               *)
Leave_NotClosed(to) == main = "select" /\ main' = to /\ UNCHANGED shutdownStarted
Leave(to) == main = "select" /\ main' = to /\ shutdownStarted' = TRUE

SelectTui ==
  /\ tui = "over"
  /\ Leave("updates")
  /\ canceled' = TRUE
  /\ UNCHANGED <<web, signaled, restartRequested, failed, handler, config, tuiVars, engineVars,
                 updates, staged, dbOpen>>

SelectSignal ==
  /\ signaled
  /\ Leave("quitTui")
  /\ signaled' = FALSE
  /\ UNCHANGED <<web, restartRequested, failed, handler, others>>

SelectRestart(r) ==
  /\ handler[r] = "asking"
  /\ Leave("quitTui")
  /\ restartRequested' = TRUE
  /\ handler' = [handler EXCEPT ![r] = "answered"]
  /\ UNCHANGED <<web, signaled, failed, others>>

----------------------------------------------------------------------------
(* The shutdown: app.Stop and <-tuiDone when there is an app. *)
AppStops_OnlyRunning == stopRequested' = quit'
AppStops == stopRequested' = TRUE

QuitTui ==
  /\ main = "quitTui"
  /\ main' = "waitTui"
  /\ quit' = (tui \in {"running", "stopWeb"})
  /\ AppStops
  /\ UNCHANGED <<web, locals, handler, config, tui, engineVars, updateVars, dbOpen>>

TuiIsDone_NotAwaited == TRUE
TuiIsDone == tui \in {"none", "over"}

TuiWaited ==
  /\ main = "waitTui" /\ TuiIsDone
  /\ main' = "updates" /\ canceled' = TRUE
  /\ UNCHANGED <<web, locals, handler, config, tuiVars, engineVars, updates, staged, dbOpen>>

(* updater.Wait; there is nothing to wait for when it is not enabled.      *)
UpdatesAreDone == updates = "over"

UpdatesWaited ==
  /\ main = "updates" /\ UpdatesAreDone
  /\ main' = "stopWeb"
  /\ UNCHANGED <<web, locals, handler, others>>

(* webServer.Stop, which joins a Stop in progress. *)
MainStopsWeb ==
  /\ main = "stopWeb"
  /\ \/ webStopping /\ JoinStopWeb("main") /\ main' = "waitWeb"
     \/ ~webStopping /\ webRunning /\ StopWeb("main") /\ main' = "waitWeb"
     \/ ~webStopping /\ ~webRunning /\ UNCHANGED web /\ main' = "stopEngine"
  /\ UNCHANGED <<locals, handler, others>>

AfterWebStop_SkipsEngine == "close"
AfterWebStop == "stopEngine"

WebStopped ==
  /\ main = "waitWeb" /\ at["main"] = "idle"
  /\ main' = AfterWebStop
  /\ UNCHANGED <<web, locals, handler, others>>

StopEngine ==
  /\ main = "stopEngine"
  /\ Engine!Stop
  /\ main' = "waitEngine"
  /\ UNCHANGED <<web, locals, handler, config, tuiVars, updateVars, dbOpen>>

EngineStopped ==
  /\ main = "waitEngine"
  /\ Engine!Drained
  /\ main' = "close"
  /\ UNCHANGED <<web, locals, handler, config, tuiVars, updateVars, dbOpen>>

(* An error of db.Close, or one of the TUI, prevents the restart.          *)
CloseDatabase ==
  /\ main = "close"
  /\ dbOpen' = FALSE
  /\ \E err \in BOOLEAN :
       main' = IF err \/ failed \/ ~restartRequested THEN "exit" ELSE "exec"
  /\ UNCHANGED <<web, locals, handler, config, tuiVars, engineVars, updateVars>>

----------------------------------------------------------------------------
(* The terminal UI.  Update runs to its end before the next message, so p  *)
(* only quits when it is not busy; App.Stop may come before App.Run.       *)
TuiStep(to) == /\ tui' = to
               /\ UNCHANGED <<main, handler, config, stopRequested, quit, updateVars, dbOpen>>

TuiRuns ==
  /\ tui = "starting"
  /\ TuiStep(IF stopRequested THEN "over" ELSE "running")
  /\ UNCHANGED <<web, locals, engineVars>>

TuiQuits ==
  /\ tui = "running" /\ quit
  /\ TuiStep("over")
  /\ UNCHANGED <<web, locals, engineVars>>

(* ctrl+c, or an error of the terminal. *)
TuiEnds ==
  /\ tui = "running"
  /\ TuiStep("over")
  /\ failed' \in BOOLEAN
  /\ UNCHANGED <<web, signaled, shutdownStarted, restartRequested, engineVars>>

TuiTriggers(j) ==
  /\ tui = "running"
  /\ Engine!Trigger(j)
  /\ TuiStep("running")
  /\ UNCHANGED <<web, locals>>

TuiStartsWeb ==
  /\ tui = "running" /\ webEnabled
  /\ StartWeb("tui")
  /\ TuiStep("running")
  /\ UNCHANGED <<locals, engineVars>>

TuiStopsWeb ==
  /\ tui = "running"
  /\ StopWeb("tui")
  /\ TuiStep("stopWeb")
  /\ UNCHANGED <<locals, engineVars>>

TuiWebStopped ==
  /\ tui = "stopWeb" /\ at["tui"] = "idle"
  /\ TuiStep("running")
  /\ UNCHANGED <<web, locals, engineVars>>

----------------------------------------------------------------------------
(* Handlers of the web server, which outlive it when Close cuts them off.  *)
HandlerBegins(r, g, kind) ==
  /\ RequestBegins(r, g)
  /\ handler' = [handler EXCEPT ![r] = kind]
  /\ UNCHANGED <<main, locals, others>>

HandlerTriggers(r, j) ==
  /\ handler[r] = "other"
  /\ Engine!Trigger(j)
  /\ handler' = [handler EXCEPT ![r] = "answered"]
  /\ UNCHANGED <<web, main, locals, config, tuiVars, updateVars, dbOpen>>

(* handleUpdateRestart of an authenticated user: the status, then          *)
(* requestRestart, which waits for main's select or for the shutdown.      *)
HandlerAsks(r) ==
  /\ handler[r] = "restart"
  /\ handler' = [handler EXCEPT ![r] = IF staged THEN "asking" ELSE "answered"]
  /\ UNCHANGED <<web, main, locals, others>>

RestartRefused(r) ==
  /\ handler[r] = "asking" /\ shutdownStarted
  /\ handler' = [handler EXCEPT ![r] = "answered"]
  /\ UNCHANGED <<web, main, locals, others>>

HandlerEnds(r) ==
  /\ handler[r] \in {"other", "answered"}
  /\ RequestEnds(r)
  /\ handler' = [handler EXCEPT ![r] = "none"]
  /\ UNCHANGED <<main, locals, others>>

----------------------------------------------------------------------------
(* What goes on by itself. *)
WebWorks ==
  /\ \/ \E c \in WebCallers : StopSteps(c)
     \/ \E g \in Servers : Serve(g)
  /\ UNCHANGED <<main, locals, handler, others>>

ServeEnds ==
  /\ \E g \in Servers : ServeReturns(g)
  /\ UNCHANGED <<main, locals, handler, others>>

EngineWorks ==
  /\ \E j \in jobs : Engine!Finish(j) /\ (j = "loop" => phase = "draining")
  /\ UNCHANGED <<web, main, locals, handler, config, tuiVars, updateVars, dbOpen>>

UpdateStaged ==
  /\ updates = "live" /\ ~staged
  /\ staged' = TRUE
  /\ UNCHANGED <<web, main, locals, handler, config, tuiVars, engineVars, canceled, updates, dbOpen>>

UpdatesEnd ==
  /\ updates = "live" /\ canceled
  /\ updates' = "over"
  /\ UNCHANGED <<web, main, locals, handler, config, tuiVars, engineVars, canceled, staged, dbOpen>>

Signal ==
  /\ ~signaled
  /\ signaled' = TRUE
  /\ UNCHANGED <<web, main, shutdownStarted, restartRequested, failed, handler, others>>

MainStep == \/ NoWeb \/ WebStarts \/ WebFails \/ WebFailsHeadless
            \/ SelectTui \/ SelectSignal \/ \E r \in Requests : SelectRestart(r)
            \/ QuitTui \/ TuiWaited \/ UpdatesWaited \/ MainStopsWeb \/ WebStopped
            \/ StopEngine \/ EngineStopped \/ CloseDatabase
TuiMust  == TuiRuns \/ TuiQuits \/ TuiWebStopped
TuiMay   == TuiEnds \/ TuiStartsWeb \/ TuiStopsWeb \/ \E j \in Triggers : TuiTriggers(j)
Handlers == \E r \in Requests :
              \/ \E g \in Servers, kind \in {"other", "restart"} : HandlerBegins(r, g, kind)
              \/ \E j \in Triggers : HandlerTriggers(r, j)
              \/ HandlerAsks(r) \/ RestartRefused(r) \/ HandlerEnds(r)

Live == main \notin {"exec", "exit"}

MainNext == Live /\ (MainStep \/ TuiMust \/ TuiMay \/ Handlers \/ WebWorks \/ ServeEnds \/ EngineWorks
                     \/ UpdateStaged \/ UpdatesEnd \/ Signal)

(* Everything that does not depend on a user or a client goes on.  The     *)
(* loop of the updater and the jobs of the engine end once they are told   *)
(* to (ShutdownsEnd of Updater, Fairness of EngineContract).               *)
Fairness == /\ WF_vars(Live /\ MainStep) /\ WF_vars(Live /\ TuiMust)
            /\ WF_vars(Live /\ WebWorks) /\ WF_vars(Live /\ UpdatesEnd)
            /\ \A j \in Triggers \cup {"loop"} :
                 WF_vars(Live /\ EngineWorks /\ j \in jobs \ jobs')
            /\ \A r \in Requests : WF_vars(Live /\ RestartRefused(r))

MainSpec     == Init /\ [][MainNext]_vars
MainFairSpec == MainSpec /\ Fairness

----------------------------------------------------------------------------
(* The engine never touches a closed database: nothing probes by then, and *)
(* a handler that outlived the web server cannot start a cycle any more.   *)
NoProbeAfterClose == ~dbOpen => phase = "closed" /\ jobs = {}

(* Once main stops the web server it stays down: nobody is left who could  *)
(* start it again, or who stops it at the same time.                       *)
WebStaysDown ==
  main \in {"stopEngine", "waitEngine", "close", "exec", "exit"} =>
     ~webRunning /\ ~webStopping /\ tui \in {"none", "over"}

(* The process image is only replaced by a staged update, after the        *)
(* updater's goroutine has ended and the database is closed.               *)
ExecIsSafe == main = "exec" => staged /\ updates = "over" /\ ~dbOpen /\ ~failed

(* A restart request never waits in vain: main still has its select before *)
(* it, or the channel that refuses the request is closed.                  *)
RestartsAreHeard ==
  \A r \in Requests : handler[r] = "asking" => main \in {"web", "select"} \/ shutdownStarted

(* A web server that was stopped gives its port back, even when Stop       *)
(* overtook Serve, so that the TUI can start the next one; at the end the  *)
(* operating system takes it back.                                         *)
PortComesBack == ~webRunning ~> PortFree \/ webRunning \/ ~Live

(* A signal ends the program, whatever the TUI, the web server, the engine *)
(* and the updater are doing.                                              *)
SignalsEnd == signaled ~> ~Live
==============================================================================
