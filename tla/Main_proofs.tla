---------------------------- MODULE Main_proofs -----------------------------
(***************************************************************************)
(* The program with its web server, and who may do what over the web.      *)
(***************************************************************************)
EXTENDS Main, Access, TLAPS

(***************************************************************************)
(* The web server, for any number of callers, requests and Starts: one     *)
(* Stop at a time shuts down the server of the last Start, once, and when  *)
(* it is over nobody is served.                                            *)
(***************************************************************************)

Working == {"shutdown", "drain", "finish"}

(* Every generation but the one the server holds was shut down.            *)
Generations ==
  /\ server <= started
  /\ \A g \in Servers : serving[g] # "none" => g <= started
  /\ \A g \in shutdown : g <= started
  /\ \A g \in Servers : g <= started => g \in shutdown \/ g = server
  /\ stopsClosed \subseteq shutdown

(* A server that runs was never stopped. *)
RunningIsNew ==
  webRunning => /\ ~webStopping
                /\ server # NoServer /\ server \notin shutdown

(* A Stop is carried out by one caller, on the server that is held.        *)
StopHasOwner ==
  /\ webStopping <=> \E c \in WebCallers : at[c] \in Working
  /\ ~webRunning /\ ~webStopping => server = NoServer
  /\ \A c \in WebCallers : at[c] \in Working =>
       /\ mine[c] = server /\ server # NoServer /\ webStopDone = server
       /\ mine[c] \notin stopsClosed
       /\ mine[c] \in shutdown <=> at[c] # "shutdown"
       /\ \A d \in WebCallers : at[d] \in Working => d = c

(* A request that Close has not cut off belongs to the server that is      *)
(* held, and that one runs or is being drained.                            *)
ServedByIt ==
  \A r \in Requests : conn[r] # NoServer /\ r \notin cut =>
    /\ conn[r] = server
    /\ webRunning \/ \E c \in WebCallers : at[c] \in {"shutdown", "drain"}

WebInv == WebTypeOK /\ Generations /\ RunningIsNew /\ StopHasOwner /\ ServedByIt

USE DEF webFlags, webCalls, web, NoServer

----------------------------------------------------------------------------
LEMMA WebInitIsFine == WebInit => WebInv
<1> SUFFICES ASSUME WebInit PROVE WebInv
  OBVIOUS
<1>1. WebTypeOK
  <2>1. 0 \in 0..MaxServers
    BY MaxServersAssumption
  <2> QED BY <2>1 DEF WebInit, WebTypeOK
<1>2. Generations /\ RunningIsNew /\ StopHasOwner /\ ServedByIt
  BY MaxServersAssumption
     DEF WebInit, Generations, RunningIsNew, StopHasOwner, ServedByIt, Servers, Working
<1> QED BY <1>1, <1>2 DEF WebInv

LEMMA StartWebKeeps ==
  ASSUME WebInv, NEW c \in WebCallers, StartWeb(c)
  PROVE  WebInv'
BY MaxServersAssumption
   DEF StartWeb, MayStartWeb, WebInv, WebTypeOK, Generations, RunningIsNew, StopHasOwner, ServedByIt,
   Servers, Working

LEMMA ServeKeeps ==
  ASSUME WebInv, NEW g \in Servers, Serve(g)
  PROVE  WebInv'
BY MaxServersAssumption
   DEF Serve, WebInv, WebTypeOK, Generations, RunningIsNew, StopHasOwner, ServedByIt,
   Servers, Working

LEMMA ServeReturnsKeeps ==
  ASSUME WebInv, NEW g \in Servers, ServeReturns(g)
  PROVE  WebInv'
BY MaxServersAssumption
   DEF ServeReturns, WebInv, WebTypeOK, Generations, RunningIsNew, StopHasOwner, ServedByIt,
   Servers, Working

LEMMA StopWebKeeps ==
  ASSUME WebInv, NEW c \in WebCallers, StopWeb(c)
  PROVE  WebInv'
<1> USE DEF StopWeb, LocalStopDone
<1>1. server \in 0..MaxServers /\ server # NoServer /\ server \notin shutdown
      /\ \A d \in WebCallers : at[d] \notin Working
  BY DEF WebInv, WebTypeOK, RunningIsNew, StopHasOwner
<1>2. WebTypeOK'
  BY <1>1 DEF WebInv, WebTypeOK
<1>3. Generations' /\ RunningIsNew' /\ ServedByIt'
  BY <1>1 DEF WebInv, WebTypeOK, Generations, RunningIsNew, ServedByIt
<1>4. StopHasOwner'
  BY <1>1 DEF WebInv, WebTypeOK, Generations, StopHasOwner, Working
<1> QED BY <1>2, <1>3, <1>4 DEF WebInv

LEMMA JoinStopWebKeeps ==
  ASSUME WebInv, NEW c \in WebCallers, JoinStopWeb(c)
  PROVE  WebInv'
BY MaxServersAssumption
   DEF JoinStopWeb, WebInv, WebTypeOK, Generations, RunningIsNew, StopHasOwner, ServedByIt,
   Servers, Working

LEMMA StopWebJoinedKeeps ==
  ASSUME WebInv, NEW c \in WebCallers, StopWebJoined(c)
  PROVE  WebInv'
BY MaxServersAssumption
   DEF StopWebJoined, WebInv, WebTypeOK, Generations, RunningIsNew, StopHasOwner, ServedByIt,
   Servers, Working

LEMMA ShutdownEndsKeeps ==
  ASSUME WebInv, NEW c \in WebCallers, ShutdownEnds(c)
  PROVE  WebInv'
BY MaxServersAssumption
   DEF ShutdownEnds, CutOff, InProgress, WebInv, WebTypeOK, Generations, RunningIsNew,
   StopHasOwner, ServedByIt, Servers, Working

LEMMA RequestBeginsKeeps ==
  ASSUME WebInv, NEW r \in Requests, NEW g \in Servers, RequestBegins(r, g)
  PROVE  WebInv'
BY MaxServersAssumption
   DEF RequestBegins, Draining, WebInv, WebTypeOK, Generations, RunningIsNew, StopHasOwner, ServedByIt,
   Servers, Working

LEMMA RequestEndsKeeps ==
  ASSUME WebInv, NEW r \in Requests, RequestEnds(r)
  PROVE  WebInv'
BY MaxServersAssumption
   DEF RequestEnds, WebInv, WebTypeOK, Generations, RunningIsNew, StopHasOwner, ServedByIt,
   Servers, Working

LEMMA StopperFacts ==
  ASSUME WebInv, NEW c \in WebCallers, at[c] \in Working
  PROVE  /\ mine[c] = server /\ server \in Servers /\ webStopping /\ ~webRunning
         /\ mine[c] \in shutdown <=> at[c] # "shutdown"
BY MaxServersAssumption DEF WebInv, WebTypeOK, RunningIsNew, StopHasOwner, Servers

LEMMA ShutdownBeginsKeeps ==
  ASSUME WebInv, NEW c \in WebCallers, ShutdownBegins(c)
  PROVE  WebInv'
<1> USE DEF ShutdownBegins, ShutDown
<1>1. mine[c] = server /\ server \in Servers
  BY StopperFacts DEF Working
<1>2. WebTypeOK'
  BY <1>1 DEF WebInv, WebTypeOK
<1>3. Generations' /\ RunningIsNew' /\ StopHasOwner' /\ ServedByIt'
  BY <1>1 DEF WebInv, WebTypeOK, Generations, RunningIsNew, StopHasOwner, ServedByIt, Servers, Working
<1> QED BY <1>2, <1>3 DEF WebInv

LEMMA StopWebFinishKeeps ==
  ASSUME WebInv, NEW c \in WebCallers, StopWebFinish(c)
  PROVE  WebInv'
<1> USE DEF StopWebFinish, StopDoneClosed
<1>1. mine[c] = server /\ server \in Servers /\ server \in shutdown /\ ~webRunning
  BY StopperFacts DEF Working
<1>2. WebTypeOK'
  <2>1. 0 \in 0..MaxServers
    BY MaxServersAssumption
  <2> QED BY <1>1, <2>1 DEF WebInv, WebTypeOK
<1>3. Generations'
  BY <1>1, MaxServersAssumption DEF WebInv, WebTypeOK, Generations, Servers
<1>4. RunningIsNew' /\ StopHasOwner' /\ ServedByIt'
  BY <1>1 DEF WebInv, WebTypeOK, RunningIsNew, StopHasOwner, ServedByIt, Working
<1> QED BY <1>2, <1>3, <1>4 DEF WebInv

LEMMA NextKeepsWebInv == WebInv /\ [Next]_web => WebInv'
<1> SUFFICES ASSUME WebInv, [Next]_web PROVE WebInv'
  OBVIOUS
<1>1. CASE \E c \in WebCallers : StartWeb(c) \/ StopWeb(c) \/ JoinStopWeb(c)
  BY <1>1, StartWebKeeps, StopWebKeeps, JoinStopWebKeeps
<1>2. CASE \E c \in WebCallers : StopSteps(c)
  BY <1>2, ShutdownBeginsKeeps, ShutdownEndsKeeps, StopWebFinishKeeps, StopWebJoinedKeeps
     DEF StopSteps
<1>3. CASE \E g \in Servers : ServeSteps(g)
  BY <1>3, ServeKeeps, ServeReturnsKeeps DEF ServeSteps
<1>4. CASE \E r \in Requests : RequestEnds(r) \/ \E g \in Servers : RequestBegins(r, g)
  BY <1>4, RequestEndsKeeps, RequestBeginsKeeps
<1>5. CASE UNCHANGED web
  BY <1>5 DEF WebInv, WebTypeOK, Generations, RunningIsNew, StopHasOwner, ServedByIt
<1> QED BY <1>1, <1>2, <1>3, <1>4, <1>5 DEF Next

(* The web server keeps WebInv, whoever starts and stops it (server.go).   *)
THEOREM WebInvariant == Spec => []WebInv
<1> QED BY WebInitIsFine, NextKeepsWebInv, PTL DEF Spec

LEMMA WebInvSuffices == WebInv => StoppedServesNobody /\ OneShutdown
BY DEF WebInv, Generations, RunningIsNew, StopHasOwner, ServedByIt, StoppedServesNobody, OneShutdown,
   Working

(* Once a Stop has returned, only requests that Close cut off go on        *)
(* (Server.Stop).                                                          *)
THEOREM NobodyIsServed == Spec => []StoppedServesNobody
<1> QED BY WebInvariant, WebInvSuffices, PTL

(* Shutdown and the close of stopDone happen once for each Start.          *)
THEOREM ShutsDownOnce == Spec => []OneShutdown
<1> QED BY WebInvariant, WebInvSuffices, PTL

----------------------------------------------------------------------------
(***************************************************************************)
(* The whole program, for any number of requests, triggers and Starts of   *)
(* the web server: it uses the web server as that expects, and takes       *)
(* everything down in a safe order.                                        *)
(***************************************************************************)

NoWebAnyMore == {"stopEngine", "waitEngine", "close", "exec", "exit"}
Down         == {"updates", "stopWeb", "waitWeb"} \cup NoWebAnyMore

(* The terminal UI is over before main goes past it. *)
TuiIsGone ==
  /\ main = "web" => tui = "none"
  /\ main \in Down => tui \in {"none", "over"}

(* Only main and the TUI call the web server, each where it says so. *)
CallersAreKnown ==
  /\ \A c \in WebCallers : at[c] # "idle" => c \in {"main", "tui"}
  /\ at["main"] # "idle" => main = "waitWeb"
  /\ at["tui"] # "idle" => tui = "stopWeb"

WebIsDown ==
  /\ main \in {"waitWeb"} \cup NoWebAnyMore => ~webRunning
  /\ main \in NoWebAnyMore => ~webStopping

(* The engine is open until main stops it, and closed before the database. *)
EngineFollows ==
  /\ phase = IF main = "waitEngine" THEN "draining"
             ELSE IF main \in {"close", "exec", "exit"} THEN "closed" ELSE "open"
  /\ phase = "closed" => jobs = {}
  /\ dbOpen <=> main \notin {"exec", "exit"}

(* Without a select there was neither a web server nor a request.          *)
NothingYet ==
  main = "web" \/ (main # "select" /\ ~shutdownStarted) =>
    /\ tui = "none"
    /\ \A r \in Requests : handler[r] = "none"
    /\ \A g \in Servers : serving[g] = "none"

(* Only a staged update is restarted into. *)
RestartIsStaged ==
  /\ restartRequested => staged
  /\ \A r \in Requests : handler[r] = "asking" => staged
  /\ main \in Down \ {"updates"} => updates = "over"
  /\ main = "exec" => restartRequested /\ ~failed

MainInv == /\ TypeOK /\ WebInv /\ TuiIsGone /\ CallersAreKnown /\ WebIsDown /\ EngineFollows
           /\ NothingYet /\ RestartIsStaged /\ RestartsAreHeard

USE DEF config, locals, tuiVars, engineVars, updateVars, others, Down, NoWebAnyMore,
        web, webFlags, webCalls, NoServer

----------------------------------------------------------------------------
(* main and the TUI start, stop and serve with the operations of WebServer *)
(* only: every step of the program is one of the web server or none.       *)
LEMMA StepOfWebServer ==
  ASSUME MainNext
  PROVE  [Next]_web
<1> USE MainAssumption
<1>1. CASE MainStep
  BY <1>1 DEF MainStep, Next, NoWeb, WebStarts, WebFails, WebFailsHeadless, SelectTui,
     SelectSignal, SelectRestart, QuitTui, TuiWaited, UpdatesWaited, MainStopsWeb, WebStopped,
     StopEngine, EngineStopped, CloseDatabase
<1>2. CASE TuiMust \/ TuiMay
  BY <1>2 DEF TuiMust, TuiMay, TuiRuns, TuiQuits, TuiWebStopped, TuiEnds, TuiStartsWeb,
     TuiStopsWeb, TuiTriggers, Next
<1>3. CASE Handlers
  BY <1>3 DEF Handlers, HandlerBegins, HandlerTriggers, HandlerAsks, RestartRefused,
     HandlerEnds, Next
<1>4. CASE WebWorks \/ ServeEnds
  BY <1>4 DEF WebWorks, ServeEnds, Next, ServeSteps
<1>5. CASE EngineWorks \/ UpdateStaged \/ UpdatesEnd \/ Signal
  BY <1>5 DEF EngineWorks, UpdateStaged, UpdatesEnd, Signal
<1> QED BY <1>1, <1>2, <1>3, <1>4, <1>5 DEF MainNext

(* The program uses the web server as WebServer specifies it (main.go,     *)
(* tui/pages/home.go, web/handler.go).                                     *)
THEOREM UsesTheWebServer == MainSpec => Spec
<1>1. Init => WebInit
  BY DEF Init
<1>2. [MainNext]_vars => [Next]_web
  BY StepOfWebServer DEF vars
<1> QED BY <1>1, <1>2, PTL DEF MainSpec, Spec

----------------------------------------------------------------------------
LEMMA MainInitIsFine == Init => MainInv
<1> SUFFICES ASSUME Init PROVE MainInv
  OBVIOUS
<1>1. WebInv
  BY WebInitIsFine DEF Init
<1>2. TypeOK
  BY <1>1 DEF Init, TypeOK, WebInv, Engine!TypeOK
<1>3. TuiIsGone /\ CallersAreKnown /\ WebIsDown /\ EngineFollows /\ NothingYet
      /\ RestartIsStaged /\ RestartsAreHeard
  BY MainAssumption DEF Init, WebInit, TuiIsGone, CallersAreKnown, WebIsDown, EngineFollows,
     NothingYet, RestartIsStaged, RestartsAreHeard
<1> QED BY <1>1, <1>2, <1>3 DEF MainInv

(* main's way to its select, and out of it. *)
LEMMA StartingKeeps ==
  ASSUME MainInv, WebInv', Live,
         \/ NoWeb
         \/ WebStarts
         \/ WebFails
         \/ WebFailsHeadless
         \/ SelectTui
         \/ SelectSignal
         \/ \E r \in Requests : SelectRestart(r)
  PROVE  MainInv'
<1> USE MainAssumption
    DEF MainInv, TypeOK, WebInv, WebTypeOK, StopHasOwner, RunningIsNew, Working, Engine!TypeOK,
        TuiIsGone, CallersAreKnown, WebIsDown, EngineFollows, NothingYet, RestartIsStaged,
        RestartsAreHeard
<1>1. CASE NoWeb
  BY <1>1 DEF NoWeb, AppStarts
<1>2. CASE WebStarts
  BY <1>2 DEF WebStarts, AppStarts, StartWeb, MayStartWeb
<1>3. CASE WebFails
  BY <1>3 DEF WebFails, AppStarts
<1>4. CASE WebFailsHeadless
  BY <1>4 DEF WebFailsHeadless
<1>5. CASE SelectTui
  BY <1>5 DEF SelectTui, Leave
<1>6. CASE SelectSignal
  BY <1>6 DEF SelectSignal, Leave
<1>7. CASE \E r \in Requests : SelectRestart(r)
  BY <1>7 DEF SelectRestart, Leave
<1> QED BY <1>1, <1>2, <1>3, <1>4, <1>5, <1>6, <1>7

(* The shutdown. *)
LEMMA ShutdownKeeps ==
  ASSUME MainInv, WebInv', Live,
         \/ QuitTui
         \/ TuiWaited
         \/ UpdatesWaited
         \/ MainStopsWeb
         \/ WebStopped
         \/ StopEngine
         \/ EngineStopped
         \/ CloseDatabase
  PROVE  MainInv'
<1> USE MainAssumption
    DEF MainInv, TypeOK, WebInv, WebTypeOK, StopHasOwner, RunningIsNew, Working, Engine!TypeOK,
        TuiIsGone, CallersAreKnown, WebIsDown, EngineFollows, NothingYet, RestartIsStaged,
        RestartsAreHeard
<1>1. CASE QuitTui
  BY <1>1 DEF QuitTui, AppStops
<1>2. CASE TuiWaited
  BY <1>2 DEF TuiWaited, TuiIsDone
<1>3. CASE UpdatesWaited
  BY <1>3 DEF UpdatesWaited, UpdatesAreDone
<1>4. CASE MainStopsWeb
  BY <1>4 DEF MainStopsWeb, JoinStopWeb, StopWeb, LocalStopDone
<1>5. CASE WebStopped
  BY <1>5 DEF WebStopped, AfterWebStop
<1>6. CASE StopEngine
  BY <1>6 DEF StopEngine, Engine!Stop
<1>7. CASE EngineStopped
  BY <1>7 DEF EngineStopped, Engine!Drained
<1>8. CASE CloseDatabase
  BY <1>8 DEF CloseDatabase
<1> QED BY <1>1, <1>2, <1>3, <1>4, <1>5, <1>6, <1>7, <1>8

(* The terminal UI. *)
LEMMA TuiKeeps ==
  ASSUME MainInv, WebInv', Live,
         \/ TuiRuns
         \/ TuiQuits
         \/ TuiEnds
         \/ \E j \in Triggers : TuiTriggers(j)
         \/ TuiStartsWeb
         \/ TuiStopsWeb
         \/ TuiWebStopped
  PROVE  MainInv'
<1> USE MainAssumption
    DEF MainInv, TypeOK, WebInv, WebTypeOK, StopHasOwner, RunningIsNew, Working, Engine!TypeOK,
        TuiIsGone, CallersAreKnown, WebIsDown, EngineFollows, NothingYet, RestartIsStaged,
        RestartsAreHeard
<1>1. CASE TuiRuns
  BY <1>1 DEF TuiRuns, TuiStep
<1>2. CASE TuiQuits
  BY <1>2 DEF TuiQuits, TuiStep
<1>3. CASE TuiEnds
  BY <1>3 DEF TuiEnds, TuiStep
<1>4. CASE \E j \in Triggers : TuiTriggers(j)
  <2>1. PICK j \in Triggers : TuiTriggers(j)
    BY <1>4
  <2> USE <2>1 DEF TuiTriggers, TuiStep, Engine!Trigger
  <2>2. TypeOK'
    OBVIOUS
  <2> QED BY <2>2
<1>5. CASE TuiStartsWeb
  BY <1>5 DEF TuiStartsWeb, TuiStep, StartWeb, MayStartWeb
<1>6. CASE TuiStopsWeb
  BY <1>6 DEF TuiStopsWeb, TuiStep, StopWeb, LocalStopDone
<1>7. CASE TuiWebStopped
  BY <1>7 DEF TuiWebStopped, TuiStep
<1> QED BY <1>1, <1>2, <1>3, <1>4, <1>5, <1>6, <1>7

(* Handlers. *)
LEMMA HandlerKeeps ==
  ASSUME MainInv, WebInv', Live,
         \/ \E r \in Requests, g \in Servers, kind \in {"other", "restart"} :
              HandlerBegins(r, g, kind)
         \/ \E r \in Requests, j \in Triggers : HandlerTriggers(r, j)
         \/ \E r \in Requests : HandlerAsks(r)
         \/ \E r \in Requests : RestartRefused(r)
         \/ \E r \in Requests : HandlerEnds(r)
  PROVE  MainInv'
<1> USE MainAssumption
    DEF MainInv, TypeOK, WebInv, WebTypeOK, StopHasOwner, RunningIsNew, Working, Engine!TypeOK,
        TuiIsGone, CallersAreKnown, WebIsDown, EngineFollows, NothingYet, RestartIsStaged,
        RestartsAreHeard
<1>1. CASE \E r \in Requests, g \in Servers, kind \in {"other", "restart"} :
             HandlerBegins(r, g, kind)
  BY <1>1 DEF HandlerBegins, RequestBegins
<1>2. CASE \E r \in Requests, j \in Triggers : HandlerTriggers(r, j)
  <2>1. PICK r \in Requests, j \in Triggers : HandlerTriggers(r, j)
    BY <1>2
  <2> USE <2>1 DEF HandlerTriggers, Engine!Trigger
  <2>2. TypeOK'
    OBVIOUS
  <2> QED BY <2>2
<1>3. CASE \E r \in Requests : HandlerAsks(r)
  BY <1>3 DEF HandlerAsks
<1>4. CASE \E r \in Requests : RestartRefused(r)
  BY <1>4 DEF RestartRefused
<1>5. CASE \E r \in Requests : HandlerEnds(r)
  BY <1>5 DEF HandlerEnds, RequestEnds
<1> QED BY <1>1, <1>2, <1>3, <1>4, <1>5

(* What goes on by itself. *)
LEMMA BackgroundKeeps ==
  ASSUME MainInv, WebInv', Live,
         \/ WebWorks
         \/ ServeEnds
         \/ EngineWorks
         \/ UpdateStaged
         \/ UpdatesEnd
         \/ Signal
  PROVE  MainInv'
<1> USE MainAssumption
    DEF MainInv, TypeOK, WebInv, WebTypeOK, StopHasOwner, RunningIsNew, Working, Engine!TypeOK,
        TuiIsGone, CallersAreKnown, WebIsDown, EngineFollows, NothingYet, RestartIsStaged,
        RestartsAreHeard
<1>1. CASE WebWorks
  BY <1>1 DEF WebWorks, StopSteps, ShutdownBegins, ShutdownEnds, StopWebFinish,
     StopWebJoined, Serve, ShutDown, CutOff, StopDoneClosed
<1>2. CASE ServeEnds
  BY <1>2 DEF ServeEnds, ServeReturns
<1>3. CASE EngineWorks
  BY <1>3 DEF EngineWorks, Engine!Finish
<1>4. CASE UpdateStaged
  BY <1>4 DEF UpdateStaged
<1>5. CASE UpdatesEnd
  BY <1>5 DEF UpdatesEnd
<1>6. CASE Signal
  BY <1>6 DEF Signal
<1> QED BY <1>1, <1>2, <1>3, <1>4, <1>5, <1>6

LEMMA NextKeepsMainInv == MainInv /\ [MainNext]_vars => MainInv'
<1> SUFFICES ASSUME MainInv, [MainNext]_vars PROVE MainInv'
  OBVIOUS
<1>1. CASE MainNext
  <2>1. WebInv'
    BY <1>1, StepOfWebServer, NextKeepsWebInv DEF MainInv
  <2>2. Live
    BY <1>1 DEF MainNext
  <2>3. CASE MainStep
    BY <2>1, <2>2, <2>3, StartingKeeps, ShutdownKeeps DEF MainStep
  <2>4. CASE TuiMust \/ TuiMay
    BY <2>1, <2>2, <2>4, TuiKeeps DEF TuiMust, TuiMay
  <2>5. CASE Handlers
    BY <2>1, <2>2, <2>5, HandlerKeeps DEF Handlers
  <2>6. CASE WebWorks \/ ServeEnds \/ EngineWorks \/ UpdateStaged \/ UpdatesEnd \/ Signal
    BY <2>1, <2>2, <2>6, BackgroundKeeps
  <2> QED BY <1>1, <2>3, <2>4, <2>5, <2>6 DEF MainNext
<1>2. CASE UNCHANGED vars
  <2>1. WebInv'
    BY <1>2, NextKeepsWebInv DEF vars, MainInv
  <2> QED BY <1>2, <2>1 DEF vars, MainInv, TypeOK, WebInv, Engine!TypeOK, TuiIsGone,
          CallersAreKnown, WebIsDown, EngineFollows, NothingYet, RestartIsStaged,
          RestartsAreHeard
<1> QED BY <1>1, <1>2

(* MainInv is an invariant of the program, whichever of the three ways     *)
(* ends it and whatever the others are doing then (main.go).               *)
THEOREM ProgramInvariant == MainSpec => []MainInv
<1> QED BY MainInitIsFine, NextKeepsMainInv, PTL DEF MainSpec

LEMMA MainInvSuffices ==
  MainInv => TypeOK /\ NoProbeAfterClose /\ WebStaysDown /\ ExecIsSafe /\ RestartsAreHeard
BY DEF MainInv, TuiIsGone, WebIsDown, EngineFollows, RestartIsStaged, NoProbeAfterClose,
   WebStaysDown, ExecIsSafe

(* Type correctness. *)
THEOREM ProgramTypeOK == MainSpec => []TypeOK
<1> QED BY ProgramInvariant, MainInvSuffices, PTL

(* The engine never touches a closed database. *)
THEOREM NothingProbesAfterClose == MainSpec => []NoProbeAfterClose
<1> QED BY ProgramInvariant, MainInvSuffices, PTL

(* Once main has stopped the web server nobody starts it again. *)
THEOREM WebStaysDownForGood == MainSpec => []WebStaysDown
<1> QED BY ProgramInvariant, MainInvSuffices, PTL

(* The image is replaced only by a staged update, with everything down. *)
THEOREM ExecIsAlwaysSafe == MainSpec => []ExecIsSafe
<1> QED BY ProgramInvariant, MainInvSuffices, PTL

(* A handler that asks for a restart always finds someone who answers. *)
THEOREM NoRestartIsUnheard == MainSpec => []RestartsAreHeard
<1> QED BY ProgramInvariant, MainInvSuffices, PTL

(* In the whole program, too, a stopped web server serves nobody. *)
THEOREM ProgramServesNobodyWhenStopped == MainSpec => []StoppedServesNobody
<1> QED BY UsesTheWebServer, NobodyIsServed, PTL

(***************************************************************************)
(* Access over the web, for any passwords and any number of restarts and   *)
(* broken connections.                                                     *)
(***************************************************************************)

Codes   == {200, 202, 401, 403, 409, 501, 503}
Replies == [as : {"full", "guest", "refused", "none"}, code : Codes, secret : BOOLEAN,
            offer : BOOLEAN, said : Nat]
Calls   == [e : Endpoints \cup {Login, None}, token : Passwords,
            at : {"none", "sent", "answered"}, answer : Replies \cup {0}]
Tab     == [at : {"blank", "login", "page", "loading", "dashboard", "error"},
            guest : BOOLEAN, button : BOOLEAN, said : Nat, call : Calls]

(* What is known of a tab in itself. *)
Sound(tab) ==
  /\ tab.call.at = "answered" => tab.call.answer \in Replies /\ tab.call.answer.said <= faults
  /\ tab.call.at = "none" <=> tab.call.e = None
  /\ tab.said <= faults
  /\ tab.at \in {"blank", "page", "error"} => tab.call.at = "none"
  /\ tab.button => tab.at \in {"loading", "dashboard", "error"}

Shape ==
  /\ password \in Passwords /\ cookie \in Passwords /\ token \in Passwords
  /\ guestEnabled \in BOOLEAN /\ update \in {"none", "unsupported", "staged"}
  /\ closing \in BOOLEAN /\ faults \in 0..MaxFaults
  /\ tabs \in [Tabs -> Tab]
  /\ \A t \in Tabs : Sound(tabs[t])

Grants == update = "staged" /\ password # "" /\ token = password

(* An offer that was made since the last restart still holds, on its way   *)
(* to the tab as well as on the dashboard.                                 *)
Holds(tab) ==
  /\ tab.button /\ tab.said = faults => Grants
  /\ tab.call.at = "answered" /\ tab.call.e = On("update", "GET")
       /\ tab.call.answer.code \in {200, 202} /\ tab.call.answer.offer
       /\ tab.call.answer.said = faults => Grants
  /\ tab.call.at # "none" /\ tab.call.e # Login => tab.call.token = token

OffersHold == \A t \in Tabs : Holds(tabs[t])

USE DEF configured, browser

----------------------------------------------------------------------------
(* The pieces that tabs are made of. *)
LEMMA EndpointFacts ==
  /\ Login \notin Endpoints /\ None \notin Endpoints /\ Login # None
  /\ \A e \in Endpoints : e.path \in {"status", "update", "stats", "providers", "csv", "results",
                                      "restart"} /\ e.method \in {"GET", "POST", "DELETE"}
  /\ {On("status", "GET"), On("stats", "GET"), On("update", "GET"), On("restart", "POST")}
       \subseteq Endpoints
BY DEF Endpoints, Login, None, On

LEMMA NoCallIsCall == NoCall \in Calls /\ NoCall.at = "none" /\ NoCall.e = None
BY AccessAssumption DEF NoCall, Calls, Replies

LEMMA FreshIsTab ==
  ASSUME NEW place \in {"blank", "login", "page", "loading", "dashboard", "error"}
  PROVE  /\ Fresh(place) \in Tab
         /\ Fresh(place).at = place /\ Fresh(place).call = NoCall /\ ~Fresh(place).button
         /\ Fresh(place).said = 0 /\ Fresh(place).guest
BY NoCallIsCall DEF Fresh, Tab

LEMMA SentIsCall ==
  ASSUME NEW e \in Endpoints \cup {Login, None}, NEW tok \in Passwords
  PROVE  /\ Sent(e, tok) \in Calls
         /\ Sent(e, tok).e = e /\ Sent(e, tok).token = tok /\ Sent(e, tok).at = "sent"
BY DEF Sent, NoCall, Calls, Replies

LEMMA FaultsAreNat ==
  ASSUME Shape
  PROVE  faults \in Nat /\ faults \in 0..MaxFaults
<1>1. faults \in 0..MaxFaults
  BY DEF Shape
<1>2. MaxFaults \in Nat
  BY AccessAssumption, Zenon
<1> QED BY <1>1, <1>2

Truthful(a, tok) ==
  /\ a \in Replies /\ a.said = faults
  /\ a.code \in {200, 202} /\ a.offer => update = "staged" /\ password # "" /\ tok = password

LEMMA AnswerIsTruthful ==
  ASSUME Shape, NEW e \in Endpoints, NEW tok \in Passwords
  PROVE  Truthful(Answer(e, tok), tok)
<1> DEFINE as == Treated(e, tok)
<1>1. as \in {"full", "guest", "refused"} /\ (as = "full" => password = "" \/ tok = password)
  BY DEF Treated
<1>2. Code(e, as) \in Codes
  BY DEF Code, RestartCode, Codes
<1>3. as = "refused" => Code(e, as) \notin {200, 202}
  BY DEF Code
<1>4. RestartAllowed(as) \in BOOLEAN /\ (RestartAllowed(as) => password # "" /\ as # "guest")
  BY DEF RestartAllowed
<1>5. /\ Answer(e, tok) \in Replies
      /\ Answer(e, tok).said = faults /\ Answer(e, tok).code = Code(e, as)
      /\ Answer(e, tok).offer = (update = "staged" /\ RestartAllowed(as))
  BY <1>1, <1>2, <1>4, FaultsAreNat DEF Answer, Replies, Shape
<1> HIDE DEF as
<1>6. ASSUME Code(e, as) \in {200, 202}, RestartAllowed(as)
      PROVE  password # "" /\ tok = password
  BY <1>1, <1>3, <1>4, <1>6
<1> QED BY <1>5, <1>6 DEF Truthful

LEMMA LoginAnswerIsAnswer ==
  ASSUME Shape, NEW tok \in Passwords
  PROVE  LoginAnswer(tok) \in Replies /\ LoginAnswer(tok).said = faults
BY FaultsAreNat DEF LoginAnswer, Replies, Codes

----------------------------------------------------------------------------
(* A tab is replaced by a sound one.  With one tab, the offers hold if     *)
(* those of the new one do.                                                *)
LEMMA TabStep ==
  ASSUME Shape, NEW t \in Tabs, NEW tab \in Tab,
         tabs' = [tabs EXCEPT ![t] = tab], Sound(tab)',
         UNCHANGED configured, closing' \in BOOLEAN, cookie' \in Passwords, token' \in Passwords,
         faults' \in 0..MaxFaults, faults' >= faults
  PROVE  /\ Shape'
         /\ Tabs = {t} /\ Holds(tab)' => OffersHold'
<1>1. tabs' \in [Tabs -> Tab] /\ tabs'[t] = tab /\ \A u \in Tabs : u # t => tabs'[u] = tabs[u]
  BY DEF Shape
<1>2. ASSUME NEW u \in Tabs, u # t PROVE Sound(tabs[u])'
  <2>1. tabs[u] \in Tab /\ Sound(tabs[u]) /\ faults \in Nat /\ faults' \in Nat
    BY FaultsAreNat DEF Shape
  <2>2. tabs[u].call.at = "answered" => tabs[u].call.answer.said \in Nat
    BY <2>1 DEF Sound, Replies
  <2> QED BY <1>1, <1>2, <2>1, <2>2 DEF Sound, Tab
<1>3. Shape'
  BY <1>1, <1>2 DEF Shape
<1>4. Tabs = {t} /\ Holds(tab)' => OffersHold'
  BY <1>1 DEF OffersHold, Holds
<1> QED BY <1>3, <1>4

(* Keeps(t): a step of tab t is as it should be. *)
Keeps(t) == Shape' /\ (OffersHold /\ Tabs = {t} => OffersHold')

(* The tab begins anew. *)
LEMMA FreshStep ==
  ASSUME Shape, NEW t \in Tabs, NEW place \in {"login", "page"}, Show(t, Fresh(place)),
         UNCHANGED configured, closing' \in BOOLEAN, cookie' \in Passwords, token' \in Passwords,
         faults' \in 0..MaxFaults, faults' >= faults
  PROVE  Keeps(t)
<1>1. PICK tab : tab = Fresh(place)
  OBVIOUS
<1>2. /\ tab \in Tab /\ tab.call.at = "none" /\ tab.call = NoCall /\ ~tab.button /\ tab.said = 0
      /\ tab.call.e = None /\ faults' \in Nat
  BY <1>1, FreshIsTab, NoCallIsCall, FaultsAreNat
<1>3. Sound(tab)' /\ Holds(tab)'
  BY <1>2 DEF Sound, Holds
<1>4. tabs' = [tabs EXCEPT ![t] = tab]
  BY <1>1 DEF Show
<1> QED BY <1>2, <1>3, <1>4, TabStep DEF Keeps

LEMMA QuietFacts ==
  ASSUME Shape, NEW t \in Tabs
  PROVE  /\ tabs[t] \in Tab /\ Sound(tabs[t]) /\ tabs[t].call \in Calls
         /\ faults \in 0..MaxFaults /\ faults \in Nat /\ faults >= faults
         /\ cookie \in Passwords /\ token \in Passwords /\ password \in Passwords
         /\ closing \in BOOLEAN
BY FaultsAreNat DEF Shape, Tab

LEMMA PageKeeps ==
  ASSUME Shape, NEW t \in Tabs, OpenPage(t) \/ OpenLink(t)
  PROVE  Keeps(t)
BY QuietFacts, FreshStep DEF OpenPage, OpenLink

LEMMA LoggedInKeeps ==
  ASSUME Shape, NEW t \in Tabs, LoggedIn(t)
  PROVE  Keeps(t)
<1>1. tabs[t].call.token \in Passwords
  BY QuietFacts DEF Calls
<1>2. cookie' \in Passwords /\ token' \in Passwords
  BY <1>1, QuietFacts DEF LoggedIn, LoginCookie
<1> QED BY <1>2, QuietFacts, FreshStep DEF LoggedIn

LEMMA LoginBreaksKeeps ==
  ASSUME Shape, NEW t \in Tabs, LoginBreaks(t)
  PROVE  Keeps(t)
<1>1. tabs[t].call.token \in Passwords
  BY QuietFacts DEF Calls
<1>2. cookie' \in Passwords /\ token' \in Passwords
  BY <1>1, QuietFacts DEF LoginBreaks, LoginCookie
<1>3. faults' \in 0..MaxFaults /\ faults' >= faults
  <2>1. MaxFaults \in Nat
    BY AccessAssumption, Zenon
  <2> QED BY <2>1, QuietFacts DEF LoginBreaks
<1> QED BY <1>2, <1>3, QuietFacts, FreshStep DEF LoginBreaks

LEMMA SessionExpiredKeeps ==
  ASSUME Shape, NEW t \in Tabs, SessionExpired(t)
  PROVE  Keeps(t)
<1>1. "" \in Passwords
  BY AccessAssumption, Zenon
<1> QED BY <1>1, QuietFacts, FreshStep DEF SessionExpired

(* A request goes out with the token of localStorage. *)
LEMMA SentStep ==
  ASSUME Shape, NEW t \in Tabs, NEW e \in Endpoints, NEW tab \in Tab,
         Show(t, tab), UNCHANGED <<configured, closing, faults, browser>>,
         tab.call = Sent(e, token), tab.at \in {"loading", "dashboard"},
         tab.said <= faults,
         OffersHold => (tab.button /\ tab.said = faults => Grants)
  PROVE  Keeps(t)
<1>1. /\ Sent(e, token).e = e /\ Sent(e, token).token = token /\ Sent(e, token).at = "sent"
      /\ Login \notin Endpoints /\ None \notin Endpoints
  BY QuietFacts, SentIsCall, EndpointFacts
<1>2. Sound(tab)'
  BY <1>1 DEF Sound
<1>3. OffersHold => Holds(tab)'
  BY <1>1 DEF Holds, Grants
<1>4. tabs' = [tabs EXCEPT ![t] = tab]
  BY DEF Show
<1> QED BY <1>2, <1>3, <1>4, QuietFacts, TabStep DEF Keeps

LEMMA PageArrivesKeeps ==
  ASSUME Shape, NEW t \in Tabs, PageArrives(t)
  PROVE  Keeps(t)
<1>1. CASE ~PageIsServed
  BY <1>1, QuietFacts, FreshStep DEF PageArrives
<1>2. CASE PageIsServed
  <2>1. PICK tab : tab = [Fresh("loading") EXCEPT !.call = Sent(On("status", "GET"), token)]
    OBVIOUS
  <2>2. Fresh("loading") \in Tab /\ Fresh("loading").at = "loading" /\ Fresh("loading").said = 0
        /\ ~Fresh("loading").button
    BY FreshIsTab
  <2>3. On("status", "GET") \in Endpoints /\ Sent(On("status", "GET"), token) \in Calls
    BY EndpointFacts, QuietFacts, SentIsCall
  <2>4. /\ tab \in Tab /\ tab.call = Sent(On("status", "GET"), token)
        /\ tab.at = "loading" /\ tab.said = 0 /\ ~tab.button
    BY <2>1, <2>2, <2>3 DEF Tab
  <2>5. Show(t, tab) /\ UNCHANGED <<configured, closing, faults, browser>>
    BY <1>2, <2>1 DEF PageArrives
  <2> QED BY <2>3, <2>4, <2>5, QuietFacts, SentStep
<1> QED BY <1>1, <1>2

LEMMA LoadDashboardKeeps ==
  ASSUME Shape, NEW t \in Tabs, LoadDashboard(t)
  PROVE  Keeps(t)
<1>1. PICK tab : tab = [tabs[t] EXCEPT !.at = "loading", !.call = Sent(On("status", "GET"), token)]
  OBVIOUS
<1>2. On("status", "GET") \in Endpoints /\ Sent(On("status", "GET"), token) \in Calls
  BY EndpointFacts, QuietFacts, SentIsCall
<1>3. /\ tab \in Tab /\ tab.call = Sent(On("status", "GET"), token) /\ tab.at = "loading"
      /\ tab.said = tabs[t].said /\ tab.button = tabs[t].button
  BY <1>1, <1>2, QuietFacts DEF Tab
<1>4. tab.said <= faults /\ (OffersHold => (tab.button /\ tab.said = faults => Grants))
  BY <1>3, QuietFacts DEF Sound, OffersHold, Holds
<1>5. Show(t, tab) /\ UNCHANGED <<configured, closing, faults, browser>>
  BY <1>1 DEF LoadDashboard
<1> QED BY <1>2, <1>3, <1>4, <1>5, SentStep

LEMMA PressKeeps ==
  ASSUME Shape, NEW t \in Tabs, NEW e \in Endpoints, Press(t, e)
  PROVE  Keeps(t)
<1>1. PICK tab : tab = [tabs[t] EXCEPT !.call = Sent(e, token)]
  OBVIOUS
<1>2. Sent(e, token) \in Calls
  BY QuietFacts, SentIsCall
<1>3. /\ tab \in Tab /\ tab.call = Sent(e, token) /\ tab.at = "dashboard"
      /\ tab.said = tabs[t].said /\ tab.button = tabs[t].button
  BY <1>1, <1>2, QuietFacts DEF Press, Tab
<1>4. tab.said <= faults /\ (OffersHold => (tab.button /\ tab.said = faults => Grants))
  BY <1>3, QuietFacts DEF Sound, OffersHold, Holds
<1>5. Show(t, tab) /\ UNCHANGED <<configured, closing, faults, browser>>
  BY <1>1 DEF Press
<1> QED BY <1>3, <1>4, <1>5, SentStep

(* A login goes out with whatever was typed. *)
LEMMA SubmitLoginKeeps ==
  ASSUME Shape, NEW t \in Tabs, NEW typed \in Passwords, SubmitLogin(t, typed)
  PROVE  Keeps(t)
<1>1. PICK tab : tab = [Fresh("login") EXCEPT !.call = Sent(Login, typed)]
  OBVIOUS
<1>2. /\ Fresh("login") \in Tab /\ Fresh("login").at = "login" /\ Fresh("login").said = 0
      /\ ~Fresh("login").button
  BY FreshIsTab
<1>3. /\ Sent(Login, typed) \in Calls /\ Sent(Login, typed).at = "sent"
      /\ Sent(Login, typed).e = Login /\ Login # None
  BY QuietFacts, SentIsCall, EndpointFacts
<1>4. /\ tab \in Tab /\ tab.call = Sent(Login, typed)
      /\ tab.at = "login" /\ tab.said = 0 /\ ~tab.button
  BY <1>1, <1>2, <1>3 DEF Tab
<1>5. Sound(tab)' /\ Holds(tab)'
  <2>1. UNCHANGED <<configured, closing, faults, browser>> /\ faults \in Nat
    BY QuietFacts DEF SubmitLogin
  <2>2. tab.call.at = "sent" /\ tab.call.e = Login /\ tab.call.e # None
    BY <1>3, <1>4
  <2> QED BY <1>4, <2>1, <2>2 DEF Sound, Holds
<1>6. tabs' = [tabs EXCEPT ![t] = tab]
  BY <1>1 DEF SubmitLogin, Show
<1> QED BY <1>4, <1>5, <1>6, QuietFacts, TabStep DEF Keeps, SubmitLogin

----------------------------------------------------------------------------
(* Replies. *)

ItsAnswer(c, a)           == [c EXCEPT !.at = "answered", !.answer = a]
Landed(old, said, button) == [old EXCEPT !.at = "dashboard", !.said = said, !.button = button]

LEMMA CallIsAnswered ==
  ASSUME NEW c \in Calls, NEW a \in Replies
  PROVE  /\ ItsAnswer(c, a) \in Calls /\ ItsAnswer(c, a).at = "answered"
         /\ ItsAnswer(c, a).answer = a
         /\ ItsAnswer(c, a).e = c.e /\ ItsAnswer(c, a).token = c.token
BY DEF Calls, ItsAnswer

LEMMA TabIsLoaded ==
  ASSUME NEW old \in Tab, NEW said \in Nat, NEW button \in BOOLEAN
  PROVE  /\ Landed(old, said, button) \in Tab /\ Landed(old, said, button).call = old.call
         /\ Landed(old, said, button).at = "dashboard"
         /\ Landed(old, said, button).said = said /\ Landed(old, said, button).button = button
BY DEF Tab, Landed

LEMMA ServedKeeps ==
  ASSUME Shape, NEW t \in Tabs, Served(t)
  PROVE  Keeps(t)
<1> DEFINE c == tabs[t].call
<1>1. PICK a : a = IF c.e = Login THEN LoginAnswer(c.token) ELSE Answer(c.e, c.token)
  OBVIOUS
<1>2. PICK call : call = ItsAnswer(c, a)
  OBVIOUS
<1>3. PICK tab : tab = [tabs[t] EXCEPT !.call = call]
  OBVIOUS
<1>4. /\ c \in Calls /\ tabs[t] \in Tab /\ c.at = "sent" /\ Sound(tabs[t])
      /\ c.token \in Passwords /\ c.e \in Endpoints \cup {Login} /\ faults \in Nat
  BY QuietFacts DEF Served, Sound, Calls
<1>5. /\ a \in Replies /\ a.said = faults
      /\ c.e # Login /\ a.code \in {200, 202} /\ a.offer
           => update = "staged" /\ password # "" /\ c.token = password
  <2>1. CASE c.e = Login
    <3>1. a = LoginAnswer(c.token)
      BY <1>1, <2>1
    <3>2. c.token \in Passwords
      BY <1>4
    <3>3. LoginAnswer(c.token) \in Replies /\ LoginAnswer(c.token).said = faults
      BY <3>2, LoginAnswerIsAnswer, Zenon
    <3> QED BY <2>1, <3>1, <3>3
  <2>2. CASE c.e # Login
    <3>1. a = Answer(c.e, c.token)
      BY <1>1, <2>2
    <3>2. c.e \in Endpoints /\ c.token \in Passwords
      BY <1>4, <2>2
    <3>3. Truthful(a, c.token)
      BY <3>1, <3>2, AnswerIsTruthful
    <3> QED BY <3>3 DEF Truthful
  <2> QED BY <2>1, <2>2
<1>6. /\ call \in Calls /\ call.at = "answered" /\ call.answer = a /\ call.e = c.e
      /\ call.token = c.token
  BY <1>2, <1>4, <1>5, CallIsAnswered
<1>7. /\ tab \in Tab /\ tab.call = call /\ tab.at = tabs[t].at
      /\ tab.said = tabs[t].said /\ tab.button = tabs[t].button
  BY <1>3, <1>4, <1>6 DEF Tab
<1>8. tabs' = [tabs EXCEPT ![t] = tab]
  BY <1>1, <1>2, <1>3 DEF Served, ItsAnswer
<1>9. Sound(tab)'
  <2>1. call.e # None
    BY <1>4, <1>6, EndpointFacts
  <2>2. faults' = faults
    BY DEF Served
  <2>3. call.answer \in Replies /\ call.answer.said <= faults
    <3>1. call.answer \in Replies /\ call.answer.said = faults
      BY <1>5, <1>6
    <3>2. faults \in Nat
      BY <1>4
    <3> QED BY <3>1, <3>2
  <2>4. /\ tab.said <= faults /\ tab.at \notin {"blank", "page", "error"}
        /\ tab.button => tab.at \in {"loading", "dashboard", "error"}
    BY <1>4, <1>7 DEF Sound
  <2> QED BY <1>6, <1>7, <2>1, <2>2, <2>3, <2>4 DEF Sound
<1>10. OffersHold => Holds(tab)'
  <2>1. On("update", "GET") # Login
    BY DEF On, Login
  <2> QED BY <1>4, <1>5, <1>6, <1>7, <2>1 DEF Served, OffersHold, Holds, Grants
<1>11. closing' \in BOOLEAN
  BY QuietFacts DEF Served
<1> QED BY <1>7, <1>8, <1>9, <1>10, <1>11, QuietFacts, TabStep DEF Keeps, Served

(* A tab whose call is over, one way or the other. *)
LEMMA CallIsOver ==
  ASSUME Shape, NEW t \in Tabs, NEW tab \in Tab, Show(t, tab),
         UNCHANGED <<configured, closing, faults, browser>>,
         tab.call = NoCall, tab.said <= faults,
         tab.button => tab.at \in {"loading", "dashboard", "error"},
         OffersHold => (tab.button /\ tab.said = faults => Grants)
  PROVE  Keeps(t)
<1>1. Sound(tab)'
  BY NoCallIsCall DEF Sound
<1>2. OffersHold => Holds(tab)'
  BY NoCallIsCall DEF Holds, Grants
<1>3. tabs' = [tabs EXCEPT ![t] = tab]
  BY DEF Show
<1> QED BY <1>1, <1>2, <1>3, QuietFacts, TabStep DEF Keeps

LEMMA FailedIsTab ==
  ASSUME NEW tab \in Tab, tab.button => tab.at \in {"loading", "dashboard", "error"}
  PROVE  /\ Failed(tab) \in Tab /\ Failed(tab).call = NoCall /\ Failed(tab).said = tab.said
         /\ Failed(tab).button
              => tab.button /\ Failed(tab).at \in {"loading", "dashboard", "error"}
BY NoCallIsCall DEF Failed, Tab

LEMMA RefusedKeeps ==
  ASSUME Shape, NEW t \in Tabs, Refused(t)
  PROVE  Keeps(t)
<1>1. PICK tab : tab = Failed(tabs[t])
  OBVIOUS
<1>2. /\ tab \in Tab /\ tab.call = NoCall /\ tab.said = tabs[t].said
      /\ tab.button => tabs[t].button /\ tab.at \in {"loading", "dashboard", "error"}
  BY <1>1, QuietFacts, FailedIsTab DEF Sound
<1>3. tab.said <= faults /\ (OffersHold => (tab.button /\ tab.said = faults => Grants))
  BY <1>2, QuietFacts DEF Sound, OffersHold, Holds
<1>4. Show(t, tab) /\ UNCHANGED <<configured, closing, faults, browser>>
  BY <1>1 DEF Refused
<1> QED BY <1>2, <1>3, <1>4, CallIsOver

(* Three answers lead through loadDashboard; the others end a call. *)
LEMMA ArrivedKeeps ==
  ASSUME Shape, NEW t \in Tabs, Arrived(t)
  PROVE  Keeps(t)
<1> DEFINE c == tabs[t].call
           a == c.answer
           old == [tabs[t] EXCEPT !.call = NoCall]
<1>1. /\ c.at = "answered" /\ a.code \in {200, 202} /\ c \in Calls /\ tabs[t] \in Tab
      /\ a \in Replies /\ a.said <= faults /\ tabs[t].said <= faults
      /\ tabs[t].button => tabs[t].at \in {"loading", "dashboard", "error"}
      /\ UNCHANGED <<configured, closing, faults, browser>>
  BY QuietFacts DEF Arrived, Answered, Sound
<1>2. /\ old \in Tab /\ old.call = NoCall /\ old.at = tabs[t].at /\ old.said = tabs[t].said
      /\ old.button = tabs[t].button
  BY <1>1, NoCallIsCall DEF Tab
<1>3. OffersHold => (tabs[t].button /\ tabs[t].said = faults => Grants)
  BY DEF OffersHold, Holds
<1>4. CASE tabs[t].at = "loading" /\ c.e.path = "status"
  <2>1. PICK tab : tab = [old EXCEPT !.guest = a.as = "guest",
                                     !.call = Sent(On("stats", "GET"), token)]
    OBVIOUS
  <2>2. On("stats", "GET") \in Endpoints /\ Sent(On("stats", "GET"), token) \in Calls
    BY EndpointFacts, QuietFacts, SentIsCall
  <2>3. /\ tab \in Tab /\ tab.call = Sent(On("stats", "GET"), token) /\ tab.at = "loading"
        /\ tab.said = tabs[t].said /\ tab.button = tabs[t].button
    BY <1>2, <1>4, <2>1, <2>2 DEF Tab
  <2>4. Show(t, tab)
    BY <1>2, <1>4, <2>1 DEF Arrived
  <2> QED BY <1>1, <1>3, <2>2, <2>3, <2>4, SentStep
<1>5. CASE tabs[t].at = "loading" /\ c.e.path = "stats"
  <2>1. PICK tab : tab = [old EXCEPT !.call = Sent(On("update", "GET"), token)]
    OBVIOUS
  <2>2. On("update", "GET") \in Endpoints /\ Sent(On("update", "GET"), token) \in Calls
    BY EndpointFacts, QuietFacts, SentIsCall
  <2>3. /\ tab \in Tab /\ tab.call = Sent(On("update", "GET"), token) /\ tab.at = "loading"
        /\ tab.said = tabs[t].said /\ tab.button = tabs[t].button
    BY <1>2, <1>5, <2>1, <2>2 DEF Tab
  <2>4. Show(t, tab)
    BY <1>2, <1>5, <2>1 DEF Arrived
  <2> QED BY <1>1, <1>3, <2>2, <2>3, <2>4, SentStep
<1>6. CASE tabs[t].at = "loading" /\ c.e.path = "update"
  <2>1. PICK tab : tab = Landed(old, a.said, ~old.guest /\ a.offer)
    OBVIOUS
  <2>2. /\ tab \in Tab /\ tab.call = NoCall /\ tab.at = "dashboard" /\ tab.said = a.said
        /\ tab.button => a.offer
    <3>1. a.said \in Nat /\ (~old.guest /\ a.offer) \in BOOLEAN
      BY <1>1 DEF Replies
    <3>2. /\ tab \in Tab /\ tab.call = old.call /\ tab.at = "dashboard" /\ tab.said = a.said
          /\ tab.button = (~old.guest /\ a.offer)
      BY <1>2, <2>1, <3>1, TabIsLoaded
    <3> QED BY <1>2, <3>2
  <2>3. Show(t, tab)
    BY <1>2, <1>6, <2>1 DEF Arrived, Landed
  <2>4. c.e = On("update", "GET")
    BY <1>1, <1>6 DEF Calls, Endpoints, Login, None, On
  <2>5. OffersHold => (tab.button /\ tab.said = faults => Grants)
    BY <1>1, <2>2, <2>4 DEF OffersHold, Holds
  <2> QED BY <1>1, <2>2, <2>3, <2>5, CallIsOver
<1>7. CASE tabs[t].at # "loading" \/ c.e.path \notin {"status", "stats", "update"}
  <2>1. PICK tab : tab = old
    OBVIOUS
  <2>2. Show(t, tab)
    BY <1>2, <1>7, <2>1 DEF Arrived
  <2> QED BY <1>1, <1>2, <1>3, <2>1, <2>2, CallIsOver
<1> QED BY <1>4, <1>5, <1>6, <1>7

----------------------------------------------------------------------------
(* The server. *)

LEMMA StageKeeps ==
  ASSUME Shape, Stage
  PROVE  Shape' /\ (OffersHold => OffersHold')
<1>1. Shape'
  BY DEF Stage, Shape, Sound
<1>2. OffersHold => OffersHold'
  BY DEF Stage, OffersHold, Holds, Grants
<1> QED BY <1>1, <1>2

LEMMA ProgramLeavesKeeps ==
  ASSUME Shape, ProgramLeaves
  PROVE  Shape' /\ (OffersHold => OffersHold')
<1>1. Shape'
  BY DEF ProgramLeaves, Shape, Sound
<1>2. OffersHold => OffersHold'
  BY DEF ProgramLeaves, OffersHold, Holds, Grants
<1> QED BY <1>1, <1>2

(* No offer of before the restart counts any more. *)
LEMMA RestartedKeeps ==
  ASSUME Shape, NEW p \in Passwords, NEW g \in BOOLEAN, Restarted(p, g)
  PROVE  Shape' /\ (OffersHold => OffersHold')
<1>1. /\ faults \in Nat /\ faults' = faults + 1 /\ faults' \in 0..MaxFaults
      /\ password' = p /\ guestEnabled' = g /\ update' = "none" /\ closing' = FALSE
      /\ UNCHANGED browser
  <2>1. MaxFaults \in Nat
    BY AccessAssumption, Zenon
  <2> QED BY <2>1, FaultsAreNat DEF Restarted
<1>2. \A t \in Tabs : tabs'[t] = IF tabs[t].call.at = "sent" THEN Failed(tabs[t]) ELSE tabs[t]
  BY DEF Restarted
<1>3. ASSUME NEW t \in Tabs
      PROVE  /\ tabs'[t] \in Tab
             /\ Sound(tabs[t])'
             /\ OffersHold => Holds(tabs[t])'
  <2>1. tabs[t] \in Tab /\ Sound(tabs[t])
    BY QuietFacts
  <2>2. CASE tabs[t].call.at = "sent"
    <3>1. /\ tabs'[t] \in Tab /\ tabs'[t].call = NoCall /\ tabs'[t].said = tabs[t].said
          /\ tabs'[t].button => tabs'[t].at \in {"loading", "dashboard", "error"}
      BY <1>2, <2>1, <2>2, FailedIsTab DEF Sound
    <3>2. tabs[t].said \in Nat
      BY <2>1 DEF Tab
    <3> QED BY <1>1, <2>1, <3>1, <3>2, NoCallIsCall DEF Sound, Holds
  <2>3. CASE tabs[t].call.at # "sent"
    <3>1. tabs'[t] = tabs[t]
      BY <1>2, <2>3
    <3>2. tabs[t].said \in Nat
      BY <2>1 DEF Tab
    <3>3. tabs[t].call.at = "answered" => tabs[t].call.answer.said \in Nat
      BY <2>1 DEF Sound, Replies
    <3>4. Sound(tabs[t])'
      BY <1>1, <2>1, <3>1, <3>2, <3>3 DEF Sound
    <3>5. OffersHold => Holds(tabs[t])'
      BY <1>1, <2>1, <3>1, <3>2, <3>3 DEF Sound, OffersHold, Holds
    <3> QED BY <2>1, <3>1, <3>4, <3>5
  <2> QED BY <2>2, <2>3
<1>4. tabs' \in [Tabs -> Tab]
  BY <1>3 DEF Restarted
<1>5. Shape'
  BY <1>1, <1>3, <1>4 DEF Shape
<1>6. OffersHold => OffersHold'
  BY <1>3 DEF OffersHold
<1> QED BY <1>5, <1>6

----------------------------------------------------------------------------
LEMMA InitIsFine == AccessInit => Shape /\ OffersHold
<1> SUFFICES ASSUME AccessInit PROVE Shape /\ OffersHold
  OBVIOUS
<1>1. Fresh("blank") \in Tab /\ Fresh("blank").call = NoCall /\ ~Fresh("blank").button
      /\ Fresh("blank").said = 0 /\ NoCall.at = "none" /\ NoCall.e = None
  BY FreshIsTab, NoCallIsCall
<1>2. "" \in Passwords /\ MaxFaults \in Nat
  BY AccessAssumption, Zenon
<1>3. faults = 0 /\ faults \in 0..MaxFaults
  <2>1. faults = 0
    BY DEF AccessInit
  <2>2. MaxFaults \in Nat
    BY <1>2
  <2> QED BY <2>1, <2>2
<1>4. tabs = [t \in Tabs |-> Fresh("blank")]
  BY DEF AccessInit
<1>5. PICK fresh : fresh = Fresh("blank")
  OBVIOUS
<1>6. tabs \in [Tabs -> Tab] /\ \A t \in Tabs : tabs[t] = fresh
  BY <1>1, <1>4, <1>5
<1>7. /\ fresh.call = NoCall /\ ~fresh.button /\ fresh.said = 0
      /\ NoCall.at = "none" /\ NoCall.e = None
  BY <1>1, <1>5
<1>8. Sound(fresh) /\ Holds(fresh)
  BY <1>3, <1>7 DEF Sound, Holds
<1>9. \A t \in Tabs : Sound(tabs[t]) /\ Holds(tabs[t])
  BY <1>6, <1>8
<1> QED BY <1>2, <1>3, <1>6, <1>9 DEF AccessInit, Shape, OffersHold

LEMMA NextKeeps ==
  ASSUME Shape, [AccessNext]_accessVars
  PROVE  /\ Shape'
         /\ OffersHold /\ (\E t : Tabs = {t}) => OffersHold'
<1>1. CASE Stage \/ ProgramLeaves
  BY <1>1, StageKeeps, ProgramLeavesKeeps
<1>2. CASE \E p \in Passwords, g \in BOOLEAN : Restarted(p, g)
  BY <1>2, RestartedKeeps
<1>3. ASSUME NEW t \in Tabs,
             \/ Steps(t) \/ OpenPage(t) \/ OpenLink(t) \/ LoginBreaks(t) \/ LoadDashboard(t)
             \/ \E typed \in Passwords : SubmitLogin(t, typed)
             \/ \E e \in Endpoints : Press(t, e)
      PROVE  Keeps(t)
  <2>1. CASE Steps(t)
    BY <2>1, ServedKeeps, PageArrivesKeeps, LoggedInKeeps, SessionExpiredKeeps, RefusedKeeps,
       ArrivedKeeps DEF Steps
  <2>2. CASE \/ OpenPage(t) \/ OpenLink(t) \/ LoginBreaks(t)
             \/ \E typed \in Passwords : SubmitLogin(t, typed)
    BY <2>2, PageKeeps, SubmitLoginKeeps, LoginBreaksKeeps
  <2>3. CASE LoadDashboard(t) \/ \E e \in Endpoints : Press(t, e)
    BY <2>3, LoadDashboardKeeps, PressKeeps
  <2> QED BY <1>3, <2>1, <2>2, <2>3
<1>4. ASSUME NEW t \in Tabs, Keeps(t)
      PROVE  Shape' /\ (OffersHold /\ (\E u : Tabs = {u}) => OffersHold')
  BY <1>4 DEF Keeps
<1>5. CASE UNCHANGED accessVars
  <2>1. Shape'
    BY <1>5 DEF accessVars, Shape, Sound
  <2>2. OffersHold => OffersHold'
    BY <1>5 DEF accessVars, OffersHold, Holds, Grants
  <2> QED BY <2>1, <2>2
<1> QED BY <1>1, <1>2, <1>3, <1>4, <1>5 DEF AccessNext

(* Type correctness, for any number of tabs that share token and cookie. *)
THEOREM AccessTypeCorrect == AccessSpec => []AccessTypeOK
<1>1. Shape /\ [AccessNext]_accessVars => Shape'
  BY NextKeeps
<1>2. AccessInit => Shape
  BY InitIsFine
<1>3. Shape => AccessTypeOK
  <2> SUFFICES ASSUME Shape, NEW t \in Tabs
               PROVE  /\ tabs[t].at \in {"blank", "login", "page", "loading", "dashboard", "error"}
                      /\ tabs[t].guest \in BOOLEAN /\ tabs[t].said \in 0..faults
                      /\ tabs[t].call.at \in {"none", "sent", "answered"}
                      /\ tabs[t].at \in {"blank", "page", "error"} => tabs[t].call.at = "none"
                      /\ tabs[t].button => tabs[t].at \in {"loading", "dashboard", "error"}
    BY DEF Shape, AccessTypeOK
  <2> QED BY QuietFacts DEF Tab, Calls, Sound
<1> QED BY <1>1, <1>2, <1>3, PTL DEF AccessSpec

(* Guests are told no secret and change nothing, and who has the password  *)
(* is let in, whatever the password and the endpoint (auth.go).            *)
THEOREM AccessIsAlwaysRight == AccessSpec => []AccessIsRight
<1>1. Shape /\ [AccessNext]_accessVars => Shape'
  BY NextKeeps
<1>2. AccessInit => Shape
  BY InitIsFine
<1>3. Shape => AccessIsRight
  <2> SUFFICES ASSUME Shape, NEW e \in Endpoints
               PROVE  /\ Answer(e, password).as = "full" /\ Answer(e, password).code # 401
                      /\ \A tok \in Passwords \ {password} :
                           password # "" /\ Answer(e, tok).code < 300 =>
                             guestEnabled /\ e.method = "GET" /\ ~Answer(e, tok).secret
    BY DEF AccessIsRight
  <2>1. Answer(e, password).as = "full" /\ Answer(e, password).code # 401
    BY DEF Answer, Treated, Code, RestartCode
  <2>2. ASSUME NEW tok \in Passwords \ {password}, password # "", Answer(e, tok).code < 300
        PROVE  guestEnabled /\ e.method = "GET" /\ ~Answer(e, tok).secret
    <3>1. Answer(e, tok).as = Treated(e, tok) /\ Answer(e, tok).code = Code(e, Treated(e, tok))
      BY DEF Answer
    <3>2. Treated(e, tok) # "refused"
      <4> SUFFICES ASSUME Treated(e, tok) = "refused" PROVE FALSE
        OBVIOUS
      <4>1. Answer(e, tok).code = 401
        BY <3>1 DEF Code
      <4>2. ~(401 < 300)
        OBVIOUS
      <4> QED BY <2>2, <4>1, <4>2
    <3>3. Treated(e, tok) = "guest" /\ guestEnabled /\ GuestMay(e)
      BY <2>2, <3>2 DEF Treated
    <3>4. e.path \notin {"csv", "results"}
      <4> SUFFICES ASSUME e.path \in {"csv", "results"} PROVE FALSE
        OBVIOUS
      <4>1. Answer(e, tok).code = 401
        BY <3>1, <3>3 DEF Code
      <4>2. ~(401 < 300)
        OBVIOUS
      <4> QED BY <2>2, <4>1, <4>2
    <3>5. ~Secret(e, Treated(e, tok))
      BY <3>3, <3>4 DEF Secret
    <3> QED BY <3>3, <3>5 DEF Answer, GuestMay
  <2> QED BY <2>1, <2>2
<1> QED BY <1>1, <1>2, <1>3, PTL DEF AccessSpec

(* With one tab, a restart that the dashboard offers is granted until the  *)
(* server is restarted, or refused because it is on its way out, and for   *)
(* no other reason (handleUpdateRestart, requestRestart of main.go and     *)
(* loadDashboard of app.js).                                               *)
THEOREM OffersAreGranted ==
  ASSUME \E t : Tabs = {t}
  PROVE  AccessSpec => []OfferedRestartsAreGranted
<1> DEFINE I == Shape /\ OffersHold
<1>1. I /\ [AccessNext]_accessVars => I'
  BY NextKeeps
<1>2. AccessInit => I
  BY InitIsFine
<1>3. I => OfferedRestartsAreGranted
  <2> SUFFICES ASSUME OffersHold, NEW t \in Tabs, tabs[t].button, tabs[t].said = faults
               PROVE  Answer(On("restart", "POST"), token).code = IF closing THEN 503 ELSE 202
    BY DEF OfferedRestartsAreGranted
  <2>1. Grants
    BY DEF OffersHold, Holds
  <2>2. Treated(On("restart", "POST"), token) = "full"
    BY <2>1 DEF Grants, Treated
  <2>3. Code(On("restart", "POST"), "full") = IF closing THEN 503 ELSE 202
    BY <2>1 DEF Grants, Code, RestartCode, On
  <2> QED BY <2>2, <2>3 DEF Answer
<1> QED BY <1>1, <1>2, <1>3, PTL DEF AccessSpec
==============================================================================
