------------------------------ MODULE WebServer ------------------------------
(***************************************************************************)
(* Lifecycle of the web server, src/internal/web/server.go, over the       *)
(* standard library's http.Server.  Every successful Start makes an        *)
(* http.Server (a generation) with a listener of its own and a goroutine   *)
(* that serves it.  Start holds s.mu from beginning to end, net.Listen     *)
(* included, so it is one step; a Start that fails changes nothing.  Stop  *)
(* works outside the mutex for up to five seconds.                         *)
(***************************************************************************)
EXTENDS Integers

CONSTANTS WebCallers,  \* goroutines that call Start and Stop
          Requests,    \* requests that may be in progress at once
          MaxServers   \* bound: successful calls of Start

ASSUME MaxServersAssumption == MaxServers \in Nat

Servers == 1..MaxServers
NoServer == 0

VARIABLES webRunning, webStopping,   \* flags of Server
          server,                    \* s.server: the last generation, NoServer when nil
          started,                   \* generations made so far
          webStopDone, stopsClosed,  \* s.stopDone and the channels closed; the channel of
                                     \* the Stop of generation g is g
          at,                        \* position of each caller
          mine,                      \* its locals httpServer and stopDone
          serving,                   \* goroutine of httpServer.Serve
          shutdown,                  \* generations whose Shutdown has begun
          conn,                      \* generation a request in progress arrived at
          cut                        \* requests whose connection Close cut off

webFlags == <<webRunning, webStopping, server, started, webStopDone, stopsClosed>>
webCalls == <<at, mine>>
web      == <<webFlags, webCalls, serving, shutdown, conn, cut>>

WebTypeOK ==
  /\ webRunning \in BOOLEAN /\ webStopping \in BOOLEAN
  /\ server \in 0..MaxServers /\ started \in 0..MaxServers
  /\ webStopDone \in 0..MaxServers /\ stopsClosed \subseteq Servers
  /\ at \in [WebCallers -> {"idle", "shutdown", "drain", "finish", "join"}]
  /\ mine \in [WebCallers -> 0..MaxServers]
  /\ serving \in [Servers -> {"none", "pending", "accepting", "over", "refused"}]
  /\ shutdown \subseteq Servers
  /\ conn \in [Requests -> 0..MaxServers]
  /\ cut \subseteq Requests

WebInit ==
  /\ webRunning = FALSE /\ webStopping = FALSE
  /\ server = NoServer /\ started = 0 /\ webStopDone = NoServer /\ stopsClosed = {}
  /\ at = [c \in WebCallers |-> "idle"]
  /\ mine = [c \in WebCallers |-> NoServer]
  /\ serving = [g \in Servers |-> "none"]
  /\ shutdown = {}
  /\ conn = [r \in Requests |-> NoServer]
  /\ cut = {}

(* Serve closes its listener when it returns; a listener whose Serve has   *)
(* not begun is unknown to Shutdown and stays open until Serve begins.     *)
Listening(g) == serving[g] = "pending" \/ (serving[g] = "accepting" /\ g \notin shutdown)
PortFree     == \A g \in Servers : ~Listening(g)
InProgress(g) == {r \in Requests : conn[r] = g}

----------------------------------------------------------------------------
MayStartWeb == ~webRunning /\ ~webStopping

StartWeb(c) ==
  /\ at[c] = "idle"
  /\ MayStartWeb
  /\ PortFree
  /\ started < MaxServers
  /\ webRunning' = TRUE
  /\ started' = started + 1
  /\ server' = started + 1
  /\ serving' = [serving EXCEPT ![started + 1] = "pending"]
  /\ UNCHANGED <<webStopping, webStopDone, stopsClosed, webCalls, shutdown, conn, cut>>

(* The goroutine's Serve returns at once when Shutdown came first. *)
Serve(g) ==
  /\ serving[g] = "pending"
  /\ serving' = [serving EXCEPT ![g] = IF g \in shutdown THEN "refused" ELSE "accepting"]
  /\ UNCHANGED <<webFlags, webCalls, shutdown, conn, cut>>

(* Serve returns after a Shutdown, or with an error that is only logged.   *)
ServeReturns(g) ==
  /\ serving[g] = "accepting"
  /\ serving' = [serving EXCEPT ![g] = "over"]
  /\ UNCHANGED <<webFlags, webCalls, shutdown, conn, cut>>

LocalStopDone == server

StopWeb(c) ==
  /\ at[c] = "idle"
  /\ webRunning /\ ~webStopping
  /\ webRunning' = FALSE /\ webStopping' = TRUE
  /\ webStopDone' = server
  /\ mine' = [mine EXCEPT ![c] = LocalStopDone]
  /\ at' = [at EXCEPT ![c] = "shutdown"]
  /\ UNCHANGED <<server, started, stopsClosed, serving, shutdown, conn, cut>>

JoinStopWeb(c) ==
  /\ at[c] = "idle"
  /\ webStopping
  /\ mine' = [mine EXCEPT ![c] = webStopDone]
  /\ at' = [at EXCEPT ![c] = "join"]
  /\ UNCHANGED <<webFlags, serving, shutdown, conn, cut>>

StopWebJoined(c) ==
  /\ at[c] = "join"
  /\ mine[c] \in stopsClosed
  /\ at' = [at EXCEPT ![c] = "idle"]
  /\ UNCHANGED <<webFlags, mine, serving, shutdown, conn, cut>>

(* httpServer.Shutdown: no new connections, then wait for the requests in  *)
(* progress for at most five seconds; Close cuts off the others, whose     *)
(* handlers go on without a client.                                        *)
(* A name with an underscore is a slip that the checks must notice: the     *)
(* definition after it with a plausible mistake.                           *)
ShutDown_Forgotten(c) == shutdown
ShutDown(c) == shutdown \cup {mine[c]}

CutOff(c) == cut \cup InProgress(mine[c])

ShutdownBegins(c) ==
  /\ at[c] = "shutdown"
  /\ shutdown' = ShutDown(c)
  /\ at' = [at EXCEPT ![c] = "drain"]
  /\ UNCHANGED <<webFlags, mine, serving, conn, cut>>

ShutdownEnds(c) ==
  /\ at[c] = "drain"
  /\ cut' = CutOff(c)
  /\ at' = [at EXCEPT ![c] = "finish"]
  /\ UNCHANGED <<webFlags, mine, serving, shutdown, conn>>

StopDoneClosed(c) == stopsClosed \cup {mine[c]}

StopWebFinish(c) ==
  /\ at[c] = "finish"
  /\ webStopping' = FALSE
  /\ webStopDone' = NoServer /\ server' = NoServer
  /\ stopsClosed' = StopDoneClosed(c)
  /\ at' = [at EXCEPT ![c] = "idle"]
  /\ UNCHANGED <<webRunning, started, mine, serving, shutdown, conn, cut>>

----------------------------------------------------------------------------
(* A request arrives on a connection that the server accepted, and its     *)
(* handler ends.  Shutdown closes the idle connections, but a new one may  *)
(* still send its request while it waits, and none survives Close.         *)
Draining(g) == \E c \in WebCallers : at[c] = "drain" /\ mine[c] = g

RequestBegins(r, g) ==
  /\ conn[r] = NoServer
  /\ serving[g] \in {"accepting", "over"}
  /\ g \notin shutdown \/ Draining(g)
  /\ conn' = [conn EXCEPT ![r] = g]
  /\ UNCHANGED <<webFlags, webCalls, serving, shutdown, cut>>

RequestEnds(r) ==
  /\ conn[r] # NoServer
  /\ conn' = [conn EXCEPT ![r] = NoServer]
  /\ cut' = cut \ {r}
  /\ UNCHANGED <<webFlags, webCalls, serving, shutdown>>

StopSteps(c)  == ShutdownBegins(c) \/ ShutdownEnds(c) \/ StopWebFinish(c) \/ StopWebJoined(c)
ServeSteps(g) == Serve(g) \/ ServeReturns(g)

Next == \/ \E c \in WebCallers : StartWeb(c) \/ StopWeb(c) \/ JoinStopWeb(c) \/ StopSteps(c)
        \/ \E g \in Servers : ServeSteps(g)
        \/ \E r \in Requests : RequestEnds(r) \/ \E g \in Servers : RequestBegins(r, g)

(* The goroutines run and Shutdown has a timeout; a handler need not end.  *)
WebFairness == /\ \A c \in WebCallers : WF_web(StopSteps(c))
               /\ \A g \in Servers : WF_web(Serve(g))

Spec     == WebInit /\ [][Next]_web
FairSpec == Spec /\ WebFairness

----------------------------------------------------------------------------
(* Once a Stop has returned nobody is served any more: the only requests   *)
(* still in progress are those that Close cut off.                         *)
StoppedServesNobody ==
  ~webRunning /\ ~webStopping => \A r \in Requests : conn[r] # NoServer => r \in cut

(* Shutdown is called on the server of the last Start, exactly once, and   *)
(* stopDone is closed once.                                                *)
OneShutdown ==
  /\ webRunning => server # NoServer /\ server \notin shutdown /\ server \notin stopsClosed
  /\ \A c \in WebCallers : at[c] = "finish" => mine[c] \notin stopsClosed

(* Every call of Stop returns although handlers may never end. *)
WebStopReturns == \A c \in WebCallers : at[c] # "idle" ~> at[c] = "idle"

(* A stopped server gives its port back, even when Stop overtook Serve. *)
PortIsFreed == ~webRunning ~> PortFree \/ webRunning
==============================================================================
