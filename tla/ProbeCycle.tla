----------------------------- MODULE ProbeCycle ------------------------------
(***************************************************************************)
(* Probe cycles (probeAll and probeOne of src/internal/probe/engine.go)    *)
(* over the store, while users edit the store.  Cycles overlap: the loop   *)
(* runs one, every manual trigger another.  A cycle reads the enabled      *)
(* probes once, starts one goroutine for each provider, and each goroutine *)
(* probes its models in order under a semaphore of the cycle.              *)
(***************************************************************************)
EXTENDS Store

CONSTANTS Cycles,            \* calls of probeAll
          ProbeConcurrency,  \* capacity of the semaphore
          Outcomes,          \* statuses that requests end with
          DbErrors,          \* whether an insert may fail for reasons of its own
          MaxEdits           \* bound on the statements of users

(* config.Load replaces a PROBE_CONCURRENCY below 1. *)
ASSUME ConcurrencyAssumption == ProbeConcurrency \in Nat \ {0}
ASSUME OutcomesAssumption == Outcomes \subseteq AllStatuses
ASSUME DbErrorsAssumption == DbErrors \in BOOLEAN
ASSUME EditsAssumption == MaxEdits \in Nat

VARIABLES cycle,    \* position of each probeAll
          todo,     \* rows of the snapshot that no goroutine has taken yet
          at,       \* position of the goroutine of each cycle and provider
          cur,      \* the row it is probing
          outcome,  \* the status of its result
          permits,  \* length of the semaphore channel
          edits     \* statements of users so far

cycles == <<cycle, todo, at, cur, outcome, permits>>
vars   == <<store, cycles, edits>>

NoRow == [probe |-> 0, provider |-> 0, model |-> 0]

TypeOK ==
  /\ StoreTypeOK
  /\ cycle \in [Cycles -> {"idle", "running", "over"}]
  /\ \A k \in Cycles : todo[k] \subseteq Asked
  /\ at \in [Cycles -> [ProviderIds -> {"semaphore", "request", "save", "release"}]]
  /\ cur \in [Cycles -> [ProviderIds -> Asked \cup {NoRow}]]
  /\ outcome \in [Cycles -> [ProviderIds -> Outcomes \cup {"none"}]]
  /\ permits \in [Cycles -> Nat]
  /\ edits \in 0..MaxEdits

Init ==
  /\ StoreInit
  /\ cycle = [k \in Cycles |-> "idle"]
  /\ todo = [k \in Cycles |-> {}]
  /\ at = [k \in Cycles |-> [p \in ProviderIds |-> "semaphore"]]
  /\ cur = [k \in Cycles |-> [p \in ProviderIds |-> NoRow]]
  /\ outcome = [k \in Cycles |-> [p \in ProviderIds |-> "none"]]
  /\ permits = [k \in Cycles |-> 0]
  /\ edits = 0

----------------------------------------------------------------------------
(* probeAll: the query and the spawning of the groups.  With a failed      *)
(* query or no row the call returns at once.                               *)
BeginCycle(k) ==
  /\ cycle[k] = "idle"
  /\ GetEnabledProbes # {}
  /\ cycle' = [cycle EXCEPT ![k] = "running"]
  /\ todo' = [todo EXCEPT ![k] = GetEnabledProbes]
  /\ UNCHANGED <<store, at, cur, outcome, permits, edits>>

SkipCycle(k) ==
  /\ cycle[k] = "idle"
  /\ GetEnabledProbes = {} \/ DbErrors
  /\ cycle' = [cycle EXCEPT ![k] = "over"]
  /\ UNCHANGED <<store, todo, at, cur, outcome, permits, edits>>

(* The rows a group has left, and the first of them: ORDER BY p.model. *)
Group(k, p)     == {row \in todo[k] : row.provider = p}
IsFirst(row, S) == row \in S /\ \A other \in S : row.model <= other.model

(* semaphore <- struct{}{} blocks while the channel is full. *)
SemaphoreFree_OneMore(k) == permits[k] <= ProbeConcurrency
SemaphoreFree(k) == permits[k] < ProbeConcurrency

Acquire(k, p) ==
  /\ at[k][p] = "semaphore"
  /\ SemaphoreFree(k)
  /\ \E row \in Group(k, p) :
       /\ IsFirst(row, Group(k, p))
       /\ cur' = [cur EXCEPT ![k][p] = row]
       /\ todo' = [todo EXCEPT ![k] = @ \ {row}]
  /\ permits' = [permits EXCEPT ![k] = @ + 1]
  /\ at' = [at EXCEPT ![k][p] = "request"]
  /\ UNCHANGED <<store, cycle, outcome, edits>>

(* The request ends with an answer, an error or the timeout.  An API type  *)
(* that probeOne does not know is not in the store: providers.api_type has *)
(* a CHECK of its own.                                                     *)
Respond(k, p) ==
  /\ at[k][p] = "request"
  /\ \E s \in Outcomes : outcome' = [outcome EXCEPT ![k][p] = s]
  /\ at' = [at EXCEPT ![k][p] = "save"]
  /\ UNCHANGED <<store, cycle, todo, cur, permits, edits>>

(* SaveResult; an error is logged and the result dropped. *)
Save(k, p) ==
  /\ at[k][p] = "save"
  /\ SaveResult(cur[k][p].probe, outcome[k][p], cur[k][p])
  /\ at' = [at EXCEPT ![k][p] = "release"]
  /\ UNCHANGED <<cycle, todo, cur, outcome, permits, edits>>

DropResult(k, p) ==
  /\ at[k][p] = "save"
  /\ DbErrors \/ ~Insertable(cur[k][p].probe, outcome[k][p])
  /\ at' = [at EXCEPT ![k][p] = "release"]
  /\ UNCHANGED <<store, cycle, todo, cur, outcome, permits, edits>>

(* <-semaphore, and on to the next row of the group. *)
Released_Forgotten(k) == permits[k]
Released(k) == permits[k] - 1

Release(k, p) ==
  /\ at[k][p] = "release"
  /\ permits' = [permits EXCEPT ![k] = Released(k)]
  /\ at' = [at EXCEPT ![k][p] = "semaphore"]
  /\ cur' = [cur EXCEPT ![k][p] = NoRow]
  /\ outcome' = [outcome EXCEPT ![k][p] = "none"]
  /\ UNCHANGED <<store, cycle, todo, edits>>

(* wg.Wait() returns when every group is through its rows. *)
GroupsDone_NotAwaited(k) == todo[k] = {}
GroupsDone(k) == todo[k] = {} /\ \A p \in ProviderIds : at[k][p] = "semaphore"

EndCycle(k) ==
  /\ cycle[k] = "running"
  /\ GroupsDone(k)
  /\ cycle' = [cycle EXCEPT ![k] = "over"]
  /\ UNCHANGED <<store, todo, at, cur, outcome, permits, edits>>

Edit ==
  /\ edits < MaxEdits
  /\ edits' = edits + 1
  /\ UserEdit
  /\ UNCHANGED cycles

GroupStep(k, p) == Acquire(k, p) \/ Respond(k, p) \/ Save(k, p) \/ DropResult(k, p) \/ Release(k, p)
CycleStep(k)    == BeginCycle(k) \/ SkipCycle(k) \/ EndCycle(k)

Next == \/ \E k \in Cycles : CycleStep(k)
        \/ \E k \in Cycles, p \in ProviderIds : GroupStep(k, p)
        \/ Edit

(* Goroutines are scheduled and a request has a timeout: a cycle that can   *)
(* go on does.  Nobody has to begin a cycle or to edit.                    *)
Fairness == \A k \in Cycles : WF_vars(EndCycle(k) \/ \E p \in ProviderIds : GroupStep(k, p))

Spec == Init /\ [][Next]_vars
FairSpec == Spec /\ Fairness

----------------------------------------------------------------------------
InFlight(k) == {p \in ProviderIds : at[k][p] # "semaphore"}

(* At most ProbeConcurrency requests of a cycle are in progress, and the   *)
(* semaphore accounts for them exactly: no permit leaks on any path.       *)
CycleConcurrency == \A k \in Cycles : /\ permits[k] = Cardinality(InFlight(k))
                                      /\ permits[k] <= ProbeConcurrency

(* A recorded result is about the very probe that was asked: a request     *)
(* that outlives its probe never shows up under another probe that was     *)
(* created meanwhile.                                                      *)
ResultsAreAboutTheirProbe ==
  \A r \in DOMAIN results :
    LET row == results[r] IN
      /\ row.asked.probe = row.probe
      /\ row.asked.provider = probes[row.probe].provider
      /\ row.asked.model = probes[row.probe].model

(* A deleted row never comes back under its id. *)
IdsAreNotReused ==
  [][/\ \A i \in 1..seq.providers : i \notin DOMAIN providers => i \notin DOMAIN providers'
     /\ \A i \in 1..seq.probes : i \notin DOMAIN probes => i \notin DOMAIN probes'
     /\ \A i \in 1..seq.results : i \notin DOMAIN results => i \notin DOMAIN results']_vars

(* When probeAll has returned nothing is written on its behalf any more: a *)
(* result is stored only for a row that a cycle which still runs is asking *)
(* about.  So results that were cleared after the last cycle stay cleared  *)
(* until the next one, and main may close the database.                    *)
RecordedWhileRunning ==
  [][\A r \in DOMAIN results' \ DOMAIN results :
       \E k \in Cycles, p \in ProviderIds :
         cycle[k] = "running" /\ cur[k][p] = results'[r].asked]_vars

(* The goroutine of a request that ended for a probe that still exists     *)
(* leaves a result with that status behind.                                *)
AnswersAreRecorded ==
  [][\A k \in Cycles, p \in ProviderIds :
       at[k][p] = "save" /\ at'[k][p] = "release" /\ cur[k][p].probe \in DOMAIN probes
       => \E r \in DOMAIN results' \ DOMAIN results :
            results'[r] = [probe |-> cur[k][p].probe, status |-> outcome[k][p],
                           asked |-> cur[k][p]]]_vars

----------------------------------------------------------------------------
(* The inductive invariant behind ResultsAreAboutTheirProbe. *)
RowsAreKnown ==
  \A k \in Cycles :
    /\ \A row \in todo[k] : KnownRow(row)
    /\ \A p \in ProviderIds : at[k][p] # "semaphore" => cur[k][p] \in Asked /\ KnownRow(cur[k][p])

ResultsAreKnown ==
  \A r \in DOMAIN results : /\ results[r].asked.probe = results[r].probe
                            /\ KnownRow(results[r].asked)

(* And the one behind RecordedWhileRunning: a goroutine that holds a permit *)
(* belongs to a cycle that runs, and so does a row that is left.           *)
OverIsOver == \A k \in Cycles : cycle[k] # "running" => todo[k] = {} /\ InFlight(k) = {}

CycleInv == TypeOK /\ IdsWithinSeq /\ ReferentialIntegrity /\ RowsAreKnown /\ ResultsAreKnown

----------------------------------------------------------------------------
(* README.md: PROBE_CONCURRENCY is the maximum of concurrent probes of a   *)
(* provider.                                                               *)
ProviderConcurrency ==
  \A p \in ProviderIds : Cardinality({k \in Cycles : at[k][p] # "semaphore"}) <= ProbeConcurrency

(* A cycle that began ends. *)
CyclesEnd == \A k \in Cycles : cycle[k] = "running" ~> cycle[k] = "over"
==============================================================================
