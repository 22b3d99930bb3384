-------------------------- MODULE ProbeCycle_proofs --------------------------
(***************************************************************************)
(* Probe cycles over the store, for any number of cycles, providers,       *)
(* probes and edits: referential integrity, no result under a probe it is  *)
(* not about, and exact accounting of the semaphore.                       *)
(***************************************************************************)
EXTENDS ProbeCycle, Store_proofs, FiniteSetTheorems

USE DEF NewResultId, SemaphoreFree, Released, GroupsDone

----------------------------------------------------------------------------
LEMMA RowsStayKnown ==
  ASSUME CycleInv, Schema', ProbesEvolve, UNCHANGED cycles
  PROVE  RowsAreKnown'
<1>0. Schema
  BY DEF CycleInv, TypeOK, Schema
<1>1. \A k \in Cycles : \A row \in todo[k] : row \in Asked
  BY DEF CycleInv, TypeOK
<1>2. \A k \in Cycles : \A row \in todo[k] : KnownRow(row)'
  BY <1>0, <1>1, KnownRowStays DEF CycleInv, RowsAreKnown
<1>3. \A k \in Cycles, p \in ProviderIds : at[k][p] # "semaphore" =>
         cur[k][p] \in Asked /\ KnownRow(cur[k][p])'
  <2> SUFFICES ASSUME NEW k \in Cycles, NEW p \in ProviderIds, at[k][p] # "semaphore"
               PROVE  cur[k][p] \in Asked /\ KnownRow(cur[k][p])'
    OBVIOUS
  <2>1. cur[k][p] \in Asked /\ KnownRow(cur[k][p])
    BY DEF CycleInv, RowsAreKnown
  <2> DEFINE row == cur[k][p]
  <2>2. cur'[k][p] = cur[k][p]
    BY DEF cycles
  <2>3. row.probe <= seq'.probes /\ (row.probe \in DOMAIN probes' =>
           probes'[row.probe].provider = row.provider /\ probes'[row.probe].model = row.model)
    <3>1. seq.probes \in Nat /\ seq'.probes \in Nat
      BY <1>0, BoundsAssumption DEF Schema, StoreTypeOK
    <3>2. row.probe \in Nat
      BY <2>1 DEF Asked, ProbeIds
    <3> QED BY <2>1, <3>1, <3>2 DEF ProbesEvolve, KnownRow
  <2> QED BY <2>1, <2>2, <2>3 DEF KnownRow
<1> QED BY <1>2, <1>3 DEF RowsAreKnown, cycles

LEMMA OldResultsStayKnown ==
  ASSUME CycleInv, Schema', ProbesEvolve, NEW r \in DOMAIN results
  PROVE  /\ results[r].asked \in Asked
         /\ results[r].asked.probe = results[r].probe
         /\ results[r].asked.probe <= seq'.probes
         /\ results[r].asked.probe \in DOMAIN probes' =>
              /\ probes'[results[r].asked.probe].provider = results[r].asked.provider
              /\ probes'[results[r].asked.probe].model = results[r].asked.model
<1>1. Schema /\ results[r] \in Result
  BY DEF CycleInv, TypeOK, Schema, StoreTypeOK
<1>2. results[r].asked \in Asked
  BY <1>1 DEF Result
<1>3. seq.probes \in Nat /\ seq'.probes \in Nat
  BY <1>1, BoundsAssumption DEF Schema, StoreTypeOK
<1>4. results[r].asked.probe \in Nat
  BY <1>2 DEF Asked, ProbeIds
<1>5. results[r].asked.probe = results[r].probe /\ KnownRow(results[r].asked)
  BY DEF CycleInv, ResultsAreKnown
<1> QED BY <1>2, <1>3, <1>4, <1>5 DEF ProbesEvolve, KnownRow

----------------------------------------------------------------------------
(* Every step keeps CycleInv. *)

LEMMA EditStep == CycleInv /\ Edit => CycleInv'
<1> SUFFICES ASSUME CycleInv, Edit PROVE CycleInv'
  OBVIOUS
<1>1. Schema
  BY DEF CycleInv, TypeOK, Schema
<1>2. Schema' /\ ProbesEvolve /\ OldResultsOnly
  BY <1>1, UserEditKeepsSchema, UserEditEvolves DEF Edit
<1>3. UNCHANGED cycles
  BY DEF Edit
<1>4. TypeOK'
  BY <1>2, <1>3, EditsAssumption DEF Edit, CycleInv, TypeOK, Schema, cycles
<1>5. RowsAreKnown'
  BY <1>2, <1>3, RowsStayKnown
<1>6. ResultsAreKnown'
  BY <1>2, OldResultsStayKnown DEF OldResultsOnly, ResultsAreKnown, KnownRow
<1> QED BY <1>2, <1>4, <1>5, <1>6 DEF CycleInv, Schema

(* The store does not change: what was known stays known. *)
LEMMA StoreUnchanged ==
  ASSUME CycleInv, UNCHANGED store
  PROVE  /\ StoreTypeOK' /\ IdsWithinSeq' /\ ReferentialIntegrity' /\ ResultsAreKnown'
         /\ \A row : KnownRow(row)' <=> KnownRow(row)
BY DEF store, CycleInv, TypeOK, StoreTypeOK, IdsWithinSeq, ReferentialIntegrity,
   ProbesHaveProvider, ResultsHaveProbe, ResultsAreKnown, KnownRow

LEMMA CycleStepKeeps == \A k \in Cycles : CycleInv /\ CycleStep(k) => CycleInv'
<1> SUFFICES ASSUME NEW k \in Cycles, CycleInv, CycleStep(k) PROVE CycleInv'
  OBVIOUS
<1>1. UNCHANGED <<store, at, cur, outcome, permits, edits>>
  BY DEF CycleStep, BeginCycle, SkipCycle, EndCycle
<1>2. Schema
  BY DEF CycleInv, TypeOK, Schema
<1>3. /\ StoreTypeOK' /\ IdsWithinSeq' /\ ReferentialIntegrity' /\ ResultsAreKnown'
      /\ \A row : KnownRow(row)' <=> KnownRow(row)
  BY <1>1, StoreUnchanged
<1>4. cycle' \in [Cycles -> {"idle", "running", "over"}]
  BY DEF CycleStep, BeginCycle, SkipCycle, EndCycle, CycleInv, TypeOK
<1>5. \A j \in Cycles : \A row \in todo'[j] : row \in Asked /\ KnownRow(row)
  <2>1. CASE BeginCycle(k)
    <3>1. \A j \in Cycles : todo'[j] = todo[j] \/ todo'[j] = GetEnabledProbes
      BY <2>1 DEF BeginCycle
    <3> QED BY <1>2, <3>1, SnapshotIsKnown DEF CycleInv, TypeOK, RowsAreKnown
  <2>2. CASE SkipCycle(k) \/ EndCycle(k)
    BY <2>2 DEF SkipCycle, EndCycle, CycleInv, TypeOK, RowsAreKnown
  <2> QED BY <2>1, <2>2 DEF CycleStep
<1>6. TypeOK'
  BY <1>1, <1>3, <1>4, <1>5 DEF CycleInv, TypeOK
<1>7. RowsAreKnown'
  BY <1>1, <1>3, <1>5 DEF CycleInv, RowsAreKnown
<1> QED BY <1>3, <1>6, <1>7 DEF CycleInv

(* A saved result is about the row that was asked. *)
LEMMA SaveStep ==
  ASSUME CycleInv, NEW k \in Cycles, NEW p \in ProviderIds, Save(k, p)
  PROVE  Schema' /\ ResultsAreKnown' /\ UNCHANGED <<providers, probes>> /\ seq'.probes = seq.probes
<1> DEFINE row == cur[k][p]
<1>1. row \in Asked /\ KnownRow(row)
  BY DEF CycleInv, RowsAreKnown, Save
<1>2. Schema
  BY DEF CycleInv, TypeOK, Schema
<1>3. SaveResult(row.probe, outcome[k][p], row)
  BY DEF Save
<1>4. Schema'
  <2> HIDE DEF row
  <2> QED BY <1>1, <1>2, <1>3, SaveResultKeepsSchema
<1>5. UNCHANGED <<providers, probes>> /\ seq'.probes = seq.probes
  BY <1>2, <1>3 DEF SaveResult, Schema, StoreTypeOK
<1>6. ResultsAreKnown'
  <2> DEFINE new == seq.results + 1
             res == [probe |-> row.probe, status |-> outcome[k][p], asked |-> row]
  <2>1. results' = With(results, new, res)
    BY <1>3 DEF SaveResult
  <2>2. res.asked.probe = res.probe /\ res.asked = row
    OBVIOUS
  <2>3. \A r \in DOMAIN results' : results'[r] = res \/ (r \in DOMAIN results /\ results'[r] = results[r])
    <3> HIDE DEF res, new
    <3> QED BY <2>1 DEF With
  <2>4. \A r \in DOMAIN results' : results'[r].asked.probe = results'[r].probe /\ KnownRow(results'[r].asked)
    <3> HIDE DEF res, row
    <3> QED BY <1>1, <2>2, <2>3 DEF CycleInv, ResultsAreKnown
  <2> QED BY <1>5, <2>4 DEF ResultsAreKnown, KnownRow
<1> QED BY <1>4, <1>5, <1>6

(* The program counters and locals of a group. *)
LEMMA GroupTypes ==
  ASSUME CycleInv, NEW k \in Cycles, NEW p \in ProviderIds, GroupStep(k, p)
  PROVE  /\ cycle' = cycle /\ edits' = edits
         /\ \A j \in Cycles : todo'[j] \subseteq todo[j]
         /\ at' \in [Cycles -> [ProviderIds -> {"semaphore", "request", "save", "release"}]]
         /\ cur' \in [Cycles -> [ProviderIds -> Asked \cup {NoRow}]]
         /\ outcome' \in [Cycles -> [ProviderIds -> Outcomes \cup {"none"}]]
         /\ \A j \in Cycles, q \in ProviderIds : at'[j][q] # "semaphore" =>
              \/ at[j][q] # "semaphore" /\ cur'[j][q] = cur[j][q]
              \/ cur'[j][q] \in todo[j]
<1> USE DEF CycleInv, TypeOK
<1>1. CASE Acquire(k, p)
  <2>1. PICK row \in Group(k, p) :
          /\ cur' = [cur EXCEPT ![k][p] = row]
          /\ todo' = [todo EXCEPT ![k] = @ \ {row}]
    BY <1>1 DEF Acquire
  <2>2. row \in todo[k] /\ row \in Asked
    BY <2>1 DEF Group
  <2>3. at' = [at EXCEPT ![k][p] = "request"]
    BY <1>1 DEF Acquire
  <2>4. cycle' = cycle /\ edits' = edits /\ outcome' = outcome
    BY <1>1 DEF Acquire
  <2>5. \A j \in Cycles : todo'[j] \subseteq todo[j]
    BY <2>1
  <2>6. cur' \in [Cycles -> [ProviderIds -> Asked \cup {NoRow}]]
    BY <2>1, <2>2
  <2>7. at' \in [Cycles -> [ProviderIds -> {"semaphore", "request", "save", "release"}]]
    BY <2>3
  <2>8. \A j \in Cycles, q \in ProviderIds : at'[j][q] # "semaphore" =>
          \/ at[j][q] # "semaphore" /\ cur'[j][q] = cur[j][q]
          \/ cur'[j][q] \in todo[j]
    BY <2>1, <2>2, <2>3
  <2> QED BY <2>4, <2>5, <2>6, <2>7, <2>8
<1>2. CASE Respond(k, p)
  BY <1>2 DEF Respond
<1>3. CASE Save(k, p) \/ DropResult(k, p)
  <2>1. /\ at[k][p] = "save" /\ at' = [at EXCEPT ![k][p] = "release"]
        /\ UNCHANGED <<cycle, todo, cur, outcome, edits>>
    BY <1>3 DEF Save, DropResult
  <2>2. at' \in [Cycles -> [ProviderIds -> {"semaphore", "request", "save", "release"}]]
    BY <2>1
  <2>3. \A j \in Cycles, q \in ProviderIds : at'[j][q] # "semaphore" => at[j][q] # "semaphore"
    BY <2>1
  <2> QED BY <2>1, <2>2, <2>3
<1>4. CASE Release(k, p)
  <2>1. /\ at' = [at EXCEPT ![k][p] = "semaphore"]
        /\ cur' = [cur EXCEPT ![k][p] = NoRow]
        /\ outcome' = [outcome EXCEPT ![k][p] = "none"]
        /\ cycle' = cycle /\ edits' = edits /\ todo' = todo
    BY <1>4 DEF Release
  <2>2. /\ cur' \in [Cycles -> [ProviderIds -> Asked \cup {NoRow}]]
        /\ outcome' \in [Cycles -> [ProviderIds -> Outcomes \cup {"none"}]]
    BY <2>1
  <2>3. at' \in [Cycles -> [ProviderIds -> {"semaphore", "request", "save", "release"}]]
    BY <2>1
  <2>4. \A j \in Cycles, q \in ProviderIds : at'[j][q] # "semaphore" =>
          at[j][q] # "semaphore" /\ cur'[j][q] = cur[j][q]
    BY <2>1
  <2> QED BY <2>1, <2>2, <2>3, <2>4
<1> QED BY <1>1, <1>2, <1>3, <1>4 DEF GroupStep

(* The semaphore counts the goroutines that are past it. *)

LEMMA InFlightIsFinite ==
  \A k \in Cycles : IsFiniteSet(InFlight(k)) /\ Cardinality(InFlight(k)) \in Nat
<1>1. IsFiniteSet(ProviderIds)
  BY BoundsAssumption, FS_Interval DEF ProviderIds
<1>2. \A k \in Cycles : InFlight(k) \subseteq ProviderIds
  BY DEF InFlight
<1> QED BY <1>1, <1>2, FS_Subset, FS_CardinalityType

LEMMA GroupPermits ==
  ASSUME CycleInv, CycleConcurrency, NEW k \in Cycles, NEW p \in ProviderIds, GroupStep(k, p)
  PROVE  permits' \in [Cycles -> Nat] /\ CycleConcurrency'
<1> USE DEF CycleInv, TypeOK
<1>1. CASE Acquire(k, p)
  <2>1. p \notin InFlight(k) /\ InFlight(k)' = InFlight(k) \cup {p}
    BY <1>1 DEF Acquire, InFlight
  <2>2. \A j \in Cycles \ {k} : InFlight(j)' = InFlight(j)
    BY <1>1 DEF Acquire, InFlight
  <2>3. Cardinality(InFlight(k)') = Cardinality(InFlight(k)) + 1
    BY <2>1, InFlightIsFinite, FS_AddElement
  <2>4. permits' = [permits EXCEPT ![k] = @ + 1] /\ permits[k] < ProbeConcurrency
    BY <1>1 DEF Acquire
  <2> QED BY <2>2, <2>3, <2>4, ConcurrencyAssumption DEF CycleConcurrency
<1>2. CASE Release(k, p)
  <2>1. p \in InFlight(k) /\ InFlight(k)' = InFlight(k) \ {p}
    BY <1>2 DEF Release, InFlight
  <2>2. \A j \in Cycles \ {k} : InFlight(j)' = InFlight(j)
    BY <1>2 DEF Release, InFlight
  <2>3. /\ IsFiniteSet(InFlight(k)')
        /\ Cardinality(InFlight(k)') = Cardinality(InFlight(k)) - 1
    BY <2>1, InFlightIsFinite, FS_RemoveElement
  <2>4. Cardinality(InFlight(k)') \in Nat
    BY <2>3, FS_CardinalityType
  <2>5. permits' = [permits EXCEPT ![k] = @ - 1]
    BY <1>2 DEF Release
  <2> QED BY <2>2, <2>3, <2>4, <2>5, ConcurrencyAssumption DEF CycleConcurrency
<1>3. CASE Respond(k, p) \/ Save(k, p) \/ DropResult(k, p)
  <2>1. \A j \in Cycles, q \in ProviderIds :
           at'[j][q] # "semaphore" <=> at[j][q] # "semaphore"
    <3>1. \E x \in {"save", "release"} :
             at[k][p] # "semaphore" /\ at' = [at EXCEPT ![k][p] = x]
      BY <1>3 DEF Respond, Save, DropResult
    <3>2. at \in [Cycles -> [ProviderIds -> {"semaphore", "request", "save", "release"}]]
      OBVIOUS
    <3> QED BY <3>1, <3>2
  <2>a. \A j \in Cycles : InFlight(j)' = InFlight(j)
    BY <2>1 DEF InFlight
  <2>2. permits' = permits
    BY <1>3 DEF Respond, Save, DropResult
  <2> QED BY <2>a, <2>2 DEF CycleConcurrency
<1> QED BY <1>1, <1>2, <1>3 DEF GroupStep

LEMMA GroupStepKeeps ==
  ASSUME CycleInv, CycleConcurrency, NEW k \in Cycles, NEW p \in ProviderIds, GroupStep(k, p)
  PROVE  CycleInv' /\ CycleConcurrency'
<1>1. permits' \in [Cycles -> Nat] /\ CycleConcurrency'
  BY GroupPermits
<1>2. /\ Schema' /\ ResultsAreKnown'
      /\ UNCHANGED <<providers, probes>> /\ seq'.probes = seq.probes
  <2>1. CASE Save(k, p)
    BY <2>1, SaveStep
  <2>2. CASE ~Save(k, p)
    <3>1. UNCHANGED store
      BY <2>2 DEF GroupStep, Acquire, Respond, DropResult, Release
    <3> QED BY <3>1, StoreUnchanged DEF Schema, store
  <2> QED BY <2>1, <2>2
<1>3. \A row : KnownRow(row)' <=> KnownRow(row)
  BY <1>2 DEF KnownRow
<1>4. TypeOK'
  BY <1>1, <1>2, GroupTypes DEF TypeOK, Schema, CycleInv
<1>5. RowsAreKnown'
  <2> SUFFICES ASSUME NEW j \in Cycles
               PROVE  /\ \A row \in todo'[j] : KnownRow(row)
                      /\ \A q \in ProviderIds : at'[j][q] # "semaphore" =>
                           cur'[j][q] \in Asked /\ KnownRow(cur'[j][q])
    BY <1>3 DEF RowsAreKnown
  <2>1. todo'[j] \subseteq todo[j] /\ todo[j] \subseteq Asked
    BY GroupTypes DEF CycleInv, TypeOK
  <2>2. \A row \in todo[j] : KnownRow(row)
    BY DEF CycleInv, RowsAreKnown
  <2>3. \A q \in ProviderIds : at'[j][q] # "semaphore" =>
           (cur'[j][q] \in todo[j] \/ (at[j][q] # "semaphore" /\ cur'[j][q] = cur[j][q]))
    BY GroupTypes
  <2>4. \A q \in ProviderIds : at[j][q] # "semaphore" => cur[j][q] \in Asked /\ KnownRow(cur[j][q])
    BY DEF CycleInv, RowsAreKnown
  <2> QED BY <2>1, <2>2, <2>3, <2>4
<1> QED BY <1>1, <1>2, <1>4, <1>5 DEF CycleInv, Schema

----------------------------------------------------------------------------
LEMMA InitCycle == Init => CycleInv /\ CycleConcurrency
<1> SUFFICES ASSUME Init PROVE CycleInv /\ CycleConcurrency
  OBVIOUS
<1>1. Schema
  BY StoreInitIsFine DEF Init
<1>2. ResultsAreKnown
  BY DEF Init, StoreInit, ResultsAreKnown
<1>3. \A k \in Cycles : InFlight(k) = {}
  BY DEF Init, InFlight
<1>4. CycleConcurrency
  <2>1. \A k \in Cycles : Cardinality(InFlight(k)) = 0
    BY <1>3, FS_EmptySet
  <2>2. \A k \in Cycles : permits[k] = 0
    BY DEF Init
  <2> QED BY <2>1, <2>2, ConcurrencyAssumption DEF CycleConcurrency
<1>5. TypeOK
  BY <1>1, EditsAssumption DEF Init, TypeOK, Schema
<1>6. RowsAreKnown
  BY DEF Init, RowsAreKnown
<1> QED BY <1>1, <1>2, <1>4, <1>5, <1>6 DEF CycleInv, Schema

LEMMA StepCycle == CycleInv /\ CycleConcurrency /\ [Next]_vars => CycleInv' /\ CycleConcurrency'
<1> SUFFICES ASSUME CycleInv, CycleConcurrency, [Next]_vars PROVE CycleInv' /\ CycleConcurrency'
  OBVIOUS
<1>1. ASSUME NEW k \in Cycles, CycleStep(k)
      PROVE  CycleInv' /\ CycleConcurrency'
  <2>1. UNCHANGED <<at, permits>>
    BY <1>1 DEF CycleStep, BeginCycle, SkipCycle, EndCycle
  <2> QED BY <1>1, <2>1, CycleStepKeeps DEF CycleConcurrency, InFlight
<1>2. ASSUME NEW k \in Cycles, NEW p \in ProviderIds, GroupStep(k, p)
      PROVE  CycleInv' /\ CycleConcurrency'
  BY <1>2, GroupStepKeeps
<1>3. CASE Edit
  <2>1. UNCHANGED <<at, permits>>
    BY <1>3 DEF Edit, cycles
  <2> QED BY <1>3, <2>1, EditStep DEF CycleConcurrency, InFlight
<1>4. CASE UNCHANGED vars
  <2>1. UNCHANGED store
    BY <1>4 DEF vars
  <2>2. /\ StoreTypeOK' /\ IdsWithinSeq' /\ ReferentialIntegrity' /\ ResultsAreKnown'
        /\ \A row : KnownRow(row)' <=> KnownRow(row)
    BY <2>1, StoreUnchanged
  <2>3. TypeOK' /\ RowsAreKnown' /\ CycleConcurrency'
    BY <1>4, <2>2 DEF vars, cycles, CycleInv, TypeOK, RowsAreKnown, CycleConcurrency, InFlight
  <2> QED BY <2>2, <2>3 DEF CycleInv
<1> QED BY <1>1, <1>2, <1>3, <1>4 DEF Next

THEOREM CycleInvariant == Spec => [](CycleInv /\ CycleConcurrency)
BY InitCycle, StepCycle, PTL DEF Spec

(* Every variable keeps its type, in every interleaving of cycles and      *)
(* edits.                                                                  *)
THEOREM CycleTypeCorrect == Spec => []TypeOK
<1>1. CycleInv => TypeOK
  BY DEF CycleInv
<1> QED BY <1>1, CycleInvariant, PTL

(* No result without its probe, no probe without its provider, although    *)
(* requests outlive deletes and SaveResult is called without a check.      *)
THEOREM NoOrphans == Spec => []ReferentialIntegrity
<1>1. CycleInv => ReferentialIntegrity
  BY DEF CycleInv
<1> QED BY <1>1, CycleInvariant, PTL

(* A cycle never exceeds its semaphore, which accounts for its requests.   *)
THEOREM ConcurrencyBounded == Spec => []CycleConcurrency
BY CycleInvariant, PTL

(* A recorded result is about the provider and the model that were asked,  *)
(* whatever was deleted and created while the request was in progress.     *)
THEOREM NoMisattribution == Spec => []ResultsAreAboutTheirProbe
<1>1. CycleInv => ResultsAreAboutTheirProbe
  BY DEF CycleInv, ReferentialIntegrity, ResultsHaveProbe, ResultsAreKnown, KnownRow,
     ResultsAreAboutTheirProbe
<1> QED BY <1>1, CycleInvariant, PTL

----------------------------------------------------------------------------
(* A goroutine that holds a permit belongs to a cycle that runs, and so    *)
(* does a row that nobody has taken yet.                                   *)

LEMMA BeginsAndEnds ==
  ASSUME TypeOK, OverIsOver, NEW k \in Cycles, CycleStep(k)
  PROVE  OverIsOver'
<1>1. \A j \in Cycles : InFlight(j)' = InFlight(j)
  BY DEF CycleStep, BeginCycle, SkipCycle, EndCycle, InFlight
<1>2. CASE BeginCycle(k)
  <2>1. \A j \in Cycles : cycle'[j] # "running" => cycle[j] # "running" /\ todo'[j] = todo[j]
    BY <1>2 DEF BeginCycle, TypeOK
  <2> QED BY <1>1, <2>1 DEF OverIsOver
<1>3. CASE SkipCycle(k)
  BY <1>1, <1>3 DEF SkipCycle, OverIsOver, TypeOK
<1>4. CASE EndCycle(k)
  <2>1. todo[k] = {} /\ InFlight(k) = {} /\ todo' = todo
    BY <1>4 DEF EndCycle, InFlight
  <2>2. \A j \in Cycles \ {k} : cycle'[j] = cycle[j]
    BY <1>4 DEF EndCycle, TypeOK
  <2> QED BY <1>1, <2>1, <2>2 DEF OverIsOver
<1> QED BY <1>2, <1>3, <1>4 DEF CycleStep

LEMMA OnlyRunningCyclesWork ==
  ASSUME CycleInv, OverIsOver, NEW k \in Cycles, NEW p \in ProviderIds, GroupStep(k, p)
  PROVE  OverIsOver'
<1>1. todo[k] # {} \/ InFlight(k) # {}
  BY DEF GroupStep, Acquire, Group, Respond, Save, DropResult, Release, InFlight
<1>2. cycle[k] = "running" /\ cycle' = cycle
  BY <1>1, GroupTypes DEF OverIsOver
<1>3. \A j \in Cycles \ {k} : todo'[j] \subseteq todo[j] /\ InFlight(j)' = InFlight(j)
  <2>1. \A j \in Cycles \ {k} : todo'[j] \subseteq todo[j]
    BY GroupTypes
  <2>2. \E x \in {"semaphore", "request", "save", "release"} : at' = [at EXCEPT ![k][p] = x]
    BY DEF GroupStep, Acquire, Respond, Save, DropResult, Release
  <2>3. \A j \in Cycles \ {k}, q \in ProviderIds : at'[j][q] = at[j][q]
    BY <2>2 DEF CycleInv, TypeOK
  <2> QED BY <2>1, <2>3 DEF InFlight
<1> QED BY <1>2, <1>3 DEF OverIsOver

(* wg.Wait() comes after the last goroutine, in every interleaving of      *)
(* cycles.                                                                 *)
THEOREM WaitsForAll == Spec => []OverIsOver
<1>1. Init => OverIsOver
  BY DEF Init, OverIsOver, InFlight
<1>2. CycleInv /\ OverIsOver /\ [Next]_vars => OverIsOver'
  <2> SUFFICES ASSUME CycleInv, OverIsOver, [Next]_vars PROVE OverIsOver'
    OBVIOUS
  <2>1. ASSUME NEW k \in Cycles, CycleStep(k) PROVE OverIsOver'
    BY <2>1, BeginsAndEnds DEF CycleInv
  <2>2. ASSUME NEW k \in Cycles, NEW p \in ProviderIds, GroupStep(k, p) PROVE OverIsOver'
    BY <2>2, OnlyRunningCyclesWork
  <2>3. CASE Edit \/ UNCHANGED vars
    <3>1. UNCHANGED <<cycle, todo, at>>
      BY <2>3 DEF Edit, cycles, vars
    <3> QED BY <3>1 DEF OverIsOver, InFlight
  <2> QED BY <2>1, <2>2, <2>3 DEF Next
<1> QED BY <1>1, <1>2, CycleInvariant, PTL DEF Spec

(* A step stores a result only for a goroutine of a cycle that runs. *)
LEMMA OnlyRunningCyclesRecord ==
  ASSUME CycleInv, OverIsOver, [Next]_vars, NEW r \in DOMAIN results' \ DOMAIN results
  PROVE  \E k \in Cycles, p \in ProviderIds :
           cycle[k] = "running" /\ cur[k][p] = results'[r].asked
<1>1. CASE Edit
  <2>1. Schema
    BY DEF CycleInv, TypeOK, Schema
  <2>2. OldResultsOnly
    BY <1>1, <2>1, UserEditEvolves DEF Edit
  <2> QED BY <2>2 DEF OldResultsOnly
<1>2. ASSUME NEW k \in Cycles, NEW p \in ProviderIds, Save(k, p)
      PROVE  cycle[k] = "running" /\ cur[k][p] = results'[r].asked
  <2>1. cycle[k] = "running"
    BY <1>2 DEF Save, OverIsOver, InFlight
  <2>2. results' = With(results, seq.results + 1,
                        [probe |-> cur[k][p].probe, status |-> outcome[k][p], asked |-> cur[k][p]])
    BY <1>2 DEF Save, SaveResult
  <2>3. results'[r] = [probe |-> cur[k][p].probe, status |-> outcome[k][p], asked |-> cur[k][p]]
    BY <2>2 DEF With
  <2> QED BY <2>1, <2>3
<1>3. CASE UNCHANGED results
  BY <1>3
<1>4. \/ Edit \/ UNCHANGED results
      \/ \E k \in Cycles, p \in ProviderIds : Save(k, p)
  BY DEF Next, CycleStep, BeginCycle, SkipCycle, EndCycle, GroupStep, Acquire, Respond,
     DropResult, Release, store, vars
<1> QED BY <1>1, <1>2, <1>3, <1>4

(* When probeAll has returned, none of its goroutines writes any more: a   *)
(* result is stored only for a row that a running cycle asks about.        *)
THEOREM NothingAfterACycle == Spec => RecordedWhileRunning
<1> DEFINE A ==
      \A r \in DOMAIN results' \ DOMAIN results :
        \E k \in Cycles, p \in ProviderIds :
          cycle[k] = "running" /\ cur[k][p] = results'[r].asked
<1>1. CycleInv /\ OverIsOver /\ [Next]_vars => [A]_vars
  BY OnlyRunningCyclesRecord
<1> QED BY <1>1, CycleInvariant, WaitsForAll, PTL DEF Spec, RecordedWhileRunning

----------------------------------------------------------------------------
(* A step that is no edit changes the store only by SaveResult. *)
LEMMA CyclesOnlySave ==
  ASSUME CycleInv, [Next]_vars, ~Edit
  PROVE  \/ UNCHANGED store
         \/ \E k \in Cycles, p \in ProviderIds :
              SaveResult(cur[k][p].probe, outcome[k][p], cur[k][p])
BY DEF Next, CycleStep, BeginCycle, SkipCycle, EndCycle, GroupStep, Acquire, Respond, Save,
   DropResult, Release, vars

(* No sequence of creations, renamings and deletions makes two providers   *)
(* of a name, or two probes of a provider and a model.                     *)
THEOREM RowsStayUnique == Spec => []UniqueRows
<1>1. Init => UniqueRows
  BY StoreInitIsFine DEF Init
<1>2. CycleInv /\ UniqueRows /\ [Next]_vars => UniqueRows'
  <2> SUFFICES ASSUME CycleInv, UniqueRows, [Next]_vars PROVE UniqueRows'
    OBVIOUS
  <2>1. CASE Edit
    BY <2>1, UserEditKeepsUnique DEF Edit, CycleInv, TypeOK, Schema
  <2>2. CASE ~Edit
    <3>1. UNCHANGED <<providers, probes>>
      BY <2>2, CyclesOnlySave DEF store, SaveResult
    <3> QED BY <3>1 DEF UniqueRows, Row
  <2> QED BY <2>1, <2>2
<1> QED BY <1>1, <1>2, CycleInvariant, PTL DEF Spec

(* AUTOINCREMENT: an id that was given out and whose row is gone never     *)
(* comes back, whoever creates and deletes what.                           *)
THEOREM IdsAreNeverReused == Spec => IdsAreNotReused
<1> DEFINE A ==
      /\ \A i \in 1..seq.providers : i \notin DOMAIN providers => i \notin DOMAIN providers'
      /\ \A i \in 1..seq.probes : i \notin DOMAIN probes => i \notin DOMAIN probes'
      /\ \A i \in 1..seq.results : i \notin DOMAIN results => i \notin DOMAIN results'
<1>1. CycleInv /\ [Next]_vars => [A]_vars
  <2> SUFFICES ASSUME CycleInv, [Next]_vars PROVE NoReuse
    BY Zenon DEF NoReuse
  <2>0. Schema
    BY DEF CycleInv, TypeOK, Schema
  <2>1. CASE Edit
    BY <2>0, <2>1, UserEditReusesNoId DEF Edit
  <2>2. CASE ~Edit
    <3>1. CASE UNCHANGED store
      BY <3>1 DEF store, NoReuse
    <3>2. ASSUME NEW k \in Cycles, NEW p \in ProviderIds,
                 SaveResult(cur[k][p].probe, outcome[k][p], cur[k][p])
          PROVE  NoReuse
      BY <2>0, <3>2, SaveResultReusesNoId
    <3> QED BY <2>2, <3>1, <3>2, CyclesOnlySave
  <2> QED BY <2>1, <2>2
<1> QED BY <1>1, CycleInvariant, PTL DEF Spec, IdsAreNotReused
==============================================================================
