-------------------------------- MODULE Store --------------------------------
(***************************************************************************)
(* The SQLite store, src/internal/store: three tables and the statements   *)
(* that change them.  Each method is one SQL statement, hence atomic; a    *)
(* statement that breaks a constraint of the schema returns an error and   *)
(* changes nothing, so it is not a step here.  A table is a function from  *)
(* the row ids in use to rows.  Ids are AUTOINCREMENT: seq remembers the   *)
(* last one given out, and a deleted id is never given out again.          *)
(*                                                                         *)
(* Names and model names are the numbers of their alphabetical order.  A   *)
(* result remembers in "asked" which snapshot of a probe was sent to the   *)
(* provider: a history field, for the properties only.                     *)
(***************************************************************************)
EXTENDS Integers, FiniteSets, Functions

CONSTANTS Names,         \* provider names, a set of integers
          Models,        \* model names, a set of integers
          MaxProviders, MaxProbes, MaxResults,  \* bounds on the ids given out
          InitProviders, InitProbes, InitSeq    \* the database found at start

ProviderIds == 1..MaxProviders
ProbeIds    == 1..MaxProbes
ResultIds   == 1..MaxResults

(* The CHECK constraint of results.status, and the statuses model.go has. *)
CheckedStatuses == {"success", "error", "timeout", "empty_response", "empty_content"}
AllStatuses     == CheckedStatuses \cup {"soft_fail"}

Provider == [name : Names, enabled : BOOLEAN]
Probe    == [provider : ProviderIds, model : Models, enabled : BOOLEAN]
Asked    == [probe : ProbeIds, provider : ProviderIds, model : Models]
Result   == [probe : ProbeIds, status : AllStatuses, asked : Asked]

VARIABLES providers, probes, results, seq
store == <<providers, probes, results, seq>>

StoreTypeOK ==
  /\ DOMAIN providers \subseteq ProviderIds /\ \A i \in DOMAIN providers : providers[i] \in Provider
  /\ DOMAIN probes \subseteq ProbeIds /\ \A i \in DOMAIN probes : probes[i] \in Probe
  /\ DOMAIN results \subseteq ResultIds /\ \A i \in DOMAIN results : results[i] \in Result
  /\ seq \in [providers : 0..MaxProviders, probes : 0..MaxProbes, results : 0..MaxResults]

(* What the schema enforces besides: the two foreign keys, and ids no      *)
(* larger than sqlite_sequence.                                            *)
ProbesHaveProvider == \A i \in DOMAIN probes : probes[i].provider \in DOMAIN providers
ResultsHaveProbe   == \A i \in DOMAIN results : results[i].probe \in DOMAIN probes

(* No orphan survives: results of deleted probes, probes of deleted        *)
(* providers, not even a result saved after the delete.                    *)
ReferentialIntegrity == ProbesHaveProvider /\ ResultsHaveProbe
IdsWithinSeq == /\ \A i \in DOMAIN providers : i <= seq.providers
                /\ \A i \in DOMAIN probes : i <= seq.probes
                /\ \A i \in DOMAIN results : i <= seq.results

ASSUME BoundsAssumption == MaxProviders \in Nat /\ MaxProbes \in Nat /\ MaxResults \in Nat

(* The database of an earlier run obeys the schema. *)
ASSUME InitRowsAssumption ==
  /\ InitSeq \in [providers : 0..MaxProviders, probes : 0..MaxProbes, results : 0..MaxResults]
  /\ \A i \in DOMAIN InitProviders : i \in 1..InitSeq.providers /\ InitProviders[i] \in Provider
  /\ \A i \in DOMAIN InitProbes : i \in 1..InitSeq.probes /\ InitProbes[i] \in Probe
  /\ \A i \in DOMAIN InitProbes : InitProbes[i].provider \in DOMAIN InitProviders
  /\ \A i, j \in DOMAIN InitProviders : InitProviders[i].name = InitProviders[j].name => i = j
  /\ \A i, j \in DOMAIN InitProbes :
        InitProbes[i].provider = InitProbes[j].provider /\ InitProbes[i].model = InitProbes[j].model => i = j

(* Its results do not matter here: the program starts without any. *)
StoreInit ==
  /\ providers = InitProviders
  /\ probes = InitProbes
  /\ results = [i \in {} |-> 0]
  /\ seq = InitSeq

With(table, id, row) == [i \in DOMAIN table \cup {id} |-> IF i = id THEN row ELSE table[i]]
Keep(table, ids)     == Restrict(table, ids \cap DOMAIN table)

----------------------------------------------------------------------------
CreateProvider(n, e) ==
  /\ seq.providers < MaxProviders
  /\ \A i \in DOMAIN providers : providers[i].name # n
  /\ providers' = With(providers, seq.providers + 1, [name |-> n, enabled |-> e])
  /\ seq' = [seq EXCEPT !.providers = @ + 1]
  /\ UNCHANGED <<probes, results>>

(* An UPDATE of an id that is gone matches no row and reports no error. *)
UpdateProvider(id, n, e) ==
  /\ id \in DOMAIN providers
  /\ \A i \in DOMAIN providers \ {id} : providers[i].name # n
  /\ providers' = [providers EXCEPT ![id] = [name |-> n, enabled |-> e]]
  /\ UNCHANGED <<probes, results, seq>>

(* Rows of probes and results that a delete of these probes leaves. *)
WithoutProbes(ids) ==
  /\ probes' = Keep(probes, ProbeIds \ ids)
  /\ results' = Keep(results, {r \in DOMAIN results : results[r].probe \notin ids})

(* ON DELETE CASCADE, twice. *)
DeleteProvider(id) ==
  /\ id \in DOMAIN providers
  /\ providers' = Keep(providers, ProviderIds \ {id})
  /\ WithoutProbes({i \in DOMAIN probes : probes[i].provider = id})
  /\ UNCHANGED seq

(* UNIQUE(provider_id, model). *)
ModelIsFree(pr, m, rows) ==
  \A i \in rows : ~(probes[i].provider = pr /\ probes[i].model = m)

(* AUTOINCREMENT, not merely a primary key. *)
NewProbeId_LargestPlusOne ==
  LET ids == DOMAIN probes IN CHOOSE i \in ProbeIds : i \notin ids /\ \A j \in ids : j < i
NewProbeId == seq.probes + 1

CreateProbe(pr, m, e) ==
  /\ seq.probes < MaxProbes
  /\ pr \in DOMAIN providers
  /\ ModelIsFree(pr, m, DOMAIN probes)
  /\ probes' = With(probes, NewProbeId, [provider |-> pr, model |-> m, enabled |-> e])
  /\ seq' = [seq EXCEPT !.probes = @ + 1]
  /\ UNCHANGED <<providers, results>>

UpdateProbe(id, m, e) ==
  /\ id \in DOMAIN probes
  /\ ModelIsFree(probes[id].provider, m, DOMAIN probes \ {id})
  /\ probes' = [probes EXCEPT ![id].model = m, ![id].enabled = e]
  /\ UNCHANGED <<providers, results, seq>>

DeleteProbe(id) ==
  /\ id \in DOMAIN probes
  /\ WithoutProbes({id})
  /\ UNCHANGED <<providers, seq>>

DeleteProbesByProvider(pr) ==
  /\ \E i \in DOMAIN probes : probes[i].provider = pr
  /\ WithoutProbes({i \in DOMAIN probes : probes[i].provider = pr})
  /\ UNCHANGED <<providers, seq>>

(* INSERT INTO results: refused by the foreign key when the probe is gone, *)
(* and by the CHECK of migrate() when the status is not in its list.       *)
Insertable(probe, status) == probe \in DOMAIN probes /\ status \in CheckedStatuses

NewResultId == seq.results + 1

SaveResult(probe, status, asked) ==
  /\ Insertable(probe, status)
  /\ seq.results < MaxResults
  /\ results' = With(results, NewResultId,
                     [probe |-> probe, status |-> status, asked |-> asked])
  /\ seq' = [seq EXCEPT !.results = @ + 1]
  /\ UNCHANGED <<providers, probes>>

ClearResults ==
  /\ DOMAIN results # {}
  /\ results' = [i \in {} |-> 0]
  /\ UNCHANGED <<providers, probes, seq>>

DeleteResult(id) ==
  /\ id \in DOMAIN results
  /\ results' = Keep(results, ResultIds \ {id})
  /\ UNCHANGED <<providers, probes, seq>>

----------------------------------------------------------------------------
(* The query of a probe cycle: enabled probes of enabled providers. *)
GetEnabledProbes ==
  {[probe |-> i, provider |-> probes[i].provider, model |-> probes[i].model] :
     i \in {j \in DOMAIN probes : probes[j].enabled /\ providers[probes[j].provider].enabled}}

(* The statements that the web handlers and the TUI pages issue. *)
EditProviders ==
  \/ \E n \in Names : CreateProvider(n, TRUE)
  \/ \E id \in ProviderIds, n \in Names, e \in BOOLEAN : UpdateProvider(id, n, e)
  \/ \E id \in ProviderIds : DeleteProvider(id)

EditProbes ==
  \/ \E pr \in ProviderIds, m \in Models : CreateProbe(pr, m, TRUE)
  \/ \E id \in ProbeIds : DeleteProbe(id)

EditResults == ClearResults \/ \E id \in ResultIds : DeleteResult(id)

UserEdit == EditProviders \/ EditProbes \/ EditResults

(* What a probe cycle reads of probe i. *)
Row(i) == [probe |-> i, provider |-> probes[i].provider, model |-> probes[i].model]

(* A row that was read some time ago names a probe id that was given out,  *)
(* and agrees with the table as long as that id is in it.                  *)
KnownRow(row) ==
  /\ row.probe <= seq.probes
  /\ row.probe \in DOMAIN probes => /\ probes[row.probe].provider = row.provider
                                    /\ probes[row.probe].model = row.model

(* The TUI finds a provider by its name and a model by provider and name:  *)
(* no sequence of creations, renamings and deletions makes two of a kind.  *)
UniqueRows ==
  /\ \A i, j \in DOMAIN providers : providers[i].name = providers[j].name => i = j
  /\ \A i, j \in DOMAIN probes : Row(i) = [Row(j) EXCEPT !.probe = i] => i = j
==============================================================================
