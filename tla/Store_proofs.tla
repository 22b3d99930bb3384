---------------------------- MODULE Store_proofs -----------------------------
(***************************************************************************)
(* What the statements of the store keep, for tables of any size: types,   *)
(* foreign keys, unique rows and ids that are never given out again.       *)
(***************************************************************************)
EXTENDS Store, TLAPS

USE DEF ModelIsFree, NewProbeId, NewResultId

----------------------------------------------------------------------------
(* Tables: adding a row, keeping some rows. *)

LEMMA WithFacts ==
  ASSUME NEW t, NEW id, NEW row
  PROVE  /\ DOMAIN With(t, id, row) = DOMAIN t \cup {id}
         /\ With(t, id, row)[id] = row
         /\ \A i \in DOMAIN t : i # id => With(t, id, row)[i] = t[i]
BY DEF With

(* A set that holds the old rows and the new one holds all rows. *)
LEMMA WithinAfterWith ==
  ASSUME NEW t, NEW id, NEW T, NEW row \in T, \A i \in DOMAIN t : t[i] \in T
  PROVE  \A i \in DOMAIN With(t, id, row) : With(t, id, row)[i] \in T
BY DEF With

LEMMA KeepFacts ==
  ASSUME NEW t, NEW ids
  PROVE  /\ DOMAIN Keep(t, ids) = ids \cap DOMAIN t
         /\ \A i \in DOMAIN Keep(t, ids) : Keep(t, ids)[i] = t[i]
BY DEF Keep, Restrict

----------------------------------------------------------------------------
(* The store keeps its schema under every statement the program issues. *)
Schema == StoreTypeOK /\ IdsWithinSeq /\ ReferentialIntegrity

LEMMA CreateProviderKeepsSchema ==
  ASSUME Schema, NEW n \in Names, NEW e \in BOOLEAN, CreateProvider(n, e)
  PROVE  Schema'
<1>1. seq.providers + 1 \in ProviderIds
  BY BoundsAssumption DEF CreateProvider, Schema, StoreTypeOK, ProviderIds
<1>2. /\ DOMAIN providers' = DOMAIN providers \cup {seq.providers + 1}
      /\ \A i \in DOMAIN providers' : providers'[i] \in Provider
  <2> DEFINE row == [name |-> n, enabled |-> e]
  <2>1. row \in Provider /\ \A i \in DOMAIN providers : providers[i] \in Provider
    BY DEF Schema, StoreTypeOK, Provider
  <2>2. providers' = With(providers, seq.providers + 1, row)
    BY DEF CreateProvider
  <2> HIDE DEF row
  <2> QED BY <2>1, <2>2, WithFacts, WithinAfterWith
<1>3. seq' \in [providers : 0..MaxProviders, probes : 0..MaxProbes, results : 0..MaxResults]
  BY <1>1 DEF CreateProvider, Schema, StoreTypeOK, ProviderIds
<1>4. /\ seq'.providers = seq.providers + 1
      /\ seq'.probes = seq.probes /\ seq'.results = seq.results
  BY DEF CreateProvider, Schema, StoreTypeOK
<1>5. StoreTypeOK'
  BY <1>1, <1>2, <1>3 DEF CreateProvider, Schema, StoreTypeOK
<1>6. IdsWithinSeq'
  BY <1>2, <1>4 DEF CreateProvider, Schema, StoreTypeOK, IdsWithinSeq, ProviderIds
<1>7. ReferentialIntegrity'
  BY <1>2 DEF CreateProvider, Schema, ReferentialIntegrity, ProbesHaveProvider, ResultsHaveProbe
<1> QED BY <1>5, <1>6, <1>7 DEF Schema

LEMMA UpdateProviderKeepsSchema ==
  ASSUME Schema, NEW id \in ProviderIds, NEW n \in Names, NEW e \in BOOLEAN,
         UpdateProvider(id, n, e)
  PROVE  Schema'
BY DEF UpdateProvider, Schema, StoreTypeOK, Provider, IdsWithinSeq, ReferentialIntegrity,
   ProbesHaveProvider, ResultsHaveProbe

(* A delete of probes takes their results along. *)
LEMMA WithoutProbesFacts ==
  ASSUME Schema, NEW ids, WithoutProbes(ids)
  PROVE  /\ DOMAIN probes' = DOMAIN probes \ ids
         /\ \A i \in DOMAIN probes' : probes'[i] = probes[i]
         /\ DOMAIN results' = {r \in DOMAIN results : results[r].probe \notin ids}
         /\ \A r \in DOMAIN results' : results'[r] = results[r]
<1>1. DOMAIN probes' = (ProbeIds \ ids) \cap DOMAIN probes
      /\ \A i \in DOMAIN probes' : probes'[i] = probes[i]
  BY KeepFacts DEF WithoutProbes
<1>2. DOMAIN results' = {r \in DOMAIN results : results[r].probe \notin ids} \cap DOMAIN results
      /\ \A r \in DOMAIN results' : results'[r] = results[r]
  BY KeepFacts DEF WithoutProbes
<1>3. DOMAIN probes \subseteq ProbeIds
  BY DEF Schema, StoreTypeOK
<1> QED BY <1>1, <1>2, <1>3

LEMMA DeleteProviderKeepsSchema ==
  ASSUME Schema, NEW id \in ProviderIds, DeleteProvider(id)
  PROVE  Schema'
<1> DEFINE gone == {i \in DOMAIN probes : probes[i].provider = id}
<1>1. /\ DOMAIN probes' = DOMAIN probes \ gone
      /\ \A i \in DOMAIN probes' : probes'[i] = probes[i]
      /\ DOMAIN results' = {r \in DOMAIN results : results[r].probe \notin gone}
      /\ \A r \in DOMAIN results' : results'[r] = results[r]
  BY WithoutProbesFacts DEF DeleteProvider
<1>2. /\ DOMAIN providers' = (ProviderIds \ {id}) \cap DOMAIN providers
      /\ \A i \in DOMAIN providers' : providers'[i] = providers[i]
  BY KeepFacts DEF DeleteProvider
<1>3. StoreTypeOK' /\ IdsWithinSeq'
  BY <1>1, <1>2 DEF DeleteProvider, Schema, StoreTypeOK, IdsWithinSeq
<1>4. ReferentialIntegrity'
  BY <1>1, <1>2 DEF Schema, StoreTypeOK, ReferentialIntegrity, ProbesHaveProvider,
     ResultsHaveProbe
<1> QED BY <1>3, <1>4 DEF Schema

LEMMA CreateProbeKeepsSchema ==
  ASSUME Schema, NEW pr \in ProviderIds, NEW m \in Models, NEW e \in BOOLEAN,
         CreateProbe(pr, m, e)
  PROVE  Schema'
<1>1. seq.probes + 1 \in ProbeIds
  BY BoundsAssumption DEF CreateProbe, Schema, StoreTypeOK, ProbeIds
<1>2. /\ DOMAIN probes' = DOMAIN probes \cup {seq.probes + 1}
      /\ \A i \in DOMAIN probes' : probes'[i] \in Probe /\ probes'[i].provider \in DOMAIN providers
  <2> DEFINE row == [provider |-> pr, model |-> m, enabled |-> e]
             Good == {r \in Probe : r.provider \in DOMAIN providers}
  <2>1. row \in Good
    BY DEF CreateProbe, Probe
  <2>2. \A i \in DOMAIN probes : probes[i] \in Good
    BY DEF Schema, StoreTypeOK, ReferentialIntegrity, ProbesHaveProvider
  <2>3. probes' = With(probes, seq.probes + 1, row)
    BY DEF CreateProbe
  <2>4. DOMAIN probes' = DOMAIN probes \cup {seq.probes + 1}
    BY <2>3, WithFacts
  <2>5. \A i \in DOMAIN probes' : probes'[i] \in Good
    <3> HIDE DEF row, Good
    <3> QED BY <2>1, <2>2, <2>3, WithinAfterWith
  <2> QED BY <2>4, <2>5
<1>3. seq' \in [providers : 0..MaxProviders, probes : 0..MaxProbes, results : 0..MaxResults]
  BY <1>1 DEF CreateProbe, Schema, StoreTypeOK, ProbeIds
<1>4. /\ seq'.probes = seq.probes + 1
      /\ seq'.providers = seq.providers /\ seq'.results = seq.results
  BY DEF CreateProbe, Schema, StoreTypeOK
<1>5. StoreTypeOK'
  BY <1>1, <1>2, <1>3 DEF CreateProbe, Schema, StoreTypeOK
<1>6. IdsWithinSeq'
  BY <1>2, <1>4 DEF CreateProbe, Schema, StoreTypeOK, IdsWithinSeq, ProbeIds
<1>7. ReferentialIntegrity'
  BY <1>2 DEF CreateProbe, Schema, ReferentialIntegrity, ProbesHaveProvider, ResultsHaveProbe
<1> QED BY <1>5, <1>6, <1>7 DEF Schema

LEMMA DeleteProbeKeepsSchema ==
  ASSUME Schema, NEW id \in ProbeIds, DeleteProbe(id)
  PROVE  Schema'
<1>1. /\ DOMAIN probes' = DOMAIN probes \ {id}
      /\ \A i \in DOMAIN probes' : probes'[i] = probes[i]
      /\ DOMAIN results' = {r \in DOMAIN results : results[r].probe \notin {id}}
      /\ \A r \in DOMAIN results' : results'[r] = results[r]
  BY WithoutProbesFacts DEF DeleteProbe
<1> QED BY <1>1 DEF DeleteProbe, Schema, StoreTypeOK, IdsWithinSeq, ReferentialIntegrity,
        ProbesHaveProvider, ResultsHaveProbe

LEMMA DeleteResultsKeepSchema ==
  ASSUME Schema, ClearResults \/ \E id \in ResultIds : DeleteResult(id)
  PROVE  /\ Schema'
         /\ \A r \in DOMAIN results' : r \in DOMAIN results /\ results'[r] = results[r]
<1>1. \A r \in DOMAIN results' : r \in DOMAIN results /\ results'[r] = results[r]
  <2>1. CASE ClearResults
    BY <2>1 DEF ClearResults
  <2>2. ASSUME NEW id \in ResultIds, DeleteResult(id)
        PROVE  \A r \in DOMAIN results' : r \in DOMAIN results /\ results'[r] = results[r]
    <3>1. results' = Keep(results, ResultIds \ {id})
      BY <2>2 DEF DeleteResult
    <3> DEFINE kept == ResultIds \ {id}
    <3>2. /\ DOMAIN Keep(results, kept) = kept \cap DOMAIN results
          /\ \A r \in DOMAIN Keep(results, kept) : Keep(results, kept)[r] = results[r]
      BY ONLY KeepFacts
    <3> QED BY ONLY <3>1, <3>2
  <2> QED BY <2>1, <2>2
<1> QED BY <1>1 DEF ClearResults, DeleteResult, Schema, StoreTypeOK, IdsWithinSeq,
        ReferentialIntegrity, ProbesHaveProvider, ResultsHaveProbe

LEMMA SaveResultKeepsSchema ==
  ASSUME Schema, NEW probe, NEW status, NEW asked \in Asked, SaveResult(probe, status, asked)
  PROVE  Schema'
<1>1. seq.results + 1 \in ResultIds
  BY BoundsAssumption DEF SaveResult, Schema, StoreTypeOK, ResultIds
<1>2. probe \in DOMAIN probes /\ [probe |-> probe, status |-> status, asked |-> asked] \in Result
  BY DEF SaveResult, Insertable, Schema, StoreTypeOK, Result, AllStatuses
<1>3. /\ DOMAIN results' = DOMAIN results \cup {seq.results + 1}
      /\ \A r \in DOMAIN results' : results'[r] \in Result /\ results'[r].probe \in DOMAIN probes
  <2> DEFINE row == [probe |-> probe, status |-> status, asked |-> asked]
             Good == {r \in Result : r.probe \in DOMAIN probes}
  <2>1. row \in Good
    BY <1>2
  <2>2. \A r \in DOMAIN results : results[r] \in Good
    BY DEF Schema, StoreTypeOK, ReferentialIntegrity, ResultsHaveProbe
  <2>3. results' = With(results, seq.results + 1, row)
    BY DEF SaveResult
  <2>4. DOMAIN results' = DOMAIN results \cup {seq.results + 1}
    BY <2>3, WithFacts
  <2>5. \A r \in DOMAIN results' : results'[r] \in Good
    <3> HIDE DEF row, Good
    <3> QED BY <2>1, <2>2, <2>3, WithinAfterWith
  <2> QED BY <2>4, <2>5
<1>4. seq' \in [providers : 0..MaxProviders, probes : 0..MaxProbes, results : 0..MaxResults]
  BY <1>1 DEF SaveResult, Schema, StoreTypeOK, ResultIds
<1>5. /\ seq'.results = seq.results + 1
      /\ seq'.providers = seq.providers /\ seq'.probes = seq.probes
  BY DEF SaveResult, Schema, StoreTypeOK
<1>6. StoreTypeOK'
  BY <1>1, <1>3, <1>4 DEF SaveResult, Schema, StoreTypeOK
<1>7. IdsWithinSeq'
  BY <1>3, <1>5 DEF SaveResult, Schema, StoreTypeOK, IdsWithinSeq, ResultIds
<1>8. ReferentialIntegrity'
  BY <1>3 DEF SaveResult, Schema, ReferentialIntegrity, ProbesHaveProvider, ResultsHaveProbe
<1> QED BY <1>6, <1>7, <1>8 DEF Schema

LEMMA UserEditKeepsSchema ==
  ASSUME Schema, UserEdit
  PROVE  Schema'
BY CreateProviderKeepsSchema, UpdateProviderKeepsSchema, DeleteProviderKeepsSchema,
   CreateProbeKeepsSchema, DeleteProbeKeepsSchema, DeleteResultsKeepSchema DEF UserEdit, EditProviders, EditProbes, EditResults

----------------------------------------------------------------------------
(* What any statement may do to probes and results, as far as a cycle is   *)
(* concerned: ids that were given out keep their row or lose it.           *)
ProbesEvolve ==
  /\ seq'.probes >= seq.probes
  /\ \A i \in DOMAIN probes' : i <= seq.probes => i \in DOMAIN probes /\ probes'[i] = probes[i]

OldResultsOnly ==
  \A r \in DOMAIN results' : r \in DOMAIN results /\ results'[r] = results[r]

LEMMA UserEditEvolves ==
  ASSUME Schema, UserEdit
  PROVE  ProbesEvolve /\ OldResultsOnly
<1>0. seq.probes \in Nat /\ DOMAIN probes \subseteq Nat
  BY BoundsAssumption DEF Schema, StoreTypeOK, ProbeIds
<1>a. ASSUME UNCHANGED <<probes, results>>, seq'.probes = seq.probes
      PROVE  ProbesEvolve /\ OldResultsOnly
  BY <1>0, <1>a DEF ProbesEvolve, OldResultsOnly
<1>b. ASSUME NEW ids, WithoutProbes(ids), UNCHANGED seq
      PROVE  ProbesEvolve /\ OldResultsOnly
  <2>1. /\ DOMAIN probes' = DOMAIN probes \ ids
        /\ \A i \in DOMAIN probes' : probes'[i] = probes[i]
        /\ DOMAIN results' = {r \in DOMAIN results : results[r].probe \notin ids}
        /\ \A r \in DOMAIN results' : results'[r] = results[r]
    BY <1>b, WithoutProbesFacts
  <2> QED BY <1>0, <1>b, <2>1 DEF ProbesEvolve, OldResultsOnly
<1>1. ASSUME NEW n \in Names, CreateProvider(n, TRUE)
      PROVE  ProbesEvolve /\ OldResultsOnly
  BY <1>1, <1>a DEF CreateProvider, Schema, StoreTypeOK
<1>2. ASSUME NEW id \in ProviderIds, NEW n \in Names, NEW e \in BOOLEAN, UpdateProvider(id, n, e)
      PROVE  ProbesEvolve /\ OldResultsOnly
  BY <1>2, <1>a DEF UpdateProvider
<1>3. ASSUME NEW id \in ProviderIds, DeleteProvider(id)
      PROVE  ProbesEvolve /\ OldResultsOnly
  BY <1>3, <1>b DEF DeleteProvider
<1>4. ASSUME NEW pr \in ProviderIds, NEW m \in Models, CreateProbe(pr, m, TRUE)
      PROVE  ProbesEvolve /\ OldResultsOnly
  <2> DEFINE row == [provider |-> pr, model |-> m, enabled |-> TRUE]
             new == seq.probes + 1
  <2>1. probes' = With(probes, new, row)
    BY <1>4 DEF CreateProbe
  <2>2. results' = results /\ seq'.probes = new
    BY <1>4 DEF CreateProbe, Schema, StoreTypeOK
  <2>3. \A i \in DOMAIN probes' : i # new => i \in DOMAIN probes /\ probes'[i] = probes[i]
    BY <2>1 DEF With
  <2> QED BY <1>0, <2>2, <2>3 DEF ProbesEvolve, OldResultsOnly
<1>5. ASSUME NEW id \in ProbeIds, DeleteProbe(id)
      PROVE  ProbesEvolve /\ OldResultsOnly
  BY <1>5, <1>b DEF DeleteProbe
<1>6. ASSUME ClearResults \/ \E id \in ResultIds : DeleteResult(id)
      PROVE  ProbesEvolve /\ OldResultsOnly
  <2>1. UNCHANGED <<probes, seq>>
    BY <1>6 DEF ClearResults, DeleteResult
  <2>2. OldResultsOnly
    BY <1>6, DeleteResultsKeepSchema DEF OldResultsOnly
  <2> QED BY <1>0, <2>1, <2>2 DEF ProbesEvolve
<1> QED BY <1>1, <1>2, <1>3, <1>4, <1>5, <1>6 DEF UserEdit, EditProviders, EditProbes, EditResults

(* A row that a cycle carries stays known whatever users do. *)
LEMMA KnownRowStays ==
  ASSUME Schema, Schema', ProbesEvolve, NEW row \in Asked, KnownRow(row)
  PROVE  KnownRow(row)'
<1>1. seq.probes \in Nat /\ seq'.probes \in Nat
  BY BoundsAssumption DEF Schema, StoreTypeOK
<1>2. row.probe \in Nat
  BY DEF Asked, ProbeIds
<1> QED BY <1>1, <1>2 DEF ProbesEvolve, KnownRow

(* A snapshot row is a row of the table. *)
LEMMA SnapshotIsKnown ==
  ASSUME Schema, NEW row \in GetEnabledProbes
  PROVE  row \in Asked /\ KnownRow(row)
<1>1. PICK i \in DOMAIN probes :
        row = [probe |-> i, provider |-> probes[i].provider, model |-> probes[i].model]
  BY DEF GetEnabledProbes
<1>2. i \in ProbeIds /\ probes[i] \in Probe /\ i <= seq.probes
  BY DEF Schema, StoreTypeOK, IdsWithinSeq
<1> QED BY <1>1, <1>2 DEF Asked, Probe, KnownRow

(* The tables found at start obey the schema. *)
LEMMA StoreInitIsFine == StoreInit => Schema /\ UniqueRows
<1> SUFFICES ASSUME StoreInit PROVE Schema /\ UniqueRows
  OBVIOUS
<1>1. Schema
  BY BoundsAssumption, InitRowsAssumption DEF StoreInit, Schema, StoreTypeOK, IdsWithinSeq,
     ReferentialIntegrity, ProbesHaveProvider, ResultsHaveProbe, ProviderIds, ProbeIds
<1>2. UniqueRows
  BY InitRowsAssumption DEF StoreInit, UniqueRows, Row
<1> QED BY <1>1, <1>2

----------------------------------------------------------------------------
(* The two UNIQUE constraints, each about one table. *)
UniqueNames  == \A i, j \in DOMAIN providers : providers[i].name = providers[j].name => i = j
UniqueModels ==
  \A i, j \in DOMAIN probes :
    probes[i].provider = probes[j].provider /\ probes[i].model = probes[j].model => i = j

LEMMA SameRow ==
  ASSUME NEW i, NEW j
  PROVE  Row(i) = [Row(j) EXCEPT !.probe = i] <=>
           probes[i].provider = probes[j].provider /\ probes[i].model = probes[j].model
<1> DEFINE changed == [Row(j) EXCEPT !.probe = i]
<1>1. changed = [probe |-> i, provider |-> probes[j].provider, model |-> probes[j].model]
  BY DEF Row
<1>2. Row(i) = [probe |-> i, provider |-> probes[i].provider, model |-> probes[i].model]
  BY DEF Row
<1>3. Row(i).provider = probes[i].provider /\ Row(i).model = probes[i].model
  BY <1>2
<1>4. changed.provider = probes[j].provider /\ changed.model = probes[j].model
  BY <1>1
<1> QED BY <1>1, <1>2, <1>3, <1>4

LEMMA UniqueByTable == UniqueRows <=> UniqueNames /\ UniqueModels
<1> DEFINE Same(i, j) == Row(i) = [Row(j) EXCEPT !.probe = i]
           Equal(i, j) == probes[i].provider = probes[j].provider /\ probes[i].model = probes[j].model
<1>1. \A i, j : Same(i, j) <=> Equal(i, j)
  BY SameRow
<1>2. UniqueRows <=> UniqueNames /\ \A i, j \in DOMAIN probes : Same(i, j) => i = j
  BY DEF UniqueRows, UniqueNames
<1>3. UniqueModels <=> \A i, j \in DOMAIN probes : Equal(i, j) => i = j
  BY DEF UniqueModels
<1> HIDE DEF Same, Equal
<1> QED BY <1>1, <1>2, <1>3

LEMMA ProvidersStayUnique ==
  ASSUME Schema, UniqueNames, UserEdit
  PROVE  UniqueNames'
<1>1. ASSUME NEW n \in Names, CreateProvider(n, TRUE)
      PROVE  UniqueNames'
  <2> DEFINE row == [name |-> n, enabled |-> TRUE]
             new == seq.providers + 1
  <2>1. providers' = With(providers, new, row) /\ \A i \in DOMAIN providers : providers[i].name # n
    BY <1>1 DEF CreateProvider
  <2>2. row.name = n
    OBVIOUS
  <2> HIDE DEF row, new
  <2> DEFINE added == With(providers, new, row)
  <2>3. /\ DOMAIN added = DOMAIN providers \cup {new} /\ added[new] = row
        /\ \A i \in DOMAIN providers : i # new => added[i] = providers[i]
    BY DEF With
  <2> HIDE DEF added
  <2>4. providers' = added
    BY <2>1 DEF added
  <2> QED BY <2>1, <2>2, <2>3, <2>4 DEF UniqueNames
<1>2. ASSUME NEW id \in ProviderIds, NEW n \in Names, NEW e \in BOOLEAN, UpdateProvider(id, n, e)
      PROVE  UniqueNames'
  BY <1>2 DEF UpdateProvider, UniqueNames
<1>3. ASSUME NEW id \in ProviderIds, DeleteProvider(id)
      PROVE  UniqueNames'
  <2> DEFINE kept == Keep(providers, ProviderIds \ {id})
  <2>1. providers' = kept
    BY <1>3 DEF DeleteProvider
  <2>2. \A i \in DOMAIN kept : i \in DOMAIN providers /\ kept[i] = providers[i]
    BY KeepFacts
  <2> HIDE DEF kept
  <2> QED BY <2>1, <2>2 DEF UniqueNames
<1>4. CASE UNCHANGED providers
  BY <1>4 DEF UniqueNames
<1> QED BY <1>1, <1>2, <1>3, <1>4 DEF UserEdit, EditProviders, EditProbes, EditResults,
     CreateProbe, DeleteProbe, DeleteResult, ClearResults

LEMMA ProbesStayUnique ==
  ASSUME Schema, UniqueModels, UserEdit
  PROVE  UniqueModels'
<1>1. ASSUME NEW pr \in ProviderIds, NEW m \in Models, CreateProbe(pr, m, TRUE)
      PROVE  UniqueModels'
  <2> DEFINE row == [provider |-> pr, model |-> m, enabled |-> TRUE]
             new == seq.probes + 1
  <2>1. /\ probes' = With(probes, new, row)
        /\ \A i \in DOMAIN probes : ~(probes[i].provider = pr /\ probes[i].model = m)
    BY <1>1 DEF CreateProbe
  <2>2. row.provider = pr /\ row.model = m
    OBVIOUS
  <2> HIDE DEF row, new
  <2> DEFINE added == With(probes, new, row)
  <2>3. /\ DOMAIN added = DOMAIN probes \cup {new} /\ added[new] = row
        /\ \A i \in DOMAIN probes : i # new => added[i] = probes[i]
    BY DEF With
  <2> HIDE DEF added
  <2>4. probes' = added
    BY <2>1 DEF added
  <2> QED BY <2>1, <2>2, <2>3, <2>4 DEF UniqueModels
<1>2. ASSUME NEW ids, WithoutProbes(ids)
      PROVE  UniqueModels'
  <2>1. \A i \in DOMAIN probes' : i \in DOMAIN probes /\ probes'[i] = probes[i]
    BY <1>2, WithoutProbesFacts
  <2> QED BY <2>1 DEF UniqueModels
<1>3. CASE UNCHANGED probes
  BY <1>3 DEF UniqueModels
<1> QED BY <1>1, <1>2, <1>3 DEF UserEdit, EditProviders, EditProbes, EditResults,
     CreateProvider, UpdateProvider, DeleteProvider, DeleteProbe,
        DeleteResult, ClearResults

LEMMA UserEditKeepsUnique ==
  ASSUME Schema, UniqueRows, UserEdit
  PROVE  UniqueRows'
<1>1. UniqueNames /\ UniqueModels
  BY UniqueByTable
<1>2. UniqueNames' /\ UniqueModels'
  BY <1>1, ProvidersStayUnique, ProbesStayUnique
<1>3. (UniqueRows <=> UniqueNames /\ UniqueModels)'
  BY UniqueByTable, PTL
<1> QED BY <1>2, <1>3

----------------------------------------------------------------------------
(* An id that was given out and is gone stays gone. *)
NoReuse ==
  /\ \A i \in 1..seq.providers : i \notin DOMAIN providers => i \notin DOMAIN providers'
  /\ \A i \in 1..seq.probes : i \notin DOMAIN probes => i \notin DOMAIN probes'
  /\ \A i \in 1..seq.results : i \notin DOMAIN results => i \notin DOMAIN results'

LEMMA NewIdsAreNew ==
  ASSUME Schema
  PROVE  /\ \A i \in 1..seq.providers : i # seq.providers + 1
         /\ \A i \in 1..seq.probes : i # seq.probes + 1
         /\ \A i \in 1..seq.results : i # seq.results + 1
BY BoundsAssumption DEF Schema, StoreTypeOK

LEMMA UserEditReusesNoId ==
  ASSUME Schema, UserEdit
  PROVE  NoReuse
<1>1. ASSUME NEW n \in Names, CreateProvider(n, TRUE)
      PROVE  NoReuse
  <2>1. DOMAIN providers' = DOMAIN providers \cup {seq.providers + 1} /\ UNCHANGED <<probes, results>>
    BY <1>1 DEF CreateProvider, With
  <2> QED BY <2>1, NewIdsAreNew DEF NoReuse
<1>2. ASSUME NEW id \in ProviderIds, NEW n \in Names, NEW e \in BOOLEAN, UpdateProvider(id, n, e)
      PROVE  NoReuse
  BY <1>2 DEF UpdateProvider, NoReuse
<1>3. ASSUME NEW ids, WithoutProbes(ids), DOMAIN providers' \subseteq DOMAIN providers
      PROVE  NoReuse
  BY <1>3, WithoutProbesFacts DEF NoReuse
<1>4. ASSUME NEW id \in ProviderIds, DeleteProvider(id)
      PROVE  NoReuse
  <2>1. DOMAIN providers' \subseteq DOMAIN providers
    BY <1>4, KeepFacts DEF DeleteProvider
  <2> QED BY <1>3, <1>4, <2>1 DEF DeleteProvider
<1>5. ASSUME NEW pr \in ProviderIds, NEW m \in Models, CreateProbe(pr, m, TRUE)
      PROVE  NoReuse
  <2>1. DOMAIN probes' = DOMAIN probes \cup {seq.probes + 1} /\ UNCHANGED <<providers, results>>
    BY <1>5 DEF CreateProbe, With
  <2> QED BY <2>1, NewIdsAreNew DEF NoReuse
<1>6. ASSUME NEW id \in ProbeIds, DeleteProbe(id)
      PROVE  NoReuse
  BY <1>3, <1>6 DEF DeleteProbe
<1>7. ASSUME ClearResults \/ \E id \in ResultIds : DeleteResult(id)
      PROVE  NoReuse
  <2>1. UNCHANGED <<providers, probes>>
    BY <1>7 DEF ClearResults, DeleteResult
  <2>2. \A r \in DOMAIN results' : r \in DOMAIN results
    BY <1>7, DeleteResultsKeepSchema
  <2> QED BY <2>1, <2>2 DEF NoReuse
<1> QED BY <1>1, <1>2, <1>4, <1>5, <1>6, <1>7 DEF UserEdit, EditProviders, EditProbes, EditResults

LEMMA SaveResultReusesNoId ==
  ASSUME Schema, NEW probe, NEW status, NEW asked, SaveResult(probe, status, asked)
  PROVE  NoReuse
<1>1. DOMAIN results' = DOMAIN results \cup {seq.results + 1} /\ UNCHANGED <<providers, probes>>
  BY DEF SaveResult, With
<1> QED BY <1>1, NewIdsAreNew DEF NoReuse
==============================================================================
