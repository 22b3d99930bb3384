----------------------------- MODULE Pages_proofs -----------------------------
(***************************************************************************)
(* The models page, for any number of models, fetches, dialogs, keys and   *)
(* web clients: a stale list never leads to another model than the one     *)
(* that was confirmed.                                                     *)
(***************************************************************************)
EXTENDS Pages, Store_proofs, FiniteSetTheorems

Lists  == {rows \in Seq(Asked) : Len(rows) <= MaxProbes}
Choice == [id : ProviderIds, name : Names]
Target == [provider : ProviderIds \cup {0}, models : Seq(Models)]
About  == Asked \cup {NoRow}
Dialog == [n : 0..MaxDialogs, kind : {"none", "confirm", "form"}, about : About,
           names : SUBSET Names, keys : 0..MaxKeys, touched : BOOLEAN]

TypesFit ==
  /\ page \in {"models", "stats"} /\ dialog \in Dialog
  /\ list \in Lists /\ provs \subseteq Choice
  /\ at \in [Workers -> Steps] /\ buf \in [Workers -> Lists]
  /\ target \in [Fetches -> Target]
  /\ last \in [did : About, said : About, excused : BOOLEAN]
  /\ edits \in 0..MaxEdits

FetchesFit == \A g \in Fetches : at[g] \in {"request", "insert"} => target[g].provider \in ProviderIds

(* The cursor is -1 after a key up whose check and step had a clamp between *)
(* them; and only a list of two rows lets a key pass its check.             *)
CursorFits ==
  /\ cursor \in Int /\ cursor >= -1
  /\ cursor < MaxProbes \/ cursor = 0
  /\ cursor = -1 => MaxProbes > 1
  /\ at["ui"] = "up" => cursor >= 0 /\ MaxProbes > 1
  /\ at["ui"] = "down" => cursor + 1 < MaxProbes /\ MaxProbes > 1

(* A message says what its dialog asked; no dialog has two numbers. *)
MessagesFit ==
  \A m \in msgs :
    /\ m.n \in 0..dialog.n /\ m.about \in About
    /\ m.n = dialog.n /\ dialog.kind # "none" => m.about = dialog.about
    /\ m.answer.kind = "submit" => m.answer.model \in Models \cup {0}

(* Rows that were read agree with the table, or are gone from it. *)
RowsKnown ==
  /\ \A k \in DOMAIN list : KnownRow(list[k])
  /\ \A w \in Workers : \A k \in DOMAIN buf[w] : KnownRow(buf[w][k])

(* While a confirmation is open, and no goroutine touched the page, the row *)
(* under the cursor is what it asks about; what the handler then picks is   *)
(* what the user was asked.                                                 *)
UiFits ==
  /\ at["ui"] \in {"up", "down", "ask"} => dialog.kind = "none" /\ page = "models"
  /\ at["ui"] = "ask" => dialog.n < MaxDialogs
  /\ dialog.kind = "confirm" /\ page = "stats" => dialog.about = NoRow
  /\ at["ui"] \in {"index", "delete"} => dialog.kind = "confirm"
  /\ Idle /\ dialog.kind = "confirm" /\ page = "models" /\ ~dialog.touched /\ Selected =>
       list[cursor + 1] = dialog.about
  /\ at["ui"] = "index" /\ ~dialog.touched /\ ~last.excused /\ Selected => list[cursor + 1] = last.said
  /\ at["ui"] = "delete" =>
       /\ buf["ui"] # <<>>
       /\ ~dialog.touched /\ ~last.excused => buf["ui"][1] = last.said

PagesInv == /\ Schema /\ TypesFit /\ FetchesFit /\ CursorFits
            /\ MessagesFit /\ RowsKnown /\ UiFits /\ StaleListsAreSafe

LEMMA PagesBounds ==
  MaxDialogs \in Nat /\ MaxKeys \in Nat /\ MaxEdits \in Nat /\ MaxProbes \in Nat /\ "ui" \notin Fetches
BY PagesAssumption, BoundsAssumption

----------------------------------------------------------------------------
(* The store moves by statements that web clients issue too, except that   *)
(* the UI may clear results that are cleared.                              *)
Cleared    == UNCHANGED <<providers, probes, seq>> /\ results' = [i \in {} |-> 0]
StoreMoves == UserEdit \/ Cleared \/ UNCHANGED store

LEMMA ClearedKeeps ==
  ASSUME Schema, Cleared
  PROVE  Schema'
<1>1. DOMAIN results' = {}
  BY DEF Cleared
<1> QED BY <1>1 DEF Cleared, Schema, StoreTypeOK, IdsWithinSeq, ReferentialIntegrity,
          ProbesHaveProvider, ResultsHaveProbe

LEMMA StoreMovesKeep ==
  ASSUME Schema, StoreMoves
  PROVE  Schema' /\ \A row \in Asked : KnownRow(row) => KnownRow(row)'
<1>1. CASE UserEdit
  BY <1>1, UserEditKeepsSchema, UserEditEvolves, KnownRowStays
<1>2. CASE Cleared
  <2>1. \A row \in Asked : KnownRow(row) => KnownRow(row)'
    BY <1>2 DEF Cleared, KnownRow
  <2> QED BY <1>2, <2>1, ClearedKeeps
<1>3. CASE UNCHANGED store
  <2>1. Schema'
    BY <1>3 DEF store, Schema, StoreTypeOK, IdsWithinSeq, ReferentialIntegrity,
       ProbesHaveProvider, ResultsHaveProbe
  <2>2. \A row \in Asked : KnownRow(row) => KnownRow(row)'
    BY <1>3 DEF store, KnownRow
  <2> QED BY <2>1, <2>2
<1> QED BY <1>1, <1>2, <1>3 DEF StoreMoves

LEMMA CreatedIsMove ==
  ASSUME NEW pr \in ProviderIds, NEW m \in Models, CreateProbe(pr, m, TRUE)
  PROVE  StoreMoves
BY DEF StoreMoves, UserEdit, EditProviders, EditProbes, EditResults

LEMMA ListRows ==
  ASSUME NEW rows \in Lists
  PROVE  rows \in Seq(Asked) /\ Len(rows) \in Nat /\ Len(rows) <= MaxProbes
         /\ \A k \in DOMAIN rows : rows[k] \in Asked
<1>1. rows \in Seq(Asked) /\ Len(rows) <= MaxProbes
  BY DEF Lists
<1> QED BY <1>1

LEMMA RowsStayKnown ==
  ASSUME Schema, TypesFit, RowsKnown, StoreMoves, UNCHANGED <<list, buf>>
  PROVE  Schema' /\ RowsKnown'
<1>1. Schema' /\ \A row \in Asked : KnownRow(row) => KnownRow(row)'
  BY StoreMovesKeep
<1>2. list \in Lists /\ \A w \in Workers : buf[w] \in Lists
  BY DEF TypesFit
<1>3. ASSUME NEW k \in DOMAIN list PROVE KnownRow(list[k])'
  <2>1. list[k] \in Asked /\ KnownRow(list[k])
    BY <1>2, ListRows DEF RowsKnown
  <2> DEFINE row == list[k]
  <2>2. row' = row
    OBVIOUS
  <2>3. row.probe <= seq'.probes /\ (row.probe \in DOMAIN probes' =>
           probes'[row.probe].provider = row.provider /\ probes'[row.probe].model = row.model)
    BY <1>1, <2>1 DEF KnownRow
  <2> QED BY <2>2, <2>3 DEF KnownRow
<1>4. ASSUME NEW w \in Workers, NEW k \in DOMAIN buf[w] PROVE KnownRow(buf[w][k])'
  <2>1. buf[w][k] \in Asked /\ KnownRow(buf[w][k])
    BY <1>2, ListRows DEF RowsKnown
  <2> DEFINE row == buf[w][k]
  <2>2. row' = row
    OBVIOUS
  <2>3. row.probe <= seq'.probes /\ (row.probe \in DOMAIN probes' =>
           probes'[row.probe].provider = row.provider /\ probes'[row.probe].model = row.model)
    BY <1>1, <2>1 DEF KnownRow
  <2> QED BY <2>2, <2>3 DEF KnownRow
<1> QED BY <1>1, <1>3, <1>4 DEF RowsKnown

(* The query of the page: as many rows as there are probes at most. *)
LEMMA QueryIsFine ==
  ASSUME Schema, NEW rows \in EnabledProbes
  PROVE  rows \in Lists /\ \A k \in DOMAIN rows : KnownRow(rows[k])
<1> DEFINE ids == {j \in DOMAIN probes : probes[j].enabled /\ providers[probes[j].provider].enabled}
           f == [i \in ids |-> Row(i)]
<1>1. GetEnabledProbes = {Row(i) : i \in ids}
  BY DEF GetEnabledProbes, Row
<1>2. f \in Surjection(ids, GetEnabledProbes)
  BY <1>1 DEF Surjection
<1>3. ids \in SUBSET (1..MaxProbes)
  BY DEF Schema, StoreTypeOK, ProbeIds
<1> HIDE DEF f, ids
<1>4. IsFiniteSet(1..MaxProbes) /\ Cardinality(1..MaxProbes) = MaxProbes
  BY PagesBounds, FS_Interval
<1>5. IsFiniteSet(ids) /\ Cardinality(ids) <= MaxProbes
  BY <1>3, <1>4, FS_Subset
<1>6. IsFiniteSet(GetEnabledProbes) /\ Cardinality(GetEnabledProbes) <= Cardinality(ids)
  BY <1>2, <1>5, FS_Surjection
<1>7. Cardinality(GetEnabledProbes) \in Nat /\ Cardinality(ids) \in Nat
  BY <1>5, <1>6, FS_CardinalityType
<1>8. Cardinality(GetEnabledProbes) <= MaxProbes
  BY <1>5, <1>6, <1>7, PagesBounds
<1>9. rows \in [1..Cardinality(GetEnabledProbes) -> GetEnabledProbes]
  BY DEF EnabledProbes
<1>10. \A row \in GetEnabledProbes : row \in Asked /\ KnownRow(row)
  BY SnapshotIsKnown
<1>11. rows \in Seq(Asked) /\ Len(rows) = Cardinality(GetEnabledProbes)
  BY <1>7, <1>9, <1>10
<1> QED BY <1>8, <1>9, <1>10, <1>11 DEF Lists

LEMMA ChoicesAreFine ==
  ASSUME Schema
  PROVE  ListProviders \subseteq Choice
BY DEF Schema, StoreTypeOK, ListProviders, Choice, Provider

(* Dialogs. *)
LEMMA OpenedFacts ==
  ASSUME dialog \in Dialog, NEW kind \in {"confirm", "form"}, NEW about \in About, dialog.n < MaxDialogs
  PROVE  /\ Opened(kind, about) \in Dialog /\ Opened(kind, about).n = dialog.n + 1
         /\ Opened(kind, about).kind = kind /\ Opened(kind, about).about = about
BY PagesBounds DEF Opened, Dialog

LEMMA OpenedFormFacts ==
  ASSUME dialog \in Dialog, NEW offered \in SUBSET Choice, dialog.n < MaxDialogs
  PROVE  /\ OpenedForm(offered) \in Dialog /\ OpenedForm(offered).n = dialog.n + 1
         /\ OpenedForm(offered).kind = "form"
<1> DEFINE form == Opened("form", NoRow)
<1>1. form \in Dialog /\ form.n = dialog.n + 1 /\ form.kind = "form"
  BY OpenedFacts DEF About
<1>2. {p.name : p \in offered} \subseteq Names
  BY DEF Choice
<1>3. OpenedForm(offered) = [form EXCEPT !.names = {p.name : p \in offered}]
  BY DEF OpenedForm
<1> HIDE DEF form
<1> QED BY <1>1, <1>2, <1>3 DEF Dialog

LEMMA NoDialogFacts ==
  ASSUME NEW n \in 0..MaxDialogs
  PROVE  NoDialog(n) \in Dialog /\ NoDialog(n).kind = "none" /\ NoDialog(n).n = n
BY PagesBounds DEF NoDialog, Dialog, About

LEMMA ClosedFacts ==
  ASSUME dialog \in Dialog
  PROVE  Closed \in Dialog /\ Closed.kind = "none" /\ Closed.n = dialog.n
<1>1. dialog.n \in 0..MaxDialogs
  BY DEF Dialog
<1> QED BY <1>1, NoDialogFacts DEF Closed

LEMMA TouchedFacts ==
  ASSUME dialog \in Dialog, NEW w
  PROVE  /\ Touched(w) \in Dialog /\ Touched(w).n = dialog.n /\ Touched(w).kind = dialog.kind
         /\ Touched(w).about = dialog.about
         /\ Touched(w).touched = (dialog.touched \/ (w # "ui" /\ dialog.kind = "confirm"))
BY DEF Touched, Dialog

LEMMA GotoFacts ==
  ASSUME at \in [Workers -> Steps], NEW w \in Workers, NEW step \in Steps, Goto(w, step)
  PROVE  at' \in [Workers -> Steps] /\ at'[w] = step /\ \A v \in Workers : v # w => at'[v] = at[v]
BY DEF Goto

LEMMA WorkersFacts ==
  "ui" \in Workers /\ \A g \in Fetches : g \in Workers /\ g # "ui"
BY PagesBounds DEF Workers

(* The same dialog, or none. *)
LEMMA MessagesStay ==
  ASSUME MessagesFit, dialog' = dialog \/ (dialog'.kind = "none" /\ dialog'.n = dialog.n), msgs' \subseteq msgs
  PROVE  MessagesFit'
BY DEF MessagesFit

LEMMA MessagesStayNext ==
  ASSUME MessagesFit, dialog \in Dialog, dialog'.n = dialog.n + 1, msgs' \subseteq msgs
  PROVE  MessagesFit'
<1>1. dialog.n \in Nat
  BY PagesBounds DEF Dialog
<1> QED BY <1>1 DEF MessagesFit

LEMMA CursorStays ==
  ASSUME CursorFits, UNCHANGED cursor, at'["ui"] \in {at["ui"]} \cup (Steps \ {"up", "down"})
  PROVE  CursorFits'
BY DEF CursorFits

LEMMA FetchesStay ==
  ASSUME FetchesFit, \A g \in Fetches : at'[g] = at[g] \/ at'[g] \notin {"request", "insert"}, UNCHANGED target
  PROVE  FetchesFit'
BY DEF FetchesFit

(* Without a confirmation there is nothing to say of the row picked. *)
LEMMA UiWithoutConfirmation ==
  ASSUME dialog'.kind # "confirm", at'["ui"] \notin {"index", "delete"},
         at'["ui"] \in {"up", "down", "ask"} => dialog'.kind = "none" /\ page' = "models",
         at'["ui"] = "ask" => dialog'.n < MaxDialogs
  PROVE  UiFits'
BY DEF UiFits

(* Nor while the handler runs loadData. *)
LEMMA UiLoading ==
  ASSUME UiFits, at'["ui"] \in {"query", "assign", "providers", "clamp", "panic"},
         UNCHANGED page, dialog'.kind = dialog.kind, dialog'.about = dialog.about
  PROVE  UiFits'
BY DEF UiFits, Idle

LEMMA UiSame ==
  ASSUME UiFits, UNCHANGED <<page, list, cursor, last>>, at'["ui"] = at["ui"], buf'["ui"] = buf["ui"],
         dialog'.kind = dialog.kind, dialog'.about = dialog.about, dialog'.touched = dialog.touched,
         dialog'.n = dialog.n
  PROVE  UiFits'
BY DEF UiFits, Idle, Selected

(* A goroutine that loads the page touches the confirmation that is open. *)
LEMMA UiTouched ==
  ASSUME UiFits, UNCHANGED <<page, last>>, at'["ui"] = at["ui"], buf'["ui"] = buf["ui"],
         dialog'.kind = dialog.kind, dialog'.about = dialog.about,
         dialog.kind = "confirm" => dialog'.touched, dialog'.n = dialog.n
  PROVE  UiFits'
BY DEF UiFits, Idle

LEMMA Assembled ==
  ASSUME PagesInv, StoreMoves, UNCHANGED <<list, buf>>,
         TypesFit', FetchesFit', CursorFits', MessagesFit', UiFits', StaleListsAreSafe'
  PROVE  PagesInv'
BY RowsStayKnown DEF PagesInv

(* Most steps leave the history alone. *)
LEMMA AssembledQuiet ==
  ASSUME PagesInv, StoreMoves, UNCHANGED <<list, buf, last>>,
         TypesFit', FetchesFit', CursorFits', MessagesFit', UiFits'
  PROVE  PagesInv'
<1>1. StaleListsAreSafe'
  BY DEF PagesInv, StaleListsAreSafe, ConfirmedIsDeleted
<1> QED BY <1>1, Assembled

LEMMA StoreStays == UNCHANGED store => StoreMoves
BY DEF StoreMoves

----------------------------------------------------------------------------
LEMMA InitIsFine == Init => PagesInv
<1> SUFFICES ASSUME Init PROVE PagesInv
  OBVIOUS
<1>1. Schema
  BY StoreInitIsFine DEF Init
<1>2. list \in Lists /\ \A k \in DOMAIN list : KnownRow(list[k])
  BY <1>1, QueryIsFine DEF Init
<1>3. dialog \in Dialog /\ dialog.kind = "none"
  <2>1. 0 \in 0..MaxDialogs
    BY PagesBounds
  <2> QED BY <2>1, NoDialogFacts DEF Init
<1>4. /\ page = "models" /\ provs = ListProviders /\ cursor = 0 /\ msgs = {}
      /\ at = [w \in Workers |-> "idle"] /\ buf = [w \in Workers |-> <<>>]
      /\ target = [g \in Fetches |-> NoFetch]
      /\ last = [did |-> NoRow, said |-> NoRow, excused |-> FALSE] /\ edits = 0
  BY DEF Init
<1>5. <<>> \in Lists /\ NoFetch \in Target /\ NoRow \in About /\ edits \in 0..MaxEdits
  <2>1. <<>> \in Lists
    BY PagesBounds DEF Lists
  <2>2. NoFetch \in Target
    BY DEF NoFetch, Target
  <2> QED BY <1>4, <2>1, <2>2, PagesBounds DEF About
<1>6. provs \subseteq Choice
  BY <1>1, <1>4, ChoicesAreFine
<1>7. TypesFit
  BY <1>2, <1>3, <1>4, <1>5, <1>6 DEF TypesFit, Steps
<1>8. FetchesFit
  BY <1>4, WorkersFacts DEF FetchesFit
<1>9. CursorFits
  BY <1>4, WorkersFacts DEF CursorFits
<1>10. MessagesFit /\ StaleListsAreSafe
  BY <1>4 DEF MessagesFit, StaleListsAreSafe, ConfirmedIsDeleted
<1>11. RowsKnown
  BY <1>2, <1>4 DEF RowsKnown
<1>12. UiFits
  BY <1>3, <1>4, WorkersFacts DEF UiFits
<1> QED BY <1>1, <1>7, <1>8, <1>9, <1>10, <1>11, <1>12 DEF PagesInv

----------------------------------------------------------------------------
(* Keys. *)
LEMMA NavigateKeeps ==
  ASSUME PagesInv, NEW p \in {"models", "stats"}, Navigate(p)
  PROVE  PagesInv'
<1>1. /\ at["ui"] = "idle" /\ dialog.kind = "none" /\ page' = p
      /\ UNCHANGED <<store, dialog, list, provs, cursor, msgs, at, buf, target, last, edits>>
  BY DEF Navigate, Idle, fields, workers
<1>2. TypesFit'
  BY <1>1 DEF PagesInv, TypesFit
<1>3. FetchesFit' /\ CursorFits' /\ MessagesFit'
  BY <1>1 DEF PagesInv, FetchesFit, CursorFits, MessagesFit
<1>4. UiFits'
  BY <1>1, UiWithoutConfirmation
<1> QED BY <1>1, <1>2, <1>3, <1>4, StoreStays, AssembledQuiet

(* The keys that check the fields and use them later. *)
LEMMA ListKeysKeep ==
  ASSUME PagesInv, UpKey \/ DownKey \/ DeleteKey
  PROVE  PagesInv'
<1>1. /\ dialog.kind = "none" /\ page = "models"
      /\ UNCHANGED <<store, page, dialog, list, provs, cursor, msgs, buf, target, last, edits>>
  BY DEF UpKey, DownKey, DeleteKey, OnModels, fields
<1>2. PICK step \in {"up", "down", "ask"} :
        /\ Goto("ui", step)
        /\ step = "up" => cursor > 0
        /\ step = "down" => cursor < Len(list) - 1
        /\ step = "ask" => dialog.n < MaxDialogs
  BY DEF UpKey, DownKey, DeleteKey, MayGoDown, MayOpen
<1>3. at' \in [Workers -> Steps] /\ at'["ui"] = step /\ \A g \in Fetches : at'[g] = at[g]
  BY <1>2, GotoFacts, WorkersFacts DEF PagesInv, TypesFit, Steps
<1>4. TypesFit'
  BY <1>1, <1>3 DEF PagesInv, TypesFit
<1>5. FetchesFit'
  BY <1>1, <1>3, FetchesStay DEF PagesInv
<1>6. CursorFits'
  <2>1. Len(list) \in Nat /\ Len(list) <= MaxProbes
    BY ListRows DEF PagesInv, TypesFit
  <2>2. CursorFits
    BY DEF PagesInv
  <2> QED BY <1>1, <1>2, <1>3, <2>1, <2>2, PagesBounds DEF CursorFits
<1>7. MessagesFit'
  BY <1>1 DEF PagesInv, MessagesFit
<1>8. UiFits'
  BY <1>1, <1>2, <1>3, UiWithoutConfirmation
<1> QED BY <1>1, <1>4, <1>5, <1>6, <1>7, <1>8, StoreStays, AssembledQuiet

LEMMA ClearKeyKeeps ==
  ASSUME PagesInv, ClearKey
  PROVE  PagesInv'
<1>1. /\ at["ui"] = "idle" /\ page = "stats" /\ dialog.n < MaxDialogs /\ dialog' = Opened("confirm", NoRow)
      /\ UNCHANGED <<store, page, list, provs, cursor, msgs, at, buf, target, last, edits>>
  BY DEF ClearKey, Idle, MayOpen, fields, workers
<1>2. dialog \in Dialog
  BY DEF PagesInv, TypesFit
<1>3. dialog' \in Dialog /\ dialog'.n = dialog.n + 1 /\ dialog'.kind = "confirm" /\ dialog'.about = NoRow
  BY <1>1, <1>2, OpenedFacts DEF About
<1>4. TypesFit' /\ FetchesFit' /\ CursorFits'
  BY <1>1, <1>3 DEF PagesInv, TypesFit, FetchesFit, CursorFits
<1>5. MessagesFit'
  BY <1>1, <1>2, <1>3, MessagesStayNext DEF PagesInv
<1>6. UiFits'
  BY <1>1, <1>3 DEF UiFits
<1> QED BY <1>1, <1>4, <1>5, <1>6, StoreStays, AssembledQuiet

LEMMA FormKeyKeeps ==
  ASSUME PagesInv, FormKey
  PROVE  PagesInv'
<1>1. /\ at["ui"] = "idle" /\ dialog.kind = "none" /\ page = "models" /\ dialog.n < MaxDialogs
      /\ provs' \in {ListProviders, provs} /\ dialog' \in {dialog, OpenedForm(provs')}
      /\ UNCHANGED <<store, page, list, cursor, msgs, at, buf, target, last, edits>>
  BY DEF FormKey, OnModels, Idle, MayOpen, workers
<1>2. dialog \in Dialog
  BY DEF PagesInv, TypesFit
<1>3. provs' \subseteq Choice
  BY <1>1, ChoicesAreFine DEF PagesInv, TypesFit
<1>4. dialog' = dialog \/ (dialog' \in Dialog /\ dialog'.n = dialog.n + 1 /\ dialog'.kind = "form")
  BY <1>1, <1>2, <1>3, OpenedFormFacts
<1>5. TypesFit' /\ FetchesFit' /\ CursorFits'
  BY <1>1, <1>2, <1>3, <1>4 DEF PagesInv, TypesFit, FetchesFit, CursorFits
<1>6. MessagesFit'
  BY <1>1, <1>2, <1>4, MessagesStay, MessagesStayNext DEF PagesInv
<1>7. UiFits'
  BY <1>1, <1>4, UiWithoutConfirmation
<1> QED BY <1>1, <1>5, <1>6, <1>7, StoreStays, AssembledQuiet

LEMMA AnswerKeyKeeps ==
  ASSUME PagesInv, AnswerKey
  PROVE  PagesInv'
<1>1. /\ dialog' = [dialog EXCEPT !.keys = @ + 1] /\ dialog.keys < MaxKeys /\ dialog.kind # "none"
      /\ UNCHANGED <<store, page, list, provs, cursor, at, buf, target, last, edits>>
  BY DEF AnswerKey, fields, workers
<1> DEFINE Sent(a) == [n |-> dialog.n, key |-> dialog.keys, about |-> dialog.about, answer |-> a]
<1>2. PICK a \in Answers : msgs' = msgs \cup {Sent(a)}
  BY DEF AnswerKey
<1>3. Sent(a).n = dialog.n /\ Sent(a).about = dialog.about /\ Sent(a).answer = a
  OBVIOUS
<1>4. a.kind = "submit" => a.model \in Models \cup {0}
  BY NamesAssumption DEF Answers
<1>5. dialog \in Dialog
  BY DEF PagesInv, TypesFit
<1>6. /\ dialog' \in Dialog /\ dialog'.n = dialog.n /\ dialog'.kind = dialog.kind
      /\ dialog'.about = dialog.about /\ dialog'.touched = dialog.touched
  BY <1>1, <1>5, PagesBounds DEF Dialog
<1>7. dialog.n \in 0..dialog.n /\ dialog.about \in About
  BY <1>5, PagesBounds DEF Dialog
<1> HIDE DEF Sent
<1>8. MessagesFit'
  BY <1>2, <1>3, <1>4, <1>6, <1>7 DEF PagesInv, MessagesFit
<1>9. TypesFit' /\ FetchesFit' /\ CursorFits'
  BY <1>1, <1>6 DEF PagesInv, TypesFit, FetchesFit, CursorFits
<1>10. UiFits'
  BY <1>1, <1>6, UiSame DEF PagesInv
<1> QED BY <1>1, <1>8, <1>9, <1>10, StoreStays, AssembledQuiet

(* What these keys start. *)
LEMMA MoveCursorKeeps ==
  ASSUME PagesInv, MoveCursor
  PROVE  PagesInv'
<1>1. /\ Goto("ui", "idle")
      /\ UNCHANGED <<store, page, dialog, list, provs, msgs, buf, target, last, edits>>
  BY DEF MoveCursor
<1>2. at' \in [Workers -> Steps] /\ at'["ui"] = "idle" /\ \A g \in Fetches : at'[g] = at[g]
  BY <1>1, GotoFacts, WorkersFacts DEF PagesInv, TypesFit, Steps
<1>3. \/ at["ui"] = "up" /\ cursor' = cursor - 1
      \/ at["ui"] = "down" /\ cursor' = cursor + 1
  BY DEF MoveCursor
<1>4. dialog.kind = "none"
  BY <1>3 DEF PagesInv, UiFits
<1>5. CursorFits'
  BY <1>2, <1>3, PagesBounds DEF PagesInv, CursorFits
<1>6. TypesFit'
  BY <1>1, <1>2 DEF PagesInv, TypesFit
<1>7. FetchesFit' /\ MessagesFit'
  BY <1>1, <1>2 DEF PagesInv, FetchesFit, MessagesFit
<1>8. UiFits'
  BY <1>1, <1>2, <1>4, UiWithoutConfirmation
<1> QED BY <1>1, <1>5, <1>6, <1>7, <1>8, StoreStays, AssembledQuiet

LEMMA SelectedRow ==
  ASSUME PagesInv, Selected
  PROVE  /\ list[cursor + 1] \in Asked /\ KnownRow(list[cursor + 1])
         /\ <<list[cursor + 1]>> \in Lists
<1>1. list \in Seq(Asked) /\ Len(list) <= MaxProbes /\ cursor + 1 \in DOMAIN list
  BY DEF PagesInv, TypesFit, Lists, Selected
<1>2. list[cursor + 1] \in Asked /\ Len(list) > 0
  BY <1>1
<1>3. KnownRow(list[cursor + 1])
  BY <1>1 DEF PagesInv, RowsKnown
<1>4. MaxProbes >= 1
  BY <1>1, <1>2, PagesBounds
<1>5. <<list[cursor + 1]>> \in Lists
  BY <1>2, <1>4, PagesBounds DEF Lists
<1> QED BY <1>2, <1>3, <1>5

LEMMA ShowDeleteConfirmKeeps ==
  ASSUME PagesInv, ShowDeleteConfirm
  PROVE  PagesInv'
<1>1. /\ at["ui"] = "ask"
      /\ UNCHANGED <<store, page, list, provs, cursor, msgs, buf, target, last, edits>>
  BY DEF ShowDeleteConfirm, fields
<1>2. page = "models" /\ dialog.kind = "none" /\ dialog.n < MaxDialogs
  BY <1>1 DEF PagesInv, UiFits
<1>3. dialog \in Dialog
  BY DEF PagesInv, TypesFit
<1>4. CASE Selected /\ dialog' = Opened("confirm", list[cursor + 1]) /\ Goto("ui", "idle")
  <2>1. list[cursor + 1] \in About
    BY <1>4, SelectedRow DEF About
  <2>2. /\ dialog' \in Dialog /\ dialog'.n = dialog.n + 1 /\ dialog'.kind = "confirm"
        /\ dialog'.about = list[cursor + 1]
    BY <1>2, <1>3, <1>4, <2>1, OpenedFacts
  <2>3. at' \in [Workers -> Steps] /\ at'["ui"] = "idle" /\ \A g \in Fetches : at'[g] = at[g]
    BY <1>4, GotoFacts, WorkersFacts DEF PagesInv, TypesFit, Steps
  <2>4. TypesFit' /\ FetchesFit' /\ CursorFits'
    BY <1>1, <2>2, <2>3 DEF PagesInv, TypesFit, FetchesFit, CursorFits
  <2>5. MessagesFit'
    BY <1>1, <1>3, <2>2, MessagesStayNext DEF PagesInv
  <2>6. UiFits'
    BY <1>1, <1>2, <2>2, <2>3 DEF UiFits
  <2> QED BY <1>1, <2>4, <2>5, <2>6, StoreStays, AssembledQuiet
<1>5. CASE Goto("ui", "panic") /\ UNCHANGED dialog
  <2>1. at' \in [Workers -> Steps] /\ at'["ui"] = "panic" /\ \A g \in Fetches : at'[g] = at[g]
    BY <1>5, GotoFacts, WorkersFacts DEF PagesInv, TypesFit, Steps
  <2>2. TypesFit' /\ FetchesFit' /\ CursorFits' /\ MessagesFit'
    BY <1>1, <1>5, <2>1 DEF PagesInv, TypesFit, FetchesFit, CursorFits, MessagesFit
  <2>3. UiFits'
    BY <1>1, <1>5, <2>1, UiLoading DEF PagesInv
  <2> QED BY <1>1, <2>2, <2>3, StoreStays, AssembledQuiet
<1> QED BY <1>4, <1>5 DEF ShowDeleteConfirm

LEMMA IndexKeeps ==
  ASSUME PagesInv, Index
  PROVE  PagesInv'
<1>1. /\ at["ui"] = "index"
      /\ UNCHANGED <<store, page, dialog, list, provs, cursor, msgs, target, last, edits>>
  BY DEF Index, fields
<1>2. CASE Selected /\ buf' = [buf EXCEPT !["ui"] = <<list[cursor + 1]>>] /\ Goto("ui", "delete")
  <2> DEFINE row == list[cursor + 1]
  <2>1. row \in Asked /\ KnownRow(row) /\ <<row>> \in Lists
    BY <1>2, SelectedRow
  <2>2. at' \in [Workers -> Steps] /\ at'["ui"] = "delete" /\ \A g \in Fetches : at'[g] = at[g]
    BY <1>2, GotoFacts, WorkersFacts DEF PagesInv, TypesFit, Steps
  <2>3. /\ buf' \in [Workers -> Lists] /\ buf'["ui"] = <<row>>
        /\ \A g \in Fetches : buf'[g] = buf[g]
    BY <1>2, <2>1, WorkersFacts DEF PagesInv, TypesFit
  <2>4. dialog.kind = "confirm" /\ (~dialog.touched /\ ~last.excused => row = last.said)
    BY <1>1, <1>2 DEF PagesInv, UiFits
  <2> HIDE DEF row
  <2>5. UiFits'
    BY <1>1, <2>2, <2>3, <2>4, PagesBounds DEF PagesInv, UiFits, Idle
  <2>6. TypesFit' /\ FetchesFit' /\ CursorFits' /\ MessagesFit'
    BY <1>1, <2>2, <2>3 DEF PagesInv, TypesFit, FetchesFit, CursorFits, MessagesFit
  <2>7. RowsKnown'
    <3>1. \A k \in DOMAIN list : KnownRow(list[k])'
      BY <1>1 DEF PagesInv, RowsKnown, KnownRow, store
    <3>2. KnownRow(row)'
      BY <1>1, <2>1 DEF KnownRow, store, row
    <3>3. \A k \in DOMAIN <<row>> : k = 1
      OBVIOUS
    <3>4. \A k \in DOMAIN buf'["ui"] : KnownRow(buf["ui"][k])'
      BY <1>1, <2>1, <2>3, <3>3 DEF KnownRow, store
    <3>5. \A g \in Fetches : \A k \in DOMAIN buf'[g] : KnownRow(buf[g][k])'
      BY <1>1, <2>3, WorkersFacts DEF PagesInv, RowsKnown, KnownRow, store
    <3> QED BY <1>1, <3>1, <3>4, <3>5 DEF RowsKnown, Workers
  <2>8. Schema'
    BY <1>1, StoreStays, StoreMovesKeep DEF PagesInv
  <2>9. StaleListsAreSafe'
    BY <1>1 DEF PagesInv, StaleListsAreSafe, ConfirmedIsDeleted
  <2> QED BY <2>5, <2>6, <2>7, <2>8, <2>9 DEF PagesInv
<1>3. CASE Goto("ui", "panic") /\ UNCHANGED buf
  <2>1. at' \in [Workers -> Steps] /\ at'["ui"] = "panic" /\ \A g \in Fetches : at'[g] = at[g]
    BY <1>3, GotoFacts, WorkersFacts DEF PagesInv, TypesFit, Steps
  <2>2. TypesFit' /\ FetchesFit' /\ CursorFits' /\ MessagesFit'
    BY <1>1, <1>3, <2>1 DEF PagesInv, TypesFit, FetchesFit, CursorFits, MessagesFit
  <2>3. UiFits'
    BY <1>1, <2>1, UiLoading DEF PagesInv
  <2> QED BY <1>1, <1>3, <2>2, <2>3, StoreStays, AssembledQuiet
<1> QED BY <1>2, <1>3 DEF Index

(* The row deleted is the row that was picked, if it is there at all. *)
LEMMA DeleteSelectedKeeps ==
  ASSUME PagesInv, DeleteSelected
  PROVE  PagesInv'
<1> DEFINE picked == buf["ui"][1]
           id == picked.probe
<1>1. /\ at["ui"] = "delete" /\ Goto("ui", "query")
      /\ UNCHANGED <<page, dialog, list, provs, cursor, msgs, buf, target, edits>>
      /\ \/ /\ DeleteProbe(id)
            /\ last' = [last EXCEPT !.did = Row(id), !.excused = @ \/ dialog.touched]
         \/ UNCHANGED <<store, last>>
  BY DEF DeleteSelected, fields
<1>2. picked \in Asked /\ KnownRow(picked)
  <2>1. buf["ui"] \in Lists /\ buf["ui"] # <<>>
    BY <1>1, WorkersFacts DEF PagesInv, TypesFit, UiFits
  <2>2. 1 \in DOMAIN buf["ui"]
    BY <2>1, ListRows
  <2> QED BY <2>1, <2>2, ListRows, WorkersFacts DEF PagesInv, RowsKnown
<1>3. ~dialog.touched /\ ~last.excused => picked = last.said
  BY <1>1 DEF PagesInv, UiFits
<1> HIDE DEF picked
<1>4. id \in ProbeIds
  BY <1>2 DEF Asked
<1>5. id \in DOMAIN probes => Row(id) = picked
  <2>1. ASSUME id \in DOMAIN probes
        PROVE  probes[id].provider = picked.provider /\ probes[id].model = picked.model
    BY <1>2, <2>1 DEF KnownRow
  <2> QED BY <1>2, <2>1 DEF Row, Asked
<1>6. /\ last' \in [did : About, said : About, excused : BOOLEAN]
      /\ StaleListsAreSafe' /\ StoreMoves
  <2>0. last \in [did : About, said : About, excused : BOOLEAN] /\ StaleListsAreSafe
        /\ dialog.touched \in BOOLEAN
    BY DEF PagesInv, TypesFit, Dialog
  <2>1. CASE /\ DeleteProbe(id)
             /\ last' = [last EXCEPT !.did = Row(id), !.excused = @ \/ dialog.touched]
    <3>1. id \in DOMAIN probes
      BY <2>1 DEF DeleteProbe
    <3>2. last' = [last EXCEPT !.did = picked, !.excused = @ \/ dialog.touched]
      BY <1>5, <2>1, <3>1
    <3>3. /\ last'.did = picked /\ last'.said = last.said
          /\ last'.excused = (last.excused \/ dialog.touched)
          /\ last' \in [did : About, said : About, excused : BOOLEAN]
      BY <1>2, <2>0, <3>2 DEF About
    <3>4. StaleListsAreSafe'
      BY <1>3, <3>3 DEF StaleListsAreSafe, ConfirmedIsDeleted
    <3>5. StoreMoves
      BY <1>4, <2>1 DEF StoreMoves, UserEdit, EditProviders, EditProbes, EditResults
    <3> QED BY <3>3, <3>4, <3>5
  <2>2. CASE UNCHANGED <<store, last>>
    BY <2>0, <2>2, StoreStays DEF StaleListsAreSafe, ConfirmedIsDeleted
  <2> QED BY <1>1, <2>1, <2>2
<1>7. at' \in [Workers -> Steps] /\ at'["ui"] = "query" /\ \A g \in Fetches : at'[g] = at[g]
  BY <1>1, GotoFacts, WorkersFacts DEF PagesInv, TypesFit, Steps
<1>8. TypesFit' /\ FetchesFit' /\ CursorFits' /\ MessagesFit'
  BY <1>1, <1>6, <1>7 DEF PagesInv, TypesFit, FetchesFit, CursorFits, MessagesFit
<1>9. UiFits'
  BY <1>1, <1>7, UiLoading DEF PagesInv
<1> QED BY <1>1, <1>6, <1>8, <1>9, Assembled

----------------------------------------------------------------------------
(* The arrival of a message.  The answer of the dialog that is open says   *)
(* what that dialog asked.                                                 *)
LEMMA ReceivedFacts ==
  ASSUME PagesInv, NEW m, Received(m)
  PROVE  /\ at["ui"] = "idle" /\ m \in msgs /\ msgs' \subseteq msgs /\ m.about \in About
         /\ m.n = dialog.n /\ dialog.kind # "none" => m.about = dialog.about
         /\ m.answer.kind = "submit" => m.answer.model \in Models \cup {0}
BY DEF Received, Idle, PagesInv, MessagesFit

LEMMA QuietArrivals ==
  ASSUME PagesInv, NEW m, Ignore(m) \/ Dismiss(m)
  PROVE  PagesInv'
<1>1. /\ Received(m) /\ dialog' \in {dialog, Closed}
      /\ UNCHANGED <<store, page, list, provs, cursor, at, buf, target, last, edits>>
  BY DEF Ignore, Dismiss, fields, workers
<1>2. msgs' \subseteq msgs /\ at["ui"] = "idle"
  BY <1>1, ReceivedFacts
<1>3. dialog' = dialog \/ (dialog' \in Dialog /\ dialog'.kind = "none" /\ dialog'.n = dialog.n)
  BY <1>1, ClosedFacts DEF PagesInv, TypesFit
<1>4. TypesFit' /\ FetchesFit' /\ CursorFits'
  BY <1>1, <1>3 DEF PagesInv, TypesFit, FetchesFit, CursorFits
<1>5. MessagesFit'
  BY <1>2, <1>3, MessagesStay DEF PagesInv
<1>6. UiFits'
  <2>1. CASE dialog' = dialog
    BY <1>1, <2>1, UiSame DEF PagesInv
  <2>2. CASE dialog'.kind = "none"
    BY <1>1, <1>2, <2>2, UiWithoutConfirmation
  <2> QED BY <1>3, <2>1, <2>2
<1> QED BY <1>1, <1>4, <1>5, <1>6, StoreStays, AssembledQuiet

LEMMA ConfirmClearKeeps ==
  ASSUME PagesInv, NEW m, ConfirmClear(m)
  PROVE  PagesInv'
<1>1. /\ Received(m) /\ dialog.kind = "confirm" /\ page = "stats" /\ dialog' = Closed
      /\ last' = [did |-> NoRow, said |-> m.about, excused |-> Excused(m)]
      /\ UNCHANGED <<page, list, provs, cursor, at, buf, target, edits>> /\ Cleared
  BY DEF ConfirmClear, Cleared, fields, workers
<1>2. /\ msgs' \subseteq msgs /\ at["ui"] = "idle" /\ m.about \in About
      /\ m.n = dialog.n => m.about = dialog.about
  BY <1>1, ReceivedFacts
<1>3. dialog \in Dialog /\ dialog.about = NoRow
  BY <1>1 DEF PagesInv, TypesFit, UiFits
<1>4. dialog' \in Dialog /\ dialog'.kind = "none" /\ dialog'.n = dialog.n
  BY <1>1, <1>3, ClosedFacts
<1>5. /\ last' \in [did : About, said : About, excused : BOOLEAN] /\ StaleListsAreSafe'
  BY <1>1, <1>2, <1>3 DEF Excused, About, Dialog, StaleListsAreSafe, ConfirmedIsDeleted
<1>6. TypesFit' /\ FetchesFit' /\ CursorFits'
  BY <1>1, <1>4, <1>5 DEF PagesInv, TypesFit, FetchesFit, CursorFits
<1>7. MessagesFit'
  BY <1>2, <1>4, MessagesStay DEF PagesInv
<1>8. UiFits'
  BY <1>1, <1>2, <1>4, UiWithoutConfirmation
<1>9. StoreMoves
  BY <1>1 DEF StoreMoves
<1> QED BY <1>1, <1>5, <1>6, <1>7, <1>8, <1>9, Assembled

LEMMA ConfirmDeleteKeeps ==
  ASSUME PagesInv, NEW m, ConfirmDelete(m)
  PROVE  PagesInv'
<1>1. /\ Received(m) /\ dialog.kind = "confirm" /\ page = "models" /\ Goto("ui", "index")
      /\ last' = [did |-> m.about, said |-> m.about, excused |-> Excused(m)]
      /\ UNCHANGED <<store, page, dialog, list, provs, cursor, buf, target, edits>>
  BY DEF ConfirmDelete, fields
<1>2. /\ msgs' \subseteq msgs /\ at["ui"] = "idle" /\ m.about \in About
      /\ m.n = dialog.n => m.about = dialog.about
  BY <1>1, ReceivedFacts
<1>3. dialog \in Dialog
  BY DEF PagesInv, TypesFit
<1>4. /\ last' \in [did : About, said : About, excused : BOOLEAN] /\ StaleListsAreSafe'
      /\ last'.said = m.about /\ last'.excused = (dialog.touched \/ m.n # dialog.n)
  BY <1>1, <1>2, <1>3 DEF Excused, Dialog, StaleListsAreSafe, ConfirmedIsDeleted
<1>5. at' \in [Workers -> Steps] /\ at'["ui"] = "index" /\ \A g \in Fetches : at'[g] = at[g]
  BY <1>1, GotoFacts, WorkersFacts DEF PagesInv, TypesFit, Steps
<1>6. TypesFit' /\ FetchesFit' /\ CursorFits'
  BY <1>1, <1>4, <1>5 DEF PagesInv, TypesFit, FetchesFit, CursorFits
<1>7. MessagesFit'
  BY <1>1, <1>2, MessagesStay DEF PagesInv
<1>8. ~dialog.touched /\ Selected => list[cursor + 1] = dialog.about
  BY <1>1, <1>2 DEF PagesInv, UiFits, Idle
<1>9. UiFits'
  BY <1>1, <1>2, <1>4, <1>5, <1>8 DEF UiFits, Idle, Selected
<1> QED BY <1>1, <1>4, <1>6, <1>7, <1>9, StoreStays, Assembled

LEMMA SubmitAddKeeps ==
  ASSUME PagesInv, NEW m, SubmitAdd(m)
  PROVE  PagesInv'
<1>1. /\ Received(m) /\ dialog.kind = "form" /\ m.answer.kind = "submit" /\ m.answer.model # 0
      /\ Goto("ui", "query")
      /\ UNCHANGED <<page, dialog, list, provs, cursor, buf, target, last, edits>>
  BY DEF SubmitAdd, fields
<1>2. PICK p \in provs : CreateProbe(p.id, m.answer.model, TRUE) \/ UNCHANGED store
  BY DEF SubmitAdd
<1>3. p.id \in ProviderIds
  BY DEF PagesInv, TypesFit, Choice
<1>4. msgs' \subseteq msgs /\ m.answer.model \in Models
  BY <1>1, ReceivedFacts
<1>5. StoreMoves
  BY <1>2, <1>3, <1>4, CreatedIsMove, StoreStays
<1>6. at' \in [Workers -> Steps] /\ at'["ui"] = "query" /\ \A g \in Fetches : at'[g] = at[g]
  BY <1>1, GotoFacts, WorkersFacts DEF PagesInv, TypesFit, Steps
<1>7. TypesFit' /\ FetchesFit' /\ CursorFits'
  BY <1>1, <1>6 DEF PagesInv, TypesFit, FetchesFit, CursorFits
<1>8. MessagesFit'
  BY <1>1, <1>4, MessagesStay DEF PagesInv
<1>9. UiFits'
  BY <1>1, <1>6, UiLoading DEF PagesInv
<1> QED BY <1>1, <1>5, <1>7, <1>8, <1>9, AssembledQuiet

LEMMA SubmitFetchKeeps ==
  ASSUME PagesInv, NEW m, SubmitFetch(m)
  PROVE  PagesInv'
<1>1. /\ Received(m) /\ dialog.kind = "form" /\ dialog' = Closed
      /\ UNCHANGED <<store, page, list, provs, cursor, buf, last, edits>>
  BY DEF SubmitFetch, fields
<1>2. PICK p \in provs, g \in Fetches :
        /\ target' = [target EXCEPT ![g] = [provider |-> p.id, models |-> Offered]]
        /\ Goto(g, "request")
  BY DEF SubmitFetch
<1>3. p.id \in ProviderIds
  BY DEF PagesInv, TypesFit, Choice
<1> DEFINE fetch == [provider |-> p.id, models |-> Offered]
<1>4. fetch \in Target /\ fetch.provider \in ProviderIds
  BY <1>3, NamesAssumption DEF Target
<1> HIDE DEF fetch
<1>5. target' \in [Fetches -> Target] /\ target'[g] = fetch /\ \A h \in Fetches \ {g} : target'[h] = target[h]
  BY <1>2, <1>4 DEF PagesInv, TypesFit, fetch
<1>6. /\ at' \in [Workers -> Steps] /\ at'["ui"] = at["ui"] /\ at'[g] = "request"
      /\ \A h \in Fetches \ {g} : at'[h] = at[h]
  BY <1>2, GotoFacts, WorkersFacts DEF PagesInv, TypesFit, Steps
<1>7. msgs' \subseteq msgs /\ at["ui"] = "idle"
  BY <1>1, ReceivedFacts
<1>8. dialog' \in Dialog /\ dialog'.kind = "none" /\ dialog'.n = dialog.n
  BY <1>1, ClosedFacts DEF PagesInv, TypesFit
<1>9. TypesFit' /\ CursorFits'
  BY <1>1, <1>5, <1>6, <1>8 DEF PagesInv, TypesFit, CursorFits
<1>10. FetchesFit'
  BY <1>4, <1>5, <1>6 DEF PagesInv, FetchesFit
<1>11. MessagesFit'
  BY <1>7, <1>8, MessagesStay DEF PagesInv
<1>12. UiFits'
  BY <1>1, <1>6, <1>7, <1>8, UiWithoutConfirmation
<1> QED BY <1>1, <1>9, <1>10, <1>11, <1>12, StoreStays, AssembledQuiet

----------------------------------------------------------------------------
(* The goroutines that fetch models. *)
LEMMA FetchKeeps ==
  ASSUME PagesInv, NEW g \in Fetches, Fetch(g)
  PROVE  PagesInv'
<1>1. UNCHANGED <<page, dialog, list, provs, cursor, msgs, buf, last, edits>>
  BY DEF Fetch, FetchFails, FetchAnswers, Insert, InsertedAll, fields
<1>2. target \in [Fetches -> Target] /\ target[g] \in Target /\ at \in [Workers -> Steps]
  BY DEF PagesInv, TypesFit
<1>3. /\ StoreMoves
      /\ target' \in [Fetches -> Target] /\ \A h \in Fetches \ {g} : target'[h] = target[h]
      /\ at' \in [Workers -> Steps] /\ \A w \in Workers \ {g} : at'[w] = at[w]
      /\ at'[g] \in {"request", "insert"} => target'[g].provider \in ProviderIds
  <2>1. CASE FetchFails(g)
    <3>1. UNCHANGED store /\ target' = [target EXCEPT ![g] = NoFetch] /\ Goto(g, "idle")
      BY <2>1 DEF FetchFails
    <3>2. NoFetch \in Target
      BY DEF NoFetch, Target
    <3>3. at' \in [Workers -> Steps] /\ at'[g] = "idle" /\ \A w \in Workers \ {g} : at'[w] = at[w]
      BY <1>2, <3>1, GotoFacts, WorkersFacts DEF Steps
    <3> QED BY <1>2, <3>1, <3>2, <3>3, StoreStays
  <2>2. CASE FetchAnswers(g)
    <3>1. UNCHANGED <<store, target>> /\ at[g] = "request" /\ Goto(g, "insert")
      BY <2>2 DEF FetchAnswers
    <3>2. at' \in [Workers -> Steps] /\ at'[g] = "insert" /\ \A w \in Workers \ {g} : at'[w] = at[w]
      BY <1>2, <3>1, GotoFacts, WorkersFacts DEF Steps
    <3> QED BY <1>2, <3>1, <3>2, StoreStays DEF PagesInv, FetchesFit
  <2>3. CASE Insert(g)
    <3> DEFINE m == Head(target[g].models)
    <3>1. /\ at[g] = "insert" /\ target[g].models # <<>> /\ UNCHANGED at
          /\ CreateProbe(target[g].provider, m, TRUE) \/ UNCHANGED store
          /\ target' = [target EXCEPT ![g].models = Tail(@)]
      BY <2>3 DEF Insert
    <3>2. target[g].provider \in ProviderIds
      BY <3>1 DEF PagesInv, FetchesFit
    <3>3. target[g].models \in Seq(Models)
      BY <1>2 DEF Target
    <3>4. m \in Models /\ Tail(target[g].models) \in Seq(Models)
      BY <3>1, <3>3
    <3>5. StoreMoves
      BY <3>1, <3>2, <3>4, CreatedIsMove, StoreStays
    <3>6. /\ target' \in [Fetches -> Target] /\ \A h \in Fetches \ {g} : target'[h] = target[h]
          /\ target'[g].provider = target[g].provider
      <4>1. [target[g] EXCEPT !.models = Tail(@)] \in Target
        BY <1>2, <3>4 DEF Target
      <4>2. [target[g] EXCEPT !.models = Tail(@)].provider = target[g].provider
        BY <1>2 DEF Target
      <4>3. target' = [target EXCEPT ![g] = [target[g] EXCEPT !.models = Tail(@)]]
        BY <1>2, <3>1
      <4> QED BY <1>2, <4>1, <4>2, <4>3
    <3> QED BY <1>2, <3>1, <3>2, <3>5, <3>6
  <2>4. CASE InsertedAll(g)
    <3>1. UNCHANGED store /\ target' = [target EXCEPT ![g] = NoFetch] /\ Goto(g, "query")
      BY <2>4 DEF InsertedAll
    <3>2. NoFetch \in Target
      BY DEF NoFetch, Target
    <3>3. at' \in [Workers -> Steps] /\ at'[g] = "query" /\ \A w \in Workers \ {g} : at'[w] = at[w]
      BY <1>2, <3>1, GotoFacts, WorkersFacts DEF Steps
    <3> QED BY <1>2, <3>1, <3>2, <3>3, StoreStays
  <2> QED BY <2>1, <2>2, <2>3, <2>4 DEF Fetch
<1>4. at'["ui"] = at["ui"] /\ \A h \in Fetches \ {g} : at'[h] = at[h]
  BY <1>3, WorkersFacts
<1>5. TypesFit' /\ CursorFits' /\ MessagesFit'
  BY <1>1, <1>3, <1>4 DEF PagesInv, TypesFit, CursorFits, MessagesFit
<1>6. FetchesFit'
  BY <1>3, <1>4 DEF PagesInv, FetchesFit
<1>7. UiFits'
  BY <1>1, <1>4, UiSame DEF PagesInv
<1> QED BY <1>1, <1>3, <1>5, <1>6, <1>7, AssembledQuiet

----------------------------------------------------------------------------
(* loadData, in the handler or in a goroutine. *)
LEMMA LoadProbesKeeps ==
  ASSUME PagesInv, NEW w \in Workers, LoadProbes(w)
  PROVE  PagesInv'
<1>1. /\ at[w] = "query" /\ Goto(w, "assign")
      /\ UNCHANGED <<store, page, dialog, list, provs, cursor, msgs, target, last, edits>>
  BY DEF LoadProbes, fields
<1>2. PICK rows \in EnabledProbes \cup {<<>>} : buf' = [buf EXCEPT ![w] = rows]
  BY DEF LoadProbes
<1>3. rows \in Lists /\ \A k \in DOMAIN rows : KnownRow(rows[k])
  <2>1. <<>> \in Lists /\ DOMAIN <<>> = {}
    BY PagesBounds DEF Lists
  <2>2. rows \in EnabledProbes => rows \in Lists /\ \A k \in DOMAIN rows : KnownRow(rows[k])
    BY QueryIsFine DEF PagesInv
  <2> QED BY <2>1, <2>2
<1>4. buf' \in [Workers -> Lists] /\ buf'[w] = rows /\ \A v \in Workers \ {w} : buf'[v] = buf[v]
  BY <1>2, <1>3 DEF PagesInv, TypesFit
<1>5. at' \in [Workers -> Steps] /\ at'[w] = "assign" /\ \A v \in Workers \ {w} : at'[v] = at[v]
  BY <1>1, GotoFacts DEF PagesInv, TypesFit, Steps
<1>6. at'["ui"] = at["ui"] \/ (w = "ui" /\ at'["ui"] = "assign")
  BY <1>5, WorkersFacts
<1>7. TypesFit' /\ CursorFits' /\ MessagesFit'
  BY <1>1, <1>4, <1>5, <1>6 DEF PagesInv, TypesFit, CursorFits, MessagesFit
<1>8. FetchesFit'
  BY <1>1, <1>5, WorkersFacts DEF PagesInv, FetchesFit
<1>9. UiFits'
  <2>1. CASE w = "ui"
    BY <1>1, <1>5, <2>1, UiLoading DEF PagesInv
  <2>2. CASE w # "ui"
    <3>1. buf'["ui"] = buf["ui"] /\ at'["ui"] = at["ui"]
      BY <1>4, <1>5, <2>2, WorkersFacts
    <3> QED BY <1>1, <3>1, UiSame DEF PagesInv
  <2> QED BY <2>1, <2>2
<1>10. RowsKnown'
  <2>1. \A k \in DOMAIN list : KnownRow(list[k])'
    BY <1>1 DEF PagesInv, RowsKnown, KnownRow, store
  <2>2. \A k \in DOMAIN buf'[w] : KnownRow(buf[w][k])'
    BY <1>1, <1>3, <1>4 DEF KnownRow, store
  <2>3. \A v \in Workers \ {w} : \A k \in DOMAIN buf'[v] : KnownRow(buf[v][k])'
    BY <1>1, <1>4 DEF PagesInv, RowsKnown, KnownRow, store
  <2> QED BY <1>1, <2>1, <2>2, <2>3 DEF RowsKnown
<1>11. Schema' /\ StaleListsAreSafe'
  BY <1>1, StoreStays, StoreMovesKeep DEF PagesInv, StaleListsAreSafe, ConfirmedIsDeleted
<1> QED BY <1>7, <1>8, <1>9, <1>10, <1>11 DEF PagesInv

LEMMA AssignProbesKeeps ==
  ASSUME PagesInv, NEW w \in Workers, AssignProbes(w)
  PROVE  PagesInv'
<1>1. /\ at[w] = "assign" /\ Goto(w, "providers") /\ list' = buf[w] /\ dialog' = Touched(w)
      /\ buf' = [buf EXCEPT ![w] = <<>>]
      /\ UNCHANGED <<store, page, provs, cursor, msgs, target, last, edits>>
  BY DEF AssignProbes
<1>2. <<>> \in Lists
  BY PagesBounds DEF Lists
<1>3. /\ buf' \in [Workers -> Lists] /\ buf'[w] = <<>> /\ list' \in Lists
      /\ \A v \in Workers \ {w} : buf'[v] = buf[v]
  BY <1>1, <1>2 DEF PagesInv, TypesFit
<1>4. at' \in [Workers -> Steps] /\ at'[w] = "providers" /\ \A v \in Workers \ {w} : at'[v] = at[v]
  BY <1>1, GotoFacts DEF PagesInv, TypesFit, Steps
<1>5. at'["ui"] = at["ui"] \/ (w = "ui" /\ at'["ui"] = "providers")
  BY <1>4, WorkersFacts
<1>6. /\ dialog' \in Dialog /\ dialog'.n = dialog.n /\ dialog'.kind = dialog.kind
      /\ dialog'.about = dialog.about
      /\ dialog'.touched = (dialog.touched \/ (w # "ui" /\ dialog.kind = "confirm"))
  BY <1>1, TouchedFacts DEF PagesInv, TypesFit
<1>7. TypesFit' /\ CursorFits' /\ MessagesFit'
  BY <1>1, <1>3, <1>4, <1>5, <1>6 DEF PagesInv, TypesFit, CursorFits, MessagesFit
<1>8. FetchesFit'
  BY <1>1, <1>4, WorkersFacts DEF PagesInv, FetchesFit
<1>9. UiFits'
  <2>1. CASE w = "ui"
    BY <1>1, <1>4, <1>6, <2>1, UiLoading DEF PagesInv
  <2>2. CASE w # "ui"
    <3>1. buf'["ui"] = buf["ui"] /\ at'["ui"] = at["ui"]
      BY <1>3, <1>4, <2>2, WorkersFacts
    <3> QED BY <1>1, <1>6, <2>2, <3>1, UiTouched DEF PagesInv
  <2> QED BY <2>1, <2>2
<1>10. RowsKnown'
  <2>1. \A k \in DOMAIN list' : KnownRow(list[k])'
    BY <1>1 DEF PagesInv, RowsKnown, KnownRow, store
  <2>2. DOMAIN buf'[w] = {}
    BY <1>3
  <2>3. \A v \in Workers \ {w} : \A k \in DOMAIN buf'[v] : KnownRow(buf[v][k])'
    BY <1>1, <1>3 DEF PagesInv, RowsKnown, KnownRow, store
  <2> QED BY <2>1, <2>2, <2>3 DEF RowsKnown
<1>11. Schema' /\ StaleListsAreSafe'
  BY <1>1, StoreStays, StoreMovesKeep DEF PagesInv, StaleListsAreSafe, ConfirmedIsDeleted
<1> QED BY <1>7, <1>8, <1>9, <1>10, <1>11 DEF PagesInv

LEMMA LoadProvidersKeeps ==
  ASSUME PagesInv, NEW w \in Workers, LoadProviders(w)
  PROVE  PagesInv'
<1>1. /\ at[w] = "providers" /\ Goto(w, "clamp") /\ provs' \in {ListProviders, {}}
      /\ UNCHANGED <<store, page, dialog, list, cursor, msgs, buf, target, last, edits>>
  BY DEF LoadProviders
<1>2. provs' \subseteq Choice
  BY <1>1, ChoicesAreFine DEF PagesInv
<1>3. at' \in [Workers -> Steps] /\ at'[w] = "clamp" /\ \A v \in Workers \ {w} : at'[v] = at[v]
  BY <1>1, GotoFacts DEF PagesInv, TypesFit, Steps
<1>4. at'["ui"] = at["ui"] \/ (w = "ui" /\ at'["ui"] = "clamp")
  BY <1>3, WorkersFacts
<1>5. TypesFit' /\ CursorFits' /\ MessagesFit'
  BY <1>1, <1>2, <1>3, <1>4 DEF PagesInv, TypesFit, CursorFits, MessagesFit
<1>6. FetchesFit'
  BY <1>1, <1>3, WorkersFacts DEF PagesInv, FetchesFit
<1>7. UiFits'
  <2>1. CASE at'["ui"] = at["ui"]
    BY <1>1, <2>1, UiSame DEF PagesInv
  <2>2. CASE at'["ui"] = "clamp"
    BY <1>1, <2>2, UiLoading DEF PagesInv
  <2> QED BY <1>4, <2>1, <2>2
<1> QED BY <1>1, <1>5, <1>6, <1>7, StoreStays, AssembledQuiet

LEMMA ClampCursorKeeps ==
  ASSUME PagesInv, NEW w \in Workers, ClampCursor(w)
  PROVE  PagesInv'
<1>1. /\ at[w] = "clamp" /\ Goto(w, "idle") /\ cursor' = Clamped
      /\ dialog' = IF w = "ui" THEN Closed ELSE Touched(w)
      /\ UNCHANGED <<store, page, list, provs, msgs, buf, target, last, edits>>
  BY DEF ClampCursor
<1>2. at' \in [Workers -> Steps] /\ at'[w] = "idle" /\ \A v \in Workers \ {w} : at'[v] = at[v]
  BY <1>1, GotoFacts DEF PagesInv, TypesFit, Steps
<1>3. at'["ui"] = at["ui"] \/ (w = "ui" /\ at'["ui"] = "idle")
  BY <1>2, WorkersFacts
<1>4. dialog \in Dialog
  BY DEF PagesInv, TypesFit
<1>5. /\ dialog' \in Dialog /\ dialog'.n = dialog.n
      /\ dialog'.kind = dialog.kind \/ dialog'.kind = "none"
      /\ dialog'.kind # "none" => dialog'.about = dialog.about
      /\ w = "ui" => dialog'.kind = "none"
      /\ w # "ui" => /\ dialog'.kind = dialog.kind /\ dialog'.about = dialog.about
                     /\ dialog.kind = "confirm" => dialog'.touched
  <2>1. CASE w = "ui"
    BY <1>1, <1>4, <2>1, ClosedFacts
  <2>2. CASE w # "ui"
    <3>1. dialog' = Touched(w)
      BY <1>1, <2>2
    <3>2. dialog' \in Dialog /\ dialog'.n = dialog.n /\ dialog'.kind = dialog.kind
          /\ dialog'.about = dialog.about
          /\ dialog'.touched = (dialog.touched \/ (w # "ui" /\ dialog.kind = "confirm"))
      BY <1>4, <3>1, TouchedFacts
    <3> QED BY <2>2, <3>2
  <2> QED BY <2>1, <2>2
<1>6. CursorFits'
  <2>1. Len(list) \in Nat /\ Len(list) <= MaxProbes /\ CursorFits
    BY ListRows DEF PagesInv, TypesFit
  <2>2. cursor \in Int /\ cursor >= -1 /\ (cursor < MaxProbes \/ cursor = 0)
    BY <2>1 DEF CursorFits
  <2>3. /\ cursor' \in Nat /\ (cursor' < MaxProbes \/ cursor' = 0)
        /\ cursor' <= cursor \/ cursor' = 0
    BY <1>1, <2>1, <2>2, PagesBounds DEF Clamped
  <2>4. /\ at["ui"] = "up" => MaxProbes > 1
        /\ at["ui"] = "down" => cursor + 1 < MaxProbes /\ MaxProbes > 1
    BY <2>1 DEF CursorFits
  <2>5. at'["ui"] \in {"up", "down"} => at["ui"] = at'["ui"]
    BY <1>3
  <2>6. at["ui"] = "down" => cursor' + 1 < MaxProbes
    <3> SUFFICES ASSUME at["ui"] = "down" PROVE cursor' + 1 < MaxProbes
      OBVIOUS
    <3>1. MaxProbes \in Nat /\ MaxProbes > 1 /\ cursor + 1 < MaxProbes /\ cursor \in Int /\ cursor' \in Nat
      BY <2>2, <2>3, <2>4, PagesBounds
    <3> DEFINE c == cursor'
    <3>2. c \in Nat /\ (c <= cursor \/ c = 0)
      BY <2>3
    <3> HIDE DEF c
    <3>3. c + 1 < MaxProbes
      BY <3>1, <3>2
    <3> QED BY <3>3 DEF c
  <2>7. /\ cursor' \in Int /\ cursor' >= -1 /\ (cursor' < MaxProbes \/ cursor' = 0)
        /\ cursor' # -1 /\ cursor' >= 0
    BY <2>3
  <2> QED BY <2>4, <2>5, <2>6, <2>7 DEF CursorFits
<1>7. TypesFit'
  BY <1>1, <1>2, <1>5 DEF PagesInv, TypesFit
<1>8. FetchesFit'
  BY <1>1, <1>2, WorkersFacts DEF PagesInv, FetchesFit
<1>9. MessagesFit'
  BY <1>1, <1>5 DEF PagesInv, MessagesFit
<1>10. UiFits'
  <2>1. CASE w = "ui"
    BY <1>2, <1>5, <2>1, UiWithoutConfirmation
  <2>2. CASE w # "ui"
    <3>1. at'["ui"] = at["ui"]
      BY <1>3, <2>2
    <3> QED BY <1>1, <1>5, <2>2, <3>1, UiTouched DEF PagesInv
  <2> QED BY <2>1, <2>2
<1> QED BY <1>1, <1>6, <1>7, <1>8, <1>9, <1>10, StoreStays, AssembledQuiet

----------------------------------------------------------------------------
LEMMA WebEditKeeps ==
  ASSUME PagesInv, WebEdit
  PROVE  PagesInv'
<1>1. /\ edits < MaxEdits /\ edits' = edits + 1 /\ UserEdit
      /\ UNCHANGED <<page, dialog, list, provs, cursor, msgs, at, buf, target, last>>
  BY DEF WebEdit, fields, workers
<1>2. edits' \in 0..MaxEdits
  BY <1>1, PagesBounds DEF PagesInv, TypesFit
<1>3. TypesFit' /\ FetchesFit' /\ CursorFits' /\ MessagesFit'
  BY <1>1, <1>2 DEF PagesInv, TypesFit, FetchesFit, CursorFits, MessagesFit
<1>4. UiFits'
  BY <1>1, UiSame DEF PagesInv
<1> QED BY <1>1, <1>3, <1>4, AssembledQuiet DEF StoreMoves

LEMMA StutterKeeps ==
  ASSUME PagesInv, UNCHANGED vars
  PROVE  PagesInv'
<1>1. UNCHANGED <<store, page, dialog, list, provs, cursor, msgs, at, buf, target, last, edits>>
  BY DEF vars, fields, workers
<1>2. TypesFit' /\ FetchesFit' /\ CursorFits' /\ MessagesFit'
  BY <1>1 DEF PagesInv, TypesFit, FetchesFit, CursorFits, MessagesFit
<1>3. UiFits'
  BY <1>1, UiSame DEF PagesInv
<1> QED BY <1>1, <1>2, <1>3, StoreStays, AssembledQuiet

LEMMA StepKeeps == PagesInv /\ [Next]_vars => PagesInv'
<1> SUFFICES ASSUME PagesInv, [Next]_vars PROVE PagesInv'
  OBVIOUS
<1>1. CASE Keys
  BY <1>1, NavigateKeeps, ListKeysKeep, ClearKeyKeeps, FormKeyKeeps, AnswerKeyKeeps DEF Keys
<1>2. CASE Handler
  BY <1>2, MoveCursorKeeps, ShowDeleteConfirmKeeps, IndexKeeps, DeleteSelectedKeeps DEF Handler
<1>3. CASE WebEdit
  BY <1>3, WebEditKeeps
<1>4. ASSUME NEW m \in msgs, Arrival(m) PROVE PagesInv'
  BY <1>4, QuietArrivals, ConfirmClearKeeps, ConfirmDeleteKeeps, SubmitAddKeeps, SubmitFetchKeeps
     DEF Arrival
<1>5. ASSUME NEW g \in Fetches, Fetch(g) PROVE PagesInv'
  BY <1>5, FetchKeeps
<1>6. ASSUME NEW w \in Workers, LoadData(w) PROVE PagesInv'
  BY <1>6, LoadProbesKeeps, AssignProbesKeeps, LoadProvidersKeeps, ClampCursorKeeps DEF LoadData
<1>7. CASE UNCHANGED vars
  BY <1>7, StutterKeeps
<1> QED BY <1>1, <1>2, <1>3, <1>4, <1>5, <1>6, <1>7 DEF Next

(* However many goroutines reload the page, messages arrive late and web   *)
(* clients edit: the rows of the list were rows of the table, a message    *)
(* says what its dialog asked, and the row under the cursor of an open     *)
(* confirmation that no goroutine touched is the row it asks about.        *)
THEOREM PagesInvariant == Spec => []PagesInv
<1> QED BY InitIsFine, StepKeeps, PTL DEF Spec

(* Types, and a cursor that never passes the longest list there can be,    *)
(* nor falls below -1, which the UI's key checks and a concurrent clamp    *)
(* may reach between them (models.go, the keys up and down).               *)
THEOREM PagesTypeCorrect == Spec => []TypeOK
<1>1. PagesInv => TypeOK
  <2> SUFFICES ASSUME PagesInv PROVE TypeOK
    OBVIOUS
  <2>1. StoreTypeOK /\ Rows = Asked
    BY DEF PagesInv, Schema, Rows, Asked
  <2>2. /\ dialog.n \in 0..MaxDialogs /\ dialog.kind \in {"none", "confirm", "form"}
        /\ dialog.about \in Asked \cup {NoRow} /\ dialog.keys \in 0..MaxKeys
        /\ dialog.names \subseteq Names
    <3>1. dialog \in Dialog
      BY DEF PagesInv, TypesFit
    <3> QED BY <3>1 DEF Dialog, About
  <2>3. \A i \in DOMAIN list : list[i] \in Asked
    BY ListRows DEF PagesInv, TypesFit
  <2>4. cursor \in (-1..MaxProbes - 1) \cup {0}
    BY PagesBounds DEF PagesInv, CursorFits
  <2> QED BY <2>1, <2>2, <2>3, <2>4 DEF PagesInv, TypesFit, TypeOK
<1> QED BY <1>1, PagesInvariant, PTL

(* What the models page deletes, and what the statistics page clears, is   *)
(* what the dialog named that the user said yes to, unless a goroutine     *)
(* reloaded the page under the open dialog or the answer of an earlier     *)
(* dialog arrived at it: stale lists alone never hit another model.        *)
THEOREM StaleListsAreHarmless == Spec => []StaleListsAreSafe
<1>1. PagesInv => StaleListsAreSafe
  BY DEF PagesInv
<1> QED BY <1>1, PagesInvariant, PTL
==============================================================================
