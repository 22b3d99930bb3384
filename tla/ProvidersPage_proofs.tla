------------------------- MODULE ProvidersPage_proofs ------------------------
(***************************************************************************)
(* The providers page, for any number of providers, names, keys, dialogs   *)
(* and web clients: what an answer changes is what its dialog showed.      *)
(***************************************************************************)
EXTENDS ProvidersPage, Store_proofs, FiniteSetTheorems

Form    == [name : Names \cup {0}, type : APITypes, key : KeyValues \cup {0}, tokens : Nat]
ListRow == [id : ProviderIds, name : Names, enabled : BOOLEAN, conf : Conf]
Dialog  == [n : 0..MaxDialogs, kind : {"none", "add", "edit", "confirm"},
            row : ListRow \cup {NoProvider}, form : Form, keys : 0..MaxKeys]

(* Every provider has its other columns. *)
ConfFits == DOMAIN conf = DOMAIN providers /\ \A i \in DOMAIN conf : conf[i] \in Conf

(* The list may be stale, but its rows were rows, and the cursor is on one *)
(* of them.                                                                *)
ListFits ==
  /\ list \in Seq(ListRow) /\ cursor \in Nat
  /\ list # <<>> => cursor < Len(list)

(* What a dialog is about, and what p.editing and the cursor say of it:    *)
(* they agree as long as it is open, whatever a dialog before it left.     *)
DialogFits ==
  /\ dialog.kind = "add" => editing = NoProvider /\ dialog.row = NoProvider
  /\ dialog.kind = "edit" =>
       dialog.row \in ListRow /\ editing = dialog.row /\ dialog.form = Filled(dialog.row)
  /\ dialog.kind = "confirm" => cursor < Len(list) /\ dialog.row = list[cursor + 1]

(* What was typed is of the kind the columns hold. *)
FormsFit == \A m \in msgs : m.answer = "submit" => m.form \in Form

Others == /\ editing \in ListRow \cup {NoProvider}
          /\ loading \in BOOLEAN /\ edits \in 0..MaxEdits
          /\ shown \in {"", "required", "error", "updated", "added", "deleted"}

PageInv == Schema /\ ConfFits /\ ListFits /\ dialog \in Dialog /\ DialogFits /\ FormsFit /\ Others

USE DEF table, store, AddedEditing, ConfirmedRow

LEMMA BoundsAreNat == MaxDialogs \in Nat /\ MaxKeys \in Nat /\ MaxEdits \in Nat
BY PageAssumption

----------------------------------------------------------------------------
(* The statements, with all columns. *)

LEMMA InsertedKeeps ==
  ASSUME Schema, ConfFits, NEW n \in Names, NEW e \in BOOLEAN, NEW c \in Conf, Inserted(n, e, c)
  PROVE  /\ Schema' /\ ConfFits'
         /\ seq.providers + 1 \notin DOMAIN providers
         /\ DOMAIN providers' = DOMAIN providers \cup {seq.providers + 1}
         /\ \A i \in DOMAIN providers : providers'[i] = providers[i] /\ conf'[i] = conf[i]
<1> DEFINE new == seq.providers + 1
           row == [name |-> n, enabled |-> e]
<1>1. CreateProvider(n, e) /\ conf' = With(conf, new, c) /\ providers' = With(providers, new, row)
  BY DEF Inserted, CreateProvider
<1>2. new \notin DOMAIN providers
  BY BoundsAssumption DEF Schema, StoreTypeOK, IdsWithinSeq, ProviderIds
<1>3. Schema'
  BY <1>1, CreateProviderKeepsSchema
<1> HIDE DEF new, row
<1>4. /\ DOMAIN providers' = DOMAIN providers \cup {new}
      /\ \A i \in DOMAIN providers : i # new => providers'[i] = providers[i]
  BY <1>1 DEF With
<1>5. /\ DOMAIN conf' = DOMAIN conf \cup {new} /\ conf'[new] = c
      /\ \A i \in DOMAIN conf : i # new => conf'[i] = conf[i]
  BY <1>1 DEF With
<1>6. ConfFits'
  BY <1>4, <1>5 DEF ConfFits
<1>7. \A i \in DOMAIN providers : providers'[i] = providers[i] /\ conf'[i] = conf[i]
  BY <1>2, <1>4, <1>5 DEF ConfFits
<1> QED BY <1>2, <1>3, <1>4, <1>6, <1>7 DEF new

LEMMA UpdatedKeeps ==
  ASSUME Schema, ConfFits, NEW id \in ProviderIds, NEW n \in Names, NEW e \in BOOLEAN, NEW c \in Conf,
         Updated(id, n, e, c)
  PROVE  /\ Schema' /\ ConfFits'
         /\ DOMAIN providers' = DOMAIN providers
         /\ \A i \in DOMAIN providers \ {id} : providers'[i] = providers[i] /\ conf'[i] = conf[i]
         /\ id \in DOMAIN providers => providers'[id] = [name |-> n, enabled |-> e] /\ conf'[id] = c
<1>1. Schema'
  BY UpdateProviderKeepsSchema DEF Updated
<1>2. providers' = [providers EXCEPT ![id] = [name |-> n, enabled |-> e]] /\ conf' = [conf EXCEPT ![id] = c]
  BY DEF Updated, UpdateProvider
<1> QED BY <1>1, <1>2 DEF ConfFits

LEMMA DeletedKeeps ==
  ASSUME Schema, ConfFits, NEW id \in ProviderIds, Deleted(id)
  PROVE  /\ Schema' /\ ConfFits'
         /\ DOMAIN providers' = DOMAIN providers \ {id}
         /\ \A i \in DOMAIN providers \ {id} : providers'[i] = providers[i] /\ conf'[i] = conf[i]
<1>1. Schema'
  BY DeleteProviderKeepsSchema DEF Deleted
<1> DEFINE kept == ProviderIds \ {id}
<1>2. providers' = Keep(providers, kept) /\ conf' = Keep(conf, kept)
  BY DEF Deleted, DeleteProvider
<1>3. DOMAIN providers \subseteq ProviderIds
  BY DEF Schema, StoreTypeOK
<1>4. /\ DOMAIN providers' = kept \cap DOMAIN providers
      /\ \A i \in DOMAIN providers' : providers'[i] = providers[i]
  BY <1>2 DEF Keep, Restrict
<1>5. /\ DOMAIN conf' = kept \cap DOMAIN conf
      /\ \A i \in DOMAIN conf' : conf'[i] = conf[i]
  BY <1>2 DEF Keep, Restrict
<1> QED BY <1>1, <1>3, <1>4, <1>5 DEF ConfFits

LEMMA TableStays ==
  ASSUME Schema, ConfFits, UNCHANGED table
  PROVE  Schema' /\ ConfFits'
BY DEF Schema, StoreTypeOK, IdsWithinSeq, ReferentialIntegrity, ProbesHaveProvider,
   ResultsHaveProbe, ConfFits

----------------------------------------------------------------------------
(* Forms and lists. *)

LEMMA BlankIsForm == Blank \in Form
BY DEF Blank, Form, APITypes

LEMMA FilledIsForm ==
  ASSUME NEW row \in ListRow
  PROVE  Filled(row) \in Form
BY DEF Filled, Form, ListRow, Conf, APITypes

LEMMA FillingIsForm ==
  ASSUME NEW form \in Form, NEW v \in Filling(form)
  PROVE  v \in Form
BY PageAssumption DEF Filling, Form

LEMMA FormMakesConf ==
  ASSUME NEW v \in Form, ~IsIncomplete(v)
  PROVE  ConfOf(v) \in Conf /\ v.name \in Names
BY DEF IsIncomplete, ConfOf, Conf, Form, DefaultTokens

LEMMA ListingIsFinite ==
  ASSUME Schema
  PROVE  Cardinality(Listing) \in Nat
<1>1. IsFiniteSet(DOMAIN providers)
  <2>1. DOMAIN providers \in SUBSET (1..MaxProviders)
    BY DEF Schema, StoreTypeOK, ProviderIds
  <2>2. IsFiniteSet(1..MaxProviders)
    BY BoundsAssumption, FS_Interval
  <2> QED BY <2>1, <2>2, FS_Subset
<1> DEFINE f == [i \in DOMAIN providers |-> Listed(i)]
<1>2. f \in Surjection(DOMAIN providers, Listing)
  BY DEF Surjection, Listing
<1> HIDE DEF f
<1> QED BY <1>1, <1>2, FS_Surjection, FS_CardinalityType

LEMMA ListIsFine ==
  ASSUME Schema, ConfFits, NEW rows \in ListProviders
  PROVE  rows \in Seq(ListRow)
<1>1. \A i \in DOMAIN providers : Listed(i) \in ListRow
  BY DEF Schema, StoreTypeOK, ConfFits, Listed, ListRow, Provider
<1>2. Listing \subseteq ListRow
  BY <1>1 DEF Listing
<1>3. rows \in [1..Cardinality(Listing) -> ListRow]
  BY <1>2 DEF ListProviders
<1> QED BY <1>3, ListingIsFinite

(* A dialog that is opened, with the keys counted so far, and none. *)
LEMMA OpenedFacts ==
  ASSUME dialog \in Dialog, NEW kind \in {"add", "edit", "confirm"},
         NEW row \in ListRow \cup {NoProvider}, NEW form \in Form, dialog.n < MaxDialogs
  PROVE  /\ Opened(kind, row, form) \in Dialog
         /\ Opened(kind, row, form).kind = kind /\ Opened(kind, row, form).row = row
         /\ Opened(kind, row, form).form = form
BY BoundsAreNat DEF Opened, Dialog

LEMMA NoDialogFacts ==
  ASSUME NEW n \in 0..MaxDialogs, NEW keys \in 0..MaxKeys
  PROVE  NoDialog(n, keys) \in Dialog /\ NoDialog(n, keys).kind = "none"
BY BlankIsForm DEF NoDialog, Dialog

LEMMA ClosedFacts ==
  ASSUME dialog \in Dialog
  PROVE  Closed \in Dialog /\ Closed.kind = "none"
<1>1. dialog.n \in 0..MaxDialogs /\ dialog.keys \in 0..MaxKeys
  BY DEF Dialog
<1> QED BY <1>1, NoDialogFacts DEF Closed

LEMMA CursorRow ==
  ASSUME ListFits, list # <<>>
  PROVE  cursor + 1 \in DOMAIN list /\ list[cursor + 1] \in ListRow
BY DEF ListFits

LEMMA NotEmpty ==
  ASSUME NEW rows \in Seq(ListRow), rows # <<>>
  PROVE  Len(rows) \in Nat /\ Len(rows) > 0
OBVIOUS

(* Nothing but the dialog and the message moves. *)
LEMMA OnlyDialog ==
  ASSUME PageInv, UNCHANGED <<table, list, cursor, msgs, loading, edits>>,
         dialog' \in Dialog, DialogFits', editing' \in ListRow \cup {NoProvider},
         shown' \in {"", "required", "error", "updated", "added", "deleted"}
  PROVE  PageInv'
<1>1. Schema' /\ ConfFits'
  BY TableStays DEF PageInv
<1> QED BY <1>1 DEF PageInv, ListFits, FormsFit, Others

----------------------------------------------------------------------------
LEMMA InitIsFine == Init => PageInv
<1> SUFFICES ASSUME Init PROVE PageInv
  OBVIOUS
<1>1. Schema
  BY StoreInitIsFine DEF Init
<1>2. ConfFits
  BY PageAssumption DEF Init, StoreInit, ConfFits
<1>3. list \in Seq(ListRow) /\ cursor = 0
  BY <1>1, <1>2, ListIsFine DEF Init
<1>4. ListFits
  BY <1>3, NotEmpty DEF ListFits
<1>5. dialog \in Dialog /\ dialog.kind = "none"
  <2>1. 0 \in 0..MaxDialogs /\ 0 \in 0..MaxKeys
    BY BoundsAreNat
  <2> QED BY <2>1, NoDialogFacts DEF Init
<1>6. DialogFits
  BY <1>5 DEF DialogFits
<1>7. FormsFit /\ Others
  <2>1. 0 \in 0..MaxEdits
    BY BoundsAreNat
  <2> QED BY <2>1 DEF Init, FormsFit, Others
<1> QED BY <1>1, <1>2, <1>4, <1>5, <1>6, <1>7 DEF PageInv

LEMMA EndKeyKeeps ==
  ASSUME PageInv, NEW answer, NEW form, EndKey(answer, form), answer = "submit" => form \in Form
  PROVE  PageInv' /\ UNCHANGED table /\ msgs \subseteq msgs'
<1>1. dialog' = [dialog EXCEPT !.keys = @ + 1] /\ dialog \in Dialog /\ dialog.keys < MaxKeys
  BY DEF EndKey, PageInv
<1>2. /\ dialog' \in Dialog /\ dialog'.kind = dialog.kind /\ dialog'.row = dialog.row
      /\ dialog'.form = dialog.form
  BY <1>1, BoundsAreNat DEF Dialog
<1> DEFINE m == [n |-> dialog.n, key |-> dialog.keys, answer |-> answer, form |-> form]
<1>3. msgs' = msgs \cup {m} /\ m.answer = answer /\ m.form = form
  BY DEF EndKey
<1> HIDE DEF m
<1>4. FormsFit'
  BY <1>3 DEF FormsFit, PageInv
<1>5. UNCHANGED <<table, list, cursor, editing, loading, shown, edits>>
  BY DEF EndKey
<1>6. Schema' /\ ConfFits'
  BY <1>5, TableStays DEF PageInv
<1>7. ListFits' /\ DialogFits' /\ Others'
  BY <1>2, <1>5 DEF PageInv, ListFits, DialogFits, Others
<1> QED BY <1>2, <1>3, <1>4, <1>5, <1>6, <1>7 DEF PageInv

(* Keys leave the tables alone. *)
LEMMA KeysKeep ==
  ASSUME PageInv, Key
  PROVE  PageInv' /\ UNCHANGED table /\ msgs \subseteq msgs'
<1>0. dialog \in Dialog
  BY DEF PageInv
<1>1. CASE MoveKey
  <2>1. /\ UNCHANGED <<table, list, dialog, editing, msgs, loading, edits>>
        /\ shown' = "" /\ dialog.kind = "none"
    BY <1>1 DEF MoveKey
  <2>2. list \in Seq(ListRow) /\ Len(list) \in Nat /\ cursor \in Nat /\ (list # <<>> => cursor < Len(list))
    BY DEF PageInv, ListFits
  <2>3. cursor' \in Nat /\ (list # <<>> => cursor' < Len(list))
    <3>1. \/ cursor > 0 /\ cursor' = cursor - 1
          \/ cursor < Len(list) - 1 /\ cursor' = cursor + 1
      BY <1>1 DEF MoveKey
    <3> QED BY <2>2, <3>1
  <2>4. ListFits' /\ DialogFits'
    BY <2>1, <2>2, <2>3 DEF ListFits, DialogFits
  <2>5. Schema' /\ ConfFits'
    BY <2>1, TableStays DEF PageInv
  <2> QED BY <2>1, <2>4, <2>5 DEF PageInv, FormsFit, Others
<1>2. CASE ShowAddForm
  <2>1. dialog' = Opened("add", NoProvider, Blank) /\ dialog.n < MaxDialogs
    BY <1>2 DEF ShowAddForm, OnList
  <2>2. dialog' \in Dialog /\ dialog'.kind = "add" /\ dialog'.row = NoProvider
    BY <1>0, <2>1, OpenedFacts, BlankIsForm
  <2>3. UNCHANGED <<table, list, cursor, msgs, loading, edits>> /\ editing' = NoProvider /\ shown' = ""
    BY <1>2 DEF ShowAddForm
  <2>4. DialogFits'
    BY <2>2, <2>3 DEF DialogFits
  <2> QED BY <2>2, <2>3, <2>4, OnlyDialog
<1>3. CASE ShowEditForm
  <2> DEFINE row == list[cursor + 1]
  <2>1. row \in ListRow /\ Filled(row) \in Form
    BY <1>3, CursorRow, FilledIsForm DEF ShowEditForm, PageInv
  <2>2. dialog' = Opened("edit", row, Filled(row)) /\ dialog.n < MaxDialogs /\ editing' = row
    BY <1>3 DEF ShowEditForm, OnList
  <2> HIDE DEF row
  <2>3. dialog' \in Dialog /\ dialog'.kind = "edit" /\ dialog'.row = row /\ dialog'.form = Filled(row)
    BY <1>0, <2>1, <2>2, OpenedFacts
  <2>4. UNCHANGED <<table, list, cursor, msgs, loading, edits>> /\ shown' = ""
    BY <1>3 DEF ShowEditForm
  <2>5. DialogFits'
    BY <2>1, <2>2, <2>3 DEF DialogFits
  <2> QED BY <2>1, <2>2, <2>3, <2>4, <2>5, OnlyDialog
<1>4. CASE ShowDeleteConfirm
  <2> DEFINE row == list[cursor + 1]
  <2>1. row \in ListRow /\ list # <<>>
    BY <1>4, CursorRow DEF ShowDeleteConfirm, PageInv
  <2>2. dialog' = Opened("confirm", row, Blank) /\ dialog.n < MaxDialogs
    BY <1>4 DEF ShowDeleteConfirm, OnList
  <2>3. UNCHANGED <<table, list, cursor, editing, msgs, loading, edits>> /\ shown' = ""
    BY <1>4 DEF ShowDeleteConfirm
  <2>4. cursor < Len(list)
    BY <2>1 DEF PageInv, ListFits
  <2>5. row' = row
    BY <2>3
  <2> HIDE DEF row
  <2>6. dialog' \in Dialog /\ dialog'.kind = "confirm" /\ dialog'.row = row
    BY <1>0, <2>1, <2>2, OpenedFacts, BlankIsForm
  <2>7. DialogFits'
    BY <2>3, <2>4, <2>5, <2>6 DEF DialogFits, row
  <2>8. editing' \in ListRow \cup {NoProvider}
    BY <2>3 DEF PageInv, Others
  <2> QED BY <2>3, <2>6, <2>7, <2>8, OnlyDialog
<1>5. ASSUME NEW form \in Filling(dialog.form), EndKey("submit", form)
      PROVE  PageInv' /\ UNCHANGED table /\ msgs \subseteq msgs'
  <2>1. dialog.form \in Form
    BY <1>0 DEF Dialog
  <2>2. form \in Form
    BY <2>1, FillingIsForm
  <2> QED BY <1>5, <2>2, EndKeyKeeps
<1>6. ASSUME NEW answer \in {"cancel", "yes", "no"}, EndKey(answer, Blank)
      PROVE  PageInv' /\ UNCHANGED table /\ msgs \subseteq msgs'
  BY <1>6, BlankIsForm, EndKeyKeeps
<1>7. CASE MoveKey \/ ShowAddForm \/ ShowEditForm \/ ShowDeleteConfirm
  <2>1. UNCHANGED <<table, msgs>>
    BY <1>7 DEF MoveKey, ShowAddForm, ShowEditForm, ShowDeleteConfirm
  <2> QED BY <1>1, <1>2, <1>3, <1>4, <1>7, <2>1
<1> QED BY <1>5, <1>6, <1>7 DEF Key

LEMMA LoadKeeps ==
  ASSUME PageInv, LoadProviders
  PROVE  PageInv'
<1>1. /\ \/ list' \in ListProviders /\ cursor' = Clamped(list')
         \/ list' = <<>> /\ UNCHANGED cursor
      /\ dialog' = Closed
      /\ editing' \in {editing, NoProvider} /\ loading' = FALSE
      /\ UNCHANGED <<table, msgs, shown, edits>>
  BY DEF LoadProviders
<1>2. list' \in Seq(ListRow)
  <2>1. \A rows \in ListProviders : rows \in Seq(ListRow)
    BY ListIsFine DEF PageInv
  <2>2. <<>> \in Seq(ListRow)
    OBVIOUS
  <2> QED BY <1>1, <2>1, <2>2
<1>3. cursor' \in Nat /\ (list' # <<>> => cursor' < Len(list'))
  <2>1. cursor \in Nat /\ Len(list') \in Nat /\ (list' # <<>> => Len(list') > 0)
    BY <1>2, NotEmpty DEF PageInv, ListFits
  <2> QED BY <1>1, <2>1 DEF Clamped
<1>4. dialog' \in Dialog /\ dialog'.kind = "none"
  BY <1>1, ClosedFacts DEF PageInv
<1>5. Schema' /\ ConfFits'
  BY <1>1, TableStays DEF PageInv
<1>6. ListFits' /\ DialogFits'
  BY <1>2, <1>3, <1>4 DEF ListFits, DialogFits
<1>7. FormsFit' /\ Others'
  BY <1>1 DEF PageInv, FormsFit, Others
<1> QED BY <1>4, <1>5, <1>6, <1>7 DEF PageInv

LEMMA WebKeeps ==
  ASSUME PageInv, WebEdit
  PROVE  PageInv'
<1>0. Schema /\ ConfFits /\ DOMAIN providers \subseteq ProviderIds /\ WebConfs \subseteq Conf
  BY PageAssumption DEF PageInv, Schema, StoreTypeOK
<1>1. Schema' /\ ConfFits'
  <2>1. ASSUME NEW n \in Names, NEW c \in WebConfs, Inserted(n, TRUE, c) PROVE Schema' /\ ConfFits'
    BY <1>0, <2>1, InsertedKeeps
  <2>2. ASSUME NEW id \in DOMAIN providers, NEW n \in Names, NEW e \in BOOLEAN, NEW c \in WebConfs,
               Updated(id, n, e, c)
        PROVE  Schema' /\ ConfFits'
    BY <1>0, <2>2, UpdatedKeeps
  <2>3. ASSUME NEW id \in DOMAIN providers, Deleted(id) PROVE Schema' /\ ConfFits'
    BY <1>0, <2>3, DeletedKeeps
  <2> QED BY <2>1, <2>2, <2>3 DEF WebEdit
<1>2. edits < MaxEdits /\ edits' = edits + 1 /\ UNCHANGED <<list, cursor, dialog, editing, msgs, loading, shown>>
  BY DEF WebEdit
<1>3. edits' \in 0..MaxEdits
  <2>1. edits \in 0..MaxEdits
    BY DEF PageInv, Others
  <2> QED BY <1>2, <2>1, BoundsAreNat
<1> QED BY <1>1, <1>2, <1>3 DEF PageInv, ListFits, DialogFits, FormsFit, Others

----------------------------------------------------------------------------
(* Answers.  The row that p.editing names when a form to edit is submitted. *)
LEMMA EditingIsTheRow ==
  ASSUME PageInv, dialog.kind = "edit"
  PROVE  editing = dialog.row /\ editing # NoProvider /\ editing \in ListRow
<1>1. editing = dialog.row /\ editing \in ListRow
  BY DEF PageInv, DialogFits
<1>2. editing.id \in ProviderIds
  BY <1>1 DEF ListRow
<1>3. NoProvider.id = 0
  BY DEF NoProvider
<1> QED BY <1>1, <1>2, <1>3, BoundsAssumption DEF ProviderIds

(* What a handler that changes the table leaves alone. *)
LEMMA HandlerKeeps ==
  ASSUME PageInv, NEW m \in msgs, Received(m), Schema', ConfFits', loading' = TRUE,
         UNCHANGED <<list, cursor, dialog, editing, edits>>,
         shown' \in {"updated", "added", "deleted", "error"}
  PROVE  PageInv'
BY DEF Received, PageInv, ListFits, DialogFits, FormsFit, Others

(* What each answer does to the table. *)
Submitted(m, id) ==
  \/ UNCHANGED table
  \/ /\ Updated(id, m.form.name, editing.enabled, ConfOf(m.form))
     /\ Schema' /\ ConfFits'

LEMMA SubmitEditKeeps ==
  ASSUME PageInv, NEW m \in msgs, SubmitEdit(m)
  PROVE  /\ PageInv'
         /\ dialog.kind = "edit" /\ editing.id \in ProviderIds
         /\ m.form \in Form /\ ConfOf(m.form) \in Conf /\ m.form.name \in Names
         /\ Submitted(m, editing.id)
<1>1. /\ m.answer = "submit" /\ ~IsIncomplete(m.form) /\ editing # NoProvider /\ InForm /\ Received(m)
      /\ UNCHANGED <<list, cursor, dialog, editing, edits>> /\ loading' = TRUE
      /\ shown' \in {"updated", "error"}
  BY DEF SubmitEdit
<1>2. dialog.kind = "edit"
  BY <1>1 DEF InForm, PageInv, DialogFits
<1>3. editing \in ListRow
  BY <1>2, EditingIsTheRow
<1>4. editing.id \in ProviderIds /\ editing.enabled \in BOOLEAN
  BY <1>3 DEF ListRow
<1>5. m.form \in Form
  BY <1>1 DEF PageInv, FormsFit
<1>6. ConfOf(m.form) \in Conf /\ m.form.name \in Names
  BY <1>1, <1>5, FormMakesConf
<1>7. \/ UNCHANGED table
      \/ Updated(editing.id, m.form.name, editing.enabled, ConfOf(m.form))
  BY DEF SubmitEdit
<1>8. Schema' /\ ConfFits'
  BY <1>4, <1>6, <1>7, TableStays, UpdatedKeeps DEF PageInv
<1>9. PageInv'
  BY <1>1, <1>8, HandlerKeeps
<1> QED BY <1>2, <1>4, <1>5, <1>6, <1>7, <1>8, <1>9 DEF Submitted

LEMMA SubmitAddKeeps ==
  ASSUME PageInv, NEW m \in msgs, SubmitAdd(m)
  PROVE  /\ PageInv'
         /\ dialog.kind = "add"
         /\ \A i \in DOMAIN providers :
              i \in DOMAIN providers' /\ providers'[i] = providers[i] /\ conf'[i] = conf[i]
<1>1. /\ m.answer = "submit" /\ ~IsIncomplete(m.form) /\ editing = NoProvider /\ InForm /\ Received(m)
      /\ UNCHANGED <<list, cursor, dialog, editing, edits>> /\ loading' = TRUE
      /\ shown' \in {"added", "error"}
  BY DEF SubmitAdd
<1>2. dialog.kind = "add"
  BY <1>1, EditingIsTheRow DEF InForm
<1>3. m.form \in Form
  BY <1>1 DEF PageInv, FormsFit
<1>4. ConfOf(m.form) \in Conf /\ m.form.name \in Names
  BY <1>1, <1>3, FormMakesConf
<1>5. UNCHANGED table \/ Inserted(m.form.name, TRUE, ConfOf(m.form))
  BY DEF SubmitAdd
<1>6. /\ Schema' /\ ConfFits'
      /\ \A i \in DOMAIN providers :
           i \in DOMAIN providers' /\ providers'[i] = providers[i] /\ conf'[i] = conf[i]
  <2>1. CASE UNCHANGED table
    BY <2>1, TableStays DEF PageInv
  <2>2. CASE Inserted(m.form.name, TRUE, ConfOf(m.form))
    BY <1>4, <2>2, InsertedKeeps DEF PageInv
  <2> QED BY <1>5, <2>1, <2>2
<1>7. PageInv'
  BY <1>1, <1>6, HandlerKeeps
<1> QED BY <1>2, <1>6, <1>7

LEMMA ConfirmDeleteKeeps ==
  ASSUME PageInv, NEW m \in msgs, ConfirmDelete(m)
  PROVE  /\ PageInv'
         /\ dialog.kind = "confirm"
         /\ DOMAIN providers' = DOMAIN providers \ {dialog.row.id}
         /\ \A i \in DOMAIN providers' : providers'[i] = providers[i] /\ conf'[i] = conf[i]
<1>1. /\ Received(m) /\ dialog.kind = "confirm" /\ cursor < Len(list)
      /\ UNCHANGED <<list, cursor, dialog, editing, edits>> /\ loading' = TRUE /\ shown' = "deleted"
  BY DEF ConfirmDelete
<1>2. dialog.row = list[cursor + 1]
  BY <1>1 DEF PageInv, DialogFits
<1> DEFINE id == dialog.row.id
<1>3. Deleted(id) \/ (id \notin DOMAIN providers /\ UNCHANGED table)
  BY <1>2 DEF ConfirmDelete
<1>4. id \in ProviderIds
  <2>1. list # <<>>
    BY <1>1 DEF PageInv, ListFits
  <2>2. list[cursor + 1] \in ListRow
    BY <2>1, CursorRow DEF PageInv
  <2> QED BY <1>2, <2>2 DEF ListRow
<1> HIDE DEF id
<1>5. /\ Schema' /\ ConfFits'
      /\ DOMAIN providers' = DOMAIN providers \ {id}
      /\ \A i \in DOMAIN providers' : providers'[i] = providers[i] /\ conf'[i] = conf[i]
  <2>1. CASE Deleted(id)
    BY <1>4, <2>1, DeletedKeeps DEF PageInv
  <2>2. CASE id \notin DOMAIN providers /\ UNCHANGED table
    BY <2>2, TableStays DEF PageInv
  <2> QED BY <1>3, <2>1, <2>2
<1>6. PageInv'
  BY <1>1, <1>5, HandlerKeeps
<1> QED BY <1>1, <1>5, <1>6 DEF id

(* The other answers close the dialog or do nothing. *)
LEMMA QuietAnswersKeep ==
  ASSUME PageInv, NEW m \in msgs, Ignore(m) \/ Cancel(m) \/ SubmitIncomplete(m)
  PROVE  /\ PageInv' /\ UNCHANGED table
         /\ ~(dialog.kind = "confirm" /\ m.answer = "yes")
<1>1. /\ UNCHANGED <<table, list, cursor, editing, loading, edits>> /\ msgs' = msgs \ {m}
      /\ dialog' \in {dialog, Closed} /\ shown' \in {shown, "required"}
  BY DEF Ignore, Cancel, SubmitIncomplete, Received
<1>2. Schema' /\ ConfFits'
  BY <1>1, TableStays DEF PageInv
<1>3. dialog' \in Dialog /\ DialogFits'
  <2>1. CASE dialog' = dialog
    BY <1>1, <2>1 DEF PageInv, DialogFits
  <2>2. CASE dialog' = Closed
    BY <2>2, ClosedFacts DEF PageInv, DialogFits
  <2> QED BY <1>1, <2>1, <2>2
<1>4. ListFits' /\ FormsFit' /\ Others'
  BY <1>1 DEF PageInv, ListFits, FormsFit, Others
<1>5. ~(dialog.kind = "confirm" /\ m.answer = "yes")
  BY DEF Ignore, Cancel, SubmitIncomplete, InForm
<1> QED BY <1>1, <1>2, <1>3, <1>4, <1>5 DEF PageInv

LEMMA StutterKeeps ==
  ASSUME PageInv, UNCHANGED vars
  PROVE  PageInv'
<1>1. Schema' /\ ConfFits'
  BY TableStays DEF PageInv, vars
<1> QED BY <1>1 DEF PageInv, ListFits, DialogFits, FormsFit, Others, vars

LEMMA StepKeeps == PageInv /\ [Next]_vars => PageInv'
<1> SUFFICES ASSUME PageInv, [Next]_vars PROVE PageInv'
  OBVIOUS
<1>1. CASE Key
  BY <1>1, KeysKeep
<1>2. CASE LoadProviders
  BY <1>2, LoadKeeps
<1>3. CASE WebEdit
  BY <1>3, WebKeeps
<1>4. ASSUME NEW m \in msgs, Arrival(m) PROVE PageInv'
  <2>1. CASE Ignore(m) \/ Cancel(m) \/ SubmitIncomplete(m)
    BY <2>1, QuietAnswersKeep
  <2>2. CASE SubmitEdit(m)
    BY <2>2, SubmitEditKeeps
  <2>3. CASE SubmitAdd(m)
    BY <2>3, SubmitAddKeeps
  <2>4. CASE ConfirmDelete(m)
    BY <2>4, ConfirmDeleteKeeps
  <2> QED BY <1>4, <2>1, <2>2, <2>3, <2>4 DEF Arrival
<1>5. CASE UNCHANGED vars
  BY <1>5, StutterKeeps
<1> QED BY <1>1, <1>2, <1>3, <1>4, <1>5 DEF Next

(* Whatever the keys, the late messages and the web clients: the store is  *)
(* well formed, every row of the list was a row, the cursor is on it, and  *)
(* what an open dialog is about is what p.editing or the cursor names.     *)
THEOREM PageInvariant == Spec => []PageInv
<1> QED BY InitIsFine, StepKeeps, PTL DEF Spec

(* Types, and the cursor inside the list (providers.go:  p.providers[      *)
(* p.cursor] never panics).                                                *)
THEOREM PageTypeCorrect == Spec => []TypeOK
<1>1. PageInv => TypeOK
  <2> SUFFICES ASSUME PageInv PROVE TypeOK
    OBVIOUS
  <2>1. StoreTypeOK
    BY DEF PageInv, Schema
  <2>2. list \in Seq(ListRow) /\ cursor \in Nat /\ (list # <<>> => cursor < Len(list))
    BY DEF PageInv, ListFits
  <2>3. ASSUME NEW k \in DOMAIN list PROVE list[k].id \in ProviderIds /\ list[k].conf \in Conf
    <3>1. list[k] \in ListRow
      BY <2>2
    <3> QED BY <3>1 DEF ListRow
  <2>4. list # <<>> => cursor + 1 \in DOMAIN list
    BY <2>2
  <2>5. /\ dialog.n \in 0..MaxDialogs /\ dialog.kind \in {"none", "add", "edit", "confirm"}
        /\ dialog.form.name \in Names \cup {0} /\ dialog.form.key \in KeyValues \cup {0}
    <3>1. dialog \in Dialog
      BY DEF PageInv
    <3> QED BY <3>1 DEF Dialog, Form
  <2> QED BY <2>1, <2>3, <2>4, <2>5 DEF PageInv, ConfFits, Others, TypeOK
<1> QED BY <1>1, PageInvariant, PTL

----------------------------------------------------------------------------
(* Only the arrival of a message handles one. *)
LEMMA HandlersHandle ==
  ASSUME PageInv, [Next]_vars, NEW m \in Handled
  PROVE  m \in msgs /\ Arrival(m)
<1>1. m \in msgs /\ m \notin msgs'
  BY DEF Handled
<1>2. ~Key
  BY <1>1, KeysKeep
<1>3. ~LoadProviders /\ ~WebEdit /\ ~UNCHANGED vars
  BY <1>1 DEF LoadProviders, WebEdit, vars
<1>4. PICK k \in msgs : Arrival(k)
  BY <1>2, <1>3 DEF Next
<1>5. msgs' = msgs \ {k}
  BY <1>4 DEF Arrival, Ignore, Cancel, SubmitIncomplete, SubmitEdit, SubmitAdd, ConfirmDelete, Received
<1> QED BY <1>1, <1>4, <1>5

(* An answer that arrives at its dialog changes no row but the one that    *)
(* the dialog shows, deletes only what a confirmation names, and adds only *)
(* from a form to add (handleSubmit and handleDelete).                     *)
THEOREM AnswersAreAimed == Spec => AnswersHitTheirDialog
<1> DEFINE Aimed(m) ==
       /\ Unchanged(Rest(dialog.row.id))
       /\ dialog.kind = "edit" => DOMAIN providers' = DOMAIN providers
       /\ dialog.kind = "confirm" /\ m.answer = "yes" => DOMAIN providers' = Rest(dialog.row.id)
<1>1. PageInv /\ [Next]_vars => \A m \in Handled : Aimed(m)
  <2> SUFFICES ASSUME PageInv, [Next]_vars, NEW m \in Handled PROVE Aimed(m)
    OBVIOUS
  <2>1. m \in msgs /\ Arrival(m)
    BY HandlersHandle
  <2>2. CASE Ignore(m) \/ Cancel(m) \/ SubmitIncomplete(m)
    <3>1. UNCHANGED <<providers, conf>> /\ ~(dialog.kind = "confirm" /\ m.answer = "yes")
      BY <2>1, <2>2, QuietAnswersKeep
    <3> QED BY <3>1 DEF Unchanged, Rest
  <2>3. CASE SubmitEdit(m)
    <3>1. /\ dialog.kind = "edit" /\ editing.id \in ProviderIds /\ editing = dialog.row
          /\ ConfOf(m.form) \in Conf /\ m.form.name \in Names /\ Submitted(m, editing.id)
      BY <2>1, <2>3, SubmitEditKeeps, EditingIsTheRow
    <3>2. CASE UNCHANGED table
      BY <3>1, <3>2 DEF Unchanged, Rest
    <3>3. CASE Updated(editing.id, m.form.name, editing.enabled, ConfOf(m.form))
      <4>1. editing.enabled \in BOOLEAN
        BY <3>1, EditingIsTheRow DEF ListRow
      <4>2. /\ DOMAIN providers' = DOMAIN providers
            /\ \A i \in DOMAIN providers \ {editing.id} : providers'[i] = providers[i] /\ conf'[i] = conf[i]
        BY <3>1, <3>3, <4>1, UpdatedKeeps DEF PageInv
      <4> QED BY <3>1, <4>2 DEF Unchanged, Rest
    <3> QED BY <3>1, <3>2, <3>3 DEF Submitted
  <2>4. CASE SubmitAdd(m)
    <3>1. /\ dialog.kind = "add"
          /\ \A i \in DOMAIN providers :
               i \in DOMAIN providers' /\ providers'[i] = providers[i] /\ conf'[i] = conf[i]
      BY <2>1, <2>4, SubmitAddKeeps
    <3> QED BY <3>1 DEF Unchanged, Rest
  <2>5. CASE ConfirmDelete(m)
    <3>1. /\ dialog.kind = "confirm"
          /\ DOMAIN providers' = DOMAIN providers \ {dialog.row.id}
          /\ \A i \in DOMAIN providers' : providers'[i] = providers[i] /\ conf'[i] = conf[i]
      BY <2>1, <2>5, ConfirmDeleteKeeps
    <3> QED BY <3>1 DEF Unchanged, Rest
  <2> QED BY <2>1, <2>2, <2>3, <2>4, <2>5 DEF Arrival
<1> QED BY <1>1, PageInvariant, PTL DEF Spec, AnswersHitTheirDialog

(* As long as the row is as the list has it, the columns that were typed   *)
(* over get what was typed, and the others keep their value: the form      *)
(* starts from the row, and a row never has 0 tokens, so the default of    *)
(* handleFormSubmit is for what was typed.                                 *)
THEOREM EditsAreExactly == Spec => EditsAreExact
<1> DEFINE Exact(m) ==
       LET id    == dialog.row.id
           typed == {f \in Fields : m.form[f] # dialog.form[f]} IN
       (m.answer = "submit" /\ dialog.kind = "edit" /\ id \in DOMAIN providers /\ Listed(id) = dialog.row
          /\ table' # table) =>
         /\ providers'[id].enabled = providers[id].enabled
         /\ providers'[id].name = IF "name" \in typed THEN m.form.name ELSE providers[id].name
         /\ conf'[id].key = IF "key" \in typed THEN m.form.key ELSE conf[id].key
         /\ conf'[id].tokens = CASE "tokens" \notin typed -> conf[id].tokens
                                 [] "tokens" \in typed /\ m.form.tokens = 0 -> DefaultTokens
                                 [] "tokens" \in typed /\ m.form.tokens # 0 -> m.form.tokens
         /\ conf'[id].type = m.form.type
<1>1. PageInv /\ [Next]_vars => \A m \in Handled : Exact(m)
  <2> SUFFICES ASSUME PageInv, [Next]_vars, NEW m \in Handled,
                      dialog.kind = "edit", dialog.row.id \in DOMAIN providers,
                      Listed(dialog.row.id) = dialog.row, table' # table
               PROVE  Exact(m)
    OBVIOUS
  <2> DEFINE id == dialog.row.id
             row == dialog.row
  <2>1. m \in msgs /\ Arrival(m)
    BY HandlersHandle
  <2>2. SubmitEdit(m)
    BY <2>1, QuietAnswersKeep, SubmitAddKeeps, ConfirmDeleteKeeps DEF Arrival
  <2>3. /\ editing = row /\ id \in ProviderIds /\ row \in ListRow
        /\ m.form \in Form /\ ConfOf(m.form) \in Conf /\ m.form.name \in Names
        /\ Updated(id, m.form.name, row.enabled, ConfOf(m.form))
    BY <2>1, <2>2, SubmitEditKeeps, EditingIsTheRow DEF Submitted
  <2>4. dialog.form = Filled(row)
    BY DEF PageInv, DialogFits
  <2>5. row.enabled \in BOOLEAN /\ row.conf \in Conf
    BY <2>3 DEF ListRow
  <2>6. providers'[id] = [name |-> m.form.name, enabled |-> row.enabled] /\ conf'[id] = ConfOf(m.form)
    BY <2>3, <2>5, UpdatedKeeps DEF PageInv
  <2>7. row.name = providers[id].name /\ row.enabled = providers[id].enabled /\ row.conf = conf[id]
    <3>1. Listed(id) = row
      OBVIOUS
    <3> QED BY <3>1 DEF Listed
  <2> HIDE DEF row, id
  <2>8. /\ dialog.form["name"] = providers[id].name /\ dialog.form["key"] = conf[id].key
        /\ dialog.form["tokens"] = conf[id].tokens
    BY <2>4, <2>7 DEF Filled
  <2>9. conf[id].tokens \in Nat /\ conf[id].tokens > 0
    BY <2>5, <2>7 DEF Conf
  <2>10. /\ conf'[id].type = m.form.type /\ conf'[id].key = m.form.key
         /\ conf'[id].tokens = IF m.form.tokens > 0 THEN m.form.tokens ELSE DefaultTokens
         /\ providers'[id].name = m.form.name /\ providers'[id].enabled = providers[id].enabled
    BY <2>6, <2>7 DEF ConfOf
  <2>11. m.form.tokens \in Nat
    BY <2>3 DEF Form
  <2> DEFINE typed == {f \in Fields : m.form[f] # dialog.form[f]}
  <2>12. /\ "name" \in typed <=> m.form["name"] # dialog.form["name"]
         /\ "key" \in typed <=> m.form["key"] # dialog.form["key"]
         /\ "tokens" \in typed <=> m.form["tokens"] # dialog.form["tokens"]
    BY DEF Fields
  <2> HIDE DEF typed
  <2>13. providers'[id].name = IF "name" \in typed THEN m.form.name ELSE providers[id].name
    BY <2>8, <2>10, <2>12
  <2>14. conf'[id].key = IF "key" \in typed THEN m.form.key ELSE conf[id].key
    BY <2>8, <2>10, <2>12
  <2>15. /\ "tokens" \notin typed => conf'[id].tokens = conf[id].tokens
         /\ "tokens" \in typed /\ m.form.tokens = 0 => conf'[id].tokens = DefaultTokens
         /\ "tokens" \in typed /\ m.form.tokens # 0 => conf'[id].tokens = m.form.tokens
    BY <2>8, <2>9, <2>10, <2>11, <2>12
  <2> QED BY <2>10, <2>13, <2>14, <2>15 DEF id, typed
<1> QED BY <1>1, PageInvariant, PTL DEF Spec, EditsAreExact
==============================================================================
