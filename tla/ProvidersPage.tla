--------------------------- MODULE ProvidersPage -----------------------------
(***************************************************************************)
(* The providers page of the terminal UI, src/internal/tui/pages/          *)
(* providers.go, over the store: a list that the page loads only after its *)
(* own statements, forms to add and to edit, a confirmation to delete, and *)
(* web clients that change the rows meanwhile.  A key that ends a dialog   *)
(* starts a command whose message arrives later, perhaps at another        *)
(* dialog.  Store keeps the name and the enabled flag of a provider; the   *)
(* other columns are in "conf" here (the base URL and the API key count as *)
(* one, "key").  0 is an empty input.                                      *)
(***************************************************************************)
EXTENDS Store, Sequences

CONSTANTS KeyValues,   \* API keys
          NameInputs,  \* names that users type
          TokenInputs, \* what users type as max tokens; 0 stands for no number
          InitConf,    \* the other columns of InitProviders
          WebConfs,    \* the other columns that web clients send
          MaxDialogs,  \* bound on the dialogs opened
          MaxTyped,    \* bound on the fields typed in
          MaxKeys,     \* bound on the keys that end a dialog
          MaxEdits     \* bound on the statements of web clients

APITypes == {"openai", "anthropic"}
DefaultTokens == 2
Conf == [type : APITypes, key : KeyValues, tokens : Nat \ {0}]

ASSUME PageAssumption ==
  /\ MaxDialogs \in Nat /\ MaxTyped \in Nat /\ MaxKeys \in Nat /\ MaxEdits \in Nat
  /\ WebConfs \subseteq Conf /\ NameInputs \subseteq Names
  /\ 0 \notin Names \cup KeyValues /\ TokenInputs \subseteq Nat
  /\ DOMAIN InitConf = DOMAIN InitProviders /\ \A i \in DOMAIN InitConf : InitConf[i] \in Conf

VARIABLES conf,     \* the other columns
          list,     \* p.providers
          cursor,   \* p.cursor
          dialog,   \* p.mode with p.form or p.confirm
          editing,  \* p.editing
          msgs,     \* messages of commands that have not arrived
          loading,  \* the handler is before its loadProviders
          shown,    \* p.message
          edits

table == <<store, conf>>
vars == <<table, list, cursor, dialog, editing, msgs, loading, shown, edits>>

NoProvider == [id |-> 0, name |-> 0, enabled |-> FALSE]
Fields == {"name", "type", "key", "tokens"}
Blank == [name |-> 0, type |-> "openai", key |-> 0, tokens |-> 0]

(* A row of the list: the provider and its other columns. *)
Listed(i) == [id |-> i, name |-> providers[i].name, enabled |-> providers[i].enabled, conf |-> conf[i]]
Listing == {Listed(i) : i \in DOMAIN providers}

(* ORDER BY name, and names are unique: there is one such list. *)
ListProviders ==
  {rows \in [1..Cardinality(Listing) -> Listing] :
     \A j, k \in DOMAIN rows : j < k => rows[j].name < rows[k].name}

(* A dialog has a number, its kind, the row it is about, the values in the *)
(* form at first; "keys" counts the keys that ended dialogs.               *)
NoDialog(n, keys) == [n |-> n, kind |-> "none", row |-> NoProvider, form |-> Blank, keys |-> keys]
Opened(kind, row, form) ==
  [n |-> dialog.n + 1, kind |-> kind, row |-> row, form |-> form, keys |-> dialog.keys]
Closed == NoDialog(dialog.n, dialog.keys)

Clamped(rows) == IF cursor < Len(rows) THEN cursor ELSE IF rows = <<>> THEN 0 ELSE Len(rows) - 1

TypeOK ==
  /\ StoreTypeOK
  /\ DOMAIN conf = DOMAIN providers /\ \A i \in DOMAIN conf : conf[i] \in Conf
  /\ \A k \in DOMAIN list : list[k].id \in ProviderIds /\ list[k].conf \in Conf
  /\ list # <<>> => cursor + 1 \in DOMAIN list
  /\ dialog.n \in 0..MaxDialogs /\ dialog.kind \in {"none", "add", "edit", "confirm"}
  /\ dialog.form.name \in Names \cup {0} /\ dialog.form.key \in KeyValues \cup {0}
  /\ loading \in BOOLEAN /\ edits \in 0..MaxEdits
  /\ shown \in {"", "required", "error", "updated", "added", "deleted"}

Init ==
  /\ StoreInit /\ conf = InitConf
  /\ list \in ListProviders /\ cursor = 0
  /\ dialog = NoDialog(0, 0) /\ editing = NoProvider
  /\ msgs = {} /\ loading = FALSE /\ shown = "" /\ edits = 0

----------------------------------------------------------------------------
Idle == ~loading
OnList == Idle /\ dialog.kind = "none" /\ dialog.n < MaxDialogs

(* View drops the message that it drew; the list is drawn before a key is  *)
(* pressed on it.                                                          *)
MoveKey ==
  /\ Idle /\ dialog.kind = "none"
  /\ \/ cursor > 0 /\ cursor' = cursor - 1
     \/ cursor < Len(list) - 1 /\ cursor' = cursor + 1
  /\ shown' = ""
  /\ UNCHANGED <<table, list, dialog, editing, msgs, loading, edits>>

AddedEditing_Kept == editing
AddedEditing == NoProvider

ShowAddForm ==
  /\ OnList
  /\ dialog' = Opened("add", NoProvider, Blank)
  /\ editing' = AddedEditing
  /\ shown' = ""
  /\ UNCHANGED <<table, list, cursor, msgs, loading, edits>>

(* The select of the API type starts at its first option, whatever the row *)
(* says.                                                                   *)
Filled_NoTokens(row) ==
  [name |-> row.name, type |-> "openai", key |-> row.conf.key, tokens |-> 0]
Filled(row) ==
  [name |-> row.name, type |-> "openai", key |-> row.conf.key, tokens |-> row.conf.tokens]

ShowEditForm ==
  /\ OnList /\ list # <<>>
  /\ LET row == list[cursor + 1] IN
       /\ dialog' = Opened("edit", row, Filled(row))
       /\ editing' = row
  /\ shown' = ""
  /\ UNCHANGED <<table, list, cursor, msgs, loading, edits>>

ShowDeleteConfirm ==
  /\ OnList /\ list # <<>>
  /\ dialog' = Opened("confirm", list[cursor + 1], Blank)
  /\ shown' = ""
  /\ UNCHANGED <<table, list, cursor, editing, msgs, loading, edits>>

InForm == dialog.kind \in {"add", "edit"}

(* What the inputs of a form may hold in the end: a select turned, some     *)
(* inputs typed over.                                                      *)
Filling(form) ==
  {v \in [name   : NameInputs \cup {form.name},
          type   : APITypes,
          key    : KeyValues \cup {form.key},
          tokens : TokenInputs \cup {form.tokens}] :
     Cardinality({f \in Fields : v[f] # form[f]}) <= MaxTyped}

(* Enter and esc in a form, y and n in a confirmation. *)
EndKey(answer, form) ==
  /\ Idle /\ dialog.kind # "none"
  /\ dialog.keys < MaxKeys
  /\ IF InForm THEN answer \in {"submit", "cancel"} ELSE answer \in {"yes", "no"}
  /\ msgs' = msgs \cup {[n |-> dialog.n, key |-> dialog.keys, answer |-> answer, form |-> form]}
  /\ dialog' = [dialog EXCEPT !.keys = @ + 1]
  /\ UNCHANGED <<table, list, cursor, editing, loading, shown, edits>>

----------------------------------------------------------------------------
Received(m) == Idle /\ m \in msgs /\ msgs' = msgs \ {m}

(* A form knows nothing of a confirmation's answers, and conversely. *)
Ignore(m) ==
  /\ Received(m)
  /\ IF m.answer \in {"submit", "cancel"} THEN ~InForm ELSE dialog.kind # "confirm"
  /\ UNCHANGED <<table, list, cursor, dialog, editing, loading, shown, edits>>

Cancel(m) ==
  /\ Received(m)
  /\ \/ m.answer = "cancel" /\ InForm
     \/ m.answer = "no" /\ dialog.kind = "confirm"
  /\ dialog' = Closed
  /\ UNCHANGED <<table, list, cursor, editing, loading, shown, edits>>

IsIncomplete(v) == v.name = 0 \/ v.key = 0

(* The form closes, but editing stays. *)
SubmitIncomplete(m) ==
  /\ Received(m) /\ m.answer = "submit" /\ InForm
  /\ IsIncomplete(m.form)
  /\ shown' = "required"
  /\ dialog' = Closed
  /\ UNCHANGED <<table, list, cursor, editing, loading, edits>>

ConfOf(v) == [type |-> v.type, key |-> v.key, tokens |-> IF v.tokens > 0 THEN v.tokens ELSE DefaultTokens]

(* The statements on a row with all its columns, and their outcome. *)
Updated(id, n, e, c) ==
  /\ UpdateProvider(id, n, e)
  /\ conf' = [conf EXCEPT ![id] = c]
NameIsTaken(n, others) == \E i \in others : providers[i].name = n

Inserted(n, e, c) ==
  /\ CreateProvider(n, e)
  /\ conf' = With(conf, seq.providers + 1, c)
Deleted(id) ==
  /\ DeleteProvider(id)
  /\ conf' = Keep(conf, ProviderIds \ {id})

SubmitEdit(m) ==
  /\ Received(m) /\ m.answer = "submit" /\ InForm
  /\ ~IsIncomplete(m.form) /\ editing # NoProvider
  /\ \/ /\ Updated(editing.id, m.form.name, editing.enabled, ConfOf(m.form))
        /\ shown' = "updated"
     \/ editing.id \notin DOMAIN providers /\ UNCHANGED table /\ shown' = "updated"
     \/ /\ editing.id \in DOMAIN providers
        /\ NameIsTaken(m.form.name, DOMAIN providers \ {editing.id})
        /\ UNCHANGED table /\ shown' = "error"
  /\ loading' = TRUE
  /\ UNCHANGED <<list, cursor, dialog, editing, edits>>

SubmitAdd(m) ==
  /\ Received(m) /\ m.answer = "submit" /\ InForm
  /\ ~IsIncomplete(m.form) /\ editing = NoProvider
  /\ \/ Inserted(m.form.name, TRUE, ConfOf(m.form)) /\ shown' = "added"
     \/ NameIsTaken(m.form.name, DOMAIN providers) /\ UNCHANGED table /\ shown' = "error"
  /\ loading' = TRUE
  /\ UNCHANGED <<list, cursor, dialog, editing, edits>>

(* handleDelete takes the row under the cursor. *)
ConfirmedRow == list[cursor + 1]

ConfirmDelete(m) ==
  /\ Received(m) /\ m.answer = "yes" /\ dialog.kind = "confirm"
  /\ cursor < Len(list)
  /\ LET id == ConfirmedRow.id IN
       \/ Deleted(id)
       \/ id \notin DOMAIN providers /\ UNCHANGED table
  /\ shown' = "deleted"
  /\ loading' = TRUE
  /\ UNCHANGED <<list, cursor, dialog, editing, edits>>

(* loadProviders, and the handler closes its dialog.  A list that cannot   *)
(* be read is shown empty, and the cursor stays where it was.              *)
LoadProviders ==
  /\ loading
  /\ \/ list' \in ListProviders /\ cursor' = Clamped(list')
     \/ list' = <<>> /\ UNCHANGED cursor
  /\ dialog' = Closed
  /\ editing' = IF InForm THEN NoProvider ELSE editing
  /\ loading' = FALSE
  /\ UNCHANGED <<table, msgs, shown, edits>>

WebEdit ==
  /\ edits < MaxEdits
  /\ edits' = edits + 1
  /\ \/ \E n \in Names, c \in WebConfs : Inserted(n, TRUE, c)
     \/ \E id \in DOMAIN providers, n \in Names, e \in BOOLEAN, c \in WebConfs : Updated(id, n, e, c)
     \/ \E id \in DOMAIN providers : Deleted(id)
  /\ UNCHANGED <<list, cursor, dialog, editing, msgs, loading, shown>>

Key == \/ MoveKey \/ ShowAddForm \/ ShowEditForm \/ ShowDeleteConfirm
       \/ \E form \in Filling(dialog.form) : EndKey("submit", form)
       \/ \E answer \in {"cancel", "yes", "no"} : EndKey(answer, Blank)
Arrival(m) == Ignore(m) \/ Cancel(m) \/ SubmitIncomplete(m) \/ SubmitEdit(m) \/ SubmitAdd(m) \/ ConfirmDelete(m)

Next == Key \/ LoadProviders \/ WebEdit \/ \E m \in msgs : Arrival(m)

Spec == Init /\ [][Next]_vars

----------------------------------------------------------------------------
(* The messages that a step handles, at the dialog they were meant for. *)
Handled == {m \in msgs \ msgs' : m.n = dialog.n /\ dialog.kind # "none"}
Rest(id) == DOMAIN providers \ {id}
Unchanged(ids) ==
  \A i \in ids : i \in DOMAIN providers' /\ providers'[i] = providers[i] /\ conf'[i] = conf[i]

(* An answer acts on what its dialog shows, however stale the list is and  *)
(* whatever was begun and given up before: a form to add changes no row, a *)
(* form to edit no other row, a confirmation deletes the row it names.     *)
AnswersHitTheirDialog ==
  [][\A m \in Handled :
       /\ Unchanged(Rest(dialog.row.id))
       /\ dialog.kind = "edit" => DOMAIN providers' = DOMAIN providers
       /\ dialog.kind = "confirm" /\ m.answer = "yes" => DOMAIN providers' = Rest(dialog.row.id)]_vars

(* While the row is as the list has it, an edit leaves it with what the    *)
(* form says: a column that was typed over has what was typed, where no    *)
(* number of tokens means the default; the others, and whether it is       *)
(* enabled, are as before.  The API type alone is what the select shows.   *)
EditsAreExact ==
  [][\A m \in Handled :
       LET id    == dialog.row.id
           typed == {f \in Fields : m.form[f] # dialog.form[f]} IN
       (m.answer = "submit" /\ dialog.kind = "edit" /\ id \in DOMAIN providers /\ Listed(id) = dialog.row
          /\ table' # table) =>
         /\ providers'[id].enabled = providers[id].enabled
         /\ providers'[id].name = IF "name" \in typed THEN m.form.name ELSE providers[id].name
         /\ conf'[id].key = IF "key" \in typed THEN m.form.key ELSE conf[id].key
         /\ conf'[id].tokens = CASE "tokens" \notin typed -> conf[id].tokens
                                 [] "tokens" \in typed /\ m.form.tokens = 0 -> DefaultTokens
                                 [] "tokens" \in typed /\ m.form.tokens # 0 -> m.form.tokens
         /\ conf'[id].type = m.form.type]_vars

(* providers.go: "Provider updated!". *)
UpdatedIsThere ==
  [][\A m \in msgs \ msgs' :
       shown' = "updated" /\ loading' => \E i \in DOMAIN providers' : providers'[i].name = m.form.name]_vars
=============================================================================
