------------------------------- MODULE Pages ---------------------------------
(***************************************************************************)
(* The models page and the statistics page of the terminal UI              *)
(* (src/internal/tui/pages) with their confirmation dialog and forms, over *)
(* the store.  Bubble Tea handles one message at a time; a key that ends a *)
(* dialog only starts a command, whose message arrives later, in any order *)
(* with other messages, at whatever page is then shown.  A goroutine that  *)
(* fetches the models of a provider writes the fields of the models page   *)
(* without synchronisation with the handlers, and web clients edit the     *)
(* store meanwhile.                                                        *)
(***************************************************************************)
EXTENDS Store, Sequences

CONSTANTS Fetches,     \* goroutines that fetch models
          Offered,     \* the models that a provider lists, as a sequence
          Typed,       \* the model names that users type
          MaxDialogs,  \* bound on the dialogs opened
          MaxKeys,     \* bound on the keys pressed in one dialog
          MaxEdits     \* bound on the statements of web clients

ASSUME NamesAssumption == Offered \in Seq(Models) /\ Typed \subseteq Models \ {0}
ASSUME PagesAssumption ==
  MaxDialogs \in Nat /\ MaxKeys \in Nat /\ MaxEdits \in Nat /\ "ui" \notin Fetches

VARIABLES page,    \* the page shown
          dialog,  \* the dialog of the page, if one is open
          list,    \* m.probes, what the models page shows
          provs,   \* m.providers
          cursor,  \* m.cursor
          msgs,    \* messages of commands that have not arrived
          at,      \* position of the UI's handler and of each goroutine
          buf,     \* local variable of each: the rows of its query
          target,  \* provider and remaining models of each fetch
          last,    \* history: the last destructive statement and its reason
          edits

fields == <<list, provs, cursor>>
workers == <<at, buf, target>>
vars == <<store, page, dialog, fields, msgs, workers, last, edits>>

Workers == {"ui"} \cup Fetches
NoRow   == [probe |-> 0, provider |-> 0, model |-> 0]
NoFetch == [provider |-> 0, models |-> <<>>]

(* A dialog has a number, its kind, what it asks about, the providers that *)
(* a form offers, the keys pressed in it, and whether a goroutine has      *)
(* touched the page since it opened.                                       *)
NoDialog(n) == [n |-> n, kind |-> "none", about |-> NoRow, names |-> {}, keys |-> 0, touched |-> FALSE]
Opened(kind, about) ==
  [n |-> dialog.n + 1, kind |-> kind, about |-> about, names |-> {}, keys |-> 0, touched |-> FALSE]
OpenedForm(offered) == [Opened("form", NoRow) EXCEPT !.names = {p.name : p \in offered}]
Closed == NoDialog(dialog.n)

(* GetEnabledProbes: ORDER BY pr.name, p.model, of which no two are equal, *)
(* so there is one such list; ListProviders.                               *)
Before(a, b) == \/ providers[a.provider].name < providers[b.provider].name
                \/ a.provider = b.provider /\ a.model < b.model
EnabledProbes ==
  {rows \in [1..Cardinality(GetEnabledProbes) -> GetEnabledProbes] :
     \A j, k \in DOMAIN rows : j < k => Before(rows[j], rows[k])}
ListProviders == {[id |-> i, name |-> providers[i].name] : i \in DOMAIN providers}

Rows == [probe : ProbeIds, provider : ProviderIds, model : Models]
Steps == {"idle", "up", "down", "ask", "index", "delete", "query", "assign", "providers",
          "clamp", "request", "insert", "panic"}

(* In particular the cursor never passes the longest list there can be. *)
TypeOK ==
  /\ StoreTypeOK
  /\ page \in {"models", "stats"}
  /\ dialog.n \in 0..MaxDialogs /\ dialog.kind \in {"none", "confirm", "form"}
  /\ dialog.about \in Rows \cup {NoRow} /\ dialog.keys \in 0..MaxKeys
  /\ dialog.names \subseteq Names
  /\ \A i \in DOMAIN list : list[i] \in Rows
  /\ cursor \in (-1..MaxProbes - 1) \cup {0}
  /\ at \in [Workers -> Steps]
  /\ edits \in 0..MaxEdits

Init ==
  /\ StoreInit
  /\ page = "models"
  /\ dialog = NoDialog(0)
  /\ list \in EnabledProbes /\ provs = ListProviders /\ cursor = 0
  /\ msgs = {}
  /\ at = [w \in Workers |-> "idle"]
  /\ buf = [w \in Workers |-> <<>>]
  /\ target = [g \in Fetches |-> NoFetch]
  /\ last = [did |-> NoRow, said |-> NoRow, excused |-> FALSE]
  /\ edits = 0

Goto(w, step) == at' = [at EXCEPT ![w] = step]
Idle == at["ui"] = "idle"

----------------------------------------------------------------------------
(* Keys.  In a form or a confirmation the pages cannot be changed. *)
Navigate(p) ==
  /\ Idle /\ dialog.kind = "none" /\ page # p
  /\ page' = p
  /\ UNCHANGED <<store, dialog, fields, msgs, workers, last, edits>>

OnModels == Idle /\ page = "models" /\ dialog.kind = "none"

(* A check of the page's fields and their use are two steps: a goroutine   *)
(* may change the fields in between.                                       *)
UpKey ==
  /\ OnModels
  /\ cursor > 0
  /\ Goto("ui", "up")
  /\ UNCHANGED <<store, page, dialog, fields, msgs, buf, target, last, edits>>

MayGoDown == cursor < Len(list) - 1

DownKey ==
  /\ OnModels
  /\ MayGoDown
  /\ Goto("ui", "down")
  /\ UNCHANGED <<store, page, dialog, fields, msgs, buf, target, last, edits>>

MoveCursor ==
  /\ \/ at["ui"] = "up" /\ cursor' = cursor - 1
     \/ at["ui"] = "down" /\ cursor' = cursor + 1
  /\ Goto("ui", "idle")
  /\ UNCHANGED <<store, page, dialog, list, provs, msgs, buf, target, last, edits>>

Selected == cursor + 1 \in DOMAIN list

MayOpen == dialog.n < MaxDialogs

DeleteKey ==
  /\ OnModels /\ MayOpen
  /\ list # <<>> /\ cursor < Len(list)
  /\ Goto("ui", "ask")
  /\ UNCHANGED <<store, page, dialog, fields, msgs, buf, target, last, edits>>

(* m.probes[m.cursor] outside the list panics, and Bubble Tea ends the     *)
(* program.                                                                *)
ShowDeleteConfirm ==
  /\ at["ui"] = "ask"
  /\ \/ /\ Selected
        /\ dialog' = Opened("confirm", list[cursor + 1])
        /\ Goto("ui", "idle")
     \/ /\ ~Selected
        /\ Goto("ui", "panic")
        /\ UNCHANGED dialog
  /\ UNCHANGED <<store, page, fields, msgs, buf, target, last, edits>>

ClearKey ==
  /\ Idle /\ page = "stats" /\ dialog.kind = "none" /\ MayOpen
  /\ dialog' = Opened("confirm", NoRow)
  /\ UNCHANGED <<store, page, fields, msgs, workers, last, edits>>

(* showAddForm and showFetchForm; without a provider only a message shows. *)
(* A query that fails leaves the providers as they were.                   *)
FormKey ==
  /\ OnModels /\ MayOpen
  /\ provs' \in {ListProviders, provs}
  /\ dialog' = IF provs' = {} THEN dialog ELSE OpenedForm(provs')
  /\ UNCHANGED <<store, page, list, cursor, msgs, workers, last, edits>>

(* What a key in a dialog sends: an answer, or the values of the form with *)
(* 0 for an empty model name, which asks for a fetch, or a cancellation.   *)
Answers ==
  IF dialog.kind = "confirm"
  THEN {[kind |-> "confirm", yes |-> y] : y \in BOOLEAN}
  ELSE {[kind |-> "submit", name |-> p, model |-> m] : p \in dialog.names, m \in Typed \cup {0}}
       \cup {[kind |-> "cancel"]}

AnswerKey ==
  /\ Idle /\ dialog.kind # "none"
  /\ dialog.keys < MaxKeys
  /\ \E a \in Answers :
       msgs' = msgs \cup {[n |-> dialog.n, key |-> dialog.keys, about |-> dialog.about, answer |-> a]}
  /\ dialog' = [dialog EXCEPT !.keys = @ + 1]
  /\ UNCHANGED <<store, page, fields, workers, last, edits>>

----------------------------------------------------------------------------
(* The arrival of a message at the page shown. *)
Received(m) == Idle /\ m \in msgs /\ msgs' = msgs \ {m}

Expected(m) == IF m.answer.kind = "confirm" THEN "confirm" ELSE "form"

Ignore(m) ==
  /\ Received(m)
  /\ dialog.kind # Expected(m)
  /\ UNCHANGED <<store, page, dialog, fields, workers, last, edits>>

Dismiss(m) ==
  /\ Received(m)
  /\ dialog.kind = Expected(m)
  /\ \/ m.answer.kind = "cancel"
     \/ m.answer.kind = "confirm" /\ ~m.answer.yes
     \/ m.answer.kind = "submit" /\ \A p \in provs : p.name # m.answer.name
     \/ m.answer.kind = "confirm" /\ page = "models" /\ cursor >= Len(list)
  /\ dialog' = Closed
  /\ UNCHANGED <<store, page, fields, workers, last, edits>>

Excused(m) == dialog.touched \/ m.n # dialog.n

ConfirmClear(m) ==
  /\ Received(m)
  /\ dialog.kind = "confirm" /\ m.answer.kind = "confirm" /\ m.answer.yes
  /\ page = "stats"
  /\ results' = [i \in {} |-> 0]
  /\ last' = [did |-> NoRow, said |-> m.about, excused |-> Excused(m)]
  /\ dialog' = Closed
  /\ UNCHANGED <<providers, probes, seq, page, fields, workers, edits>>

(* handleDelete: the check, the index, the statement, loadData. *)
ConfirmDelete(m) ==
  /\ Received(m)
  /\ dialog.kind = "confirm" /\ m.answer.kind = "confirm" /\ m.answer.yes
  /\ page = "models" /\ cursor < Len(list)
  /\ last' = [did |-> m.about, said |-> m.about, excused |-> Excused(m)]
  /\ Goto("ui", "index")
  /\ UNCHANGED <<store, page, dialog, fields, buf, target, edits>>

Index ==
  /\ at["ui"] = "index"
  /\ \/ /\ Selected
        /\ buf' = [buf EXCEPT !["ui"] = <<list[cursor + 1]>>]
        /\ Goto("ui", "delete")
     \/ /\ ~Selected
        /\ Goto("ui", "panic")
        /\ UNCHANGED buf
  /\ UNCHANGED <<store, page, dialog, fields, msgs, target, last, edits>>

DeleteSelected ==
  /\ at["ui"] = "delete"
  /\ LET id == buf["ui"][1].probe IN
       \/ /\ DeleteProbe(id)
          /\ last' = [last EXCEPT !.did = Row(id), !.excused = @ \/ dialog.touched]
       \/ id \notin DOMAIN probes /\ UNCHANGED <<store, last>>
  /\ Goto("ui", "query")
  /\ UNCHANGED <<page, dialog, fields, msgs, buf, target, edits>>

(* handleFormSubmit with a model name; an error is shown and nothing else. *)
SubmitAdd(m) ==
  /\ Received(m)
  /\ dialog.kind = "form" /\ m.answer.kind = "submit" /\ m.answer.model # 0
  /\ \E p \in provs :
       /\ p.name = m.answer.name
       /\ \/ CreateProbe(p.id, m.answer.model, TRUE)
          \/ ~(p.id \in DOMAIN providers /\ ModelIsFree(p.id, m.answer.model, DOMAIN probes)) /\ UNCHANGED store
  /\ Goto("ui", "query")
  /\ UNCHANGED <<page, dialog, fields, buf, target, last, edits>>

(* Without one it starts a goroutine and closes the form at once. *)
SubmitFetch(m) ==
  /\ Received(m)
  /\ dialog.kind = "form" /\ m.answer.kind = "submit" /\ m.answer.model = 0
  /\ \E p \in provs, g \in Fetches :
       /\ p.name = m.answer.name
       /\ at[g] = "idle"
       /\ target' = [target EXCEPT ![g] = [provider |-> p.id, models |-> Offered]]
       /\ Goto(g, "request")
  /\ dialog' = Closed
  /\ UNCHANGED <<store, page, fields, buf, last, edits>>

----------------------------------------------------------------------------
FetchFails(g) ==
  /\ at[g] = "request"
  /\ target' = [target EXCEPT ![g] = NoFetch]
  /\ Goto(g, "idle")
  /\ UNCHANGED <<store, page, dialog, fields, msgs, buf, last, edits>>

FetchAnswers(g) ==
  /\ at[g] = "request"
  /\ Goto(g, "insert")
  /\ UNCHANGED <<store, page, dialog, fields, msgs, buf, target, last, edits>>

(* CreateProbe for each model; its errors are ignored. *)
Insert(g) ==
  /\ at[g] = "insert"
  /\ target[g].models # <<>>
  /\ LET m == Head(target[g].models) IN
       \/ CreateProbe(target[g].provider, m, TRUE)
       \/ /\ ~(target[g].provider \in DOMAIN providers /\ ModelIsFree(target[g].provider, m, DOMAIN probes))
          /\ UNCHANGED store
  /\ target' = [target EXCEPT ![g].models = Tail(@)]
  /\ UNCHANGED <<page, dialog, fields, msgs, at, buf, last, edits>>

InsertedAll(g) ==
  /\ at[g] = "insert"
  /\ target[g].models = <<>>
  /\ target' = [target EXCEPT ![g] = NoFetch]
  /\ Goto(g, "query")
  /\ UNCHANGED <<store, page, dialog, fields, msgs, buf, last, edits>>

(* loadData, called by the handler and by a goroutine; the rows of a query *)
(* that fails are none.                                                    *)
Touched(w) == [dialog EXCEPT !.touched = @ \/ (w # "ui" /\ dialog.kind = "confirm")]

LoadProbes(w) ==
  /\ at[w] = "query"
  /\ \E rows \in EnabledProbes \cup {<<>>} : buf' = [buf EXCEPT ![w] = rows]
  /\ Goto(w, "assign")
  /\ UNCHANGED <<store, page, dialog, fields, msgs, target, last, edits>>

AssignProbes(w) ==
  /\ at[w] = "assign"
  /\ list' = buf[w]
  /\ buf' = [buf EXCEPT ![w] = <<>>]
  /\ dialog' = Touched(w)
  /\ Goto(w, "providers")
  /\ UNCHANGED <<store, page, provs, cursor, msgs, target, last, edits>>

LoadProviders(w) ==
  /\ at[w] = "providers"
  /\ provs' \in {ListProviders, {}}
  /\ Goto(w, "clamp")
  /\ UNCHANGED <<store, page, dialog, list, cursor, msgs, buf, target, last, edits>>

Clamped ==
  LET c == IF cursor < Len(list) THEN cursor ELSE Len(list) - 1 IN IF c < 0 THEN 0 ELSE c

(* The handler then closes the dialog it worked for. *)
ClampCursor(w) ==
  /\ at[w] = "clamp"
  /\ cursor' = Clamped
  /\ dialog' = IF w = "ui" THEN Closed ELSE Touched(w)
  /\ Goto(w, "idle")
  /\ UNCHANGED <<store, page, list, provs, msgs, buf, target, last, edits>>

WebEdit ==
  /\ edits < MaxEdits
  /\ edits' = edits + 1
  /\ UserEdit
  /\ UNCHANGED <<page, dialog, fields, msgs, workers, last>>

Keys == UpKey \/ DownKey \/ DeleteKey \/ ClearKey \/ FormKey \/ AnswerKey
        \/ \E p \in {"models", "stats"} : Navigate(p)
Arrival(m) == Ignore(m) \/ Dismiss(m) \/ ConfirmClear(m) \/ ConfirmDelete(m) \/ SubmitAdd(m) \/ SubmitFetch(m)
Handler == MoveCursor \/ ShowDeleteConfirm \/ Index \/ DeleteSelected
Fetch(g) == FetchFails(g) \/ FetchAnswers(g) \/ Insert(g) \/ InsertedAll(g)
LoadData(w) == LoadProbes(w) \/ AssignProbes(w) \/ LoadProviders(w) \/ ClampCursor(w)

(* After a panic the UI is gone. *)
Next ==
  /\ at["ui"] # "panic"
  /\ \/ Keys \/ Handler \/ WebEdit
     \/ \E m \in msgs : Arrival(m)
     \/ \E g \in Fetches : Fetch(g)
     \/ \E w \in Workers : LoadData(w)

Spec == Init /\ [][Next]_vars

----------------------------------------------------------------------------
(* What is deleted is what the dialog named that the user said yes to:     *)
(* models.go, "Delete model '%s' from %s?".                                *)
ConfirmedIsDeleted == last.did = last.said

(* Only two things can break that, a goroutine that reloads the page while *)
(* the dialog is open, and an answer that arrives when its dialog is gone  *)
(* and another one is open.  In particular a list that web clients made    *)
(* stale never leads to another model.                                     *)
StaleListsAreSafe == last.excused \/ ConfirmedIsDeleted
==============================================================================
