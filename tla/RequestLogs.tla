---------------------------- MODULE RequestLogs ------------------------------
(***************************************************************************)
(* The request logs of one probe, from the table of results through the    *)
(* handler to the dialog of the browser: GetResultsForProbePage and        *)
(* GetResultsCount of the store, handleGetProbeResults of the web server,  *)
(* showProbeDetails, showDowntimeLogs and deleteResult of app.js.  Probes  *)
(* and other clients change the table between the two queries of a page    *)
(* and between two pages; answers arrive in any order, and the browser     *)
(* drops those that a younger request has overtaken ("generation").        *)
(***************************************************************************)
EXTENDS Integers, FiniteSets, Sequences

CONSTANTS PageSize,    \* results of a page of the logs
          PeriodSize,  \* results that are asked for a downtime period
          MaxTime, MaxRows, MaxDeletes, MaxRequests  \* bounds

ASSUME LogsAssumption ==
  /\ {PageSize, PeriodSize, MaxTime} \subseteq Nat \ {0}
  /\ {MaxRows, MaxDeletes, MaxRequests} \subseteq Nat

VARIABLES rows,      \* results of the probe: id |-> row
          last,      \* the last id given out
          requests,  \* requests for a page that are on their way or served
          deletes,   \* deletions on their way: the server's, then the answer
          modal,     \* the dialog: its generation and what it shows
          deleted,   \* how many statements have deleted results
          walk       \* history: a walk through the pages, from page 1 on

logsVars == <<rows, last, requests, deletes, modal, deleted, walk>>

Ids == 1..MaxRows
LogRow == [created : 1..MaxTime, failed : BOOLEAN]
Filters == {"", "failed"}

(* What the dialog is for: the logs of a page, or of a downtime period. *)
Logs(page, filter) == [kind |-> "logs", page |-> page, filter |-> filter, time |-> 0]
Period(time)       == [kind |-> "period", page |-> 1, filter |-> "failed", time |-> time]
Nothing            == [kind |-> "none", page |-> 0, filter |-> "", time |-> 0]

Loading == [state |-> "loading", ids |-> <<>>, total |-> 0]
Error   == [state |-> "error", ids |-> <<>>, total |-> 0]
NoWalk   == [page |-> 0, start |-> {}, seen |-> {}]

LogsTypeOK ==
  /\ last \in 0..MaxRows /\ DOMAIN rows \subseteq 1..last /\ \A i \in DOMAIN rows : rows[i] \in LogRow
  /\ modal.gen \in 0..MaxRequests
  /\ \A r \in requests : r.gen \in 1..modal.gen /\ r.at \in {"rows", "count", "answered"}
  /\ \A d \in deletes : d.id \in 1..last /\ d.at \in {"sent", "answered"}
  /\ modal.view.state \in {"loading", "loaded", "error"}
  /\ Len(modal.view.ids) <= (IF modal.for.kind = "period" THEN PeriodSize ELSE PageSize)
  /\ deleted \in 0..2 * MaxDeletes /\ walk.seen \subseteq Ids

LogsInit ==
  /\ rows = [i \in {} |-> 0] /\ last = 0
  /\ requests = {} /\ deletes = {}
  /\ modal = [gen |-> 0, for |-> Nothing, view |-> Loading]
  /\ deleted = 0 /\ walk = NoWalk

----------------------------------------------------------------------------
(* The table.  The clock of the server may be set back, and a probe may    *)
(* insert its result late.                                                 *)
Insert(row) ==
  /\ last < MaxRows
  /\ last' = last + 1
  /\ rows' = [i \in DOMAIN rows \cup {last + 1} |-> IF i = last + 1 THEN row ELSE rows[i]]
  /\ UNCHANGED <<requests, deletes, modal, deleted, walk>>

(* A statement that deletes, of rows that may be gone already. *)
Without(ids) ==
  /\ rows' = [i \in DOMAIN rows \ ids |-> rows[i]]
  /\ deleted' = deleted + 1

(* Another client clears the statistics. *)
ClearStats ==
  /\ deleted < MaxDeletes /\ DOMAIN rows # {}
  /\ Without(DOMAIN rows)
  /\ UNCHANGED <<last, requests, deletes, modal, walk>>

Matching(filter) == {i \in DOMAIN rows : filter = "failed" => rows[i].failed}

(* ORDER BY created_at DESC, id DESC *)
Before(i, j) ==
  \/ rows[i].created > rows[j].created
  \/ rows[i].created = rows[j].created /\ i > j

Rank(i, S) == Cardinality({j \in S : Before(j, i)})

Offset(page, size) == (page - 1) * size

Limited(n, size) == IF n < 0 THEN 0 ELSE IF n < size THEN n ELSE size

(* ... LIMIT size OFFSET offset *)
Page(filter, size, offset) ==
  LET S == Matching(filter) IN
  [k \in 1..Limited(Cardinality(S) - offset, size) |-> CHOOSE i \in S : Rank(i, S) = offset + k - 1]

----------------------------------------------------------------------------
(* The browser. *)
Ask(for) ==
  /\ modal.gen < MaxRequests
  /\ modal' = [gen |-> modal.gen + 1, for |-> for, view |-> Loading]
  /\ requests' = requests \cup
       {[gen |-> modal.gen + 1, for |-> for, at |-> "rows", ids |-> <<>>, total |-> 0, start |-> {}]}

TotalPages(total) == IF total = 0 THEN 1 ELSE (total + PageSize - 1) \div PageSize

Loaded    == modal.view.state = "loaded"
ShowsLogs == modal.for.kind = "logs" /\ Loaded
Pages == TotalPages(modal.view.total)

(* The logs of a probe; in the dialog the filters, and for a period the     *)
(* button "View all logs".                                                 *)
Open(filter) ==
  /\ \/ modal.for.kind = "none" /\ filter = ""
     \/ ShowsLogs
     \/ modal.for.kind = "period" /\ Loaded /\ filter = "failed"
  /\ Ask(Logs(1, filter))
  /\ UNCHANGED <<rows, last, deletes, deleted, walk>>

(* A period of the downtime chart, here one instant with a failure. *)
OpenPeriod(i) ==
  /\ modal.for.kind = "none" /\ rows[i].failed
  /\ Ask(Period(rows[i].created))
  /\ UNCHANGED <<rows, last, deletes, deleted, walk>>

(* There are buttons only if there is more than one page. *)
Turn(page) ==
  /\ ShowsLogs /\ Pages > 1
  /\ \/ page = modal.for.page + 1 /\ modal.for.page < Pages
     \/ page = modal.for.page - 1 /\ modal.for.page > 1
  /\ Ask(Logs(page, modal.for.filter))
  /\ UNCHANGED <<rows, last, deletes, deleted, walk>>

Close ==
  /\ modal.for.kind # "none" /\ modal.gen < MaxRequests
  /\ modal' = [gen |-> modal.gen + 1, for |-> Nothing, view |-> Loading]
  /\ UNCHANGED <<rows, last, requests, deletes, deleted, walk>>

Clicks == {d.no : d \in deletes}

(* The button stays until the page is shown again: it may be clicked once  *)
(* more while the first deletion is on its way ("no" tells the clicks      *)
(* apart), and it may name a result that another client has deleted.       *)
DeleteButton(id) ==
  /\ ShowsLogs /\ \E k \in DOMAIN modal.view.ids : modal.view.ids[k] = id
  /\ deleted + Cardinality(deletes) < MaxDeletes
  /\ \E n \in 1..MaxDeletes :
       /\ Clicks \cap 1..n = 1..n - 1
       /\ deletes' = deletes \cup {[no |-> n, id |-> id, for |-> modal.for, at |-> "sent"]}
  /\ UNCHANGED <<rows, last, requests, modal, deleted, walk>>

(* After the delete the same page is shown again, whatever is shown now. *)
Deleted(d) ==
  /\ d \in deletes /\ d.at = "answered"
  /\ deletes' = deletes \ {d}
  /\ Ask(d.for)
  /\ UNCHANGED <<rows, last, deleted, walk>>

IsCurrent_Always(r) == TRUE
IsCurrent_PostIncrement(r) == r.gen + 1 = modal.gen
IsCurrent(r) == r.gen = modal.gen

(* A walk begins with page 1 and goes on with the page after the last one. *)
Walked(r) ==
  LET ids == {r.ids[k] : k \in DOMAIN r.ids} IN
  IF r.for.kind = "logs" /\ r.for.page = 1
  THEN [page |-> 1, start |-> r.start, seen |-> ids]
  ELSE IF r.for.kind = "logs" /\ walk.page > 0 /\ r.for.page = walk.page + 1
  THEN [walk EXCEPT !.page = @ + 1, !.seen = @ \cup ids]
  ELSE NoWalk

Arrive(r) ==
  /\ r \in requests /\ r.at = "answered"
  /\ requests' = requests \ {r}
  /\ IF IsCurrent(r)
     THEN /\ modal' = [modal EXCEPT !.view = [state |-> "loaded", ids |-> r.ids, total |-> r.total]]
          /\ walk' = Walked(r)
     ELSE UNCHANGED <<modal, walk>>
  /\ UNCHANGED <<rows, last, deletes, deleted>>

----------------------------------------------------------------------------
(* The server: a page and the number of results are two queries. *)
Size(for) == IF for.kind = "period" THEN PeriodSize ELSE PageSize

Queries_CountFirst == [first |-> "count", second |-> "rows"]
Queries == [first |-> "rows", second |-> "count"]

Progress(r, query) ==
  LET next == IF r.at = "rows" THEN "count" ELSE "answered"
      now  == IF r.at = "rows" THEN Queries.first ELSE Queries.second
  IN /\ now = query
     /\ requests' = (requests \ {r}) \cup
          {IF query = "rows"
           THEN [r EXCEPT !.at = next, !.start = Matching(r.for.filter),
                          !.ids = Page(r.for.filter, Size(r.for), Offset(r.for.page, Size(r.for)))]
           ELSE [r EXCEPT !.at = next, !.total = Cardinality(Matching(r.for.filter))]}

GetResultsForProbePage(r) ==
  /\ r \in requests /\ r.at # "answered"
  /\ Progress(r, "rows")
  /\ UNCHANGED <<rows, last, deletes, modal, deleted, walk>>

GetResultsCount(r) ==
  /\ r \in requests /\ r.at # "answered"
  /\ Progress(r, "count")
  /\ UNCHANGED <<rows, last, deletes, modal, deleted, walk>>

HandleDeleteResult(d) ==
  /\ d \in deletes /\ d.at = "sent"
  /\ deletes' = (deletes \ {d}) \cup {[d EXCEPT !.at = "answered"]}
  /\ Without({d.id})
  /\ UNCHANGED <<last, requests, modal, walk>>

(* A query fails (status 500), or the request never gets an answer. *)
Fail(r) ==
  /\ r \in requests
  /\ requests' = requests \ {r}
  /\ modal' = IF IsCurrent(r) THEN [modal EXCEPT !.view = Error] ELSE modal
  /\ UNCHANGED <<rows, last, deletes, deleted, walk>>

FailDelete(d) ==
  /\ d \in deletes
  /\ deletes' = deletes \ {d}
  /\ UNCHANGED <<rows, last, requests, modal, deleted, walk>>

Server == (\E r \in requests : GetResultsForProbePage(r) \/ GetResultsCount(r)) \/ \E d \in deletes : HandleDeleteResult(d)
Answers == (\E r \in requests : Arrive(r)) \/ \E d \in deletes : Deleted(d)
Failures == (\E r \in requests : Fail(r)) \/ \E d \in deletes : FailDelete(d)

LogsNext ==
  \/ \E row \in LogRow : Insert(row)
  \/ ClearStats
  \/ \E filter \in Filters : Open(filter)
  \/ \E i \in DOMAIN rows : OpenPeriod(i)
  \/ \E page \in {modal.for.page - 1, modal.for.page + 1} : Turn(page)
  \/ Close
  \/ \E id \in Ids : DeleteButton(id)
  \/ Server \/ Answers \/ Failures

LogsSpec == LogsInit /\ [][LogsNext]_logsVars /\ WF_logsVars(Server) /\ WF_logsVars(Answers)

----------------------------------------------------------------------------
(* However quickly the user turns pages and changes filters, and however   *)
(* late the answers come: under the failure filter, and for a downtime     *)
(* period, the dialog lists no result that is a success.                   *)
ShownIsAsked ==
  Loaded /\ modal.for.filter = "failed" =>
    \A k \in DOMAIN modal.view.ids :
      modal.view.ids[k] \in DOMAIN rows => rows[modal.view.ids[k]].failed

(* Who walks from page 1 to the last page has seen every result that was   *)
(* there at the start, however many arrive meanwhile and in whatever       *)
(* order, if none is deleted: handler.go asks for the page before it       *)
(* counts.                                                                 *)
WalksMissNothing ==
  (deleted = 0 /\ ShowsLogs /\ walk.page > 0 /\ walk.page = modal.for.page /\ walk.page >= Pages) =>
    walk.start \subseteq walk.seen

(* A dialog that waits for its answer does not wait for ever: app.js shows *)
(* the results or an error, unless the user closes it.                     *)
LogsLoad == modal.view.state = "loading" /\ modal.for.kind # "none" ~> modal.view.state # "loading" \/ modal.for.kind = "none"

(* app.js:1483, "No request logs match this filter." on a page after the   *)
(* first: then none does, or there are buttons that lead to those that do. *)
EmptyMeansNone ==
  (ShowsLogs /\ modal.for.page > 1 /\ modal.view.ids = <<>>) => modal.view.total = 0 \/ Pages > 1

(* app.js:1462, "No failed logs found for this down period.": a period     *)
(* begins with a failure, so as long as none is deleted there is one.      *)
PeriodsAreFound ==
  (modal.for.kind = "period" /\ Loaded /\ deleted = 0) =>
    \E k \in DOMAIN modal.view.ids : rows[modal.view.ids[k]].created = modal.for.time
=============================================================================
