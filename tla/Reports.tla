------------------------------ MODULE Reports --------------------------------
(***************************************************************************)
(* The reports that the web API, the statistics page and the CSV export    *)
(* compute from the store: src/internal/store/result.go and                *)
(* src/internal/stats/csv.go.  They are separate SQL queries and loops     *)
(* over the same table, and they must not contradict each other.           *)
(*                                                                         *)
(* created_at is stored as the text of a local time, and SQL compares,     *)
(* sorts and cuts it as text: by the clock on the wall, which goes back    *)
(* when daylight saving time ends.  A bound of a query has no fraction of  *)
(* a second, so text is compared by the second.  Go code that parses       *)
(* created_at compares the instants.                                       *)
(***************************************************************************)
EXTENDS Store, Sequences

CONSTANTS SecLen, HourLen, DayLen,  \* ticks of a second, an hour, a day
          Start, End,       \* the instants modelled
          Changes,          \* instants at which the clocks may go back by an hour
          Recorded,         \* the statuses that probes end with
          Retention,        \* DATA_RETENTION, in ticks
          MaxEdits          \* bound on the statements of users

ASSUME TimeAssumption == /\ {SecLen, HourLen, DayLen} \subseteq Nat \ {0}
                         /\ {Start, End} \subseteq Nat /\ Start <= End
                         /\ Changes \subseteq Nat /\ HourLen <= Start
                         /\ {MaxEdits, Retention} \subseteq Nat

VARIABLES created,  \* created_at of each result, the instant
          now,      \* time.Now()
          change,   \* when the clocks go back, after End for never
          edits

vars == <<store, created, now, change, edits>>

Never == End + 1
Wall(t) == IF t < change THEN t ELSE t - HourLen
Second(t) == Wall(t) \div SecLen
Day(t)  == Wall(t) \div DayLen
Today   == Day(now)

TypeOK ==
  /\ StoreTypeOK
  /\ DOMAIN created = DOMAIN results
  /\ \A i \in DOMAIN created : created[i] \in Start..now
  /\ now \in Start..End /\ change \in Changes \cup {Never} /\ edits \in 0..MaxEdits

Init ==
  /\ StoreInit
  /\ created = [i \in {} |-> 0]
  /\ now = Start
  /\ change \in Changes \cup {Never}
  /\ edits = 0

----------------------------------------------------------------------------
Tick ==
  /\ now < End
  /\ now' = now + 1
  /\ UNCHANGED <<store, created, change, edits>>

(* probeOne takes the time and then inserts, which may wait for a lock: a  *)
(* result may be inserted after a younger one.                             *)
Record(probe, status) ==
  /\ SaveResult(probe, status, Row(probe))
  /\ \E t \in {now - 1, now} \cap Start..End : created' = With(created, NewResultId, t)
  /\ UNCHANGED <<now, change, edits>>

(* Every statement the store offers besides.  Nothing in the program calls *)
(* UpdateProbe and DeleteProbesByProvider.                                 *)
Edit ==
  /\ edits < MaxEdits
  /\ edits' = edits + 1
  /\ \/ UserEdit
     \/ \E id \in ProbeIds, m \in Models, e \in BOOLEAN : UpdateProbe(id, m, e)
     \/ \E pr \in ProviderIds : DeleteProbesByProvider(pr)
  /\ created' = Keep(created, DOMAIN results')
  /\ UNCHANGED <<now, change>>

Probes == \E id \in DOMAIN probes, s \in Recorded : Record(id, s)

Next == Tick \/ Edit \/ Probes

Spec == Init /\ [][Next]_vars

(* Time passes and the engine goes on probing. *)
FairSpec == Spec /\ WF_vars(Tick) /\ WF_vars(Probes)

----------------------------------------------------------------------------
(* Queries.  A result is named by its id. *)
Of(p)      == {i \in DOMAIN results : results[i].probe = p}
Failed(S)  == {i \in S : results[i].status # "success"}
Reported   == {row.probe : row \in GetEnabledProbes}
Since(n)   == now - n * HourLen
FromText(S, since) == {i \in S : Second(created[i]) >= Second(since)}

(* total and failed of each hour or day that has a result *)
Grouped(S, len) ==
  [k \in {Wall(created[i]) \div len : i \in S} |->
     LET group == {i \in S : Wall(created[i]) \div len = k} IN
       [total |-> Cardinality(group), failed |-> Cardinality(Failed(group))]]

(* By the text of created_at, to the nanosecond, then by id. *)
Earlier(i, j) ==
  \/ Wall(created[i]) < Wall(created[j])
  \/ Wall(created[i]) = Wall(created[j]) /\ i < j

(* GetStats: one query with a text comparison for each window, and the     *)
(* status of the latest result.  A day of a range is [from, to + 1 day) on *)
(* the wall.                                                               *)
OnDays(S, from, to) == {i \in S : Day(created[i]) \in from..to}

Latest(p) == {i \in Of(p) : \A j \in Of(p) \ {i} : Earlier(j, i)}

Counts(p, S) ==
  LET today == OnDays(Of(p), Today, Today) IN
    [total |-> Cardinality(S), success |-> Cardinality(S \ Failed(S)),
     todayTotal |-> Cardinality(today), todaySuccess |-> Cardinality(today \ Failed(today)),
     lastStatus |-> {results[i].status : i \in Latest(p)}]

GetStats(n)            == [p \in Reported |-> Counts(p, FromText(Of(p), Since(n)))]
GetStatsRange(from, to) == [p \in Reported |-> Counts(p, OnDays(Of(p), from, to))]

(* GetHourlyStats filters the text in SQL and the instant in Go, and       *)
(* GetHourlySummary only the instant, strictly.                            *)
GetHourlyStats(n) ==
  [p \in Reported |-> Grouped({i \in FromText(Of(p), Since(n)) : created[i] >= Since(n)}, HourLen)]

GetHourlySummary(p, n) == Grouped({i \in Of(p) : created[i] > Since(n)}, HourLen)

(* The last n days, today included. *)
FirstDay_OneTooMany(n) == Today - n
FirstDay(n) == Today - (n - 1)

GetDailySummary(p, n)         == Grouped(OnDays(Of(p), FirstDay(n), Today), DayLen)
GetDailyStatsRange(from, to)  == [p \in Reported |-> Grouped(OnDays(Of(p), from, to), DayLen)]
GetDailyStats(n)              == GetDailyStatsRange(Today - (n - 1), Today)

(* GetDowntimePeriods: one pass over the rows in the order of the text.    *)
(* Rows of the same text come in the order of their ids: the statement     *)
(* names no second column, but SQLite walks the index on (probe_id,        *)
(* created_at) of sqlite.go, whose entries end with the row id.            *)
InOrder(S) ==
  [k \in 1..Cardinality(S) |-> CHOOSE i \in S : Cardinality({j \in S : Earlier(j, i)}) = k - 1]

NoStart == 0

Recovered_StartKept(s, i) ==
  [s EXCEPT !.periods = Append(@, [start |-> s.start, end |-> created[i]]), !.down = FALSE]
Recovered(s, i) ==
  [start |-> NoStart, down |-> FALSE,
   periods |-> Append(s.periods, [start |-> s.start, end |-> created[i]])]

Scanned(s, i) ==
  LET up == results[i].status = "success" IN
    CASE ~up /\ ~s.down -> [s EXCEPT !.start = created[i], !.down = TRUE]
      [] up /\ s.down /\ s.start # NoStart -> Recovered(s, i)
      [] OTHER -> [s EXCEPT !.down = ~up]

Unread == [start |-> NoStart, down |-> FALSE, periods |-> <<>>]

Scan(ids) ==
  LET scan[k \in 0..Len(ids)] == IF k = 0 THEN Unread ELSE Scanned(scan[k - 1], ids[k]) IN scan

GetDowntimePeriods(p, since) ==
  LET ids == InOrder(FromText(Of(p), since))
      end == Scan(ids)[Len(ids)]
  IN  IF end.start = NoStart THEN end.periods
      ELSE Append(end.periods, [start |-> end.start, end |-> now])

(* ExportCSV looks the probe up by its model among ListProbes(0), the      *)
(* probes of the provider with id 0.                                       *)
ListProbes(pr) == {i \in DOMAIN probes : probes[i].provider = pr}

CsvDowntime(p, n) ==
  LET found == {i \in ListProbes(0) : probes[i].model = probes[p].model} IN
    IF found = {} THEN <<>>
    ELSE GetDowntimePeriods(CHOOSE i \in found : \A j \in found : i <= j, Since(n))

ExportCSV(n) == [p \in Reported |-> [counts |-> GetStats(n)[p], downtime |-> CsvDowntime(p, n)]]

----------------------------------------------------------------------------
Windows == {n \in 1..End : n * HourLen <= End - Start}

(* The sum of a figure over all groups: as many as there are pairs of a    *)
(* group and a number up to its figure.                                    *)
Sum(groups, f) == Cardinality(UNION {{g} \X (1..groups[g][f]) : g \in DOMAIN groups})

LastEnd(periods) == periods[Len(periods)].end

(* The dashboard, the hourly bars and the daily bars of a probe, which     *)
(* come from different queries, add up: today's figure is that of today's  *)
(* bar, the window's figures those of its bars together.  The hourly bars, *)
(* which look at the instant too, may count less than the dashboard in the *)
(* first second of the window and when the clocks change, never more.  And *)
(* a probe whose last status is a failure is in its last downtime period.  *)
SummariesAgree ==
  \A p \in Reported :
    /\ LET bars == GetDailySummary(p, 1) IN
         /\ DOMAIN bars \subseteq {Today}
         /\ Sum(bars, "total") = GetStats(1)[p].todayTotal
         /\ Sum(bars, "failed") = GetStats(1)[p].todayTotal - GetStats(1)[p].todaySuccess
    /\ \A n \in 1..2 : GetDailySummary(p, n) = GetDailyStats(n)[p]
    /\ GetStatsRange(Today, Today)[p].total = GetStats(1)[p].todayTotal
    /\ \A n \in Windows :
         LET bars == GetHourlyStats(n)[p]
             all  == GetStats(n)[p]
             exact == change = Never /\ \A i \in Of(p) : created[i] \notin (Since(n) - SecLen)..(Since(n) - 1)
             periods == GetDowntimePeriods(p, Since(n))
         IN /\ Sum(bars, "total") <= all.total
            /\ exact => /\ Sum(bars, "total") = all.total
                        /\ Sum(bars, "failed") = all.total - all.success
            /\ \A i \in Latest(p) \cap FromText(Of(p), Since(n)) :
                 (\A j \in Of(p) : created[j] < now) =>
                   (i \in Failed(Of(p)) <=> periods # <<>> /\ LastEnd(periods) = now)

(* As long as the clocks do not change, the periods are in order and an    *)
(* instant of the window lies in one exactly when the last result before   *)
(* it was a failure, even if results were inserted out of order.           *)
DownAt(p, since, t) ==
  \E i \in Failed(FromText(Of(p), since)) :
    /\ created[i] <= t
    /\ \A j \in Of(p) : created[j] <= t => j = i \/ Earlier(j, i)

DowntimeIsExact ==
  change = Never =>
    \A p \in DOMAIN probes, n \in Windows :
      LET periods == GetDowntimePeriods(p, Since(n)) IN
        /\ \A k \in 1..Len(periods) - 1 : periods[k].end <= periods[k + 1].start
        /\ \A t \in Since(n)..now - 1 :
             DownAt(p, Since(n), t) <=> \E k \in DOMAIN periods : t \in periods[k].start..periods[k].end - 1

(* The CSV report lists the downtime periods of each model: README.md,     *)
(* "CSV Report Format".                                                    *)
CsvShowsDowntime ==
  \A p \in Reported, n \in Windows : ExportCSV(n)[p].downtime = GetDowntimePeriods(p, Since(n))

(* README.md:22, "Auto-cleanup: Configurable data retention".              *)
OldResultsAreRemoved ==
  \A i \in 1..MaxResults :
    (i \in DOMAIN results /\ now - created[i] > Retention) ~> i \notin DOMAIN results
==============================================================================
