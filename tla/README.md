# Verification of llm-api-uptime

TLA+ models of `llm-api-uptime`, a program that probes LLM providers on a timer, stores the
results in SQLite, shows them in a terminal UI and a web interface, and updates itself.
TLC checks the models on small instances; TLAPS proves the most important invariants for every
value of the constants. All paths below are those of the repository, `src/` being its root here.

## The system

One process. `main.go` opens the database, starts the probe engine, the updater, the web server and
the terminal UI, waits in one `select`, and takes everything down in a fixed order.

| Component (source) | State | Operations | What is hard | What makes it correct |
|---|---|---|---|---|
| Probe engine (`internal/probe/engine.go`, lifecycle) | flags `running`, `stopping`, `stopped`; channels `stopCh`, `doneCh`, `stopDone`; a WaitGroup | `Start`, `Stop`, `TriggerOnce`, the goroutine `run` | any goroutine may call them at any time; `Stop` works outside the mutex; `run` reads channel fields without it | nothing probes after `Stop`; no double close, no WaitGroup misuse; every `Stop` returns |
| Probe cycle (same file, `probeAll`, `probeOne`) | a snapshot of the probes, one goroutine for each provider, a semaphore | one cycle of the loop or of a trigger | cycles overlap; the store is edited under a snapshot for minutes | results stay with the probe that was asked; permits do not leak; cycles end; answers are recorded |
| Store (`internal/store`) | tables `providers`, `probes`, `results`, AUTOINCREMENT counters | one SQL statement for each method | constraints, cascades, ids that outlive rows | no orphans, no duplicates, ids never come back |
| Reports (`internal/store/result.go`, `internal/stats/csv.go`) | none; they read `results` | dashboard, hourly and daily bars, downtime periods, CSV | four queries cut time in four ways; time is compared as text of the local clock | they do not contradict each other; downtime is exact |
| Updater (`internal/update`, `internal/restart`) | the directory of the executable and its backups, a status, one goroutine | check, stage, restart, restore | crashes and power loss between steps; releases that change or disappear; an executable that does not run | the executable is always complete; a way back is always there; never a downgrade |
| Web server (`internal/web/server.go`) | flags, `http.Server`, `stopDone` | `Start`, `Stop`, the `Serve` goroutine | `Stop` may overtake `Serve`; handlers outlive the 5 s of `Shutdown` | nobody is served after `Stop`; each server is shut down once; the port is freed |
| Web handlers and authentication (`internal/web/handler.go`, `auth.go`) | the configured password, whether guests are let in | REST calls on store, engine, updater; a middleware in front of them | they run concurrently and outlive the server; a path list, a method and a mark for guests must fit together | guests are read-only, members are never refused; no restart request waits in vain |
| Browser interface (`internal/web/static`) | cookie, token, what a tab shows, the generation of its dialog | login, loading the dashboard, the dialog with the request logs | answers overtake each other; pages shift under inserts; the server is restarted with another password | the dialog shows what was asked last; a walk through the pages misses nothing; a login leads in |
| Terminal UI (`internal/tui`) | page, list, cursor, dialog, `editing` | keys, messages of commands | messages arrive later than the keys, perhaps at another dialog; a goroutine writes a page's fields; lists and forms are copies of rows that change | what is deleted is what was confirmed; an edit changes what was typed and nothing else |
| Main (`main.go`) | `sigCh`, `shutdownStarted`, `restartRequested`, `updateContext` | start, select, shutdown | three ways out, any of them at once | the database is closed after the last writer; exec only into a staged update; a signal always ends the program |
| Provider probing (`internal/probe/openai.go`, `anthropic.go`, `util.go`) | attempts, a deadline, a stream and its accumulator | one request with retries, the chunks, the verdict | one deadline over attempts, pauses and stream; error and deadline race; chunks of a foreign id | the verdict is that of the whole text; a timeout is one; the request id is that of the answer; a probe ends |
| Release download (`internal/update/release.go`, the client in `checker.go`) | a chain of requests, a limit for each body | metadata, checksums.txt, binary | redirects, bodies of unknown length, a checksum file that names the binary twice | only trusted hosts are asked; no cut body is used; one checksum, or none |
| Configuration, model discovery, settings page, formatting | | | | |

The components meet by calls (main, handlers and TUI call engine, web server, updater and store), by
channels (`stopCh`, `doneCh`, `tuiDone`, the restart request to main), and by the shared tables of
the store. `PROJECT.json` lists under "hazards" each place where this can go wrong, with the
properties that would notice.

## The modules

    EngineContract <------- Main -----> WebServer        Updater - - -> Release
          ^ implements
     ProbeEngine                Store <--- ProbeCycle, Reports, Pages, ProvidersPage
                                               '- - -> Probing         Access, RequestLogs

An arrow is EXTENDS or INSTANCE. A broken arrow is a step of one module that another one has in detail: `Download`
and `Verify` of `Updater` are a run of `Release`, `Respond` of `ProbeCycle` is a run of `Probing`; both end
(`FetchEnds`, `ProbeEnds`), which is what the fairness of the coarse modules takes for granted.

One action is one step between two points where another goroutine can interfere: a critical section of
a mutex, a channel operation, an SQL statement, a system call. A definition whose name has an
underscore (`MayStart_IgnoresStopping`) is a *slip*: the definition after it with a plausible mistake in
it. Nothing uses it; put in the place of the correct definition it must make a check fail, and
`PROJECT.json` says which. This shows that the properties depend on the code that they are about.

**EngineContract** says what the engine promises: a set of jobs that grows while it is open and that is
empty when a `Stop` returns.

**ProbeEngine** has every goroutine of the lifecycle. `Callers` are goroutines that call `Start` and
`Stop` (main, the TUI, handlers), `pc` is their position between the mutex and the waits; a loop is
named by the `Start` that made it, and so are its channels; `Manual` are calls of `TriggerOnce`. `work` is
the WaitGroup counter. `run` reading `e.doneCh` when it begins is `LoopBegin`.

**Store** has the tables as functions from ids to rows and one operator for each statement, with the
UNIQUE, CHECK and FOREIGN KEY constraints of `migrate()`; a statement that violates one is not enabled
and its callers say what they do then. `UpdateProbe` and `DeleteProbesByProvider`, which nothing in the
program calls, take part in `Reports`. Each result remembers in the history field `asked` the row that
the request was made for.

**ProbeCycle** runs `probeAll` several times at once on a snapshot (`todo`) with one goroutine for each
provider (`at`, `cur`) and the semaphore (`permits`), while `Edit` issues the statements of users. The
outcome of a request is chosen freely.

**Updater** has a file system of inodes, names and durability: `dir` is what processes see, `durable` the set
of directories a power loss may leave behind, `file[i].synced` whether the contents survive one. The steps
of `autoStage` and `replaceExecutable` are actions; a kill or a power loss comes between any two.
A shutdown for a restart ends without one when the database cannot be closed or the TUI failed (`UpdaterWaited`).

**WebServer** has `Start` (one step, it holds the mutex throughout), the steps of `Stop`, the `Serve`
goroutine of each generation of `http.Server`, and requests that may last for ever. Until `Shutdown` returns, a connection
that was accepted may still begin a request (`Draining`).

Its standalone specification has three callers at once (`MCWebServer.cfg`, see below).

**Main** composes the web server, the contract of the engine and the outline of the updater with the
`select` and the shutdown of `run()`, the TUI program (`App.Run`, `App.Stop`, the web toggle and the trigger
of the home page) and the handlers for restart and trigger.

**Pages** has the models page and the statistics page: the dialog, the messages of its keys, the list with
its cursor, the goroutine that fetches models and reloads the page, and web clients. A form keeps the names of the providers it was
opened with (`dialog.names`); a query that fails leaves an empty list. `dialog.touched` and `last` are history.

**Reports** has the queries as operators over results with a creation time, and a clock that may go back
by an hour once (`change`). Of results of one instant, `GetDowntimePeriods` reads the one with the smaller id first: its statement
says ORDER BY `created_at` only, and SQLite answers it along the index on probe and time, whose entries end with the row id.

**Probing** is one call of `probeOpenAI` or `probeAnthropic`: the attempts of the client library with their pauses (external,
as the code configures it), the middleware that notes the request id, the stream with its accumulator, the usage,
and the verdict that `finish` takes from the error, the context and the text. `now` counts to the deadline;
`sent` and `named` are history. A text is the sequence of words that the classification tells apart, one of them the first half
of a failure phrase.

**Release** fetches a release: `settings` and `client` are what `NewChecker` made of its options, `at` the request in
progress, `lines` the checksum file, read line by line. A host is "api", "download" or not trusted; bodies are
lengths against a limit.

**ProvidersPage** has the providers page: a list that is only loaded after its own statements, the forms to add and to edit,
the confirmation, `editing`, and messages that come late. `conf` holds the columns that `Store` leaves out.

**Access** has a server that is restarted with other settings, a browser with cookie and `localStorage`, and tabs that
go from the login to the dashboard. `Answer` is the middleware and the handler together, for one endpoint of each kind. `update` is what
the restart handler finds in the updater's status, `closing` that main has closed `shutdownStarted`: by a signal, the end of the TUI
(`ProgramLeaves`) or a restart that was granted (`Served`); from then on the handler answers 503 until the web server is stopped. The field of
the login form is `required`, so `SubmitLogin` sends any password but the empty one.

**RequestLogs** has the table of results of one probe, the two queries of `handleGetProbeResults`, and the dialog of
`app.js` with its generations. The button that deletes a result stays until the page is shown again and may be clicked once more (`Clicks`).
`walk` is history.

The MC modules only name the databases and values at the start; the other runs check their module directly.

The theorems are in modules of their own, one for each part of the system that is proved about together:

| Proof module | About |
|---|---|
| `Store_proofs` | lemmas about tables and statements that the other proofs cite |
| `Probe_proofs` | `Probing` and `ProbeEngine`, with the refinement of `EngineContract` |
| `ProbeCycle_proofs` | `ProbeCycle`, over the store |
| `Update_proofs` | `Release` and `Updater` |
| `Main_proofs` | `WebServer`, `Main` with the refinement of `WebServer`, and `Access` |
| `Pages_proofs`, `ProvidersPage_proofs` | the two pages of the terminal UI that change the store |
| `Reports_proofs` | `RequestLogs` and `Reports` |

## The runs

| Run | Instance | What it shows |
|---|---|---|
| `engine` | 3 callers, 2 starts, 2 stops, 1 trigger | the invariant of the proof, the safety properties, `StopReturns`, and that the engine implements its contract, liveness included |
| `cycle` | 2 cycles, 2 providers, 2 edits, failing inserts | results stay with their probe, ids and references hold, the semaphore counts, results are only recorded by a running cycle that asked for them, cycles end |
| `updater` | 3 versions of which one does not run, 3 files, 3 backup names, 1 crash | the executable survives, the way back is ready, backups are kept, no downgrade, no stray file, a required restart sticks, a canceled updater ends |
| `main` | 1 request, 1 trigger, 2 starts of the web server | no probe after close, the web server stays down, its port comes back, no restart request waits in vain, signals end the program |
| `pages` | 2 models and a third that a fetch adds, 2 dialogs with 2 keys each, 2 web edits | with a list that is merely stale the row deleted is the one confirmed |
| `reports` | 3 results, 8 instants, days of 2 hours, an hour of 2 seconds, 1 edit, clocks that may go back | the reports add up; without a change of the clocks downtime is exact |
| `probing` | both APIs, 1 retry, 3 chunks, 2 ticks to the deadline | verdict, timeout and request id are exact, and the probe ends |
| `providers_page` | 2 providers of both API types, 2 dialogs, 3 keys, 2 fields typed in, 2 values of the key, tokens with and without a number, 1 web edit | an answer acts on what its dialog shows; an edit writes each column that was typed in and keeps the others |
| `release` | limit 2, 2 redirects, 3 assets, 3 lines of checksums with 2 digests | only trusted hosts, no cut body, one checksum, and the fetch ends |
| `request_logs` | 3 results at 2 instants, pages of one, 3 requests, 1 deletion | what is shown is what was asked, walks miss nothing, the dialog does not load for ever |
| `access` | 1 tab, 3 passwords (one of them none), 2 restarts or broken connections, links with a token | guests and members get what is theirs; an offered restart is granted unless the program is already on its way out; a login leads in |
| `soft_fail` | 1 cycle, 3 probes | expects a violation, see below |

Each run has one question; what a passing run does not state it leaves to the proofs (the type invariants, `UniqueRows`,
`IdsAreNotReused`, `LoopReadsItsChannels`, `NoDoubleClose`, `NoAddDuringWait`, `ReferentialIntegrity`, `StoppedServesNobody`,
`OneShutdown`, `ExecIsSafe`, `RestartNeverGoesBack`). The type invariants can be added to any of the runs.

## Where the code and its documents disagree

`PROJECT.json` has each of these under "findings" with the line that says otherwise. `soft_fail` is one of the runs;
the other configurations are kept beside them, and `tlc -config` with each ends in the counterexample.

* `MCSoftFail.cfg`: the CHECK of `results.status` refuses `soft_fail`, so a response that the classifier
  recognises as a failure in disguise is never recorded.
* `MCConfirmed.cfg`: the delete takes the row under the cursor when the answer arrives; the fetching
  goroutine may have replaced the list, and another model than the one the dialog named is deleted.
* `MCCsv.cfg`: the export looks for probes of provider 0, so the downtime column is always empty.
* `MCEmptyPage.cfg`: after the only result of the last page was deleted, the dialog says that no log matches, without
  a button that leads to those that do.
* `MCPeriods.cfg`: a downtime period with more failures after it than one query returns is said to have none.
* `MCRefresh.cfg`: with the cookie but no token in `localStorage`, "Refresh the page to try again" never helps.
* `MCClient.cfg`: `NewChecker` replaces the client that `WithHTTPClient` injected.
* `MCProxy.cfg`: with `UPDATE_HTTP_PROXY` empty no proxy is used at all; the README says that the environment is inherited.
* `MCUpdated.cfg`: "Provider updated!" is shown for a provider that was deleted meanwhile.
* `MCEmptyBody.cfg`, `MCStalled.cfg`: no answer ends in `empty_response`; a stream that stalls loses the content that came before.
* `MCProviderConcurrency.cfg`: the semaphore belongs to a cycle, not to a provider, so a manual trigger probes a
  provider beyond `PROBE_CONCURRENCY`, which the README calls the maximum for each provider.
* `MCRetention.cfg`: nothing ever calls `Cleanup`; `DATA_RETENTION` has no effect.

`EditsAreExact` says of name, key and tokens that what was typed is written (for tokens the default, if the text is no number), and
that a column that was not typed in keeps its value. Of the API type it says that it is that of the select, which always starts at OpenAI in
the edit form: whoever edits an Anthropic provider and does not turn it back changes its type.

`LoginLeadsIn` excepts a server without a password: the form cannot be sent empty and `handleLogin` compares with the empty password, so
a tab that was at the login when the password was removed stays there until its user opens "/". `OfferedRestartsAreGranted` allows one
refusal: 503, while the program is on its way out.

Two more configurations pass: `MCWebServer.cfg` (three callers start and stop the web server, more than the program has:
every `Stop` returns, each server is shut down once) and `MCProbeCycleLive.cfg` (with the statuses the schema knows and a
database that does not fail, every answer about an existing probe is recorded).

### Bounds

Every bound is a constant and a conjunct of the guard it limits: starts and stops of the engine, ids
that are given out, edits, files, backups, faults, dialogs and keys, results and instants. They are small but let
the interesting cases happen: a third caller joins a `Stop` while a second starts again; two cycles overlap an edit
that deletes and one that creates; an update is staged after a crash left a backup behind, restored and
staged again; a second key of a dialog answers the next dialog. A mutant of each property, found by TLC under
the same bounds, is the evidence that they suffice. In `main` the TUI can stop the web server that main started and start another; its
one request may come again, so a restart is asked for before and after the select is left. In `request_logs` a page of one result and three
requests are a walk over two pages that a filter or a deletion overtakes; a second click on the button of a deletion needs `MaxDeletes = 2`,
which TLC passes in several minutes and the theorems cover, for any number. In `probing` two attempts and three chunks let a retry,
a foreign chunk and a late usage meet; what does not depend on their number is proved. No run uses symmetry.

### Fairness

* Goroutines are scheduled: weak fairness of each step that waits for nothing but its turn or a
  condition that stays true.
* A `select` with several ready cases chooses at random, so a stop channel or a canceled context that stays ready is
  taken in the end although a tick may be ready each time: strong fairness of `LoopStop` (engine and updater).
* Requests of probes and downloads have timeouts (`PROBE_TIMEOUT`, the HTTP client of the updater), so cycles and
  checks end. Handlers of the web server have none: nothing is assumed about them, and `Shutdown` gives up after
  five seconds.
* A cycle that can go on does (one condition for the whole of it, weaker than one for each goroutine).
* Servers, clients and providers may stall; what ends a request is its deadline, and time passes (`Probing`, `Release`).
* `request_logs`: the server and the browser handle what they have received, one message after the other.
* `access` assumes something of the user in the one property that is about what the user sees (`PatientSpec`): who is shown a login again
  and again types the right password in the end (strong fairness of `LogIn`; others may be typed before), and who is told to refresh does. A tab sends one request at a time, as `loadDashboard` does, and links
  with `?token=` are opened in a blank tab.
* Otherwise users, clients, signals, GitHub, crashes: no fairness.

## The proofs

Every invariant and every action property that a passing run states has a theorem, which holds for every value of
the constants: any set of callers and of cycles, any finite set of triggers
(`ManualAssumption`: the WaitGroup counts them), and any bounds; the other assumptions are the named ones of the modules (bounds are naturals, the capacity
of the semaphore is positive as `config.Load` ensures, the database found at the start obeys its schema,
and the modelled time begins after the epoch, because `Reports` writes 0 for a start that is not set, where the code has a nil pointer).

**Engine.** `StoppedIsQuiet` is not inductive: it says nothing of a `Stop` halfway. `IInv` adds, part by part, who
owns what: `FlagsAgree` and `OneWaiter` (exactly one caller carries out a `Stop`, and it will close
`stopDone`), `ChannelsAgree` and `SpawnAlone` (the only loop that can be alive is that of the last `Start`, even
before its goroutine exists), `WorkCounts` (the WaitGroup is the cardinality of the accepted triggers), `LoopIsAwaited`
and `WorkIsAwaited` (a live loop or trigger belongs to a running engine or is being waited for), `JoinedStopHasOwner`.
Each action preserves it; the counter of the WaitGroup needs the finite-set lemmas `TriggerCounts`
and `ManualDoneCounts`. From `IInv` follow the theorems `TypeCorrect`, `StopQuiesces`, `ChannelsAreStable`, `ClosesOnce` and
`AddsBeforeWait`, and `EngineRefinesContract`: every behaviour of the engine is one of `EngineContract!Safety` under the
mapping of the instance `Contract`, each step a step of the contract or a stutter.

**Store.** `Schema` (types, ids within the counter, foreign keys) is kept by every statement (`...KeepsSchema`), and so are `UniqueRows`, one
table at a time. `UserEditEvolves` says what others may rely on: an id that was given out keeps its row or loses it, and results only
disappear. `UserEditReusesNoId` is AUTOINCREMENT.

**Cycles.** That a stored result is about its probe depends on rows in flight: `CycleInv` says of every row that a
cycle still carries that its id was given out and that, while that id is
in the table, provider and model are unchanged. That a result is only recorded by a running cycle (`RecordedWhileRunning`) is
about steps; it follows from `OverIsOver`, which is inductive: a cycle that does not run has neither rows left nor goroutines with a
permit. Theorems: `CycleInvariant`, `NoOrphans`, `ConcurrencyBounded` (permits are the requests in progress, and at most the capacity),
`NoMisattribution`, `NothingAfterACycle`,
`RowsStayUnique`, `IdsAreNeverReused`, `CycleTypeCorrect`.

**Probing.** `VerdictIsExact` speaks of all chunks that were sent, the code of what it accumulated. `ProbingInv` says how the
two hang together: `Control` (what can be true at each position: attempts, clock, cause), `Newest` (the id that the accumulator keeps is
that of the first chunk), `Stream` (the text is that of the chunks with this id, in order) and `Decided` (the result once it is
done). It holds for any deadline, number of retries and length of streams. Theorems: `ProbingTypeCorrect`, `VerdictsAreExact`,
`TimeoutsMeanTheDeadline`, `RequestIdsAreTheAnswers`. The last one is about answers that came with an id: where only a failed attempt
sent one, the middleware's variable keeps it, and the code records it with the answer of another attempt.

**Release.** `ChecksumIsExact` relates the binary that is asked for to the whole checksum file: `ReadSoFar` says what `found` means after
each line. `TrustedOnly` needs that URLs that were stored for later are trusted, too (`HeldAreTrusted`), and
`BinaryIsListed` that the assets have no name twice. Theorems: `ReleaseTypeCorrect`, `OfficialTrustsGitHubOnly`, `NoBodyIsCut`, `OneChecksum`.

**Updater.** `ExecutableSurvives` speaks of every directory that a power loss may leave behind, so its strengthening does, too:
`AllAreGood` (no directory, in memory or durable, names the executable or a backup that is not complete and synced). A step that
syncs or renames keeps it because of `StagedIsNew` (before the rename no directory knows the file under construction; from each
position of `autoStage` on it is whole, then synced) and `ImageIsKept` (where the running program is found at each position: as
the executable, then as the backup). `Control` ties the positions of the loop and of main to the status. The lemmas go action by action;
a crash is one of them, and takes any durable directory. Theorems: `UpdaterInvariant`, `ExecutableAlwaysSurvives`,
`RollbackIsAlwaysReady`, `NoFileIsLeftBehind` and, of steps, `VersionsOnlyGoUp`, `RestartRequiredStays`, `BackupsAreAlwaysKept`,
`RestartsGoForward`.

**Web server and program.** `WebInv` says which generation of `http.Server` may still serve: `Generations` (all but the one that is held
were shut down), `StopHasOwner` (one caller carries out a `Stop`, on that server), `ServedByIt`. It gives
`NobodyIsServed` and `ShutsDownOnce`. `Main_proofs` then shows the refinement `UsesTheWebServer`: every behaviour of the program is one of
`WebServer`'s own specification, so that its theorems hold in the program (`ProgramServesNobodyWhenStopped`). `MainInv` adds
the order of the shutdown: `TuiIsGone` and `CallersAreKnown` (once the TUI has ended only main calls the web server), `WebIsDown`,
`EngineFollows` (the phase of the engine's contract at each position of main), `NothingYet` and `RestartIsStaged`. Theorems:
`ProgramInvariant`, `NothingProbesAfterClose`, `WebStaysDownForGood`, `NoRestartIsUnheard`, `ExecIsAlwaysSafe`. The assumption
`MainAssumption` only names main and the TUI among the callers, and keeps the name of the engine's loop from those of triggers.

**Access.** `AccessIsRight` follows from the types alone, for every password: it is about the middleware. `OfferedRestartsAreGranted` needs
`OffersHold`: an offer made since the last restart holds while it is on its way to the tab (nothing takes a staged update
back), and requests carry the token that the browser still has. It leaves one refusal, that of a program on its way out. Theorems: `AccessTypeCorrect`, `AccessIsAlwaysRight`, and `OffersAreGranted`, which assumes one tab: with two, the login of one
replaces the token under the button of the other, and TLC finds that.

**Models page.** What is deleted is what was confirmed although the list is stale: `StaleListsAreSafe` needs the rows of every list to be
known to the store (`RowsKnown`, with `KnownRowStays` from the store: an id never comes back as another row) and
`UiFits`, which follows a confirmation from the question through the handler's two reads of the list (row under the cursor, then delete). It speaks
of lists that no goroutine replaced meanwhile (`touched`); where one did, `MCConfirmed.cfg` has the counterexample. The proof
corrected the model's idea of the cursor: a clamp between the check and the step of a key leaves it at -1, or at 0 in an empty
list, and `PagesTypeCorrect` claims no more than -1..MaxProbes-1. Theorems: `PagesInvariant`, `PagesTypeCorrect`, `StaleListsAreHarmless`.

**Providers page.** `PageInv` says that the cursor is on a row of the list (`ListFits`), and what `editing` and the cursor name while
a dialog is open, whatever an earlier dialog left behind (`DialogFits`). An answer may come late: `AnswersAreAimed` is proved for each
pair of answer and dialog that can meet, `EditsAreExactly` for forms that start from a row. Theorems: `PageInvariant`,
`PageTypeCorrect`, and these two.

**Request logs.** `LogsInv`: the generation tells requests apart, the youngest is the dialog's, and a page under the failure filter lists
failures (`FailuresFit`), since an id never becomes another result's. `WalkInv` is about pages that shift: `Reaches` says that a result that was
there at the start of the walk and was not seen yet has at least as many results before it as the pages turned so far hold;
inserts can only increase that number. `Complete` says that a last page leaves nothing unseen, which holds because the count comes after the page
(the slip `Queries_CountFirst` breaks it). The lemmas are about ranks: those of a strict order of a finite set are 0, 1, ... without a gap
(`RanksAreExact`), so a page is a stretch of the order (`PageFacts`), and `TotalPages` is enough for all results (`PagesSuffice`).
Theorems: `LogsInvariant`, `FailuresAreShown`, `WalksAreComplete`.

**Reports.** The inductive invariant is only about types and times (`ReportsInv`); the rest is about what the queries compute. Bars add up because groups
partition a set: `GroupsAddUp` builds the bijection. The loop of `GetDowntimePeriods` is a recursive function over the rows in
order; `LoopFits` is its invariant for any clock (it is down exactly if the last row is a failure, periods end with rows) and `LoopOrdered` while the clocks
do not change (periods in order, covering exactly the instants whose last result is a failure). Induction over the rows is `Induction`, which is proved
from the least number of a set, as the library's own theorem takes an operator. `DowntimeIsExact` also needs that the filter by the
second leaves out older rows only (`OlderIsEarlier`). Theorems: `ReportsInvariant`, `SummariesAlwaysAgree`, for any changes of the clocks, and
`DowntimeIsAlwaysExact`.

Only model-checked: liveness (`StopReturns`, `CyclesEnd`, `ShutdownsEnd`, `PortComesBack`, `SignalsEnd`, `ProbeEnds`, `FetchEnds`, `LogsLoad`,
`LoginLeadsIn`, and the liveness part of `ImplementsContract`), which needs fairness and ENABLED and is out of the prover's reach.

## Not modelled

* Tokens per second, latencies as numbers, log lines; the list of failure phrases itself.
* Charts, themes, tables and the forms of the browser other than login and request logs.
* The settings page, which has no operation; views, the focus inside forms and everything about layout.
* Model discovery: one request without state; `Pages` takes its outcome as a choice.
* Averages and rates of the reports; ranges by days other than calendar days.
* Bad requests (status 400), and page numbers so large that `(page - 1) * limit` overflows: the browser sends neither.
* `Store.Cleanup` and column migrations; the database being busy, except as an insert that fails.
* A provider of neither API type: `probeOne` has a branch for it, and the CHECK of the table keeps such rows out.
* Torn reads of Go values in data races: an unsynchronised read sees some value that was written. The Go
  memory model allows worse for slices and strings.
* Configuration, and a `PROBE_INTERVAL` that is not positive, with which the loop panics.

## Plan

The order is that of what can go wrong for a user; all of it is done.

1. `EngineContract`, `ProbeEngine` and proofs. 2. `Store`, `ProbeCycle` and proofs. 3. `Updater` and proofs. 4. `WebServer` and proofs.
5. `Main` and proofs. 6. `Pages` and proofs. 7. `Reports` and proofs. 8. `Probing` and proofs. 9. `ProvidersPage` and proofs.
10. `RequestLogs` and proofs. 11. `Access` and proofs. 12. `Release` and proofs.

What could come next: that the choices of the coarse modules are those of the fine ones, as refinements (`Download` and `Verify` of `Updater` over
`Release`, `Respond` of `ProbeCycle` over `Probing`), and how far downtime periods can be off when the clocks change.

## Checking

    tlc -config MCUpdater.cfg Updater.tla
    tlapm Probe_proofs.tla

Each run is a module and a `.cfg` named in `PROJECT.json`; none takes longer than a few minutes.
