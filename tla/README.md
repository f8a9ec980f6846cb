# Verification of Mihomo Guardian

Mihomo Stack runs the Mihomo proxy and, beside it, `mihomo-guardian`, a control plane that
downloads subscriptions, merges them into a configuration, has Mihomo validate it, switches the
active file, reloads Mihomo, checks its health and rolls back when that fails. This directory
holds TLA+ models of the guardian's own logic, the TLC runs that check them on small instances,
and TLAPS proofs of their main properties for every instance.

    tlc -workers 2 -config updater_core.cfg MCUpdater.tla      # a run
    tlapm UpdaterProofs.tla                                    # the proofs of a module

## 1. Inventory

Source paths are relative to `src/`.

| component | state | operations | talks to |
|---|---|---|---|
| updater (`internal/updater`) | the transaction mutex, the `busy` flag; on disk the active configuration, the backup directory, candidate files | `Update`, `Restore`, `Busy`, `ListBackups` | builder, validator, Mihomo controller, recorder, file system |
| state (`internal/state`) | records in memory, `state.json` | `Open`, `Append`, `History` | file system |
| subscription (`internal/subscription`) | only the locals of one `Build`: a goroutine, a document slot and an error slot per source | `Build`, the merge | subscription servers, converter, secret files |
| candidate (`internal/candidate`) | none | `Overlay.Build` | subscription |
| mihomo client (`internal/mihomo`) | none | `Validate`, `Reload`, `Health`, `Version` | the Mihomo binary and its controller API |
| api (`internal/api`) | none of its own | update, restore, backups, history, status, diagnostics, login, logout | updater, state, auth, mihomo client |
| auth (`internal/auth`) | none on the server: a session is a signed cookie in the browser | `ValidateToken`, `SetSession`, `ClearSession`, `Authenticate`, `Require` | clock |
| command line and scheduler (`cmd/mihomo-guardian`) | one process per command | `serve`, `update`, `validate`, `doctor` | all of the above |
| config (`internal/config`) | none: read once at start-up | `Load`, `Validate`, `ReadSecret` | files |
| web console (`web/src`) | the refs of `App.vue`: view, data, flags, message | load, login, logout, update, restore | api, in requests that overlap |
| containers (`deploy`) | volumes, secrets | start, restart, bootstrap of a first configuration | mihomo, guardian |
| build and release (`.github`, `Makefile`) | none | - | - |

**How they interact.** In a `serve` process the scheduler and every API request are goroutines
that call `Update` or `Restore` of one `updater.Service`; its mutex is taken with `TryLock`, so
the second caller gets `ErrBusy`. `Update` calls the overlay, which calls the subscription builder,
which starts a goroutine per source and waits for all of them. The candidate is written beside the
active file, tested with `mihomo -t`, and renamed over it after a copy went to the backup
directory. Mihomo is told the *path* to load, so what it runs is whatever the file holds when it
serves the request. A record of the transaction goes to the state store. `mihomo-guardian update`
does all this in a process of its own, on the same files, with a mutex and a history of its own.

**What is hard here**, and what makes each component correct:

- *updater*: one transaction at a time; the content that goes live is the content that was
  validated; every failure after the switch puts the old content back, although the switch itself
  can fail half-way, the caller can go away, a reload can be served after its client gave up, Mihomo
  can stop, and the guardian can be killed anywhere; pruning never takes the backup a rollback
  needs; every call ends; what the history says is what Mihomo runs.
- *state*: `state.json` always decodes, a record that was acknowledged is not lost, memory and file
  agree although a persist can fail at any of its calls.
- *subscription, candidate*: the answers come in any order, the result must not depend on it; all
  documents or none; no entry that the merge reads is lost, overwritten or reordered; no goroutine
  left behind; the operator's settings are laid over every candidate, merged or converted.
- *scheduler, api, shutdown*: a tick is not lost for good when the updater is busy; what a client is
  told fits the history, although it may leave, the write timeout may pass, or the record may not
  reach the disk; the signal, the scheduler, open requests and the server end the process together
  without waiting for each other in a circle, and without cutting a switch in two.
- *config, timeouts*: what start-up lets through never makes the process panic or stand open later;
  each timeout is checked alone, but a rollback and an answer depend on their sums.
- *auth, web console*: a session ends in time although its cookie keeps whole seconds and the token
  may change under it; loads, actions, a login and a logout of one page end in any order, and the page
  must neither show a dashboard without data, nor hide what an action did, nor wait for ever.

`PROJECT.json` lists every hazard of the code at its line, with the properties that cover it or the
reason why none does.

## 2. Modules

| module | models | extends |
|---|---|---|
| `ConfigTransaction` | what a transaction promises: one slot, one switch, one undo, a report | - |
| `Updater` | `Update` and `Restore` step by step, several callers and processes, the files, Mihomo | implements `ConfigTransaction` |
| `StateStore` | `Open`, `Append`, `persistLocked` call by call, kills and power failures | - |
| `Merge` | the merge of documents, as operators on sequences | - |
| `Subscription` | one `Build` with its goroutines, the converter, the merge and the overlay | `Merge` |
| `Guardian` | `serve`: scheduler, API requests, signal and shutdown, around the transactions of `ConfigTransaction` | `ConfigTransaction` |
| `Startup` | a configuration and what it has to pass: `Validate`, `ReadSecret`, `buildRuntime`, as operators | - |
| `Deadlines` | one `serve` process and the clock: start-up, then how long transactions take | `Startup` |
| `Sessions` | the cookie of a session and when it counts, as operators | - |
| `WebConsole` | one page of the console, its requests in flight, the API behind them | `Sessions` |
| `MCUpdater`, `MCStateStore`, `MCSubscription`, `MCGuardian`, `MCDeadlines`, `MCWebConsole` | instances for TLC | the module they check |
| `UpdaterProofs`, `StateStoreProofs`, `SubscriptionProofs`, `GuardianProofs`, `DeadlinesProofs`, `WebConsoleProofs` | theorems and proofs | the module they prove about |
| `UpdaterRefinementProofs` | the proof that `Updater` implements `ConfigTransaction` | `UpdaterProofs` |
| `MergeProofs` | lemmas about the operators of `Merge` on lists of any length | `Merge` |

`PROJECT.json` maps every definition that models code to its lines. Operators whose comment begins
with *Deviation* are plausible wrong versions of the definition that follows them; no specification
uses them. They record which mistake each property detects.

### Updater

| model | code |
|---|---|
| `holder`, `busy` | `Service.transaction`, `Service.busy`, one each per process |
| `pc`, `tx` | the point a call has reached and its locals: the ID, the backup to restore, the candidate file, `hadActive`, the error, `RolledBack`, whether its context is done |
| `active`, `backups` | the contents of the active file and of the backup directory |
| `running`, `late` | the configuration Mihomo runs (`Foreign`: none of ours, `Down`: it does not run) and the reload requests it may still serve after their client timed out |
| `litter`, `unremoved` | `.candidate-*.yaml` files nobody will remove, and how many of them are there because `os.Remove` failed |
| `report` | what the history says of the last transaction |

Each external call is one action with the outcomes its caller can see. `copyAtomic` and
`activateCandidate` have three: failed before the rename, renamed and then failed, done. A reload
that fails may have done nothing, everything, or nothing yet. The deferred calls run in the order of
Go: removal of the candidate, pruning, the record, `busy`, the unlock. The code ignores the error of
that removal, and of the one in `writeCandidate`, so `RemovalFails` only leaves a file.
`ensureDirectories` comes before pruning is deferred, so its failure skips pruning. `Cancel` is the caller's context: the HTTP
client goes away or SIGTERM reaches the scheduler (for a CLI update it over-approximates, its
context is never done). `Crash` kills a process; nothing is repaired when it starts again, because
nothing in the code does. `IsRestore` switches the few steps in which `Restore` differs: it looks
the backup up, validates the backup file itself, copies instead of renaming, and returns at once
when that copy fails.

Backup IDs are numbers that grow with the transactions, which stands for both the time in the ID and
the modification time by which `ListBackups` sorts; a clock that steps back is outside the model. A
late reload reads the active file when it is served. `hadActive`, `phase`, `validated` and `fault`
in `tx` are partly history variables that the properties need; the comment of `Transaction` says
which.

### StateStore

`history` is the memory of each process, `file` what a reader of `state.json` sees, `disk` the set of
contents it may have after a power failure: a rename adds the new version to it (or `Torn`, when its
data were never synced), a directory sync reduces it to the current one. A record is its number.
`Create`, `Write`, `Sync`, `Rename`, `SyncDirectory` are the calls of `persistLocked`; each may fail
and then Append returns the error with the record left in memory, as in the code. `acked` remembers
the records whose Append returned no error. `Init` allows a file of an earlier run that kept more
records than the retention of this one. Left-over `.state-*.tmp` files are never read and not
modelled.

### Merge and Subscription

A document has the five parts the merge treats differently (proxies, providers, groups, rules and
everything else as `settings`), `runtime`, the keys the overlay always sets, and `ui`, the external-ui
it sets only where the operator has one (`config.ui`). A section is a list, a map or something else,
whatever the merge expects there, because the decoder checks no types: `AsSlice` and `AsMap` are the
type assertions of the code, which read a value of another type as an empty one. So an incoming
section of the wrong type is ignored, and one in the result is replaced. An entry is a name with a
body, a group also has its members, again of any type. A rule or a member is a value of some type
with its printed text, and these are compared as printed (`fmt.Sprint`), so that the string `1` and
the number 1 are one rule. `MergeNamedList`, `MergeGroup`, `MergeProviders` and `MergeRules` are the
functions of those names; `HasContent` is the check at the end of `mergeDocuments`.

`Subscription` runs one `Build`: `ReadSecrets` (any URL file may be unreadable or malformed), the
goroutines (`Fetch`, each with its slots), `Collect` (`Wait`, then the first error in list order),
the sections of one document after the other, `Check`, `Overlay`. `Convert` is the converter mode,
which skips the merge and its check but not the overlay.

Abstracted: an entry that is not a map or has a blank name is `NoName`; `existing` maps and slices are
changed in place by the code and thereby also the first document, which nothing reads afterwards.

### Guardian

`Guardian` composes the callers of one `serve` process with the updater. It does not repeat the
updater's steps: a transaction is `Open`, `Switch`, `Verify`, `Undo`, `End` of `ConfigTransaction`,
the specification that `Updater` is proved to implement, with what a caller sees besides.

| model | code |
|---|---|
| `owner`, `tested` | the mutex; the candidate has passed `mihomo -t` |
| `stage`, `result` | where the scheduler or a handler is, what its last call returned |
| `history`, `disk` | the records in memory and those in `state.json` |
| `answer`, `gone`, `restore` | what the client received, that it left, which of the two POST routes it used |
| `tick`, `ticks` | the ticker's channel of one slot; the bound on ticks |
| `signal`, `server`, `exit` | the context of `serve`, the HTTP server, how `serve` returned |
| `late` | history: the scheduler's transaction began after the signal |

`ContextDone` says when a caller's context is done: a handler's with its client, the scheduler's with
the signal. The steps that use the context (`Test`, `VerifyConfig`) then fail; the switch, the
rollback and the record do not use it. `Record` is the deferred Append with its four outcomes: the
record is in memory in any case, the file has it or not, and only a success changes into an error.
`TakeTick` and `StopScheduler` are the two cases of the `select`, which takes either when both are
ready. When the main goroutine returns, `Return` ends the transaction where it stands.

The updater's own failures appear as the freedom of `End("failed")` in any phase, the pruning
included. A request is one call; a client that repeats one is another request.

### Startup and Deadlines

`Config` is the record of the fields that something else depends on; a secret file is what `ReadSecret`
makes of it (unset, unusable, shorter than 16 characters, usable), an address is loopback, remote or
malformed. `otherFieldsValid` stands for the checks of all other fields. `ValidListen`,
`ValidController`, `ValidTimeouts`, `ValidInterval` and `ValidRetentions` are the checks of `Validate`
by topic, `BuildRuntime` adds those of `buildRuntime` on the secrets. That a history which cannot be
opened, or a controller address that `NewClient` refuses, also ends the start (`main.go:218-225`) is
left out: the model starts in more cases than the code.

`Deadlines` starts a process with any of `Configs`: `Start` refuses it, or serves, or panics in
`time.NewTicker`. Then one request after the other runs a transaction, of which only the time is
modelled: each call ends at any second before its limit or fails at any second up to it.
`ClientLimit` and `ContextLimit` are what a timeout means to an `http.Client` (0: none) and to a context
(0: over). A failure after the switch starts the rollback, with `budget` as the end of its context;
`RollbackReload`, `RollbackDelay` and `RollbackHealth` end when their own limit or the budget does. At
`Finish` the write timeout decides whether the answer is still written. What the steps do to files and
Mihomo is in `Updater`. A call that would end in the very second of its limit fails. Scheduled
transactions take as long but answer nobody.

### Sessions and WebConsole

A cookie is its expiry in seconds and the token whose key signed it; `since` is the time of the login,
which the properties need. The clock counts in ticks, several to a second, because the expiry is rounded
down. A cookie is never forged, and one that is malformed is one of another token.

| model | code |
|---|---|
| `view`, `loading`, `error`, `login`, `action` | `authenticated` (null, false, true), `loading`, the origin of `error`, `loginLoading` with how far the login is, `action` with how far it is |
| `shown` | `status` and the other three parts, by the number of records the history had when the oldest was read |
| `loads` | the calls of `loadDashboard` that await their four requests, by who made them |
| `logout` | a call of `logout` that awaits its request |
| `cookie` | the session cookie of the browser |
| `token`, `records`, `now`, `restarts` | the server |

Each function of `App.vue` is split at its awaits. `loadDashboard` clears the message, sends its
requests with the cookie of that moment (`StartLoad`), and ends in `Deliver`, `Reject` (a 401) or
`FailLoad`; `Serve` is the server answering one request, in any order among the loads. What awaited the
load goes on in the same step (`EndLoad`): `login` ends, and `update` or `restore` ends with the message
of its own failure. `update` and `restore` differ only in the request and are one action.
`AdmitAction` is `Require` at the arrival of the request; the answer comes when the transaction has
ended. A login's answer sets the cookie, a logout's answer clears it, and the page turns to the login
whether or not an answer came.

More is allowed than the page allows: the update button is also disabled while the status shown says
that an update runs, and candidates of a login are not restricted to 16 characters.

## 3. Runs

| run | checks | bounds |
|---|---|---|
| `updater_core` | the safety properties of one process, the refinement of `ConfigTransaction`, `EveryTransactionEnds` and `SuccessEventuallyRuns` | 2 callers in one process, 2 contents, retention 1, 3 transactions, 1 kill, 1 late reload |
| `overlap` | `LitterHasACause`, `SwitchIsTested` with a CLI update beside serve | 2 processes, 1 content, retention 1, 2 transactions, 1 kill, 1 failed removal, no late reload |
| `two_processes` | finding: `OneTransaction` fails | serve and a CLI update |
| `first_rollback` | finding: `RolledBackIsReloaded` fails | one process |
| `restore_sync` | finding: `UnconfirmedSwitchIsUndone` fails | one process |
| `state_store` | all properties of `StateStore` | 1 process, retention 2, up to 3 records on file, 6 records, 2 crashes |
| `state_two_processes` | finding: `AcknowledgedSurvives` fails | serve and a CLI update, no crash |
| `subscription` | all properties of `Subscription` | 3 sources, 8 documents and an unusable answer |
| `guardian` | all properties of `Guardian` | 1 request, 1 tick, scheduler on, off or with a run at the start |
| `shutdown` | finding: `StopCutsNoSwitch` fails | the same |
| `deadlines` | all properties of `Deadlines` | 678 configurations, any number of requests |
| `console` | all properties of `WebConsole` | 2 requests per load, 3 clicks, 2 records, a session of one second in half seconds, 1 restart |

Why the bounds are enough to be interesting:

- *updater*: retention 1 is the smallest the configuration admits and makes every transaction prune;
  three transactions are an update, a restore of its backup, and one more that prunes after both; two
  contents distinguish old from new; the mutex is contended by two callers. One late reload can meet
  any step of a later transaction. With two processes two transactions are enough for one to prune what
  the other restores. `overlap` keeps to one content, since the backup to restore is there or not, and
  allows one failed removal (`MaxUnremoved`), which `updater_core` leaves out because nothing else it
  checks sees the file left behind. `UpdaterProofs` removes the bounds for the invariants,
  `UpdaterRefinementProofs` for the refinement.
- *state*: six records overrun a retention of two twice, after a file of three; two crashes let a
  power failure follow a kill in the middle of an Append.
- *subscription*: a third document meets the result of a merge and not only a document; the eight
  documents hold, for every section, equal entries, clashing ones, repeated ones, an entry without a
  name, values of different types that print alike, sections and members of the wrong type, and a
  document with nothing to merge. They vary a section at a time because the sections do
  not influence each other. `SubscriptionProofs` removes the bounds for the invariants.
- *serve*: a run at the start, a tick and a request make three transactions, so that each caller can
  be refused because of the other and the scheduler can meet a tick after a refusal. One content is
  enough: which content is switched is the subject of `Updater`. `GuardianProofs` removes the bounds
  for the invariants.
- *deadlines*: the defaults with every timeout at its real length, and short timeouts with up to two
  fields changed, also to each value at and beyond the bound that `Validate` checks, so that a check can
  fail because of a second field. The short write timeouts lie on both sides of what a transaction may
  take. `DeadlinesProofs` removes the bounds.
- *console*: with the load of the opened page, three clicks give two loads beside an action, a logout
  during an action, or a login after a logout while an older load is under way. Two requests are the
  fewest that can be answered before and after something else. One token and the empty one make a
  restart change the key in both directions; the clock outlasts a session by half a second.
  `WebConsoleProofs` removes the bounds for the safety properties.

Symmetry is not used: the runs are small, and liveness is checked.

`CHECK_DEADLOCK FALSE` stands where the system rightly stops: in `state_store` when the records
and crashes are used up, in `subscription` when `Build` has returned, in `guardian` when the process
has ended or nothing more is asked of it, in `deadlines` when the configuration was refused, in
`console` when nobody uses the page. In `updater_core` and `overlap` deadlock is
checked: Mihomo's restarts keep the model going.

### What the properties say

- *OneTransaction*, *BusyCoversWork*: the mutex, and the flag that status shows, which are two
  different things and change in different steps.
- *ValidatedIsLive*: validation and activation are separate steps on files others may change.
- *PreviousConfigKept*, *SuccessPrunesBackups*: pruning, from both sides.
- *RollbackFailsOnlyByFault*: `TestCanceledCallerCannotPreventRollback` for every step at which the
  caller may go away.
- *ReportedConfigRuns*: the history against what Mihomo runs, late reloads and restarts included.
- *LitterHasACause*: no early return forgets a candidate file; it stays only when the process is killed
  or its removal fails.
- *SwitchIsTested*: with two processes on the same files, the backup that `Restore` found and tested can
  be pruned before it is copied. The copy must fail then. One process does not meet this case.
- *TransactionRefinement*: the active file changes only as `ConfigTransaction` allows, and a success
  or a rollback is reported only when it happened.
- *EveryTransactionEnds*, *SuccessEventuallyRuns*: no path keeps the lock; Mihomo comes to run
  what was recorded as a success (once at least, unless another transaction begins; that it stays so is
  *ReportedConfigRuns*, which allows for its restarts).
- *HistoryIsRecent*, *FileAlwaysOpens*, *AcknowledgedSurvives*, *HistoryShowsFile*: retention, torn
  files, durability, and agreement of memory and file.
- *NoFetchOutlivesBuild*, *AllOrNothing*, *BuildReturns*: the goroutines.
- *EntriesSurvive*, *FollowsListOrder*, *NamesStayUnique*, *RefusedForAReason*: the merge, each stated
  over the documents of all sources and not step by step.
- *AnswersMatchHistory*: each of the five answers a client can get against the records of its own
  call, with other callers, lost answers, failing Appends and the shutdown in between.
- *StoppedSchedulerNeverSwitches*, *TickIsTaken*, *StopEnds*: the scheduler's `select` with both cases
  ready, its survival of refused updates, and a stop that never hangs.
- *StartsSound*: checks at start-up against uses elsewhere: the ticker, the slices of pruning and of the
  history, the token that is read after the listener was judged by its path.
- *RollbackWithinBudget*: the sum in `main.go:245` is never the reason why a rollback fails.
- *AnsweredInTime*: which answers the write timeout can cut off. With the defaults none, as
  `config.example.yaml:20` has it; the code accepts a write timeout that is too short for the others.
- *DashboardHasData*, *ActionShowsOutcome*: the page against answers in any order.
- *SessionLifetime*: the cookie against the clock, from both sides, with a token that may change.
- *PageSettles*: no flag of the page stays set.

## 4. Fairness

`updater_core` assumes weak fairness of each caller's steps and of Mihomo's restart. Every call a
transaction makes has a timeout (`subscription.request_timeout`, `mihomo.validation_timeout`,
`mihomo.request_timeout`, the rollback budget) or is a local file operation, so a goroutine that is
inside a transaction moves on; `restart: unless-stopped` (`deploy/compose.yaml:10, 39`) brings Mihomo
back. Nothing is assumed of kills, cancellations, late reloads, or of which outcome a call has.
`subscription` assumes weak fairness of `Build` and of each goroutine, whose request has the client's
timeout. `console` assumes weak fairness of each load, login, logout and action that is under way: the
browser reports a broken connection, the server bounds what it does by its timeouts, and a transaction
ends as `updater_core` shows. It assumes nothing of clicks, the clock, restarts, or of the outcome.
`guardian` assumes weak fairness of the transaction's steps, of the scheduler's, of each handler and of
the main goroutine after the signal: each is a goroutine that can run, a transaction has the timeouts
above, and `Shutdown` has its ten seconds. Clients, the ticker, the signal and the listener owe
nothing. A validator child that outlives its kill and holds its output pipe open is outside this
assumption.

## 5. Findings

1. `two_processes`: the mutex is one per process; the CLI update overlaps a transaction of `serve`,
   although the README promises one transaction at a time (`README.md:42`).
2. `first_rollback`: rolling back a first configuration removes the file and leaves Mihomo running
   the rejected content (`updater.go:345-349`, `config.example.yaml:84`). The shipped containers
   write a first configuration before Guardian starts, other deployments need not.
3. `restore_sync`: when `copyAtomic` fails in its last step, `Restore` returns although the file is
   switched; `Update` rolls back in the same situation (`updater.go:147-154` against `224`).
4. `state_two_processes`: `serve` and a CLI update overwrite each other's history (`state.go:60`).
5. `shutdown`: after SIGTERM `serve` waits for open requests only (`main.go:124-126`), so the process
   may end while the scheduler's transaction has switched the file and neither verified nor put it
   back. `updater.go:344-364` gives the rollback a context of its own so that a cancelled caller gets
   it (`updater_test.go:137`); the end of the process takes it away again.

In three places the documentation promises more than the code does; the models follow the code. No
run is spent on them, since each is plain from one place of the source:

- `README.md:118-119` says that entries of one name and different content make the update fail so that
  nothing is overwritten silently. Groups that differ in their members only are merged
  (`subscription.go:270-276`), which looks intended.
- Nor does an update fail when a section has a type the merge does not expect: such a section of the
  first document is replaced by the next document's, one of a later document is ignored
  (`subscription.go:248-252, 321-328, 345-349`). `EntriesSurvive` speaks of the sections the merge reads.
- `config.example.yaml:55-56` and `README.md:130-138` count `external-ui` among the keys that are
  overwritten in every candidate. With the default, empty `mihomo.external_ui` the subscription's
  stays (`candidate.go:47`).

## 6. Proofs

All theorems hold for every value of the constants that meets the modules' assumptions
(`ASSUME` in each module: retentions of at least one, at least one source, distinct markers), which
are what `config.Validate` enforces (`Startup`, and `StartUpSuffices` below) or what the encoding of the
model needs. `DocumentAssumption` says what a decoded document is: it has every section, of
any type, a section that is a list is a sequence, a group is a name, a body and members of any type; it says
nothing about names, repetitions or agreement between documents, which is what the theorems are about.

**`UpdaterProofs`.** `Typing` rests on `TypeInv`, which adds that a caller inside a transaction has
the number of one. `BusyIsTruthful` and `MutualExclusion` rest on `LockInv`: whoever is inside holds
the mutex of its process. `OneTransaction` does not follow from itself, since a second caller is kept
out by `holder` and not by the first one's `pc`. It and the theorems below assume `SingleProcess`,
that all callers share one process, which finding 1 shows to be necessary. `TestedGoesLive`,
`UndoStaysPossible`, `RollbackIsIndependent` and `HistoryIsTruthful` rest on `FileInv`: for each step
of a transaction, what the locals, the active file, its backup and Mihomo have to do with each
other, and that no backup has the number of a transaction still to come. The last fact is what makes
the own backup the newest, so that pruning, which keeps at least one, keeps it (`PruneKeepsOwn`). A
late reload is harmless because it loads the path: `running \in {active, Down}` is kept by it
whenever it held.

`SuccessPrunes` rests on `PruneInv`: whoever is about to record a success has pruned, and at most
`BackupRetention` backups are there. That the pruning removes enough is a count: among those it keeps
there is an oldest one (`OldestExists`), which has fewer newer ones than the retention (`KeptAreFew`).
`LitterIsAccountedFor` rests on `LitterInv`: outside the steps that hold a
candidate no caller has one; since the callers of one process that have one are one at most, a kill
leaves one file at most (`LitterOfOneProcess`), and a failed removal is counted with the file it leaves
(`LitterInvRemovalFails`). It needs no `SingleProcess`.

`SwitchesAreTested` needs none either, and this is its point: it rests on `TestedInv`, which says that
transactions have numbers of their own, that the backup of a number is not there before its transaction
has reached the step that writes it (`Unwritten`), and that the backup a `Restore` has found belongs to a
transaction past that step (`WrittenSource`). So between the test and the copy a backup can be removed,
by any process, but not changed (`Approved`).

**`UpdaterRefinementProofs`.** `Implementation` proves `TransactionRefinement`, under `SingleProcess`. The mapping
looks for the caller inside a transaction; `OnlyInside` says that the one that steps is the only one.
Then there is a lemma per group of steps: the preparation, the backup, the reload and the cleanup are
stutters although they change files of their own; a rename over the active file is `Switch`, also when
the directory sync after it fails (`RenameSwitches`); a rename of the rollback is `Undo`; the record and
a kill are `End`. The delicate step is the backup: until it is taken, the saved content is the active
file, afterwards the backup, and the copy makes the two equal (`BackupIsQuiet`); `FileInv` keeps the
backup until the transaction ends. `RollbackRestores` draws from it what `ConfigTransaction` gives: an undone transaction
has the file back as it found it.

**`StateStoreProofs`.** `Inv` says that every history and every version on the disk is ascending,
below the next number, and never torn; a process that renames has synced its data. `Typing`,
`HistoryStaysRecent` and `GuardianStartsAgain` follow for any number of processes. `CoverInv` adds,
under `SingleProcess`, that the memory of a running process covers every acknowledged record and
every version on the disk: it holds the record or `Retention` newer ones. `TrimCovers` and
`AppendCovers` say that trimming and appending keep that; they give `AcknowledgedRecordsSurvive`
and `RestartShowsNothingNew`.

**`MergeProofs`.** The merge folds over lists. The library's induction theorems cannot be used here, so
the module makes its own from `LeastNumber`: a set of numbers that has 0 and, with a number, the next,
has all of them up to a bound (`SetInduction`). A fold is a function defined by recursion on sets of
indexes; `FoldExists` shows that there is such a function, `AppendUnseenSteps` and `MergeItemSteps` turn
it into the sequence of results after each item. On it go the inductions: `AppendUnseenPrints` (a union of
lists, as printed), `MergeItemIs` for the five outcomes of one item, `ListMergeIs` for a list
(`MergedSoFar`: every entry seen is covered by one of the result, every entry of the result comes from
one that was seen, new names are unique, a failure has its reason), `NextListMerges` for one list after
others and `NextSectionMerges` for a section of any type; `RulesMerge` and `ProvidersMerge` are the same for
the sections that are no lists of entries. Order is a second pass: in an ok merge the keys of the result
are `AppendNew` of the keys (`MergedKeys`), and appending what is new keeps the order of first occurrence
(`AppendNewKeepsOrder`). `FlattenNext` unfolds the concatenation of the lists by one.

**`SubscriptionProofs`.** `Inv` ties the point `Build` has reached to the state of the goroutines
(`Stages`), each goroutine to its slot (`Slots`), the stages after the wait to "nothing runs, nothing
failed" (`Gathered`). It gives `Typing`, `AnswerWaits` and `ErrorIsDeterministic` for every number of
sources and every set of documents. The result of a merge is any value there (`InvSection`), so these theorems do not
depend on the merge. `MergeInv` adds what is in the result: the sections of the documents before the
cursor, and of the one at it for the sections that are done (`In`, `Count`); `ProxiesMerged`,
`ProvidersMerged`, `GroupsMerged` and `RulesMerged` say, for each section, what the result owes to
these documents. None of the theorems is inductive without it, as each speaks of the end only.
`RefusedForAReason` is part of it because a refusal has to be put down to the documents that were
served and not to a result in between, which `NextListMerges` does: an entry of the result agrees with
one that was served. It gives `MergeKeepsEntries`, `MergeKeepsNamesUnique` and `RefusalIsJustified`.
`OrderInv` compares each section with the concatenation of the documents merged so far and gives
`MergeFollowsTheList`.

**`GuardianProofs`.** `Ownership` says that whoever is in a transaction has the mutex, and that a
scheduler's transaction begun after the signal has tested nothing. `CallsFit` says what `result` of a
call means in records: nothing has been recorded for a call without a result, and a call has none
before its record is written. The answer alone is not inductive: it fits the history only because the
result did when the call returned and nobody adds records for that caller afterwards
(`RecordsOfAppend`). They give `Typing`, `AnswersAgree` and `StoppedSchedulerIsHarmless` for every
number of requests and ticks. `ServeUsesTransactions` confirms the composition: `Guardian` implements
`ConfigTransaction`.

**`DeadlinesProofs`.** `Accepted` keeps the fact that start-up checked this configuration, and
`PositiveTimeouts` says what that means for its durations. `Elapsed` bounds, step by step, the time since the request
and, inside a rollback, says exactly how much of the budget is left: each of its calls ends before its
limit or ends the rollback, so the next one finds its own limit still in the budget. They give
`StartUpSuffices`, `BudgetSuffices` and `AnswersAreInTime` for every set of configurations and all
timeouts.

**`WebConsoleProofs`.** `CookieOK` ties the expiry of a cookie to its login, `LoadOK` says that a load of
which every request was answered has data or a refusal, `Data` that a dashboard lacks data only while
a login loads them (also before the login's answer, which is what makes `DashboardHasData` inductive),
`Acting` that an action's load is open only in its last stage and that its first answer is no older than the
action's record. `Rounding` is the arithmetic of whole seconds. They give `StatusToShow`,
`OutcomeShown` and `Lifetime`.

## 7. Only model-checked, and why

- *Liveness* (`EveryTransactionEnds`, `SuccessEventuallyRuns`, `BuildReturns`, `TickIsTaken`, `StopEnds`,
  `PageSettles`): temporal reasoning with fairness and ENABLED is out of the prover's reach.
- *The properties of the findings* (section 5) do not hold; TLC shows by which steps.
- The theorems marked with `SingleProcess` do not hold without it (findings 1 and 4).

Every invariant and action property of a passing run is a theorem.

## 8. Plan

Done, in the order of importance: the transaction (`Updater`, `ConfigTransaction`), the history
(`StateStore`), the candidate (`Merge`, `Subscription`), the process around them (`Guardian`), what it
starts with and how long it takes (`Startup`, `Deadlines`), the page in front of it (`Sessions`,
`WebConsole`), the proofs of their invariants, of the merge, and of the refinement that closes the gap
between `Updater` and `Guardian`.

Left:

1. The status snapshot (`api.go:134-160`), which reads the history before the busy flag.
2. Durability of the active file and the backups under power failure, as `StateStore` has it for the
   history.

## 9. Not modelled

Version queries, static files, logging, request IDs and headers, URL and header checks, size limits
(an answer is usable or not), YAML itself, the contents of secrets, file modes, image builds and CI:
no property here depends on them. The bearer token and the origin check of `Require` decide about
requests the page does not send. In `Deadlines` file operations take no time, sums of durations do not
overflow (that needs timeouts of decades), and the three seconds of the status requests are left out;
the clock of `WebConsole` does not step back. What the components render is not modelled either:
`DashboardView.vue:163` calls a guardian without authentication local, also when
`allow_unauthenticated_remote` made it remote.
`.copy-*.tmp` files a kill leaves behind are not counted; they are never read.
