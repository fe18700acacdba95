# Gatus in TLA+

TLA+ models of Gatus, the health dashboard under `gatus/`: how it runs its monitors, what
an execution of one of them returns, how results become alerts and notifications, and what
the stores keep of them. The models are checked with TLC on small instances; every
safety property is also proved with TLAPS for every value of the constants.

Everything else in the repository (`terraform/`, workflows) deploys that program and
has no behaviour of its own to model.

## 1. The system

Paths are relative to `gatus/`.

### Watchdog and life cycle: `watchdog/watchdog.go`, `watchdog/endpoint.go`, `main.go`

* State: the package variables `ctx`, `cancelFunc`, `monitoringSemaphore`; a goroutine
  with a ticker per endpoint, suite and heartbeat.
* Operations: `Monitor` (assigns both, starts the goroutines), `Shutdown`, the loops,
  `execute...` under the semaphore, `listenToConfigurationFileChanges`, the signal handler.
* Hard: the variables are assigned while goroutines of the old configuration, which
  nobody waits for, still read them; the deferred `Release` reads the semaphore again.
* Correct when: no weight of a semaphore is lost, concurrency is bounded, nobody waits
  for weight that is free or is starved, and replaced monitors end.

### An execution: `watchdog/endpoint.go`, `config/endpoint`, `config/connectivity`, `config/maintenance`, `client`

* State: the connectivity checker's `lastCheck` and `isConnected`, shared by all
  executions; the `Result` under construction.
* Operations: `IsConnected`, `EvaluateHealth` with a call per type of endpoint and its
  conditions, `IsUnderMaintenance` of the endpoint's windows and of the global one.
* Hard: the checker is read and assigned without a lock; an error does not make a result
  fail, its zero values have to; windows cross midnight and have days.
* Correct when: an execution depends on a recent check, a success is that of a target that
  answered, and alerting is handled exactly outside the windows.

### SSH tunnels: `config/tunneling/sshtunnel/sshtunnel.go`

* State: a client behind a mutex, shared by the endpoints that use the tunnel.
* Operations: `Dial` (connects lazily, dials, closes and connects again after a failure),
  `Close`, after which the tunnel is forgotten but for the endpoints that refer to it.
* Hard: the lock protects the client but not its use; whoever fails closes it under the others.
* Correct when: at most one connection is open at a time, a dial fails only if it was
  disturbed each time, and it returns. That none is open once the tunnel is closed is what
  `Close` is for and not what the code does (section 6).

### Alerting of an endpoint: `watchdog/alerting.go`, `alerting/alert/alert.go`

* State: per endpoint `NumberOfFailuresInARow`, `NumberOfSuccessesInARow`,
  `LastReminderSent`; per alert `Triggered`, `ResolveKey`.
* Operations: `HandleAlerting` hands a result to `handleAlertsToTrigger` or
  `handleAlertsToResolve`, which walk the alerts in order, call a provider's `Send`, and
  write or delete the alert's row in the store. `initializeStorage` (`main.go`) reads the
  rows back at a start.
* Hard: every call may fail half way; the process may stop between the notification and
  its row; a reload does not wait for the endpoint it replaces, which may send and write
  rows after they were read for the new one; all alerts of an endpoint share the counters
  and one `LastReminderSent`.
* Correct when: an incident is notified once, not before its threshold, and resolved
  not before its own; an undelivered notification is retried; reminders keep their
  distance and keep coming; the rows tell the open incidents.

### External endpoints: `api/external_endpoint.go`, `watchdog/external_endpoint.go`

* State: the shared `ExternalEndpoint` (counters, alerts), a copy of it per result
  (`ToEndpoint`), the stored results.
* Operations: a push through the API on a goroutine of its own; a heartbeat that stores
  a failure when nothing was pushed for an interval. Both handle alerting on the copy
  and write its counters back.
* Hard: no lock. Pushes interleave with each other and with the heartbeat on shared
  counters and on the alert both copies point to.
* Correct when: one result at a time, the counters are those of the results and the
  alert behaves as any other; with several, at least no goroutine repeats itself.

### Alert providers: `alerting/provider/...`, `config.ValidateAlertingConfig`

* State: a configuration with overrides by group and by alert; for a few a resolve key
  (`alert.ResolveKey`) or a cached client.
* Operations: `Validate`, `GetConfig`, `Send`; 41 providers with one shape.
* Hard: a provider is validated without its overrides; a request is refused, or accepted
  and its answer lost or unreadable; keys are made, returned or searched for.
* Correct when: what is kept can send, everyone is told, a resolution closes what was
  opened, and the key to close it with survives a restart. Overrides of a token alone do
  not reach the service of GitHub and Gitea (section 6).

### Suites: `config/suite/suite.go`, `config/suite/result.go`, `watchdog/suite.go`

* State: the result under construction, the suite's context (`gontext`), the counters
  and alerts of its endpoints.
* Operations: `Execute` (in order, skipping after a failure what does not always run),
  `CalculateSuccess`, `UpdateSuiteStatus`, alerting per endpoint.
* Hard: skipping, timeouts and errors combine; results are matched with endpoints by
  position.
* Correct when: what is reported is what was executed unless an error is reported too,
  success means that everything succeeded, and each endpoint's alerts see that endpoint's
  results. That the timeout ends the execution is documented and not what the code does
  (section 6).

### Stores: `storage/store/...`

* State: statuses with bounded lists of results and events, results of suites, hourly
  uptime, triggered alerts; in SQL also a write-through cache of pages.
* Operations: insertion with clean-up beyond a threshold, paging, uptime with merging,
  deletion of what is not configured any more.
* Hard: transactions that overlap and fail half way, a cache that is refreshed before the
  commit while readers fill it, windows and pages at their ends, a store replaced in use,
  suites and endpoints deleted by two statements with insertions in between.
* Correct when: each store shows the most recent results and the changes among them, a
  cached page is what the tables hold, a suite's endpoint has the results of stored results
  of the suite, and neither merging nor forgetting changes an uptime.

### The rest

Configuration (`config`), API and badges (`api`), security, metrics, the suite's context
(`config/gontext`), JSON paths and patterns, the web interface: section 7.

### Interactions

    main --start--> controller (API)          main --start--> watchdog.Monitor
      ^  \--initializeStorage--> store                          | one goroutine each
      |                                                         v
    listenToConfigurationFileChanges          executeEndpoint / executeSuite / heartbeat
      stop, wait, load, initialize, start       | semaphore, connectivity, then:
                                                |  client (tunnel) <-> target
                                                |  store <- results, events, uptime
    API push --(own goroutine)------------------+--> windows, HandleAlerting -> provider.Send
    API read --> store (cache)                              |-> store <- triggered alerts

`Watchdog` models the outer loop and treats an execution as a step that ends. `Execution`
is what a step of it does up to alerting, `Suite` that of a suite and `ExternalEndpoint`
that of a push; `Alerting` is `HandleAlerting`, where a `Send` is accepted or refused, and
`Notification` what happens inside a `Send`. `Stores` and `Uptime` are behind the insertions.

## 2. Modules

| Module | Models | Checked by | Proved in |
|---|---|---|---|
| `Incident` | abstract specification of one alert | as a property of the two below | as they are |
| `Alerting`, `AlertingProperties` | one endpoint, its alerts, their rows, restarts | `MCAlerting` | `AlertingProofs` |
| `AlertingReload`, `...Properties` | two of them on one table: an endpoint and the one it replaced | `MCAlertingReload` | `AlertingProofs` |
| `ExternalEndpoint`, `...Properties` | pushes and heartbeat on one alert | `MCExternalEndpoint` | `ExternalEndpointProofs` |
| `Watchdog`, `WatchdogProperties` | monitors, semaphore, reload, termination | `MCWatchdog` | `WatchdogProofs` |
| `Suite`, `SuiteProperties` | execution of a suite and alerting after it | `MCSuite` | `SuiteProofs` |
| `Evaluation` | calls of each type of endpoint, conditions | through `Execution` | `ExecutionProofs` |
| `Maintenance` | whether a window contains the present | through `Execution` | `ExecutionProofs` |
| `Execution`, `ExecutionProperties` | `executeEndpoint` with the connectivity checker | `MCExecution` | `ExecutionProofs` |
| `Tunnel`, `TunnelProperties` | one SSH tunnel and those who dial through it | `MCTunnel` | `ExecutionProofs` |
| `Providers` | the providers, one row each | through `Notification` | `NotificationProofs` |
| `Notification`, `...Properties` | loading a provider, one alert, its requests, the service | `MCNotification` | `NotificationProofs` |
| `StatusHistory` | abstract specification of a store | as a property of `Stores` | `StoresProofs` |
| `Stores`, `StoresProperties` | results and events, transactions, cache, reload | `MCStores` | `StoresProofs` |
| `Uptime`, `UptimeProperties` | hourly entries, merging, windows | `MCUptime` | `StoresProofs` |
| `SumTheorems` | lemmas about sums over finite sets, no part of Gatus | | used by `WatchdogProofs`, `StoresProofs` |

Definitions whose names end in a hint of what they get wrong (`ReachedOneEarly`,
`EnsureUnchecked`, ...) stand before the definition they distort. They are plausible
mistakes, used to see that a property notices them; no specification uses them.

### `Alerting`

One variable per field: `failures`, `successes`, `triggered` (the set of alerts whose
field is true), `sinceReminder` (age of `LastReminderSent`; `Never` is the zero time),
`reference` (the local `lastReminderSent`), `i` (the loop), `rows` (the table
`endpoint_alerts_triggered`, by checksum). A result is handled in one step per call that
leaves the process:

| Code | Actions |
|---|---|
| counters, local variable | `BeginTrigger`, `BeginResolve` |
| `continue` / `return` in the loops | `NotDue`, `NotOngoing` |
| `Send`, then `Triggered` and `LastReminderSent` | `SendTrigger`, `SendTriggerFails` |
| `UpsertTriggeredEndpointAlert` | `PersistTrigger`, `PersistSuccesses` |
| `Triggered = false`, deletion | `MarkResolved`; `Send` of the resolution: `SendResolved` |
| end of the loops | `EndTrigger`, `EndResolve` |
| `initializeStorage` | `InitializeStorage` |
| crash, signal: the process ends | `Stop` at any point |

`Faults` says which calls may fail and whether the process stops or is slow. The history
variables (`open`, `unsaved`, `leftover`, `warmF`, ...) record what happened; no guard
reads them. `open` are the incidents that were delivered; `unsaved` those whose row was
never written or read; `leftover` the rows that should be gone; `warmF`/`warmS`
that a counter still derives from what the last start loaded.

### `AlertingReload`

A reload does not stop what it replaces: `listenToConfigurationFileChanges` cancels the
context and sleeps for a second. `AlertingReload` therefore has the memory of an endpoint
twice, in the variables of `Alerting` and in `latePc`, `lateTriggered`, ..., for which the
actions of `Alerting` are instantiated once more (`Replaced`). Both share the table and the
history. `Reload` moves the endpoint with whatever it is doing to the second set;
`LoadConfiguration` reads the rows for the new one, at any moment of the old one's handling;
`ReplacedHandles` goes on with it, with another result too if its `select` takes the tick,
until it finds its context ended (`Leave`) or the process ends (`StopAll`). `crossed` is
history: the alerts on which the replaced endpoint acted after the rows had been read.

### `ExternalEndpoint`

Every access to shared data is a step: `CopyFailures` and `CopySuccesses` are
`ToEndpoint`, `CountFailure` reads `Triggered`, `DecideToSend` reads it again, `Mark` and
`Clear` write it, `WriteSuccesses` and `WriteFailures` write the copy back. A heartbeat
has `HeartbeatPasses/Unknown/Fails` in front. The copy's `LastReminderSent` is the zero
time, so a reminder is due at every failure (`ReminderDue`). One alert suffices, since
alerts of one endpoint influence each other only through what `Alerting` has.

### `Watchdog`

A goroutine is a pair of a generation (the call of `Monitor` that started it) and a
number up to that of the monitors of its configuration (`Monitors`). Its steps are those of `executeEndpoint` and of the loop:
`ReadSemaphore`, `Acquire` (or `AcquireWaits`, `AcquireFails`), `Defer`, which reads the
semaphore again, and `Finish`; then `SelectTick` or `SelectDone`. `held` and
`waiting` are the semaphore's weight and queue, as `golang.org/x/sync` has it: first
come, first served; `Release` hands the weight to the head of the queue and panics when
more is released than held. A grant may meet an ended context (`LeaveGrant`).
`AssignContext` and `AssignSemaphore` are separate, as in `Monitor`. The deferred
argument is why a semaphore can be released that was not acquired, up to
`Panic`; the model keeps that outcome and the properties are about what holds anyway.

### `Suite`

`Execute` by its loop: `Skip`, `CheckTimeout`, `Evaluate`, `EndExecution`; then `Store`, and
`Alert` for each endpoint with the result at its position. The break that leaves the `select`
only, the error that the timeout adds to the result, a maintenance window and a failing insertion are as in the code. `ownRun` is the history: failures in a
row of the endpoint itself. The suite's context is not modelled: what an endpoint reads
from it shows up only as success or failure of its conditions.

### `Evaluation`, `Maintenance`, `Execution`

`Evaluation` has no state: `EvaluateHealth(e)` is the set of results an endpoint can have,
by whether its target answered. `Call` has one operator for each function of `client`,
which says which fields of the result that function assigns on each of its paths, and
`LookUps` those of `getIP` and `getDomainExpiration`. Texts are model values, of which the
conditions tell apart the empty one, `(INVALID)`, truth values and codes; numbers are
compared as numbers, 0 when a text is none.
`ResolvePlaceholder` and `Holds` are those of `condition.go`; patterns and `any(...)` are
sets of the values they equal.

`Maintenance` counts time in units from a midnight that begins a week.
`DurationToStartFromMidnight` is 0 in a window that was not validated.

In `Execution` the checker's fields are read and assigned in separate steps
(`ReadLastCheck`, `AssignLastCheck`, `AssignIsConnected`, `ReadIsConnected`); the time of
`lastCheck` is that of the beginning of the check (`since`). `foundAt` is for the property:
when the check began whose outcome `isConnected` has. `Tick` does not pass the timeout of
a check or a call. `ReadWindows` follows the insertion.

### `Tunnel`

`mu` and `client` are the fields of `SSHTunnel`; `local` is the variable `client` of
`Dial`, `open` what is open on the network. `Dial` reads the client under the read lock,
`Ensure` is the second check under the lock, `Connect` and `ConnectFails` are
`connectUnsafe` with the lock held, `DialTarget` uses the client without it, `Retry` closes
whatever client there is, `Lose` is the network and `Close` the end of the monitoring,
which happens once: it takes the tunnel out of `connections` (`known`), while endpoints that
are still executing go on dialling through it.
`dialing` is where each `Dial` stands, and `disturbed` counts for the properties how often
a dialer met a client that was not open.

### `Providers`, `Notification`

A row of `Providers` has the fields of a provider's `Config`, what its `Validate` requires,
checks and fills in, its overrides, and what its requests do at the service: tell a
recipient or several, open and close an incident by the endpoint's key (`endpoint`,
`alias`), by a key it makes (`generated`) or reads from the answer (`returned`), or search
for it (`issues`, `tasks`).

`Notification` takes one configuration (`Init`), loads the provider (`Load` is
`ValidateAlertingConfig`), and then triggers, reminds and resolves (`Trigger`, `Resolve`:
the part of the watchdog around `Send`). `call` holds the requests that a `Send` has still
to make; each is accepted, refused, or accepted while its answer is lost or unreadable
(`Accepted`, `Refused`, `AnswerLost`, `Garbled`). `incidents` is the service's state.

* GitHub and Gitea ask their service who the user is: while the provider is validated, where
  a failure drops it (`Load`), and in a `Send` whose override names another repository,
  before its own request (`AskUser`).
* A search lists one page of what is open (`Pages`). Which incidents are on it when there are
  more is left open; `cut` remembers that there were.
* Tasks are found by the name of the endpoint: an endpoint with a longer name has its tasks
  closed as well (`similarName`), and a configured name that leaves the endpoint's out finds
  nothing (`nameless`).
* The row is written after `Send` returned nil (`Persist`, which may fail), again at each
  success below the threshold (`SaveSuccesses`), and deleted at a resolution, which may fail
  too (`Deleted`). `Restart` at any point keeps the row only.

### `Stores`, `StatusHistory`

`kind` chooses among memory, SQLite (one connection, so one transaction at a time) and
Postgres. A memory insertion is one step, under the lock. A SQL insertion is `Begin`,
`InsertEvents`, `InsertResult`, `RefreshCache`, `Commit`, each reading and writing the
transaction's own view in `txs`; `InsertResultFails` and `CommitFails` end it. A suite's
result is written with those of its endpoint in `InsertSuiteResult`, or without it if that
cannot be stored (`SkipMember`; the code logs and goes on), and `Cascade` is what the
schema's `ON DELETE CASCADE` removes. A reader goes through `ReadEvents`, `ReadResults`,
`CachePage`; `Expire` is the cache's. `Reload` replaces the store while transactions of
the old one go on, `Restart` is a crash; after both `DeleteSuites` and then `DeleteEndpoints`
remove what is not configured, either of which may fail (`DeletionFails`), and after a
reload the executions of the old configuration may insert before and between them
(`Inserting`). `incomplete` is history: suites whose endpoint lacks a result because one
was skipped or deleted alone. `StatusHistory` has two actions: a result is
observed, or keys are forgotten; rows above a maximum that wait for a clean-up are not
part of it (the mapping takes the newest).

### `Uptime`

A set of entries `[hour, total]` for each store, and `executed` for what happened.
`Execute` inserts, merges when there are `MergeThreshold` entries
(`Merged` builds the daily ones), and cleans up; `Tick` also passes while nothing runs.
`SqlUptime` and `MemoryUptime` are the sums over a window.

## 3. Runs

| Run | Instance | Shows |
|---|---|---|
| `alerting` | two alerts, all faults, restarts, changed configurations, with fairness | the two thresholds, `ReminderSpacing`; each alert implements `Incident`; `LazyRetry`, `RemindersKeepComing`, `ResolvedInTheEnd` |
| `alerting_reload` | an alert, the replaced endpoint and its successor, all faults, restarts | `Delivered`, `RowsMatchIncidents`, `InitialOncePerIncident` |
| `external_incidents` | a push and the heartbeat, all faults | `InitialOncePerGoroutine`; until two goroutines overlap `CountersMatchRuns`, `RowMatchesTriggered`, and the alert implements `Incident` |
| `watchdog` | a heartbeat, then a heartbeat and an endpoint; reload, invalid files, a termination signal; with fairness | `TokensConserved`, `ConcurrencyPerGeneration`, `NoneWaitsInVain`, `MonitorsKeepExecuting`, `MonitorsEnd` |
| `watchdog_invalid_config` | an invalid file that is skipped | a divergence, section 6 |
| `suite_results` | four endpoints, two always run, all faults | `SuccessIsComplete`, `ReportedAsExecuted`, `AlignedEndpointsCountOwnFailures` |
| `suite_timeout` | the same | a divergence, section 6 |
| `execution` | two goroutines, endpoints of all types, four windows | `SuccessMeansAnswered`, `DecidesOnRecentCheck`, `AlertsOutsideWindows` |
| `tunnel` | three dialers, one to a target that is down, all faults | `NoClientLeaks`, `FailsOnlyIfDisturbed`, `DialsReturn` |
| `notification_delivery` | all providers, each field overridden, all faults | `KeptCanSend`, `SentToEveryone`, `ResolvedClosesOwn`, `KeySurvivesRestart` |
| `stores` | an endpoint and a suite, two writers, a reader, three kinds | implements `StatusHistory`; `CachedPagesAreCommitted`, `EventsFollowResults`, `PagesAgree`, `SuiteResultsComplete` |
| `uptime` | six days of two hours | `WindowsExactButFirstDay`, `MergeMakesRoom` |

### Bounds, and why they are enough

* `MaxRun`, `MaxAge`: counters and ages are only compared with thresholds and intervals,
  so they saturate at the largest one. The assumptions require the thresholds to fit. The
  abstraction loses no behaviour: a saturated counter passes every threshold, as the real
  one does.
* Two alerts with different thresholds and intervals (`<<2, 3>>`, `<<3, 2>>`, `<<1, 2>>`):
  the least that lets one be triggered and the other not, and one rewrite what both
  share. Configurations enable both, the first, or none.
* Over reloads: one alert and one replaced endpoint at a time, with thresholds of two. What two
  alerts share (counters, reminder time) is the subject of `alerting`; reloads are
  at least half a minute apart and would meet a second replaced endpoint only in a `Send` that
  lasts as long. The theorems hold for any number of alerts, and for one replaced endpoint.
* External endpoints: a push and the heartbeat, which is the longer of the two, are what it
  takes to interleave; the properties of one result at a time hold until they first do.
* `MaxGenerations = 2`: one reload is what mixes two semaphores up. The configurations have one
  monitor and two, for a concurrency of one: two of the same configuration compete for its
  semaphore, one served and one in the queue, while one of the old configuration, with either
  semaphore and either context, comes between them. A third configuration or monitor is more than
  a liveness check can afford; the safety theorems hold for any number of both.
* Suites: four endpoints, so that an endpoint that always runs comes before, between and
  after others that are skipped. `MaxRun = 1` distinguishes a failure counted from none.
* Executions: weeks of two days of two hours of two units, so that a window of three units
  crosses midnight and begins within an hour, and one day is not in `every`; `LastTime = 10`
  passes a week. One goroutine has any of the endpoints of `MCChoices`, of every type, with
  the conditions its documentation shows and some that need no answer; the other a plain
  TCP endpoint, since executions share nothing but the checker. Checks and calls take up to
  one unit and the checker's interval is two, so that the checks of two goroutines overlap.
  A connectivity checker is configured.
* Tunnels: `MaxRetries = 2`, where the code has three, is a first attempt and a last one; the
  theorems hold for any number. Three dialers need five clients
  (`ClientsSuffice`: an identity that nobody holds must be left).
* Notifications: each provider with each of its fields in turn given or left out by each
  layer, so that every combination of two layers for one field occurs; configurations
  without overrides make three calls of `Send` (trigger, remind, resolve), the others one.
  Two recipients. A page holds three incidents, for the 100 of the code; with another's
  among them it takes three of one's own to exceed it.
* Stores: maxima of two and a clean-up threshold of one, so that a list is below, at and above its
  maximum and cleaned up within four insertions; `PagesAgree` takes sizes and pages
  beyond the list. Two writers, which are symmetric, overlap on Postgres; the cache pattern of
  the one endpoint also matches the suite's.
* Uptime: days of two hours, kept for three; the merge threshold of 7 stands to three days
  as 100 stands to the 72 hourly and 27 daily entries that a merge can leave
  (`MergeThresholdSuffices`, which the code's constants meet with nothing to spare).

`Watchdog`, `Notification`, `Stores` and `Uptime` are checked without deadlock detection:
`Watchdog` really stops (a signal, an invalid configuration, a panic) and replaced monitors
end, a provider that is not kept sends nothing, and the bounds on calls, insertions and
time end the others. All other runs check it.

### Fairness, and what justifies it

* `Alerting`: results keep coming (`WF` of the two `Begin` actions: the monitor's ticker),
  the handler's loops run on (`WF` of `Handle`: provider and store calls return), time passes, and a provider that is asked
  again and again accepts in the end (`SF` of `SendTrigger` per alert; `LazyRetry` is
  meaningless for a provider that never accepts).
* `Watchdog`: goroutines are scheduled; executions end because clients have timeouts;
  tickers fire; `SelectDone` is strongly fair because `select` chooses at random among the
  ready channels, so that an ended context is noticed in the end although ticks are ready again
  and again. The semaphore's fairness is not assumed: it follows from its queue.
* `Tunnel`: `SF` of `Ensure` and `Retry`, because Go's mutexes hand the lock to who has
  waited for a millisecond; `WF` of connecting and dialling, which end. For
  the handshake of SSH that is an assumption: the timeout of `connectUnsafe` covers the TCP
  connection only, and a server that accepts and is silent holds the lock for ever. That
  anyone dials is not assumed.

## 4. Proofs

Each rests on the assumptions named in the module that declares the constants
(`AlertsAssumption`, `ExecutionAssumption`, `TunnelAssumption`, ...), which the runs evaluate.

* `AlertingProofs`
  * `TypeCorrect`: the type invariant is inductive by itself.
  * `TriggeredAfterThresholdHolds`, `ResolvedAfterThresholdHolds`: the counters agree with the
    runs of results unless they are still warm. `CountersInv` bounds each counter by the run it
    counts; while a success is handled `failures` still holds the run that the success ended,
    so that it says nothing of `failures` there.
  * `ReminderSpacingHolds`: the invariant relates the shared `LastReminderSent`, its local
    copy and the age of each alert's own last notification: for the copy only of the alerts
    that the loop has yet to reach.
  * `RowsMatchIncidentsHolds`, `DeliveredHolds`, `InitialOncePerIncidentHolds`, of `ReloadSpec`:
    one invariant (`ReloadInv`) over `triggered`, `open`, `unsaved`, `leftover` and `rows`. What
    is triggered is open, and a saved open incident of an enabled alert is triggered, both but
    for the alerts in `crossed`: in the memory of the endpoint in use, and until the rows are read
    for it in that of the one it replaces. What a step of either handler does to the
    shared table is one of four effects at one alert (`HandlerEffect`, `ReplacedEffect`), of
    which `EffectKeeps` says once what they keep. They assume distinct checksums, without
    which they are false.
  * `AlertingImplementsIncident`: initial states map to initial states, and each step of the
    handler to a step of `Incident` or a stutter, for each alert, as long as no counter derives
    from a loaded value.
* `ExternalEndpointProofs`
  * `InitialOncePerGoroutineHolds`, for any number of goroutines: a goroutine among the
    `senders` has marked the alert triggered or is about to, and one about to send for the
    first time is not among them.
  * `CountersMatchRunsHolds`, `RowMatchesTriggeredHolds`, `ImplementsIncidentHolds`, until two
    goroutines overlap: one invariant, `Sequential`, says at each step of the one goroutine
    that is busy what its copy has to do with the results (`CopyMatches`) and that what it
    decided still holds when it acts (`DecisionHolds`). Each step then maps to a step of
    `Incident` or a stutter.
* `SuiteProofs`, for any number of endpoints: `SuccessIsCompleteHolds`, as while no result
  failed each endpoint passed by the loop has a result; `ReportedAsExecutedHolds`, from what
  the results are after the loop has passed `n` endpoints (`AsExecuted`), kept when an endpoint is
  skipped and when its result is appended; `AlignedEndpointsCountOwnFailuresHolds`, from the
  results that are in the place of their endpoint (`InPlace`).
* `WatchdogProofs`, for any monitors, limits and numbers of reloads. A goroutine reads the
  semaphore, then the context, then the semaphore again, so that it releases what it acquired
  or a newer one (`SlotsInv`). `TokensConservedHolds` follows each step that moves a weight
  through a sum over all semaphores; `ConcurrencyPerGenerationHolds` follows from it, as
  no semaphore holds more than its weight. `NoneWaitsInVainHolds` needs `HeldInv`: the newest semaphore
  counts no more than the goroutines that acquired it, since wrong releases come from older
  ones; and `QueueInv`: who waits, waits for a semaphore that is full.
* `StoresProofs`, for any keys, writers, readers, maxima and thresholds.
  * `StoresInvariant`: `Inv` relates what is stored (`Histories`: the events of an endpoint are
    the changes among its results, those of a suite's endpoint are `Attached`: each to a stored
    result of the suite, in order, and to all of them unless the suite is `incomplete`) to what an open transaction holds (`Sound`). It rests on one writer per key: what a
    transaction read of its key is what is stored of it when it commits, whatever
    others commit meanwhile. `EventsFollowResultsHolds` and `SuiteResultsCompleteHolds` are parts of it.
  * `PagesAgreeHolds`: about any list, from the positions that both windows have.
  * `CachedPagesAreCommittedHolds`: on SQLite only the open transaction, a failed commit
    or a reader alone on the connection changes a page (`Cached`).
  * `ImplementsStatusHistoryHolds`: a commit, or an insertion in memory, is the abstract observation
    of a result; a reload forgets; every other step stutters. The lemmas `NewestConcat` and
    `NewestTwice` say that it does not matter when rows above a maximum are deleted.
  * `WindowsExactButFirstDayHolds` and `MergeMakesRoomHolds`, for days of any number of hours and
    any retention. A window is a sum over entries that a merge replaces, so the invariant
    (`UptimeInv`) does not compare entries with executions one by one: `Tells` has the same
    entries for the hours that no merge reaches, the same total from every midnight of the
    retention on, and no greater total from any other hour on. A merge keeps that because it
    moves what was executed to the beginning of its day (`MergedTotals`: a day's entry is the
    total of its hours, `DailyIs`, and totals of disjoint sets add up, `TotalDisjoint`). A window begins
    between two midnights, at most a day apart, whose totals bound its own (`WindowsFollow`).
    For `MergeMakesRoom`, what a merge leaves begins in different hours since the threshold or at
    different midnights of the retention before it (`MergedSize`).
* `NotificationProofs`, for each provider, any number of recipients and any faults. What the
  41 rows have in common (`WellFormed`) is proved row by row. `KeptCanSendHolds` follows from
  where each field of the effective configuration comes from (`EffectiveIs`).
  `SentToEveryoneHolds` counts those told and those still to tell (`SentInv`);
  `ResolvedClosesOwnHolds` follows a `Send` request by request (`KeyedInv`, `SearchedInv`: what
  is left to ask covers every own incident that is open, once a search that was not cut has
  listed them). For `KeySurvivesRestartHolds`, `KeyInv` says from the first request of a `Send`
  on which key its incident will have, that the row has the key in memory while nothing is
  due to be written, and that only a resolution, which deletes the row first, closes the incident.
* `ExecutionProofs`
  * `RecentChecks`, for any number of goroutines and any interval: `isConnected` is at most
    a `CheckTimeout` older than `lastCheck` says, unless a goroutine is between its two
    assignments; a check does not outlast its timeout.
  * `AlertingFollowsWindows`, for all windows and calendars of equal days: the lemma
    `WindowIsContained` shows the day that the code computes to be the only one of two that
    matters.
  * `SuccessesAreAnswered`, for any endpoint and any conditions: a call that is not
    answered leaves the fields that an answer assigns as they were
    (`UnansweredAssignsNothing`, one step per protocol, after `LookUpsAssignNothing`), and with
    those a condition that needs an answer does not hold (`NeedsAnswerFails`).
  * `NoLeak` and `FailuresAreDisturbed`, of the tunnel, for any number of dialers and attempts.
    `NoLeak` says that the only connection that can be open is the one in `client`, before and after
    `Close`, and not that somebody closes it. The invariant `TunnelInv` adds `Protected` (who connects holds the lock, and then there is no client, so
    that what it opens is the only one) and `Disturbances` (a dialer on its n-th attempt was
    disturbed n times, once more if the client it holds is not open). That a fresh client
    exists is `ClientsSuffice`.

The type invariant of each of these modules is proved with them.

Assumptions that a reader should know of: distinct checksums, as said above; `StoresAssumption`
has each endpoint of a suite in one suite only, which `ValidateUniqueKeys` (`config.go:540`)
enforces by their keys; `MergeThresholdSuffices` has a threshold of merging that is above
what a merge can leave, and whole days of retention, as the constants of `sql.go:36-39` are,
without which `MergeMakesRoom` is false; and the constants for "none" (`NoKey`, `NoRow`, ...) are different from
every value they are an alternative to.

Induction over data is done with a set in place of a predicate, since the prover cannot
instantiate the library's theorems (`SetInduction`, `SubsetInduction`, from the well-foundedness
of the natural numbers). `SumTheorems` has them, and what they show of `MapThenSumSet`: that
the order in which a finite set is summed does not matter (`SumRemove`), so that sums of
disjoint sets add up (`SumDisjoint`) and a change of one value changes the sum by as much (`SumExcept`).

Only model-checked: the liveness properties (`LazyRetry`, `RemindersKeepComing`,
`ResolvedInTheEnd`, `MonitorsKeepExecuting`, `MonitorsEnd`, `DialsReturn`), since fairness and
`ENABLED` are beyond TLAPS, and the divergences of section 6, two of which are counterexamples.

## 5. Reading a property

The exceptions in a property are part of what it says.

* `InitialOncePerIncident`: "unless its row was never written or could not be read", because
  then nothing outside the process knows of the notification. It, and `Delivered`, except the
  alerts in `crossed`, on which a replaced endpoint acted after the rows were read; what
  happens to those is in section 6. `RowsMatchIncidents` has no such exception: a row that the
  replaced endpoint wrote after its incident was resolved is in `leftover`, as one that
  could not be deleted is. `TriggeredAfterThreshold` has
  `warmF`, because `initializeStorage` sets the counter to a threshold; so has
  `ImplementsIncident`, which is about the steps between a start and the end of the process.
  `LazyRetry` excepts an alert that is triggered from the start by a row that could not be
  deleted: it is not sent at all.
* `MonitorsEnd` excepts a goroutine
  that read the new context with the old semaphore and now waits for the one with the
  other: it stays until the new context ends, or the old semaphore comes free.
  `NoneWaitsInVain` is about contexts
  that have not ended: when one ends, `Acquire` may put back a weight that the wrong `Release`
  has already taken, and the count drops below zero. It is also about goroutines with the
  semaphore and the context of one configuration. One that has the old semaphore with the
  new context may wait in vain: the goroutine that holds the old semaphore's weight may
  have read the new one for its `Release`, and the old one then counts a weight that
  nobody holds any more.
* `DecidesOnRecentCheck` excepts an outcome read between the two assignments of another
  goroutine: `lastCheck` is then newer than what was read.
* `SuccessMeansAnswered` is about conditions that a result without an answer does not
  fulfil (`NeedsAnswer`); nothing answers a UDP endpoint without a body, which counts as connected.
* `AlertsOutsideWindows` is about windows that were validated, and not about the minutes
  before a window's start within its hour, for which the code looks at the wrong day.
* `CachedPagesAreCommitted` is about SQLite. On Postgres a refresh may cache what another
  transaction is about to change; a commit that fails after the refresh leaves a
  page of what was rolled back (`uncertain`); pages of a suite's endpoints are never refreshed.
* `EventsFollowResults` and the refinement have one writer per key, which two pushes to one
  external endpoint on Postgres are not: they may record one change twice.
* `WindowsExactButFirstDay`: a merged day is counted where it begins, so that a window
  that begins within it loses it. The window of a day never begins in one.
* `ReportedAsExecuted` lets a suite with an error lack results: the error is that of the
  timeout or of an endpoint that could not be evaluated, and is stored with the result.
* `SuiteResultsComplete` has its last part only for suites that are not `incomplete`.
* `ResolvedClosesOwn` leaves out the services whose key is made by Gatus or returned: a key that was lost with
  an answer cannot be closed. `KeySurvivesRestart` says what is true of those. It also leaves
  out searches of more than a page, and tasks whose configured name is not that of the endpoint.
* `KeySurvivesRestart` holds from the write of the row on, until the alert is resolved or a
  reminder makes another write due. Before the write, or if it fails, the key is lost with the process.

## 6. Where code and documentation disagree

Two are shown by a run, with its counterexample.

* `watchdog_invalid_config`: with `skip-invalid-config-update`, everything was stopped before
  the file was found invalid, and nothing is started again, while the log says that the old
  configuration continues being used (`main.go:238`).
* `suite_timeout`: `break` leaves the `select` and not the loop (`suite.go:142`), so that
  endpoints are executed after the timeout, which is documented as the maximum duration of
  the entire execution.

Others are behaviours of the models and have no run of their own; where a property meets one
it names it as an exception:

* Reload and alerts: a reload waits for a second (`main.go:232`). A `Send` that takes longer ends
  after the rows were read, and the new endpoint, which does not know of it, sends the
  initial notification of the same incident (`crossed` in `InitialOncePerIncident`); `Triggered`
  is to prevent the same alert from going out twice (`alert.go:65`).
* Tunnels: `Close`, which "closes all SSH tunnel connections" (`tunneling.go:54`), forgets the
  tunnel (`tunneling.go:64`); a dial in flight connects again, and nobody closes that connection.
  `NoClientLeaks` says that it is one connection, not that somebody closes it.
* GitHub and Gitea: of the open issues one page of 100 is searched (`github.go:123`,
  `gitea.go:136`); a relevant issue beyond it is not closed, and `Send` returns nil (`cut` in
  `ResolvedClosesOwn`). The client made for the token of the default configuration is kept
  when an override changes the token and not the repository (`github.go:51`), so that such
  an override (`README.md:806`) has no effect; which fields a request carries is not a property.
* Alerting: a failure resets the successes in memory but not those in
  the row, which a restart reads back, so an incident may be resolved below its threshold;
  after a restart `failures` is the
  threshold of the last alert loaded, for all alerts, and the first failure sends a
  reminder; an alert with a short reminder interval keeps one with a longer interval from
  ever being due; alerts with equal checksums share a row.
* External endpoints: two concurrent pushes write back the same count, so as many
  failures as the threshold asks for may leave the alert untriggered; an external endpoint's copy
  has no `LastReminderSent`, so each failure sends a reminder; concurrent pushes may both
  send the initial notification, or leave a row of an alert that is over; a heartbeat may
  find the failure the previous one stored.
* Reload: executions of the old configuration come on
  top of the concurrency of the new; the store is replaced while they run, and they store
  results of endpoints that were just deleted; a suite's result stored between the two deletions of a
  start loses its endpoint's; a tick waits
  while an execution is slow. A `concurrency` of 0 is replaced by 3 (`config.go:694`)
  where the README has it unlimited.
* Suites: a skipped endpoint has no result, so alerting takes the result of
  another endpoint for it.
* Maintenance: the windows of DNS and SSH endpoints (returns before them,
  `endpoint.go:243-248`) and of external endpoints are never validated, so they start at midnight; a window longer
  than 23 hours misses the minutes before its start within its hour.
* Conditions: `[STATUS] < 300` alone succeeds with status 0 when nothing answers, and
  `[STATUS] == 0` does for an SSH command.
* Providers: an answer of incident.io that cannot be parsed is to "silently fail", so as not
  to create tons of alerts (`incidentio.go:120`), but the error is returned
  and the key cleared, so that every retry opens one more incident; PagerDuty's reminders change the key; ClickUp,
  which also searches one page, closes the tasks of endpoints whose name contains
  this one's; with several recipients a retry tells the first ones again.
* Stores: the memory store has an error for an unknown suite where SQL has neither result
  nor error. The comment on merging (`sql.go:1055`) has it limit the entries to 48+(n-2), 76
  for the 30 days of the retention; the buffer is floored at a day, so that up to 72 hours
  stay, and with 27 days they are 99, one below the threshold that merges.

## 7. Not modelled, and why

* The suite's context: nested maps of texts; what an endpoint reads from it is the success or
  failure of its conditions.
* JSON paths, patterns, wording of messages, parsing and validation of configuration files:
  string functions, whose outcome is a choice of the models. Of the configuration, only
  which providers are kept is modelled.
* API handlers, badges and the web interface show what the store returns; metrics are only
  written. Security is sessions and tokens of libraries; no state of the monitoring.
* Clients: what a call returns is in `Evaluation`, the libraries behind it (proxies,
  OAuth2, certificates of the client) are not.
* Alerting over reloads: a second endpoint replaced while the first still handles a result;
  and `initializeStorage` is one step, so that the replaced endpoint acts before or after all
  of its queries of an endpoint's rows. The thresholds, the reminders and the refinement of
  `Incident` are about restarts only.
* Stores: average response times, sums like the uptime; migrations of the schema; an event
  whose insertion fails and is only logged; a count or a deletion of a clean-up that fails and is
  only logged, which leaves the rows to the next insertion; a SQLite reload while a transaction
  is open; two writers that create one endpoint at the same moment. A suite keeps its one
  endpoint over reloads. An endpoint's result that cannot be stored with its suite's is
  skipped on SQLite only: on Postgres a failed statement aborts the transaction, and
  neither is stored, which `CommitFails` covers.
* Uptime: a failing update of the uptime (`sql.go:335-337`) and a merge that fails half way
  (`sql.go:1107-1130`): both are only logged (`346-348`) and the insertion commits, on SQLite with the part
  of the merge that was done: the hours deleted and some of their days missing.
* Maintenance and uptime: a change of the offset of a time zone, within a window or a day. A
  day of 25 hours brings what a merge can leave to the threshold.
* A failure of the database that lies about a commit, and of the clock.

## 8. Plan

Done: the modules of section 2, and a theorem for every safety property of section 3. Left:

1. A composition of `Suite` with the handler of `Alerting` over the suite's context.
2. Average response times beside `Uptime`, as quotients of two of its sums.
