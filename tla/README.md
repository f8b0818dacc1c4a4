# midstream-ops, modelled in TLA+

midstream-ops is the operations backend of an AI-API relay station: one Go binary beside the station's own
installation (sub2api) that watches upstream sites, follows their prices, keeps the books of customers who buy on
credit, tests what upstream channels really are, and runs media and test jobs for users. This directory holds TLA+
models of the parts of that backend whose correctness depends on order, overlap and failure, or on rules too many to
test by example; the TLC configurations that check them on small instances; and proofs about them for TLAPS. Paths
below are relative to `src/backend/internal/` unless they start with `src/`.

    tlc -workers 2 -config Requests.cfg MCRequests        # model-check one run
    tlapm CreditLedgerProofs.tla                          # check the proofs of one module

Contents: [1 Inventory](#1-inventory) · [2 Modules and code](#2-modules-and-code) · [3 Runs](#3-runs) ·
[4 Fairness](#4-fairness) · [5 Proofs](#5-proofs) · [6 Disagreements](#6-where-the-code-and-its-words-part) ·
[7 Not modelled](#7-what-is-not-modelled) · [8 Plan](#8-plan)

## 1 Inventory

### How the parts hang together

Everything runs in one process (`src/backend/cmd/server/main.go`). It owns a PostgreSQL database ("monitor"), reached
through a pool of ten connections (`repository/pgstore.go`) with transactions at the default level READ COMMITTED, and
it reads the station's own database without writing it. Four things start work: HTTP requests (one goroutine each), the
cron scheduler (`service/scheduler.go`: probes, rate poll, balance watch, cleanup), per-provider timers
(`service/sync_scheduler.go`), and goroutines the first three leave behind (price followers, archivers, workers). There
is no lock manager and no leader: overlap is limited only by what each service does for itself.

    sync timer / manual refresh ──► ProviderSyncService.SyncOne
          │  session                    │ balance      │ costs       │ rates         │ state
          ▼                             ▼              ▼             ▼               ▼
    tokenManager ──► upstream     last_balance   CostSyncService  RateService   collector_state ──► next timer
          ▲                             │         daily costs       │ Reconcile
          │ edits of the site           ▼              │            ├── OnRateChanged ──► alerts
    provider form                 AfterSync ──►        ▼            └── OnUpstreamRateChanged ──► go PricingService
                                   alerts        statistics                                            ──► own site

Settings are stored as documents and reloaded in place: saving the strategy calls `SyncScheduler.Configure`, saving the
push settings rebuilds its timer, saving the channels rebuilds the notifier. At start the process calls `Configure`,
recovers unfinished test batches and resumes pending archives; nothing else is repaired.

### Components

For each: its state, its operations, what is hard about it, and when it is correct. The modules are in section 2, the
hazards, at the lines where they bite and with the properties that would show them going wrong, in `PROJECT.json`.

**Credit ledger** (`service/credit_service.go`, `repository/credit_repo.go`). State: `credit_ledger` (append-only rows),
`customers.outstanding` (a cached SUM of them), `credit_limit`, `alert_level` (a latch). Operations: append, reverse,
recalculate one or all, change the limit; each evaluates the alert afterwards, outside its transaction. Hard: two
requests of one customer interleave at the statements of their transactions; the reversal check is a separate
statement; the process may die between commit and alert; two recalculations of all customers lock rows in different
orders. Correct when: the cache is the sum, an entry is undone once by its mirror, and every rise of the band is told
once.

**Upstream session** (`service/provider_token.go`, `password_login_gate.go`, `login_classify.go`). State: a token pair
and a cooldown per provider row; per token manager and in memory, one lock per site and a login gate. A refresh rotates
the pair, and an upstream that sees a superseded refresh token may end the session. Hard: overlapping runs, lost answers
of the rotation, a dropped write of the new pair, two managers with locks of their own, and edits of the credentials
under a run that holds an older copy. Correct when: no run replays a superseded token, no rotation is forgotten, a site
comes back after whatever was lost, and a run that begins after an edit enters as the account that was entered.

**Pricing** (`service/pricing_service.go`, `repository/pricing_repo.go`). State: one rule per own group with its base
(`last_applied_rate`), a conflict flag, an audit (`rate_actions`); the group itself lives on the own site, where people
edit it too. Hard: read, judge and write are separate calls; the answer of the write may be lost; several jobs of one
rule. Correct when: the program never overwrites a person's rate unasked, the audit explains every rate it set, targets
stay within their limits, and the group follows its upstream.

**Provider synchronisation** (`service/sync_scheduler.go`, `provider_sync_service.go`, `balance_service.go`,
`handler/provider_handler.go`). State: providers, one timer each, the balance cache, consecutive failures and backoff.
Hard: a timer is armed only by the end of the run before; edits, rebuilds, deletion and manual refreshes arm and clear
timers at the same time; each statement of a run may fail. Correct when: no collectable provider loses its timer, and
cache and backoff agree with what happened last.

**Rate history** (`service/rate_service.go`, `repository/rate_repo.go`). State: `rate_snapshots`, a row per change or
disappearance. Hard: first sight, disappearance and return; overlapping reconciliations; failures between the insertion
and the hooks. Correct when: every row states a change, and every change is told.

**Cost synchronisation** (`service/cost_sync_service.go`, `repository/upstream_cost_repo.go`). State: costs by key and
day, which account uses which key, whether the days before were fetched. Hard: listing and fetching are separate calls,
runs overlap, the date is taken after the fetch, days are back-filled once in a provider's life. Correct when: no day
costs more than it did, a key stays with the account that holds it, amounts never fall back.

**Media tasks** (`service/media_service.go`, `media_archiver.go`, their repositories). State: `media_tasks`,
`media_artifacts`, an in-memory set of archives with a few slots, the upstream's jobs. Hard: idempotent submission by
unique index, calls that cost money and lose their answer, several readers refreshing one task, archives cut off by a
deadline or a restart, deletion in between, a start that takes up only 50 of the archives it finds. Correct when: one key
is paid once, money spent leaves a trace unless the answer itself was lost, a stored task has its files, and a finished
video is archived or waits for a known reason.

**Model detection** (`service/model_detect_service.go`, `service/modeldetect/`). State: jobs in memory, a round of checks
per target behind one gate, the history of whole runs, baselines. Operations: start, cancel, retry in part, about fifty
checks, an audit across their answers, a verdict. Hard: rounds, retries and cancels of several callers; and rules whose
conclusions depend on which of many answers failed, was limited or was tampered with. Correct when: rounds do not
overlap, a round explains every check, history holds whole runs, a genuine channel is not called a fake, a backend
without the signing key is not graded genuine, and an outage is no offence.

**Pelican tests** (`service/pelican_service.go`, `pelican_gateway.go`, `repository/pelican_repo.go`). State: batches,
results, publications, workers in memory. Operations: idempotent start by request id, workers with retry and fallback,
cancellation, recovery at start, publication. Hard: a lost commit answer, cancel against completion, restart in a batch,
an answer stream that breaks off in the middle of an event. Correct when: a target is charged at most once, an ended
result stays as it ended, an open one has somebody who sees to it, and only whole answers are accepted.

**Account health and probes** (`pkg/health/state_machine.go`, `service/probe_service.go`). State: a six-state
machine per account with counters and time limits, a daily budget. Hard: scheduled and manual probes read, step and
write back a row without comparing, while an operator disables the account. Correct when: weight, counters and limits
fit the state, a suspension is told, and only people take an account out of "disabled".

**Provisioning** (`service/provision_service.go`, `sub2api_provision.go`, `repository/connection_repo.go`). State: a
connection record, a key upstream, an account at home. Hard: four steps in three places, with compensation, repeats and
disconnections that cross. Correct when: nothing is made or removed that no record or person knows of, an account has
its key, and an operation makes one key however often it is repeated.

**KYC of customers** (`service/credit_kyc.go`, `handler/embed_kyc_handler.go`). State: the papers of a customer with
their status. Hard: saves, edits and a review that was begun on older papers. Correct when: the status says what
happened to the papers.

**Balance alerts** (`service/credit_service.go` WatchUserBalances, `service/alert_service.go`). State: latches, one kind
in the database and one in memory. Hard: settings that change between decision and message, restarts, lost messages.
Correct when: who is marked as warned was told, and nobody is told twice within an hour.

**Settings, status push, notification channels** (`service/settings_service.go`, `status_push.go`, `status_board.go`,
`notify/`). State: rows, their copies in memory, the timer and the channels built from them, the last result of the
push. Hard: saves that cross on their way through the four places. Correct when: the four agree, a result tells what
was sent, and the board is true to the traffic of its window.

**Administrator login** (`service/auth_service.go`, `repository/refresh_token_repo.go`, the client in
`src/frontend/src/api`). State: rotating refresh tokens, a stored pair that a browser's tabs share. Hard: tabs that
refresh at the same time, logouts and password changes under a refresh. Correct when: a refresh token gives one pair, a
logout stands, and tabs do not log each other out.

**Statistics and operating costs** (`service/stats_*.go`, `operating_cost_service.go`, `handler/dashboard_handler.go`).
State: operating costs; else views over traffic, costs and links. Hard: four views that divide one cost in different
ways, over rows that lack a group, a user or an account. Correct when: every view adds up to the same.

**Not modelled**: media gateway, catalogue and prices; the cron entries; storage, configuration, encryption, routing and
start-up; the frontend beyond its session. [Section 7](#7-what-is-not-modelled) says why.

## 2 Modules and code

Conventions. An action is one statement or call together with everything the goroutine does before its next one that
others can see; a goroutine's place in its handler is `pc` (or has a name of its own where several modules run side by
side). Variables marked *history* do not exist in the code: they remember what happened, so that a property can say when
it is meant to hold. Every bound is a CONSTANT named `Max...` (or `LastDay`, `Length`, `Width`, `Places`, `Slots`, `Hour`
where it stands for something of the code) and appears only in guards. Failures are actions of their own and draw on
such a bound. A definition's place in the code is in the `map` of `PROJECT.json`.

| module | models |
|---|---|
| `CreditEntries`, `CreditBook`, `CreditLedger` | rows, sums and bands; what the ledger promises; the ledger with its transactions |
| `ProviderSession` | token pairs of one site, the lock, rotation, password login, cooldown |
| `ProviderAccess` | every mode of authentication against edits of the credentials |
| `PriceRule`, `PriceFollow` | the arithmetic of a rule; one own group following its upstream |
| `RateHistory`, `ProviderSync` | the rows of one group's rate; scheduler, run, handlers |
| `CostSync` | daily costs of a provider's keys and who owns them |
| `MediaTask` | submissions, refreshes, archives of one user |
| `DetectJob` | rounds of checks, retries, cancels, history |
| `CheckResults`, `Checks*`, `AuditRules`, `DetectVerdict` | what each check, the audit and the verdict conclude |
| `DetectChannels`, `DetectProbes` | kinds of channel and what they answer; six checks against channels that interfere |
| `PelicanTests`, `ReplyStream` | batches of generation tests; the reading of one answer |
| `AccountHealth` | the health of one account |
| `Provision` | connect, bind, disconnect |
| `CustomerFile` | the papers of a customer |
| `BalanceAlerts` | warnings of low balances |
| `StatusBoard`, `StatusPush` | the board; settings, channels and the push |
| `AdminSession` | an administrator's tabs |
| `ProfitViews` | the views of the books |
| `MC*` | instances for TLC |
| `Sums` | lemmas about sums over finite sets, for the proofs |
| `*Proofs` | theorems (section 5) |

`MCRequests`, `MCBackground`, `MCOperations` and `MCEndings` hold several instances side by side: a variable `part`, chosen
at the start and never changed, says which of them moves, and the others stay as they start. The parts share no state,
and neither do the components: where one calls another (a run asks for a session, a rate change starts a price job, a
commit leads to an alert) the call's outcomes are an input of the one and the subject of the other.

### Credit ledger: `CreditEntries`, `CreditBook`, `CreditLedger`

| code | model |
|---|---|
| row of `credit_ledger`; SUM of rows; `creditBand` | `Entry`; `Exposure`; `creditBand` |
| `AppendEntry`, `RecalcCustomer`, `RecalcAll`, `UpdateCustomer` | the actions of those names, which open a transaction (`OpenTx`) |
| `ReverseEntry`: GetEntry, HasReversal, INSERT | `GetEntry`, `HasReversal`, `InsertReversal` |
| `recalcOutstandingTx`: the SUM, then the UPDATE | `SumLedger`, then `WriteOutstanding`, which takes the row lock |
| COMMIT, ROLLBACK, deadlock detector | `CommitTx`, `Release` (by `RequestFails` or `DeadlockVictim`); `Crash` for all at once |
| `evaluateAlert`: re-read, compare, `SetAlertLevel`, notify | `Reread`, `SameBand`, `SetAlertLevel`, `HandleCreditAlert` |

`customers.outstanding` is represented by the *set* of rows its SUM ran over; the amount follows by `Exposure`. That is
finer than the code's number and shows what is missing from a stale one. Amounts are whole cents (the code rounds every
amount to cents and keeps it in a DOUBLE), and `ratio >= 0.8` is `10x >= 8l`. `CreditBook` is the abstract specification: a
journal that only grows, in which a reversal mirrors one entry, and for every customer a sum of *some* of its rows, the
new one among them. It deliberately does not promise the full sum, because the code does not keep that promise
(section 6). `shared` (history) holds the customers two requests have worked on at the same time.

### Upstream session: `ProviderSession`, `ProviderAccess`

A collector is one run that needs a session and works on its own copy of the provider row. `Load`, `Ensure`,
`UseSession`, `TakeLock` with its second look at the row, `RefreshCall`, `StorePair`, `Wipe` and the password login
(`LoginAllowed`, `Login`, `LoginCall`) follow `ensure`, `refreshSub2apiToken`, `refreshNewAPISession`, `loginSub2api` and
`loginNewAPI`: sub2api leaves the lock before it falls back to the password, new-api keeps it. A token pair is (session,
generation). The upstream is external: it rotates on a refresh, ends a session when an earlier generation is presented,
and may revoke one. `ManagerOf` says which token manager a collector uses: one for the runs of one service, two for the
wiring of `main.go`, where `CostSyncService` makes a second one. The login gate, which the code keys by host, is one flag
per manager, since there is one site. `ShortLived` lets a token expire while a run that still holds an older one is going
on. It is FALSE in the runs: that run's second look would find an expired pair and refresh with the older one in hand.
The assumption is on the upstream, that an access token outlives a run.

`ProviderAccess` is about whom a run enters as. An edit of a site is several statements (`Submit`, then one `Update` per
statement of `provider_repo.go`), and a run adopts, refreshes, stores, wipes or logs in from the copy of the row it
started with, in each of the modes password, token and user key, on both platforms.

### Pricing: `PriceRule`, `PriceFollow`

`PriceRule` is the arithmetic (`Reference`, `Rounded`, `Target`, `ThresholdExceeded`): rates are whole fourth decimals, so the
code's `pricingEpsilon` comparison is equality, an average is a fraction until it is rounded, and limits that are not set
are wide ones. `PriceFollow` is `HandleUpstreamRateChanges` and `Apply` for one rule: match, read the rule, read the rates,
GET the group, decide, PUT, mark the audit, store the base. `UpstreamChanges`, `UpstreamGone`, `PersonEdits`, `SaveRule`,
`ApplyByHand` and `ResolveConflict` are the world around it. `PutAnswerLost` changes the group and fails. Nothing keeps two
jobs of a rule apart; `doubled` says that one read the rule while another was applying it (`Applying`).

### Synchronisation and rate history: `ProviderSync`, which EXTENDS `RateHistory`

`RateHistory` is what `rate_repo.go` does to the rows of one group: `Latest`, the rows Reconcile writes, cleanup.
`ProviderSync` is the scheduler (`Configure`, `ListCollectable`, `ArmAll`, `Stop`, `OnProviderChanged`, `OnProviderDeleted`,
`OnManualSyncAll`), the run (`Gate`, `Load…`, `CollectBalance`, `UpdateBalanceCache`, `FetchRates`, `ReadCurrent`,
`WriteObserved`, `TellChange`, `RecordSuccess`/`RecordFailure`, `UpdateBackoff`) and the handlers that start runs or change
providers. Times are not numbers: an armed timer may fire at any moment, and a backoff is ahead of the clock until
`BackoffEnds`. There is one upstream group, the others only keep the list non-empty; two failures stand for more. A
restart is the death of every goroutine followed by `Configure`.

### Costs and the books: `CostSync`, `ProfitViews`

A run of `CostSync` lists the keys with today's usage (`fetchKeysAndUsage`), finds the own account of each by fingerprint
or name (`MatchKeys`), writes mappings and costs (`UpsertMappings`, `WriteCosts`), fetches the days before once
(`FetchPage`, `WritePage`) and saves its state (`SaveSyncState`). `NextDay` comes at any moment, `Rekey` changes the account
that holds a key. `ProfitViews` computes the views by provider, group, user and day from one state of traffic, costs,
operating costs and links; `Serve` adds traffic, the other actions are the edits of links, operating costs and sites. In
place of floating point numbers amounts are multiples of a `Unit` that every share of a cost divides, so no share is rounded.

### Media tasks: `MediaTask`

A request is a submission (`Submit` … `Enqueue`) or a refresh of the list (`ListTasks`, `QueryVideo`, `SetStoragePending`). An
archive is a function value in `archive`, the code's `inflight` map: queued, fetch, save, settle or failing, leaving.
"leaving" is the moment after the slot is given back and before the entry is removed. `job` is what the upstream did for
the task of the same number; everything but "none" was charged. `CutShort` is the fifteen-minute deadline, `Restart` ends
every goroutine; the start then lists interrupted archives by id and takes up the first `ResumeLimit` (50 in the code,
`service/media_archiver.go:222`). The rest is `behind` until the next start: nothing else in the process looks for it. One user;
an object store is configured; an artifact stands for all files of its task. History: `successes`; `cutShort`; `behind`;
and `untraced`, the tasks charged for whose answer was lost, whose request id could not be written, or whose request died
with the process before it wrote it. The code calls a video of the second kind billed and untraceable
(`service/media_service.go:320`).

### Model detection: `DetectJob`, and the rules

`DetectJob` reduces a check's result to what retries and history look at: answered, failed, aborted by a cancel, or
blocked by a prerequisite that left no state. `Start`, `Cancel`, `PlanRetry`, `BeginRetry`, `RetryBusy`, `EndRound` are the
handlers, `Work` the goroutines of a target behind the one gate.

The rules are operators. `CheckResults` is what a check leaves behind; `ChecksGateway`, `ChecksProtocol`, `ChecksIdentity`,
`ChecksCapability`, `ChecksInjection` and `ChecksIQ` say what each check concludes from the answers it got; `AuditRules` is the
audit across answers. An upstream answer is reduced to the kind of its status (ok, refused, limited, fault) and the forms
the code tells apart. `DetectVerdict` takes the results of one run in, in any order and with any request limited or failed,
and weighs them; `DetectChannels` says what nine kinds of channel answer. `DetectProbes` puts six checks that conclude from
several answers against a channel that may interfere with any of them: the cache chain, the stream, the tampered
signature, the replay audit, the meters of injection (three samples for the code's twenty), the two wit questions.

### Tests of generation: `PelicanTests`, `ReplyStream`

`PelicanTests`: a client asks (`Ask`), the batch is made or found (`Create`, `CreateFails`), workers take results through their
gate (`Work`, `MarkRunningFails`, `SaveFails`), a batch is cancelled (`Cancel`, `CancelRows`) or closed (`Close`, `CloseEnds`), the
process dies and recovers (`Dies`, `Recover`), results are published, withdrawn and deleted. `stranded` (history) holds the
batches of which a write failed for good. `ReplyStream` reads one answer chunk by chunk in each of three protocols, the
connection ending before, after or in the middle of any event.

### Watching: `AccountHealth`, `BalanceAlerts`

`AccountHealth` is `Step` of the state machine and the read-step-write around it: `Schedule` or `ProbeByHand`, `Probing`,
`Step`, `ProbeFails`; `SetDisabled`, `TimePasses`, `NextDay`, `Crash`. A time limit is none, ahead or past; runs of successes
count to 2 and of failures to 3. `BalanceAlerts` has the five-minute job over a customer (`Work`, `SaveFails`), the check
after a synchronisation, `Send`, and people who change balances and settings; time passes in ticks.

### Requests about a customer and a site: `CustomerFile`, `Provision`

`CustomerFile`: `SaveProfile` … `SaveOwn` on the customer's page (the lock is looked at before the write), `GetKYC` and
`ReviewKYC` by a reviewer (any papers there are, as the service takes them; only the page asks for pending ones), `SaveKYC` and `SetStatus` by an administrator. `Provision`: `Connecting`, `Binding` and
`Disconnecting` statement by statement and call by call, `ClientGoes`, `Crash`. A resource is named by the operation and the
request that made it. `excused` (history) holds the operations two requests crossed on, or whose write was lost.

### Settings and sessions of people: `StatusPush`, `StatusBoard`, `AdminSession`

A save walks row, memory, timer or channels (`SavePush`, `SaveChannels`, `Set`, `SetLive`, `Call`); a push goes by timer or by
hand (`Start`, `Build`, `CheckToken`, `Send`). `StatusBoard` is what is drawn from a window's traffic: a set of log rows
with their ids, since two rows may say the same. In `AdminSession` tabs of
one browser share the stored pair: `Begin`, `Rotate`, `Answer`, `PeerCame`, `GiveUp`, `Login`, `Logout`, `ChangePassword`, and
tokens that end.

## 3 Runs

Five runs pass, and seven show one disagreement each (section 6).

| run | module, what runs in it | bounds | distinct states |
|---|---|---|---|
| `requests` | `MCRequests`: credit requests one at a time (*alone*) and two that overlap; media requests that overlap (*media*) and one at a time (*backlog*); papers; provisioning | 2 requests, 2 customers, amounts {1, 4}, limits {0, 5}, 3 ledger rows, 1 failure or crash; media: 1 key where requests overlap, 2 in the backlog, 2 tasks, 1 slot, 1 pending allowed, 1 archive taken up by a start, 2 mishaps; papers: 5 saves and reviews, 3 forms; provisioning: 2 operations, 1 group, 1 mishap | 1.44 M |
| `session` | `MCProviderSession`: two runs with one token manager, on both platforms | 4 sessions of 2 generations, 1 failure, crash or revocation | 1.24 M |
| `background` | `MCBackground`: synchronisation, health, warnings, costs, settings and push, access | 1 provider, 2 runs, 2 rates, 3 events in each of the first five; 2 keys, 2 accounts, 2 days; an hour of 2 ticks; budget of 1 probe; access: 2 accounts, 1 edit, 1 shock | 1.10 M |
| `operations` | `MCOperations`: detection (one target retried by two callers; two targets at one gate), generation tests, the reading of an answer, verdict, probes, price, administrator, books | 2 targets of 3 checks, 3 runs, 1 cancel; 2 clients, 2 batches of 2 results, 1 worker's place, 4 mishaps; answers of 2 chunks; 6 kinds of channel; 2 jobs of a rule, 2 settings, 2 sources, 2 changes, 2 acts by hand or disappearances, 1 failure; 2 tabs, 3 pairs, 2 incidents; books of 3 sites, 4 events | 1.52 M |
| `endings` | `MCEndings`: liveness of credit requests, prices, detection and generation tests, health | 2 requests that lock 2 customers in opposite orders; the average or the highest of 2 sources, 3 changes; 2 targets, a check and one that requires it, a retry and a cancel; 1 batch of 2 results, 3 mishaps; 1 probe, 3 events | 97 k |

What each passing run asks, property by property:

* `requests`. `AloneIsExact`: for a customer no two requests have met at, the cached exposure is the SUM, an entry is
  reversed once, the latch follows the band. `NoRepeatInBand`: a band is told once. For all customers: `NoPhantomRow`,
  `StaleOnlyIfOverlapped`, `ReversalMirrors`, and `BookSpec`, the refinement of `CreditBook`. `MediaIsTrue`: one payment per key;
  a video charged for has its task and the upstream's id in it, unless the answer or that id was lost; the stored have their
  files; a finished video is archived, on its way, or was beyond what the last start took up (reached with a limit of 1 and
  two interrupted archives). `FileIsTrue`: what was submitted stays under review until a verdict and nothing else is under
  review, approved papers are the ones the reviewer saw unless they changed meanwhile, a rejection has its reason. `ResourcesAccounted`: whatever was made or removed at either site is on record, told, or
  of an operation two requests crossed on.
* `session`. `StoredIsCurrent`: the row holds the latest pair unless its write was lost. `ReplayOnlyAfterLoss`: a superseded token is
  presented only after a lost rotation. `SessionRecovers`: after all of it, the row holds live tokens again.
* `background`. `NeverForgotten`: a collectable provider has a timer, or a run that will arm one. `ChangesAreTold`, `StateIsTrue`:
  history, balance cache and backoff agree with what happened. `HealthIsTrue`: weight, counters and limits fit the state, and
  only people, or a write that raced one, end "disabled". `AlarmsAreTrue`: the latched were told, nobody twice in an hour.
  `CostIsTrue`: no day costs more than it did, days recorded as fetched are whole, a key's account is the one that holds it,
  no amount falls back. `PushIsTrue`: the four places of a setting agree unless saves crossed, a result tells what was sent,
  the board is true to its traffic. `AccessIsTrue`: a run that began after an edit is in as the account entered.
* `operations`. `RoundsDoNotOverlap`, `RoundIsExplained`, `HistoryIsWhole`: detection. `TargetsAreServed` (a target is charged once,
  an open result has somebody who sees to it) and `FinalIsFinal`: generation tests. `AcceptedIsWhole`: only whole answers.
  `VerdictTellsTruth`: of six kinds of channel, with any request limited or failed. `EvidenceIsTrue`: what six checks may conclude
  from a channel that interferes; a backend that verifies is never capped but where thinking too short to be missed is
  stripped and not told apart in the usage (section 6). `PriceIsTrue`, `HumanRespected`: a rule's limits, audit and conflicts. `SessionIsTrue`: tabs.
  `BooksAgree`: four views of one state of the books.
* `endings`. `RequestsEnd`, `PricesFollow`, `WorkEnds`, `AccountRecovers`.

The violation runs are `credit_race_sum`, `session_two_managers`, `price_conflict_forgotten`, `detect_cancelled`, `detect_limited`,
`detect_baseline` and `provision_second_account`; each checks one property that quotes the repository, and TLC finds the schedule or
the channel that breaks it.

Why the instances are large enough. The code has no quorum and no ring: every race in it is between two goroutines over
one row (customer, site, rule, provider, key, account, batch), so two of them and one row show each pairwise schedule.
A third ledger row is needed for an entry, its reversal and a second reversal; a third session, for a loss, the login
that follows it and a rotation after that, and a fourth so that recovery is still possible after a failure and a
revocation, since at the bound a login can only fail. In the smaller parts everything that can go wrong shares one
bound: with three events each triple of a failure, an act of a person, a change upstream and a restart occurs. The rules
of detection are not bounded but enumerated: every request of a run is answered, limited or failed. What an instance is
too small for, the proofs of section 5 cover, since they hold for any number of requests, runs, rows and events.

What the exceptions in the properties mean. History variables such as `tainted`, `shared`, `lost`, `losts`, `since`,
`overlapped`, `doubled`, `broken`, `missed`, `crossed`, `collided`, `spoilt`, `excused`, `stranded`, `stale`, `moved`, `passed` and `cutShort` are set at the
step that makes the promise void and name that step's cause; a property that excepts them says "only this can break it".
Without the exception TLC gives the schedules of section 6.

Symmetry (of requests and customers; of runs; of price jobs) is declared where a run checks no liveness. Deadlock is checked where a
request can always be made; elsewhere the world stops when its bounds are used up, and those configurations say so.

## 4 Fairness

Only what the code's scheduling gives, and only in the two runs that ask for liveness.

* `RequestsEnd` (credit). Weak fairness of each request's steps: Go runs a runnable goroutine, the driver executes a
  statement. Strong fairness of the two statements that wait for a row lock: PostgreSQL grants it in the order of its
  queue. Starting a request, failing and crashing are not fair. A deadlock of two transactions is resolved by the
  server's detector, which is an action of the model.
* `SessionRecovers`. Weak fairness of every run's steps (the scheduler starts each run again), strong fairness of taking
  the lock (a Go mutex in starvation mode is handed over), weak fairness of the cooldown and the gate ending (deadlines).
  Failures, revocations and crashes are bounded by `MaxFails`: an upstream that refuses for ever is no recovery anybody
  could promise.
* `PricesFollow`. Weak fairness of a started job's steps. Nothing retries an apply that failed, so this instance has no
  failures; that is a property of the code, not of the bound.
* `WorkEnds`. Weak fairness of the goroutines' steps; and of what is deferred or done at the next start: the end of a
  batch (`CloseEnds`), the rest of a cancel (`CancelRows`), and `Recover`, since a dead process is started again. Retries,
  cancels and mishaps are not fair.
* `AccountRecovers`. Weak fairness of the scheduler's probe and its steps, weak fairness of the new day once the budget is
  used (a cron entry and a date), and strong fairness of the passing of all limits at once: a probe comes round again
  after every limit has ended, however often new ones are set in between. Bad answers draw on the bound of events: for an
  account that never answers again nothing is promised.

Synchronisation asks no liveness: `NeverForgotten` says as an invariant that there is a timer or a step that will arm one,
which is the part of "every provider is collected again" that the program itself answers for.

## 5 Proofs

TLC checks the small instances above; the theorems hold for every value of the constants: any number of requests,
runs, customers, rows, tabs, probes, batches, events. `tlapm` checks each module from nothing. Where an `MC` module gives
data by a definition (what a site may be edited to, the sources of a price), the theorem is about that data and any
number of everything else; the forms of settings, the groups and the traffic of the push are constants, and its theorem
holds for any.

| module | theorem | says |
|---|---|---|
| `CreditLedgerProofs` | `TypeCorrect` | `TypeOK` |
| | `PhantomFree`, `StaleOnlyByOverlap`, `ReversalsMirror` | the safety of the ledger under any overlap |
| | `ImplementsBook` | `Spec => BookSpec`: every step is one step of the abstract journal or none |
| | `ExactWhenAlone`, `ToldOnce` | `AloneIsExact` and `NoRepeatInBand`, for customers nobody shares |
| `ProviderSessionProofs` | `NoRotationForgotten`, `NoReplay` | `StoredIsCurrent`; `ReplayOnlyAfterLoss` where runs share one manager and no token ends within a run |
| `ProviderSyncProofs` | `NoneForgotten`, `HistoryTells`, `StateIsWhatRunsLeft` | `NeverForgotten`, `ChangesAreTold`, `StateIsTrue` |
| | `SyncTypes` | `TypeOK` of the synchronisation |
| `MediaTaskProofs` | `SpendIsAccounted`, `ArchiveIsKept` | the two halves of `MediaIsTrue` |
| `RequestsProofs` | `MediaHolds`, `FileHolds`, `SiteHolds`, `PartTypes` | `MediaIsTrue`, `FileIsTrue`, `ResourcesAccounted`, `TypesOK` of the composition |
| `OperationsProofs` | `RoundExplained`, `HistoryOnlyWhole`, `NoOverlap` | `RoundIsExplained`, `HistoryIsWhole`, `RoundsDoNotOverlap` |
| | `GateHolds` | no more targets are worked on at once than the gate has places |
| | `AcceptedIsAll` | `AcceptedIsWhole` |
| | `TargetsServed`, `OutcomesStand` | `TargetsAreServed`, `FinalIsFinal` |
| | `SessionKeepsItsWord` | `SessionIsTrue` |
| | `PeopleRespected`, `PricesAreTrue` | `HumanRespected` and `PriceIsTrue`, for any number of jobs of a rule |
| | `RatesAreAudited`, `TargetsWithin` | the halves `AuditCovers` and `WithinLimits` of `PriceIsTrue` |
| | `BooksAddUp` | `BooksAgree` |
| | `OperationsTypes` | `TypesOK` of the composition |
| `BackgroundProofs` | `HealthKept`, `AlarmsKept`, `CostKept`, `AccessKept` | `HealthIsTrue`, `AlarmsAreTrue`, `CostIsTrue`, `AccessIsTrue` |
| | `SettingsKept`, `PushesAreTrue` | the halves `PlacesAgree` and `NothingLost` of `PushIsTrue`; all of it |
| | `BackgroundTypes` | `TypesOK` of the composition |

Assumptions. Each module's named ASSUME (`LedgerAssumption`, `SyncAssumption`, `PartsAssumption`, …) says that bounds are natural
numbers, that "none" is none of the things it stands for, and what the code itself enforces (`AmountsArePositive`:
`credit_service.go:209`; `CatalogueAssumption`: no checks require each other in a circle, and none that counts requires one
that does not). Sets of requests, runs, probes, targets and checks are finite where something counts them. TLC evaluates the assumptions on every run. `NoReplay` has two
hypotheses, which the run also uses; section 6 says what happens without them.

### The arguments

None of the properties is inductive. What each invariant adds, and why it has to:

* **Ledger** (`IInv`). A sum is taken in one statement and written in a later one, so `NoPhantomRow` needs to know what a
  transaction that has run its SUM has seen: `SumsSound` says committed rows and its own, and *all* of them unless it was
  overlapped. For that to survive another commit, rows in flight must be distinct from committed ones and from each
  other (`IdsUnique`); for a commit to publish a row together with a sum that counts it, the row's customer must be the
  one recalculated (`RowsWellFormed`); for the lock to mean anything its holder is in a transaction (`LocksInTx`).
  `ReversalMirrors` needs that a target was committed when it was read and still is. `AloneInv` adds what holds for a customer
  nobody shares: one request is at work, so the copy it evaluates is current, its reversal is new, and the latch is the
  band or still to be evaluated by it.
* **Session**. `PairsInv`: every pair anywhere was issued (`Issued`), and one just issued to a run is current and in nobody
  else's hand (`Unshared`). `ReplayInv` adds, for one manager, that who refreshes has the lock (`Locked`), that a run gives up
  only what is expired or revoked (`GivenUp`), that one waiting with a superseded pair will find a better one in the row or
  behind the lock (`Replaced`), and presents it only if the row holds nothing of its session (`Presents`).
* **Synchronisation** (`IInv`). Who will arm a timer next is part of `NeverForgotten` itself. `OfProvider` says what the history,
  the cache and the backoff owe while nobody works on a provider (`Resting`) and at every place of its one run (`Own`):
  what it has read is still the latest row, what it has written is still to be told. Two runs at once are on record.
* **Media** (`IInv`). `Paid`: before its call nobody else knows a request's task and nothing was charged; a task is discarded
  only when the upstream has nothing for it, or what it has is on the list of the untraced; who has been told the upstream's
  id stores it, or the id goes on that list with him (`TracesKept`). `Archived`: a success has one request that sees to the archive, and
  before it has asked for one there is none; an archive does not leave a task that waits for it, unless the success was
  recorded twice or the deadline cut it short; a start leaves behind only what has `ResumeLimit` interrupted tasks before it,
  by counting them (`BehindAreLate`).
* **Papers** (`FileInv`). A save that an approval overtook is counted crossed, and a rejection has its note.
* **Provisioning** (`SiteInv`). An operation has one maker; a record names what its operation made; who disconnects is alone
  with it or the operation is set aside; an account goes before its key and the key before the record.
* **Detection** (`IInv`). Every batch, planned or running, takes along whatever requires one of its checks (`Upward`), so that a
  check is blocked exactly when a prerequisite was not answered (`Explained`); what has left its first phase was ready
  (`Ordered`), and while nobody cancels, what still waits is not (`Driven`). That a round ends uses that no set of checks
  waits in a circle (`CatalogueAssumption`).
* **Reading an answer** (`ReplyInv`). What was streamed is a prefix of the text wherever no chunk may be left out, and "stop"
  means all of it was sent.
* **Price** (`PriceInv`). Jobs begin to apply a rule one by one, so until `doubled` there is one that does (`OneByOne`), and the
  others have not read the rule. Then, while no write failed, the base is what was written last, except for the job about
  to store it; the job holds that base; the group is as it found it unless a person came between (`Holds`, `Base`). A rate
  about to be written has its row, whoever else moves (`RowsKept`), and while the jobs are apart the last one written is
  the base or has its row (`Covered`). For the limits, every rate a job may hold is a number (`PriceTypes`), which for the
  average needs that a sum over finitely many sources is one: `TotalIsNumber`, by the smallest set it could fail for.
* **Generation tests** (`PelicanInv`). Nothing is of a batch before its commit and two batches have two request ids
  (`OnlyCommitted`); a target is generated once on its way and saves an outcome (`OnceOnly`); an open row of a cancelled batch,
  or one without a goroutine, is left to the canceller, the next start, or a failed write on record (`Attended`).
* **Administrator** (`SessionInv`). A token that gave a pair is gone and gave no other (`Descent`); a pair under way was never
  stored and goes to one tab (`Flight`); a session over was left or had a cause (`Accounted`); and before any cause its pair is
  good, or exchanged by a tab whose answer is under way (`Alive`).
* **Health** (`HealthInv`). Fitting rows are closed under `Step` (lemma `RowsFit`, all six states by all answers); one probe
  holds a row until two overlap; what people were told agrees with the state read and written.
* **Warnings** (`AlertInv`). What the job holds of the latch is current and its time is that of the last decision; a
  provider's entry is the last decision's, or was taken out by recovery or restart; whoever is latched was decided on,
  and the message is sent, heard, or known lost.
* **Costs** (`CostInv`). Today's amounts in a run's hand are at most the usage of the day it read and at least what is
  stored, unless another wrote since; a page holds days that are over in full; what a back-fill has got through is
  settled or on its page; a match was made on the accounts of now unless marked moved. The frame lemmas `World` and
  `Undisturbed` say which of this the outside leaves alone.
* **Settings** (`SettingsInv`). A lone save of a domain carries its value from row to memory to what is built, in that
  order; a secret that was not given is the one of the row; there is one timer entry at most.
* **Status board and push** (`PushInv`). Chats are clean in the row, in memory and in every save on its way (`ChatsGood`); a push
  has the board of the settings it read, and the chats it reached or failed to reach are the first ones (`PushGood`). That
  a board counts each request once is a fact about sums: blocks divide the window, and a sum over rows is the sum over
  blocks (`SumByKey`). That a failure makes it look no better is the comparison of two such boards.
* **Access** (`AccessInv`). All of a row or a copy that opens a session belongs to the account entered, unless spoilt. A run
  from after the last edit means that no edit is under way and that it holds that edit's entry; an edit that gives a
  credential still has its reset before it, or the row is clean; a run is only where its copy suffices.

* **Books** (`BookInv`). The invariant itself is small: an expense, stored or about to be, is of a site that is one's own or was
  (`SpendIsExplained`, `SavingIsExplained`). The work is in the sums. Each view divides the same rows by another key, so all of them meet in one: the sum by
  account. `Sums` has the lemmas, for `SumFunctionOnSet` over any finite set: a sum splits by a key, adds up, scales, and its
  shares give back what was divided. Where one expects an induction on the set there is a smallest set of which the
  claim fails instead, since an induction theorem cannot be instantiated.
* **Types**. The type invariants are kept with the inductive ones above: what a goroutine has in hand is typed by the place
  it has reached. Of detection's, that no more checks are in flight than the gate has places is `GateHolds`.

Each step of a specification has its own step in the proof (or lemma, where several invariants need it), and the
compositions get theirs from the parts: a step of `PartNext` is a step of a part or leaves it alone.

### Only model-checked

* Liveness under fairness and ENABLED, and what a definition computes by induction over data: out of the prover's reach.
* `VerdictTellsTruth` and `EvidenceIsTrue`: finite tables of answers, which TLC enumerates; a proof would be the same enumeration.
* The exact division of an amount: `BooksAgree` is proved for amounts that their shares divide. With rounded shares it would
  hold up to the last place only.

## 6 Where the code and its words part

Seven disagreements have a run each; `PROJECT.json` quotes the words.

* **The cached exposure can stay short** (`credit_race_sum`). `recalcOutstandingTx` takes the SUM before the row lock; of two
  overlapping entries the later UPDATE writes a sum without the other (`repository/credit_repo.go:35`: a full SUM in the same
  transaction).
* **One site, two locks** (`session_two_managers`). `CostSyncService` makes its own token manager, so a manual cost sync and a
  balance run can present one refresh token twice (`service/provider_token.go:172`: single flight per site). They also have two login
  gates.
* **A conflict is not stored** (`price_conflict_forgotten`). `SetConflict` writes an integer into a BOOLEAN column, PostgreSQL
  refuses it, and `Apply` drops the error (`service/pricing_service.go:21`: a conflict stops the automatic mode).
* **A cancelled check in the history** (`detect_cancelled`). `persistable` looks at the last round only, and a retry of one of two
  aborted checks stores the run with the other's failure (`service/model_detect_service.go:696`).
* **A limit taken for a proof** (`detect_limited`). Any 4xx, 429 included, counts as the rejection of a tampered signature, so a
  limited channel that verifies nothing is graded genuine (`service/modeldetect/catalog.go:130`).
* **A baseline nothing matches** (`detect_baseline`). The comparison requires a summary no code ever sets (`service/modeldetect/catalog.go:303`).
* **A second account of a group** (`provision_second_account`). The service means to allow it (`service/provision_service.go:88`); the unique
  index refuses it after key and account were made, and the record stays pending.

Others were met while modelling. They show when an exception is taken out of a property, a hypothesis out of a theorem,
or a bound raised; they are listed for whoever works on the code next.

**Credit and media.** Two overlapping reversals of one entry both pass HasReversal; two overlapping evaluations can leave
the latch at the older band or tell a band twice (`service/credit_service.go:344` evaluates a copy). Any 4xx to a status query,
401 and 429 included, fails a task whose video may finish. A crash between success and storage mark leaves a video that is
never archived; a success recorded twice can set storage back to pending while the archive is leaving
(`service/media_service.go:362`). Overlapping submissions exceed the limit of pending videos (`:208`). An image whose answer is lost
is discarded though it was charged. A video whose request id is lost or cannot be written keeps a task nobody can ask after:
it counts against the limit of pending videos until it is deleted, and submitting its key again returns it as it is. A start
takes up 50 interrupted archives; the next 50 wait for the next start, and as the list is in the order of ids, tasks that are
cut short each time hold their places at its front (`repository/media_task_repo.go:273`).

**Upstream session and access.** With three or more runs, an overlapping login and a wipe outside the lock let a waiting
run present a superseded token of a live session. A token that expires within another run does the same (`ShortLived`).
`repository/provider_repo.go:308` says that any changed credential forces a new session, but `refresh_token` is never cleared and the
form does not send it in password mode, so the next run refreshes the *old* account's session; a run that began before
an edit can wipe or overwrite tokens just entered; a changed address or mail alone keeps the old token; the statements
of one edit are not in one transaction.

**Prices and rates.** Two jobs of one rule write in the order of their PUTs, not of their changes (`service/pricing_service.go:273`), and
then one that finds nothing to write adopts the group's rate as its own: an entry of the audit is missing, and a person's
rate may be taken for the program's. After a lost answer of the PUT the next apply takes its own rate for a stranger's.
The threshold compares an upstream's last step (`:331`), so small steps creep. Rounding comes after the limits
(`repository/pricing_repo.go:118`). A source that disappears changes an average without any event. An edit during a timer run arms a
second timer, so runs of a provider overlap (against the remark at `service/sync_scheduler.go:14`); a rebuild whose listing fails has
already cleared every timer (`:70`); an import that fills in an address does not tell the scheduler
(`service/provider_service.go:272`).

**Costs and books.** The date of today's costs is taken after the fetch (`service/cost_sync_service.go:98`), so at midnight they go to
the wrong day; usage after a day's last run is never recorded; a read failure in NeedsBackfill means no back-fill. ByGroup
and ByUser scan a nullable `group_id` into an int64, and one NULL makes the whole statistic fail. A day with upstream cost but
neither traffic nor operating cost is dropped from the trend; switching a site off self-operation keeps its operating
costs beside the actual ones; the cost of an account without traffic is in no view. `resolveDayRange` does not swap reversed dates and
the dashboard's `parseRangeParams` does.

**Health, papers, provisioning.** A probe that read an account before an operator disabled it writes it back
(`pkg/health/state_machine.go:5`: only people end "disabled"). A draft of papers may overwrite submitted ones; an approval is stored
over papers that changed since; the service stores a verdict on papers of any status, drafts never submitted and papers already
judged included (`repository/credit_kyc.go:232`; `KycDialog.vue:40` alone asks for pending ones); a lock is looked at before the write. In provisioning the deletion of a key is skipped
silently when the provider is gone; a dropped SetKeyCreated leaves a record with key 0; a repeat of a failed operation is
answered as a success with the failed record; the page draws a new operation id for every try, so a repeat is never
recognised; a lost answer of DeleteAdminAccount blocks the disconnect for good.

**Detection.** `minArrivalThoughts` is not applied when usage is not split (`service/modeldetect/checks_protocol.go:531`): if the
gateway strips thinking no longer than the question that follows, the question makes up for it, the tampered block counts as
arrived, and a backend that verifies is capped. `TamperTellsTruth` excepts this case by name (`Hideable`). A limited persona check together with a model that
withholds its session id reads as "system overridden" on a genuine channel (`service/modeldetect/checks_identity.go:392`). With a baseline of
digits only, "passed" says nothing of the bare samples (`service/modeldetect/checks_injection.go:594`).

**Settings, board, administrator.** Two crossing saves can leave row, memory, timer and channels different until the next
save; crossing channel saves can lose a token just given. The status of a board does not share the blocks' threshold of
samples, so a board of grey blocks can say 异常; a slow success that becomes a failure can raise a block's score. DingTalk and
Feishu take an unreadable 200 for delivered, Telegram does not. The loser of a refresh race is answered 500 for 401
(`handler/auth_handler.go:74`); a winner slower than a second logs both tabs out; a logout during a refresh leaves the rotated
token unrevoked.

## 7 What is not modelled

Inside modelled components: the creation and archiving of customers (they write none of the ledger's state); deletion of
a pricing rule and the own site's credentials; of a synchronisation run, AfterSync, and its costs beside their own
module; of media, the two-second rate limit, reference images, streaming, and an installation without an object store;
embedded sessions; listings and previews; the drawing of the board, the signing and formatting of notifications.
Floating-point rounding is outside: amounts and rates are integers of the unit in which the database stores or the code
rounds them. The upstream sites, the own site, PostgreSQL and the browser are external: modelled by how the code uses
them, with lost answers and refusals.

Whole components: media gateway, catalogue and price tables (pure translation); the cron entries (what they call is
modelled with the component called); configuration, encryption, routing and start-up (wiring, assumed where it
matters); the frontend but for its session; plaza and stability page (read-only queries).

## 8 Plan

*Done*: the modules of section 2, their five passing runs, and the theorems of section 5. What is left:

* The abstract specification of provisioning (an operation makes and removes one key) as a refinement.

Liveness and the finite tables of verdicts stay with TLC.
