# TLA+ models of LLMHub Radar

LLMHub Radar (a `new-api` derivative: Go server, TypeScript dashboard) relays LLM
requests to upstream channels, charges consumers in *quota*, pays the providers
whose channels served the request, and runs background work on several nodes that
share one SQL database. This directory models the parts in which a mistake costs
money, loses work, routes traffic to something untested, signs a user out or
loses what a user typed: the code whose behaviour depends on the order in which
processes, requests, timers and callbacks happen to run.

## Files

| Module | Models | Source |
|---|---|---|
| `SystemTasks` | leased background tasks on several nodes | `model/system_task.go`, `service/system_task.go` |
| `RequestBilling` | pre-charge, top-up, settlement, refund, provider earning and recovery of a synchronous request | `service/billing_session.go`, `funding_source.go`, `billing.go`, `hub_provider_settlement.go`, `model/billing_refund.go`, `billing_token_adjustment.go`, `hub_provider_settlement.go`, `subscription.go`, `user.go`, `token.go` |
| `TaskSettlement` | charge, polling, settlement, refund and recovery of an asynchronous task | `service/task_polling.go`, `task_billing.go`, the recovery workers, `model/task.go`, `billing_task_settlement.go`, `relay/relay_task.go` |
| `RequestOutcome` | the abstract promise of billing: charged once or returned, provider paid exactly the charge | what `RequestBilling` and `TaskSettlement` are shown to implement |
| `RecoveryBatches` | which rows a recovery pass tries | `List...`, `Record...Failure` of the three recovery tables |
| `ProviderLedger` | balance transfers and withdrawals of a provider | `model/hub_provider_settlement.go` |
| `SupplyProbe` | probes that decide whether a provider's channel is routed | `model/hub_supply_probe.go`, `hub_supply_route.go`, `hub_supply_group.go`, `channel.go`, `controller/hub_supply_probe.go`, `hub_provider_channel.go`, `channel-billing.go` |
| `AuthTabs` | login sessions over several browser tabs | `web/src/lib/auth-session.ts`, `http-client.ts`, `auth-session-sync.ts`, `routes/__root.tsx`, `service/auth_session.go`, `model/user_session.go` |
| `PlaygroundChat` | the chat playground: requests, React's update queue, storage | `web/src/features/playground/hooks`, `lib` |
| `SettingsForm` | a system settings form with its save and its query, and the server's option maps | `web/src/features/system-settings/hooks`, `general/quota-settings-section.tsx`, `controller/option.go`, `model/option.go` |
| `MC*` | TLC instances: symmetry, balances, scenarios | |
| `SystemTasks_proofs`, `RequestBilling_proofs`, `TaskSettlement_proofs`, `ProviderLedger_proofs`, `SettingsForm_proofs`, `SupplyProbe_proofs`, `AuthTabs_proofs`, `PlaygroundChat_proofs` | TLAPS proofs | |

Check with `tlc -config X.cfg MCModule` and `tlapm Module_proofs.tla`;
`PROJECT.json` lists the runs, the mutants, the source lines behind every
definition, the hazards and the theorems.

## Inventory

**System task runner** (modelled). State: `system_tasks` (status, locked_by,
active_key, unique per type while the row is active), `system_task_locks` (one
row per type: task, owner, locked_until), and per master node one runner
goroutine and one goroutine per claimed task. Operations: create, find pending,
claim (insert or take over the lock, fail the row of the lease taken over,
compare-and-set pending to running), heartbeat, update state, finish, release,
expire stale locks. Nodes interact only through the two tables. Hard: every
claim is several statements, leases lapse while a node is stalled, nodes die
between any two statements. Correct means: a row is executed by one runner, is
final once it ended, and does end.

**Request billing session** (modelled). State: a `BillingSession` per request
(pre-charged, token-consumed and extra-reserved amounts, the flags
`fundingSettled`, `retainedPreQuota`, `settled`, `refunded`), the consumer's
wallet, subscription and token quota. Operations: `PreConsumeBilling` with
fallback between sources and a trust bypass, `Reserve` before a dearer attempt,
`Settle`, `Refund`, and the violation fee after it. Hard: token and funding are
two separate statements, each with a best-effort compensation; the handler's
deferred `Refund` runs after whatever `Settle` did; other requests spend from the
same accounts.

**Asynchronous task billing** (partly modelled). State: the `tasks` row (status,
quota), `billing_task_settlements`, `billing_refunds`, the earning. A task is
charged at submission, polled by every node, and settled or refunded by whoever
wins the compare-and-set on its status; the intent is written in the same
transaction and carried out by that worker or by recovery. Hard: passes, the
timeout sweep, recovery and a user's status query meet on one row, and a worker
may die between any two transactions.

**Billing recovery** (modelled). State: three tables of durable intents. Workers
are system tasks; a pass lists a bounded batch and tries each row. Hard: a row
that fails for ever must not keep others from being listed.

**Provider earnings** (partly modelled). State: `hub_provider_earnings`, one row
per request: pending (deferred or ready), settled, cancelled. Prepared before
settlement with an estimate, made ready with the committed quota after it,
settled at once or by recovery. Correct means: a payable amount is money the
consumer really paid and will not get back.

**Provider withdrawals and balance** (partly modelled). State: the ledger of
earnings and transfers, `hub_provider_withdrawals`, the owner's balance. The
available amount is a difference of sums read by several statements. Correct
means: what left the ledger was earned, and left it once.

**Supply probes** (partly modelled; the part of routing that keeps state).
State: a group's `config_version` and schedule, a probe target per version and
model (status, next_probe_at, failures, lease), the channel's status. Runners,
manual tests, administrators and failing requests write the same rows. Correct
means: no connection is served that never passed a probe, a manual disable
stands, and no target is forgotten.

**Authentication sessions** (partly modelled). State: one refresh cookie per
browser, `user_sessions` rows, and in every tab an access token, a refresh
promise and an epoch. Tabs talk over a BroadcastChannel and queue for a Web
Lock. Hard: the cookie changes when a response arrives, whatever the tab makes
of it; responses are lost or late; tabs are closed while they hold the lock.

**Chat playground** (modelled). State: messages and flags React has rendered,
updates it has queued, refs that change at once, the stream's controller, two
timers, `localStorage`. Hard: every callback sees another mixture of old and new
state.

**System settings forms** (partly modelled). State: form values, baseline, query
cache, a save of several PUTs; on the server the options table and an option map
per process, loaded again every `SyncFrequency` seconds. Hard: fetches, saves and
other administrators interleave with typing, and a fetch may be answered by a
process that has not heard of the save.

**Subscriptions** (partly modelled): charge, return with clamp and period reset,
in `RequestBilling`.

**Not modelled, and why**

- *Relay adaptors*: format conversion of some forty protocols, without state.
- *Tiered billing expressions*: floating-point evaluation; the models take the
  resulting quota as an input.
- *Service tiers, channel scores, fallback order*: floating-point scores over
  read-only snapshots; only the stateful part (probes, channel status) is modelled.
- *Revenue split*: rounding and clamping of four shares; `TaskSettlement` keeps
  whether two computations saw the same referral status.
- *Subscription purchase, stacking and expiry; top-up and payment callbacks*:
  planned.
- *Dashboard pages*: tables, drawers, dialogs and editors, by far most of the
  repository's lines: markup, formatting and local form state over one HTTP
  request per click. No protocol connects them, so a model would restate the
  markup.
- *Desktop client*: a window around the web client and the server process.

## How the runs are made

`PROJECT.json` lists twelve runs. A run asks one component every question at
once; where a question needs a harsher environment than another, the environment
is chosen in `Init` from a set of *scenarios* or *budgets* (a record kept in a
variable and counted down) and the property says for which of them it speaks.
The alternatives are disjoint state spaces in one run, and none of them is
bounded by what the others need.

| Run | Instance | Distinct states | Shows |
|---|---|---|---|
| `system_tasks` | 2 runners, 2 rows, claims within the lease, fair | 11 k | `OneExecutorPerRow`, `RowsAreFinal`, `ActiveRowEnds` |
| `system_tasks_stuck` | 2 runners, 1 row, claims may stall, fair | | violation of `ActiveRowEnds` |
| `request_billing` | 2 requests (one from the playground), quotas 0..2 and 1, balances of 2, subscription first with overflow, fair | 437 k | all safety properties under contention, `ImplementsOutcome`, `RecoveryCompletes` |
| `task_settlement` | 1 task, 2 passes, 1 recovery worker, 4 budgets, fair | 192 k | charged once or refunded, provider paid once, decisions carried out |
| `recovery_batches` | 5 rows, 3 broken, batches of 2, fair | 23 k | `NotStarved` for back-off and last-attempt order |
| `recovery_batches_id` | the same, by id | | violation of `NotStarved` |
| `provider_ledger` | 2 transfers, 2 withdrawals, 1 key | 876 k | `NeverSpentTwice`, `CreditMatchesLedger` |
| `supply_probe` | 1 model, 1 runner, 1 tester, 2 budgets, fair | 673 k | probes, versions, disables, leases |
| `supply_probe_manual` | the same, 1 administrative operation, 1 failing request | | violation of `OnlyEnabledByHand` |
| `auth_tabs` | 2 tabs, 3 environments, fair | 1.01 M | sessions survive, sign-outs are final, refreshes settle |
| `playground` | 2 requests, replies "aa" and "ab" in any chunks, 2 scenarios, fair | 375 k | no stuck, mixed or cut message; stored in the end |
| `settings_form` | 2 processes, 2 options, 2 values, 2 mounts, 2 edits, writes by another or loads | 342 k | `CleanMeansSaved`, `OthersKept` |

Deadlock is not checked in any run: every component may come to rest (all
requests served, all rows final), and what must happen is stated as a temporal
property instead. `TypeOK` is an invariant of the runs of the billing, ledger and
task runner modules; it is proved for every module that has a proof module.

## SystemTasks

One task type; types share nothing. `status` and `lockedBy` are the columns of
`system_tasks`, `lock` the lock row of the type, `runner[r]` what a runner
goroutine holds between two statements, `exec` the handlers that are running.
Each action is one SQL statement, so nodes interleave anywhere.

Time is abstracted to `lock.live`: `Lapse` is the passing of `locked_until`.
SQL conditions compare with the `now` a pass read when it began, which is the
`late` flag of the runner. `PutLock` may write a row that has already lapsed,
because `locked_until` was computed at the start of the claim; the constant
`ClaimWithinLease` excludes that, and excludes a lapse during a claim.
A database error is a step that leaves the tables alone (`ClaimAborted`,
`HandlerLost`, the failed release in `FinishSystemTask`).

Two runners are a stale owner and whoever takes over or expires its lease; two
rows are the row of the old lease and the next one. `MaxTasks` bounds the rows
ever created. The safety properties are proved for any number of runners and
rows and for claims that stall. A crashed runner does not return: a restarted
process has a new runner id in the code too.

Fairness: a runner in the middle of a pass continues, idle runners poll every
15 s (claims and the stale-lock pass alternate in one loop, hence strong
fairness), handlers return, an unrenewed lock lapses. Nothing forces a crash,
an abort, or a renewed lock to lapse. `Crash` leaves one node alive.

## RequestBilling

All requests belong to one user with one wallet, one subscription and one token.
`pc[r]` is the next statement of the request's goroutine, `sess[r]` its session,
`earning`, `refund` and `adj` its rows in the three tables, `bal` the accounts.
Three history variables carry no control: `taken[r][a]` is what the request took
from an account net of returns, `fee[r]` what of it was a violation fee, and
`slip[r]` says that a best-effort compensation was lost to an error, which the
code only logs. At most one is lost per request (the bound in `Lost`).

- `state` of a session stands for the flags: `funded` (`fundingSettled`),
  `retained` (`retainedPreQuota`), `settled`, `refunded`, else `open`; `com` is
  `CommittedQuota()`.
- Cached balance reads are nondeterministic: `TryWallet` may accept, trust or
  reject whatever the balance is. Only the conditional updates decide.
- A statement that returns an error was not applied. Retries inside one
  statement (`billingOperationWithRetry`) are part of the statement.
- Plans are the four billing preferences; a fallback to the wallet needs
  `allow_wallet_overflow`.
- An unlimited token's remaining quota does not move (`Metered`), though its use
  is counted.
- A request that fails with a violation marker pays a fee although it is
  refunded: the handler's deferred function calls `ChargeViolationFeeIfNeeded`
  right after `Refund`, whether or not the refund row is processed yet. The fee
  goes through `ApplyLegacyQuotaAdjustment`, one transaction over the token and
  the session's source (the wallet for a free model's request; no token from the
  playground), and a failure is only logged. `ChargeViolationFee` takes any
  positive amount, and which error carries the marker is left open. So
  `AccountsAgree` says that a request took what it cost plus its fee, and
  `BooksClosed` that after the books are closed only the fee is taken, once.
- Recovery workers (`Recover`) may take any pending row at any time, also while
  the request's goroutine is still running.
- A crash stops the goroutine; its rows stay.

Quotas 0..2 against balances of 2 give one request every order of estimate, top-up
and final quota: below, equal and above, and zero. The other asks for 1, which
makes the first one's amounts affordable or not at every statement. Both try the
subscription first and then the wallet; the other plans are covered by the
theorems.

Fairness: only the recovery workers, which are scheduled while their
`HasPending...` query finds something. A positive token adjustment may stay
pending as long as the token cannot pay it, so `RecoveryCompletes` asks only for
credits. The handlers themselves are not assumed to make progress.

## RequestOutcome, the abstract specification

Three actions: `Commit` (the charge is durable), `Return` (the return of the
pre-charge is decided) and `Release` (the provider is owed the price).
`RequestBilling` reads the outcome from the refund row and the session's flags,
the price from the committed quota, and the income from the earning row once it
is ready or settled. `TaskSettlement` reads it from the refund and settlement
intents, the price from the settlement's actual quota. Everything between
(pre-charges, polls, rollbacks, token steps, worker retries) is a stutter. Both
kinds of billing are thus held to one promise.

## TaskSettlement

`row` is the `tasks` row, `stl`, `rfd` and `earn` the rows of the three billing
tables, `work[w]` a goroutine with its copy of the row, `up` what the upstream
would answer. A transaction is one step. Polling reads the upstream and commits
in one step: what the upstream reported in between would be caught by the same
compare-and-set on the status. A user's funding is one balance; wallet,
subscription and token move together in the transactions of this component.

- `CommitSuccess` and `CommitFailure` are `UpdateWithStatusAndBillingSettlement`
  and `...Refund`: status and intent in one transaction, rolled back when an
  existing intent differs. The worker then goes through charge, accounting
  marks, earning and release (or refund and cancellation), one transaction per
  step, and may stop anywhere (`Abort`).
- A task is a supply task, a plain one, or a legacy task (submitted before
  `TaskRefundLegacyCutoff`), which the sweep fails without a refund.
- `Display` is the real-time fetch of a status query. It writes the whole row it
  read when the snapshot differs: always with another status, and with the same
  one when progress, result or data differ, which the model leaves open. On a
  row that is already final it writes what the upstream reports; `revived` remembers what
  had been decided by then, and the properties speak of tasks this has not
  happened to. `NoPaidRefund` holds regardless.

The four budgets allow one dead worker, one change of the referral, one amount
spent elsewhere or one status query, on top of two passes and a recovery worker
racing for the task. Charges and costs of 1 and 2 against a balance of 2 give a
settlement that is even, cheaper, dearer, and not affordable.

Fairness: goroutines continue, and every recovery pass tries each row it lists
(strong fairness, since the worker may be busy; that a row is listed at all is
what `RecoveryBatches` is about). Pollers need not poll.

Left out: Suno and Midjourney pollers (the former shares the settlement), a
request that dies between the charge and the insert (no table leads back to the
charge), a task submitted at price zero whose final cost is positive (no earning
row was prepared), the log written twice when a worker dies between log and mark
(the documentation accepts it, `service-tier-routing-hardening.md:79`).

## RecoveryBatches

Time is counted in passes of fifteen seconds. `policy` is the order of the table
at hand: `backoff` (task settlements: by id, skipping rows whose
`next_attempt_at` lies ahead), `attempt` (token adjustments: by
`last_attempt_at`), `id` (refunds and ready earnings). Two of the broken rows are older
than every good row, so together they fill a batch of two. The back-off doubles up to 4 passes here,
up to an hour in the code. `NotStarved` is a statement about rows that fill a
batch and more, not about any number of them: the back-off is capped, so a limit
of rows per pass times the passes of the capped back-off that fail for ever
would be due again all the time and starve the rest. Fairness: passes
are scheduled while rows are pending and a pass goes on; faults are bounded.

## ProviderLedger

One provider. Both calls take the row lock on `hub_providers`, read two sums in
two statements and write; settlements, manual adjustments and the
administrator's decisions take no such lock and interleave. A transaction's
writes are visible when it commits. The lock is `SELECT ... FOR UPDATE`; SQLite
has a single writer instead. Two transfers with the same key and two withdrawals
are every pair of calls that can meet. `clawed` separates what only a negative
adjustment can cause: the code lets it overdraw the provider.

## SupplyProbe

One group with its channel; `rows` are probe targets by version and model. Each
action is one statement or transaction. A time is never, now or later. `proven` is history:
the connection of the last success. `overtaken` remembers probes whose target
was reset under them. Two budgets: an edit of the connection with an
administrative operation, and two administrative operations with a fault. One
runner and one tester are the two processes that can meet on a target; several
scheduled executions are kept apart by `SystemTasks`.

The writers of the channel do not lock it. An edit reads the row (`EditRead`) and
writes later: a new connection takes the automatic status unless the status read
was manual (`EditConnection`: `updateTx`, `hub_supply_group.go:942-957`), the
provider's form without one writes back the status it read (`EditOthers`,
`hub_provider_channel.go:136`). A change of status reads the row (`ReadToSave`
for the administrator or a failing request or balance check, which decide with
`SetStatus` and `RequestFails`) and saves all of it but the key later
(`SaveStatus`), so it may put back the connection an edit replaced. `editing` and
`saves` hold what was read; `conn` numbers the writes that changed the
connection, so a row that mixes an old address with a new key counts as a new
connection; `byHand` is history: the last word of the administrator was to
disable. `ManualDisableKept` says which of these writes may end a manual disable:
the administrator's, an automatic disable or an edit prepared before it. It holds
for every write that read the manual status. Automatic disabling of a provider's
channel needs `auto_ban`, which such channels have only when an administrator set
it; the ordinary channel tests pass over supply channels. One more bound differs
from the code: the routing threshold is 1 and the failure limit 2 in the run (2
and 100 in the code), which the unlocked writes make room for; the proofs hold
for any.

Fairness: started tasks run, probes time out, leases run out, and targets of
other groups come due within the hour, which starts the task; with a single
group a target left in testing without a schedule would wait.

Left out: the two probe kinds (one here), lists of published models,
runtime health, deletion of failed models, display aggregates.

## AuthTabs

`jar` is the browser's cookie, `srv` the `user_sessions` rows, `tab` the auth
store and module flags, `ref` the refresh promise, `lockq` the Web Lock, `net`
requests and responses in flight, `chan` cross-tab events. A step is what
JavaScript runs without awaiting. The next refresh secret is derived from the
presented one, so secrets differ by age only: the stored one, its predecessor,
anything older.

A password change (as well as a change of two-factor or passkey settings) is two
transactions: the user's `auth_version` first, then the session's (`behind` says
that the second has not been done, and the handler may die before it). A refresh
that finds the versions different revokes the session and clears the cookie; its
read and the revocation are one step, since a revocation after the second
transaction ends the session as well. The check of the old password and the first
transaction are one step too: two changes made at once are not modelled.
`SessionKept` excepts a session caught in that window (`Overtaken`).

Environments: one login with Web Locks and five operations, password changes
among them, with a page load or with a lost message; and two logins without Web
Locks, with an elapsing replay window and failing lookups. Two tabs and two sessions are the cases
the epoch, the lock and the events distinguish. Fairness: the network delivers
or fails, the server answers, granted locks run.

Left out: OAuth, passkeys and two-factor login, the sessions card, session
limits and the Redis cache. The client's branch for `AUTH_REFRESH_RACE` is
omitted: this server never sends it.

## PlaygroundChat

A step is one callback of the browser. `shown` is what React rendered, `queue`
and `flags` what it will render, `gen`, `pend`, `flush` and `ctl` are refs that
change at once, `stored` and `save` the debounced save. Clicks are rendered with
their event; everything else in a task of its own, so a click can come in
between. Two requests are an old and a new generation, two tokens a reply with a
middle. Scenarios: a click and a page visit; an open editor and two clicks.
Fairness: timers fire, React renders, the server answers.

`Says` is the text of each reply, and the server cuts it into chunks in any way. A
token carries its request and position, for the properties, and a character,
which is all that the code compares. Both merges (`mergePendingStreamChunk` for
the pending chunks, `getAppendableChunk` for the message) take a chunk that starts
with all the text they have for a snapshot that repeats it. So "ha" and "ha" in
two chunks become one "ha", and as the pending text is empty after every flush,
this can happen anywhere in a reply, not only at its start. `WholeReply` says
which replies are safe however they are cut: those in which no part is directly
followed by itself, and all that were not streamed. In the run one reply repeats
itself and the other does not. Servers that do send snapshots are not modelled.

Mounting the page and loading the stored conversation (a timer of 0 ms) are one
step. `NoStuckMessage` and `WholeReply` leave out all pages on which an editor may
be open during a generation, which is wider than the case that breaks them.
Left out: reasoning, versions, timing, the limit of 100 stored messages, failing
writes to the storage, updaters React evaluates lazily after `stop`.

## SettingsForm

On the page: form, baseline, query cache, and per mount a save that writes the
changed options one PUT after another; each accepted write makes the query fetch
again. The model is the path of the quota and pricing sections.

On the server: `stored` is the options table, `optionMap[n]` the option map of
process `n`. A PUT is refused, or writes the row (`ServePut`) and then the map of
its process (`ApplyPut`), and may be answered with an error or lose its answer
even then. `LoadRead` and `LoadApply` are `loadOptionsFromDatabase`: the table is
read once and copied option by option, over whatever the map has by then. Another
administrator's PUT takes the same two steps (`OtherWrites`, `OtherApplied`). A
fetch and each PUT go to any process. A restarted process loads the table, which
is a load; restarts are not modelled otherwise.

`touched`, `unseen` and `claimed` are history: the fields this administrator
edited; those that may differ from what the page could know (another's write, an
answer that was lost or an error although the option was written, a failed fetch,
a fetch answered from an option map behind the database); and those the form takes
for saved after a save whose last PUT was refused. `CleanMeansSaved` says that a
field shown as saved is saved or in one of the last two. That the page shows an
old value after an accepted PUT, because another process answered the fetch or a
load put the old value back, is thus an exception: the maps are documented nowhere
as more than a cache.

Two processes are one that took a PUT and one that did not; two options with two
edits a save of two PUTs; two mounts a save that outlives its page. `MaxEvents`
bounds edits, another's writes and loads together. With two of them an edit meets
a second edit, a write of another administrator or a load, and the rest of the
run (saves, refusals, losses, fetches, resets) is unbounded; the theorems have no
bound. Which process took a PUT is chosen when it changes that process's map,
since nothing before depends on it. No fairness is assumed.

## Proofs

The theorems hold for every value of the constants: any number of requests,
tasks, workers, calls, runners, tabs, sessions, options, any amounts, any budget.
They assume only the named `ASSUME`s of the modules, which TLC evaluates in the
runs: amounts and balances are naturals, a runner id is never empty, plans are
the code's plans, there is a task and a mount, a reply has a token, the sets
over which the code sums rows or draws a fresh token are finite, budgets and
environments have the fields the actions read, and "no session" is not a
session.

Each module first proves `Spec => []IInv` for an inductive invariant `IInv`
(checked by TLC on the instances of the runs before it was proved), then reads
the properties off it. No property below is inductive by itself.

*SystemTasks_proofs.* The inductive invariant adds to the types that an
executing handler is the row's owner and that a row has an owner exactly when it
has been claimed. `OneExecutor`, `TypeCorrect` and `RowsFinal` follow.

*RequestBilling_proofs.* `IInv` has two parts per request. `Ctl` ties the place
of the goroutine to the session's flags and the rows: before settlement the
session is open, after it committed; a refund row exists exactly for a refunded
session; a payable earning carries the committed quota. `Funds` says what the
request has paid at each place: nothing, the pre-charge, the pre-charge plus the
top-up under way, or the committed quota, exactly, or at least that if a
compensation was lost. Neither part is inductive without the other, since what
the settlement commits is what `Funds` says was paid. `OneRequest` reduces a
step to the request that takes it; one lemma per action follows. From it:
`EarningIsBacked`, `RefundsExcludeCharges`, and, with bounds on the account
operations, `NothingOverdrawn`.

For the refinement of `RequestOutcome` and the rest of `RequestBilling`'s
properties: a step leaves other requests alone (`Frame`) and does one of four
things to the decision about its own (`Decision`), which are the abstract steps:
`OutcomeRefined` is the refinement, and `BooksStayClosed` adds that a token
adjustment exists only for committed requests. `AccountsDoAgree` needs the token
too, which `Funds` leaves open. `AllBooks`, a second invariant on top of the
first, says for every place of the goroutine what token and funding have been
charged and what a refund written now would return; with it the session's own
figures (`pre`, `tok`, `com`) and the accounts can be compared when the request
is over. Both invariants speak of the accounts less the fee, which
`ChargeViolationFee` adds to both sides.

*TaskSettlement_proofs.* Workers act on copies of the row that are out of date
by the time they write. `Good(t)` relates the row of a task to its settlement,
refund and earning rows and to what the user paid; `Fits(w)` relates a worker's
copy to those rows. `Stable(t)` is what every step guarantees to the other
workers of the task (a settled amount stays, a complete row stays complete, a row
that left "unfinished" does not return unless it was revived), so one lemma per
action about one task and one worker is enough. `BooksAlwaysAgree`,
`EarningsFollowSettlements` and `RefundsAreNeverPaid` are read off `Good`;
`OutcomeRefined` is the refinement of `RequestOutcome`.

*ProviderLedger_proofs.* The available amount is a difference of sums, so the
module first proves what a sum becomes when one entry changes, that it is not
negative, and that it grows with its entries (`SumFunction` over finite sets).
The facts are proved by taking a smallest set for which they fail. The invariant
then says that the calls past the lock are the one that holds it (`Exclusive`)
and what that call has made sure of (`Knows`): its key has no transfer yet, what
it read as earned is at most all income less the transfers, and the amount it is
about to write is at most what is neither transferred nor reserved. Settlements,
adjustments and reviews that come in between only leave it more room.
`IncomeIsSpentOnce` and `CreditFollowsLedger` follow.

*SettingsForm_proofs.* An option exists in three copies on the page: the
baseline, the cache, the answer of a fetch. Each agrees with the database while
nothing that will replace it is under way (`FetchedAgrees`, `CachedAgrees`,
`BaselineAgrees`), except where the page could not know, or a PUT is in the
database and its answer still to come (`Awaited`), or, for the baseline alone, a
refused save claims it. The option maps may hold anything: what a fetch reads
from one that is behind is marked when it is read. `CleanIsSaved` is what remains
at rest. `OnlyTouched` (dirty fields were edited, saves write dirty fields) gives
`OthersAreKept`.

*SupplyProbe_proofs.* A probe holds its target by a token drawn fresh for its
execution. That a fresh one exists is a counting argument over processes and
targets. Whatever takes a target from a running probe clears or replaces the
token, so the probe never holds it again (`OvertakenOK`), hence
`LateResultsAreIgnored`. What a success proves depends on the connection it went
over: that connection is never older than the version of the target nor newer
than the current one, so while the version is current both coincide
(`ServedIsProven`). `SuspensionFollowsLimit` holds for any limit and any number of
models and executions. `ManualDisableIsKept` needs to know what the writers of the
channel have read and mean to write (`StaffOK`): only the administrator saves an
enabled status, and an edit that found the channel disabled by hand leaves it so.

*AuthTabs_proofs.* For `SessionIsKept`: under the Web Lock at most one refresh is
awaited in the browser (`OneRefresh`, `LockHeld`); an awaited request presents
the cookie the browser has, an abandoned one the same or an older one; an answer
that sets a cookie brings the stored secret to a browser that has its predecessor
(`Kept`). Without the last part a lost answer followed by a second refresh could
not be told from a stolen cookie. For `SignOutIsFinal` and `TokensNeverRegress`:
the answer of a refresh that is still current was asked for after the last change
of the tab's authentication (`Timely`). A refresh that revokes the session clears
the cookie of a browser that presented it; the session is `Overtaken` from then
on, and before that `behind`, so `Kept` need not speak of it. The attempt to prove the latter showed
that the property, as first stated, fails with more operations than the run
allows: see the late answer of a rotation below, now its exception.

*PlaygroundChat_proofs.* What React renders is a fold of the queued updates over
the messages shown. The invariant speaks of that fold itself, `Now`: queueing an
update applies it to `Now`, rendering makes `Now` what is shown, so the two
equations of the fold (no update, one update more) are all that is needed of it.
They, and that a deletion keeps only messages that were there, are proved by
taking a smallest set of indices for which they fail. `ReplyOK` is the heart: the
last message of `Now` and the pending chunks hold parts of what the request at
work has sent (`Part`: its tokens in order, none twice), whatever the merges made
of the chunks; and if the reply does not repeat itself they hold all of it, the
message the first `c` tokens and the pending chunks the ones after them. The last
step is that a merge drops something only where a part of the reply is directly
followed by itself (`NoEcho`, `PiecesJoin`). With no request at work nothing is
pending. `RequestsOK` says that only the last
request can be of the present generation, which is why late events of others
change nothing. `MessagesOK` asks soundness of every copy of the conversation
(shown, next, stored, to be stored), and also of what the queue would show in the
next generation, where its updates do nothing unless React computed them early:
that is what Stop renders. `RepliesAreOwn`, `NoneIsStuck` and `RepliesAreWhole`
follow.

Only model-checked:

- The liveness properties (`ActiveRowEnds`, `RecoveryCompletes`,
  `DecisionCarriedOut`, `SettlementReleased`, `NotStarved`, `TestingEnds`,
  `RefreshSettles`, `GenerationEnds`, `StoredInTheEnd`): fairness and `ENABLED` are out
  of the prover's reach.

## What the models found

Three statements of the repository are refuted by a run:

1. A claim that stalls past its lease can leave a row running with no lock
   (`model/system_task.go:252`). Its handler can neither renew nor finish,
   no stale-lock pass finds it, and its `active_key` blocks the task type for
   good (`system_tasks_stuck`).
2. Pending refunds and ready earnings are listed by id with a limit and no
   back-off (`model/billing_refund.go:287`): a batch of rows that fail for ever
   starves all later ones, against
   `docs/llmhub/service-tier-routing-hardening.md:78` (`recovery_batches_id`).
3. A request or a balance check that began on an enabled channel disables it
   automatically after an administrator disabled it by hand
   (`model/channel.go:824` writes over any other status), and the next
   reconciliation enables it, against `routing-and-fallback-implementation.md:26`:
   no automatic logic restores a manually disabled channel
   (`supply_probe_manual`).

Further behaviours met while modelling. The models contain them, and the
properties name them as their exceptions or speak of the environment without
them:

- *Password change and refresh* (`service/auth_session.go:228`): a refresh of
  another tab between the two transactions of a password change revokes the session
  it was made in, which lines 159-161 and `model/user_session.go:653` promise to
  preserve (`Overtaken`).
- *Refused PUT* (`use-settings-form.ts:266`): a PUT answered with `success=false`
  resolves the mutation; if it was the last of a save, the refused value counts as
  saved (`claimed`) and `FormNavigationGuard`, which "prevents navigation when form
  has unsaved changes", is off.
- *Resets while typing* (`use-settings-form.ts:222`): the effect resets the form
  over what is being typed, although line 168 says "No automatic resets that could
  overwrite user input". After a save it first resets to the options cached before
  it, then to the ones fetched.
- *Stale-lock pass* (`model/system_task.go:372`): it fails a row by task id
  alone, so it can fail a row that was claimed again with a fresh lease. The
  handler notices when it next touches the row.
- *`NeedsRefund`* (`service/billing_session.go:216`) does not look at what the
  wallet has consumed: a trusted session whose top-up failed on the token and
  whose rollback failed is not refunded, although its comment (line 185) speaks
  of any pre-charged state. In `RequestBilling` this is a lost compensation
  (`slip`).
- *Deferred earnings* (`service/hub_provider_settlement.go:142`): a crash between
  the committed charge and the release leaves the earning deferred for ever; the
  documentation lists the window as open (`service-tier-routing-hardening.md:86`).
- *Status query on a final task* (`relay/relay_task.go:546`):
  `shouldPersistRealtimeTaskSnapshot` writes whatever the upstream reports over a
  final status, and a task brought back to running is polled and decided again,
  although line 513 calls terminal states display-only (`revived`).
- *Revenue split* (`model/hub_provider_settlement.go:660`): a retry computes the
  split from the live referral status; if it changed since the earning was
  settled, every retry conflicts and the settlement is never released, although
  `routing-and-fallback-implementation.md:555` promises one billing snapshot
  (the exception in `SettlementReleased`).
- *Stale synchronisation* (`model/hub_supply_probe.go:536`): the pass reads all
  groups first and writes each `config_version` back later; an edit of the
  connection in between has its version undone, and old successes admit the new
  connection (`VersionCurrent`).
- *Unlocked edit of a channel* (`model/channel.go:606`,
  `controller/hub_provider_channel.go:136`): the status written follows from one
  read without a lock; a manual disable committed in between is overwritten
  (the exception in `ManualDisableKept`).
- *Whole-row save of a status* (`model/channel.go:827`): it puts back the base
  URL, mapping or overrides that an edit replaced since the row was read, under
  the version of the edit (`VersionCurrent`).
- *Manual test* (`model/hub_supply_probe.go:870`): resetting the failures routes
  a quarantined target again before the test has succeeded.
- *Late refresh and a new login* (`web/src/lib/auth-session.ts:240`): the epoch
  check keeps a late answer out of the store, but the browser has applied its
  `Set-Cookie`: the cookie of a login made meanwhile is replaced or cleared
  (`newest.quiet`).
- *Late answer of a rotation* (`web/src/lib/auth-session.ts:178`): the answer of
  an explicit rotation is installed by `applyAuthRotation` however late it comes.
  If another tab rotated meanwhile and this one refreshed, the older token
  replaces the current one until the next refused request refreshes it (the
  exception in `TokenNeverRegresses`; the run's bound of operations is below the
  seven it takes).
- *Failed session lookup* (`service/auth_session.go:215`): any lookup error is
  answered as an invalid refresh token and clears the cookie, although
  `docs/authentication.md:71` reserves that for a confirmed invalid one; and
  without `navigator.locks` (`auth-session.ts:337`) a refresh two rotations late
  does the same (`Sheltered`).
- *Editor saved during a generation*
  (`features/playground/hooks/use-playground-conversation.ts:89`): `applyEdit`
  writes the messages of the last rendering over queued updates, so a reply may
  stay loading (`may.editor`). `sanitizeMessagesOnLoad` settles only the last
  pending message of a stored conversation.
- *Stream that just closes* (`use-stream-request.ts:146`): with status 200 and
  no `[DONE]` neither handler is called, and the input is blocked until Stop
  (the exception in `GenerationEnds`).
- *Repeated text in a reply* (`use-chat-handler.ts:59`,
  `message-streaming-utils.ts:74`): a chunk equal to the text before it is taken
  for a snapshot and dropped (the exception in `WholeReply`).
- *Stale option map* (`controller/option.go:109`): after an accepted PUT a fetch
  answered by another process, or after a load that began before the PUT, shows
  the old value as saved until the next fetch (`unseen`).

## Plan

1. `RevenueSplit`: the integer arithmetic of the two-layer split with rounding
   and clamping, with lemmas that the parts are non-negative and add up.
2. `SubscriptionLifecycle`: purchase, expiry, reset and pre-consume records.
