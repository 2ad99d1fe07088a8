# A TLA+ model of Xero Bot

Xero Bot is a GitHub (and Forgejo) App: webhooks turn into commands, reviews, notifications,
merges and copies between two providers. Almost everything that is hard in it is about *what may be
done a second time* and *what was true when it was read*: the providers offer no transactions, a
request may land after the process that sent it is gone, two deliveries may ask for the same thing,
and people push, edit and withdraw between any two calls. This directory models the parts of the
program that answer these questions, checks them with TLC and proves most of their safety properties
with TLAPS. Paths below are relative to the repository's `src/`, unless they name `docs/` or `README.md`.

## Inventory

| Part | Source | State | Operations | What makes it correct | Modules |
|---|---|---|---|---|---|
| Trigger store | `trigger_state/store.rs`, `notification_store.rs` | SQLite: inbox envelopes, operations with attempt and lease, recipient reservations | enqueue, claim, mark sent, finish, reconcile, refuse, supersede, revoke, recover, administer, clean up | receipts are final, uncertain writes stay uncertain, reservations respect the budget, envelopes outlive the work | `TriggerStore`, `TriggerStoreProofs` |
| Trigger runtime | `trigger_state/runtime.rs`, `dispatch.rs`, `trigger_state_admin.rs` | one pump, up to eight delivery futures, a task-local frame per command | pump, process, run a command, durable write, reconcile, interrupt, drain | a write takes effect at most once; a claim is finished by its owner or fenced; deliveries finish | `TriggerRuntime`, `DurableWrite`, `TriggerRuntimeProofs` |
| Trigger events, path notifications | `trigger_state/events.rs`, `path_notifications.rs` | stored plans and path subscriptions, rows of the ledger | plan opened and path rules, revoke, compute, label, mention | a report is made once, nobody is mentioned twice, revoked rules stop | `TriggerEvents`, `TriggerEventsProofs` |
| Merge queue | `merge_queue.rs` | none locally: two labels, the staging history, the advance PR | enqueue, dequeue, one driver tick every 30 s | main only advances to tested combinations; nothing is announced that is not merged; the queue drains | `MergeQueue`, `MergeQueueProofs` |
| Rollup queue | `rollup/` | one JSON document per repository: entries, batches, splits | ingest decisions of both providers, build, publish, audit, test, advance, split | the exact tested commit lands, once; approvals are current | `Rollup`, `RollupProofs` |
| Forgejo bridge | `forgejo/bridge.rs`, `bridge/inbox.rs`, `trigger_state/bridge_store.rs` | peer map, create and comment reservations, delivery lanes | forward items and comments both ways, planned stop, operator's resolutions | nothing is created twice or forgotten; lanes keep order and move; settled copies agree | `ForgejoBridge`, `ForgejoBridgeProofs` |
| Forgejo inbox, commands | `forgejo/inbox.rs`, `commands.rs` | comments with attempts and wrote/failed/uncertain marks | enqueue, pump, run, resolve | an uncertain comment is not replayed, its thread waits | `ForgejoCommands`, `ServicesProofs` |
| Forgejo ref sync | `forgejo/sync.rs`, `refs.rs` | a gate in memory, the two providers' branches | push, sweep, native mirror, copy a PR's head and base | no commit is overwritten; GitHub's branches arrive | `ForgejoSync`, `ServicesProofs` |
| Idle workflows | `idle_workflows/`, `github/actions.rs` | builds per commit, a pending request, activity | observe, reconcile, reserve, dispatch or re-run, confirm | attempts bounded, people's decisions kept, the latest commit built | `IdleWorkflows`, `IdleWorkflowsProofs` |
| Configuration cache | `config/cache.rs`, `github/repository_config.rs` | snapshot, generation, failure and retry time per repository | load, invalidate, observe the default branch | nothing older than a change it was told of is served | `ConfigCache`, `ServicesProofs` |
| Command language | `commands/` | none | lex, parse, resolve, diagnose | pure | - |
| Handlers, reviews, engines, CodeQL, rebase, GitHub client, server | remaining files | none between calls | | permission checks, texts, subprocesses | - |

How they interact. The webhook records the delivery in the store before it acknowledges it
(`main.rs`); the pump claims envelopes and runs `dispatch::execute_comment_with_client`, whose
handlers write through `github::Client`, which a task-local frame reroutes into `durable_write`,
which in turn goes to the store. Pull request events go through the same pump into the planners of
`events.rs`. An operator edits the same store with the `trigger-state` binary while the server is
stopped (the database lock excludes the two). The merge queue shares nothing with the store but the
approving command; its driver and its webhook handlers meet only at GitHub. The rollup queue reads
the bridge's peer map to learn which Forgejo and GitHub pull requests are one, and waits for the
bridge to copy a head (`ForgejoSync` is what copies it); in `Rollup` the bridge is an environment
that records a pair and copies a head at some time. Every planner reads policy from the cache.
`PROJECT.json` lists the components with the reason for each part that is left out, and the
hazards with their source lines.

## Modules

An action ends where the code awaits an answer, or between two committed statements that a crash can
tell apart. Clocks are reduced to the comparisons the code makes with them.

### `TriggerStore`: the ledger

One action per `Store` method that changes state; an action is one SQLite transaction. `inbox` is
the envelope table (`state`, `attempts`, and `due` for `next_at <= now`), `ops` the operations table
(state, attempts, `sent`, `delivery`, `lease`, recorded head), `slots` the recipients table, one
record per scope and login. Which operation names which parent, kind and scope is fixed by
constants, because the code derives them from the key. Bounded by `MaxAttempts` (in the guard of a
claim) and `MaxLeases` (envelope attempts saturate).

### `TriggerRuntime`: the pump and the workers

Extends the ledger with the database owner (`none`, `server`, `cli`), the pump (`off`, `resuming`,
`on`, `draining`), one worker record per delivery, the pull request's head and GitHub: `wire` holds
the requests that have not been answered and `applied` counts how often each write took effect. A
worker's `pc` names where its future is suspended: `gate` and `command` are `dispatch.rs`; `children`,
`claim`, `stale`, `supersede`, `finish` are `run_command`; `write`, `lookup`, `claimWrite`, `mark`,
`http` are `durable_write`; `settle` and `release` are the end of `process_item`. A handler
is the fixed sequence of writes `WritesOf` names; it may return early when a lookup fails, and a
comment after an accepted review is its fallback only. A request outlives the timeout, the worker
and the process. The operator decides truthfully (`Evidence`), as the documentation demands.

### `DurableWrite`: the promise

The abstract specification of an external write: requested, effective at any later time or never,
and a receipt that tells the truth; only an idempotent write may be requested while an earlier
request can still land. `TriggerRuntime` implements it under the refinement mapping at the end of
that module (requests flying per write, effects, and the receipt read off the row's state).

### `TriggerEvents`: the planners

A webhook of a pull request is processed by `pass`: `opened` and `subscribe` freeze which rule it is
about (`plans`, `subs`), `revoke`, `snapshot`, `plan`, `each` are the loop over its plans, `settle`,
`reconcile`, `fence`, `compute`, `wire` are `execute` and the durable write, and `cc`, `claim`,
`preflight`, `send` the mention comment of `path_notifications.rs`. The ledger appears as functions
of its rows, one per transaction. People push, edit the rule, restore it and take labels off at any
point; webhooks may be lost. `first` and `vetoed` are observers.

### `MergeQueue`: labels, staging and main

Labels, branches, pull requests and CI are GitHub's and survive a crash; `driver` (one `pump_one`
tick) and the webhook handlers in progress (`admitting`, `removing`) do not. An action is one GitHub
call with the decision that follows it, so webhooks, pushes, CI and people act between any two calls.
A branch is the sequence of its first-parent commits; a commit records the pull request and head
its marker names and the changes it adds, which is enough to tell "tested together" from "merged".
`driver.pc` follows the functions: `check` `check_members`; `ci`, `timeout` the CI match; `rebuild`,
`expel`, `refold` `rebuild_from` and `drop_culprit` (which is a rebuild at the tail); `list`, `reset`,
`read`, `fold`, `swap`, `mark`, `refuse` `start_batch`; `advance`, `merge` `advance_main`; `complete`
`complete_batch`. A folding may conflict at any time. The in-memory backoff after a 403 only delays
ticks, and a tick may come at any time.

### `Rollup`: the exact-commit queue

`repo` is the document in the worker's memory, `saved` the database row; they differ during a drive,
and `Crash` and `Abandon` (the 300 s cut, which saves what is in memory) are what makes the
difference matter. `Handle` is a decision from a comment (`ingress.rs`: `apply`), with the numbering
of Forgejo entries and the newest decision of a pair; `HandleAgain` the same comment after its receipt was lost.
`driver.pc`: `members` and `inspect` look at the active batch, `create` its audit pull request,
`ci`, `fallback` and `recheck` the reports of the two providers and the members again, `answer` the
fast-forward, `confirm` and `admit` the eligibility of entries, `prepare` and `publish` a new
candidate. Candidates are numbered, so that "the exact commit" is a number in `main`. The confirmed
entries are a set (`driver.eligible`); which of them `select_group` takes, and in which order, is stated by
what the result is (`Candidates`, the lines sorted by approval or by the split; `Sizes`, how much of a line
makes a batch), not by the loop that finds it. A pull request commented on from both sides before the
bridge paired it has two entries (`Twins`), until `reconcile_duplicates` supersedes one.

### `ForgejoBridge`: two copies of one item

`deliveries` is the table of stored webhooks with a lane per source object, `creates`, `linked`,
`revision` and `relayed` the rows of `bridge_store.rs`, `content` what each provider shows, `copies` how
many peers exist. `worker.pc`: `gate` reads both policies, `read` and `labels` and `patch` update a peer,
`reserve`, `post`, `link` create one, `record` stores the revision. `Stop` is a planned stop, `Crash`
the other kind; `Unfinished` is an outcome the database refuses, which leaves the row running and its
lane held until the next start (`left`; the table has no word of its own for it). `ResolveCreate`,
`ResolveComment` and `RetryDelivery` are the operator's, with the server stopped and by somebody who looked.

### `ForgejoCommands`, `ForgejoSync`, `ConfigCache`: the services

`ForgejoCommands`: `inbox` is the comments table with its marks, `statuses` the newest status command per
issue; the consumer is at `gate`, `act`, `send` (before a write, which is marked first) or `answer`
(after it). A wake opens a session that may have expired by the next comment; some commands need the
mention every time (`AlwaysMention`); a permission that cannot be read is answered as a refusal.
`ForgejoSync`: `wanted` holds requested synchronizations, `sync` the transfer under way with
the two fetched snapshots, `gate` the sweep's throttle; a branch is the sequence of its commits, so that
"overwritten" can be seen. GitHub's default branch may change at any time; a copy of a pull request acts on
the one it has read (`known`). `ConfigCache`: `told` observes what webhooks have told, `generation` and `known`
are changed by them, `fetch` is the load holding the entry's lock and reads metadata, head and file in
separate requests; `served` is what the last load returned.

### `IdleWorkflows`: the scheduler

`builds`, `pending` and `seen` are the stored state, `runs` GitHub's, `quiet`, `recent` and `grace` the
clocks as flags. A pass looks for the pending request, `read`s the branch and its runs, passes the
`gate`s, reads `fresh` again, reserves, `send`s and takes the `answer`. People push, force the branch back to
a commit pushed before, start, cancel and delete runs; a run becomes visible some time after it was
requested. Which runs make a scope busy depends on the workflows its monitors select, a choice in the model.
`made`, `unseen`, `hidden` and `returned` are observers: the attempts per commit, the commits a run of which
people deleted before any pass saw it, or while GitHub did not list another one, and those the branch was
forced back to while another was being requested.

`MCTriggerStore`, `MCTriggerRuntime`, `MCTriggerEvents`, `MCMergeQueue`, `MCRollup`, `MCForgejoBridge` and
`MCIdleWorkflows` give the constants values. `MCServices` (the three services) and `MCProgress` (rollup
queue, merge queue and comment worker) put components side by side that share no state: the first state
chooses one, the others stand still, so a state space is the sum of theirs. `MCServices` extends its three
modules, whose names therefore differ, so that the properties it checks are the ones the theorems state;
`MCProgress` extends `MCRollup` and instantiates the other two with variables of their own.

## Runs

| Run | Properties | Instance and distinct states |
|---|---|---|
| `trigger_store` | `StoreTypeOK`, `ReservationLive`, `EnvelopeRetained`, `GrantsWithinBudget`, `UncertainKeepsReservation`, `ReceiptsFinal` | once two notifications and the operator's ledger compete for one slot over two logins, once an opened and a path planner with a label write share the deliveries; 292 k |
| `trigger_runtime` | `AtMostOnce`, `RuntimeInv`, `NoAbandonedClaim`, `ImplementsStore` | two deliveries race for one command with one reply, two heads, two attempts, one fault of any kind; 416 k |
| `trigger_writes` | `ImplementsDurableWrite`, `RequestsKeepSnapshot` | a command that ensures labels, posts a review and falls back to a comment, with two faults and a push; 677 k |
| `trigger_supersede` | `SupersedesUnsentWork` | violated, see Findings |
| `trigger_events` | `EventsInv`, `ReportedOnce`, `WritesAuthorized` | two heads, two versions of a rule that mention overlapping people, two moves, two faults; 2.8 M |
| `merge_queue` | `QueueInv`, `AdvancesGreen`, `LandsRecordedHeads` | two pull requests, both ways of advancing, human review in the `pr` one, two heads each, two moves of people or one disturbance (`FewTroubles`; with one more move of people beside the disturbance, run once, the properties hold as well); deadlock is checked; 2.0 M |
| `progress` | `QueueResolves`, `QueuedResolves`, `EnvelopeFinishes` | fairness; the rollup queue with the decisions of `rollup`, three candidates, one fault and no moves; the merge queue with one disturbance (crash, failed call, deleted staging, rerun, reworded commit); the worker with two faults; 117 k |
| `rollup` | `RollupInv`, `LandsOnce`, `AdvancesApproved` | two pull requests at home on either provider, one not paired yet, one that breaks CI; two decisions, two candidates, one move of any kind, one fault; 1.5 M |
| `rollup_withdrawal` | `OlderApprovalDies` | violated, see Findings |
| `forgejo_bridge` | `BridgeInv`, `LanesInOrder`, `SettledAgree`, `LanesMove` | an item, a comment on each side, two moves, one fault; 177 k |
| `services` | `CommandsInv`, `ThreadPaused`, `NewerStatusStands`, `AllAnswered`; `NothingOverwritten`, `GithubKept`, `AllCarried`; `ToldChangesHonoured`, `LoadsServeCurrent` | four comments on two issues; three refs, one a tag, two bridged pull requests (one from the default branch), three pushes or other changes, a new default branch among them; two branches and two changes; one fault each; 221 k |
| `idle_workflows` | `IdleInv`, `DecisionsKept`, `LatestBuilt` | two commits, three runs, one retry, one move (also a branch forced back), one fault; 573 k |

What they show beyond the sentence in `PROJECT.json`:

- `ImplementsStore` is the ledger's own next-state relation: reconciling or finishing a row never takes
  a shortcut around it.
- `AdvancesGreen` holds through crashes, failed calls, a deleted staging branch and rerun checks; it names
  the one case the code leaves open: the advance PR merged into a main that somebody else has moved.
  `LandsRecordedHeads` and the second part of `QueueInv` (`AnnouncedAreMerged`) are stated for behaviours
  without such a disturbance, and that is a fact about the code: a reset whose label removal failed, or
  a 422 taken for an advanced batch, lets `complete_batch` thank a pull request that is not in main; a
  commit GitHub words itself carries no head.
- `AdvancesApproved` speaks of what the queue has recorded. An entry that never had a twin lands only
  if nothing newer than its *approval* withdrew it. Of two entries the one that stayed carries a decision
  as new as any withdrawal, unless the other one is still astray (`Astray`): not numbered yet because the
  bridge has not recorded the pair, or found first when the batch looks up its member. The second case
  is a twin that was cancelled while it had no number, with the pairing recorded between the worker's
  survey and the confirmation of the entry. That the decision may be newer than the approval is the
  finding `rollup_withdrawal`.
- `QueueResolves` leaves out a batch whose audit pull request may exist unseen; the code waits for it by
  design (`docs/rollup.md`, `rollup/engine.rs:299`), before it looks at the batch's own timeout.
- `LandsOnce` also covers a fast-forward whose answer was lost with a push on top of it: the batch is then
  reported as cancelled although it is in main (`rollup/engine.rs:401`), but nothing lands again.
- `ToldChangesHonoured` leaves out a default branch that changes away and back during one refresh
  (`observe_default_branch` compares names).
- `AttemptsBounded` in `IdleInv` leaves out commits a run of which was deleted before any pass saw it.
  `OneAtATime` leaves out those a run of which was deleted while GitHub did not list another one (`hidden`):
  a dispatched run, confirmed by its number but not listed yet, is overshadowed by a run of people, which
  they delete; the next pass then finds neither and dispatches again. Two retries and two moves are needed.
- A dispatch names a branch, not a commit (`idle_workflows/mod.rs:646`): if the branch is forced back to an older
  commit between the last reading of it (`mod.rs:582`) and the dispatch, that commit is run although it was
  decided, has used up its attempts or has a run. `AttemptsBounded`, `OneAtATime` and `DecisionsKept` leave
  out the commits this happened to (`returned`); the run reaches it for `DecisionsKept`. A branch forced
  back at any other time is within the properties.
- `GithubKept` is judged by the default branch each leg has read: a branch that becomes the default between that
  reading (`forgejo/refs.rs:369`) and the push is pushed to, as a fast-forward (`NothingOverwritten`).
- `LanesMove` counts a lane whose delivery could not be finished (`bridge/inbox.rs:265`) as waiting for the
  operator: the row stays running and nothing but a start of the server takes it up again.
- `NewerStatusStands` is about status commands, which carry their time; a review command waiting in
  backoff may be overtaken by a newer one of the same issue (`forgejo/inbox.rs:136`).

### Fairness

`TriggerRuntime`: the server is restarted and pumps every few seconds, futures are polled and bounded
by the 15 minute timeout, backoffs pass, and GitHub answers requests that reach it. The claim of an
envelope is strongly fair because `claim_inbox` takes due envelopes in order. Nothing forces webhooks,
pushes, faults or the operator. `MergeQueue`: the poll loop ticks (weak fairness of the driver), a
handler that started runs on, a CI run that started ends, and the wait of a batch without any CI
passes the timeout (strong, since a tick visits that point again and again). Without fairness of
`CiEnds`, a check that is pending for ever keeps its batch for ever: the code has no timeout there.
`Rollup`: the worker ticks; the batch's own timeout (`Pauses`) and the collection window (`Freezes`) pass
(strong: every tick looks at them again); the bridge pairs and copies; CI need not ever end. The three
systems of `progress` share their fairness conditions, each a disjunction over them: only one of the three
takes steps, so the fairness of the disjunction is that of its own disjunct. A disjunction over pull
requests or requests asks for less than each module's `FairSpec` does. `ForgejoBridge`,
`ForgejoCommands`: the consumer runs every few seconds, waits pass, the server is restarted; the operator is
never forced, so their liveness ends in "or waits for the operator". `ForgejoSync`: the sweep is called
again and again; webhooks may be lost. `ConfigCache`: the bot loads, the TTL and the backoff pass.
`IdleWorkflows`: the timer starts passes, the periods pass between two passes (strong: a pass must
not be under way), runs appear and end. `TriggerEvents` is checked for safety only.

### Bounds

All bounds are constants and their values are in the `.cfg` files. Attempts 2 suffice to tell a stale
fence from a current one; one fault is the smallest number with which an uncertain write meets a retry,
and two add a second interruption during recovery. Two pull requests are the smallest queue with a
prefix to test again and the smallest batch to split; two candidates the smallest number with which
something could land twice. Two versions of a rule and two moves let a rule go and come back. A larger
instance that was run once and held, before forced pushes were part of it: the scheduler's safety with two
retries and two moves (11.4 M states). The runs
without deadlock checking are those of systems that really stop: all work is done or waits for the
operator, or a bound is used up.

## Findings

`trigger_supersede`: *unsent work survives its superseded parent*. `run_command` supersedes the parent and its
unsent children in two transactions; a crash in between leaves children pending that nothing visits
again, against `docs/trigger-state.md:92`.

`rollup_withdrawal`: *an approval survives a newer withdrawal*. A pull request is approved on GitHub, rejected
on Forgejo and retried on GitHub, in this order, and the queue gets all three before the bridge has
recorded the pair. The rejection makes an entry of its own; the retry finds only the approved one and
renews its `decision_time` (`rollup/ingress.rs:289`), though it approves nothing. Once the pair is known,
`reconcile_duplicates` keeps the entry with the newer decision (`rollup/engine.rs:903`) and the withdrawal is
superseded, against the comment at `rollup/engine.rs:572`: "a delayed bridge mapping must not let a second
origin's older approval survive a newer cancellation". Had the pair been known, the rejection
would have cancelled the entry and the retry been refused.

Four more disagreements are stated as properties beside the code they are about, which no run lists.
Each is refuted by TLC within a minute when it is put into a configuration of its module:

- *A retry that resumes nothing* (`OperatorRetryResumes` in `TriggerRuntime`, one delivery, a review with its
  fallback comment). `administer_with_receipt` (`store.rs:881`) reopens only a failed parent. A refused review
  under a command that succeeded through its fallback stays pending, against `docs/trigger-state.md:242`.
- *Approvals of the advance PR are thrown away* (`ApprovalStands` in `MergeQueue`, review required). Each tick
  closes the advance PR it finds (`merge_queue.rs:1279`) and opens a new one, also when staging is what
  was approved (`README.md:149`).
- *A restart before the label swap empties the batch* (`RestartKeepsPlace`, disturbance `crash`), where
  `README.md:155` says it resumes where it left off: members folded but not yet labelled look stripped
  by hand (`merge_queue.rs:760`).
- *A batch without its staging branch is not rebuilt* (`BatchResolves`, disturbance `delete`): the comment at
  `merge_queue.rs:790` says every member is folded again, but only queued pull requests are listed.

Seen while modelling, within what the documentation allows: `update_peer` does not clear the recorded
revision before its PATCH (`forgejo/bridge.rs:1704`); a comment on an item whose creation is unresolved is
dropped, not kept (`bridge.rs:914`); the mention comment's veto is not stored before the policy is read
(`path_notifications.rs:183`), unlike that of the other plans; a comment interrupted by a crash is queued
again without regard to the number of attempts (`forgejo/inbox.rs:54`).

## Proofs

Each proof module extends the module (the three modules) it is about and proves its theorems for every value of the
constants that the named assumptions allow. TLAPS checks every leaf.

| Module | Theorem | Property | Inductive invariant |
|---|---|---|---|
| `TriggerStoreProofs` | `StoreTypeCorrect` | `StoreTypeOK` | itself |
| | `ReservationsAreLive` | `ReservationLive` | `ReservationInv` |
| | `EnvelopesAreRetained` | `EnvelopeRetained` | with `EnvelopeStored` |
| | `ReceiptsAreFinal`, `UncertainReservationsStay`, `GrantsStayWithinBudget` | `ReceiptsFinal`, `UncertainKeepsReservation`, `GrantsWithinBudget` | the three above |
| `TriggerRuntimeProofs` | `LeasesHold`, `NothingAbandoned` | `RuntimeInv`, `NoAbandonedClaim` | `RuntimeIInv` |
| | `StoreImplemented` | `ImplementsStore` (refinement) | `RuntimeIInv` |
| | `EffectsAtMostOnce` | `AtMostOnce` | with `OnceIInv` |
| | `SnapshotsAreKept` | `RequestsKeepSnapshot` | with `Snapshots` |
| | `PromiseImplemented` | `ImplementsDurableWrite` (refinement) | with `Landed` |
| `TriggerEventsProofs` | `MentionedOnce`, `ReportsOnce`, `OnlyAuthorizedWrites` | `EventsInv`, `ReportedOnce`, `WritesAuthorized` | `EventsIInv` |
| `MergeQueueProofs` | `OnlyGreenAdvances` | `AdvancesGreen` | `QueueIInv`: `GreenIInv` |
| | `AnnouncedHaveLanded`, `RecordedHeadsLand` | `QueueInv`, `LandsRecordedHeads` | `QueueIInv`: `Undisturbed` |
| `ForgejoBridgeProofs` | `CreationsAreSafe`, `LanesStayInOrder` | `BridgeInv`, `LanesInOrder` | `BridgeIInv` |
| | `SidesAgree` | `SettledAgree` | with `AgreeIInv` |
| `ServicesProofs` | `NobodyAnsweredTwice` | `CommandsInv` | `CommandsIInv` |
| | `UnknownPauses`, `StatusesStayInOrder` | `ThreadPaused`, `NewerStatusStands` | `CommandsIInv` |
| | `NobodyIsOverwritten`, `GithubIsKept` | `NothingOverwritten`, `GithubKept` | `SyncIInv` |
| | `ChangesAreHonoured` | `ToldChangesHonoured` | `CacheIInv` |
| `RollupProofs` | `QueueCorrect` | `RollupInv` | `RollupIInv` |
| | `NothingLandsTwice`, `OnlyApprovedLands` | `LandsOnce`, `AdvancesApproved` | `RollupIInv` |
| `IdleWorkflowsProofs` | `TypeCorrect`, `FewAndOneAtATime` | `IdleTypeOK`, `IdleInv` | `IdleIInv` |
| | `DecisionsStay` | `DecisionsKept` | `IdleIInv` |

Every invariant was an invariant of TLC runs before it was proved, most on the instance of the
component's run; `QueueIInv` also on two larger ones and one with two disturbances, `IdleIInv`, without
forced pushes, with two retries and two moves, `RollupIInv` also with three comments on one pull request.

### Why the invariants are stronger than the properties

*Ledger.* `ReservationLive` does not say which rows can hold recipients, and a planner or label write
may become runnable again with nothing else changed. `ReservationInv` adds that a held slot belongs to
a comment or an attested ledger row of the same scope and is committed exactly when that row has
succeeded (`SlotLive`), and that a ledger row is only ever absent or succeeded (`LedgerSettled`).
`EnvelopeRetained` needs that an operation in progress names a stored envelope.

*Runtime.* A worker keeps what it read across awaits, so the invariant says for each place which rows it
holds and at which attempt (`Fits`), that workers exist only while the server pumps (`Process`), and that
every claim has its worker (`Tended`); with it each worker step is one ledger transaction, which is the
refinement. `AtMostOnce` is about requests that outlive their sender: `Sequel` says that a claim whose
send mark is not set is newer than every request in flight, `Once` which states of a row mean that its
write has left no effect. That a worker never claims a row it has already sent is read off what every
step may do to a row (`Orderly`). For the promise, a request that landed has had its effect (`Landed`).

*Planners.* A mention that was sent is reserved by a row that keeps it (`Mentions`), which holds because
only a row that is claimed, unsent or refused gives a reservation back, and only the pass in process
claims rows (`Underway`, `PlanRows`). A report was computed unless its row is absent or pending
(`Reported`). A plan once found revoked has a final row, whatever becomes of the rule (`Vetoes`).

*Merge queue.* Two halves, because two of the properties hold only as long as nothing was disturbed.
`GreenIInv` holds always: a green tip has passed (`Tips`) and the branch the driver looks at is the one
whose verdict it acts on, or gone (`Verdict`). `Undisturbed`: histories consist of main and marked
merges of heads that were pushed (`Histories`); the chain in hand is that of staging, with the checked
entries merged at the heads they record (`Charted`); and every open pull request under test rides
on staging or is about to (`Placed`). The last one is what `complete_batch` needs: the labels decide
who is in the batch, the commits what is in it. That a fault is never forgotten makes the second half
inductive.

*Bridge.* `BridgeIInv` says what the worker may rely on at each step (its reservation, the row it holds,
what it read) and that no delivery behind the running one in its lane has moved. `SettledAgree` needs
to know who still has to tell whom about a difference: texts only get newer, and whoever made one has
left a delivery behind (`Heard`, `Unanswered`, `Current`). With restored texts that is false, since the
bridge cannot tell a restored text from one it has seen.

*Commands, sync, cache.* A comment that is run again wrote nothing (`RowsClean`) and what the consumer
still has to send was not sent (`Remaining`). A transfer's push is taken only as a fast-forward of
what is there now, which makes fetched snapshots harmless. What a load read is as new as what the bot
had been told when it began, and while the generation has not moved as new as what it was told since
(`Fence`), provided no webhook tells of a later commit under an earlier default branch (`ReadAt`).

*Rollup.* The worker's document and the stored one differ during a drive and a cut saves the first, a crash
takes the second, so most of `RollupIInv` is about both. A decision once recorded is carried by an entry,
whatever supersedes it (`Carried`); entries under test are those of the active batch (`Tests`). What a batch
was built from never changes (`PlanOf`), which makes facts about batches hold for both documents at once
(`Plans`): a candidate built on main as it is holds no revision that landed. That one stays true because
a landed revision is no longer the open head of its pull request (`Spent`), also when the answer to its
fast-forward was lost. For each place of the worker, `Drives` says what it has found out: the members
already inspected are approved at their heads. `AdvancesApproved` adds who approved (`Grants`), that an
entry without a twin heeds every withdrawal (`Heeded`) and what two entries of one pull request look like
(`Strays`).

*Scheduler.* A pass that finds no run of a commit may dispatch one, so a dispatched run that GitHub does
not list yet must not be forgotten: it is tracked by the stored request, or the next reading of its
commit finds it or one in its place (`NoneLost`). An attempt is counted before it is made (`Counted`);
the exception is a commit pushed between the decision and the dispatch, for which its run stands, and
which is untried (`Untried`) unless the branch was forced back to it. What a pass has chosen to do fits
what it has read, however long ago (`ChosenFormed`).

### Assumptions

- `KeyAssumption`, `NoneAssumption`, `BoundAssumption`: every key has a kind, a scope and at most one
  parent, and a planner's key has none; logins are finite; limits are natural numbers.
- `RuntimeAssumption`: the commands of a delivery are commands; a handler's writes are children of its
  command and not the operator's ledger; no write is a parent; at least one lease is counted.
  `durable_write` derives the key of a write from its command's frame that way.
- `EventsAssumption`: the sentinels are no rules; a rule mentions finitely many people.
- `QueueAssumption`, `BranchAssumption`: pull requests are finitely many positive numbers, the batch
  limit is positive (as the configuration demands), an absent ref is not a history.
- `BridgeAssumption`: items and comments are finite and distinct; a text exists (`MaxText`).
- `CommandsAssumption`: comments are finite in number, and the times of two comments of one issue
  differ (`at` stands for the time and the comment's number); some attempt is made.
- `SyncAssumption`, `CacheAssumption`: the default branch is neither internal nor a tag; a branch has room
  for a commit; the empty value is no branch.
- `RollupAssumption`: pull requests are finitely many; two comments of one provider on one pull request have
  different times (`time` stands for the time and the comment's number, which break ties in the code); a
  batch holds 1 to 16 members, as `rollup.max_batch` demands.
- `IdleAssumption`: there is a commit, and room for a run.
- `SidesAgree` alone has a hypothesis, `~Reverts`: the property is false without it, and the run has it too.

All other bounds (moves, faults, attempts, heads) are arbitrary, natural or positive, in the theorems.

### What the proofs changed

- `Act` in `ForgejoCommands` had two overlapping guards in a `CASE`; which arm was taken was not determined.
- A type of the cache entry was too narrow for two faults in a row, which the run's single fault never met.
- The planners' invariant needed that a report about to be posted was computed exactly once.
- `MergeQueue` sorted through a library operator about which nothing can be proved; it now chooses the
  sorted enumeration, whose existence is a theorem (`LeastElement` and its consequences). A marked commit
  always names a pull request, which the type of commits did not say.
- Label writes are the writes that may take effect twice, so `OnceIInv` is about the others.
- `Rollup` followed the loop of `select_group` with recursive functions and kept the confirmed entries in the
  order in which they were confirmed, which nothing depends on. Both are sets now.
- The finding `rollup_withdrawal` came out of the attempt to prove that an approval older than a withdrawal
  never lands; the run's two comments per instance could not show it. So did the case in `Astray` where the
  twin is found first.
- `OneAtATime` was stated without its exception; `NoneLost` could not be shown inductive, and TLC found the
  behaviour once it was given two retries and two moves. Folds over the runs became sets.

### Only model-checked

Liveness (`EnvelopeFinishes`, `QueuedResolves`, `QueueResolves`, `LanesMove`, `AllAnswered`, `AllCarried`,
`LoadsServeCurrent`, `LatestBuilt`): fairness and `ENABLED` are out of the prover's reach. The findings,
which are counterexamples. Every safety property of a run is proved. The other way round, the
types of `ForgejoSync` and `ConfigCache` are part of their proved invariants and of no run. What would
need induction over data is argued from minimal elements (`WFMin`) or kept out of the models.

## Not modelled

- Sessions and notification bodies of the store; opened rules of issues; the choice of rules by path.
- Texts, routing, permissions: one nondeterministic admit or refuse per command.
- Commit graphs: `list_commits` is taken to return first-parent order, so a member's own newer
  commit hiding a marker (`merge_queue.rs:68`) is not seen.
- Pull requests are not reopened in the merge queue, their heads only move forward there, the advance merge
  method is `merge`. The hand-written date parser is not modelled.
- Steps of the code that are one action because what may happen between them changes nothing a property
  tells apart: in `TriggerEvents` freezing a plan and the second policy load (`events.rs:193`, `237`), and the
  policy load, the reading of the pull request and the claim of a mention (`path_notifications.rs:183-211`);
  in `Rollup` the peer lookup of a comment and its effect (`ingress.rs:374`); in `ForgejoSync` the policy
  read and the lock (`sync.rs:73-112`); in `ConfigCache` the two lock sections of `observe_default_branch` and
  the push check (`cache.rs:174-185`).
- `Rollup`: a comment is one command, rollup is enabled, and a provider's finished report does not change.
- The native mirror takes another lock than the copies of a pull request (`sync.rs:201`, `refs.rs:335`); in
  `ForgejoSync` they exclude each other. A repository is a mirror or an ordinary one, so only a change
  of its kind could bring the two together.
- A database error inside a job of the bridge other than at its end (`Unfinished` may strike at any step
  of it, which covers the state such an error leaves, not every answer to it).
- Rendering of mirrored texts but for "may read differently once", Git plumbing, web pages.
- The components the table lists without a module: they keep nothing between calls.

## Plan

1. Composition of `ForgejoBridge` with `Rollup` over the peer map, in place of the pairing environment.
2. Sessions, and the pure algorithms: command resolution and the date parser.
3. The refinement of `Rollup` to a promise of its own: a set of approved revisions, each landed at most once.
