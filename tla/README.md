# Dependaboard: TLA+ models, checks and proofs

Dependaboard is a dashboard over the open Dependabot pull requests of one GitHub App
installation. It projects them into a database, keeps the projection true through webhooks and
periodic sweeps, and runs merges, branch updates and rebases over many of them at once. Its work is
done by a Restate service: virtual objects and workflows whose handlers are journaled step by step
and replayed after a crash. In front of it is a page that runs in the browser, asks a server for
everything and follows by polling what the service does. This directory models the service, the
GitHub client and store it works through, and the page's side of the conversation; it checks the
models with TLC and proves the safety of seven of the eight with TLAPS.

Every definition is translated from the code; `PROJECT.json` maps each to its lines, lists the
hazards the properties are aimed at, the runs, a mutant of the code for each property, and the
theorems.

## 1. Inventory

| Component | Code | State | Operations |
|---|---|---|---|
| InstallationSync | `apps/restate-service/src/installation_sync.rs` | `scheduler_started`, `scheduler_tick_pending`, `scheduler_generation`; delayed ticks inside Restate | `start`, `tick`, `sync_now`, `pause`, `purge` |
| RepoSync | `apps/restate-service/src/repo_sync.rs` | none of its own | `reconcile`, `sync_sha` |
| PullRequest | `apps/restate-service/src/pull_request.rs` | `PrState`: snapshot, `last_synced_at`, `sync_pending`, history, `completed_sync_ids` | `sync`, `closed`, `merge`, `update_branch`, `command`, `status` |
| BulkAction | `apps/restate-service/src/bulk_action.rs`, `crates/core` | progress of each target, tally | `run`, `progress`; cancellation by an operator |
| Retirement outbox | `apps/restate-service/src/retirement.rs`, `crates/store/src/reconcile.rs` | one row per pruned pull request | queue (in the prune's transaction), drain, acknowledge |
| GitHub steps | `apps/restate-service/src/github.rs` | rate-limit waits, retry budget | `run_github_step`, `classify_github_error` |
| GitHub client | `crates/github` | installation token | listings, `fetch_snapshot`, `merge`, `update_branch`, `post_command` |
| Projection store | `crates/store`, `migrations/` | repositories, pull requests, batches, outbox, revision | upsert, delete, prune, purge, batches; queries, facets, keyset pages |
| Ingresses | `ingress.rs`, `dashboard.rs` | none | `WebhookIngress.dispatch`, `SchedulerIngress`, `DashboardIngress` |
| Web edge | `apps/web/src/server`, `api.rs` | credentials, Restate client | webhook receiver; the server functions: batch submission, progress, rows, revision, syncs |
| Dashboard: following a batch | `apps/web/src/ui`: `active_batch`, `batch`, `retry` | the followed batch, the tasks that follow, the retry under way | queue, open, take over, submit, poll, conclude, retry rejected |
| Dashboard: the page | `apps/web/src/ui`: `dashboard_state`, `live`, `dashboard`, `pr_table`, `pr_sync` | connection, filter, rows, selection, live refresh, syncs in flight | read, poll, filter, select, select all, sync all, sync one and follow it |
| restate-ext | `crates/restate-ext` | none | adapters over the SDK, tracing, shutdown |

How they meet. GitHub's deliveries reach the web edge, which forwards them to `WebhookIngress`; that
sends `PullRequest.sync` or `closed`, `RepoSync.sync_sha`, or a message to `InstallationSync`. Each
tick of `InstallationSync` lists the repositories, makes the projection match, drains the outbox and
fans `RepoSync.reconcile` out; each reconcile lists the open pull requests, *calls* `sync` on one
after another, prunes the rest and drains the outbox. Draining sends `closed` to the pull requests
that were pruned. A `BulkAction` *calls* `merge`, `update_branch` or `command` on its targets. All
object handlers for one key run one at a time, sends are one-way and unordered between senders, and
every step may run again if its result is not journaled.

The page talks to the server functions of `api.rs` only. It mints a batch's id, submits it (Restate
runs a workflow id once) and polls the workflow's `progress`; it polls the projection's revision and
reads the rows again when that moves; it asks for one pull request's sync under a completion id and
polls the object's state for that id. Every answer is about an earlier moment, answers of different
calls cross, and a call without an answer may have been acted on.

What is hard here, and what correctness means:

- **One chain.** A delayed tick cannot be recalled. Starts on every boot, suspends and resumes must
  leave exactly one perpetual chain, and a failing sweep must not end it.
- **Two copies.** The row and the object's snapshot are written one after the other, by steps that
  may run twice, and both lag GitHub behind a debounce. They must agree with each other at rest, and
  with GitHub when everything delivered is handled; `sync_pending` must never outlive its sync.
- **Pruning by a listing that is already old.** Fences in whole seconds protect what was synced
  since. What a prune deletes must reach the objects although its result may be lost, two sweeps
  share one outbox, and a drain may fail in the middle.
- **Uninstall.** A purge overtakes work in flight, which must not bring back what was purged.
- **Effects that cannot be journaled atomically.** A merge lands and its answer, or the process, is
  lost. It must not be done twice, nor denied.
- **Batches.** Merges of one repository are serialised, repositories take turns, and a batch is
  never lost from the audit whether it fails, is cancelled or cannot be recorded.
- **Paged listings** of collections that change between two pages.
- **A page that only polls.** What it says of a batch must be what Restate runs, although it cannot
  tell a submission that was lost from one that is late; rows must leave the selection only for a
  batch that exists; rows on screen must not stay behind a revision the page has seen, whatever
  fails or is hidden meanwhile; a sync followed to its end must hand back a row that has seen it; and
  every follow and every spinner must stop.

## 2. Modules

```
SweepChain      what the scheduler promises: one perpetual chain (abstract)
  ^ implemented by
Scheduler       InstallationSync: start, tick, sync_now, pause, purge     + SchedulerProofs
PullRequest     the PullRequest object, its row, GitHub's pull request    + PullRequestLemmas
  ^ extended by
Reconcile       InstallationSync's sweep and purge, RepoSync, the outbox  + ReconcileProofs
ManualSync      (also extends PullRequest) a page syncs one pull request and follows it
                                                                          + PullRequestProofs
BulkAction      the batch workflow: rounds, verdicts, cancellation, record
                                                                          + BulkActionProofs
GithubMutation  one verified mutation inside its step                     + GithubProofs
Listing         the two paged listings                                    + GithubProofs
BatchFollower   the page's follows of batches, the server's submissions, Restate's batches
                                                                          + BatchFollowerProofs
Page            the page's rows, live refresh, selection and sync          + PageProofs
MC*             instances for TLC
```

**Scheduler.** The three state keys are variables of the same names; `ticks[g]` counts the ticks of
generation `g` inside Restate, `legacy` those an older deployment sent without a generation, and
`busy` is the sweep or purge that holds the object. One action per handler, split by the
transition's outcome. A handler's state write and its sends are one action: nothing between them can
fail, and Restate replays the journal to the same end. `HasNextGeneration` is `checked_add`.

**SweepChain.** `on` and the number of `timers` that would sweep if they fired now. `Scheduler`
implements it with `on <- started, timers <- ticks[generation]`.

**PullRequest.** Every handler is a sequence of actions, one per `await` on the outside: a sync is
`SyncStarts` (flag cleared and persisted), `FetchReads`, `FetchStamps` (the record is stamped after
the read), `SyncFinishes` (the row's upsert, then the object's state). Store steps have variants for
what Restate allows: the step lands and runs again (`UpsertRepeats`, `DropRepeats`), or ends
terminally, landed or not (`UpsertFails`, `DropFails`). A record is the revision of the pull request
it shows and the second it was stamped. `Events` and `Faults` name what an instance lets happen.

**Reconcile** extends PullRequest with the sweeps. `sweep[s]` is where sweeper `s` (the installation,
or a repository) is: clock, listing, prune, drain, fan-out or the calls. The prunes of
`crates/store/src/reconcile.rs` are operators, atomic as their transactions are, and the outbox rows
they queue carry two history values: `seen`, the revision the listing could have seen, and `had`, the
one the row showed.

**BulkAction.** One workflow from validation to record. `plan` holds the queues of
`plan_merge_rounds`, each as the set of positions still to be sent (the code pops them in batch
order, so the next one is the least), and its starting queue; the rounds are computed as they are
run; `progress` and `tally`
are `BatchProgress`. A cancellation is delivered at whatever is awaited next, and each await does
with it what the code does. `lapsed` remembers which of the two best-effort store steps failed.

**GithubMutation.** `verified_mutation` inside `run_github_step`: verify, scan (comments only), send,
confirm; the classification of each answer; waits, retries, crashes. The pull request is changed by
other people all the while. `landed` counts the step's writes that took effect.

**Listing.** Pages are read one by one from a sequence that items leave and join;
`fold_repository_pages` accepts or refuses the repositories, the pull requests are taken as read.
The names of its state and specification carry the component's, since `GithubProofs` speaks of both
halves of the client.

**ManualSync** composes the page's `sync_pr` with the PullRequest object it asks. `follow[c]` is the
sync under completion id `c`: the request (Restate may take it and its answer be lost), the polls of
the object's `completed_sync_ids`, the row's read in a second call. Between any two of them the
object's handlers, GitHub and other syncs go on as PullRequest lets them.

**BatchFollower.** `followers` are the tasks of `run_batch`, `follow_batch` and `poll`, each at the
call it has out or is about to make; an action is what a task does between two awaits, up to the
report it makes to the page. `shown` is `BatchHost.followed`, `wire` the submissions the server is
still at work on after the page stopped waiting for them, `restate` and `record` what Restate's
progress handler and the projection's tables show of each batch (BulkAction opens that up). Ids are
those the page minted and one that is foreign. `named` and `announced` remember what the page said.

**Page.** Each of the page's calls is served at one moment and answered at a later one: `reading`
(the rows), `poll` (the revision), `selecting` (Select all), `syncs`. `refresh` is `Refresh` of
`live.rs` field by field; the projection is its two revision counters, moved by `Writes`. `cut` and
the filter and revision kept with `rows` are there for the properties.

What the models leave out on purpose:

- `PullRequest`'s action history; with it goes `command`, whose GitHub side is in GithubMutation.
  `status` and `progress` are reads.
- A batch that fails or is cancelled before it completes is not among those BatchFollower follows
  (section 6); which drawer is open, and what the page words how, is left out of both page modules;
  so are the URL and further pages' cursors.
- In Reconcile a listing is read at one moment (Listing opens it up), a drain's read and its sends
  are one step, one prune's outbox rows share an id, and equal messages in flight are one message.
- Purge's scheduler transition is in Scheduler only; operators cancelling object handlers are not
  modelled outside Scheduler's `WorkEnds`.
- In GithubMutation a request that GitHub received has taken effect, or never will, by the time the
  next one is answered; in the object modules a step's earlier attempt no longer writes once a later
  one has.

## 3. Runs

| Run | Checks | Shows |
|---|---|---|
| `scheduler` | `TypeOK`, `OneChain`, `StaleTicksStayDead`, `ChainRefinement`, `ChainKeepsSweeping` | one chain, never forked or lost, on a counter that overflows |
| `pull_request` | `PrTypeOK`, `TrailingSyncScheduled`, `SnapshotIsRow`, `QuietAgrees`, `RowIsFresh` | row, object and GitHub agree whatever is debounced, repeated or overtaken, one success makes up for failures, and a page's sync followed to its end hands back a row no older than the request |
| `reconcile` | `TypeOK`, `LostRowIsRetired`, `PruneSparesNewer`, `CloseSparesNewer`, `PurgeForgets`, `ReconcileCatchesUp` | fences spare what is newer, the outbox loses nothing, a purge leaves nothing, a reconcile makes up for lost webhooks |
| `access` | `CloseSparesNewer` | a repository leaves and returns behind a sweep, and the close its cascade queued spares what was synced since |
| `bulk_action` | `TypeOK`, `MergesSerialised`, `RepositoriesTakeTurns`, `AttemptedIsComplete`, `EndedIsAccountedFor`, `UncancelledIsRecorded` | merges are serialised and fair, no batch vanishes |
| `github_mutation` | `TypeOK`, `AtMostOnce`, `LandedMergeIsNotDenied`, `SucceededIsReal`, `StepSettles` | GitHub is changed at most once and the outcome is the truth |
| `repository_listing` | `ListingTypeOK`, `ListedIsCompleteOrSwapped`, `ListingEnds` | an accepted listing misses nothing, short of a swap |
| `follower` | `TypeOK`, `SaidIsTrue`, `SelectionLeavesForTaken`, `ShownIsRestates`, `FollowEnds` | what the page says and shows of a batch is what Restate runs, however late its submissions are |
| `page` | `TypeOK`, `RowsCatchUp`, `CapNoteIsTrue`, `SyncEnds` | rows catch up with the revision seen through outages and hidden tabs, the cap note is true, the sync's glyph stops |
| `cascade`, `update_replay`, `pull_listing` | one property each | violated: see section 6 |

Bounds, and why they are enough:

- `scheduler`: generations 0..6, two legacy ticks. Every start after a pause and every adopted tick
  takes one generation, so three complete pause/start rounds fit before the counter's last value,
  which is itself reached. The theorems remove the bound.
- `pull_request`: a debounce of 2 in 5 seconds, 4 revisions: a window opens, coalesces, closes and
  opens again, and a push can fall between any two steps of two successive syncs. Every step may run
  twice or fail terminally, landed or not. One page sync is followed, which meets webhook syncs,
  merges and closes of the same object; two sync at once give ten million states and nothing new.
- `reconcile`: one pull request of one repository, one tick of the clock and a debounce of one, two
  revisions, two outbox rows. Fences compare one instant with another, so before, equal and after are all there; two
  sweepers share the outbox; a row is pruned, synced again and pruned again; the sync a reconcile asks
  for is answered at once, or put off. `ReconcileCatchesUp` is about the delivery that is lost: the
  reconcile is what makes up for it. It is about reconciles whose syncs succeed and whose repository
  stays (no fault of an object's step, no revocation): a sync that fails leaves its pull request as it
  was, which the reconcile reports, and one that finds its repository gone drops the row.
- `access`: as above with no debounce, one outbox row, and a repository that may leave and return any
  number of times, with status events of its commits. A tick and a revision after the sweep's fence
  are what a close has to spare, and one cascade is enough to queue the close that may be late.
- Sweeps treat every pull request alike, and pull requests of a sweep meet only in the outbox, where
  an acknowledgement by id is what matters; one pull request queued twice exercises it.
- `bulk_action`: every way up to four targets share repositories and two batches of five that make a
  repository wait two rounds, two in flight at a time, two cancellations (one swallowed, one acted
  on), and requests that are refused: empty, a target twice, too many.
- `github_mutation`: three waits as in the code, two retries, two crashes, two pushes: the write can
  be lost, replayed and replayed again with the head moving in between. The theorems remove these
  bounds.
- `repository_listing`: five items in pages of two, three changes: two shifts and a clean pass.
- `follower`: two pull requests and two batches, so that a batch is queued, opened or retried over
  the follow of another; two submission attempts, so that a first one overtakes, or is overtaken by,
  the second; two empty polls before an id is given up; and one event out of a lost answer, a row
  that closes, a batch opened by id and expired credentials, each of which falls anywhere.
- `page`: one filter that matches a row and one that matches more than a batch takes, a poll every
  second tick, one write, one outage or expiry, two gestures, two misses (the threshold). Every pair
  of a read, a poll, a gesture and an outage crosses; the theorems remove these bounds.

The theorems of section 5 remove the bounds of every run for its invariants and for what a step may
do, under the hypotheses stated there; the one exception is `ReconcileCatchesUp`.

Deadlock is checked for the scheduler and the page, which never stop. The other models end: a settled
step, an accepted listing, an ended workflow and a follow that is over have nothing left to do, and
the clock and the revisions of the object models are bounded.

## 4. Fairness

- `Scheduler`: strong fairness of each generation's ticks, since Restate delivers every message it
  holds and serves an object's inbox in order; weak fairness of `WorkEnds`, since each step of a
  sweep gives up in bounded time.
- `BulkAction`: weak fairness of the workflow (every call answers or fails) and strong fairness of
  the record succeeding: its step is retried without limit and the store is assumed to come back.
- `GithubMutation`: weak fairness of the step: Restate runs it until its result is journaled.
- `Listing`: weak fairness of reading and of starting over; changes are bounded, so the collection
  keeps still in the end. Without that the listing's time limit ends it, as a failed sweep.

- `BatchFollower`: weak fairness of the tasks' steps, of the server's answers and of Restate's runs:
  the browser's event loop runs what is ready, a call is answered or times out, and Restate runs what
  it has taken. Nothing is assumed of the user, of rows closing or of workflows being retired.
- `Page`: weak fairness of the clock's tick, of a poll coming back (answered or not) and of an outage
  ending. `SyncEnds` is about a tab that is seen again and again (`[]<><<VisibleTick>>_vars`): a
  hidden one does not count the ticks of a sync. Reads and the user are not fair. The premise leaves
  out a page that is signed out for good: its loop breaks (`live.rs:304`, `live.rs:332`) without
  `end_sync`, no tick comes any more, and a glyph that was spinning spins on.

## 5. Proofs

`SchedulerProofs`, for every width of the counter and any number of legacy ticks
(`BoundsAssumption`: both bounds are naturals): `TypeCorrect`, `OneChainHolds`,
`StaleTicksStayDeadHolds`, `ImplementsChain`. The inductive invariant `ChainInv` is `TypeOK`,
`OneChain` and `NoTickAhead`: no tick carries a generation the counter has not reached. `OneChain`
alone is not inductive: a start after a pause and the adoption of a legacy tick move to the next
generation and send a tick of it, and only `NoTickAhead` makes that tick the only one. Refinement
follows step by step: arming with no live tick is `Arm`, pause and purge are `Stop`, everything else
stutters.

`GithubProofs`, of the client's two halves. Of GithubMutation, for any number of waits, retries,
crashes and pushes (`MutationAssumption`: the bounds are naturals, the operations among the three):
`AtMostOnceHolds`,
`LandedMergeIsNotDeniedHolds`, `SucceededIsRealHolds`, `TypeCorrect`. `MutationInv` adds to the properties `LandedShows` (a write that landed is visible where its operation looks for it, and
no attempt is about to send a second one), `ScansComments` (only comments scan) and `OutcomeAtEnd`.
Without `LandedShows` nothing ties the history to what the next attempt reads. Two lemmas carry the
classification: an error answer is never a success, and an outage (rate limit, 5xx, 401) is never a
rejection. `TypeCorrect` needs `MutationInv` too: that marked comments stay few follows from their
being at most the one that landed. Of Listing, for any items, page size and bound on the changes
(`ListingAssumption`): `ListingTypeCorrect`, `ListedIsCompleteOrSwappedHolds` and
`ListedIsCompleteIfNoneLeft`, on `ListingInv`. What an accepted listing holds is all decided by its
first total and its last page. `TotalsTell`: as long as items only leave, or only join, the length of
the collection tells whether one did since the first page, and if none did then what was read is
still there; `NothingSlips`: while none leaves, whatever stands in a position that was read was read,
or has joined. `ListingTypes` bounds how far the reading has got. What the fold adds up only decides
when to stop, so nothing need be proved of the sum.

`PageProofs`, for any filters, caps, tick counts and thresholds (`PageAssumption`: they are naturals,
the thresholds positive, the matches finite): `TypeCorrect`, `RowsCatchUpHolds`,
`CapNoteIsTrueHolds`. The inductive invariant `RowsInv` of the second adds three facts to the type:
`RevisionsFollow`, that no answer, in flight or applied, is ahead of the projection, nor a poll behind
the one before it; `ReadsFollow`, that the read in flight is for the filter in force and, once served
after the refresh saw the rows move, no older than what it saw; and `SignedOutIsRefused`, that a
signed-out page has credentials the server refuses, without which a read that is never asked would
leave rows behind for good. `TypeOK` alone says nothing of what a read in flight will bring.

`PullRequestProofs`, of the system of ManualSync (PullRequest with any number of page syncs), for any
pull requests, debounce, bounds, events and faults (`PullRequestAssumption`): `TypeCorrect`,
`TrailingSyncScheduledHolds`, `SnapshotIsRowHolds`, `RecordsRunForwardHolds`, `RowIsFreshHolds`,
`QuietAgreesHolds`, each on an invariant of its own. What holds of the objects whoever they are composed
with (types, frames, what never runs back, the steps of the first three invariants) is in
`PullRequestLemmas`, which `ReconcileProofs` builds on as well.

- `FlagInv`. `TrailingSyncScheduled` is not inductive: the trailing sync might itself be debounced
  when it arrives, and consumed with the flag still set. `PendingTrails` says why it is not: it comes
  due no earlier than the window of the last sync ends, and an object with a pending flag is not in
  the middle of a sync that could move that window. `StampsArePast` is what puts the due second of a
  new trailing sync past the window.
- `RowFollows`. Between the row's write and the object's the two differ, so the agreement is stated
  of every object that is not in a writing step, not only of one at rest.
- `RecordsRun`. That no row or snapshot is replaced by an older record needs to be known before the
  write: a sync under way has read (`ReadsArePast`) no less than the row and the snapshot show, whether
  it is to stamp or to write, and wherever it is run again from.
- `FollowInv`. `RowIsFresh` speaks of one step; what makes it true starts when the id is minted.
  `Unused`: an id nobody was handed is in no message, no handler and no object. `Answers`: what the
  sync under the id read from GitHub is no older than the request, and once that sync completed the
  same holds of any *other* sync that has yet to write the row, and of the row unless it is gone. An
  older read can therefore overwrite the row before the completion, never after.

- `NewsInv`. `QuietAgrees` speaks of objects at rest that nothing is on its way to. `Current` is what
  holds of an object in the middle of a handler when nothing is on its way: what it has read, and is
  to stamp or write, is GitHub's revision, and what it is to drop GitHub has not open. It is stated
  whether or not the object failed before, since one success has to make up for that. `ClosesHold`
  keeps a close that is on its way true, and `FlagInv` lets a coalesced event vanish only behind a
  trailing sync. The theorem assumes that no delivery is lost or overtakes a later one
  (`lost_webhook`, `late_close`): only a sweep makes up for those, and without one TLC finds the
  property violated under either.

`ReconcileProofs`, of the sweeps over any repositories and pull requests, on the same assumptions and
`ReconcileAssumption`:

- `SweepTypeCorrect`, for any events and faults, on `SweepInv`. The types are not inductive alone: what
  a prune writes is well typed because its rows have their repository (`RowHasRepository`, the
  schema's foreign key).
- `TrailingSyncSurvivesSweeps`, `RowIsSnapshotOrGone` and `RecordsRunForwardUnderSweeps`, for any events
  and faults: what the objects promise with the sweeps beside them. A sweep deletes rows and adds
  messages and touches nothing else of the objects' (`SweepRows`), so a pending flag keeps its sync and
  records run forward; a row and its object come apart in one way only, the row gone and the object
  not yet told, and `LostRowIsRetired` is about the telling.
- `CloseSparesNewerHolds`, for any events and faults, on `FenceInv`. A fence has to be followed from
  the clock that was read, through the listing, to the prune, the outbox and the message: at each
  stage `Fenced` says that every record of the pull request there is (row, snapshot, what a sync is
  about to write) either carries the fence's second or a later one, or shows no more than the listing
  could have seen.
- `PruneSparesNewerHolds`, on `SightInv`, which adds to `FenceInv` that a repository a cascade has
  found out of the listing is still out of sight (`OutOfSight`). The hypothesis is that no repository
  is regained (`"grant"`): the cascade looks at no row's stamp, and spares what is newer only because
  nothing newer can have been read. It cannot be dropped: of a repository that returns after the
  listing and whose pull request is pushed and synced, the cascade takes the newer row (section 6).
- `LostRowIsRetiredHolds` and `PurgeForgetsHolds`, on `LostInv`. An acknowledgement deletes outbox
  rows by id, its own sweep's or another's, and a drain's result may be lost; so `AckCovered` says of
  every row about to be acknowledged that its close is on its way, or being handled, or was answered
  by an object that holds nothing the close would retire. `RowsNotOlder` makes a fence that spares the
  object one that would have spared the row. The hypotheses are that no store step
  of an object is refused for good, or fails although it landed (`StoreKeepsItsWord`; a sweep's steps
  may), and that no repository is taken away (`"revoke"`): with a revocation the cascade's unfenced
  delete and its fenced close break both properties (section 6, `cascade`). None of the three can be
  dropped: for each TLC finds a behaviour that breaks the property.

`BulkActionProofs`, for any set of requests, concurrency and number of cancellations
(`BulkActionAssumption` and nothing else): `TypeCorrect`, `MergesSerialisedHolds`,
`RepositoriesTakeTurnsHolds`, `AttemptedIsCompleteHolds`, `EndedIsAccountedForHolds`, all on `BulkInv`.

- `PlanInv` and `ProgressInv` tie the queues to what is published: a target is published as queued
  exactly as long as its queue, or a later round, has it; one that runs has its call in flight. That a
  merge's predecessors are settled, and that the finish has a verdict for each target, follow.
- `TurnsInv` is what makes the turns inductive. `RepositoriesTakeTurns` compares two rounds that were
  sent; between them the fact to keep is that a repository which waits has been served since, or is
  nearer to the starting queue (`Ahead`, a distance around the ring) than the one that was. The
  modular arithmetic stays in the lemmas about one round.
- `Counts` says that the tally is the number of targets with each verdict, and that a batch is
  complete when they are all of its targets.
- `RecordInv` follows the two rows of the batch through every step at which a cancellation or a lapse
  of the store may end it.

`BatchFollowerProofs`, for any number of pull requests, batches, submission attempts, empty polls and
events (`FollowerAssumption`): `TypeCorrect`, `SaidIsTrueHolds`, `SelectionLeavesForTakenHolds`,
`ShownIsRestatesHolds`, all on `FollowerInv`. `ShownIsRestates` says what is on screen; the tasks
bring what they hold to the screen, so `FollowInv` says it of each task: there is one, it follows what
is shown, and what it holds is the page's snapshot, or Restate's word (`Shows`). The hard part is what
the page names as left out: it takes the first submission's receipt for the whole batch, and
`TaskInv` says why it may. A task still at its first attempt has sent no other submission, so the one
on the wire is the one Restate took; from the second attempt on no receipt counts. `WorldInv` (ids are
minted in order, a run is of rows the page queued) and `WireInv` (a submission accepted is of a batch
Restate has) carry it through the server.

Only model-checked: every liveness property (`ChainKeepsSweeping`, `UncancelledIsRecorded`,
`StepSettles`, `ListingEnds`, `FollowEnds`, `SyncEnds`), since the prover has no reasoning about
fairness and ENABLED, and `ReconcileCatchesUp`: it is about a handler's call from its send to its
return, and no proof of it has been written.

Not claimed, since TLC refutes it: `LostRowIsRetired` and `PurgeForgets` under an object's store step
that is refused or lands and still fails (the object's next handler that succeeds puts it right), and
`PruneSparesNewer` under a repository that is regained.

## 6. Where code and documents disagree

- **`cascade`**: a repository that leaves cascades *all* its pull requests, while the close queued for
  each is fenced. An object synced in the second the sweep started, or later, loses its row and keeps
  its snapshot, and with the row gone nothing queues it again. `spec.md:732-735` says no object keeps
  serving such a snapshot. Of a repository that returns behind the listing the same cascade takes rows
  newer than the listing could have seen, until the reconciles of the next sweep bring them back.
- **`update_replay`**: a branch update lands, the process dies, and the replay, whose verify read sees
  the head its own write moved, reports `StaleSha`. The run allows no retry within one process, so the
  crash alone does it. `spec.md:550-555` asks for merge's treatment.
- **`pull_listing`**: a pull request closed between two pages moves another across the page boundary,
  where it is never listed; `repo_sync.rs:204-205` requires a complete listing for retention. The
  damage lasts until the next reconcile.

Four more were met while modelling the page. No run is spent on them: each is a consequence of one
line, which the model has as the code does.

- `poll_answered` and `poll_missed` (`dashboard_state.rs:331-342`) set the connection whatever it was,
  so a poll sent before the credentials expired puts a signed-out page back online when it is
  answered, where `dashboard_state.rs:288-293` says nothing more is asked until the page is reloaded.
- `BatchOutcome::NotSubmitted` is documented as a batch Restate never took (`batch.rs:344`); a
  submission still on its way when the attempts ran out is taken after the page said so. This is why
  `SelectionLeavesForTaken` has one direction only.
- `queue_batch` (`active_batch.rs:264-266`) promises that rows leave the selection once Restate has
  the batch; a follow that is taken over while it submits is dropped, and its rows stay selected
  while the batch runs.
- A batch that fails or is cancelled before completing is polled until its workflow is retired: its
  progress is never complete, and only an id nobody vouches for is given up.

Met while modelling, and not disagreements: a follow of a batch that was retired while the page slept
polls on (`OutlivedBy`, which `FollowEnds` excepts). A page's sync whose completion id is dropped with
the object's state, by a close and a reopening between two polls, times out although it completed.
The glyph of a sync asked for before the credentials expired is never stopped (section 4).
The rows of a filter just left can be ticked while the next filter's answer is in flight. In the
service: a store step that lands and still ends terminally
(`gave_up`) leaves row and snapshot apart until a handler succeeds: `SnapshotIsRow` and `QuietAgrees`
are about objects where none has failed since the last success (`failed`). A cancellation delivered during `start_batch`, or a rebase's call, is taken for that step's
failure. A comment's replay after Dependabot already rebased is a `StaleSha` rejection, since the head
is checked before the markers. `update_branch`'s read-back takes anybody's push for its own, which is
why `SucceededIsReal` is about merges and comments. A repository that joins while another leaves
during a listing goes unnoticed, which `spec.md:713-715` accepts.

## 7. Not modelled, and the plan

Not modelled: presentation (`format`, rows, bars, the drawers' own state), the URL and the browser's
history, the adapters of restate-ext, HTTP and GraphQL plumbing, the SQL of the read side (filters,
facets, cursors), migrations, the webhook receiver's signature check.

The token cache (`crates/github/src/auth.rs`) was tried: two requesters that share tokens which age,
expire and are revoked, under a paged listing. The product has over ten million states at the
smallest bounds where a listing can shift, and alone it has little to say beyond its code.

Next, in this order:

1. The web edge: deliveries, redeliveries and timeouts in front of `WebhookIngress`.
2. Healing: under fair sweeps the projection comes to agree with GitHub although webhooks are lost.
   BulkAction composed with the objects it calls.
3. Keyset pages over a changing projection; the URL; migrations; the roll-up of checks.
4. Proofs: `RowIsFresh` and `QuietAgrees` with the sweeps beside the objects.

## 8. Running

```
tlc -workers 2 -config MCScheduler.cfg MCScheduler     # likewise for each run of PROJECT.json
tlapm SchedulerProofs.tla
tlapm GithubProofs.tla
tlapm PageProofs.tla
tlapm PullRequestLemmas.tla
tlapm PullRequestProofs.tla
tlapm ReconcileProofs.tla
tlapm BulkActionProofs.tla
tlapm BatchFollowerProofs.tla
```
