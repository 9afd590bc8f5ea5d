---------------------------- MODULE PullRequest ----------------------------
(***************************************************************************)
(* The PullRequest virtual object (apps/restate-service/src/               *)
(* pull_request.rs), the projection row it writes through (crates/store)   *)
(* and the GitHub pull request both are copies of.                         *)
(*                                                                         *)
(* Restate runs one handler of an object at a time and re-runs a step      *)
(* whose result it did not journal, so every store step may take effect    *)
(* more than once.  Messages are one-way sends: they are not lost, but     *)
(* senders are independent, so they arrive in any order.                   *)
(***************************************************************************)
EXTENDS Naturals, Sequences

CONSTANTS
    PullRequests,   \* object keys, {repository_id}#{number}
    Repositories,   \* repository ids
    RepoOf,         \* the repository of each pull request
    None,           \* an absent option: no row, no snapshot, no timestamp, no fence
    Debounce,       \* the debounce window, in seconds
    Completions,    \* the completion ids minted for manual syncs
    RetainedSyncIds, \* RETAINED_SYNC_IDS
    MaxTime,        \* bound: the last second the clock shows
    MaxRev,         \* bound: revisions of a pull request at GitHub
    Events,         \* what people and GitHub do in this instance, of AllEvents
    Faults          \* what goes wrong in this instance, of AllFaults

AllEvents ==
    {"merge", "update",  \* a batch calls PullRequest.merge, .update_branch
     "manual_sync",      \* a page syncs one pull request (ManualSync)
     "status",           \* a commit's checks change (RepoSync.sync_sha)
     "revoke", "grant",  \* the App loses a repository, or regains it
     "uninstall"}        \* the App is uninstalled

AllFaults ==
    {"lost_result",     \* a store step lands, the process dies before journaling it
     "refused",         \* a store step fails terminally and has not landed
     "gave_up",         \* a store step lands, and yet ends in a terminal failure
     "github_failure",  \* a GitHub read or mutation ends in a terminal failure
     "sweep_lost_result",  \* the same, of a sweep's store step
     "sweep_failure",   \* a step of a sweep ends in a terminal failure, landed or not
     "lost_webhook",    \* GitHub's delivery never arrives
     "late_close"}      \* a closed delivery is overtaken by those of a reopening

Times == 0..MaxTime
Revs == 0..MaxRev

\* PrRecord, down to what a reader can tell apart and when it was read.
Record == [rev : Revs, synced_at : Times]

ASSUME PullRequestAssumption ==
    /\ RepoOf \in [PullRequests -> Repositories]
    /\ None \notin Nat \cup Record
    /\ Debounce \in Nat
    /\ None \notin Completions
    /\ RetainedSyncIds \in Nat \ {0}
    /\ MaxTime \in Nat
    /\ MaxRev \in Nat
    /\ Events \subseteq AllEvents
    /\ Faults \subseteq AllFaults

VARIABLES
    clock,    \* Unix seconds
    github,   \* github[p]: "open", "closed" or "merged"
    rev,      \* rev[p]: GitHub's revision; a push or a reopening makes a new one
    granted,  \* the repositories the App's installation sees
    repos,    \* repos[r]: synced_at of the repository's row
    rows,     \* rows[p]: the pull request's row
    object,   \* object[p]: PrState
    running,  \* running[p]: the handler the object is in the middle of
    failed,   \* history: the objects where a handler failed and none has succeeded since
    mail      \* one-way sends and calls on their way to objects

githubVars == <<github, rev, granted>>
prVars == <<clock, github, rev, granted, repos, rows, object, running, failed, mail>>

\* PrState; the action history is left out.
PrState == [snapshot : Record \cup {None},
            last_synced_at : Times \cup {None},
            sync_pending : BOOLEAN,
            completed_sync_ids : UNION {[1..n -> Completions] : n \in 0..RetainedSyncIds}]

Cleared ==
    [snapshot |-> None, last_synced_at |-> None, sync_pending |-> FALSE,
     completed_sync_ids |-> <<>>]

sync_id_completed(state, id) ==
    \E i \in DOMAIN state.completed_sync_ids : state.completed_sync_ids[i] = id

\* complete_sync: the last so many, the new one with them.
complete_sync(state, id) ==
    LET ids == IF id = None \/ sync_id_completed(state, id)
                 THEN state.completed_sync_ids
                 ELSE Append(state.completed_sync_ids, id)
        older == IF Len(ids) > RetainedSyncIds THEN Len(ids) - RetainedSyncIds ELSE 0
    IN [state EXCEPT !.completed_sync_ids = SubSeq(ids, older + 1, Len(ids))]

Idle == [step |-> "idle", call |-> FALSE]

\* SyncRequest, with the second it may be delivered from and whether a
\* reconcile awaits it.  Only a manual sync has a completion id, and only it
\* bypasses the debounce.
SyncMessage(p, completion, at, call) ==
    [kind |-> "sync", pr |-> p, completion |-> completion, at |-> at, call |-> call]

Bypasses(m) == m.completion # None

\* ClosedRequest.  seen is a history value: the revision the listing behind a
\* fenced close could have seen, 0 for a close without a fence.
ClosedMessage(p, synced_before, seen) ==
    [kind |-> "closed", pr |-> p, synced_before |-> synced_before, seen |-> seen]

Sent(messages) == mail' = mail \cup messages

\* The handler returns, what it had to do done, or ends in a terminal failure.
HandlerSucceeds(p) ==
    /\ running' = [running EXCEPT ![p] = Idle]
    /\ failed' = failed \ {p}

HandlerFails(p) ==
    /\ running' = [running EXCEPT ![p] = Idle]
    /\ failed' = failed \cup {p}

\* The deliveries a change at GitHub causes: all of them, or none when lost.
Delivered(messages) ==
    \/ Sent(messages)
    \/ "lost_webhook" \in Faults /\ Sent({})

-----------------------------------------------------------------------------
(* The world: time passes and the pull request changes at GitHub.          *)

Tick ==
    /\ clock < MaxTime
    /\ clock' = clock + 1
    /\ UNCHANGED <<githubVars, repos, rows, object, failed, running, mail>>

Visible(p) == RepoOf[p] \in granted

\* pull_request.opened, reopened, synchronize, edited, labeled: WebhookIngress
\* routes each to PullRequest.sync.
GithubChanges(p) ==
    /\ github[p] # "merged"
    /\ rev[p] < MaxRev
    /\ github[p] = "closed" /\ "late_close" \notin Faults =>
         \A m \in mail : ~(m.kind = "closed" /\ m.pr = p)
    /\ github' = [github EXCEPT ![p] = "open"]
    /\ rev' = [rev EXCEPT ![p] = @ + 1]
    /\ IF Visible(p)
         THEN Delivered({SyncMessage(p, None, 0, FALSE)})
         ELSE Sent({})
    /\ UNCHANGED <<clock, granted, repos, rows, object, failed, running>>

ClosedWebhook(p) ==
    IF Visible(p)
      THEN Delivered({ClosedMessage(p, None, 0)})
      ELSE Sent({})

\* pull_request.closed: routed to PullRequest.closed, without a fence.
GithubCloses(p) ==
    /\ github[p] = "open"
    /\ github' = [github EXCEPT ![p] = "closed"]
    /\ ClosedWebhook(p)
    /\ UNCHANGED <<clock, rev, granted, repos, rows, object, failed, running>>

-----------------------------------------------------------------------------
(* PullRequest.sync                                                        *)

should_debounce_sync(bypass, last, now) ==
    /\ ~bypass
    /\ last # None
    /\ now < last + Debounce

Takes(p, m) ==
    /\ running[p] = Idle
    /\ m.pr = p

\* Mutant: the flag is set and the sync it stands for is not sent.
TrailingSync_unsent(p) == {}

\* The sync that stands for every event of the window, once it is over.
TrailingSync(p) == {SyncMessage(p, None, clock + Debounce, FALSE)}

\* Inside the window the first event schedules one trailing sync; the rest
\* coalesce behind it.
SyncDebounced(p, m) ==
    /\ Takes(p, m)
    /\ m.kind = "sync"
    /\ m.at <= clock
    /\ should_debounce_sync(Bypasses(m), object[p].last_synced_at, clock)
    /\ IF object[p].sync_pending
         THEN /\ mail' = mail \ {m}
              /\ UNCHANGED object
         ELSE /\ mail' = (mail \ {m}) \cup TrailingSync(p)
              /\ object' = [object EXCEPT ![p].sync_pending = TRUE]
    /\ UNCHANGED <<clock, githubVars, repos, rows, running, failed>>

\* Mutant: the flag stays as it is.
FlagCleared_never(state, completion) == state

\* Mutant: the sync is recorded as complete before it has read anything.
FlagCleared_completed(state, completion) ==
    complete_sync([state EXCEPT !.sync_pending = FALSE], completion)

FlagCleared(state, completion) == [state EXCEPT !.sync_pending = FALSE]

Fetching(call, completion) == [step |-> "fetch", call |-> call, completion |-> completion]

\* The sync that runs clears the flag before it reads GitHub.
SyncStarts(p, m) ==
    /\ Takes(p, m)
    /\ m.kind = "sync"
    /\ m.at <= clock
    /\ ~should_debounce_sync(Bypasses(m), object[p].last_synced_at, clock)
    /\ mail' = mail \ {m}
    /\ object' = [object EXCEPT ![p] = FlagCleared(@, m.completion)]
    /\ running' = [running EXCEPT ![p] = Fetching(m.call, m.completion)]
    /\ UNCHANGED <<clock, githubVars, repos, rows, failed>>

\* fetch_snapshot reads the pull request: its eligibility and its revision.
\* One that is gone is a 404: not found when the object has read it before,
\* a permissions problem, fatal, otherwise.
FetchReads(p) ==
    /\ running[p].step = "fetch"
    /\ running' = [running EXCEPT ![p] =
         IF Visible(p) /\ github[p] = "open"
           THEN [step |-> "stamp", call |-> running[p].call,
                 completion |-> running[p].completion, rev |-> rev[p]]
           ELSE IF Visible(p) \/ object[p].snapshot # None
                  THEN [step |-> "drop", call |-> running[p].call]
                  ELSE Idle]
    /\ failed' = IF running'[p] = Idle THEN failed \cup {p} ELSE failed
    /\ UNCHANGED <<clock, githubVars, repos, rows, object, mail>>

\* Mutant: stamped with a second that has not come.
Stamped_ahead(read) == [rev |-> read, synced_at |-> clock + 1]

Stamped(read) == [rev |-> read, synced_at |-> clock]

\* ... and stamps the snapshot once its checks have been read too.
FetchStamps(p) ==
    /\ running[p].step = "stamp"
    /\ running' = [running EXCEPT ![p] =
         [step |-> "write", call |-> running[p].call,
          completion |-> running[p].completion,
          record |-> Stamped(running[p].rev)]]
    /\ UNCHANGED <<clock, githubVars, repos, rows, object, failed, mail>>

\* Retried from its start, or given up: the handler fails, the flag stays clear.
FetchFails(p) ==
    /\ "github_failure" \in Faults
    /\ running[p].step \in {"fetch", "stamp"}
    /\ \/ HandlerFails(p)
       \/ /\ running' = [running EXCEPT ![p] = Fetching(@.call, @.completion)]
          /\ UNCHANGED failed
    /\ UNCHANGED <<clock, githubVars, repos, rows, object, mail>>

\* Mutant: a connection that does not enforce foreign keys.
upsert_pr_unchecked(p) == rows' = [rows EXCEPT ![p] = running[p].record]

\* upsert_pr: the row's foreign key wants the repository's row.
upsert_pr(p) ==
    /\ repos[RepoOf[p]] # None
    /\ rows' = [rows EXCEPT ![p] = running[p].record]

\* The row first, then the object's own state.
SyncFinishes(p) ==
    /\ running[p].step = "write"
    /\ upsert_pr(p)
    /\ object' = [object EXCEPT ![p] =
         complete_sync([@ EXCEPT !.snapshot = running[p].record,
                                 !.last_synced_at = running[p].record.synced_at],
                       running[p].completion)]
    /\ HandlerSucceeds(p)
    /\ UNCHANGED <<clock, githubVars, repos, mail>>

\* The store step lands and its result is lost: the step runs again.
UpsertRepeats(p) ==
    /\ "lost_result" \in Faults
    /\ running[p].step = "write"
    /\ upsert_pr(p)
    /\ UNCHANGED <<clock, githubVars, repos, object, failed, running, mail>>

\* Five minutes of a store that refuses, or of a repository row that does not
\* come: the handler fails.
UpsertFails(p) ==
    /\ running[p].step = "write"
    /\ \/ "refused" \in Faults /\ UNCHANGED rows
       \/ repos[RepoOf[p]] = None /\ UNCHANGED rows
       \/ "gave_up" \in Faults /\ upsert_pr(p)
    /\ HandlerFails(p)
    /\ UNCHANGED <<clock, githubVars, repos, object, mail>>

-----------------------------------------------------------------------------
(* PullRequest.closed, and the row every ending drops first.               *)

\* Mutant: the fence's own second is on the wrong side.
closed_retires_strict(state, synced_before) ==
    ~(/\ synced_before # None
      /\ state.last_synced_at # None
      /\ state.last_synced_at > synced_before)

\* A fence stands down for an object synced at or after it.
closed_retires(state, synced_before) ==
    ~(/\ synced_before # None
      /\ state.last_synced_at # None
      /\ state.last_synced_at >= synced_before)

ClosedKept(p, m) ==
    /\ Takes(p, m)
    /\ m.kind = "closed"
    /\ ~closed_retires(object[p], m.synced_before)
    /\ mail' = mail \ {m}
    /\ UNCHANGED <<clock, githubVars, repos, rows, object, failed, running>>

ClosedStarts(p, m) ==
    /\ Takes(p, m)
    /\ m.kind = "closed"
    /\ closed_retires(object[p], m.synced_before)
    /\ mail' = mail \ {m}
    /\ running' = [running EXCEPT ![p] = [step |-> "drop", call |-> FALSE]]
    /\ UNCHANGED <<clock, githubVars, repos, rows, object, failed>>

delete_pr(p) == rows' = [rows EXCEPT ![p] = None]

\* Mutant: a merge that landed keeps the snapshot of what it merged.
Forgotten_not_merged(state, step) == IF step = "drop_merged" THEN state ELSE Cleared

\* What is left of an object: nothing, or all but its snapshot after a merge.
Forgotten(state, step) ==
    IF step = "drop_merged" THEN [state EXCEPT !.snapshot = None] ELSE Cleared

\* The row goes, then the object is forgotten.
Dropped(p) ==
    /\ running[p].step \in {"drop", "drop_merged"}
    /\ delete_pr(p)
    /\ object' = [object EXCEPT ![p] = Forgotten(@, running[p].step)]
    /\ HandlerSucceeds(p)
    /\ UNCHANGED <<clock, githubVars, repos, mail>>

DropRepeats(p) ==
    /\ "lost_result" \in Faults
    /\ running[p].step \in {"drop", "drop_merged"}
    /\ delete_pr(p)
    /\ UNCHANGED <<clock, githubVars, repos, object, failed, running, mail>>

DropFails(p) ==
    /\ running[p].step \in {"drop", "drop_merged"}
    /\ \/ "refused" \in Faults /\ UNCHANGED rows
       \/ "gave_up" \in Faults /\ delete_pr(p)
    /\ HandlerFails(p)
    /\ UNCHANGED <<clock, githubVars, repos, object, mail>>

-----------------------------------------------------------------------------
(* PullRequest.merge and PullRequest.update_branch, as a batch calls them. *)

\* guard_target lets a target through whose expected head is the snapshot's;
\* any other is rejected without a trace.
guard_target(p, expected) ==
    /\ object[p].snapshot # None
    /\ object[p].snapshot.rev = expected

ActionStarts(p, action) ==
    /\ running[p] = Idle
    /\ \E expected \in Revs :
         /\ guard_target(p, expected)
         /\ running' = [running EXCEPT ![p] =
              [step |-> action, call |-> FALSE, expected |-> expected]]
    /\ UNCHANGED <<clock, githubVars, repos, rows, object, failed, mail>>

\* GitHub merges the head it was asked to; the answer may be lost, and the
\* step that runs again is told the pull request is merged already.
MergeLands(p) ==
    /\ running[p].step = "merge"
    /\ Visible(p)
    /\ \/ /\ github[p] = "open"
          /\ rev[p] = running[p].expected
          /\ github' = [github EXCEPT ![p] = "merged"]
          /\ ClosedWebhook(p)
       \/ /\ github[p] = "merged"
          /\ UNCHANGED <<github, mail>>
    /\ \/ running' = [running EXCEPT ![p] = [step |-> "drop_merged", call |-> FALSE]]
       \/ "lost_result" \in Faults /\ github[p] = "open" /\ UNCHANGED running
    /\ UNCHANGED <<clock, rev, granted, repos, rows, object, failed>>

\* update_branch moves the head; the follow-up sync honours the debounce.
UpdateLands(p) ==
    /\ running[p].step = "update"
    /\ Visible(p)
    /\ github[p] = "open"
    /\ rev[p] = running[p].expected
    /\ rev[p] < MaxRev
    /\ rev' = [rev EXCEPT ![p] = @ + 1]
    /\ \/ /\ running' = [running EXCEPT ![p] = Idle]
          /\ Sent({SyncMessage(p, None, 0, FALSE)})
       \/ /\ "lost_result" \in Faults
          /\ UNCHANGED running
          /\ Delivered({SyncMessage(p, None, 0, FALSE)})
    /\ UNCHANGED <<clock, github, granted, repos, rows, object, failed>>

\* Rejected by GitHub, or failed: the state stays as it is.
ActionRejected(p) ==
    /\ running[p].step \in {"merge", "update"}
    /\ github[p] = "merged" => ~Visible(p) \/ "github_failure" \in Faults
    /\ running' = [running EXCEPT ![p] = Idle]
    /\ UNCHANGED <<clock, githubVars, repos, rows, object, failed, mail>>

-----------------------------------------------------------------------------

\* The repositories have been swept; every open pull request has been announced
\* and its first sync is on its way.
PrInit ==
    /\ clock = 0
    /\ github \in [PullRequests -> {"open", "closed"}]
    /\ rev = [p \in PullRequests |-> 0]
    /\ granted = Repositories
    /\ repos = [r \in Repositories |-> 0]
    /\ rows = [p \in PullRequests |-> None]
    /\ object = [p \in PullRequests |-> Cleared]
    /\ running = [p \in PullRequests |-> Idle]
    /\ failed = {}
    /\ mail = {SyncMessage(p, None, 0, FALSE) : p \in {q \in PullRequests : github[q] = "open"}}

ObjectNext(p) ==
    \/ \E m \in mail :
         \/ SyncDebounced(p, m)
         \/ SyncStarts(p, m)
         \/ ClosedKept(p, m)
         \/ ClosedStarts(p, m)
    \/ FetchReads(p)
    \/ FetchStamps(p)
    \/ FetchFails(p)
    \/ SyncFinishes(p)
    \/ UpsertRepeats(p)
    \/ UpsertFails(p)
    \/ Dropped(p)
    \/ DropRepeats(p)
    \/ DropFails(p)
    \/ \E action \in {"merge", "update"} \cap Events : ActionStarts(p, action)
    \/ MergeLands(p)
    \/ UpdateLands(p)
    \/ ActionRejected(p)

WorldNext(p) ==
    \/ GithubChanges(p)
    \/ GithubCloses(p)

PrNext ==
    \/ Tick
    \/ \E p \in PullRequests : ObjectNext(p) \/ WorldNext(p)

PrSpec == PrInit /\ [][PrNext]_prVars

-----------------------------------------------------------------------------

SyncMessages ==
    [kind : {"sync"}, pr : PullRequests, completion : Completions \cup {None},
     at : 0..(MaxTime + Debounce), call : BOOLEAN]

ClosedMessages ==
    [kind : {"closed"}, pr : PullRequests, synced_before : Times \cup {None}, seen : Revs]

Invocations ==
    [step : {"idle"}, call : {FALSE}]
    \cup [step : {"fetch"}, call : BOOLEAN, completion : Completions \cup {None}]
    \cup [step : {"drop"}, call : BOOLEAN]
    \cup [step : {"drop_merged"}, call : {FALSE}]
    \cup [step : {"stamp"}, call : BOOLEAN, completion : Completions \cup {None}, rev : Revs]
    \cup [step : {"write"}, call : BOOLEAN, completion : Completions \cup {None}, record : Record]
    \cup [step : {"merge", "update"}, call : {FALSE}, expected : Revs]

\* Objects, rows and messages hold what PrState, PrRecord and the requests can:
\* no snapshot is stamped with a second that has not come.
PrTypeOK ==
    /\ clock \in Times
    /\ github \in [PullRequests -> {"open", "closed", "merged"}]
    /\ rev \in [PullRequests -> Revs]
    /\ granted \subseteq Repositories
    /\ repos \in [Repositories -> Times \cup {None}]
    /\ rows \in [PullRequests -> Record \cup {None}]
    /\ object \in [PullRequests -> PrState]
    /\ running \in [PullRequests -> Invocations]
    /\ failed \subseteq PullRequests
    /\ mail \subseteq SyncMessages \cup ClosedMessages

\* sync_pending is never left behind: while it is set, the trailing sync that
\* will clear it is on its way, so no failure, close or merge leaves an object
\* that coalesces every later event behind a sync that never comes.
TrailingSyncScheduled ==
    \A p \in PullRequests :
      object[p].sync_pending =>
        \E m \in mail : m.kind = "sync" /\ m.pr = p /\ ~Bypasses(m) /\ m.at > 0

\* A snapshot the object calls its own is one the table shows (run_sync writes
\* the row first): an object at rest and its row agree, whichever handlers ran
\* and whatever steps were run twice.  A step that failed and yet landed may
\* part them; the next handler that succeeds puts that right.
SnapshotIsRow ==
    \A p \in PullRequests \ failed : running[p] = Idle => object[p].snapshot = rows[p]

\* Nothing is on its way to the object and it is at rest.
Quiet(p) == running[p] = Idle /\ \A m \in mail : m.pr # p

\* Once everything GitHub delivered is handled, object and row show what GitHub
\* has: the debounce, a read that a push overtakes, a close or a merge never
\* swallow the last change, and one success makes up for any failures before it.
QuietAgrees ==
    \A p \in PullRequests \ failed : Quiet(p) =>
      IF github[p] = "open"
        THEN rows[p] # None /\ rows[p].rev = rev[p] /\ object[p].snapshot = rows[p]
        ELSE rows[p] = None /\ object[p].snapshot = None
=============================================================================
