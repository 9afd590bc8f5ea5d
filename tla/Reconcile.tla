----------------------------- MODULE Reconcile -----------------------------
(***************************************************************************)
(* The sweeps that make the projection authoritative: InstallationSync's   *)
(* sync_now and purge, RepoSync's reconcile and sync_sha, the prunes they  *)
(* run in the store and the retirement outbox that tells the PullRequest   *)
(* objects (installation_sync.rs, repo_sync.rs, retirement.rs of           *)
(* apps/restate-service, reconcile.rs of crates/store), composed with the  *)
(* PullRequest objects.                                                    *)
(*                                                                         *)
(* The installation's object and each repository's run concurrently, with  *)
(* each other and with every pull request's: a sweep's steps interleave    *)
(* with webhooks and with another sweep's drain.                           *)
(***************************************************************************)
EXTENDS PullRequest, FiniteSetsExt

CONSTANTS
    Installation,    \* the InstallationSync object
    MaxRetirements   \* bound: prunes that queue a retirement

ASSUME ReconcileAssumption ==
    /\ Installation \notin Repositories
    /\ MaxRetirements \in Nat

Sweepers == Repositories \cup {Installation}

VARIABLES
    sweep,       \* sweep[s]: the sweep the object s is in the middle of
    outbox,      \* pull_request_retirements
    last_id,     \* the outbox's AUTOINCREMENT sequence
    reconciles,  \* RepoSync.reconcile sends on their way
    installed    \* whether the App is installed at all

sweepVars == <<sweep, outbox, last_id, reconciles>>
vars == <<prVars, sweepVars, installed>>

PullsOf(r) == {p \in PullRequests : RepoOf[p] = r}

\* No sweep.  A sweep's fence is the second it started in; its listing gives
\* live, and seen, a history value: the revision of each pull request then.
Resting == [step |-> "idle", fence |-> 0, live |-> {}, at |-> 0, todo |-> {},
            through |-> 0, seen |-> [p \in PullRequests |-> 0]]

Goes(s, step) == sweep' = [sweep EXCEPT ![s].step = step]

Ends(s) == sweep' = [sweep EXCEPT ![s] = Resting]

-----------------------------------------------------------------------------
(* The store's prunes                                                      *)

\* queue_retirements: what is deleted is queued under its fence in the same
\* transaction.  seen and had are history values: the revision the listing
\* met, and the one the deleted row showed.
queue_retirements(gone, fence, seen) ==
    IF gone = {}
      THEN UNCHANGED <<outbox, last_id>>
      ELSE /\ last_id < MaxRetirements
           /\ last_id' = last_id + 1
           /\ outbox' = outbox \cup
                {[id |-> last_id', pr |-> p, synced_before |-> fence,
                  seen |-> seen[p], had |-> rows[p].rev] : p \in gone}

Delete(gone) == rows' = [p \in PullRequests |-> IF p \in gone THEN None ELSE rows[p]]

\* Mutant: the fence's own second is on the wrong side.
retain_prs_on_late(r, live, fence, seen) ==
    LET gone == {p \in PullsOf(r) \ live : rows[p] # None /\ rows[p].synced_at <= fence}
    IN  /\ Delete(gone)
        /\ queue_retirements(gone, fence, seen)
        /\ UNCHANGED repos

\* retain_prs: the repository's rows that the listing does not show, sparing
\* those synced since the fence.
retain_prs_on(r, live, fence, seen) ==
    LET gone == {p \in PullsOf(r) \ live : rows[p] # None /\ rows[p].synced_at < fence}
    IN  /\ Delete(gone)
        /\ queue_retirements(gone, fence, seen)
        /\ UNCHANGED repos

\* delete_repositories_where: the repositories, and every pull request of theirs.
delete_repositories_where(selected, repositories, fence, seen) ==
    LET gone == {p \in PullRequests : RepoOf[p] \in selected /\ rows[p] # None}
    IN  /\ Delete(gone)
        /\ repos' = [r \in Repositories |->
                       IF r \in selected THEN None ELSE repositories[r]]
        /\ queue_retirements(gone, fence, seen)

\* replace_installation_repos: the listed repositories are upserted, then those
\* not listed and synced before the fence are dropped, in one transaction.
replace_installation_repos(live, at, fence, seen) ==
    LET upserted == [r \in Repositories |-> IF r \in live THEN at ELSE repos[r]]
        selected == {r \in Repositories \ live :
                       upserted[r] # None /\ upserted[r] < fence}
    IN  delete_repositories_where(selected, upserted, fence, seen)

\* purge_installation: everything, with no fence.
purge_installation(seen) ==
    delete_repositories_where({r \in Repositories : repos[r] # None}, repos, None, seen)

\* Mutant: the outbox is emptied, whatever was queued since it was read.
acknowledge_retirements_all(through) == outbox' = {}

acknowledge_retirements(through) ==
    outbox' = {e \in outbox : e.id > through}

-----------------------------------------------------------------------------
(* What every sweep does with its store steps and its drain                *)

\* A prune's step: it lands and is journaled; it lands, is not journaled, and
\* runs again; or it ends the handler in a terminal failure, landed or not.
PruneStep(s, effect, step) ==
    \/ effect /\ Goes(s, step)
    \/ "sweep_lost_result" \in Faults /\ effect /\ UNCHANGED sweep
    \/ "sweep_failure" \in Faults /\ effect /\ Ends(s)

StepFails(s) == "sweep_failure" \in Faults /\ Ends(s)

\* After the drain, an installation sweep fans out to the repositories it
\* listed; a reconcile and a purge have nothing left to do.
AfterDrain(s) ==
    /\ Ends(s)
    /\ reconciles' = IF s = Installation THEN reconciles \cup sweep[s].live ELSE reconciles

\* Mutant: acknowledges one entry more than it read.
last_of_next(pending) == 1 + Max({e.id : e \in pending})

last_of(pending) == Max({e.id : e \in pending})

\* retire_pending reads the outbox, whoever filled it, and sends each pull
\* request its closed, under the fence its own prune recorded.
DrainReads(s) ==
    /\ sweep[s].step = "drain"
    /\ IF outbox = {}
         THEN AfterDrain(s) /\ UNCHANGED mail
         ELSE /\ Sent({ClosedMessage(e.pr, e.synced_before, e.seen) : e \in outbox})
              /\ sweep' = [sweep EXCEPT
                   ![s].step = "ack",
                   ![s].through = last_of(outbox)]
              /\ UNCHANGED reconciles
    /\ UNCHANGED <<clock, githubVars, repos, rows, object, failed, running, outbox, last_id>>

\* The acknowledgement covers exactly what was read.
DrainAcknowledges(s) ==
    /\ sweep[s].step = "ack"
    /\ acknowledge_retirements(sweep[s].through)
    /\ \/ AfterDrain(s)
       \/ "sweep_lost_result" \in Faults /\ UNCHANGED <<sweep, reconciles>>
       \/ StepFails(s) /\ UNCHANGED reconciles
    /\ UNCHANGED <<clock, githubVars, repos, rows, object, failed, running, mail, last_id>>

\* A listing, a prune or a drain step ends the handler, with nothing done.
SweepFails(s) ==
    /\ \/ sweep[s].step \in {"list", "replace", "purge", "drain", "ack"}
       \/ sweep[s].step = "sync" /\ sweep[s].todo = {}
    /\ StepFails(s)
    /\ UNCHANGED <<prVars, outbox, last_id, reconciles>>

-----------------------------------------------------------------------------
(* InstallationSync                                                        *)

\* sync_now, or a tick's sweep: the fence is read before anything is listed.
SyncNow ==
    /\ sweep[Installation] = Resting
    /\ sweep' = [sweep EXCEPT ![Installation].step = "list", ![Installation].fence = clock]
    /\ UNCHANGED <<prVars, outbox, last_id, reconciles>>

\* list_installation_repositories stamps its records before the first page; it
\* cannot be read once the App is uninstalled.
ListRepositories ==
    /\ sweep[Installation].step = "list"
    /\ installed
    /\ \E at \in sweep[Installation].fence..clock :
         sweep' = [sweep EXCEPT ![Installation].step = "replace",
                                ![Installation].live = granted,
                                ![Installation].at = at,
                                ![Installation].seen = [p \in PullRequests |->
                                  IF Visible(p) THEN 0 ELSE rev[p]]]
    /\ UNCHANGED <<prVars, outbox, last_id, reconciles>>

ListRepositoriesFails ==
    /\ sweep[Installation].step = "list"
    /\ ~installed
    /\ Ends(Installation)
    /\ UNCHANGED <<prVars, outbox, last_id, reconciles>>

ReplaceRepositories ==
    LET s == sweep[Installation] IN
    /\ s.step = "replace"
    /\ PruneStep(Installation,
                 replace_installation_repos(s.live, s.at, s.fence, s.seen), "drain")
    /\ UNCHANGED <<clock, githubVars, object, failed, running, mail, reconciles>>

\* purge: the App was uninstalled.
PurgeStarts ==
    /\ ~installed
    /\ sweep[Installation] = Resting
    /\ Goes(Installation, "purge")
    /\ UNCHANGED <<prVars, outbox, last_id, reconciles>>

PurgeProjection ==
    /\ sweep[Installation].step = "purge"
    /\ PruneStep(Installation, purge_installation([p \in PullRequests |-> 0]), "drain")
    /\ UNCHANGED <<clock, githubVars, object, failed, running, mail, reconciles>>

-----------------------------------------------------------------------------
(* RepoSync                                                                *)

ReconcileStarts(r) ==
    /\ r \in reconciles
    /\ sweep[r] = Resting
    /\ reconciles' = reconciles \ {r}
    /\ sweep' = [sweep EXCEPT ![r].step = "list", ![r].fence = clock]
    /\ UNCHANGED <<prVars, outbox, last_id>>

\* list_dependabot_prs; a repository the App lost answers 404, which is fatal.
ListPullRequests(r) ==
    /\ sweep[r].step = "list"
    /\ IF r \in granted
         THEN LET open == {p \in PullsOf(r) : github[p] = "open"} IN
              sweep' = [sweep EXCEPT ![r].step = "sync", ![r].live = open,
                                     ![r].todo = open, ![r].seen = rev]
         ELSE Ends(r)
    /\ UNCHANGED <<prVars, outbox, last_id, reconciles>>

\* Each listed pull request is called in turn ...
CallSync(r) ==
    /\ sweep[r].step = "sync"
    /\ \E p \in sweep[r].todo :
         /\ sweep' = [sweep EXCEPT ![r].step = "await", ![r].todo = @ \ {p}]
         /\ Sent({SyncMessage(p, None, 0, TRUE)})
    /\ UNCHANGED <<clock, githubVars, repos, rows, object, failed, running, outbox, last_id, reconciles>>

\* Mutant: the calls are sent and not awaited.
SyncReturns_unawaited(r) ==
    /\ sweep[r].step = "await"
    /\ Goes(r, "sync")
    /\ UNCHANGED <<prVars, outbox, last_id, reconciles>>

\* ... and awaited; one that failed is remembered and the sweep goes on.
SyncReturns(r) ==
    /\ sweep[r].step = "await"
    /\ \A p \in PullsOf(r) : ~running[p].call
    /\ \A m \in mail : m.kind = "sync" /\ m.call => RepoOf[m.pr] # r
    /\ Goes(r, "sync")
    /\ UNCHANGED <<prVars, outbox, last_id, reconciles>>

RetainPullRequests(r) ==
    LET s == sweep[r] IN
    /\ s.step = "sync"
    /\ s.todo = {}
    /\ PruneStep(r, retain_prs_on(r, s.live, s.fence, s.seen), "drain")
    /\ UNCHANGED <<clock, githubVars, object, failed, running, mail, reconciles>>

\* sync_sha: the pull requests the delivery names and those whose row is at
\* that commit are each sent a sync.
SyncSha(r) ==
    /\ "status" \in Events
    /\ sweep[r] = Resting
    /\ r \in granted
    /\ \E named \in SUBSET PullsOf(r), at \in Revs :
         LET told == named \cup {p \in PullsOf(r) : rows[p] # None /\ rows[p].rev = at} IN
         /\ told # {}
         /\ Sent({SyncMessage(p, None, 0, FALSE) : p \in told})
    /\ UNCHANGED <<clock, githubVars, repos, rows, object, failed, running, sweepVars>>

-----------------------------------------------------------------------------
(* The App's access                                                        *)

GithubRevokes(r) ==
    /\ "revoke" \in Events
    /\ r \in granted
    /\ granted' = granted \ {r}
    /\ UNCHANGED <<clock, github, rev, repos, rows, object, failed, running, mail, sweepVars, installed>>

GithubGrants(r) ==
    /\ "grant" \in Events
    /\ installed
    /\ r \notin granted
    /\ granted' = granted \cup {r}
    /\ UNCHANGED <<clock, github, rev, repos, rows, object, failed, running, mail, sweepVars, installed>>

GithubUninstalls ==
    /\ "uninstall" \in Events
    /\ installed
    /\ installed' = FALSE
    /\ granted' = {}
    /\ UNCHANGED <<clock, github, rev, repos, rows, object, failed, running, mail, sweepVars>>

-----------------------------------------------------------------------------

Init ==
    /\ PrInit
    /\ sweep = [s \in Sweepers |-> Resting]
    /\ outbox = {}
    /\ last_id = 0
    /\ reconciles = {}
    /\ installed = TRUE

SweepNext ==
    \/ SyncNow
    \/ ListRepositories
    \/ ListRepositoriesFails
    \/ ReplaceRepositories
    \/ PurgeStarts
    \/ PurgeProjection
    \/ \E s \in Sweepers : DrainReads(s) \/ DrainAcknowledges(s) \/ SweepFails(s)
    \/ \E r \in Repositories :
         \/ ReconcileStarts(r)
         \/ ListPullRequests(r)
         \/ CallSync(r)
         \/ SyncReturns(r)
         \/ RetainPullRequests(r)
         \/ SyncSha(r)

AccessNext ==
    \/ \E r \in Repositories : GithubRevokes(r) \/ GithubGrants(r)
    \/ GithubUninstalls

Next ==
    \/ PrNext /\ UNCHANGED <<sweepVars, installed>>
    \/ SweepNext /\ UNCHANGED installed
    \/ AccessNext

Spec == Init /\ [][Next]_vars

-----------------------------------------------------------------------------

Sweeps ==
    [step : {"idle", "list", "replace", "purge", "sync", "await", "drain", "ack"},
     fence : Times, live : SUBSET (Repositories \cup PullRequests), at : Times,
     todo : SUBSET PullRequests, through : 0..MaxRetirements,
     seen : [PullRequests -> Revs]]

Retirements ==
    [id : 1..MaxRetirements, pr : PullRequests, synced_before : Times \cup {None},
     seen : Revs, had : Revs]

\* Every fence, stamp and outbox id a sweep carries is one it was given: no
\* acknowledgement reaches past the ids the outbox has handed out.
TypeOK ==
    /\ PrTypeOK
    /\ sweep \in [Sweepers -> Sweeps]
    /\ outbox \subseteq Retirements
    /\ last_id \in 0..MaxRetirements
    /\ reconciles \subseteq Repositories
    /\ installed \in BOOLEAN

\* A pruned row takes its object's state with it: an object at rest that shows
\* a snapshot the table has lost is about to be told, by a close that will
\* retire it, still queued or on its way, or by a sync.  Neither a lost step
\* result, a failed drain nor a second sweep's acknowledgement leaves an object
\* serving a snapshot nobody else has.
LostRowIsRetired ==
    \A p \in PullRequests :
      running[p] = Idle /\ object[p].snapshot # None /\ rows[p] = None =>
        \/ \E e \in outbox : e.pr = p /\ closed_retires(object[p], e.synced_before)
        \/ \E m \in mail : /\ m.pr = p
                          /\ \/ m.kind = "sync"
                             \/ closed_retires(object[p], m.synced_before)

\* Nothing of the installation is left: the purge has run, its outbox is
\* drained and no sweep is under way.
Purged ==
    /\ ~installed
    /\ repos = [r \in Repositories |-> None]
    /\ outbox = {}
    /\ sweep = [s \in Sweepers |-> Resting]

\* An uninstall leaves nothing behind: once its purge is drained and the object
\* has handled what it was sent, neither a row nor a snapshot survives, whatever
\* sync, reconcile or sweep the uninstall overtook.
PurgeForgets ==
    Purged => \A p \in PullRequests :
                Quiet(p) => rows[p] = None /\ object[p].snapshot = None

\* A prune never takes a row that shows more of its pull request than the
\* listing could have seen: a pull request reopened and synced behind the
\* sweep's listing keeps its row.
PruneSparesNewer ==
    \A e \in outbox : e.synced_before # None => e.had <= e.seen

\* ... and neither does the close that follows it, however late it arrives and
\* whichever sweep's drain sends it: an object that has read more than the
\* listing saw stands down.
CloseSparesNewer ==
    \A m \in mail :
      m.kind = "closed" /\ m.synced_before # None =>
        LET o == object[m.pr] IN
        o.snapshot # None /\ o.snapshot.rev > m.seen =>
          ~closed_retires(o, m.synced_before)

\* The debounce has put a sync of p off: the trailing sync is on its way, or
\* has begun.
PutOff(p) ==
    \/ \E m \in mail : m.kind = "sync" /\ m.pr = p /\ m.at > 0
    \/ running[p].step \in {"fetch", "stamp", "write"} /\ ~running[p].call

\* A reconcile makes up for the webhooks that were lost: it waits for each sync
\* it asked for before it prunes, so once it has pruned, every pull request it
\* listed and that has not moved since shows its current state in the table,
\* whatever syncs, closes and drains of other sweeps it crossed, unless the
\* debounce has put that off.
ReconcileCatchesUp ==
    [][\A r \in Repositories :
         sweep[r].step = "sync" /\ sweep'[r].step = "drain" =>
           \A p \in sweep[r].live :
             github[p] = "open" /\ rev[p] = sweep[r].seen[p] /\ Visible(p) =>
               PutOff(p) \/ (rows'[p] # None /\ rows'[p].rev = rev[p])]_vars
=============================================================================
