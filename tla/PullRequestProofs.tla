-------------------------- MODULE PullRequestProofs --------------------------
(***************************************************************************)
(* For any pull requests, debounce and bounds, any events and faults, and  *)
(* any number of page syncs: the objects' state keeps its type, a pending  *)
(* flag has its sync on its way, an object at rest agrees with its row     *)
(* and, once every delivery is handled, with GitHub, no record gives way   *)
(* to an older one, and a page's sync followed to its end hands back a row *)
(* that has seen it.                                                       *)
(***************************************************************************)
EXTENDS ManualSync, PullRequestLemmas

-----------------------------------------------------------------------------
(* Types                                                                   *)

\* A step is the objects' or their world's, or one of a page's, which sends at
\* most its sync.
LEMMA PageKeeps ==
    ASSUME NEW c \in Completions, Follows(c)
    PROVE  /\ UNCHANGED <<clock, rev, object, running, rows, failed>>
           /\ mail \subseteq mail'
  BY DEF Follows, request_pr_sync, SyncConfirmed, RowRead, RowGone, RowFails, GivesUp,
     prVars, githubVars, Sent

\* The kinds of steps there are.
LEMMA Steps ==
    [Next]_vars => \/ [PrNext]_prVars /\ UNCHANGED follow
                   \/ \E c \in Completions : Follows(c)
  BY DEF Next, vars

\* Every step keeps the type.
LEMMA StepTypeOK == PrTypeOK /\ [Next]_vars => PrTypeOK'
<1> SUFFICES ASSUME PrTypeOK, NEW c \in Completions, Follows(c)
             PROVE  PrTypeOK'
  BY PrStepTypeOK, Steps
<1> USE DEF PrTypeOK
<1>1. ASSUME NEW p \in PullRequests, request_pr_sync(p, c)
      PROVE  PrTypeOK'
  <2>1. SyncMessage(p, c, 0, FALSE) \in SyncMessages
    <3>1. 0 \in 0..(MaxTime + Debounce)
      BY PullRequestAssumption
    <3> QED
      BY <3>1, MessageTypes
  <2> QED
    BY <1>1, <2>1 DEF request_pr_sync, Sent, githubVars
<1>2. ASSUME SyncConfirmed(c) \/ RowRead(c) \/ RowGone(c) \/ RowFails(c) \/ GivesUp(c)
      PROVE  PrTypeOK'
  BY <1>2 DEF SyncConfirmed, RowRead, RowGone, RowFails, GivesUp, prVars
<1> QED
  BY <1>1, <1>2 DEF Follows

\* A page writes no stamp, and GitHub's revision never runs back.
LEMMA StepStampsArePast ==
    PrTypeOK /\ StampsArePast /\ [Next]_vars => StampsArePast'
  BY Steps, PrStepStampsArePast, PageKeeps DEF StampsArePast

\* A page moves no revision.
LEMMA RevRuns ==
    PrTypeOK /\ [Next]_vars => \A p \in PullRequests : rev'[p] >= rev[p]
<1>1. PrTypeOK => \A p \in PullRequests : rev[p] >= rev[p]
  BY PullRequestAssumption DEF PrTypeOK, Revs
<1> QED
  BY <1>1, Steps, PrRevRuns, PageKeeps

\* The objects' state, the rows and the messages are what the requests and the
\* records can hold, and no snapshot is stamped with a second that has not come.
THEOREM TypeCorrect == Spec => []PrTypeOK
<1> QED
  BY PrInitTypeOK, StepTypeOK, PTL DEF Spec, Init
-----------------------------------------------------------------------------
(* The flag and its sync                                                   *)

\* A page sends its sync and takes none away.
LEMMA StepPendingTrails == FlagInv /\ [Next]_vars => PendingTrails'
<1>1. FlagInv /\ UNCHANGED <<object, running>> /\ mail \subseteq mail' => PendingTrails'
  BY DEF FlagInv, PendingTrails, Trails, Syncing
<1> QED
  BY <1>1, Steps, PrStepPendingTrails, PageKeeps

\* sync_pending is never left behind (schedule_sync and run_sync), whatever the
\* debounce, however many syncs, closes, merges and failures come between: while
\* it is set the sync that clears it is on its way, and will not be debounced.
THEOREM TrailingSyncScheduledHolds == Spec => []TrailingSyncScheduled
<1>1. FlagInv /\ [Next]_vars => FlagInv'
  BY StepTypeOK, StepStampsArePast, StepPendingTrails DEF FlagInv
<1>2. FlagInv => TrailingSyncScheduled
  BY DEF FlagInv, PendingTrails, Trails, TrailingSyncScheduled
<1> QED
  BY PrInitFlagInv, <1>1, <1>2, PTL DEF Spec, Init

-----------------------------------------------------------------------------
(* Object and row                                                          *)

\* After a failure the object and its row may stay apart.
RowFollows == \A p \in PullRequests \ failed : Settled(p) => object[p].snapshot = rows[p]

\* Every handler writes the row before the object, and is not at rest between.
LEMMA StepRowFollows == PrTypeOK /\ RowFollows /\ [Next]_vars => RowFollows'
<1> SUFFICES ASSUME PrTypeOK, RowFollows, [Next]_vars
             PROVE  RowFollows'
  OBVIOUS
<1>1. CASE UNCHANGED <<object, running, rows, failed>>
  BY <1>1 DEF RowFollows, Settled
<1>2. ASSUME NEW p \in PullRequests, ObjectNext(p)
      PROVE  RowFollows'
  <2>1. ASSUME NEW q \in (PullRequests \ {p}) \ failed', Settled(q)'
        PROVE  object'[q].snapshot = rows'[q]
    BY <1>2, <2>1, ObjectFrame DEF RowFollows, Settled
  <2>2. ASSUME p \notin failed', Settled(p)'
        PROVE  object'[p].snapshot = rows'[p]
    BY <1>2, <2>2, ObjectSettles DEF RowFollows
  <2> QED
    BY <2>1, <2>2 DEF RowFollows
<1> QED
  BY <1>1, <1>2, WorldKeeps, PageKeeps DEF Next, PrNext, vars, prVars

\* An object at rest and its row agree (run_sync and the endings write the row
\* first), unless a handler of it failed and none has succeeded since: whichever
\* handlers ran, and however often a step of one was run again.
THEOREM SnapshotIsRowHolds == Spec => []SnapshotIsRow
<1>1. Init => PrTypeOK /\ RowFollows
  BY PrInitTypeOK DEF Init, PrInit, RowFollows, Cleared
<1>2. PrTypeOK /\ RowFollows /\ [Next]_vars => (PrTypeOK /\ RowFollows)'
  BY StepTypeOK, StepRowFollows
<1>3. RowFollows => SnapshotIsRow
  BY DEF RowFollows, Settled, SnapshotIsRow, Idle
<1> QED
  BY <1>1, <1>2, <1>3, PTL DEF Spec

\* Whatever a page asks for, the projection shows, and the object keeps, no
\* older record after a newer one (upsert_pr, run_sync): a sync that is run
\* again, retried from its start or given up has read after the one before it.
THEOREM RecordsRunForwardHolds == Spec => [][RecordsRunForward]_vars
<1>1. Init => PrTypeOK /\ RecordsRun
  BY PrInitTypeOK, PrInitRecordsRun DEF Init
<1>2. PrTypeOK /\ RecordsRun /\ [Next]_vars =>
        (PrTypeOK /\ RecordsRun)' /\ RecordsRunForward
  <2> SUFFICES ASSUME PrTypeOK, RecordsRun, NEW c \in Completions, Follows(c), PrTypeOK'
               PROVE  RecordsRun' /\ RecordsRunForward
    BY Steps, StepTypeOK, PrStepRecordsRun
  <2>1. UNCHANGED <<clock, rev, object, running, rows>>
    BY PageKeeps
  <2>2. ASSUME NEW p \in PullRequests
        PROVE  /\ ReadsArePast(p)'
               /\ Overtaken(p, rows[p])'
               /\ Overtaken(p, object[p].snapshot)'
               /\ RunsForward(rows[p], rows'[p])
               /\ RunsForward(object[p].snapshot, object'[p].snapshot)
    <3>1. rev[p] \in Nat /\ clock \in Nat
      BY PullRequestAssumption DEF PrTypeOK, Revs, Times
    <3> QED
      BY <2>1, <3>1, StepRecords DEF RecordsRun, Reads
  <2> QED
    BY <2>2 DEF RecordsRun, RecordsRunForward
<1> QED
  BY <1>1, <1>2, PTL DEF Spec

-----------------------------------------------------------------------------
(* The sync a page follows                                                 *)

FollowTypeOK ==
    follow \in [Completions -> [pc : {"idle", "ended", "row"}]
                               \cup [pc : {"polling", "confirmed"}, pr : PullRequests, asked : Revs]]

\* An id nobody was handed yet is nowhere.
Unused ==
    \A c \in Completions : follow[c].pc = "idle" =>
      /\ \A m \in mail : m.kind = "sync" => m.completion # c
      /\ \A p \in PullRequests :
           /\ ~sync_id_completed(object[p], c)
           /\ Syncing(p) => running[p].completion # c

Asking(c) == follow[c].pc \in {"polling", "confirmed"}

\* The sync completed, by the object's word or as the page already knows.
Completed(c) ==
    \/ follow[c].pc = "confirmed"
    \/ sync_id_completed(object[follow[c].pr], c)

\* What the object reads from GitHub from here on counts for the page.
Serves(c) == Completed(c) \/ running[follow[c].pr].completion = c

\* The sync under the id reads GitHub after the page asked; once it completed,
\* so does every other that has still to write the row.
Answers(c) ==
    LET p == follow[c].pr
        asked == follow[c].asked
    IN  /\ asked <= rev[p]
        /\ running[p].step = "stamp" /\ Serves(c) => asked <= running[p].rev
        /\ running[p].step = "write" /\ Serves(c) => asked <= running[p].record.rev
        /\ Completed(c) => rows[p] = None \/ asked <= rows[p].rev

FollowInv ==
    /\ PrTypeOK
    /\ FollowTypeOK
    /\ Unused
    /\ \A c \in Completions : Asking(c) => Answers(c)

\* Where an id in the object's hands, or in a message, comes from.
LEMMA Lineage ==
    ASSUME PrTypeOK, NEW p \in PullRequests, ObjectNext(p), NEW c \in Completions
    PROVE  /\ sync_id_completed(object'[p], c) =>
                \/ sync_id_completed(object[p], c)
                \/ running[p].step = "write" /\ running[p].completion = c
           /\ Syncing(p)' /\ running'[p].completion = c =>
                \/ Syncing(p) /\ running[p].completion = c
                \/ \E m \in mail : m.kind = "sync" /\ m.completion = c
           /\ \A m \in mail' : m.kind = "sync" /\ m.completion = c => m \in mail
<1> USE DEF PrTypeOK
<1>0. None # c
  BY PullRequestAssumption
<1>1. ASSUME NEW m \in mail,
             SyncDebounced(p, m) \/ SyncStarts(p, m) \/ ClosedKept(p, m) \/ ClosedStarts(p, m)
      PROVE  /\ object'[p].completed_sync_ids = object[p].completed_sync_ids
             /\ Syncing(p)' => m.kind = "sync" /\ running'[p].completion = m.completion
             /\ \A n \in mail' : n.kind = "sync" /\ n.completion = c => n \in mail
  <2>1. object'[p].completed_sync_ids = object[p].completed_sync_ids
    BY <1>1 DEF SyncDebounced, SyncStarts, ClosedKept, ClosedStarts, FlagCleared, PrState
  <2>2. Syncing(p)' => m.kind = "sync" /\ running'[p].completion = m.completion
    BY <1>1 DEF SyncDebounced, SyncStarts, ClosedKept, ClosedStarts, Takes, Fetching, Idle, Syncing
  <2>3. \A n \in mail' : n.kind = "sync" /\ n.completion = c => n \in mail
    BY <1>0, <1>1 DEF SyncDebounced, SyncStarts, ClosedKept, ClosedStarts, TrailingSync, SyncMessage
  <2> QED
    BY <2>1, <2>2, <2>3
<1>2. ASSUME FetchReads(p) \/ FetchStamps(p) \/ FetchFails(p)
      PROVE  /\ UNCHANGED <<object, mail>>
             /\ Syncing(p)' => Syncing(p) /\ running'[p].completion = running[p].completion
  BY <1>2 DEF FetchReads, FetchStamps, FetchFails, HandlerFails, Fetching, Idle, Syncing
<1>3. CASE SyncFinishes(p)
  <2>1. ~Syncing(p)' /\ mail' = mail
    <3>1. running'[p] = Idle
      BY <1>3, Written
    <3>2. mail' = mail
      BY <1>3 DEF SyncFinishes
    <3> QED
      BY <3>1, <3>2 DEF Syncing, Idle
  <2> QED
    BY <1>3, <2>1, Written
<1>4. ASSUME UpsertRepeats(p) \/ UpsertFails(p) \/ DropRepeats(p) \/ DropFails(p)
      PROVE  /\ UNCHANGED <<object, mail>>
             /\ Syncing(p)' => Syncing(p) /\ running'[p].completion = running[p].completion
  BY <1>4 DEF UpsertRepeats, UpsertFails, DropRepeats, DropFails, HandlerFails, Idle, Syncing
<1>5. ASSUME Dropped(p)
      PROVE  /\ mail' = mail
             /\ ~Syncing(p)'
             /\ sync_id_completed(object'[p], c) => sync_id_completed(object[p], c)
  <2>1. mail' = mail /\ ~Syncing(p)' /\ object'[p] = Forgotten(object[p], running[p].step)
    BY <1>5 DEF Dropped, HandlerSucceeds, Idle, Syncing
  <2>2. \/ object'[p].completed_sync_ids = object[p].completed_sync_ids
        \/ object'[p].completed_sync_ids = <<>>
    BY <2>1 DEF Forgotten, Cleared, PrState
  <2> QED
    BY <2>1, <2>2 DEF sync_id_completed
<1>6. ASSUME \/ \E action \in {"merge", "update"} : ActionStarts(p, action)
             \/ MergeLands(p)
             \/ UpdateLands(p)
             \/ ActionRejected(p)
      PROVE  /\ UNCHANGED object
             /\ ~Syncing(p)'
             /\ \A m \in mail' : m.kind = "sync" /\ m.completion = c => m \in mail
  <2>1. UNCHANGED object /\ ~Syncing(p)'
    BY <1>6 DEF ActionStarts, MergeLands, UpdateLands, ActionRejected, Idle, Syncing
  <2>2. \A m \in mail' : m.kind = "sync" /\ m.completion = c => m \in mail
    BY <1>0, <1>6 DEF ActionStarts, MergeLands, UpdateLands, ActionRejected, ClosedWebhook,
       Delivered, Sent, SyncMessage, ClosedMessage
  <2> QED
    BY <2>1, <2>2
<1> QED
  BY <1>1, <1>2, <1>3, <1>4, <1>5, <1>6 DEF ObjectNext, sync_id_completed

\* What the page's own steps do to its record.
LEMMA FollowSteps ==
    ASSUME FollowTypeOK, PrTypeOK, NEW c \in Completions, Follows(c)
    PROVE  /\ FollowTypeOK'
           /\ \A d \in Completions \ {c} : follow'[d] = follow[d]
           /\ \/ /\ follow[c].pc = "idle"
                 /\ follow'[c].pc \in {"polling", "ended"}
                 /\ follow'[c].pc = "polling" => follow'[c].asked = rev[follow'[c].pr]
                 /\ \A m \in mail' : m \in mail \/ m.completion = c
              \/ /\ UNCHANGED prVars
                 /\ follow[c].pc # "idle" /\ follow'[c].pc # "idle"
                 /\ Asking(c)' =>
                      /\ Asking(c)
                      /\ follow'[c].pr = follow[c].pr
                      /\ follow'[c].asked = follow[c].asked
                      /\ Completed(c)' => Completed(c)
<1> USE DEF FollowTypeOK
<1>1. ASSUME NEW p \in PullRequests, request_pr_sync(p, c)
      PROVE  /\ FollowTypeOK'
             /\ \A d \in Completions \ {c} : follow'[d] = follow[d]
             /\ follow[c].pc = "idle"
             /\ follow'[c].pc \in {"polling", "ended"}
             /\ follow'[c].pc = "polling" => follow'[c].asked = rev[follow'[c].pr]
             /\ \A m \in mail' : m \in mail \/ m.completion = c
  <2>1. /\ Polling(p, rev[p]) \in [pc : {"polling", "confirmed"}, pr : PullRequests, asked : Revs]
        /\ Ended("ended") \in [pc : {"idle", "ended", "row"}]
    BY DEF PrTypeOK, Polling, Ended
  <2>2. /\ follow[c].pc = "idle"
        /\ \E taken \in BOOLEAN :
             follow' = [follow EXCEPT ![c] = IF taken THEN Polling(p, rev[p]) ELSE Ended("ended")]
        /\ rev' = rev
    BY <1>1 DEF request_pr_sync, githubVars
  <2>3. FollowTypeOK' /\ \A d \in Completions \ {c} : follow'[d] = follow[d]
    BY <2>1, <2>2
  <2>4. /\ follow'[c].pc \in {"polling", "ended"}
        /\ follow'[c].pc = "polling" => follow'[c].asked = rev[follow'[c].pr]
    BY <2>2 DEF Polling, Ended
  <2>5. \A m \in mail' : m \in mail \/ m.completion = c
    BY <1>1 DEF request_pr_sync, Sent, SyncMessage
  <2> QED
    BY <2>2, <2>3, <2>4, <2>5
<1>2. ASSUME RowRead(c) \/ RowGone(c) \/ GivesUp(c)
      PROVE  /\ FollowTypeOK'
             /\ \A d \in Completions \ {c} : follow'[d] = follow[d]
             /\ follow[c].pc # "idle"
             /\ follow'[c].pc \in {"ended", "row"}
             /\ UNCHANGED prVars
  <2>1. /\ Ended("ended") \in [pc : {"idle", "ended", "row"}]
        /\ Ended("row") \in [pc : {"idle", "ended", "row"}]
    BY DEF Ended
  <2>2. /\ follow[c].pc # "idle"
        /\ UNCHANGED prVars
        /\ \E outcome \in {"ended", "row"} : follow' = [follow EXCEPT ![c] = Ended(outcome)]
    BY <1>2 DEF RowRead, RowGone, GivesUp
  <2> QED
    BY <2>1, <2>2 DEF Ended
<1>3. ASSUME SyncConfirmed(c) \/ RowFails(c)
      PROVE  /\ FollowTypeOK'
             /\ \A d \in Completions \ {c} : follow'[d] = follow[d]
             /\ UNCHANGED prVars
             /\ follow[c].pc # "idle" /\ follow'[c].pc # "idle"
             /\ Asking(c)
             /\ follow'[c].pr = follow[c].pr
             /\ follow'[c].asked = follow[c].asked
             /\ Completed(c)
  <2>1. /\ Asking(c) /\ Completed(c)
        /\ UNCHANGED prVars
        /\ \E pc \in {"polling", "confirmed"} : follow' = [follow EXCEPT ![c].pc = pc]
    BY <1>3 DEF SyncConfirmed, RowFails, Asking, Completed
  <2>2. follow[c] \in [pc : {"polling", "confirmed"}, pr : PullRequests, asked : Revs]
    BY <2>1 DEF Asking
  <2> QED
    BY <2>1, <2>2 DEF Asking
<1> QED
  BY <1>1, <1>2, <1>3 DEF Follows, Asking

\* Only the page that is handed an id brings it into the world.
LEMMA StepUnused ==
    PrTypeOK /\ FollowTypeOK /\ Unused /\ [Next]_vars => Unused' /\ FollowTypeOK'
<1> SUFFICES ASSUME PrTypeOK, FollowTypeOK, Unused, [Next]_vars
             PROVE  Unused' /\ FollowTypeOK'
  OBVIOUS
<1>1. CASE UNCHANGED vars
  BY <1>1 DEF vars, prVars, Unused, FollowTypeOK, Syncing
<1>2. ASSUME Tick \/ \E p \in PullRequests : WorldNext(p), UNCHANGED follow
      PROVE  Unused' /\ FollowTypeOK'
  <2>1. UNCHANGED <<object, running>>
    BY <1>2, WorldKeeps
  <2>2. \A c \in Completions, m \in mail' : m.kind = "sync" /\ m.completion = c => m \in mail
    <3>1. None \notin Completions
      BY PullRequestAssumption
    <3> QED
      BY <1>2, <3>1 DEF Tick, WorldNext, GithubChanges, GithubCloses, ClosedWebhook, Delivered,
         Sent, SyncMessage, ClosedMessage
  <2> QED
    BY <1>2, <2>1, <2>2 DEF Unused, Syncing, FollowTypeOK
<1>3. ASSUME NEW p \in PullRequests, ObjectNext(p), UNCHANGED follow
      PROVE  Unused' /\ FollowTypeOK'
  <2>1. ASSUME NEW c \in Completions, follow[c].pc = "idle", NEW q \in PullRequests
        PROVE  /\ \A m \in mail' : m.kind = "sync" => m.completion # c
               /\ ~sync_id_completed(object'[q], c)
               /\ Syncing(q)' => running'[q].completion # c
    <3>1. CASE q = p
      BY <1>3, <2>1, <3>1, Lineage DEF Unused, Syncing
    <3>2. CASE q # p
      BY <1>3, <2>1, <3>2, Lineage, ObjectFrame DEF Unused, Syncing
    <3> QED
      BY <3>1, <3>2
  <2>2. \A c \in Completions, m \in mail' :
          follow[c].pc = "idle" /\ m.kind = "sync" => m.completion # c
    BY <2>1, <1>3
  <2> QED
    BY <1>3, <2>1, <2>2 DEF Unused, FollowTypeOK
<1>4. ASSUME NEW c \in Completions, Follows(c)
      PROVE  Unused' /\ FollowTypeOK'
  <2>1. UNCHANGED <<object, running>>
    BY <1>4, PageKeeps
  <2>2. \A d \in Completions \ {c} : follow'[d] = follow[d]
    BY <1>4, FollowSteps
  <2>3. follow'[c].pc # "idle"
    BY <1>4, FollowSteps
  <2>4. \A m \in mail' : m \in mail \/ m.completion = c
    BY <1>4, FollowSteps DEF prVars
  <2>5. FollowTypeOK'
    BY <1>4, FollowSteps
  <2> QED
    BY <2>1, <2>2, <2>3, <2>4, <2>5 DEF Unused, Syncing
<1> QED
  BY <1>1, <1>2, <1>3, <1>4 DEF Next, PrNext

\* A handler's step, for a page that follows its object.
LEMMA HandlerAnswers ==
    ASSUME PrTypeOK, FollowTypeOK, NEW c \in Completions, Asking(c), Answers(c),
           ObjectNext(follow[c].pr), UNCHANGED follow,
           rev'[follow[c].pr] >= rev[follow[c].pr]
    PROVE  Answers(c)'
<1> DEFINE p == follow[c].pr
           asked == follow[c].asked
<1>0. /\ p \in PullRequests
      /\ asked \in Nat /\ rev[p] \in Nat /\ rev'[p] \in Nat
      /\ c # None
  <2>1. follow[c] \in [pc : {"polling", "confirmed"}, pr : PullRequests, asked : Revs]
    BY DEF FollowTypeOK, Asking
  <2>2. [Next]_vars
    BY <2>1 DEF Next, PrNext
  <2>3. rev[p] \in Revs /\ rev'[p] \in Revs
    BY <2>1, <2>2, StepTypeOK DEF PrTypeOK
  <2> QED
    BY <2>1, <2>3, PullRequestAssumption DEF Revs
<1>1. asked <= rev'[p] /\ asked <= rev[p]
  BY <1>0 DEF Answers
<1>2. Completed(c)' => Completed(c) \/ (running[p].step = "write" /\ running[p].completion = c)
  <2>1. sync_id_completed(object'[p], c) =>
          \/ sync_id_completed(object[p], c)
          \/ running[p].step = "write" /\ running[p].completion = c
    BY <1>0, Lineage
  <2> QED
    BY <2>1 DEF Completed
<1>3. ASSUME \/ \E m \in mail :
                  SyncDebounced(p, m) \/ SyncStarts(p, m) \/ ClosedKept(p, m) \/ ClosedStarts(p, m)
             \/ DropRepeats(p) \/ DropFails(p)
             \/ Dropped(p)
             \/ \E action \in {"merge", "update"} : ActionStarts(p, action)
             \/ MergeLands(p)
             \/ UpdateLands(p)
             \/ ActionRejected(p)
      PROVE  /\ running[p].step # "write" /\ running'[p].step \notin {"stamp", "write"}
             /\ rows'[p] \in {rows[p], None}
  <2> USE <1>0 DEF PrTypeOK
  <2>1. running[p].step # "write" /\ running'[p].step \notin {"stamp", "write"}
    <3>1. CASE \E m \in mail :
                 SyncDebounced(p, m) \/ SyncStarts(p, m) \/ ClosedKept(p, m) \/ ClosedStarts(p, m)
      <4>1. running[p] = Idle
        BY <3>1 DEF SyncDebounced, SyncStarts, ClosedKept, ClosedStarts, Takes
      <4>2. running'[p] = Idle \/ running'[p].step \in {"fetch", "drop"}
        BY <3>1, <4>1 DEF SyncDebounced, SyncStarts, ClosedKept, ClosedStarts, Fetching
      <4> QED
        BY <4>1, <4>2 DEF Idle
    <3>2. CASE DropRepeats(p) \/ DropFails(p) \/ Dropped(p)
      BY <3>2 DEF DropRepeats, DropFails, HandlerFails, Dropped, HandlerSucceeds, Idle
    <3>3. CASE \/ \E action \in {"merge", "update"} : ActionStarts(p, action)
               \/ MergeLands(p)
               \/ UpdateLands(p)
               \/ ActionRejected(p)
      <4>1. ASSUME NEW action \in {"merge", "update"}, ActionStarts(p, action)
            PROVE  running[p] = Idle /\ running'[p].step = action
        BY <4>1 DEF ActionStarts
      <4>2. CASE MergeLands(p) \/ UpdateLands(p) \/ ActionRejected(p)
        BY <4>2 DEF MergeLands, UpdateLands, ActionRejected, Idle
      <4> QED
        BY <3>3, <4>1, <4>2 DEF Idle
    <3> QED
      BY <1>3, <3>1, <3>2, <3>3
  <2>2. rows'[p] \in {rows[p], None}
    BY <1>3 DEF SyncDebounced, SyncStarts, ClosedKept, ClosedStarts, DropRepeats, DropFails,
       Dropped, delete_pr, ActionStarts, MergeLands, UpdateLands, ActionRejected
  <2> QED
    BY <2>1, <2>2
<1>4. CASE \/ \E m \in mail :
                SyncDebounced(p, m) \/ SyncStarts(p, m) \/ ClosedKept(p, m) \/ ClosedStarts(p, m)
           \/ DropRepeats(p) \/ DropFails(p)
           \/ Dropped(p)
           \/ \E action \in {"merge", "update"} : ActionStarts(p, action)
           \/ MergeLands(p)
           \/ UpdateLands(p)
           \/ ActionRejected(p)
  BY <1>1, <1>2, <1>3, <1>4 DEF Answers
<1>5. CASE FetchReads(p)
  <2>1. /\ running[p].step = "fetch"
        /\ running'[p].step # "write"
        /\ running'[p].step = "stamp" => running'[p].rev = rev[p]
        /\ UNCHANGED <<rows, object>>
    BY <1>0, <1>5 DEF PrTypeOK, FetchReads, Idle
  <2> QED
    BY <1>1, <1>2, <2>1 DEF Answers
<1>6. CASE FetchStamps(p)
  <2>1. /\ running[p].step = "stamp"
        /\ running'[p].step = "write"
        /\ running'[p].completion = running[p].completion
        /\ running'[p].record.rev = running[p].rev
        /\ UNCHANGED <<rows, object>>
    BY <1>0, <1>6 DEF PrTypeOK, FetchStamps, Stamped
  <2> QED
    BY <1>1, <1>2, <2>1 DEF Answers, Serves
<1>7. CASE FetchFails(p)
  <2>1. /\ running[p].step # "write"
        /\ running'[p].step \notin {"stamp", "write"}
        /\ UNCHANGED <<rows, object>>
    BY <1>0, <1>7 DEF PrTypeOK, FetchFails, HandlerFails, Fetching, Idle
  <2> QED
    BY <1>1, <1>2, <2>1 DEF Answers
<1>8. CASE SyncFinishes(p)
  <2>1. /\ running[p].step = "write"
        /\ running'[p].step = "idle"
        /\ rows'[p] = running[p].record
    BY <1>0, <1>8, Written DEF Idle
  <2> QED
    BY <1>1, <1>2, <2>1 DEF Answers, Serves
<1>9. CASE UpsertRepeats(p) \/ UpsertFails(p)
  <2>1. /\ running[p].step = "write"
        /\ running'[p] = running[p] \/ running'[p].step = "idle"
        /\ rows'[p] \in {rows[p], running[p].record}
        /\ UNCHANGED object
    BY <1>0, <1>9 DEF PrTypeOK, UpsertRepeats, UpsertFails, upsert_pr, HandlerFails, Idle
  <2>2. Completed(c)' => Completed(c)
    BY <2>1 DEF Completed
  <2> QED
    BY <1>1, <2>1, <2>2 DEF Answers, Serves
<1> QED
  BY <1>4, <1>5, <1>6, <1>7, <1>8, <1>9 DEF ObjectNext

\* Every step keeps what the page may rely on.
LEMMA StepAnswers ==
    FollowInv /\ [Next]_vars => \A c \in Completions : Asking(c)' => Answers(c)'
<1> SUFFICES ASSUME FollowInv, [Next]_vars, NEW c \in Completions, Asking(c)'
             PROVE  Answers(c)'
  OBVIOUS
<1> USE DEF FollowInv
<1>0. \A p \in PullRequests : rev[p] \in Nat /\ rev'[p] \in Nat /\ rev'[p] >= rev[p]
  BY StepTypeOK, RevRuns, PullRequestAssumption DEF PrTypeOK, Revs
<1>1. ASSUME Asking(c), UNCHANGED <<object, running, rows>>,
             follow'[c].pr = follow[c].pr, follow'[c].asked = follow[c].asked,
             Completed(c)' => Completed(c)
      PROVE  Answers(c)'
  <2>1. follow[c].pr \in PullRequests /\ follow[c].asked \in Nat
    <3>1. follow[c] \in [pc : {"polling", "confirmed"}, pr : PullRequests, asked : Revs]
      BY <1>1 DEF FollowTypeOK, Asking
    <3> QED
      BY <3>1, PullRequestAssumption DEF Revs
  <2> QED
    BY <1>0, <1>1, <2>1 DEF Answers, Serves
<1>2. CASE UNCHANGED vars
  BY <1>1, <1>2 DEF vars, prVars, Asking, Completed
<1>3. CASE (Tick \/ \E p \in PullRequests : WorldNext(p)) /\ UNCHANGED follow
  BY <1>1, <1>3, WorldKeeps DEF Asking, Completed
<1>4. ASSUME NEW p \in PullRequests, ObjectNext(p), UNCHANGED follow
      PROVE  Answers(c)'
  <2>1. Asking(c) /\ Answers(c) /\ follow[c].pr \in PullRequests
    <3>1. Asking(c)
      BY <1>4 DEF Asking
    <3>2. follow[c] \in [pc : {"polling", "confirmed"}, pr : PullRequests, asked : Revs]
      BY <3>1 DEF FollowTypeOK, Asking
    <3> QED
      BY <3>1, <3>2
  <2>2. CASE follow[c].pr = p
    BY <1>0, <1>4, <2>1, <2>2, HandlerAnswers
  <2>3. CASE follow[c].pr # p
    <3>1. /\ object'[follow[c].pr] = object[follow[c].pr]
          /\ running'[follow[c].pr] = running[follow[c].pr]
          /\ rows'[follow[c].pr] = rows[follow[c].pr]
      BY <1>4, <2>1, <2>3, ObjectFrame
    <3>2. follow[c].asked \in Nat
      <4>1. follow[c] \in [pc : {"polling", "confirmed"}, pr : PullRequests, asked : Revs]
        BY <2>1 DEF FollowTypeOK, Asking
      <4> QED
        BY <4>1, PullRequestAssumption DEF Revs
    <3> QED
      BY <1>0, <1>4, <2>1, <3>1, <3>2 DEF Answers, Serves, Completed
  <2> QED
    BY <2>2, <2>3
<1>5. CASE Follows(c)
  <2>1. CASE follow[c].pc = "idle"
    <3>1. /\ follow'[c].pc = "polling"
          /\ follow'[c].asked = rev[follow'[c].pr]
      BY <1>5, <2>1, FollowSteps DEF Asking
    <3>2. follow'[c].pr \in PullRequests
      <4>1. FollowTypeOK'
        BY <1>5, FollowSteps
      <4> QED
        BY <3>1, <4>1 DEF FollowTypeOK
    <3>3. UNCHANGED <<object, running, rows>>
      BY <1>5, PageKeeps
    <3> PICK p \in PullRequests : p = follow'[c].pr
      BY <3>2
    <3>4. ~sync_id_completed(object'[p], c) /\ (Syncing(p)' => running'[p].completion # c)
      BY <2>1, <3>2, <3>3 DEF Unused, Syncing
    <3>5. ~Completed(c)'
      BY <3>1, <3>4 DEF Completed
    <3> QED
      BY <1>0, <3>1, <3>2, <3>4, <3>5 DEF Answers, Serves, Syncing
  <2>2. CASE follow[c].pc # "idle"
    <3>1. /\ UNCHANGED prVars
          /\ Asking(c)
          /\ follow'[c].pr = follow[c].pr
          /\ follow'[c].asked = follow[c].asked
          /\ Completed(c)' => Completed(c)
      BY <1>5, <2>2, FollowSteps
    <3> QED
      BY <1>1, <3>1 DEF prVars
  <2> QED
    BY <2>1, <2>2
<1>6. ASSUME NEW d \in Completions \ {c}, Follows(d)
      PROVE  Answers(c)'
  <2>1. follow'[c] = follow[c]
    BY <1>6, FollowSteps
  <2> QED
    BY <1>1, <1>6, <2>1, PageKeeps DEF Asking, Completed
<1> QED
  BY <1>2, <1>3, <1>4, <1>5, <1>6 DEF Next, PrNext

\* A sync a page followed to its end hands back a row as new as GitHub was when
\* the page asked (request_pr_sync, load_pr_status, load_pr_projection),
\* whatever other syncs, closes, merges and failures of the object come between
\* the three calls.
THEOREM RowIsFreshHolds == Spec => RowIsFresh
<1>1. Init => FollowInv
  <2> SUFFICES ASSUME Init PROVE FollowInv
    OBVIOUS
  <2>1. \A c \in Completions : follow[c].pc = "idle"
    BY DEF Init
  <2>2. FollowTypeOK
    BY DEF Init, FollowTypeOK
  <2>3. Unused
    <3>1. None \notin Completions
      BY PullRequestAssumption
    <3> QED
      BY <3>1 DEF Init, PrInit, Unused, Syncing, Idle, SyncMessage, Cleared, sync_id_completed
  <2> QED
    BY <2>1, <2>2, <2>3, PrInitTypeOK DEF Init, FollowInv, Asking
<1>2. FollowInv /\ [Next]_vars => FollowInv'
  BY StepTypeOK, StepUnused, StepAnswers DEF FollowInv
<1>3. ASSUME FollowInv, [Next]_vars, NEW c \in Completions,
             follow[c].pc = "confirmed", follow'[c].pc = "row"
      PROVE  rows[follow[c].pr].rev >= follow[c].asked
  <2>1. RowRead(c)
    <3>1. ~UNCHANGED follow
      BY <1>3
    <3>2. PICK d \in Completions : Follows(d)
      BY <1>3, <3>1 DEF Next, vars
    <3>3. d = c
      BY <1>3, <3>2, FollowSteps DEF FollowInv
    <3> QED
      <4>1. ~SyncConfirmed(c) /\ ~RowGone(c) /\ \A p \in PullRequests : ~request_pr_sync(p, c)
        BY <1>3 DEF SyncConfirmed, RowGone, request_pr_sync
      <4>2. ~RowFails(c) /\ ~GivesUp(c)
        <5>1. follow[c] \in [pc : {"polling", "confirmed"}, pr : PullRequests, asked : Revs]
          BY <1>3 DEF FollowInv, FollowTypeOK
        <5> QED
          BY <1>3, <5>1 DEF RowFails, GivesUp, Ended, FollowInv, FollowTypeOK
      <4> QED
        BY <3>2, <3>3, <4>1, <4>2 DEF Follows
  <2>2. rows[follow[c].pr] # None
    BY <1>3, <2>1 DEF RowRead, FollowInv, FollowTypeOK, Ended
  <2>3. Asking(c) /\ Completed(c)
    BY <1>3 DEF Asking, Completed
  <2>4. follow[c].asked <= rows[follow[c].pr].rev
    BY <1>3, <2>2, <2>3 DEF FollowInv, Answers
  <2>5. follow[c].asked \in Nat /\ rows[follow[c].pr].rev \in Nat
    <3>1. follow[c] \in [pc : {"polling", "confirmed"}, pr : PullRequests, asked : Revs]
      BY <1>3, <2>3 DEF FollowInv, FollowTypeOK, Asking
    <3>2. rows[follow[c].pr] \in Record
      BY <1>3, <2>2, <3>1 DEF FollowInv, PrTypeOK
    <3> QED
      BY <3>1, <3>2, PullRequestAssumption DEF Record, Revs
  <2> QED
    BY <2>4, <2>5
<1>4. FollowInv /\ [Next]_vars =>
        [\A c \in Completions :
           follow[c].pc = "confirmed" /\ follow'[c].pc = "row" =>
             rows[follow[c].pr].rev >= follow[c].asked]_vars
  BY <1>3
<1> QED
  BY <1>1, <1>2, <1>4, PTL DEF Spec, RowIsFresh

-----------------------------------------------------------------------------
(* The last change at GitHub                                               *)

\* What a handler was told of GitHub and what it left behind is what GitHub
\* has: true of an object that nothing is on its way to.
Current(p) ==
    LET step == running[p].step
        snapshot == object[p].snapshot
    IN  /\ step \in {"idle", "merge", "update"} /\ p \notin failed =>
             IF github[p] = "open"
               THEN snapshot # None /\ snapshot.rev = rev[p]
               ELSE snapshot = None
        /\ step = "stamp" => github[p] = "open" /\ running[p].rev = rev[p]
        /\ step = "write" => github[p] = "open" /\ running[p].record.rev = rev[p]
        /\ step \in {"drop", "drop_merged"} => github[p] # "open"

NoMail(p) == \A m \in mail : m.pr # p

\* A close is on its way only while GitHub has the pull request closed, and no
\* fence stands in its way.
ClosesHold ==
    \A m \in mail : m.kind = "closed" => m.synced_before = None /\ github[m.pr] # "open"

NewsInv ==
    /\ FlagInv
    /\ RowFollows
    /\ granted = Repositories
    /\ ClosesHold
    /\ \A p \in PullRequests : NoMail(p) => Current(p)

\* A handler's step changes GitHub for its own pull request alone, and what it
\* sends goes to its own object.
LEMMA HandlerWorld ==
    ASSUME PrTypeOK, NEW p \in PullRequests, ObjectNext(p)
    PROVE  /\ \A q \in PullRequests \ {p} : github'[q] = github[q] /\ rev'[q] = rev[q]
           /\ github[p] # "open" => github'[p] # "open"
           /\ \A m \in mail' : m.kind = "closed" =>
                m \in mail \/ (m.pr = p /\ m.synced_before = None /\ github'[p] # "open")
<1> USE DEF PrTypeOK
<1>1. ASSUME NEW m \in mail,
             SyncDebounced(p, m) \/ SyncStarts(p, m) \/ ClosedKept(p, m) \/ ClosedStarts(p, m)
      PROVE  /\ UNCHANGED githubVars
             /\ \A n \in mail' : n.kind = "closed" => n \in mail
  BY <1>1 DEF SyncDebounced, SyncStarts, ClosedKept, ClosedStarts, TrailingSync, SyncMessage
<1>2. ASSUME \/ FetchReads(p) \/ FetchStamps(p) \/ FetchFails(p)
             \/ SyncFinishes(p) \/ UpsertRepeats(p) \/ UpsertFails(p)
             \/ Dropped(p) \/ DropRepeats(p) \/ DropFails(p)
             \/ \E action \in {"merge", "update"} : ActionStarts(p, action)
             \/ ActionRejected(p)
      PROVE  UNCHANGED <<githubVars, mail>>
  BY <1>2 DEF FetchReads, FetchStamps, FetchFails, SyncFinishes, UpsertRepeats, UpsertFails,
     Dropped, DropRepeats, DropFails, ActionStarts, ActionRejected
<1>3. CASE MergeLands(p)
  BY <1>3 DEF MergeLands, ClosedWebhook, Delivered, Sent, ClosedMessage
<1>4. CASE UpdateLands(p)
  BY <1>4 DEF UpdateLands, Delivered, Sent, SyncMessage
<1> QED
  BY <1>1, <1>2, <1>3, <1>4 DEF ObjectNext, githubVars

\* The messages an object takes: the flag's sync stays behind an event that is
\* coalesced, a sync that runs has GitHub before it, and a close is true.
LEMMA TakenCurrent ==
    ASSUME NewsInv, NEW p \in PullRequests, NEW m \in mail, NoMail(p)',
           SyncDebounced(p, m) \/ SyncStarts(p, m) \/ ClosedKept(p, m) \/ ClosedStarts(p, m)
    PROVE  Current(p)'
<1> USE DEF NewsInv, FlagInv, PrTypeOK
<1>1. CASE SyncDebounced(p, m)
  BY <1>1, DebouncedTrails DEF NoMail, Trails
<1>2. CASE SyncStarts(p, m)
  BY <1>2 DEF SyncStarts, Fetching, Current
<1>3. CASE ClosedKept(p, m)
  BY <1>3 DEF ClosedKept, closed_retires, ClosesHold
<1>4. CASE ClosedStarts(p, m)
  <2>1. github[p] # "open"
    BY <1>4 DEF ClosedStarts, Takes, ClosesHold
  <2>2. running'[p].step = "drop" /\ github' = github
    BY <1>4 DEF ClosedStarts, githubVars
  <2> QED
    BY <2>1, <2>2 DEF Current
<1> QED
  BY <1>1, <1>2, <1>3, <1>4

\* The steps of the handlers, when nothing else is on its way to the object.
LEMMA HandlerCurrent ==
    ASSUME NewsInv, "lost_webhook" \notin Faults,
           NEW p \in PullRequests, ObjectNext(p), NoMail(p)'
    PROVE  Current(p)'
<1> USE DEF NewsInv, FlagInv, PrTypeOK
<1>0. Visible(p)
  BY PullRequestAssumption DEF Visible
<1>1. CASE \E m \in mail :
             SyncDebounced(p, m) \/ SyncStarts(p, m) \/ ClosedKept(p, m) \/ ClosedStarts(p, m)
  BY <1>1, TakenCurrent
<1>2. ASSUME NEW n, n.pr = p, Delivered({n})
      PROVE  FALSE
  <2>1. mail' = mail \cup {n}
    BY <1>2 DEF Delivered, Sent
  <2> QED
    BY <1>2, <2>1 DEF NoMail
<1>3. CASE MergeLands(p)
  <2>1. ClosedMessage(p, None, 0).pr = p
    BY DEF ClosedMessage
  <2>2. github[p] = "merged" /\ github' = github
    BY <1>0, <1>2, <1>3, <2>1 DEF MergeLands, ClosedWebhook
  <2>3. running'[p].step = "drop_merged"
    BY <1>3, <2>2 DEF MergeLands
  <2> QED
    BY <2>2, <2>3 DEF Current
<1>4. CASE UpdateLands(p)
  <2>1. SyncMessage(p, None, 0, FALSE).pr = p
    BY DEF SyncMessage
  <2>2. ~Delivered({SyncMessage(p, None, 0, FALSE)})
    BY <1>2, <2>1
  <2>3. ~Sent({SyncMessage(p, None, 0, FALSE)})
    BY <2>2 DEF Delivered
  <2> QED
    BY <1>4, <2>2, <2>3 DEF UpdateLands
<1>5. ASSUME \/ FetchReads(p) \/ FetchStamps(p) \/ FetchFails(p)
             \/ SyncFinishes(p) \/ UpsertRepeats(p) \/ UpsertFails(p)
             \/ Dropped(p) \/ DropRepeats(p) \/ DropFails(p)
             \/ \E action \in {"merge", "update"} : ActionStarts(p, action)
             \/ ActionRejected(p)
      PROVE  Current(p)'
  <2>0. UNCHANGED <<github, rev, mail>>
    BY <1>5 DEF FetchReads, FetchStamps, FetchFails, SyncFinishes, UpsertRepeats, UpsertFails,
       Dropped, DropRepeats, DropFails, ActionStarts, ActionRejected, githubVars
  <2>1. Current(p)
    BY <2>0 DEF NoMail
  <2>2. CASE FetchReads(p)
    BY <1>0, <2>0, <2>2 DEF FetchReads, Current
  <2>3. CASE FetchStamps(p)
    BY <2>0, <2>1, <2>3 DEF FetchStamps, Stamped, Current
  <2>4. CASE FetchFails(p)
    BY <2>0, <2>4 DEF FetchFails, HandlerFails, Fetching, Idle, Current
  <2>5. CASE SyncFinishes(p)
    <3>1. /\ running[p].step = "write"
          /\ running[p].record \in Record
          /\ object'[p].snapshot = running[p].record
          /\ running'[p] = Idle
      BY <2>5, Written
    <3>2. running[p].record # None
      BY <3>1, PullRequestAssumption
    <3> QED
      BY <2>0, <2>1, <3>1, <3>2 DEF Idle, Current
  <2>6. CASE UpsertRepeats(p) \/ DropRepeats(p)
    BY <2>0, <2>1, <2>6 DEF UpsertRepeats, DropRepeats, Current
  <2>7. CASE UpsertFails(p) \/ DropFails(p)
    BY <2>0, <2>7 DEF UpsertFails, DropFails, HandlerFails, Idle, Current
  <2>8. CASE Dropped(p)
    <3>1. object'[p].snapshot = None
      BY <2>8 DEF Dropped, Forgotten, Cleared, PrState
    <3>2. github[p] # "open" /\ running'[p] = Idle
      BY <2>1, <2>8 DEF Dropped, HandlerSucceeds, Current
    <3> QED
      BY <2>0, <3>1, <3>2 DEF Idle, Current
  <2>9. CASE \/ \E action \in {"merge", "update"} : ActionStarts(p, action)
             \/ ActionRejected(p)
    <3>1. /\ running[p].step \in {"idle", "merge", "update"}
          /\ running'[p].step \in {"idle", "merge", "update"}
          /\ UNCHANGED <<object, failed>>
      BY <2>9 DEF ActionStarts, ActionRejected, Idle
    <3> QED
      BY <2>0, <2>1, <3>1 DEF Current
  <2> QED
    BY <1>5, <2>2, <2>3, <2>4, <2>5, <2>6, <2>7, <2>8, <2>9
<1> QED
  BY <1>1, <1>3, <1>4, <1>5 DEF ObjectNext

\* A change at GitHub sends what makes the object look again; a reopening waits
\* for the deliveries of the close before it.
LEMMA WorldNews ==
    ASSUME NewsInv, Faults \cap {"lost_webhook", "late_close"} = {},
           NEW p \in PullRequests, WorldNext(p)
    PROVE  ClosesHold' /\ \A q \in PullRequests : NoMail(q)' => Current(q)'
<1> USE DEF NewsInv, FlagInv, PrTypeOK
<1>0. Visible(p)
  BY PullRequestAssumption DEF Visible
<1>1. PICK n : /\ mail' = mail \cup {n}
               /\ n.pr = p
               /\ n.kind = "closed" => n.synced_before = None /\ github'[p] # "open"
  <2>1. CASE GithubChanges(p)
    <3> DEFINE n == SyncMessage(p, None, 0, FALSE)
    <3>1. mail' = mail \cup {n}
      BY <1>0, <2>1 DEF GithubChanges, Delivered, Sent
    <3>2. n.pr = p /\ n.kind = "sync"
      BY DEF SyncMessage
    <3> QED
      BY <3>1, <3>2
  <2>2. CASE GithubCloses(p)
    <3> DEFINE n == ClosedMessage(p, None, 0)
    <3>1. mail' = mail \cup {n}
      BY <1>0, <2>2 DEF GithubCloses, ClosedWebhook, Delivered, Sent
    <3>2. n.pr = p /\ n.synced_before = None
      BY DEF ClosedMessage
    <3>3. github'[p] # "open"
      BY <2>2 DEF GithubCloses
    <3> QED
      BY <3>1, <3>2, <3>3
  <2> QED
    BY <2>1, <2>2 DEF WorldNext
<1>2. /\ UNCHANGED <<object, running, failed>>
      /\ \A q \in PullRequests \ {p} : github'[q] = github[q] /\ rev'[q] = rev[q]
  BY DEF WorldNext, GithubChanges, GithubCloses
<1>3. \A m \in mail : m.kind = "closed" => github'[m.pr] # "open"
  <2> SUFFICES ASSUME NEW m \in mail, m.kind = "closed" PROVE github'[m.pr] # "open"
    OBVIOUS
  <2>1. github[m.pr] # "open" /\ m.pr \in PullRequests
    BY DEF ClosesHold, SyncMessages, ClosedMessages
  <2>2. CASE m.pr # p
    BY <1>2, <2>1, <2>2
  <2>3. CASE m.pr = p
    <3>1. github[p] \in {"open", "closed", "merged"}
      OBVIOUS
    <3>2. ~GithubChanges(p)
      BY <2>1, <2>3, <3>1 DEF GithubChanges
    <3> QED
      BY <2>3, <3>2 DEF WorldNext, GithubCloses
  <2> QED
    BY <2>2, <2>3
<1>4. ClosesHold'
  BY <1>1, <1>3 DEF ClosesHold
<1>5. ASSUME NEW q \in PullRequests, NoMail(q)'
      PROVE  Current(q)'
  <2>1. q # p /\ NoMail(q)
    BY <1>1, <1>5 DEF NoMail
  <2> QED
    BY <1>2, <2>1 DEF Current
<1> QED
  BY <1>4, <1>5

\* Every step keeps it.
LEMMA StepNews ==
    ASSUME NewsInv, Faults \cap {"lost_webhook", "late_close"} = {}, [Next]_vars
    PROVE  NewsInv'
<1> USE DEF NewsInv
<1>1. FlagInv' /\ RowFollows'
  BY StepTypeOK, StepStampsArePast, StepPendingTrails, StepRowFollows DEF FlagInv
<1>2. granted' = granted
  <2>1. \A c \in Completions : Follows(c) => UNCHANGED granted
    BY DEF Follows, request_pr_sync, SyncConfirmed, RowRead, RowGone, RowFails, GivesUp,
       prVars, githubVars
  <2> QED
    BY <2>1, Steps, GrantedKept
<1>3. ASSUME UNCHANGED <<github, rev, object, running, failed>>, mail \subseteq mail',
             \A m \in mail' \ mail : m.kind = "sync"
      PROVE  ClosesHold' /\ \A q \in PullRequests : NoMail(q)' => Current(q)'
  BY <1>3 DEF ClosesHold, NoMail, Current
<1>4. CASE Tick \/ UNCHANGED vars
  <2>1. UNCHANGED <<github, rev, object, running, failed>> /\ mail' = mail
    BY <1>4 DEF Tick, vars, prVars, githubVars
  <2>2. mail \subseteq mail' /\ \A m \in mail' \ mail : m.kind = "sync"
    BY <2>1
  <2> QED
    BY <1>1, <1>2, <1>3, <2>1, <2>2
<1>5. ASSUME NEW p \in PullRequests, WorldNext(p)
      PROVE  ClosesHold' /\ \A q \in PullRequests : NoMail(q)' => Current(q)'
  BY <1>5, WorldNews
<1>6. ASSUME NEW p \in PullRequests, ObjectNext(p)
      PROVE  ClosesHold' /\ \A q \in PullRequests : NoMail(q)' => Current(q)'
  <2>1. PrTypeOK
    BY DEF FlagInv
  <2>2. ClosesHold'
    <3> SUFFICES ASSUME NEW m \in mail', m.kind = "closed"
                 PROVE  m.synced_before = None /\ github'[m.pr] # "open"
      BY DEF ClosesHold
    <3>1. CASE m \in mail
      <4>1. m.synced_before = None /\ github[m.pr] # "open" /\ m.pr \in PullRequests
        BY <2>1, <3>1 DEF ClosesHold, PrTypeOK, SyncMessages, ClosedMessages
      <4> QED
        BY <1>6, <2>1, <4>1, HandlerWorld
    <3>2. CASE m \notin mail
      BY <1>6, <2>1, <3>2, HandlerWorld
    <3> QED
      BY <3>1, <3>2
  <2>3. ASSUME NEW q \in PullRequests \ {p}, NoMail(q)'
        PROVE  Current(q)'
    <3>1. NoMail(q)
      BY <1>6, <2>1, <2>3, ObjectFrame DEF NoMail
    <3>2. /\ object'[q] = object[q] /\ running'[q] = running[q] /\ (q \in failed' <=> q \in failed)
          /\ github'[q] = github[q] /\ rev'[q] = rev[q]
      BY <1>6, <2>1, ObjectFrame, HandlerWorld
    <3> QED
      BY <3>1, <3>2 DEF Current
  <2>4. NoMail(p)' => Current(p)'
    BY <1>6, HandlerCurrent
  <2> QED
    BY <2>2, <2>3, <2>4
<1>7. ASSUME NEW c \in Completions, Follows(c)
      PROVE  ClosesHold' /\ \A q \in PullRequests : NoMail(q)' => Current(q)'
  <2>1. UNCHANGED <<github, rev, object, running, failed>> /\ mail \subseteq mail'
    BY <1>7, PageKeeps DEF Follows, request_pr_sync, SyncConfirmed, RowRead, RowGone, RowFails,
       GivesUp, prVars, githubVars
  <2>2. \A m \in mail' \ mail : m.kind = "sync"
    BY <1>7 DEF Follows, request_pr_sync, SyncConfirmed, RowRead, RowGone, RowFails,
       GivesUp, prVars, Sent, SyncMessage
  <2> QED
    BY <1>3, <2>1, <2>2
<1> QED
  BY <1>1, <1>2, <1>4, <1>5, <1>6, <1>7 DEF Next, PrNext

\* Once everything GitHub delivered is handled, object and row show what GitHub
\* has (PullRequest.sync and .closed under the debounce, run_sync's reads, merge
\* and update_branch): no debounce, overtaken read, lost result, failure that a
\* success followed, close or merge swallows the last change.  A delivery that
\* never arrives, or that overtakes a later one, is a sweep's to put right.
THEOREM QuietAgreesHolds ==
    ASSUME Faults \cap {"lost_webhook", "late_close"} = {}
    PROVE  Spec => []QuietAgrees
<1>1. Init => NewsInv
  <2> SUFFICES ASSUME Init PROVE NewsInv
    OBVIOUS
  <2>1. \A p \in PullRequests : object[p] = Cleared /\ running[p] = Idle /\ rows[p] = None
    BY DEF Init, PrInit
  <2>2. FlagInv /\ RowFollows
    BY <2>1, PrInitFlagInv DEF Init, RowFollows, Cleared
  <2>3. ClosesHold
    BY DEF Init, PrInit, ClosesHold, SyncMessage
  <2>4. ASSUME NEW p \in PullRequests, NoMail(p)
        PROVE  Current(p)
    <3>1. github[p] # "open"
      <4>1. SyncMessage(p, None, 0, FALSE).pr = p
        BY DEF SyncMessage
      <4>2. SyncMessage(p, None, 0, FALSE) \notin mail
        BY <2>4, <4>1 DEF NoMail
      <4> QED
        BY <4>2 DEF Init, PrInit
    <3> QED
      BY <2>1, <3>1 DEF Current, Idle, Cleared
  <2> QED
    BY <2>2, <2>3, <2>4 DEF Init, PrInit, NewsInv
<1>2. NewsInv /\ [Next]_vars => NewsInv'
  BY StepNews
<1>3. NewsInv => QuietAgrees
  <2> SUFFICES ASSUME NewsInv, NEW p \in PullRequests \ failed, Quiet(p)
               PROVE  IF github[p] = "open"
                        THEN /\ rows[p] # None /\ rows[p].rev = rev[p]
                             /\ object[p].snapshot = rows[p]
                        ELSE rows[p] = None /\ object[p].snapshot = None
    BY DEF QuietAgrees
  <2>1. NoMail(p) /\ running[p].step = "idle"
    BY DEF Quiet, NoMail, Idle
  <2>2. object[p].snapshot = rows[p]
    BY <2>1 DEF NewsInv, RowFollows, Settled
  <2> QED
    BY <2>1, <2>2 DEF NewsInv, Current
<1> QED
  BY <1>1, <1>2, <1>3, PTL DEF Spec
=============================================================================
