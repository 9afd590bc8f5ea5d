-------------------------------- MODULE Page --------------------------------
(***************************************************************************)
(* The dashboard's page: the line to the server that every call goes       *)
(* through (guarded_by of apps/web/src/ui/dashboard_state.rs), the refresh *)
(* that keeps the rows current (ui/live.rs), the resource that reads them  *)
(* (ui/dashboard.rs), the selection, Select all matching (ui/pr_table.rs)  *)
(* and Sync (ui/top_bar.rs).                                               *)
(*                                                                         *)
(* The read model is the two counters of its projection_revision row.  A   *)
(* call is served at one moment and answered at a later one, so the        *)
(* answers of two calls may arrive in either order; the credentials may    *)
(* stop being good between them.                                           *)
(***************************************************************************)
EXTENDS Naturals, FiniteSets

CONSTANTS
    Filters,             \* PrFilter
    Matches,             \* the rows each filter matches, as numbers: the list's order
    MaxTargets,          \* MAX_BATCH_TARGETS
    RefreshTicks,        \* REFRESH_TICKS
    SyncFollowTicks,     \* SYNC_FOLLOW_TICKS
    DisconnectThreshold, \* DISCONNECT_THRESHOLD
    MaxSyncs,            \* bound: manual syncs whose requests are out together
    MaxRev,              \* bound: writes of the read model
    MaxUpsets,           \* bound: outages, and credentials that expire
    MaxGestures,         \* bound: what the user does, tabs apart
    MaxMisses,           \* bound: polls in a row that get no answer
    None

ASSUME PageAssumption ==
    /\ \A f \in Filters : IsFiniteSet(Matches[f]) /\ Matches[f] \subseteq Nat
    /\ {MaxTargets, RefreshTicks, SyncFollowTicks, DisconnectThreshold} \subseteq Nat \ {0}
    /\ {MaxSyncs, MaxRev, MaxUpsets, MaxGestures, MaxMisses} \subseteq Nat
    /\ None \notin Nat \cup Filters
    /\ None \notin [filter : Filters, at : Nat \cup {None}]
    /\ None \notin [projection : Nat, pull_requests : Nat]

VARIABLES
    rev,        \* projection_revision
    away,       \* the server, or its store, does not answer
    refusing,   \* the server refuses the page's credentials
    connection, \* the line, as the page's calls last found it
    visible,    \* the tab shows
    refresh,    \* Refresh
    poll,       \* the live refresh: ticking, a poll out, or stopped
    filter,     \* the filter in force
    rows,       \* the rows resource's last answer: the filter and revision read
    reading,    \* its read in flight
    cut,        \* a poll has gone unanswered since the rows' read failed
    selection,  \* Selection
    selecting,  \* the Select all matching in flight
    syncing,    \* a manual sync is in flight
    syncs,      \* the requests of manual syncs that are out
    upsets,     \* the outages and expiries so far
    gestures    \* the user's gestures so far

server == <<rev, away, refusing>>
line == <<connection, visible>>
live == <<refresh, poll>>
table == <<filter, rows, reading, cut>>
picked == <<selection, selecting>>
manual == <<syncing, syncs>>
bounds == <<upsets, gestures>>
vars == <<server, line, live, table, picked, manual, bounds>>

AllRows == UNION {Matches[f] : f \in Filters}

SignedOut == connection = "signed_out"

\* A call is not answered, or is refused: guarded_by then sets the line.
Unanswered == away /\ UNCHANGED connection
Refused == refusing /\ connection' = "signed_out"

\* The server serves a call.
Serving == ~away /\ ~refusing

Upset == upsets < MaxUpsets /\ upsets' = upsets + 1 /\ UNCHANGED gestures

Gesture == gestures < MaxGestures /\ gestures' = gestures + 1 /\ UNCHANGED upsets

-----------------------------------------------------------------------------
(* The rows                                                                *)

\* The resource reads again, dropping the read in flight.  A signed-out page is
\* refused without asking.
Read(f) ==
    IF SignedOut
      THEN rows' = [state |-> "failed", filter |-> f, at |-> 0] /\ reading' = None
      ELSE reading' = [filter |-> f, at |-> None] /\ UNCHANGED rows

\* reload
reload == IF SignedOut THEN UNCHANGED <<rows, reading, cut>> ELSE Read(filter) /\ cut' = FALSE

ReadServed ==
    /\ reading # None /\ reading.at = None
    /\ Serving
    /\ reading' = [reading EXCEPT !.at = rev.projection]
    /\ UNCHANGED <<server, line, live, filter, rows, cut, picked, manual, bounds>>

ReadAnswered ==
    /\ reading # None /\ reading.at # None
    /\ rows' = [state |-> "loaded", filter |-> reading.filter, at |-> reading.at]
    /\ reading' = None
    /\ UNCHANGED <<server, line, live, filter, cut, picked, manual, bounds>>

\* No answer, or a refusal.
ReadFails ==
    /\ reading # None
    /\ Unanswered \/ (reading.at = None /\ Refused)
    /\ rows' = [state |-> "failed", filter |-> reading.filter, at |-> 0]
    /\ reading' = None
    /\ cut' = FALSE
    /\ UNCHANGED <<server, visible, live, filter, picked, manual, bounds>>

\* The error state's Retry.
RetryRead ==
    /\ rows.state = "failed" /\ ~SignedOut
    /\ reload
    /\ Gesture
    /\ UNCHANGED <<server, line, live, filter, picked, manual>>

\* load_next: another page of the same filter, with the selection as it is.
load_next ==
    /\ rows.state = "loaded"
    /\ Read(filter) /\ cut' = FALSE
    /\ Gesture
    /\ UNCHANGED <<server, line, live, filter, picked, manual>>

-----------------------------------------------------------------------------
(* The live refresh                                                        *)

NewRefresh ==
    [since_poll |-> 0, owed |-> TRUE, followed |-> 0, seen |-> None, moved |-> FALSE,
     misses |-> 0, refused |-> FALSE]

\* connection
LineOf(r) ==
    IF r.refused THEN "signed_out"
    ELSE IF r.misses >= DisconnectThreshold THEN "disconnected"
    ELSE "online"

\* Mutant: time spent hidden starts the count of the sync's ticks over.
Followed_restarted ==
    IF ~syncing \/ ~visible THEN 0 ELSE refresh.followed + 1

\* The ticks the manual sync in flight has been followed for, this one included.
Followed ==
    IF ~syncing THEN 0 ELSE IF visible THEN refresh.followed + 1 ELSE refresh.followed

\* A sync has been followed for as long as one is.
Overdue == syncing /\ visible /\ Followed > SyncFollowTicks

\* Mutant: one tick too late.
PollDue_late == refresh.owed \/ syncing \/ refresh.since_poll + 1 > RefreshTicks

PollDue == refresh.owed \/ syncing \/ refresh.since_poll + 1 >= RefreshTicks

\* What the tick leaves of the refresh.
Ticked ==
    IF ~visible THEN [refresh EXCEPT !.followed = Followed, !.owed = TRUE]
    ELSE IF Overdue THEN [refresh EXCEPT !.followed = 0]
    ELSE IF PollDue THEN [refresh EXCEPT !.followed = Followed, !.since_poll = 0, !.owed = FALSE]
    ELSE [refresh EXCEPT !.followed = Followed, !.since_poll = @ + 1]

\* A step is due on a page already signed out, or the refresh was itself refused.
Stops == refresh.refused \/ (SignedOut /\ visible /\ (Overdue \/ PollDue))

\* tick, and the step it says to take.
Tick ==
    /\ poll.pc = "ticking"
    /\ refresh' = IF refresh.refused THEN refresh ELSE Ticked
    /\ IF Stops
         THEN poll' = [poll EXCEPT !.pc = "stopped"] /\ UNCHANGED <<table, syncing>>
         ELSE IF Overdue
         THEN syncing' = FALSE /\ reload /\ UNCHANGED <<poll, filter>>
         ELSE /\ poll' = IF visible /\ PollDue THEN [pc |-> "polling", got |-> None] ELSE poll
              /\ UNCHANGED <<table, syncing>>
    /\ UNCHANGED <<server, line, picked, syncs, bounds>>

VisibleTick == Tick /\ visible

PollServed ==
    /\ poll.pc = "polling" /\ poll.got = None
    /\ Serving
    /\ poll' = [poll EXCEPT !.got = rev]
    /\ UNCHANGED <<server, line, refresh, table, picked, manual, bounds>>

\* Mutant: an answer after a miss is taken for one like any other.
Restored_never == FALSE

\* The answer ends a run of misses.
Restored == refresh.misses > 0

Moved(counter) == refresh.seen # None /\ refresh.seen[counter] # poll.got[counter]

\* observe, and what the live refresh makes of the answer.
PollAnswered ==
    /\ poll.pc = "polling" /\ poll.got # None
    /\ poll' = [pc |-> "ticking", got |-> None]
    /\ refresh' = [refresh EXCEPT !.misses = 0, !.seen = poll.got,
                                  !.moved = @ \/ Restored \/ Moved("projection")]
    /\ syncing' = (syncing /\ ~Moved("pull_requests"))
    /\ IF Restored \/ Moved("projection") THEN reload ELSE UNCHANGED <<rows, reading, cut>>
    /\ connection' = "online"
    /\ UNCHANGED <<server, visible, filter, picked, syncs, bounds>>

\* miss: no answer, or a refusal.
PollMissed ==
    /\ poll.pc = "polling"
    /\ refresh.misses < MaxMisses
    /\ \/ away /\ refresh' = [refresh EXCEPT !.misses = @ + 1]
       \/ /\ refusing /\ poll.got = None
          /\ refresh' = [refresh EXCEPT !.misses = @ + 1, !.refused = TRUE]
    /\ connection' = LineOf(refresh')
    /\ poll' = [pc |-> "ticking", got |-> None]
    /\ cut' = (rows.state = "failed" /\ reading = None)
    /\ UNCHANGED <<server, visible, filter, rows, reading, picked, manual, bounds>>

-----------------------------------------------------------------------------
(* The filter and the selection                                            *)

Nothing == [rows |-> {}, capped_from |-> None]

\* update_filter, and navigate to another filter: the selection goes.
update_filter(f) ==
    /\ filter' = f
    /\ selection' = Nothing
    /\ Read(f) /\ cut' = FALSE
    /\ Gesture
    /\ UNCHANGED <<server, line, live, selecting, manual>>

\* The rows on screen: those last read, while the next read is in flight.
Visible == IF rows.state = "loaded" THEN Matches[rows.filter] ELSE {}

EditSelection(picks) ==
    /\ selection' = [rows |-> picks, capped_from |-> None]
    /\ Gesture
    /\ UNCHANGED <<server, line, live, table, selecting, manual>>

toggle_selected ==
    \E r \in Visible :
      EditSelection(IF r \in selection.rows THEN selection.rows \ {r} ELSE selection.rows \cup {r})

toggle_visible ==
    /\ Visible # {}
    /\ EditSelection(IF Visible \subseteq selection.rows
                       THEN selection.rows \ Visible ELSE selection.rows \cup Visible)

\* A batch the rows were queued in has been accepted.
deselect ==
    \E batch \in SUBSET AllRows :
      /\ batch \cap selection.rows # {}
      /\ EditSelection(selection.rows \ batch)

SelectMatching ==
    /\ Visible # {}
    /\ selecting = None
    /\ ~SignedOut
    /\ selecting' = filter
    /\ Gesture
    /\ UNCHANGED <<server, line, live, table, selection, manual>>

\* load_matching: the first of the rows, as many as one batch takes.
load_matching(f) ==
    {r \in Matches[f] : Cardinality({q \in Matches[f] : q < r}) < MaxTargets}

\* Mutant: the answer is taken whatever it answers.
InForce_always(f) == TRUE

\* The filter has not moved on meanwhile.
InForce(f) == f = filter

select_matching ==
    LET matching == load_matching(selecting)
        total == Cardinality(Matches[selecting])
    IN
    /\ selecting # None
    /\ Serving
    /\ selection' =
         IF InForce(selecting)
           THEN [rows |-> matching,
                 capped_from |-> IF Cardinality(matching) < total THEN total ELSE None]
           ELSE selection
    /\ selecting' = None
    /\ UNCHANGED <<server, line, live, table, manual, bounds>>

SelectFails ==
    /\ selecting # None
    /\ Unanswered \/ Refused
    /\ selecting' = None
    /\ UNCHANGED <<server, visible, live, table, selection, manual, bounds>>

-----------------------------------------------------------------------------
(* The manual sync, and the world                                          *)

SyncPressed ==
    /\ ~syncing
    /\ ~SignedOut
    /\ syncs < MaxSyncs
    /\ syncing' = TRUE
    /\ syncs' = syncs + 1
    /\ Gesture
    /\ UNCHANGED <<server, line, live, table, picked>>

SyncQueued ==
    /\ syncs > 0
    /\ Serving
    /\ syncs' = syncs - 1
    /\ UNCHANGED <<server, line, live, table, picked, syncing, bounds>>

SyncFails ==
    /\ syncs > 0
    /\ Unanswered \/ Refused
    /\ syncs' = syncs - 1
    /\ syncing' = FALSE
    /\ UNCHANGED <<server, visible, live, table, picked, bounds>>

\* A write of a pull request moves both counters, any other the first.
Writes ==
    /\ rev.projection < MaxRev
    /\ \E prs \in {0, 1} :
         rev' = [projection |-> rev.projection + 1, pull_requests |-> rev.pull_requests + prs]
    /\ UNCHANGED <<away, refusing, line, live, table, picked, manual, bounds>>

TabSwitched ==
    /\ visible' = ~visible
    /\ UNCHANGED <<server, connection, live, table, picked, manual, bounds>>

CredentialsExpire ==
    /\ Serving
    /\ Upset
    /\ refusing' = TRUE
    /\ UNCHANGED <<rev, away, line, live, table, picked, manual>>

ServerGoes ==
    /\ Serving
    /\ Upset
    /\ away' = TRUE
    /\ UNCHANGED <<rev, refusing, line, live, table, picked, manual>>

ServerReturns ==
    /\ away
    /\ away' = FALSE
    /\ UNCHANGED <<rev, refusing, line, live, table, picked, manual, bounds>>

\* Some other call of the page, a followed batch's poll say, is refused.
RefusedElsewhere ==
    /\ Refused /\ ~SignedOut
    /\ UNCHANGED <<server, visible, live, table, picked, manual, bounds>>

-----------------------------------------------------------------------------

Init ==
    /\ rev = [projection |-> 0, pull_requests |-> 0]
    /\ away = FALSE
    /\ refusing = FALSE
    /\ connection = "online"
    /\ visible = TRUE
    /\ refresh = NewRefresh
    /\ poll = [pc |-> "ticking", got |-> None]
    /\ filter \in Filters
    /\ rows = [state |-> "loading", filter |-> filter, at |-> 0]
    /\ reading = [filter |-> filter, at |-> None]
    /\ cut = FALSE
    /\ selection = Nothing
    /\ selecting = None
    /\ syncing = FALSE
    /\ syncs = 0
    /\ upsets = 0
    /\ gestures = 0

ChangeFilter == \E f \in Filters : update_filter(f)

Next ==
    \/ ReadServed \/ ReadAnswered \/ ReadFails \/ RetryRead \/ load_next
    \/ Tick \/ PollServed \/ PollAnswered \/ PollMissed
    \/ ChangeFilter \/ toggle_selected \/ toggle_visible \/ deselect
    \/ SelectMatching \/ select_matching \/ SelectFails
    \/ SyncPressed \/ SyncQueued \/ SyncFails
    \/ Writes \/ TabSwitched \/ CredentialsExpire \/ RefusedElsewhere
    \/ ServerGoes \/ ServerReturns

Spec == Init /\ [][Next]_vars

\* The page's clock ticks, a poll comes back, and so does the server.
FairSpec ==
    /\ Spec
    /\ WF_vars(Tick)
    /\ WF_vars(PollServed \/ PollAnswered \/ PollMissed)
    /\ WF_vars(ServerReturns)

-----------------------------------------------------------------------------
(* Properties                                                              *)

\* A write of a pull request is a write of the projection.
Revisions ==
    {r \in [projection : 0..MaxRev, pull_requests : 0..MaxRev] :
       r.pull_requests <= r.projection}

Refreshes ==
    [since_poll : 0..(RefreshTicks - 1), owed : BOOLEAN, followed : 0..SyncFollowTicks,
     seen : Revisions \cup {None}, moved : BOOLEAN,
     misses : 0..MaxMisses, refused : BOOLEAN]

Polls == [pc : {"ticking", "polling", "stopped"}, got : Revisions \cup {None}]

Answers == [state : {"loading", "loaded", "failed"}, filter : Filters, at : 0..MaxRev]

Readings == [filter : Filters, at : (0..MaxRev) \cup {None}]

\* The refresh never lets an interval pass without a poll, nor follows a sync
\* past its time.
TypeOK ==
    /\ rev \in Revisions
    /\ {away, refusing, visible, cut, syncing} \subseteq BOOLEAN
    /\ connection \in {"online", "disconnected", "signed_out"}
    /\ refresh \in Refreshes
    /\ poll \in Polls
    /\ filter \in Filters
    /\ rows \in Answers
    /\ reading \in Readings \cup {None}
    /\ selection \in [rows : SUBSET AllRows, capped_from : Nat \cup {None}]
    /\ selecting \in Filters \cup {None}
    /\ syncs \in 0..MaxSyncs
    /\ upsets \in 0..MaxUpsets
    /\ gestures \in 0..MaxGestures

\* With no read in flight, the rows on screen are for the filter in force, and
\* are no older than the revision the refresh has seen, but for a write between
\* the first read and the first poll (observe's comment): however reads, polls,
\* writes, outages and time spent hidden interleave.  A read that failed before
\* or during an outage does not outlast it.  A page whose credentials are
\* refused keeps what it has.
RowsCatchUp ==
    reading = None /\ ~refusing =>
      /\ rows.filter = filter
      /\ rows.state = "loaded" /\ refresh.seen # None =>
           \/ rows.at >= refresh.seen.projection
           \/ ~refresh.moved
      /\ cut => refresh.misses > 0

\* "So the bar can say so" (select_matching): while the bar says the selection
\* is the first so many of a filter's rows, that is what it is, of the filter in
\* force, whatever the user ticked, filtered or queued while the answer was out.
CapNoteIsTrue ==
    selection.capped_from # None =>
      /\ selection.capped_from = Cardinality(Matches[filter])
      /\ selection.rows = load_matching(filter)

\* The sync glyph does not spin for ever: a manual sync is seen to reach the
\* pull requests, or is given up once it was watched for long enough, however
\* often the tab is left and come back to.
SyncEnds == []<><<VisibleTick>>_vars => []<>(~syncing)
=============================================================================
