---------------------------- MODULE BatchFollower ----------------------------
(***************************************************************************)
(* How the dashboard queues and follows batches: run_batch, follow_batch   *)
(* and poll (apps/web/src/ui/batch.rs), the page that hosts the follow     *)
(* (ui/active_batch.rs), the retry of a finished batch (ui/retry.rs), and  *)
(* the server's end of a submission (submit_batch of api.rs over           *)
(* server/restate.rs).                                                     *)
(*                                                                         *)
(* A follow is one task; an action is what it does between two awaits.  A  *)
(* call that fails says nothing of whether the server acted on it: a       *)
(* submission stays under way after the page has stopped waiting for it.   *)
(* What Restate does with a batch it has (BulkAction) is only what its     *)
(* progress handler and the projection's tables show of it.                *)
(***************************************************************************)
EXTENDS Naturals, FiniteSets, Functions

CONSTANTS
    Rows,            \* pull requests
    SubmitAttempts,  \* SUBMIT_ATTEMPTS
    AttachLimit,     \* ATTACH_LIMIT
    Opened,          \* bound: those the user opens in the drawer and queues alone
    MaxBatches,      \* bound: batches queued
    MaxEvents,       \* bound: batches followed by id alone, calls that get no answer,
                     \*   rows that close elsewhere, credentials that expire
    None

Batches == 1..MaxBatches
Foreign == 0                     \* an id from another deployment, or a stale link
Ids == Batches \cup {Foreign}

\* A verdict is rejected when a fresh attempt can cure it (worth_retrying), and
\* done when nothing is left to try.
Settled == {"done", "rejected"}
Verdicts == Settled \cup {"pending"}

Progresses == UNION {[rows -> Verdicts] : rows \in SUBSET Rows}

FollowedBatches ==
    [batch : Ids, progress : Progresses \cup {None}, heard : BOOLEAN]

ASSUME FollowerAssumption ==
    /\ IsFiniteSet(Rows)
    /\ Opened \subseteq Rows
    /\ {SubmitAttempts, AttachLimit} \subseteq Nat \ {0}
    /\ {MaxBatches, MaxEvents} \subseteq Nat
    /\ None \notin Progresses \cup FollowedBatches

VARIABLES
    open,       \* the pull requests the projection has
    queued,     \* the rows of each batch the page has minted an id for
    restate,    \* what Restate has of each batch
    record,     \* the batch in the projection: not there yet, running, running but
                \*   not there, or finished
    wire,       \* the submissions the server is still at work on
    selected,   \* the page's selection
    shown,      \* BatchHost.followed
    last,       \* the batch taken over last
    followers,  \* the tasks following a batch
    retry,      \* the finished batch whose rejected targets are being refreshed
    signed_out, \* the page's line is Connection::SignedOut
    refusing,   \* the server refuses the page's credentials
    named,      \* the targets the page has said were left out, by batch
    announced,  \* how often each batch was announced complete
    events      \* the events so far that MaxEvents bounds

world == <<open, queued, restate, record>>
page == <<selected, shown, last, followers, retry, signed_out, named, announced>>
vars == <<world, wire, page, refusing, events>>

Event == events < MaxEvents /\ events' = events + 1

Minted == {b \in Batches : queued[b] # {}}

-----------------------------------------------------------------------------
(* Progress                                                                *)

\* BatchProgress::queued
Queued(rows) == [r \in rows |-> "pending"]

Completed(progress) == \A r \in DOMAIN progress : progress[r] \in Settled

\* load_batch_progress: nothing for a batch Restate never had, has not started
\* or has retired.
load_batch_progress(b) ==
    IF b \in Batches /\ restate[b].stage = "started" THEN restate[b].progress ELSE None

Rejected(progress) == {r \in DOMAIN progress : progress[r] = "rejected"}

-----------------------------------------------------------------------------
(* Followed, without what only words what the page says: when the progress *)
(* last changed, the last poll's fault and the projection's listing.       *)

Following(b, progress) == [batch |-> b, progress |-> progress, heard |-> FALSE]

IsCompleted(f) == f.progress # None /\ Completed(f.progress)

hear(f, progress) == [f EXCEPT !.progress = progress, !.heard = TRUE]

leave_out(f, rows) ==
    IF f.heard THEN f ELSE [f EXCEPT !.progress = Restrict(@, DOMAIN @ \ rows)]

left_out_of(f, progress) == IF f.heard THEN {} ELSE DOMAIN f.progress \ DOMAIN progress

-----------------------------------------------------------------------------
(* The task that follows a batch                                           *)

\* At begin and tick the task is about to call; at lookup it is about to ask
\* the projection.  At submit, ask, confirm, projected and poll a call is out.
Task(f, pc) ==
    [f |-> f, pc |-> pc, attempt |-> 0, known |-> FALSE, empty |-> 0, ran |-> FALSE]

Replaced(t, u) == (followers \ {t}) \cup {u}
Ended(t) == followers \ {t}

\* The update reaches the page, and the task carries on from it.  follow_to_end
\* remembers having seen the batch run.
Report(t, u) ==
    /\ followers' = Replaced(t, [u EXCEPT !.ran = @ \/ (u.f.heard /\ ~IsCompleted(u.f))])
    /\ shown' = u.f

\* account_for: once Restate has the batch its rows leave the selection, and
\* the targets left out are named.
account_for(b, left_out) ==
    /\ selected' = selected \ queued[b]
    /\ named' = named \cup {<<b, r>> : r \in left_out \cap queued[b]}

\* Nothing of the page but the follow changes.
OnlyFollow == UNCHANGED <<selected, retry, signed_out, named, announced>>

\* A batch queued here is always announced; one followed by id alone only if it
\* was seen running.
IsNews(t) == t.attempt > 0 \/ t.ran

\* conclude, of a batch that ran to the end.
ConcludeCompleted(t) ==
    announced' = IF IsNews(t) THEN [announced EXCEPT ![t.f.batch] = @ + 1] ELSE announced

\* conclude, of one that Restate would not take or has nothing of.
StandDown(t) == followers' = Ended(t) /\ shown' = None

\* Restate's word is taken; a batch that has run to the end ends the follow.
Heard(t, u) ==
    IF IsCompleted(u.f)
      THEN followers' = Ended(t) /\ shown' = u.f /\ ConcludeCompleted(u)
      ELSE Report(t, u) /\ UNCHANGED announced

\* A refused poll: the follow stands where it is, and so does the batch.
SignOut(t) ==
    /\ followers' = Ended(t)
    /\ signed_out' = TRUE
    /\ UNCHANGED <<selected, shown, retry, named, announced>>

\* A refused submission, or a refused ask after one.
RefuseSubmission(t) ==
    /\ StandDown(t)
    /\ signed_out' = TRUE
    /\ UNCHANGED <<selected, retry, named, announced>>

-----------------------------------------------------------------------------
(* Taking over                                                             *)

\* Mutant: the task that followed the last batch carries on.
Surviving_all == followers

\* take_over cancels the task that was following.
Surviving == {}

take_over(f, pc) ==
    /\ followers' = Surviving \cup {Task(f, pc)}
    /\ shown' = f
    /\ last' = f.batch

Follows(b) == shown # None /\ shown.batch = b

\* queue_batch, under an id the page mints.
queue_batch(rows) ==
    LET b == Cardinality(Minted) + 1 IN
    /\ b \in Batches
    /\ queued' = [queued EXCEPT ![b] = rows]
    /\ take_over(Following(b, Queued(rows)), "begin")

\* The user confirms the action bar's batch, or the one of the drawer's row.
Confirm ==
    /\ \E rows \in {selected} \cup {{r} : r \in Opened} : rows # {} /\ queue_batch(rows)
    /\ UNCHANGED <<open, restate, record, wire, refusing, events>>
    /\ OnlyFollow

\* attach_batch: from the URL, or picked from the list of recent batches.
attach_batch(b) ==
    /\ ~Follows(b)
    /\ Event
    /\ take_over(Following(b, None), "lookup")
    /\ UNCHANGED <<world, wire, refusing>>
    /\ OnlyFollow

\* retry_rejected, while no other retry is being refreshed.
RetryPressed ==
    /\ retry = None
    /\ shown # None /\ IsCompleted(shown) /\ Rejected(shown.progress) # {}
    /\ retry' = shown.batch
    /\ UNCHANGED <<world, wire, selected, shown, last, followers, signed_out, named, announced,
                   refusing, events>>

\* refresh_rejected answers, and queue_retry queues the rows that are still
\* open under a new id, unless another batch has been followed meanwhile.
RetryRefreshed(rows) ==
    /\ rows \subseteq Rejected(restate[retry].progress) \cap open
    /\ retry' = None
    /\ IF rows = {} \/ ~Follows(retry)
         THEN UNCHANGED <<queued, shown, last, followers>>
         ELSE queue_batch(rows)
    /\ UNCHANGED <<open, restate, record, wire, selected, signed_out, named, announced,
                   refusing>>

\* ... with the rows that could not be refreshed left out of it.
RetryAnswered ==
    LET rejected == Rejected(restate[retry].progress) \cap open IN
    /\ retry # None
    /\ \/ /\ RetryRefreshed(rejected)
          /\ UNCHANGED events
       \/ /\ Event
          /\ \E rows \in SUBSET rejected : rows # rejected /\ RetryRefreshed(rows)

\* ... or the retry is given up whole, the credentials having been refused.
RetryRefused ==
    /\ retry # None
    /\ signed_out \/ refusing
    /\ retry' = None
    /\ signed_out' = TRUE
    /\ UNCHANGED <<world, wire, selected, shown, last, followers, named, announced, refusing,
                   events>>

-----------------------------------------------------------------------------
(* Submitting: submit, and the part of run_batch before its polls          *)

Submission(t) ==
    [batch |-> t.f.batch, attempt |-> t.attempt, stage |-> "sent", rows |-> {}]

Awaits(t, m) == t.pc = "submit" /\ m.batch = t.f.batch /\ m.attempt = t.attempt

Awaited(m) == \E t \in followers : Awaits(t, m)

\* Restate has the batch: polls follow, however many find nothing.
Vouched(t) == [t EXCEPT !.pc = "tick", !.known = TRUE]

\* Taken::Already, with the progress of the batch or None: what was left out is
\* read off it.
Already(t, progress) ==
    IF progress = None
      THEN /\ account_for(t.f.batch, {})
           /\ followers' = Replaced(t, Vouched(t))
           /\ UNCHANGED <<shown, announced>>
      ELSE /\ account_for(t.f.batch, left_out_of(t.f, progress))
           /\ Heard(t, [Vouched(t) EXCEPT !.f = hear(@, progress)])

\* Mutant: an answered submission's receipt is believed whichever it answers.
IsReceipt_any(t) == TRUE

\* Only the first submission's answer is a receipt.
IsReceipt(t) == t.attempt = 1

\* Mutant: a batch Restate has no progress for is taken for accepted.
Untaken_taken(t) == Already(t, None)

\* Mutant: one attempt too many.
IsLastAttempt_past(t) == t.attempt > SubmitAttempts

IsLastAttempt(t) == t.attempt = SubmitAttempts

\* The submission failed, and Restate has nothing to say of the batch.
Untaken(t) ==
    /\ IF IsLastAttempt(t)
         THEN StandDown(t)
         ELSE followers' = Replaced(t, [t EXCEPT !.pc = "begin"]) /\ UNCHANGED shown
    /\ UNCHANGED <<selected, named, announced>>

SubmitBegins(t) ==
    LET u == [t EXCEPT !.pc = "submit", !.attempt = @ + 1] IN
    /\ t.pc = "begin"
    /\ ~signed_out
    /\ followers' = Replaced(t, u)
    /\ wire' = wire \cup {Submission(u)}
    /\ UNCHANGED <<world, shown, refusing, events>>
    /\ OnlyFollow

\* The submission was answered.  A later one's answer has Restate asked, on a
\* page that still may.
SubmissionAnswered(t, m) ==
    /\ Awaits(t, m)
    /\ m.stage = "accepted"
    /\ wire' = wire \ {m}
    /\ IF IsReceipt(t)
         THEN LET left_out == queued[m.batch] \ m.rows IN
              /\ Report(t, [Vouched(t) EXCEPT !.f = leave_out(@, left_out)])
              /\ account_for(m.batch, left_out)
              /\ UNCHANGED announced
         ELSE IF signed_out
         THEN Already(t, None)
         ELSE /\ followers' = Replaced(t, [t EXCEPT !.pc = "confirm"])
              /\ UNCHANGED <<selected, shown, named, announced>>
    /\ UNCHANGED <<world, retry, signed_out, refusing, events>>

\* The submission failed: Restate is asked whether it took it all the same.
AskAfter(t) ==
    IF signed_out
      THEN RefuseSubmission(t)
      ELSE /\ followers' = Replaced(t, [t EXCEPT !.pc = "ask"])
           /\ UNCHANGED shown
           /\ OnlyFollow

\* Nothing was left to run.
SubmissionRejected(t, m) ==
    /\ Awaits(t, m)
    /\ m.stage = "refused"
    /\ wire' = wire \ {m}
    /\ AskAfter(t)
    /\ UNCHANGED <<world, refusing, events>>

\* No answer came; the submission is lost, or still under way.
SubmissionFails(t, m) ==
    /\ Awaits(t, m)
    /\ Event
    /\ \/ wire' = wire \ {m}
       \/ m.stage \in {"sent", "resolved"} /\ UNCHANGED wire
    /\ AskAfter(t)
    /\ UNCHANGED <<world, refusing>>

AskAnswered(t) ==
    LET progress == load_batch_progress(t.f.batch) IN
    /\ t.pc = "ask"
    /\ IF progress = None THEN Untaken(t) ELSE Already(t, progress)
    /\ UNCHANGED <<world, wire, retry, signed_out, refusing, events>>

AskFails(t) ==
    /\ t.pc = "ask"
    /\ Event
    /\ Untaken(t)
    /\ UNCHANGED <<world, wire, retry, signed_out, refusing>>

ConfirmAnswered(t) ==
    /\ t.pc = "confirm"
    /\ Already(t, load_batch_progress(t.f.batch))
    /\ UNCHANGED <<world, wire, retry, signed_out, refusing, events>>

\* A refusal is passed over here, and met again by the first poll.
ConfirmFails(t) ==
    /\ t.pc = "confirm"
    /\ \/ refusing /\ signed_out' = TRUE /\ UNCHANGED events
       \/ Event /\ UNCHANGED signed_out
    /\ Already(t, None)
    /\ UNCHANGED <<world, wire, retry, refusing>>

\* The credentials are refused by the auth edge, before the server acts, or by
\* the page itself.
SubmitRefused(t) ==
    /\ \/ t.pc = "begin" /\ signed_out /\ UNCHANGED wire
       \/ /\ refusing
          /\ \E m \in wire : Awaits(t, m) /\ m.stage = "sent" /\ wire' = wire \ {m}
       \/ t.pc = "ask" /\ refusing /\ UNCHANGED wire
    /\ RefuseSubmission(t)
    /\ UNCHANGED <<world, refusing, events>>

-----------------------------------------------------------------------------
(* Following: the lookup of follow_batch, and poll                         *)

\* Mutant: a poll that finds nothing is waited out, whoever has vouched.
EmptyPolls_waited(t) == t.empty

\* Polls that found nothing count while nobody has vouched for the batch.
EmptyPolls(t) == IF t.known THEN t.empty ELSE t.empty + 1

Lookup(t) ==
    /\ t.pc = "lookup"
    /\ ~signed_out
    /\ followers' = Replaced(t, [t EXCEPT !.pc = "projected"])
    /\ UNCHANGED <<world, wire, shown, refusing, events>>
    /\ OnlyFollow

ProjectedAnswered(t) ==
    LET b == t.f.batch
        word == IF b = Foreign THEN "unknown" ELSE record[b]
    IN
    /\ t.pc = "projected"
    /\ CASE word = "finished" ->
              Heard(t, [t EXCEPT !.f = hear(@, restate[b].progress)])
         [] word = "running" ->
              /\ Report(t, Vouched(t))
              /\ UNCHANGED announced
         [] word \in {"unknown", "unlisted"} ->
              /\ Report(t, [t EXCEPT !.pc = "tick"])
              /\ UNCHANGED announced
    /\ UNCHANGED <<world, wire, selected, retry, signed_out, named, refusing, events>>

ProjectedFails(t) ==
    /\ t.pc = "projected"
    /\ Event
    /\ Report(t, [t EXCEPT !.pc = "tick"])
    /\ UNCHANGED <<world, wire, refusing>>
    /\ OnlyFollow

PollBegins(t) ==
    /\ t.pc = "tick"
    /\ ~signed_out
    /\ followers' = Replaced(t, [t EXCEPT !.pc = "poll"])
    /\ UNCHANGED <<world, wire, shown, refusing, events>>
    /\ OnlyFollow

PollAnswered(t) ==
    LET progress == load_batch_progress(t.f.batch)
        empty == EmptyPolls(t)
    IN
    /\ t.pc = "poll"
    /\ IF progress # None
         THEN Heard(t, [Vouched(t) EXCEPT !.f = hear(@, progress)])
         ELSE /\ IF ~t.known /\ empty = AttachLimit
                   THEN StandDown(t)
                   ELSE Report(t, [t EXCEPT !.pc = "tick", !.empty = empty])
              /\ UNCHANGED announced
    /\ UNCHANGED <<world, wire, selected, retry, signed_out, named, refusing, events>>

PollFails(t) ==
    /\ t.pc = "poll"
    /\ Event
    /\ Report(t, [t EXCEPT !.pc = "tick"])
    /\ UNCHANGED <<world, wire, refusing>>
    /\ OnlyFollow

\* The lookup or a poll is refused, by the server or by the page itself.
FollowRefused(t) ==
    /\ \/ t.pc \in {"lookup", "tick"} /\ signed_out
       \/ t.pc \in {"projected", "poll"} /\ refusing
    /\ SignOut(t)
    /\ UNCHANGED <<world, wire, refusing, events>>

-----------------------------------------------------------------------------
(* The server's end of a submission, and Restate                           *)

\* submit_batch resolves the targets in the projection; those it no longer has
\* are left out, and a submission that leaves nothing to run is refused.
ServerResolves(m) ==
    LET rows == queued[m.batch] \cap open IN
    /\ m.stage = "sent"
    /\ wire' = (wire \ {m}) \cup
         IF rows # {} THEN {[m EXCEPT !.stage = "resolved", !.rows = rows]}
         ELSE IF Awaited(m) THEN {[m EXCEPT !.stage = "refused"]} ELSE {}
    /\ UNCHANGED <<world, page, refusing, events>>

\* The batch id is the workflow's key and the idempotency key: Restate runs the
\* first submission it is sent, and answers any other as it did that one.
run_batch(b, rows) ==
    IF restate[b].stage # "none" THEN restate
    ELSE [restate EXCEPT ![b] = [stage |-> "taken", progress |-> Queued(rows)]]

RestateAccepts(m) ==
    /\ m.stage = "resolved"
    /\ restate' = run_batch(m.batch, m.rows)
    /\ wire' = (wire \ {m}) \cup
         IF Awaited(m) THEN {[m EXCEPT !.stage = "accepted"]} ELSE {}
    /\ UNCHANGED <<open, queued, record, page, refusing, events>>

\* The workflow starts, and publishes its first progress ...
Starts(b) ==
    /\ restate[b].stage = "taken"
    /\ restate' = [restate EXCEPT ![b].stage = "started"]
    /\ UNCHANGED <<open, queued, record>>

\* ... then lists the batch as running, ...
Lists(b) ==
    /\ restate[b].stage = "started"
    /\ record[b] = "unknown"
    /\ record' = [record EXCEPT ![b] = "running"]
    /\ UNCHANGED <<open, queued, restate>>

\* ... or runs it unlisted, the store being away, ...
RunsUnlisted(b) ==
    /\ restate[b].stage = "started"
    /\ record[b] = "unknown"
    /\ Event
    /\ record' = [record EXCEPT ![b] = "unlisted"]
    /\ UNCHANGED <<open, queued, restate>>

\* ... publishes each verdict, a merge taking the row out of the projection ...
Settles(b, r) ==
    /\ record[b] \in {"running", "unlisted"}
    /\ r \in DOMAIN restate[b].progress
    /\ restate[b].progress[r] = "pending"
    /\ \/ /\ restate' = [restate EXCEPT ![b].progress[r] = "done"]
          /\ open' = open \ {r}
       \/ /\ restate' = [restate EXCEPT ![b].progress[r] = "rejected"]
          /\ UNCHANGED open
    /\ UNCHANGED <<queued, record>>

\* ... and records the batch once every target has its verdict.
Records(b) ==
    /\ record[b] \in {"running", "unlisted"}
    /\ Completed(restate[b].progress)
    /\ record' = [record EXCEPT ![b] = "finished"]
    /\ UNCHANGED <<open, queued, restate>>

\* Restate retires the workflow of a recorded batch.
Retires(b) ==
    /\ record[b] = "finished"
    /\ restate[b].stage = "started"
    /\ restate' = [restate EXCEPT ![b].stage = "retired"]
    /\ UNCHANGED <<open, queued, record>>

BatchRuns(b) ==
    /\ \/ /\ Starts(b) \/ Lists(b) \/ (\E r \in Rows : Settles(b, r)) \/ Records(b)
          /\ UNCHANGED events
       \/ RunsUnlisted(b)
    /\ UNCHANGED <<wire, page, refusing>>

BatchRetires(b) == Retires(b) /\ UNCHANGED <<wire, page, refusing, events>>

\* A pull request closes elsewhere, or loses its row.
Closes(r) ==
    /\ r \in open
    /\ Event
    /\ open' = open \ {r}
    /\ UNCHANGED <<queued, restate, record, wire, page, refusing>>

\* The server turns the page's credentials away from here on.
CredentialsExpire ==
    /\ ~refusing
    /\ Event
    /\ refusing' = TRUE
    /\ UNCHANGED <<world, wire, page>>

\* Some other call of the page, the live refresh's say, meets the refusal.
RefusedElsewhere ==
    /\ refusing /\ ~signed_out
    /\ signed_out' = TRUE
    /\ UNCHANGED <<world, wire, selected, shown, last, followers, retry, named, announced, refusing,
                   events>>

-----------------------------------------------------------------------------

Init ==
    /\ open = Rows
    /\ queued = [b \in Batches |-> {}]
    /\ restate = [b \in Batches |-> [stage |-> "none", progress |-> Queued({})]]
    /\ record = [b \in Batches |-> "unknown"]
    /\ wire = {}
    /\ selected = Rows
    /\ shown = None
    /\ last = None
    /\ followers = {}
    /\ retry = None
    /\ signed_out = FALSE
    /\ refusing = FALSE
    /\ named = {}
    /\ announced = [b \in Batches |-> 0]
    /\ events = 0

\* A step a task takes on its own, or on an answer.
Steps(t) ==
    \/ SubmitBegins(t) \/ AskAnswered(t) \/ ConfirmAnswered(t)
    \/ \E m \in wire : SubmissionAnswered(t, m) \/ SubmissionRejected(t, m)
    \/ SubmitRefused(t)
    \/ Lookup(t) \/ ProjectedAnswered(t)
    \/ PollBegins(t) \/ PollAnswered(t)
    \/ FollowRefused(t)

Fails(t) ==
    \/ AskFails(t) \/ ConfirmFails(t) \/ ProjectedFails(t) \/ PollFails(t)
    \/ \E m \in wire : SubmissionFails(t, m)

TaskSteps == (\E t \in followers : Steps(t)) /\ UNCHANGED last
TaskFails == (\E t \in followers : Fails(t)) /\ UNCHANGED last
Attach == \E b \in Minted \cup {Foreign} : attach_batch(b)
ServerSteps == \E m \in wire : ServerResolves(m) \/ RestateAccepts(m)
BatchesRun == \E b \in Batches : BatchRuns(b)
BatchesRetire == \E b \in Batches : BatchRetires(b)
RowsClose == \E r \in Rows : Closes(r)

Next ==
    \/ Confirm \/ Attach \/ RetryPressed \/ RetryAnswered \/ RetryRefused
    \/ TaskSteps \/ TaskFails
    \/ ServerSteps \/ BatchesRun \/ BatchesRetire
    \/ RowsClose \/ CredentialsExpire \/ RefusedElsewhere

Spec == Init /\ [][Next]_vars

\* The page's event loop and the server answer what is asked of them, and
\* Restate runs to the end what it has taken.
FairSpec ==
    /\ Spec
    /\ WF_vars(TaskSteps)
    /\ WF_vars(ServerSteps)
    /\ WF_vars(BatchesRun)

-----------------------------------------------------------------------------
(* Properties                                                              *)

\* A task never submits more often than it may, nor polls an unvouched id past
\* the limit, and the calls it has out are its own.
TypeOK ==
    /\ open \in SUBSET Rows
    /\ queued \in [Batches -> SUBSET Rows]
    /\ restate \in [Batches -> [stage : {"none", "taken", "started", "retired"},
                                progress : Progresses]]
    /\ record \in [Batches -> {"unknown", "running", "unlisted", "finished"}]
    /\ wire \subseteq [batch : Batches, attempt : 1..SubmitAttempts,
                       stage : {"sent", "resolved", "accepted", "refused"},
                       rows : SUBSET Rows]
    /\ selected \in SUBSET Rows
    /\ shown \in FollowedBatches \cup {None}
    /\ followers \subseteq
         [f : FollowedBatches,
          pc : {"begin", "submit", "ask", "confirm", "lookup", "projected", "tick", "poll"},
          attempt : 0..SubmitAttempts, known : BOOLEAN, empty : 0..(AttachLimit - 1),
          ran : BOOLEAN]
    /\ retry \in Batches \cup {None}
    /\ {signed_out, refusing} \subseteq BOOLEAN
    /\ named \subseteq Batches \X Rows
    /\ announced \in [Batches -> Nat]
    /\ events \in 0..MaxEvents

\* What the page says of a batch is true.  The targets it names as left out the
\* run Restate has does not hold ("naming its targets would tell the user the
\* batch left out targets it is running", submit's comment), however many
\* submissions were sent, whichever of them Restate took first and whatever
\* closed between them.  A batch it announces has run to the end, and it is
\* announced once: not again when it is opened from the list, nor while its
\* record is still to be written.
SaidIsTrue ==
    /\ \A b \in Batches, r \in Rows :
         <<b, r>> \in named => restate[b].stage # "none" /\ r \notin DOMAIN restate[b].progress
    /\ \A b \in Batches :
         /\ announced[b] <= 1
         /\ announced[b] = 1 => Completed(restate[b].progress) /\ restate[b].stage # "none"

\* "A submission Restate never took leaves the selection as it was"
\* (queue_batch): a row is gone from the selection only when Restate has a
\* batch it was queued in, though the page may not have been told so.
SelectionLeavesForTaken ==
    \A r \in Rows \ selected :
      \E b \in Batches : r \in queued[b] /\ restate[b].stage # "none"

\* The pill and the drawer show the batch taken over last: no follow the page
\* has moved on from writes over it, or takes it down while it is live.  Once
\* what they show is Restate's word it is the run's, at some moment of it; until
\* then the page's snapshot holds every target the run has.
ShownIsRestates ==
    /\ shown # None => shown.batch = last
    /\ followers # {} => shown # None
    /\ shown # None /\ shown.progress # None =>
         LET run == restate[shown.batch].progress IN
         /\ DOMAIN run \subseteq DOMAIN shown.progress
         /\ shown.heard =>
              /\ DOMAIN shown.progress = DOMAIN run
              /\ \A r \in DOMAIN run : shown.progress[r] \in {"pending", run[r]}

\* A follow of a batch that Restate held and has retired, asked for a word it no
\* longer has: poll waits that out.
OutlivedBy(t) ==
    t.known /\ t.f.batch \in Batches /\ restate[t.f.batch].stage = "retired"

\* Every follow ends: in the batch's end, in a submission given up, in an id
\* nobody vouches for, or signed out.
FollowEnds == []<>(\A t \in followers : OutlivedBy(t))
=============================================================================
