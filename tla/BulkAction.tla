----------------------------- MODULE BulkAction -----------------------------
(***************************************************************************)
(* The BulkAction workflow (apps/restate-service/src/bulk_action.rs): one  *)
(* run per batch, over the progress it publishes (BatchProgress of         *)
(* crates/core) and the two tables it writes (running_batches and batches  *)
(* of crates/store).                                                       *)
(*                                                                         *)
(* One action is what the workflow does between two awaits.  An operator's *)
(* cancellation reaches it at the await it is in, once: the code there     *)
(* decides what becomes of it.  A target's own call is opaque: it answers  *)
(* succeeded or rejected, or fails terminally.                             *)
(***************************************************************************)
EXTENDS Naturals, Sequences, FiniteSetsExt

CONSTANTS
    Requests,       \* the batches asked for: sequences of [repo, number] targets
    MaxTargets,     \* MAX_BATCH_TARGETS
    MaxConcurrent,  \* MAX_CONCURRENT
    MaxCancels      \* bound: cancellations by an operator

ASSUME BulkActionAssumption ==
    /\ \A batch \in Requests : batch \in Seq({batch[i] : i \in DOMAIN batch})
    /\ MaxTargets \in Nat \ {0}
    /\ MaxConcurrent \in Nat \ {0}
    /\ MaxCancels \in Nat

VARIABLES
    targets,   \* request.targets
    kind,      \* request.action
    step,      \* the await the workflow is in
    calls,     \* the positions whose calls are in flight
    plan,      \* plan_merge_rounds: a queue per repository, and the next to visit
    rounds,    \* the rounds (or rebases) started so far
    progress,  \* BatchProgress.targets: the state of each position
    tally,     \* BatchProgress.succeeded, rejected, failed, completed
    listed,    \* the batch's row in running_batches
    record,    \* the batch's row in batches, with its targets' outcomes; <<>> for none
    cancels,   \* cancellations asked for
    cancelled, \* one of them has not reached the workflow yet
    lapsed     \* the store steps of this run that gave no answer

request == <<targets, kind>>
vars == <<targets, kind, step, calls, plan, rounds, progress, tally, listed, record,
          cancels, cancelled, lapsed>>

Outcomes == {"succeeded", "rejected", "failed"}
Positions == 1..Len(targets)

-----------------------------------------------------------------------------
(* The rounds                                                              *)

\* The positions where the batch first names a repository.
Named(batch) ==
    {i \in 1..Len(batch) : \A j \in 1..(i - 1) : batch[j].repo # batch[i].repo}

\* The queue a position waits in, its repository's: the queues are numbered in the
\* order the batch first names their repositories.
QueueOf(batch, i) ==
    Cardinality({j \in Named(batch) :
                   \A k \in Named(batch) : batch[k].repo = batch[i].repo => j <= k})

\* One queue per repository: the positions of its targets still to be sent.
QueuesOf(batch) ==
    [q \in 1..Cardinality(Named(batch)) |-> {i \in 1..Len(batch) : QueueOf(batch, i) = q}]

\* The v-th queue visited in a round that starts at queue number start.
Visited(queues, start, v) == ((start + v - 1) % Len(queues)) + 1

Waiting(queues, start, visited) ==
    {v \in 1..visited : queues[Visited(queues, start, v)] # {}}

\* How many queues the round visits: all of them, or as many as fill it.
Visits(queues, start) ==
    Min({n \in 0..Len(queues) :
           n = Len(queues) \/ Cardinality(Waiting(queues, start, n)) >= MaxConcurrent})

\* Mutant: every round starts again from the first repository.
NextStart_first(start, visits, n) == 0

\* Mutant: the count of visits is never brought back into range.
NextStart_unwrapped(start, visits, n) == start + visits

NextStart(start, visits, n) == (start + visits) % n

\* One turn of plan_merge_rounds' loop: the round visits the queues from where
\* the last one left off and pops the next target of each, in batch order.
MergeRound ==
    LET visits == Visits(plan.queues, plan.start)
        round == {Min(plan.queues[Visited(plan.queues, plan.start, v)]) :
                    v \in Waiting(plan.queues, plan.start, visits)}
    IN  [round |-> round,
         plan |-> [queues |-> [q \in DOMAIN plan.queues |-> plan.queues[q] \ round],
                   start |-> NextStart(plan.start, visits, Len(plan.queues))]]

\* targets.chunks(MAX_CONCURRENT)
Chunk(n) == {i \in Positions : (n - 1) * MaxConcurrent < i /\ i <= n * MaxConcurrent}

\* Mutant: merges go out like branch updates, in batch order.
NextRound_chunks ==
    IF kind = "rebase"
      THEN [round |-> {Len(rounds) + 1} \cap Positions, plan |-> plan]
      ELSE [round |-> Chunk(Len(rounds) + 1), plan |-> plan]

\* The targets that go out together next, none after the last, and the plan then.
NextRound ==
    IF kind = "merge" THEN MergeRound
    ELSE IF kind = "update" THEN [round |-> Chunk(Len(rounds) + 1), plan |-> plan]
    ELSE [round |-> {Len(rounds) + 1} \cap Positions, plan |-> plan]

-----------------------------------------------------------------------------
(* BatchProgress                                                           *)

IsSettled(state) == state \in Outcomes

settled(count) == count.succeeded + count.rejected + count.failed

\* set_state finds a target by its key, the first that has it.
Find(i) == CHOOSE j \in Positions : /\ targets[j] = targets[i]
                                    /\ \A k \in 1..(j - 1) : targets[k] # targets[i]

\* start: the targets whose calls are sent are running.
Started(states, round) ==
    [i \in DOMAIN states |->
       IF i \in {Find(j) : j \in round} /\ ~IsSettled(states[i]) THEN "running" ELSE states[i]]

\* set_state, with a verdict: a target that has settled keeps the one it has.
set_state(i, state) ==
    LET counted == [tally EXCEPT ![state] = @ + 1]
    IN  IF IsSettled(progress[Find(i)])
          THEN [states |-> progress, tally |-> tally]
          ELSE [states |-> [progress EXCEPT ![Find(i)] = state],
                tally |-> [counted EXCEPT !.completed = settled(counted) = Len(targets)]]

-----------------------------------------------------------------------------
(* The awaits                                                              *)

\* The workflow is where step says, and no cancellation is on its way to it.
At(s) == step = s /\ ~cancelled

\* The workflow is where step says, and the cancellation arrives there.
CancelledAt(s) == step = s /\ cancelled /\ cancelled' = FALSE

\* start_round, and the calls it sends; or on to the finish when none is left.
Proceed(states) ==
    LET next == NextRound IN
    IF next.round = {}
      THEN /\ step' = "finish_clock"
           /\ progress' = states
           /\ calls' = {}
           /\ UNCHANGED <<plan, rounds>>
      ELSE /\ step' = "call"
           /\ progress' = Started(states, next.round)
           /\ calls' = next.round
           /\ plan' = next.plan
           /\ rounds' = Append(rounds, next.round)

\* Mutant: a batch that ends in error is always taken off the list.
Abort_always == step' = "unlist"

\* drive failed: a batch that is not complete is unlisted, a complete one keeps
\* its listing as the evidence of it.
Abort == step' = IF tally.completed THEN "ended" ELSE "unlist"

\* Mutant: the limit on the targets is the only rule a batch is held to.
validate_count == Len(targets) \in 1..MaxTargets

validate ==
    /\ Len(targets) \in 1..MaxTargets
    /\ \A i, j \in Positions : i # j => targets[i] # targets[j]

\* run: an invalid request ends it before anything is published.
Refuse ==
    /\ step = "run"
    /\ ~validate
    /\ step' = "ended"
    /\ UNCHANGED <<request, calls, plan, rounds, progress, tally, listed, record,
                   cancels, cancelled, lapsed>>

\* The start clock, then every target is published as queued.
StartClock ==
    /\ At("run")
    /\ validate
    /\ step' = "start_batch"
    /\ progress' = [i \in Positions |-> "queued"]
    /\ UNCHANGED <<request, calls, plan, rounds, tally, listed, record,
                   cancels, cancelled, lapsed>>

\* start_batch: a Brief step.  Landed, failed or cancelled, the batch goes on.
StartBatch ==
    /\ step = "start_batch"
    /\ \/ /\ ~cancelled
          /\ listed' = TRUE
          /\ UNCHANGED lapsed
       \/ /\ listed' \in BOOLEAN
          /\ lapsed' = lapsed \cup {"start_batch"}
    /\ cancelled' = FALSE
    /\ Proceed(progress)
    /\ UNCHANGED <<request, tally, record, cancels>>

\* A verdict is in and published; the workflow awaits the rest of its round,
\* pauses between two rebases, or goes on.
Settle(i, outcome) ==
    LET after == set_state(i, outcome) IN
    /\ tally' = after.tally
    /\ \/ /\ calls # {i}
          /\ step' = "call"
          /\ progress' = after.states
          /\ calls' = calls \ {i}
          /\ UNCHANGED <<plan, rounds>>
       \/ /\ calls = {i}
          /\ kind = "rebase" /\ ~after.tally.completed
          /\ step' = "pause"
          /\ progress' = after.states
          /\ calls' = {}
          /\ UNCHANGED <<plan, rounds>>
       \/ /\ calls = {i}
          /\ kind = "rebase" => after.tally.completed
          /\ Proceed(after.states)

\* land_round: one call of the round answers, or fails terminally.
Lands(i, outcome) ==
    /\ At("call")
    /\ i \in calls
    /\ Settle(i, outcome)
    /\ UNCHANGED <<request, listed, record, cancels, cancelled, lapsed>>

Pause ==
    /\ At("pause")
    /\ Proceed(progress)
    /\ UNCHANGED <<request, tally, listed, record, cancels, cancelled, lapsed>>

\* A cancelled round ends the workflow, its calls with it; a rebase's call hands
\* the cancellation to its target, which fails, and the batch goes on.
CallCancelled ==
    /\ CancelledAt("call")
    /\ IF kind = "rebase"
         THEN \E i \in calls : Settle(i, "failed")
         ELSE /\ Abort
              /\ calls' = {}
              /\ UNCHANGED <<plan, rounds, progress, tally>>
    /\ UNCHANGED <<request, listed, record, cancels, lapsed>>

\* The finish clock; a batch whose targets are not all settled fails here.
FinishClock ==
    /\ At("finish_clock")
    /\ IF tally.completed THEN step' = "record" ELSE Abort
    /\ UNCHANGED <<request, calls, plan, rounds, progress, tally, listed, record,
                   cancels, cancelled, lapsed>>

\* record_batch: the listing goes, and the first record of a batch stands.
record_batch ==
    /\ listed' = FALSE
    /\ record' = IF record = <<>> THEN progress ELSE record

\* Mutant: an Ordinary step, given up when the store stays away.
RecordBatch_ordinary ==
    /\ At("record")
    /\ record_batch \/ UNCHANGED <<listed, record>>
    /\ step' \in {"record", "ended"}
    /\ UNCHANGED <<request, calls, plan, rounds, progress, tally, cancels, cancelled, lapsed>>

\* A LastChance step: retried until it lands, and run again when its result
\* is lost.
RecordBatch ==
    /\ At("record")
    /\ record_batch
    /\ step' \in {"record", "ended"}
    /\ UNCHANGED <<request, calls, plan, rounds, progress, tally, cancels, cancelled, lapsed>>

\* A clock, a pause or the record is cancelled: the error is the workflow's.
StepCancelled ==
    /\ \/ CancelledAt("run") /\ validate /\ step' = "ended"
       \/ CancelledAt("pause") /\ Abort
       \/ CancelledAt("finish_clock") /\ Abort
       \/ CancelledAt("record") /\ Abort
    /\ UNCHANGED <<request, calls, plan, rounds, progress, tally, listed, record,
                   cancels, lapsed>>

\* unlist_batch: an Ordinary step, whose failure or cancellation is only logged.
UnlistBatch ==
    /\ step = "unlist"
    /\ cancelled' = FALSE
    /\ \/ /\ listed' = FALSE
          /\ UNCHANGED lapsed
       \/ /\ listed' \in {listed, FALSE}
          /\ lapsed' = lapsed \cup {"unlist_batch"}
    /\ step' = "ended"
    /\ UNCHANGED <<request, calls, plan, rounds, progress, tally, record, cancels>>

\* An operator cancels the invocation.
Cancel ==
    /\ step # "ended"
    /\ ~cancelled
    /\ cancels < MaxCancels
    /\ cancels' = cancels + 1
    /\ cancelled' = TRUE
    /\ UNCHANGED <<request, step, calls, plan, rounds, progress, tally, listed, record, lapsed>>

Init ==
    /\ targets \in Requests
    /\ kind \in {"merge", "update", "rebase"}
    /\ step = "run"
    /\ calls = {}
    /\ plan = [queues |-> QueuesOf(targets), start |-> 0]
    /\ rounds = <<>>
    /\ progress = <<>>
    /\ tally = [succeeded |-> 0, rejected |-> 0, failed |-> 0, completed |-> FALSE]
    /\ listed = FALSE
    /\ record = <<>>
    /\ cancels = 0
    /\ cancelled = FALSE
    /\ lapsed = {}

Next ==
    \/ Refuse
    \/ StartClock
    \/ StartBatch
    \/ \E i \in Positions, outcome \in Outcomes : Lands(i, outcome)
    \/ Pause
    \/ CallCancelled
    \/ FinishClock
    \/ RecordBatch
    \/ StepCancelled
    \/ UnlistBatch
    \/ Cancel

Spec == Init /\ [][Next]_vars

\* Restate keeps running the workflow: every call answers or fails, and the
\* record's step, which is never given up, meets a store that takes it.
FairSpec ==
    /\ Spec
    /\ WF_vars(Next)
    /\ SF_vars(RecordBatch /\ step' = "ended")

-----------------------------------------------------------------------------

\* The plan, the progress and the tallies stay within the batch: no round visits a
\* queue there is not, no target has a verdict there is not.
TypeOK ==
    /\ kind \in {"merge", "update", "rebase"}
    /\ step \in {"run", "start_batch", "call", "pause", "finish_clock", "record",
                 "unlist", "ended"}
    /\ calls \subseteq Positions
    /\ plan.start \in 0..Len(targets)
    /\ plan.queues \in Seq(SUBSET Positions)
    /\ rounds \in Seq(SUBSET Positions)
    /\ progress \in {<<>>} \cup [Positions -> {"queued", "running"} \cup Outcomes]
    /\ tally \in [succeeded : 0..Len(targets), rejected : 0..Len(targets),
                  failed : 0..Len(targets), completed : BOOLEAN]
    /\ listed \in BOOLEAN
    /\ record \in {<<>>} \cup [Positions -> Outcomes]
    /\ cancels \in 0..MaxCancels
    /\ cancelled \in BOOLEAN
    /\ lapsed \subseteq {"start_batch", "unlist_batch"}

\* Merging one pull request moves the base under the next of its repository: a
\* merge is in flight only once every earlier target of its repository has its
\* verdict, and a round holds no more than MAX_CONCURRENT.
MergesSerialised ==
    kind = "merge" =>
      /\ Cardinality(calls) <= MaxConcurrent
      /\ \A i \in calls, j \in Positions :
           j < i /\ targets[j].repo = targets[i].repo => IsSettled(progress[j])

\* No repository waits on another's being drained: one that still has a target
\* to send was sent one between any two rounds in which another repository was.
RepositoriesTakeTurns ==
    kind = "merge" =>
      \A j \in 1..Len(rounds), waiting \in Positions : \A i \in 1..(j - 1) :
        /\ progress[waiting] = "queued"
        /\ \E x \in rounds[i], y \in rounds[j] : targets[x].repo = targets[y].repo
        =>
        \E sent \in UNION {rounds[n] : n \in i..j} :
          targets[sent].repo = targets[waiting].repo

\* Every target was attempted, so the batch is complete: the workflow never
\* reaches its finish with a target that has no verdict, nor a target counted
\* twice, and "the batch is not complete" is never the answer.
AttemptedIsComplete ==
    step \in {"finish_clock", "record"} =>
      /\ tally.completed
      /\ \A i \in Positions : IsSettled(progress[i])
      /\ \A outcome \in Outcomes :
           tally[outcome] = Cardinality({i \in Positions : progress[i] = outcome})

\* A batch is accounted for, whatever an operator cancels and whatever the store
\* will not take.  One whose targets have all settled never vanishes from both
\* lists: it is recorded, or keeps the listing it was given.  And nothing is
\* listed as running for good: a recorded batch is listed no longer, and a
\* workflow that has ended is listed only as the evidence of a complete batch, or
\* because the store would not take the unlisting.
EndedIsAccountedFor ==
    /\ record # <<>> => ~listed
    /\ step = "ended" /\ listed => tally.completed \/ "unlist_batch" \in lapsed
    /\ step = "ended" /\ tally.completed /\ "start_batch" \notin lapsed =>
         record # <<>> \/ listed

\* One pull request's problem, or a store that is away, is no reason to lose a
\* batch: a valid batch that nobody cancels ends recorded, with its verdicts.
UncancelledIsRecorded ==
    (cancels = 0 /\ step = "start_batch") ~>
      (cancels > 0 \/ (step = "ended" /\ record = progress /\ ~listed))
=============================================================================
