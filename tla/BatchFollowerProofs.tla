------------------------ MODULE BatchFollowerProofs ------------------------
(***************************************************************************)
(* For any number of pull requests, of batches and of calls that get no    *)
(* answer: what the page says of a batch is true, a row leaves the         *)
(* selection only for a batch Restate has, and what the page shows is the  *)
(* batch it took over last, in Restate's own words once it has them.       *)
(***************************************************************************)
EXTENDS BatchFollower, FiniteSetTheorems, TLAPS

-----------------------------------------------------------------------------
(* The invariant                                                           *)

Tasks ==
    [f : FollowedBatches,
     pc : {"begin", "submit", "ask", "confirm", "lookup", "projected", "tick", "poll"},
     attempt : 0..SubmitAttempts, known : BOOLEAN, empty : 0..(AttachLimit - 1),
     ran : BOOLEAN]

Runs ==
    [stage : {"none", "taken", "started", "retired"}, progress : Progresses]

Submissions ==
    [batch : Batches, attempt : 1..SubmitAttempts,
     stage : {"sent", "resolved", "accepted", "refused"}, rows : SUBSET Rows]

\* Restate has the batch.
Has(b) == restate[b].stage # "none"

\* What the page shows of a batch is the snapshot it queued, or what its receipt
\* left of it, or Restate's word at some moment of the run.
Shows(f) ==
    /\ f \in FollowedBatches
    /\ f.batch = Foreign => f.progress = None
    /\ f.heard => f.progress # None /\ Has(f.batch)
    /\ f.progress # None =>
         /\ DOMAIN restate[f.batch].progress \subseteq DOMAIN f.progress
         /\ ~Has(f.batch) => DOMAIN f.progress = queued[f.batch]
         /\ f.heard =>
              /\ DOMAIN f.progress = DOMAIN restate[f.batch].progress
              /\ \A r \in DOMAIN f.progress :
                   f.progress[r] \in {"pending", restate[f.batch].progress[r]}

Submitting == {"begin", "submit", "ask", "confirm"}

\* A task shows what it follows.  One that submits has sent every submission of its
\* batch, so its first submission's answer is of the run Restate has; and one that
\* follows an announced batch has nothing to announce.
TaskInv(t) ==
    /\ shown = t.f
    /\ t.pc \in Submitting =>
         /\ t.f.progress # None
         /\ queued[t.f.batch] # {}
         /\ \A m \in wire : m.batch = t.f.batch => m.attempt <= t.attempt
    /\ t.pc = "begin" =>
         /\ t.attempt < SubmitAttempts
         /\ t.attempt = 0 => ~Has(t.f.batch)
    /\ t.pc \in {"submit", "ask", "confirm"} => t.attempt > 0
    /\ t.pc = "submit" /\ t.attempt = 1 =>
         \A m \in wire : m.batch = t.f.batch =>
           /\ m.stage \in {"sent", "resolved"} => ~Has(m.batch)
           /\ m.stage = "accepted" => DOMAIN restate[m.batch].progress = m.rows
    /\ t.pc = "confirm" => Has(t.f.batch)
    /\ t.f.batch # Foreign /\ announced[t.f.batch] > 0 =>
         t.attempt = 0 /\ ~t.ran /\ ~t.f.heard

FollowInv ==
    /\ shown \in FollowedBatches \cup {None}
    /\ followers \subseteq Tasks
    /\ shown # None => Shows(shown) /\ shown.batch = last
    /\ \A t \in followers : TaskInv(t)
    /\ \A t, u \in followers : t = u

\* The ids are minted in order, a run is of rows the page queued, and a submission
\* is of a batch that has been minted.
WorldInv ==
    /\ open \in SUBSET Rows
    /\ queued \in [Batches -> SUBSET Rows]
    /\ restate \in [Batches -> Runs]
    /\ record \in [Batches -> {"unknown", "running", "unlisted", "finished"}]
    /\ \E n \in 0..MaxBatches : Minted = 1..n
    /\ \A b \in Batches :
         /\ DOMAIN restate[b].progress \subseteq queued[b]
         /\ queued[b] = {} => ~Has(b)
         /\ ~Has(b) => DOMAIN restate[b].progress = {}
         /\ restate[b].stage \in {"none", "taken"} => record[b] = "unknown"
         /\ record[b] = "finished" => Completed(restate[b].progress)

WireInv ==
    /\ wire \subseteq Submissions
    /\ \A m \in wire :
         /\ queued[m.batch] # {}
         /\ m.rows \subseteq queued[m.batch]
         /\ m.stage = "accepted" => Has(m.batch)
    /\ \A m, n \in wire : m.batch = n.batch /\ m.attempt = n.attempt => m = n

NamedInv ==
    /\ named \subseteq Batches \X Rows
    /\ \A b \in Batches, r \in Rows :
         <<b, r>> \in named => Has(b) /\ r \notin DOMAIN restate[b].progress

AnnouncedInv ==
    /\ announced \in [Batches -> Nat]
    /\ \A b \in Batches : /\ announced[b] <= 1
                          /\ announced[b] = 1 => Completed(restate[b].progress) /\ Has(b)

SelectedInv ==
    /\ selected \in SUBSET Rows
    /\ \A r \in Rows \ selected : \E b \in Batches : r \in queued[b] /\ Has(b)

EdgeTypes ==
    /\ retry \in Batches \cup {None}
    /\ signed_out \in BOOLEAN
    /\ refusing \in BOOLEAN
    /\ events \in 0..MaxEvents

FollowerInv ==
    /\ FollowInv
    /\ WorldInv
    /\ WireInv
    /\ NamedInv
    /\ AnnouncedInv
    /\ SelectedInv
    /\ EdgeTypes

-----------------------------------------------------------------------------
(* What the tasks have to go on                                            *)

\* Nothing is not a progress, nor something followed.
LEMMA Present ==
    /\ \A progress \in Progresses : progress # None
    /\ \A f \in FollowedBatches : f # None
BY FollowerAssumption

\* A progress gives some rows a verdict each.
LEMMA ProgressTypes ==
    /\ \A progress \in Progresses : /\ DOMAIN progress \in SUBSET Rows
                                    /\ \A r \in DOMAIN progress : progress[r] \in Verdicts
                                    /\ progress = [r \in DOMAIN progress |-> progress[r]]
    /\ \A rows \in SUBSET Rows : \A progress \in [rows -> Verdicts] : progress \in Progresses
BY DEF Progresses

\* The ids are those of the batches and one that is none of them.
LEMMA IdTypes ==
    /\ Foreign \notin Batches
    /\ \A b \in Ids : b = Foreign \/ b \in Batches
    /\ MaxBatches \in Nat /\ SubmitAttempts \in Nat \ {0} /\ AttachLimit \in Nat \ {0}
    /\ MaxEvents \in Nat
<1>1. MaxBatches \in Nat /\ MaxEvents \in Nat
  BY FollowerAssumption
<1>2. SubmitAttempts \in Nat \ {0} /\ AttachLimit \in Nat \ {0}
  BY FollowerAssumption
<1> QED
  BY <1>1, <1>2 DEF Foreign, Batches, Ids

\* Restate's word on a batch, when it has one.
LEMMA Loaded ==
    ASSUME WorldInv, NEW b \in Ids
    PROVE  \/ load_batch_progress(b) = None
           \/ /\ load_batch_progress(b) = restate[b].progress
              /\ load_batch_progress(b) # None
              /\ b \in Batches /\ Has(b)
              /\ restate[b].progress \in Progresses
<1>1. CASE b \in Batches /\ restate[b].stage = "started"
  <2>1. restate[b].progress \in Progresses
    BY <1>1 DEF WorldInv, Runs
  <2> QED
    BY <1>1, <2>1, Present DEF load_batch_progress, Has
<1>2. CASE ~(b \in Batches /\ restate[b].stage = "started")
  BY <1>2 DEF load_batch_progress
<1> QED
  BY <1>1, <1>2

\* There is one follow at a time: the task that reports is the one there was.
LEMMA OneTask ==
    ASSUME FollowInv, NEW t \in followers
    PROVE  /\ \A u : Replaced(t, u) = {u}
           /\ Ended(t) = {}
           /\ t \in Tasks /\ t.f \in FollowedBatches /\ t.f.batch \in Ids
           /\ shown = t.f /\ Shows(t.f) /\ t.f.batch = last
           /\ TaskInv(t)
<1>1. followers = {t}
  BY DEF FollowInv
<1>2. t \in Tasks /\ t.f \in FollowedBatches /\ t.f.batch \in Ids
  BY DEF FollowInv, Tasks, FollowedBatches
<1>3. TaskInv(t) /\ shown = t.f
  BY DEF FollowInv, TaskInv
<1>4. Shows(t.f) /\ t.f.batch = last
  BY <1>2, <1>3, Present DEF FollowInv
<1> QED
  BY <1>1, <1>2, <1>3, <1>4 DEF Replaced, Ended

-----------------------------------------------------------------------------
(* The follow, through a task's step                                       *)

\* What a follow shows is of Restate and the queued batches alone.
LEMMA ShowsStay ==
    ASSUME UNCHANGED <<queued, restate>>, NEW f, Shows(f)
    PROVE  Shows(f)'
BY DEF Shows, Has

\* The page follows nothing, or what it last followed stands.
LEMMA FollowEndsKeeps ==
    ASSUME FollowInv, UNCHANGED <<queued, restate, last>>, followers' = {},
           shown' = None \/ (Shows(shown') /\ shown'.batch = last)
    PROVE  FollowInv'
<1>1. shown' \in FollowedBatches \cup {None}
  BY DEF Shows
<1>2. shown' # None => Shows(shown)' /\ shown'.batch = last'
  BY DEF Shows, Has
<1> QED
  BY <1>1, <1>2 DEF FollowInv

\* The task goes on to its next call, or the one after a failed submission.
QuietMove(t, u) ==
    /\ u \in Tasks
    /\ u.f = t.f /\ u.attempt = t.attempt /\ u.ran = t.ran
    /\ u.pc # "submit"
    /\ u.pc \in Submitting => t.pc \in Submitting /\ t.attempt > 0
    /\ u.pc = "begin" => t.attempt < SubmitAttempts
    /\ u.pc = "confirm" => Has(t.f.batch)

\* A task that moves without a word to the page keeps what is said of tasks.
LEMMA QuietMoveKeeps ==
    ASSUME FollowInv, UNCHANGED <<queued, restate, last, shown, announced>>,
           wire' \subseteq wire,
           NEW t \in followers, NEW u, QuietMove(t, u), followers' = Replaced(t, u)
    PROVE  FollowInv'
<1>1. /\ followers' = {u} /\ t \in Tasks /\ shown = t.f /\ TaskInv(t)
      /\ Shows(t.f) /\ t.f.batch = last /\ t.f \in FollowedBatches
  BY OneTask
<1>2. Shows(shown)' /\ shown' = t.f
  BY <1>1 DEF Shows, Has
<1>3. t.attempt \in Nat
  BY <1>1, IdTypes DEF Tasks
<1>4. /\ u.pc \in Submitting => t.pc \in Submitting /\ t.attempt > 0
      /\ u.pc # "submit" /\ u.f = t.f /\ u.attempt = t.attempt /\ u.ran = t.ran
      /\ u.pc = "begin" => t.attempt < SubmitAttempts
      /\ u.pc = "confirm" => Has(t.f.batch)
  BY DEF QuietMove
<1>5. u.pc \in Submitting =>
        /\ u.f.progress # None
        /\ queued'[u.f.batch] # {}
        /\ \A m \in wire' : m.batch = u.f.batch => m.attempt <= u.attempt
  BY <1>1, <1>4 DEF TaskInv
<1>6. /\ u.pc = "begin" => u.attempt < SubmitAttempts /\ u.attempt # 0
      /\ u.pc \in {"submit", "ask", "confirm"} => u.attempt > 0
  BY <1>3, <1>4 DEF Submitting
<1>7. u.pc = "confirm" => Has(u.f.batch)'
  BY <1>4 DEF Has
<1>8. u.f.batch # Foreign /\ announced'[u.f.batch] > 0 =>
        u.attempt = 0 /\ ~u.ran /\ ~u.f.heard
  BY <1>1, <1>4 DEF TaskInv
<1>9. TaskInv(u)'
  BY <1>1, <1>4, <1>5, <1>6, <1>7, <1>8 DEF TaskInv
<1> QED
  BY <1>1, <1>2, <1>9 DEF FollowInv, QuietMove

\* The page shows what its task reports, and the task waits for its next poll.
LEMMA ReportKeeps ==
    ASSUME FollowInv, UNCHANGED <<queued, restate, last, announced>>,
           NEW t \in followers, NEW u \in Tasks, u.pc = "tick",
           Shows(u.f), u.f.batch = t.f.batch, Report(t, u),
           u.f.batch # Foreign /\ announced[u.f.batch] > 0 =>
             u.attempt = 0 /\ ~u.ran /\ ~u.f.heard
    PROVE  FollowInv'
<1> DEFINE w == [u EXCEPT !.ran = @ \/ (u.f.heard /\ ~IsCompleted(u.f))]
<1>1. followers' = {w} /\ shown' = u.f /\ u.f.batch = last
  BY OneTask DEF Report
<1>2. PICK ran \in BOOLEAN : ran = (u.ran \/ (u.f.heard /\ ~IsCompleted(u.f)))
  OBVIOUS
<1>3. w = [u EXCEPT !.ran = ran]
  <2>1. "ran" \in DOMAIN u
    BY DEF Tasks
  <2> QED
    BY <1>2, <2>1, Zenon
<1> HIDE DEF w
<1>4. /\ w \in Tasks /\ w.f = u.f /\ w.pc = "tick" /\ w.attempt = u.attempt /\ w.ran = ran
  BY <1>3 DEF Tasks
<1>5. Shows(u.f)' /\ u.f \in FollowedBatches
  BY DEF Shows, Has
<1>6. w.f.batch # Foreign /\ announced'[w.f.batch] > 0 =>
        w.attempt = 0 /\ ~w.ran /\ ~w.f.heard
  BY <1>2, <1>4
<1>7. TaskInv(w)'
  BY <1>1, <1>4, <1>6 DEF TaskInv, Submitting
<1>8. /\ shown' \in FollowedBatches /\ Shows(shown)' /\ shown'.batch = last'
  BY <1>1, <1>5
<1> QED
  BY <1>1, <1>4, <1>7, <1>8 DEF FollowInv

\* Restate's word is the run's.
LEMMA WordShows ==
    ASSUME WorldInv, NEW f, Shows(f), f.batch \in Batches, Has(f.batch)
    PROVE  LET g == hear(f, restate[f.batch].progress)
           IN  /\ Shows(g) /\ g.batch = f.batch /\ g.heard
               /\ g.progress = restate[f.batch].progress
<1> DEFINE g == hear(f, restate[f.batch].progress)
<1>1. restate[f.batch].progress \in Progresses /\ f \in FollowedBatches
  BY DEF WorldInv, Runs, Shows
<1>2. g \in FollowedBatches /\ g.batch = f.batch /\ g.heard
      /\ g.progress = restate[f.batch].progress
  BY <1>1 DEF hear, FollowedBatches
<1>3. g.progress # None
  BY <1>1, <1>2, Present
<1> HIDE DEF g
<1>4. Shows(g)
  BY <1>2, <1>3, IdTypes DEF Shows, Has
<1> QED
  BY <1>2, <1>4 DEF g

\* A receipt leaves of the snapshot the rows the run has.
LEMMA ReceiptShows ==
    ASSUME WorldInv, NEW f, Shows(f), f.batch \in Batches, Has(f.batch),
           f.progress # None,
           NEW rows, rows \subseteq queued[f.batch],
           DOMAIN restate[f.batch].progress = rows
    PROVE  LET g == leave_out(f, queued[f.batch] \ rows)
           IN  Shows(g) /\ g.batch = f.batch /\ g.heard = f.heard
<1> DEFINE left_out == queued[f.batch] \ rows
           g == leave_out(f, left_out)
<1>1. CASE f.heard
  <2>1. g = f
    BY <1>1 DEF leave_out
  <2> QED
    BY <2>1
<1>2. CASE ~f.heard
  <2> DEFINE rest == Restrict(f.progress, DOMAIN f.progress \ left_out)
  <2>1. g = [f EXCEPT !.progress = rest]
    BY <1>2 DEF leave_out
  <2>2. f.progress \in Progresses /\ f \in FollowedBatches
    BY DEF Shows, FollowedBatches
  <2>3. /\ DOMAIN rest = DOMAIN f.progress \ left_out
        /\ rest \in Progresses
    <3>1. /\ DOMAIN f.progress \in SUBSET Rows
          /\ \A r \in DOMAIN f.progress : f.progress[r] \in Verdicts
      BY <2>2, ProgressTypes
    <3>2. rest = [r \in DOMAIN f.progress \ left_out |-> f.progress[r]]
      BY DEF Restrict
    <3>3. DOMAIN f.progress \ left_out \in SUBSET Rows
      BY <3>1
    <3>4. rest \in [DOMAIN f.progress \ left_out -> Verdicts]
      <4> HIDE DEF left_out, rest
      <4> QED
        BY <3>1, <3>2
    <3> HIDE DEF left_out, rest
    <3> QED
      BY <3>2, <3>3, <3>4, ProgressTypes
  <2> HIDE DEF rest
  <2>4. g \in FollowedBatches /\ g.batch = f.batch /\ g.progress = rest /\ g.heard = f.heard
    <3> HIDE DEF g
    <3> QED
      BY <2>1, <2>2, <2>3 DEF FollowedBatches
  <2>5. rest # None
    BY <2>3, Present
  <2>6. DOMAIN restate[f.batch].progress \subseteq DOMAIN f.progress
    BY DEF Shows
  <2>7. DOMAIN restate[f.batch].progress \subseteq DOMAIN rest
    BY <2>3, <2>6
  <2> HIDE DEF g
  <2>8. Shows(g)
    BY <1>2, <2>4, <2>5, <2>7, IdTypes DEF Shows
  <2> QED
    BY <2>4, <2>8 DEF g, left_out
<1> QED
  BY <1>1, <1>2

\* What the page has said stays true while the runs are what they were.
LEMMA SaidStays ==
    ASSUME UNCHANGED <<queued, restate>>
    PROVE  /\ NamedInv /\ named' = named => NamedInv'
           /\ AnnouncedInv /\ announced' = announced => AnnouncedInv'
           /\ SelectedInv /\ selected' = selected => SelectedInv'
<1>1. NamedInv /\ named' = named => NamedInv'
  BY DEF NamedInv, Has
<1>2. AnnouncedInv /\ announced' = announced => AnnouncedInv'
  BY DEF AnnouncedInv, Has, Completed
<1>3. SelectedInv /\ selected' = selected => SelectedInv'
  BY DEF SelectedInv, Has
<1> QED
  BY <1>1, <1>2, <1>3

\* A batch Restate has is accounted for: its rows leave the selection, and those
\* the run does not hold are named.
LEMMA AccountKeeps ==
    ASSUME NamedInv, SelectedInv, WorldInv, UNCHANGED <<queued, restate>>,
           NEW b \in Batches, Has(b), NEW left_out, account_for(b, left_out),
           \A r \in left_out : r \notin DOMAIN restate[b].progress
    PROVE  NamedInv' /\ SelectedInv'
<1>0. queued[b] \subseteq Rows
  BY DEF WorldInv
<1>1. /\ selected' = selected \ queued[b]
      /\ named' = named \cup {<<b, r>> : r \in left_out \cap queued[b]}
  BY DEF account_for
<1>2. named' \subseteq Batches \X Rows
  BY <1>0, <1>1 DEF NamedInv
<1>3. ASSUME NEW c \in Batches, NEW r \in Rows, <<c, r>> \in named'
      PROVE  Has(c) /\ r \notin DOMAIN restate[c].progress
  <2>1. CASE <<c, r>> \in named
    BY <2>1 DEF NamedInv
  <2>2. CASE <<c, r>> \notin named
    <3>1. c = b /\ r \in left_out
      BY <1>1, <1>3, <2>2
    <3> QED
      BY <3>1
  <2> QED
    BY <2>1, <2>2
<1>4. NamedInv'
  BY <1>2, <1>3 DEF NamedInv, Has
<1>5. SelectedInv'
  BY <1>1 DEF SelectedInv, Has
<1> QED
  BY <1>4, <1>5

\* Restate's word is shown, and a run that it says is complete is announced once.
LEMMA HeardKeeps ==
    ASSUME FollowInv, WorldInv, AnnouncedInv, UNCHANGED <<queued, restate, last>>,
           NEW t \in followers, t.f.batch \in Batches, Has(t.f.batch),
           NEW u \in Tasks, u.f = hear(t.f, restate[t.f.batch].progress),
           u.attempt = t.attempt, u.ran = t.ran,
           u.pc = "tick" \/ Completed(restate[t.f.batch].progress),
           Heard(t, u)
    PROVE  FollowInv' /\ AnnouncedInv'
<1> DEFINE b == t.f.batch
           run == restate[b].progress
<1>1. /\ Shows(t.f) /\ b = last /\ TaskInv(t) /\ Ended(t) = {} /\ b # Foreign
  BY OneTask, IdTypes
<1>2. /\ Shows(u.f) /\ u.f.batch = b /\ u.f.heard /\ u.f.progress = run
  BY <1>1, WordShows
<1>3. run # None
  <2>1. run \in Progresses
    BY DEF WorldInv, Runs
  <2> QED
    BY <2>1, Present
<1>4. IsCompleted(u.f) <=> Completed(run)
  BY <1>2, <1>3 DEF IsCompleted
<1>5. announced[b] \in Nat /\ announced[b] <= 1
  BY DEF AnnouncedInv
<1>6. announced[b] > 0 => t.attempt = 0 /\ ~t.ran
  BY <1>1 DEF TaskInv
<1>7. CASE Completed(run)
  <2>1. followers' = {} /\ shown' = u.f /\ ConcludeCompleted(u)
    BY <1>1, <1>4, <1>7 DEF Heard
  <2>2. FollowInv'
    BY <1>1, <1>2, <2>1, FollowEndsKeeps
  <2>3. AnnouncedInv'
    <3>1. CASE IsNews(u)
      <4>1. announced[b] = 0
        BY <1>5, <1>6, <3>1 DEF IsNews
      <4>2. announced' = [announced EXCEPT ![b] = 1]
        BY <1>2, <2>1, <3>1, <4>1 DEF ConcludeCompleted, AnnouncedInv
      <4>3. announced' \in [Batches -> Nat]
        BY <4>2 DEF AnnouncedInv
      <4>4. \A c \in Batches :
              /\ announced'[c] <= 1
              /\ announced'[c] = 1 => Completed(restate[c].progress) /\ Has(c)
        BY <1>7, <4>2 DEF AnnouncedInv
      <4> QED
        BY <4>3, <4>4 DEF AnnouncedInv, Has, Completed
    <3>2. CASE ~IsNews(u)
      BY <2>1, <3>2, SaidStays DEF ConcludeCompleted
    <3> QED
      BY <3>1, <3>2
  <2> QED
    BY <2>2, <2>3
<1>8. CASE ~Completed(run)
  <2>1. Report(t, u) /\ announced' = announced
    BY <1>4, <1>8 DEF Heard
  <2>2. ~(announced[b] > 0)
    BY <1>5, <1>8 DEF AnnouncedInv
  <2>3. FollowInv'
    BY <1>2, <1>8, <2>1, <2>2, ReportKeeps
  <2> QED
    BY <2>1, <2>3, SaidStays
<1> QED
  BY <1>7, <1>8

\* A task whose batch Restate has waits for its next poll.
LEMMA VouchedTypes ==
    ASSUME NEW t \in Tasks
    PROVE  /\ Vouched(t) \in Tasks
           /\ Vouched(t).pc = "tick" /\ Vouched(t).f = t.f
           /\ Vouched(t).attempt = t.attempt /\ Vouched(t).ran = t.ran
           /\ \A g \in FollowedBatches :
                LET u == [Vouched(t) EXCEPT !.f = g]
                IN  /\ u \in Tasks /\ u.f = g /\ u.pc = "tick"
                    /\ u.attempt = t.attempt /\ u.ran = t.ran
BY DEF Vouched, Tasks

\* A task that finds its batch with Restate settles it and tells the page.
LEMMA AlreadyKeeps ==
    ASSUME FollowInv, WorldInv, AnnouncedInv, NamedInv, SelectedInv,
           UNCHANGED <<queued, restate, last>>, wire' \subseteq wire,
           NEW t \in followers, t.f.batch \in Batches, Has(t.f.batch),
           NEW progress, progress = None \/ progress = restate[t.f.batch].progress,
           Already(t, progress)
    PROVE  FollowInv' /\ AnnouncedInv' /\ NamedInv' /\ SelectedInv'
<1>0. t \in Tasks /\ Shows(t.f)
  BY OneTask
<1>1. CASE progress = None
  <2>1. /\ account_for(t.f.batch, {})
        /\ followers' = Replaced(t, Vouched(t))
        /\ UNCHANGED <<shown, announced>>
    BY <1>1 DEF Already
  <2>2. QuietMove(t, Vouched(t))
    BY <1>0, VouchedTypes DEF QuietMove, Submitting
  <2>3. FollowInv'
    BY <2>1, <2>2, QuietMoveKeeps
  <2>4. NamedInv' /\ SelectedInv'
    BY <2>1, AccountKeeps
  <2> QED
    BY <2>1, <2>3, <2>4, SaidStays
<1>2. CASE progress # None
  <2> DEFINE g == hear(t.f, restate[t.f.batch].progress)
             u == [Vouched(t) EXCEPT !.f = g]
  <2>1. progress = restate[t.f.batch].progress
    BY <1>2
  <2>2. /\ account_for(t.f.batch, left_out_of(t.f, progress))
        /\ Heard(t, [Vouched(t) EXCEPT !.f = hear(@, progress)])
    BY <1>2 DEF Already
  <2>3. [Vouched(t) EXCEPT !.f = hear(@, progress)] = u
    BY <1>0, <2>1, VouchedTypes DEF Tasks
  <2>4. g \in FollowedBatches
    BY <1>0, WordShows DEF Shows
  <2>5. /\ u \in Tasks /\ u.f = g /\ u.pc = "tick"
        /\ u.attempt = t.attempt /\ u.ran = t.ran
    <3> HIDE DEF g
    <3> QED
      BY <1>0, <2>4, VouchedTypes
  <2>6. FollowInv' /\ AnnouncedInv'
    <3> HIDE DEF u
    <3> QED
      BY <2>2, <2>3, <2>5, HeardKeeps
  <2>7. \A r \in left_out_of(t.f, progress) : r \notin DOMAIN restate[t.f.batch].progress
    BY <2>1 DEF left_out_of
  <2>8. NamedInv' /\ SelectedInv'
    BY <2>2, <2>7, AccountKeeps
  <2> QED
    BY <2>6, <2>8
<1> QED
  BY <1>1, <1>2

-----------------------------------------------------------------------------
(* The steps of a task                                                     *)

\* What a task's step may disturb.
TaskKeeps == FollowInv /\ AnnouncedInv /\ NamedInv /\ SelectedInv

\* A task that submits follows a batch the page has minted.
LEMMA SubmitsMinted ==
    ASSUME FollowInv, NEW t \in followers, t.pc \in Submitting
    PROVE  /\ t.f.batch \in Batches /\ t.f.progress # None
           /\ \A m \in wire : m.batch = t.f.batch => m.attempt <= t.attempt
BY OneTask, IdTypes DEF TaskInv, Shows

\* The task moves on, and the page says nothing more.
LEMMA MovesOn ==
    ASSUME TaskKeeps, UNCHANGED <<queued, restate, last, selected, named, announced, shown>>,
           wire' \subseteq wire,
           NEW t \in followers, NEW u, QuietMove(t, u), followers' = Replaced(t, u)
    PROVE  TaskKeeps'
BY QuietMoveKeeps, SaidStays DEF TaskKeeps

\* The task ends, with the follow where it was or gone from the page.
LEMMA GivesUp ==
    ASSUME TaskKeeps, UNCHANGED <<queued, restate, last, selected, named, announced>>,
           NEW t \in followers, followers' = Ended(t), shown' \in {shown, None}
    PROVE  TaskKeeps'
<1>1. followers' = {} /\ Shows(shown) /\ shown.batch = last
  BY OneTask DEF TaskKeeps
<1>2. shown' = None \/ (Shows(shown') /\ shown'.batch = last)
  BY <1>1
<1> QED
  BY <1>1, <1>2, FollowEndsKeeps, SaidStays DEF TaskKeeps

\* A submission that Restate has not taken is sent again or given up.
LEMMA UntakenKeeps ==
    ASSUME TaskKeeps, UNCHANGED <<queued, restate, last>>, wire' \subseteq wire,
           NEW t \in followers, t.pc = "ask", Untaken(t)
    PROVE  TaskKeeps'
<1>1. /\ UNCHANGED <<selected, named, announced>>
      /\ \/ StandDown(t)
         \/ /\ ~IsLastAttempt(t)
            /\ followers' = Replaced(t, [t EXCEPT !.pc = "begin"]) /\ shown' = shown
  BY DEF Untaken
<1>2. CASE StandDown(t)
  BY <1>1, <1>2, GivesUp DEF StandDown
<1>3. CASE /\ ~IsLastAttempt(t)
           /\ followers' = Replaced(t, [t EXCEPT !.pc = "begin"]) /\ shown' = shown
  <2>1. t \in Tasks /\ TaskInv(t)
    BY OneTask DEF TaskKeeps
  <2>2. t.attempt > 0 /\ t.attempt < SubmitAttempts
    BY <1>3, <2>1, IdTypes DEF TaskInv, IsLastAttempt, Tasks
  <2>3. QuietMove(t, [t EXCEPT !.pc = "begin"])
    BY <2>1, <2>2 DEF QuietMove, Tasks, Submitting
  <2> QED
    BY <1>1, <1>3, <2>3, MovesOn
<1> QED
  BY <1>1, <1>2, <1>3

\* A submission whose answer is lost is asked after.
LEMMA AskAfterKeeps ==
    ASSUME TaskKeeps, UNCHANGED <<queued, restate, last>>, wire' \subseteq wire,
           NEW t \in followers, t.pc = "submit", AskAfter(t)
    PROVE  TaskKeeps'
<1>1. CASE signed_out
  BY <1>1, GivesUp DEF AskAfter, RefuseSubmission, StandDown
<1>2. CASE ~signed_out
  <2>1. t \in Tasks /\ t.attempt > 0
    BY OneTask DEF TaskKeeps, TaskInv
  <2>2. QuietMove(t, [t EXCEPT !.pc = "ask"])
    BY <2>1 DEF QuietMove, Tasks, Submitting
  <2> QED
    BY <1>2, <2>2, MovesOn DEF AskAfter, OnlyFollow
<1> QED
  BY <1>1, <1>2

\* The task waits for its next poll, having heard nothing.
LEMMA TicksKeeps ==
    ASSUME TaskKeeps, UNCHANGED <<queued, restate, last, selected, named, announced>>,
           NEW t \in followers, NEW u \in Tasks, u.pc = "tick", u.f = t.f,
           u.attempt = t.attempt, u.ran = t.ran, Report(t, u)
    PROVE  TaskKeeps'
<1>1. Shows(t.f) /\ TaskInv(t)
  BY OneTask DEF TaskKeeps
<1>2. u.f.batch # Foreign /\ announced[u.f.batch] > 0 =>
        u.attempt = 0 /\ ~u.ran /\ ~u.f.heard
  BY <1>1 DEF TaskInv
<1>3. FollowInv'
  BY <1>1, <1>2, ReportKeeps DEF TaskKeeps
<1> QED
  BY <1>3, SaidStays DEF TaskKeeps

\* A submission goes out, the only one with its number.
LEMMA SubmitBeginsKeeps ==
    ASSUME TaskKeeps, WireInv, WorldInv, UNCHANGED last,
           NEW t \in followers, SubmitBegins(t)
    PROVE  TaskKeeps' /\ WireInv'
<1> DEFINE u == [t EXCEPT !.pc = "submit", !.attempt = @ + 1]
           s == [batch |-> t.f.batch, attempt |-> t.attempt + 1, stage |-> "sent", rows |-> {}]
<1>1. /\ t \in Tasks /\ TaskInv(t) /\ Shows(t.f) /\ t.f.batch = last /\ shown = t.f
      /\ t.f \in FollowedBatches
  BY OneTask DEF TaskKeeps
<1>2. /\ t.pc = "begin" /\ followers' = {u}
      /\ wire' = wire \cup {Submission(u)}
      /\ UNCHANGED <<queued, restate, shown, selected, named, announced>>
  BY OneTask DEF SubmitBegins, TaskKeeps, world, OnlyFollow
<1>3. /\ t.f.batch \in Batches /\ t.f.progress # None
      /\ \A m \in wire : m.batch = t.f.batch => m.attempt <= t.attempt
      /\ t.attempt < SubmitAttempts
      /\ t.attempt = 0 => ~Has(t.f.batch)
      /\ t.attempt \in Nat
  BY <1>1, <1>2, SubmitsMinted, IdTypes DEF TaskKeeps, TaskInv, Submitting, Tasks
<1>4. /\ u \in Tasks /\ u.pc = "submit" /\ u.f = t.f /\ u.attempt = t.attempt + 1 /\ u.ran = t.ran
  <2>1. PICK next \in 0..SubmitAttempts : next = t.attempt + 1
    BY <1>3, IdTypes
  <2>2. u = [t EXCEPT !.pc = "submit", !.attempt = next]
    BY <1>1, <2>1 DEF Tasks
  <2> HIDE DEF u
  <2> QED
    BY <1>1, <2>1, <2>2 DEF Tasks
<1>5. Submission(u) = s
  BY <1>4 DEF Submission
<1>6. /\ s.batch = t.f.batch /\ s.attempt = t.attempt + 1 /\ s.stage = "sent" /\ s.rows = {}
      /\ s \in Submissions
  BY <1>3, IdTypes DEF Submissions
<1> HIDE DEF u, s
<1>7. wire' = wire \cup {s}
  BY <1>2, <1>5
<1>8. \A m \in wire : m.attempt \in Nat /\ m.attempt > 0
  BY IdTypes DEF WireInv, Submissions
<1>9. \A m \in wire' : m.batch = t.f.batch => m.attempt <= u.attempt
  BY <1>3, <1>4, <1>6, <1>7, <1>8
<1>10. u.attempt = 1 => \A m \in wire' : m.batch = t.f.batch => m = s
  BY <1>3, <1>4, <1>6, <1>7, <1>8
<1>11. ~(announced[t.f.batch] > 0) \/ t.attempt = 0
  BY <1>1, <1>3, IdTypes DEF TaskInv
<1>12. ~(announced[t.f.batch] > 0)
  BY <1>3, <1>11 DEF TaskKeeps, AnnouncedInv
<1>13. queued[t.f.batch] # {}
  BY <1>1, <1>2 DEF TaskInv, Submitting
<1>14. TaskInv(u)'
  <2>1. u.attempt = 1 =>
          \A m \in wire' : m.batch = t.f.batch =>
            m.stage = "sent" /\ ~Has(m.batch)
    BY <1>3, <1>4, <1>6, <1>10
  <2>2. u.attempt > 0
    BY <1>3, <1>4
  <2> QED
    BY <1>1, <1>2, <1>3, <1>4, <1>9, <1>12, <1>13, <2>1, <2>2 DEF TaskInv, Has
<1>15. FollowInv'
  <2>1. Shows(t.f)'
    BY <1>1, <1>2, ShowsStay
  <2> QED
    BY <1>1, <1>2, <1>4, <1>14, <2>1 DEF FollowInv
<1>16. WireInv'
  <2>1. \A m, n \in wire' : m.batch = n.batch /\ m.attempt = n.attempt => m = n
    BY <1>3, <1>6, <1>7 DEF WireInv
  <2>2. \A m \in wire' : /\ queued[m.batch] # {}
                         /\ m.rows \subseteq queued[m.batch]
                         /\ m.stage = "accepted" => Has(m.batch)
    BY <1>6, <1>7, <1>13 DEF WireInv
  <2>3. wire' \subseteq Submissions
    BY <1>6, <1>7 DEF WireInv
  <2> QED
    BY <1>2, <2>1, <2>2, <2>3 DEF WireInv, Has
<1> QED
  BY <1>2, <1>15, <1>16, SaidStays DEF TaskKeeps

\* A receipt is of the run Restate has; a later answer has it asked.
LEMMA SubmissionAnsweredKeeps ==
    ASSUME TaskKeeps, WireInv, WorldInv, UNCHANGED last,
           NEW t \in followers, NEW m \in wire, SubmissionAnswered(t, m)
    PROVE  TaskKeeps'
<1>1. /\ t \in Tasks /\ TaskInv(t) /\ Shows(t.f) /\ t.f.batch = last /\ shown = t.f
      /\ t.f \in FollowedBatches
  BY OneTask DEF TaskKeeps
<1>2. /\ t.pc = "submit" /\ m.batch = t.f.batch /\ m.stage = "accepted"
      /\ wire' \subseteq wire
      /\ UNCHANGED <<queued, restate>>
  BY DEF SubmissionAnswered, Awaits, world
<1>3. /\ t.f.batch \in Batches /\ t.f.progress # None /\ Has(t.f.batch)
      /\ m.rows \subseteq queued[t.f.batch]
      /\ t.attempt > 0
  BY <1>1, <1>2, SubmitsMinted DEF TaskKeeps, WireInv, Submitting, TaskInv
<1>4. CASE IsReceipt(t)
  <2> DEFINE left_out == queued[t.f.batch] \ m.rows
             g == leave_out(t.f, left_out)
             u == [Vouched(t) EXCEPT !.f = g]
  <2>1. /\ Report(t, [Vouched(t) EXCEPT !.f = leave_out(@, queued[m.batch] \ m.rows)])
        /\ account_for(m.batch, queued[m.batch] \ m.rows)
        /\ announced' = announced
    BY <1>4 DEF SubmissionAnswered
  <2>2. Vouched(t).f = t.f
    BY <1>1, VouchedTypes
  <2>3. [Vouched(t) EXCEPT !.f = leave_out(@, queued[m.batch] \ m.rows)] = u
    BY <1>1, <1>2, <2>2, VouchedTypes DEF Tasks
  <2>4. DOMAIN restate[t.f.batch].progress = m.rows
    BY <1>1, <1>2, <1>4 DEF IsReceipt, TaskInv
  <2>5. Shows(g) /\ g.batch = t.f.batch
    BY <1>1, <1>3, <2>4, ReceiptShows
  <2>6. /\ u \in Tasks /\ u.f = g /\ u.pc = "tick"
        /\ u.attempt = t.attempt /\ u.ran = t.ran
    <3>1. g \in FollowedBatches
      BY <2>5 DEF Shows
    <3> HIDE DEF g
    <3> QED
      BY <1>1, <3>1, VouchedTypes
  <2>7. ~(announced[t.f.batch] > 0)
    BY <1>1, <1>3, IdTypes DEF TaskInv
  <2>8. FollowInv'
    <3> HIDE DEF u, g
    <3> QED
      BY <1>2, <2>1, <2>3, <2>5, <2>6, <2>7, ReportKeeps DEF TaskKeeps
  <2>9. NamedInv' /\ SelectedInv'
    BY <1>2, <1>3, <2>1, <2>4, AccountKeeps DEF TaskKeeps
  <2> QED
    BY <1>2, <2>1, <2>8, <2>9, SaidStays DEF TaskKeeps
<1>5. CASE ~IsReceipt(t) /\ signed_out
  <2>1. Already(t, None)
    BY <1>5 DEF SubmissionAnswered
  <2> QED
    BY <1>2, <1>3, <2>1, AlreadyKeeps DEF TaskKeeps
<1>6. CASE ~IsReceipt(t) /\ ~signed_out
  <2>1. /\ followers' = Replaced(t, [t EXCEPT !.pc = "confirm"])
        /\ UNCHANGED <<selected, shown, named, announced>>
    BY <1>6 DEF SubmissionAnswered
  <2>2. QuietMove(t, [t EXCEPT !.pc = "confirm"])
    BY <1>1, <1>2, <1>3 DEF QuietMove, Tasks, Submitting
  <2> QED
    BY <1>2, <2>1, <2>2, MovesOn
<1> QED
  BY <1>4, <1>5, <1>6

\* The projection vouches for a batch it lists, and its record is of a run that
\* has ended.
LEMMA ProjectedAnsweredKeeps ==
    ASSUME TaskKeeps, WorldInv, UNCHANGED last,
           NEW t \in followers, ProjectedAnswered(t)
    PROVE  TaskKeeps'
<1> DEFINE b == t.f.batch
           word == IF b = Foreign THEN "unknown" ELSE record[b]
<1>1. /\ t \in Tasks /\ TaskInv(t) /\ Shows(t.f) /\ b \in Ids
  BY OneTask DEF TaskKeeps
<1>2. UNCHANGED <<queued, restate, selected, named>>
  BY DEF ProjectedAnswered, world
<1>3. word \in {"finished", "running", "unknown", "unlisted"}
  BY <1>1, IdTypes DEF WorldInv
<1>4. CASE word = "finished"
  <2>1. Heard(t, [t EXCEPT !.f = hear(@, restate[b].progress)])
    BY <1>4 DEF ProjectedAnswered
  <2>2. b \in Batches /\ Has(b) /\ Completed(restate[b].progress)
    BY <1>1, <1>4, IdTypes DEF WorldInv, Has
  <2> DEFINE g == hear(t.f, restate[b].progress)
             u == [t EXCEPT !.f = g]
  <2>3. [t EXCEPT !.f = hear(@, restate[b].progress)] = u
    BY <1>1 DEF Tasks
  <2>4. g \in FollowedBatches
    BY <1>1, <2>2, WordShows DEF TaskKeeps, Shows
  <2>5. u \in Tasks /\ u.f = g /\ u.attempt = t.attempt /\ u.ran = t.ran
    <3> HIDE DEF g
    <3> QED
      BY <1>1, <2>4 DEF Tasks
  <2>6. FollowInv' /\ AnnouncedInv'
    <3> HIDE DEF u
    <3> QED
      BY <1>2, <2>1, <2>2, <2>3, <2>5, HeardKeeps DEF TaskKeeps
  <2> QED
    BY <1>2, <2>6, SaidStays DEF TaskKeeps
<1>5. CASE word = "running"
  <2>1. Report(t, Vouched(t)) /\ announced' = announced
    BY <1>5 DEF ProjectedAnswered
  <2> QED
    BY <1>1, <1>2, <2>1, VouchedTypes, TicksKeeps
<1>6. CASE word \in {"unknown", "unlisted"}
  <2>1. Report(t, [t EXCEPT !.pc = "tick"]) /\ announced' = announced
    BY <1>6 DEF ProjectedAnswered
  <2>2. LET u == [t EXCEPT !.pc = "tick"]
        IN  u \in Tasks /\ u.pc = "tick" /\ u.f = t.f /\ u.attempt = t.attempt /\ u.ran = t.ran
    BY <1>1 DEF Tasks
  <2> QED
    BY <1>2, <2>1, <2>2, TicksKeeps
<1> QED
  BY <1>3, <1>4, <1>5, <1>6

\* A poll brings Restate's word, or finds nothing once more.
LEMMA PollAnsweredKeeps ==
    ASSUME TaskKeeps, WorldInv, UNCHANGED last,
           NEW t \in followers, PollAnswered(t)
    PROVE  TaskKeeps'
<1> DEFINE b == t.f.batch
           progress == load_batch_progress(b)
           empty == EmptyPolls(t)
<1>1. /\ t \in Tasks /\ TaskInv(t) /\ Shows(t.f) /\ b \in Ids
  BY OneTask DEF TaskKeeps
<1>2. UNCHANGED <<queued, restate, selected, named>>
  BY DEF PollAnswered, world
<1>3. CASE progress # None
  <2>1. Heard(t, [Vouched(t) EXCEPT !.f = hear(@, progress)])
    BY <1>3 DEF PollAnswered
  <2>2. b \in Batches /\ Has(b) /\ progress = restate[b].progress
    BY <1>1, <1>3, Loaded
  <2> DEFINE g == hear(t.f, restate[b].progress)
             u == [Vouched(t) EXCEPT !.f = g]
  <2>3. [Vouched(t) EXCEPT !.f = hear(@, progress)] = u
    BY <1>1, <2>2, VouchedTypes DEF Tasks
  <2>4. g \in FollowedBatches
    BY <1>1, <2>2, WordShows DEF TaskKeeps, Shows
  <2>5. u \in Tasks /\ u.f = g /\ u.pc = "tick" /\ u.attempt = t.attempt /\ u.ran = t.ran
    <3> HIDE DEF g
    <3> QED
      BY <1>1, <2>4, VouchedTypes
  <2>6. FollowInv' /\ AnnouncedInv'
    <3> HIDE DEF u
    <3> QED
      BY <1>2, <2>1, <2>2, <2>3, <2>5, HeardKeeps DEF TaskKeeps
  <2> QED
    BY <1>2, <2>6, SaidStays DEF TaskKeeps
<1>4. CASE progress = None /\ ~t.known /\ empty = AttachLimit
  BY <1>2, <1>4, GivesUp DEF PollAnswered, StandDown
<1>5. CASE progress = None /\ ~(~t.known /\ empty = AttachLimit)
  <2>1. /\ Report(t, [t EXCEPT !.pc = "tick", !.empty = empty])
        /\ announced' = announced
    BY <1>5 DEF PollAnswered
  <2>2. empty \in 0..(AttachLimit - 1)
    <3>1. t.empty \in 0..(AttachLimit - 1)
      BY <1>1 DEF Tasks
    <3> QED
      BY <1>5, <3>1, IdTypes DEF EmptyPolls
  <2>3. LET u == [t EXCEPT !.pc = "tick", !.empty = empty]
        IN  u \in Tasks /\ u.pc = "tick" /\ u.f = t.f /\ u.attempt = t.attempt /\ u.ran = t.ran
    <3> HIDE DEF empty
    <3> QED
      BY <1>1, <2>2 DEF Tasks
  <2> HIDE DEF empty
  <2> QED
    BY <1>2, <2>1, <2>3, TicksKeeps
<1> QED
  BY <1>3, <1>4, <1>5

\* An event counts towards its bound.
LEMMA Events ==
    ASSUME EdgeTypes, events' = events \/ Event
    PROVE  events' \in 0..MaxEvents
BY IdTypes DEF EdgeTypes, Event

\* What every step of a task leaves alone.
LEMMA TaskFrame ==
    ASSUME EdgeTypes, NEW t \in followers, UNCHANGED last, Steps(t) \/ Fails(t)
    PROVE  /\ UNCHANGED <<world, last, retry, refusing>>
           /\ signed_out' \in BOOLEAN
           /\ events' = events \/ Event
           /\ wire' \subseteq wire \/ SubmitBegins(t)
<1>1. CASE SubmitBegins(t)
  BY <1>1 DEF SubmitBegins, OnlyFollow, EdgeTypes
<1>2. CASE AskAnswered(t) \/ ConfirmAnswered(t)
  BY <1>2 DEF AskAnswered, ConfirmAnswered, EdgeTypes
<1>3. CASE \E m \in wire : SubmissionAnswered(t, m)
  BY <1>3 DEF SubmissionAnswered, EdgeTypes
<1>4. ASSUME AskAfter(t) PROVE retry' = retry /\ signed_out' \in BOOLEAN
  BY <1>4 DEF AskAfter, RefuseSubmission, OnlyFollow, EdgeTypes
<1>5. CASE \E m \in wire : SubmissionRejected(t, m) \/ SubmissionFails(t, m)
  BY <1>4, <1>5 DEF SubmissionRejected, SubmissionFails
<1>6. CASE SubmitRefused(t)
  BY <1>6 DEF SubmitRefused, RefuseSubmission, EdgeTypes
<1>7. CASE Lookup(t) \/ PollBegins(t)
  BY <1>7 DEF Lookup, PollBegins, OnlyFollow, EdgeTypes
<1>8. CASE ProjectedAnswered(t) \/ PollAnswered(t)
  BY <1>8 DEF ProjectedAnswered, PollAnswered, EdgeTypes
<1>9. CASE FollowRefused(t)
  BY <1>9 DEF FollowRefused, SignOut, EdgeTypes
<1>10. CASE AskFails(t) \/ ConfirmFails(t)
  BY <1>10 DEF AskFails, ConfirmFails, EdgeTypes
<1>11. CASE ProjectedFails(t) \/ PollFails(t)
  BY <1>11 DEF ProjectedFails, PollFails, OnlyFollow, EdgeTypes
<1> QED
  BY <1>1, <1>2, <1>3, <1>5, <1>6, <1>7, <1>8, <1>9, <1>10, <1>11 DEF Steps, Fails

\* One task's step, whichever it is.
LEMMA TaskStepKeeps ==
    ASSUME FollowerInv, NEW t \in followers, UNCHANGED last, Steps(t) \/ Fails(t)
    PROVE  TaskKeeps' /\ WireInv'
<1>0. /\ TaskKeeps /\ WireInv /\ WorldInv
      /\ UNCHANGED <<queued, restate, last>>
      /\ wire' \subseteq wire \/ SubmitBegins(t)
      /\ t \in Tasks /\ TaskInv(t) /\ t.f.batch \in Ids
  BY TaskFrame, OneTask DEF FollowerInv, TaskKeeps, world
<1>1. wire' \subseteq wire => WireInv'
  BY <1>0 DEF WireInv, Has
<1>2. CASE SubmitBegins(t)
  BY <1>0, <1>2, SubmitBeginsKeeps
<1>3. ASSUME wire' \subseteq wire PROVE TaskKeeps'
  <2>1. CASE \E m \in wire : SubmissionAnswered(t, m)
    BY <1>0, <2>1, SubmissionAnsweredKeeps
  <2>2. CASE \E m \in wire : SubmissionRejected(t, m) \/ SubmissionFails(t, m)
    <3>1. t.pc = "submit" /\ AskAfter(t)
      BY <2>2 DEF SubmissionRejected, SubmissionFails, Awaits
    <3> QED
      BY <1>0, <1>3, <3>1, AskAfterKeeps
  <2>3. CASE AskAnswered(t)
    <3> DEFINE progress == load_batch_progress(t.f.batch)
    <3>1. t.pc = "ask" /\ IF progress = None THEN Untaken(t) ELSE Already(t, progress)
      BY <2>3 DEF AskAnswered
    <3>2. CASE progress = None
      BY <1>0, <1>3, <3>1, <3>2, UntakenKeeps
    <3>3. CASE progress # None
      <4>1. t.f.batch \in Batches /\ Has(t.f.batch) /\ progress = restate[t.f.batch].progress
        BY <1>0, <3>3, Loaded
      <4> QED
        BY <1>0, <1>3, <3>1, <3>3, <4>1, AlreadyKeeps DEF TaskKeeps
    <3> QED
      BY <3>2, <3>3
  <2>4. CASE AskFails(t)
    BY <1>0, <1>3, <2>4, UntakenKeeps DEF AskFails
  <2>5. CASE ConfirmAnswered(t) \/ ConfirmFails(t)
    <3>1. t.pc = "confirm" /\ (Already(t, load_batch_progress(t.f.batch)) \/ Already(t, None))
      BY <2>5 DEF ConfirmAnswered, ConfirmFails
    <3>2. t.f.batch \in Batches /\ Has(t.f.batch)
      BY <1>0, <3>1, SubmitsMinted DEF TaskKeeps, TaskInv, Submitting
    <3>3. \/ load_batch_progress(t.f.batch) = None
          \/ load_batch_progress(t.f.batch) = restate[t.f.batch].progress
      BY <1>0, Loaded
    <3> QED
      BY <1>0, <1>3, <3>1, <3>2, <3>3, AlreadyKeeps DEF TaskKeeps
  <2>6. CASE SubmitRefused(t)
    BY <1>0, <2>6, GivesUp DEF SubmitRefused, RefuseSubmission, StandDown
  <2>7. CASE FollowRefused(t)
    BY <1>0, <2>7, GivesUp DEF FollowRefused, SignOut
  <2>8. CASE Lookup(t)
    <3>1. QuietMove(t, [t EXCEPT !.pc = "projected"])
      BY <1>0 DEF QuietMove, Tasks, Submitting
    <3> QED
      BY <1>0, <1>3, <2>8, <3>1, MovesOn DEF Lookup, OnlyFollow
  <2>9. CASE PollBegins(t)
    <3>1. QuietMove(t, [t EXCEPT !.pc = "poll"])
      BY <1>0 DEF QuietMove, Tasks, Submitting
    <3> QED
      BY <1>0, <1>3, <2>9, <3>1, MovesOn DEF PollBegins, OnlyFollow
  <2>10. CASE ProjectedAnswered(t)
    BY <1>0, <2>10, ProjectedAnsweredKeeps
  <2>11. CASE PollAnswered(t)
    BY <1>0, <2>11, PollAnsweredKeeps
  <2>12. CASE ProjectedFails(t) \/ PollFails(t)
    <3>1. /\ Report(t, [t EXCEPT !.pc = "tick"])
          /\ UNCHANGED <<selected, named, announced>>
      BY <2>12 DEF ProjectedFails, PollFails, OnlyFollow
    <3>2. LET u == [t EXCEPT !.pc = "tick"]
          IN  /\ u \in Tasks /\ u.pc = "tick" /\ u.f = t.f
              /\ u.attempt = t.attempt /\ u.ran = t.ran
      BY <1>0 DEF Tasks
    <3> QED
      BY <1>0, <3>1, <3>2, TicksKeeps
  <2>13. CASE SubmitBegins(t)
    BY <1>2, <2>13
  <2> QED
    BY <2>1, <2>2, <2>3, <2>4, <2>5, <2>6, <2>7, <2>8, <2>9, <2>10, <2>11, <2>12, <2>13
       DEF Steps, Fails
<1> QED
  BY <1>0, <1>1, <1>2, <1>3

\* Every task's step or failure keeps the invariant, the rest of it being others'.
LEMMA TasksKeep ==
    ASSUME FollowerInv, TaskSteps \/ TaskFails
    PROVE  FollowerInv'
<1>1. PICK t \in followers : (Steps(t) \/ Fails(t)) /\ UNCHANGED last
  BY DEF TaskSteps, TaskFails
<1>2. /\ UNCHANGED <<world, last, retry, refusing>>
      /\ signed_out' \in BOOLEAN
      /\ events' = events \/ Event
  BY <1>1, TaskFrame DEF FollowerInv
<1>3. EdgeTypes'
  BY <1>2, Events DEF FollowerInv, EdgeTypes
<1>4. WorldInv'
  BY <1>2 DEF FollowerInv, WorldInv, world, Has, Completed, Minted
<1>5. TaskKeeps' /\ WireInv'
  BY <1>1, TaskStepKeeps
<1> QED
  BY <1>3, <1>4, <1>5 DEF FollowerInv, TaskKeeps

-----------------------------------------------------------------------------
(* The page                                                                *)

\* The page mints an id that nothing has heard of.
LEMMA NextIdIsNew ==
    ASSUME WorldInv, Cardinality(Minted) + 1 \in Batches
    PROVE  LET b == Cardinality(Minted) + 1
           IN  /\ queued[b] = {} /\ ~Has(b)
               /\ DOMAIN restate[b].progress = {}
               /\ \E n \in 0..MaxBatches : Minted = 1..n /\ b = n + 1
<1>1. PICK n \in 0..MaxBatches : Minted = 1..n
  BY DEF WorldInv
<1>2. Cardinality(Minted) = n
  <2>1. 1 \in Int /\ n \in Int /\ n \in Nat
    BY <1>1
  <2>2. Cardinality(1..n) = IF 1 > n THEN 0 ELSE n - 1 + 1
    BY <2>1, FS_Interval
  <2>3. Cardinality(Minted) = Cardinality(1..n)
    BY <1>1, Zenon
  <2> QED
    BY <2>1, <2>2, <2>3
<1>3. n + 1 \in Batches /\ n + 1 \notin Minted
  BY <1>1, <1>2
<1>4. queued[n + 1] = {}
  BY <1>3 DEF Minted
<1> QED
  BY <1>1, <1>2, <1>3, <1>4 DEF WorldInv

\* A batch is queued: its follow takes over, with its snapshot.
LEMMA QueueKeeps ==
    ASSUME FollowerInv, NEW rows \in SUBSET Rows, rows # {}, queue_batch(rows),
           UNCHANGED <<open, restate, record, wire, selected, named, announced>>
    PROVE  TaskKeeps' /\ WorldInv' /\ WireInv'
<1>0. PICK b : b = Cardinality(Minted) + 1
  OBVIOUS
<1> DEFINE f == Following(b, Queued(rows))
           t == Task(f, "begin")
<1>1. /\ b \in Batches
      /\ queued' = [queued EXCEPT ![b] = rows]
      /\ followers' = {t} /\ shown' = f /\ last' = b
  BY <1>0 DEF queue_batch, take_over, Surviving, Following
<1>2. /\ queued[b] = {} /\ ~Has(b)
      /\ DOMAIN restate[b].progress = {}
      /\ \E n \in 0..MaxBatches : Minted = 1..n /\ b = n + 1
  BY <1>0, <1>1, NextIdIsNew DEF FollowerInv
<1>3. queued \in [Batches -> SUBSET Rows]
  BY DEF FollowerInv, WorldInv
<1>4. /\ queued'[b] = rows
      /\ \A c \in Batches : c # b => queued'[c] = queued[c]
      /\ \A c \in Batches : queued[c] \subseteq queued'[c]
  BY <1>1, <1>2, <1>3
<1>5. Queued(rows) \in Progresses /\ DOMAIN Queued(rows) = rows /\ Queued(rows) # None
  <2>1. Queued(rows) \in [rows -> Verdicts]
    BY DEF Queued, Verdicts
  <2>2. Queued(rows) \in Progresses
    BY <2>1, ProgressTypes
  <2> QED
    BY <2>2, Present DEF Queued
<1>6. /\ f \in FollowedBatches /\ f.batch = b /\ f.progress = Queued(rows) /\ ~f.heard
  BY <1>1, <1>5 DEF Following, FollowedBatches, Ids
<1>7. /\ t \in Tasks /\ t.f = f /\ t.pc = "begin" /\ t.attempt = 0 /\ ~t.ran
  BY <1>6, IdTypes DEF Task, Tasks
<1> HIDE DEF f, t
<1>8. b # Foreign
  BY <1>1, IdTypes
<1>9. Shows(f)'
  BY <1>1, <1>2, <1>4, <1>5, <1>6, <1>8 DEF Shows, Has
<1>10. \A m \in wire : m.batch # b
  BY <1>2 DEF FollowerInv, WireInv
<1>11. announced[b] = 0
  BY <1>1, <1>2 DEF FollowerInv, AnnouncedInv
<1>12. TaskInv(t)'
  BY <1>1, <1>2, <1>4, <1>5, <1>6, <1>7, <1>10, <1>11, IdTypes DEF TaskInv, Has
<1>13. FollowInv'
  BY <1>1, <1>6, <1>7, <1>9, <1>12 DEF FollowInv
<1>14. WorldInv'
  <2>1. PICK n \in 0..MaxBatches : Minted = 1..n /\ b = n + 1
    BY <1>2
  <2>2. Minted' = Minted \cup {b}
    BY <1>1, <1>4 DEF Minted
  <2>3. n + 1 \in 0..MaxBatches /\ Minted' = 1..(n + 1)
    BY <1>1, <2>1, <2>2, IdTypes DEF Batches
  <2>4. queued' \in [Batches -> SUBSET Rows]
    BY <1>1, <1>3
  <2>5. \A c \in Batches :
          /\ DOMAIN restate[c].progress \subseteq queued'[c]
          /\ queued'[c] = {} => ~Has(c)
    BY <1>2, <1>4 DEF FollowerInv, WorldInv
  <2> QED
    BY <2>3, <2>4, <2>5 DEF FollowerInv, WorldInv, Has, Completed
<1>15. WireInv'
  <2>1. \A m \in wire : m.batch \in Batches
    BY DEF FollowerInv, WireInv, Submissions
  <2>2. \A m \in wire : queued'[m.batch] = queued[m.batch]
    BY <1>4, <1>10, <2>1
  <2> QED
    BY <2>2 DEF FollowerInv, WireInv, Has
<1>16. SelectedInv'
  BY <1>1, <1>4 DEF FollowerInv, SelectedInv, Has
<1>17. NamedInv' /\ AnnouncedInv'
  BY DEF FollowerInv, NamedInv, AnnouncedInv, Has, Completed
<1> QED
  BY <1>13, <1>14, <1>15, <1>16, <1>17 DEF TaskKeeps

\* A batch is opened by its id alone: nothing of it is shown yet.
LEMMA AttachKeeps ==
    ASSUME FollowerInv, Attach
    PROVE  FollowerInv'
<1>1. PICK b \in Minted \cup {Foreign} : attach_batch(b)
  BY DEF Attach
<1> DEFINE f == Following(b, None)
           t == Task(f, "lookup")
<1>2. /\ Event
      /\ followers' = {t} /\ shown' = f /\ last' = b
      /\ UNCHANGED <<world, wire, refusing, selected, retry, signed_out, named, announced>>
  BY <1>1 DEF attach_batch, take_over, Surviving, Following, OnlyFollow
<1>3. /\ f \in FollowedBatches /\ f.batch = b /\ f.progress = None /\ ~f.heard
  BY <1>1 DEF Following, FollowedBatches, Ids, Minted
<1>4. /\ t \in Tasks /\ t.f = f /\ t.pc = "lookup" /\ t.attempt = 0 /\ ~t.ran
  BY <1>3, IdTypes DEF Task, Tasks
<1> HIDE DEF f, t
<1>5. Shows(f)'
  BY <1>3 DEF Shows
<1>6. TaskInv(t)'
  BY <1>2, <1>3, <1>4 DEF TaskInv, Submitting
<1>7. FollowInv'
  BY <1>2, <1>3, <1>4, <1>5, <1>6 DEF FollowInv
<1>8. WorldInv' /\ WireInv'
  BY <1>2 DEF FollowerInv, WorldInv, WireInv, world, Has, Completed, Minted
<1>9. NamedInv' /\ AnnouncedInv' /\ SelectedInv'
  BY <1>2, SaidStays DEF FollowerInv, world
<1>10. EdgeTypes'
  BY <1>2, Events DEF FollowerInv, EdgeTypes
<1> QED
  BY <1>7, <1>8, <1>9, <1>10 DEF FollowerInv

\* Everything but the page's line and the retry stands.
LEMMA EdgesMove ==
    ASSUME FollowerInv, EdgeTypes',
           UNCHANGED <<world, wire, selected, shown, last, followers, named, announced>>
    PROVE  FollowerInv'
<1>1. FollowInv'
  BY DEF FollowerInv, FollowInv, TaskInv, Shows, Has, world
<1>2. WorldInv' /\ WireInv'
  BY DEF FollowerInv, WorldInv, WireInv, world, Has, Completed, Minted
<1>3. NamedInv' /\ AnnouncedInv' /\ SelectedInv'
  BY SaidStays DEF FollowerInv, world
<1> QED
  BY <1>1, <1>2, <1>3 DEF FollowerInv

\* The page's own steps: what it confirms, attaches to and retries, and its sessions.
LEMMA PageKeeps ==
    ASSUME FollowerInv,
           \/ Confirm \/ Attach \/ RetryPressed \/ RetryAnswered \/ RetryRefused
           \/ CredentialsExpire \/ RefusedElsewhere
    PROVE  FollowerInv'
<1>0. EdgeTypes
  BY DEF FollowerInv
<1>1. CASE Confirm
  <2>1. PICK rows \in {selected} \cup {{r} : r \in Opened} : rows # {} /\ queue_batch(rows)
    BY <1>1 DEF Confirm
  <2>2. rows \in SUBSET Rows
    BY <2>1, FollowerAssumption DEF FollowerInv, SelectedInv
  <2>3. UNCHANGED <<open, restate, record, wire, refusing, events, selected, retry,
                    signed_out, named, announced>>
    BY <1>1 DEF Confirm, OnlyFollow
  <2>4. TaskKeeps' /\ WorldInv' /\ WireInv'
    BY <2>1, <2>2, <2>3, QueueKeeps
  <2> QED
    BY <1>0, <2>3, <2>4 DEF FollowerInv, TaskKeeps, EdgeTypes
<1>2. CASE Attach
  BY <1>2, AttachKeeps
<1>3. CASE RetryPressed
  <2>1. shown # None /\ IsCompleted(shown) /\ retry' = shown.batch
    BY <1>3 DEF RetryPressed
  <2>2. shown.progress # None /\ Shows(shown)
    BY <2>1 DEF IsCompleted, FollowerInv, FollowInv
  <2>3. shown.batch \in Batches
    BY <2>2, IdTypes DEF Shows, FollowedBatches
  <2>4. EdgeTypes'
    BY <1>0, <1>3, <2>1, <2>3 DEF RetryPressed, EdgeTypes
  <2> QED
    BY <1>3, <2>4, EdgesMove DEF RetryPressed
<1>4. CASE RetryAnswered
  <2>1. PICK rows : RetryRefreshed(rows) /\ (events' = events \/ Event)
    BY <1>4 DEF RetryAnswered
  <2>2. /\ rows \in SUBSET Rows /\ retry' = None
        /\ UNCHANGED <<open, restate, record, wire, selected, signed_out, named, announced,
                       refusing>>
    BY <2>1 DEF RetryRefreshed, FollowerInv, WorldInv
  <2>3. EdgeTypes'
    BY <1>0, <2>1, <2>2, Events DEF EdgeTypes
  <2>4. CASE rows = {} \/ ~Follows(retry)
    BY <2>1, <2>2, <2>3, <2>4, EdgesMove DEF RetryRefreshed, world
  <2>5. CASE rows # {} /\ Follows(retry)
    <3>1. queue_batch(rows)
      BY <2>1, <2>5 DEF RetryRefreshed
    <3>2. TaskKeeps' /\ WorldInv' /\ WireInv'
      BY <2>2, <2>5, <3>1, QueueKeeps
    <3> QED
      BY <2>3, <3>2 DEF FollowerInv, TaskKeeps
  <2> QED
    BY <2>4, <2>5
<1>5. CASE RetryRefused
  BY <1>0, <1>5, EdgesMove DEF RetryRefused, EdgeTypes
<1>6. CASE CredentialsExpire
  <2>1. EdgeTypes'
    BY <1>0, <1>6, Events DEF CredentialsExpire, EdgeTypes, page
  <2> QED
    BY <1>6, <2>1, EdgesMove DEF CredentialsExpire, page
<1>7. CASE RefusedElsewhere
  BY <1>0, <1>7, EdgesMove DEF RefusedElsewhere, EdgeTypes
<1> QED
  BY <1>1, <1>2, <1>3, <1>4, <1>5, <1>6, <1>7

-----------------------------------------------------------------------------
(* The server, and Restate                                                 *)

\* A submission moves on at the server: it stays the one with its number.
LEMMA WireSwap ==
    ASSUME WireInv, NEW m \in wire, NEW n \in Submissions,
           n.batch = m.batch, n.attempt = m.attempt,
           wire' = (wire \ {m}) \cup {n} \/ wire' = wire \ {m}
    PROVE  /\ wire' \subseteq Submissions
           /\ \A k, l \in wire' : k.batch = l.batch /\ k.attempt = l.attempt => k = l
           /\ \A k \in wire' : k = n \/ (k \in wire /\ k # m)
           /\ \A b \in Batches, limit \in Nat :
                (\A k \in wire : k.batch = b => k.attempt <= limit) =>
                (\A k \in wire' : k.batch = b => k.attempt <= limit)
BY DEF WireInv

\* A submission's fields, as the server and Restate leave them.
LEMMA SubmissionTypes ==
    ASSUME NEW m \in Submissions
    PROVE  \A stage \in {"resolved", "accepted", "refused"} :
             LET n == [m EXCEPT !.stage = stage]
             IN  /\ n \in Submissions /\ n.batch = m.batch /\ n.attempt = m.attempt
                 /\ n.stage = stage /\ n.rows = m.rows
BY DEF Submissions

\* A call that leaves the wire finds Restate as it is.
LEMMA ServerResolvesKeeps ==
    ASSUME FollowerInv, NEW m \in wire, ServerResolves(m)
    PROVE  FollowerInv'
<1>1. /\ m.stage = "sent" /\ m \in Submissions
      /\ queued[m.batch] \cap open \in SUBSET Rows
      /\ m.rows \subseteq queued[m.batch] /\ queued[m.batch] # {}
      /\ UNCHANGED <<world, page, refusing, events>>
  BY DEF ServerResolves, FollowerInv, WireInv, WorldInv
<1>2. PICK n \in Submissions :
        /\ n.batch = m.batch /\ n.attempt = m.attempt
        /\ n.stage \in {"resolved", "refused"} /\ n.rows \subseteq queued[m.batch]
        /\ wire' = (wire \ {m}) \cup {n} \/ wire' = wire \ {m}
  <2> DEFINE rows == queued[m.batch] \cap open
  <2>1. CASE rows # {}
    <3>1. wire' = (wire \ {m}) \cup {[m EXCEPT !.stage = "resolved", !.rows = rows]}
      BY <2>1 DEF ServerResolves
    <3> DEFINE n == [m EXCEPT !.stage = "resolved", !.rows = rows]
    <3>2. /\ n \in Submissions /\ n.batch = m.batch /\ n.attempt = m.attempt
          /\ n.stage = "resolved" /\ n.rows = rows
      <4>1. rows \in SUBSET Rows
        BY <1>1
      <4> HIDE DEF rows
      <4> QED
        BY <1>1, <4>1 DEF Submissions
    <3> HIDE DEF n
    <3> QED
      BY <3>1, <3>2 DEF n
  <2>2. CASE rows = {}
    <3>1. wire' = (wire \ {m}) \cup {[m EXCEPT !.stage = "refused"]} \/ wire' = wire \ {m}
      BY <2>2 DEF ServerResolves
    <3> QED
      BY <1>1, <3>1, SubmissionTypes
  <2> QED
    BY <2>1, <2>2
<1>3. /\ wire' \subseteq Submissions
      /\ \A k, l \in wire' : k.batch = l.batch /\ k.attempt = l.attempt => k = l
      /\ \A k \in wire' : k = n \/ (k \in wire /\ k # m)
      /\ \A k \in wire' : \E l \in wire : k.batch = l.batch /\ k.attempt = l.attempt
  BY <1>2, WireSwap DEF FollowerInv
<1>4. WireInv'
  BY <1>1, <1>2, <1>3 DEF FollowerInv, WireInv, Has, world
<1>5. ASSUME NEW t \in followers PROVE TaskInv(t)'
  <2>1. TaskInv(t)
    BY DEF FollowerInv, FollowInv
  <2>2. \A k \in wire' : k.batch = t.f.batch => k.attempt <= t.attempt
          \/ ~(t.pc \in Submitting)
    BY <1>3, <2>1 DEF TaskInv
  <2>3. t.pc = "submit" /\ t.attempt = 1 =>
          \A k \in wire' : k.batch = t.f.batch =>
            /\ k.stage \in {"sent", "resolved"} => ~Has(k.batch)
            /\ k.stage = "accepted" => DOMAIN restate[k.batch].progress = k.rows
    BY <1>1, <1>2, <1>3, <2>1 DEF TaskInv
  <2> QED
    BY <1>1, <2>1, <2>2, <2>3 DEF TaskInv, Has, world, page
<1>6. FollowInv'
  BY <1>1, <1>5 DEF FollowerInv, FollowInv, Shows, Has, world, page
<1>7. WorldInv' /\ EdgeTypes'
  BY <1>1 DEF FollowerInv, WorldInv, EdgeTypes, world, page, Has, Completed, Minted
<1>8. NamedInv' /\ AnnouncedInv' /\ SelectedInv'
  BY <1>1, SaidStays DEF FollowerInv, world, page
<1> QED
  BY <1>4, <1>6, <1>7, <1>8 DEF FollowerInv

\* Restate takes the first submission of a batch it is sent; the page, which has
\* not been told, still shows a snapshot that holds the run's rows.
LEMMA RestateAcceptsKeeps ==
    ASSUME FollowerInv, NEW m \in wire, RestateAccepts(m)
    PROVE  FollowerInv'
<1> DEFINE b == m.batch
           n == [m EXCEPT !.stage = "accepted"]
<1>1. /\ m.stage = "resolved" /\ m \in Submissions /\ b \in Batches
      /\ m.rows \in SUBSET queued[b] /\ queued[b] # {} /\ queued[b] \in SUBSET Rows
      /\ m.attempt \in Nat /\ m.attempt > 0
      /\ UNCHANGED <<open, queued, record, page, refusing, events>>
  BY IdTypes DEF RestateAccepts, FollowerInv, WireInv, WorldInv, Submissions
<1>2. /\ restate \in [Batches -> Runs]
      /\ restate' = IF Has(b) THEN restate
                    ELSE [restate EXCEPT ![b] = [stage |-> "taken", progress |-> Queued(m.rows)]]
  BY DEF RestateAccepts, run_batch, FollowerInv, WorldInv, Has
<1>3. /\ n \in Submissions /\ n.batch = b /\ n.attempt = m.attempt
      /\ n.stage = "accepted" /\ n.rows = m.rows
  BY <1>1, SubmissionTypes
<1>4. wire' = (wire \ {m}) \cup {n} \/ wire' = wire \ {m}
  BY DEF RestateAccepts
<1> HIDE DEF n
<1>5. /\ wire' \subseteq Submissions
      /\ \A k, l \in wire' : k.batch = l.batch /\ k.attempt = l.attempt => k = l
      /\ \A k \in wire' : k = n \/ (k \in wire /\ k # m)
  BY <1>1, <1>3, <1>4, WireSwap DEF FollowerInv
<1>6. Queued(m.rows) \in Progresses /\ DOMAIN Queued(m.rows) = m.rows
  <2>1. Queued(m.rows) \in [m.rows -> Verdicts] /\ m.rows \in SUBSET Rows
    BY <1>1 DEF Queued, Verdicts
  <2> QED
    BY <2>1, ProgressTypes DEF Queued
<1>7. /\ restate' \in [Batches -> Runs]
      /\ \A c \in Batches : Has(c) => restate'[c] = restate[c]
      /\ \A c \in Batches : c # b => restate'[c] = restate[c]
      /\ restate'[b].stage # "none"
      /\ ~Has(b) => restate'[b].stage = "taken" /\ DOMAIN restate'[b].progress = m.rows
  <2>1. CASE Has(b)
    BY <1>1, <1>2, <2>1 DEF Has
  <2>2. CASE ~Has(b)
    <3>1. restate' = [restate EXCEPT ![b] = [stage |-> "taken", progress |-> Queued(m.rows)]]
      BY <1>2, <2>2
    <3>2. [stage |-> "taken", progress |-> Queued(m.rows)] \in Runs
      BY <1>6 DEF Runs
    <3> QED
      BY <1>1, <1>2, <1>6, <2>2, <3>1, <3>2
  <2> QED
    BY <2>1, <2>2
<1>8. \A c \in Batches : Has(c) => Has(c)'
  BY <1>7 DEF Has
<1>9. WorldInv'
  <2>1. \A c \in Batches :
          /\ DOMAIN restate'[c].progress \subseteq queued[c]
          /\ queued[c] = {} => restate'[c].stage = "none"
          /\ restate'[c].stage = "none" => DOMAIN restate'[c].progress = {}
          /\ restate'[c].stage \in {"none", "taken"} => record[c] = "unknown"
          /\ record[c] = "finished" => Completed(restate'[c].progress)
    <3> TAKE c \in Batches
    <3>1. CASE restate'[c] = restate[c]
      BY <3>1 DEF FollowerInv, WorldInv, Has
    <3>2. CASE restate'[c] # restate[c]
      <4>1. c = b /\ ~Has(b)
        BY <1>7, <3>2
      <4>2. record[b] = "unknown"
        BY <1>1, <4>1 DEF FollowerInv, WorldInv, Has
      <4> QED
        BY <1>1, <1>7, <4>1, <4>2
    <3> QED
      BY <3>1, <3>2
  <2> QED
    BY <1>1, <1>7, <2>1 DEF FollowerInv, WorldInv, Has, Completed, Minted
<1>10. WireInv'
  <2>1. \A k \in wire' : /\ queued[k.batch] # {}
                         /\ k.rows \subseteq queued[k.batch]
                         /\ k.stage = "accepted" => Has(k.batch)'
    <3> TAKE k \in wire'
    <3>1. CASE k = n
      BY <1>1, <1>3, <1>7, <3>1 DEF Has
    <3>2. CASE k # n
      <4>1. k \in wire /\ k.batch \in Batches
        BY <1>5, <3>2 DEF FollowerInv, WireInv, Submissions
      <4> QED
        BY <1>8, <4>1 DEF FollowerInv, WireInv
    <3> QED
      BY <3>1, <3>2
  <2> QED
    BY <1>1, <1>5, <2>1 DEF WireInv
<1>11. ASSUME NEW f, Shows(f) PROVE Shows(f)'
  <2>1. f \in FollowedBatches /\ (f.batch = Foreign => f.progress = None)
    BY <1>11 DEF Shows
  <2>2. f.batch \in Ids
    BY <2>1 DEF FollowedBatches
  <2>3. CASE f.progress = None
    BY <1>11, <2>3 DEF Shows
  <2>4. CASE f.progress # None
    <3>1. f.batch \in Batches
      BY <2>1, <2>2, <2>4, IdTypes
    <3>2. CASE restate'[f.batch] = restate[f.batch]
      BY <1>1, <1>11, <3>2 DEF Shows, Has
    <3>3. CASE restate'[f.batch] # restate[f.batch]
      <4>1. f.batch = b /\ ~Has(b)
        BY <1>7, <3>1, <3>3
      <4>2. ~f.heard /\ DOMAIN f.progress = queued[b]
        BY <1>11, <2>4, <4>1 DEF Shows
      <4> QED
        BY <1>1, <1>7, <2>1, <2>4, <3>1, <4>1, <4>2, IdTypes DEF Shows, Has
    <3> QED
      BY <3>2, <3>3
  <2> QED
    BY <2>3, <2>4
<1>12. ASSUME NEW t \in followers PROVE TaskInv(t)'
  <2>1. TaskInv(t) /\ t.f.batch \in Ids
    BY OneTask DEF FollowerInv
  <2>2. t.pc \in Submitting => t.f.batch \in Batches
    BY SubmitsMinted DEF FollowerInv
  <2>3. t.pc \in Submitting => \A k \in wire' : k.batch = t.f.batch => k.attempt <= t.attempt
    BY <1>3, <1>5, <2>1 DEF TaskInv
  <2>4. t.pc = "begin" /\ t.attempt = 0 => ~Has(t.f.batch)'
    <3>1. SUFFICES ASSUME t.pc = "begin", t.attempt = 0
                   PROVE  ~Has(t.f.batch)'
      OBVIOUS
    <3>2. m.batch # t.f.batch
      BY <1>1, <2>1, <3>1 DEF TaskInv, Submitting
    <3> QED
      BY <1>7, <2>1, <2>2, <3>1, <3>2 DEF TaskInv, Submitting, Has
  <2>5. ASSUME t.pc = "submit", t.attempt = 1, NEW k \in wire', k.batch = t.f.batch
        PROVE  /\ k.stage \in {"sent", "resolved"} => ~Has(k.batch)'
               /\ k.stage = "accepted" => DOMAIN restate'[k.batch].progress = k.rows
    <3>1. t.f.batch \in Batches
      BY <2>2, <2>5 DEF Submitting
    <3>2. \A l \in wire : l.batch = t.f.batch => l.attempt = 1
      <4>1. \A l \in wire : l.attempt \in Nat /\ l.attempt > 0
        BY IdTypes DEF FollowerInv, WireInv, Submissions
      <4> QED
        BY <2>1, <2>5, <4>1 DEF TaskInv, Submitting
    <3>3. CASE b = t.f.batch
      <4>1. ~Has(b)
        BY <1>1, <2>1, <2>5, <3>3 DEF TaskInv
      <4>2. k = n
        <5>1. \A l \in wire : l.batch = b => l = m
          BY <3>2, <3>3 DEF FollowerInv, WireInv
        <5> QED
          BY <1>5, <2>5, <3>3, <5>1
      <4> QED
        BY <1>3, <1>7, <4>1, <4>2
    <3>4. CASE b # t.f.batch
      <4>1. k \in wire /\ restate'[k.batch] = restate[k.batch]
        BY <1>3, <1>5, <1>7, <2>5, <3>1, <3>4
      <4> QED
        BY <2>1, <2>5, <4>1 DEF TaskInv, Has
    <3> QED
      BY <3>3, <3>4
  <2>6. t.pc = "confirm" => Has(t.f.batch)'
    BY <1>8, <2>1, <2>2 DEF TaskInv, Submitting
  <2> QED
    BY <1>1, <2>1, <2>3, <2>4, <2>5, <2>6 DEF TaskInv, page
<1>13. FollowInv'
  BY <1>1, <1>11, <1>12 DEF FollowerInv, FollowInv, page
<1>14. NamedInv' /\ AnnouncedInv' /\ SelectedInv'
  BY <1>1, <1>7, <1>8 DEF FollowerInv, NamedInv, AnnouncedInv, SelectedInv, page, Has, Completed
<1>15. EdgeTypes'
  BY <1>1 DEF FollowerInv, EdgeTypes, page
<1> QED
  BY <1>9, <1>10, <1>13, <1>14, <1>15 DEF FollowerInv

\* A run goes on: it keeps its rows and the verdicts it has given.
Onward ==
    /\ restate' \in [Batches -> Runs]
    /\ \A b \in Batches :
         /\ Has(b)' <=> Has(b)
         /\ DOMAIN restate'[b].progress = DOMAIN restate[b].progress
         /\ \A r \in DOMAIN restate[b].progress :
              restate[b].progress[r] # "pending" =>
                restate'[b].progress[r] = restate[b].progress[r]

\* What the page holds of the runs, it may hold of what becomes of them.
LEMMA OnwardKeeps ==
    ASSUME FollowerInv, Onward, UNCHANGED <<queued, wire, page, refusing>>,
           events' = events \/ Event
    PROVE  /\ FollowInv' /\ WireInv' /\ NamedInv' /\ AnnouncedInv' /\ SelectedInv' /\ EdgeTypes'
           /\ \A b \in Batches : Completed(restate[b].progress) => Completed(restate'[b].progress)
<1>0. /\ UNCHANGED <<selected, shown, last, followers, retry, signed_out, named, announced>>
      /\ \A b \in Batches : Has(b)' <=> Has(b)
      /\ \A b \in Batches : DOMAIN restate'[b].progress = DOMAIN restate[b].progress
  BY DEF page, Onward
<1>1. \A b \in Batches : Completed(restate[b].progress) => Completed(restate'[b].progress)
  BY DEF Onward, Completed, Settled
<1>2. ASSUME NEW f, Shows(f) PROVE Shows(f)'
  <2>1. f \in FollowedBatches /\ f.batch \in Ids /\ (f.batch = Foreign => f.progress = None)
    BY <1>2 DEF Shows, FollowedBatches
  <2>2. CASE f.progress = None
    BY <1>2, <2>2 DEF Shows
  <2>3. CASE f.progress # None
    <3>1. f.batch \in Batches
      BY <2>1, <2>3, IdTypes
    <3>2. f.heard => \A r \in DOMAIN f.progress :
            f.progress[r] \in {"pending", restate'[f.batch].progress[r]}
      BY <1>2, <2>3, <3>1 DEF Shows, Onward
    <3> QED
      BY <1>0, <1>2, <2>1, <2>3, <3>1, <3>2 DEF Shows
  <2> QED
    BY <2>2, <2>3
<1>3. ASSUME NEW t \in followers PROVE TaskInv(t)'
  <2>1. TaskInv(t)
    BY DEF FollowerInv, FollowInv
  <2>2. t.pc \in Submitting => t.f.batch \in Batches
    BY SubmitsMinted DEF FollowerInv
  <2>3. \A m \in wire : m.batch \in Batches
    BY DEF FollowerInv, WireInv, Submissions
  <2> QED
    BY <1>0, <2>1, <2>2, <2>3 DEF TaskInv, Submitting
<1>4. FollowInv'
  BY <1>0, <1>2, <1>3 DEF FollowerInv, FollowInv
<1>5. WireInv'
  BY <1>0 DEF FollowerInv, WireInv, Submissions
<1>6. NamedInv' /\ AnnouncedInv' /\ SelectedInv'
  BY <1>0, <1>1 DEF FollowerInv, NamedInv, AnnouncedInv, SelectedInv
<1>7. EdgeTypes'
  BY <1>0, Events DEF FollowerInv, EdgeTypes
<1> QED
  BY <1>1, <1>4, <1>5, <1>6, <1>7

\* A verdict is given to a target that had none.
LEMMA SettlesOnward ==
    ASSUME WorldInv, NEW b \in Batches, NEW r \in Rows, Settles(b, r)
    PROVE  Onward /\ \A c \in Batches : restate'[c].stage = restate[c].stage
<1>1. PICK verdict \in {"done", "rejected"} :
        restate' = [restate EXCEPT ![b].progress[r] = verdict]
  BY DEF Settles
<1>2. /\ r \in DOMAIN restate[b].progress
      /\ restate[b].progress[r] = "pending"
      /\ restate \in [Batches -> Runs]
  BY DEF Settles, WorldInv
<1>3. restate[b] \in Runs /\ restate[b].progress \in Progresses
  BY <1>2 DEF Runs
<1> DEFINE before == restate[b].progress
           after == [before EXCEPT ![r] = verdict]
           run == [restate[b] EXCEPT !.progress = after]
<1>4. after \in Progresses /\ DOMAIN after = DOMAIN before
  <2>1. /\ DOMAIN before \in SUBSET Rows
        /\ before \in [DOMAIN before -> Verdicts]
    BY <1>3, ProgressTypes
  <2>2. after \in [DOMAIN before -> Verdicts]
    <3> HIDE DEF before
    <3> QED
      BY <2>1 DEF Verdicts, Settled
  <2> HIDE DEF after, before
  <2> QED
    BY <2>1, <2>2, ProgressTypes
<1>5. \A s \in DOMAIN before : before[s] # "pending" => after[s] = before[s]
  BY <1>2
<1>6. restate' = [restate EXCEPT ![b] = run]
  BY <1>1, <1>2, <1>3 DEF Runs
<1>7. run \in Runs /\ run.stage = restate[b].stage /\ run.progress = after
  <2> HIDE DEF after
  <2> QED
    BY <1>3, <1>4 DEF Runs
<1> HIDE DEF run, after
<1>8. /\ restate' \in [Batches -> Runs]
      /\ restate'[b] = run
      /\ \A c \in Batches : c # b => restate'[c] = restate[c]
  BY <1>2, <1>6, <1>7
<1> QED
  BY <1>4, <1>5, <1>7, <1>8 DEF Onward, Has

\* Batches run, are retired and close their rows without a word to the page.
LEMMA WorldKeeps ==
    ASSUME FollowerInv, BatchesRun \/ BatchesRetire \/ RowsClose
    PROVE  FollowerInv'
<1>0. WorldInv /\ restate \in [Batches -> Runs] /\ open \in SUBSET Rows
  BY DEF FollowerInv, WorldInv
<1>1. ASSUME UNCHANGED <<queued, restate, record, wire, page, refusing>>, open' \in SUBSET Rows,
             events' = events \/ Event
      PROVE  FollowerInv'
  <2>1. Onward
    BY <1>0, <1>1 DEF Onward, Has
  <2>2. WorldInv'
    BY <1>0, <1>1 DEF WorldInv, Has, Completed, Minted
  <2> QED
    BY <1>1, <2>1, <2>2, OnwardKeeps DEF FollowerInv
<1>2. CASE RowsClose
  <2>1. PICK r \in Rows : Closes(r)
    BY <1>2 DEF RowsClose
  <2> QED
    BY <1>0, <1>1, <2>1 DEF Closes
<1>3. ASSUME NEW b \in Batches, Starts(b) \/ Retires(b),
             UNCHANGED <<wire, page, refusing>>, events' = events \/ Event
      PROVE  FollowerInv'
  <2>1. PICK stage \in {"started", "retired"} : restate' = [restate EXCEPT ![b].stage = stage]
    BY <1>3 DEF Starts, Retires
  <2>2. /\ Has(b) /\ UNCHANGED <<open, queued, record>>
    BY <1>3 DEF Starts, Retires, Has
  <2>3. /\ restate' \in [Batches -> Runs]
        /\ restate'[b].stage = stage /\ restate'[b].progress = restate[b].progress
        /\ \A c \in Batches : c # b => restate'[c] = restate[c]
    BY <1>0, <2>1 DEF Runs
  <2>4. Onward
    BY <2>2, <2>3 DEF Onward, Has
  <2>5. WorldInv'
    BY <1>0, <2>2, <2>3 DEF WorldInv, Has, Completed, Minted
  <2> QED
    BY <1>3, <2>2, <2>4, <2>5, OnwardKeeps DEF FollowerInv
<1>4. ASSUME NEW b \in Batches, Lists(b) \/ RunsUnlisted(b) \/ Records(b),
             UNCHANGED <<wire, page, refusing>>, events' = events \/ Event
      PROVE  FollowerInv'
  <2>1. PICK state \in {"running", "unlisted", "finished"} :
          /\ record' = [record EXCEPT ![b] = state]
          /\ UNCHANGED <<open, queued, restate>>
          /\ restate[b].stage \notin {"none", "taken"}
          /\ state = "finished" => Completed(restate[b].progress)
    BY <1>0, <1>4 DEF Lists, RunsUnlisted, Records, WorldInv
  <2>2. Onward
    BY <1>0, <2>1 DEF Onward, Has
  <2>3. WorldInv'
    BY <1>0, <2>1 DEF WorldInv, Has, Completed, Minted
  <2> QED
    BY <1>4, <2>1, <2>2, <2>3, OnwardKeeps DEF FollowerInv
<1>5. ASSUME NEW b \in Batches, NEW r \in Rows, Settles(b, r),
             UNCHANGED <<wire, page, refusing, events>>
      PROVE  FollowerInv'
  <2>1. /\ Onward
        /\ \A c \in Batches : restate'[c].stage = restate[c].stage
        /\ UNCHANGED <<queued, record>> /\ open' \in SUBSET Rows
    BY <1>0, <1>5, SettlesOnward DEF Settles
  <2>2. /\ FollowInv' /\ WireInv' /\ NamedInv' /\ AnnouncedInv' /\ SelectedInv' /\ EdgeTypes'
        /\ \A c \in Batches : Completed(restate[c].progress) => Completed(restate'[c].progress)
    BY <1>5, <2>1, OnwardKeeps
  <2>3. WorldInv'
    BY <1>0, <2>1, <2>2 DEF WorldInv, Onward, Has, Completed, Minted
  <2> QED
    BY <2>2, <2>3 DEF FollowerInv
<1>6. CASE BatchesRun
  <2>1. PICK b \in Batches : BatchRuns(b)
    BY <1>6 DEF BatchesRun
  <2>2. UNCHANGED <<wire, page, refusing>>
    BY <2>1 DEF BatchRuns
  <2>3. CASE (Starts(b) \/ Lists(b) \/ Records(b)) /\ events' = events
    BY <1>3, <1>4, <2>2, <2>3
  <2>4. CASE (\E r \in Rows : Settles(b, r)) /\ events' = events
    BY <1>5, <2>2, <2>4
  <2>5. CASE RunsUnlisted(b)
    BY <1>4, <2>2, <2>5 DEF RunsUnlisted
  <2> QED
    BY <2>1, <2>3, <2>4, <2>5 DEF BatchRuns
<1>7. CASE BatchesRetire
  BY <1>3, <1>7 DEF BatchesRetire, BatchRetires
<1> QED
  BY <1>2, <1>6, <1>7

-----------------------------------------------------------------------------
(* The theorems                                                            *)

\* The page opens with nothing to follow.
LEMMA InitFollower == Init => FollowerInv
<1> SUFFICES ASSUME Init PROVE FollowerInv
  OBVIOUS
<1>1. FollowInv
  BY DEF Init, FollowInv
<1>2. Queued({}) \in Progresses /\ DOMAIN Queued({}) = {}
  <2>1. Queued({}) \in [{} -> Verdicts] /\ {} \in SUBSET Rows
    BY DEF Queued
  <2> QED
    BY <2>1, ProgressTypes DEF Queued
<1>3. [stage |-> "none", progress |-> Queued({})] \in Runs
  BY <1>2 DEF Runs
<1>4. restate \in [Batches -> Runs]
  BY <1>3 DEF Init
<1>5. \A b \in Batches : restate[b].stage = "none" /\ DOMAIN restate[b].progress = {}
  BY <1>2 DEF Init
<1>6. Minted = 1..0
  BY DEF Init, Minted
<1>7. WorldInv
  <2>1. 0 \in 0..MaxBatches
    BY IdTypes
  <2> QED
    BY <1>4, <1>5, <1>6, <2>1 DEF Init, WorldInv, Has
<1>8. WireInv
  BY DEF Init, WireInv
<1>9. NamedInv /\ SelectedInv
  BY DEF Init, NamedInv, SelectedInv
<1>10. AnnouncedInv
  BY DEF Init, AnnouncedInv
<1>11. EdgeTypes
  <2>1. retry = None /\ signed_out = FALSE /\ refusing = FALSE /\ events = 0
    BY DEF Init
  <2>2. events \in 0..MaxEvents
    BY <2>1, IdTypes
  <2> QED
    BY <2>1, <2>2 DEF EdgeTypes
<1> QED
  BY <1>1, <1>7, <1>8, <1>9, <1>10, <1>11 DEF FollowerInv

\* Every step keeps the invariant.
LEMMA StepFollower == FollowerInv /\ [Next]_vars => FollowerInv'
<1> SUFFICES ASSUME FollowerInv, [Next]_vars PROVE FollowerInv'
  OBVIOUS
<1>1. CASE \/ Confirm \/ Attach \/ RetryPressed \/ RetryAnswered \/ RetryRefused
           \/ CredentialsExpire \/ RefusedElsewhere
  BY <1>1, PageKeeps
<1>2. CASE TaskSteps \/ TaskFails
  BY <1>2, TasksKeep
<1>3. CASE ServerSteps
  BY <1>3, ServerResolvesKeeps, RestateAcceptsKeeps DEF ServerSteps
<1>4. CASE BatchesRun \/ BatchesRetire \/ RowsClose
  BY <1>4, WorldKeeps
<1>5. CASE UNCHANGED vars
  <2>1. EdgeTypes'
    BY <1>5 DEF vars, page, FollowerInv, EdgeTypes
  <2> QED
    BY <1>5, <2>1, EdgesMove DEF vars, page
<1> QED
  BY <1>1, <1>2, <1>3, <1>4, <1>5 DEF Next

\* The invariant holds throughout.
LEMMA Follower == Spec => []FollowerInv
BY InitFollower, StepFollower, PTL DEF Spec

\* No task submits more often than it may or polls an id nobody vouches for past
\* the limit, whatever is lost, closed or refused around it.
THEOREM TypeCorrect == Spec => []TypeOK
<1>1. FollowerInv => TypeOK
  BY DEF FollowerInv, FollowInv, WorldInv, WireInv, NamedInv, AnnouncedInv, SelectedInv,
         EdgeTypes, Tasks, Runs, Submissions, TypeOK
<1> QED
  BY <1>1, Follower, PTL

\* What the page names as left out the run does not hold, and what it announces
\* has run to the end and was not announced before.
THEOREM SaidIsTrueHolds == Spec => []SaidIsTrue
<1>1. FollowerInv => SaidIsTrue
  BY DEF FollowerInv, NamedInv, AnnouncedInv, SaidIsTrue, Has
<1> QED
  BY <1>1, Follower, PTL

\* A row leaves the selection only for a batch that Restate has.
THEOREM SelectionLeavesForTakenHolds == Spec => []SelectionLeavesForTaken
<1>1. FollowerInv => SelectionLeavesForTaken
  BY DEF FollowerInv, SelectedInv, SelectionLeavesForTaken, Has
<1> QED
  BY <1>1, Follower, PTL

\* The page shows the batch taken over last, and in Restate's words once it has them.
THEOREM ShownIsRestatesHolds == Spec => []ShownIsRestates
<1>1. FollowerInv => ShownIsRestates
  <2> SUFFICES ASSUME FollowerInv PROVE ShownIsRestates
    OBVIOUS
  <2>1. shown # None => shown.batch = last /\ Shows(shown)
    BY DEF FollowerInv, FollowInv
  <2>2. followers # {} => shown # None
    <3> SUFFICES ASSUME NEW t \in followers PROVE shown # None
      OBVIOUS
    <3> QED
      BY OneTask, Present DEF FollowerInv
  <2>3. shown # None /\ shown.progress # None =>
          /\ DOMAIN restate[shown.batch].progress \subseteq DOMAIN shown.progress
          /\ shown.heard =>
               /\ DOMAIN shown.progress = DOMAIN restate[shown.batch].progress
               /\ \A r \in DOMAIN restate[shown.batch].progress :
                    shown.progress[r] \in {"pending", restate[shown.batch].progress[r]}
    BY <2>1 DEF Shows
  <2> QED
    BY <2>1, <2>2, <2>3 DEF ShownIsRestates
<1> QED
  BY <1>1, Follower, PTL
=============================================================================
