--------------------------- MODULE ReconcileProofs ---------------------------
(***************************************************************************)
(* For any repositories, pull requests, bounds and faults: the sweeps keep *)
(* their types and leave the objects what they promise of flags, rows and  *)
(* records; a prune and the close it queued spare whatever is newer than   *)
(* the listing behind them; and a row that is lost to a prune, a purge or  *)
(* an uninstall leaves its retirement behind until the object has          *)
(* forgotten it.                                                           *)
(***************************************************************************)
EXTENDS Reconcile, PullRequestLemmas, WellFoundedInduction

\* The foreign key of pull_requests, which the types of a prune rest on: the
\* store has no row of a repository it does not have.
RowHasRepository ==
    \A p \in PullRequests : rows[p] # None => repos[RepoOf[p]] # None

-----------------------------------------------------------------------------
(* Types                                                                   *)

\* A set of outbox ids has a greatest one.
LEMMA LastOf ==
    ASSUME NEW n \in Nat, NEW S \in SUBSET (0..n), S # {}
    PROVE  Max(S) \in S /\ \A y \in S : Max(S) >= y
<1> DEFINE T == {n - x : x \in S}
<1>1. T \subseteq Nat /\ T # {}
  <2>1. \A x \in S : n - x \in Nat
    OBVIOUS
  <2> QED
    BY <2>1
<1>2. PICK t \in T : \A y \in T : ~(<<y, t>> \in OpToRel(<, Nat))
  BY <1>1, NatLessThanWellFounded, WFMin
<1>3. PICK x \in S : t = n - x
  BY <1>2
<1>4. \A y \in S : ~(n - y < n - x)
  BY <1>1, <1>2, <1>3 DEF OpToRel
<1>5. \A y \in S : x >= y
  BY <1>4
<1> QED
  BY <1>3, <1>5 DEF Max

\* An installation's listing is of repositories.
SweepTypes == TypeOK /\ sweep[Installation].live \subseteq Repositories

\* The kinds of steps there are.
LEMMA Steps ==
    [Next]_vars =>
      \/ [PrNext]_prVars /\ UNCHANGED <<sweepVars, installed>>
      \/ SweepNext /\ UNCHANGED installed
      \/ AccessNext
  BY DEF Next, vars

\* The installation is new: nothing listed, nothing queued.
LEMMA InitTypes == Init => SweepTypes
<1> SUFFICES ASSUME Init PROVE SweepTypes
  OBVIOUS
<1>1. 0 \in Times /\ 0 \in Revs /\ 0 \in 0..MaxRetirements
  BY PullRequestAssumption, ReconcileAssumption DEF Times, Revs
<1>2. Resting \in Sweeps
  BY <1>1 DEF Resting, Sweeps
<1>3. Installation \in Sweepers
  BY DEF Sweepers
<1>4. Resting.live = {}
  BY DEF Resting
<1> QED
  BY <1>1, <1>2, <1>3, <1>4, PrInitTypeOK DEF Init, SweepTypes, TypeOK

\* Deleting rows and queueing their retirements keeps the types.
LEMMA PruneTypes ==
    ASSUME TypeOK, NEW gone \in SUBSET PullRequests, NEW fence \in Times \cup {None},
           NEW seen \in [PullRequests -> Revs],
           \A p \in gone : rows[p] # None,
           Delete(gone), queue_retirements(gone, fence, seen)
    PROVE  /\ rows' \in [PullRequests -> Record \cup {None}]
           /\ outbox' \subseteq Retirements
           /\ last_id' \in 0..MaxRetirements
<1> USE DEF TypeOK, PrTypeOK
<1>1. rows' \in [PullRequests -> Record \cup {None}]
  BY DEF Delete
<1>2. CASE gone = {}
  BY <1>1, <1>2 DEF queue_retirements
<1>3. CASE gone # {}
  <2>1. last_id' = last_id + 1 /\ last_id' \in 1..MaxRetirements
    BY <1>3, ReconcileAssumption DEF queue_retirements
  <2>2. ASSUME NEW p \in gone
        PROVE  [id |-> last_id', pr |-> p, synced_before |-> fence,
                seen |-> seen[p], had |-> rows[p].rev] \in Retirements
    <3>1. rows[p] \in Record
      OBVIOUS
    <3> QED
      BY <2>1, <3>1 DEF Record, Retirements
  <2> QED
    BY <1>1, <1>3, <2>1, <2>2, ReconcileAssumption DEF queue_retirements
<1> QED
  BY <1>2, <1>3

\* A sweep's records, as its steps rewrite them.
LEMMA SweepRecordTypes ==
    ASSUME NEW s \in Sweeps,
           NEW step \in {"idle", "list", "replace", "purge", "sync", "await", "drain", "ack"}
    PROVE  /\ [s EXCEPT !.step = step] \in Sweeps
           /\ Resting \in Sweeps
           /\ \A fence \in Times : [s EXCEPT !.step = step, !.fence = fence] \in Sweeps
           /\ \A todo \in SUBSET PullRequests : [s EXCEPT !.step = step, !.todo = todo] \in Sweeps
           /\ \A through \in 0..MaxRetirements :
                [s EXCEPT !.step = step, !.through = through] \in Sweeps
           /\ \A live \in SUBSET Repositories, at \in Times, seen \in [PullRequests -> Revs] :
                [s EXCEPT !.step = step, !.live = live, !.at = at, !.seen = seen] \in Sweeps
           /\ \A live \in SUBSET PullRequests, seen \in [PullRequests -> Revs] :
                [s EXCEPT !.step = step, !.live = live, !.todo = live, !.seen = seen] \in Sweeps
<1>1. Resting \in Sweeps
  <2>1. 0 \in Times /\ 0 \in Revs /\ 0 \in 0..MaxRetirements
    BY PullRequestAssumption, ReconcileAssumption DEF Times, Revs
  <2> QED
    BY <2>1 DEF Resting, Sweeps
<1> QED
  BY <1>1 DEF Sweeps

\* What a prune's step does to its sweep.
LEMMA PruneMoves ==
    ASSUME SweepTypes, NEW s \in Sweepers, NEW effect, PruneStep(s, effect, "drain")
    PROVE  /\ effect
           /\ sweep' \in [Sweepers -> Sweeps]
           /\ sweep'[Installation].live \subseteq Repositories
<1> USE DEF SweepTypes, TypeOK
<1>0. /\ sweep[s] \in Sweeps /\ Installation \in Sweepers
      /\ sweep[Installation] \in Sweeps
  BY DEF Sweepers
<1>1. [sweep[s] EXCEPT !.step = "drain"] \in Sweeps /\ Resting \in Sweeps
  BY <1>0, SweepRecordTypes
<1>2. Resting.live = {} /\ \A t \in Sweeps : [t EXCEPT !.step = "drain"].live = t.live
  BY DEF Resting, Sweeps
<1>3. effect /\ (\/ sweep' = [sweep EXCEPT ![s] = [sweep[s] EXCEPT !.step = "drain"]]
                \/ sweep' = sweep
                \/ sweep' = [sweep EXCEPT ![s] = Resting])
  BY <1>0 DEF PruneStep, Goes, Ends
<1> QED
  BY <1>0, <1>1, <1>2, <1>3

\* The three prunes: what they delete, and under which fence it is queued.
LEMMA RetainPrunes ==
    ASSUME NEW r \in Repositories, RetainPullRequests(r)
    PROVE  \E gone \in SUBSET PullsOf(r) :
             /\ \A p \in gone : rows[p] # None /\ rows[p].synced_at < sweep[r].fence
             /\ Delete(gone)
             /\ queue_retirements(gone, sweep[r].fence, sweep[r].seen)
             /\ UNCHANGED repos
  BY DEF RetainPullRequests, PruneStep, retain_prs_on

\* Replacing the repositories drops those out of the listing with their rows, and
\* queues a retirement for each row.
LEMMA ReplacePrunes ==
    ASSUME ReplaceRepositories
    PROVE  \E gone \in SUBSET PullRequests,
              selected \in SUBSET (Repositories \ sweep[Installation].live) :
             /\ \A p \in PullRequests : p \in gone <=> RepoOf[p] \in selected /\ rows[p] # None
             /\ Delete(gone)
             /\ queue_retirements(gone, sweep[Installation].fence, sweep[Installation].seen)
             /\ repos' = [r \in Repositories |->
                           IF r \in selected THEN None
                             ELSE IF r \in sweep[Installation].live
                                    THEN sweep[Installation].at
                                    ELSE repos[r]]
<1> DEFINE s == sweep[Installation]
           upserted == [r \in Repositories |-> IF r \in s.live THEN s.at ELSE repos[r]]
           selected == {r \in Repositories \ s.live : upserted[r] # None /\ upserted[r] < s.fence}
           gone == {p \in PullRequests : RepoOf[p] \in selected /\ rows[p] # None}
<1>1. delete_repositories_where(selected, upserted, s.fence, s.seen)
  BY DEF ReplaceRepositories, PruneStep, replace_installation_repos
<1>2. /\ Delete(gone)
      /\ queue_retirements(gone, s.fence, s.seen)
      /\ repos' = [r \in Repositories |-> IF r \in selected THEN None ELSE upserted[r]]
  BY <1>1 DEF delete_repositories_where
<1>3. gone \in SUBSET PullRequests /\ selected \in SUBSET (Repositories \ s.live)
  OBVIOUS
<1>4. \A p \in PullRequests : p \in gone <=> RepoOf[p] \in selected /\ rows[p] # None
  OBVIOUS
<1>5. repos' = [r \in Repositories |->
                  IF r \in selected THEN None
                    ELSE IF r \in s.live THEN s.at ELSE repos[r]]
  BY <1>2
<1> HIDE DEF gone, selected
<1> QED
  BY <1>2, <1>3, <1>4, <1>5

\* A purge drops every repository and every row, and queues their retirements.
LEMMA PurgePrunes ==
    ASSUME SweepTypes, RowHasRepository, PurgeProjection
    PROVE  \E gone \in SUBSET PullRequests :
             /\ \A p \in PullRequests : p \in gone <=> rows[p] # None
             /\ Delete(gone)
             /\ queue_retirements(gone, None, [p \in PullRequests |-> 0])
             /\ repos' = [r \in Repositories |-> None]
<1> DEFINE selected == {r \in Repositories : repos[r] # None}
           gone == {p \in PullRequests : RepoOf[p] \in selected /\ rows[p] # None}
           seen == [p \in PullRequests |-> 0]
<1>1. delete_repositories_where(selected, repos, None, seen)
  BY DEF PurgeProjection, PruneStep, purge_installation
<1>2. /\ Delete(gone)
      /\ queue_retirements(gone, None, seen)
      /\ repos' = [r \in Repositories |-> IF r \in selected THEN None ELSE repos[r]]
  BY <1>1 DEF delete_repositories_where
<1>3. \A p \in PullRequests : p \in gone <=> rows[p] # None
  BY PullRequestAssumption DEF RowHasRepository
<1>4. repos' = [r \in Repositories |-> None]
  BY <1>2
<1>5. gone \in SUBSET PullRequests
  OBVIOUS
<1> QED
  BY <1>2, <1>3, <1>4, <1>5

\* A prune is one of a repository's reconcile, of the installation's sweep, or a
\* purge.
Prunes ==
    \/ \E r \in Repositories : RetainPullRequests(r)
    \/ ReplaceRepositories
    \/ PurgeProjection

\* What the store's prunes write down is well formed.
LEMMA PruneStepTypes ==
    ASSUME SweepTypes, RowHasRepository, Prunes, UNCHANGED installed
    PROVE  SweepTypes'
<1> USE DEF SweepTypes, TypeOK
<1>0. /\ Installation \in Sweepers /\ Repositories \subseteq Sweepers
      /\ None \in Times \cup {None}
      /\ 0 \in Revs
  BY PullRequestAssumption DEF Sweepers, Revs
<1>1. ASSUME NEW r \in Repositories, RetainPullRequests(r)
      PROVE  SweepTypes'
  <2>1. PICK gone \in SUBSET PullsOf(r) :
          /\ \A p \in gone : rows[p] # None
          /\ Delete(gone)
          /\ queue_retirements(gone, sweep[r].fence, sweep[r].seen)
          /\ UNCHANGED repos
    BY <1>1, RetainPrunes
  <2>2. sweep[r] \in Sweeps /\ gone \in SUBSET PullRequests
    BY <1>0 DEF PullsOf
  <2>3. sweep[r].fence \in Times \cup {None} /\ sweep[r].seen \in [PullRequests -> Revs]
    BY <2>2 DEF Sweeps
  <2>4. /\ rows' \in [PullRequests -> Record \cup {None}]
        /\ outbox' \subseteq Retirements
        /\ last_id' \in 0..MaxRetirements
    BY <2>1, <2>2, <2>3, PruneTypes
  <2>5. sweep' \in [Sweepers -> Sweeps] /\ sweep'[Installation].live \subseteq Repositories
    BY <1>0, <1>1, PruneMoves DEF RetainPullRequests
  <2> QED
    BY <1>1, <2>1, <2>4, <2>5 DEF RetainPullRequests, PrTypeOK, githubVars
<1>2. CASE ReplaceRepositories
  <2> DEFINE s == sweep[Installation]
  <2>1. PICK gone \in SUBSET PullRequests, selected \in SUBSET (Repositories \ s.live) :
          /\ \A p \in PullRequests : p \in gone <=> RepoOf[p] \in selected /\ rows[p] # None
          /\ Delete(gone)
          /\ queue_retirements(gone, s.fence, s.seen)
          /\ repos' = [r \in Repositories |->
                        IF r \in selected THEN None
                          ELSE IF r \in s.live THEN s.at ELSE repos[r]]
    BY <1>2, ReplacePrunes
  <2>2. /\ s \in Sweeps
        /\ s.fence \in Times \cup {None} /\ s.at \in Times /\ s.seen \in [PullRequests -> Revs]
    BY <1>0 DEF Sweeps
  <2>3. repos' \in [Repositories -> Times \cup {None}]
    BY <2>1, <2>2 DEF PrTypeOK
  <2>4. /\ rows' \in [PullRequests -> Record \cup {None}]
        /\ outbox' \subseteq Retirements
        /\ last_id' \in 0..MaxRetirements
    BY <2>1, <2>2, PruneTypes
  <2>5. sweep' \in [Sweepers -> Sweeps] /\ sweep'[Installation].live \subseteq Repositories
    BY <1>0, <1>2, PruneMoves DEF ReplaceRepositories
  <2> QED
    BY <1>2, <2>3, <2>4, <2>5 DEF ReplaceRepositories, PrTypeOK, githubVars
<1>3. CASE PurgeProjection
  <2> DEFINE seen == [p \in PullRequests |-> 0]
  <2>1. PICK gone \in SUBSET PullRequests :
          /\ \A p \in PullRequests : p \in gone <=> rows[p] # None
          /\ Delete(gone)
          /\ queue_retirements(gone, None, seen)
          /\ repos' = [r \in Repositories |-> None]
    BY <1>3, PurgePrunes
  <2>2. seen \in [PullRequests -> Revs]
    BY <1>0
  <2> HIDE DEF seen
  <2>3. /\ rows' \in [PullRequests -> Record \cup {None}]
        /\ outbox' \subseteq Retirements
        /\ last_id' \in 0..MaxRetirements
    BY <1>0, <2>1, <2>2, PruneTypes
  <2>4. repos' \in [Repositories -> Times \cup {None}]
    BY <2>1
  <2>5. sweep' \in [Sweepers -> Sweeps] /\ sweep'[Installation].live \subseteq Repositories
    BY <1>0, <1>3, PruneMoves DEF PurgeProjection
  <2> QED
    BY <1>3, <2>3, <2>4, <2>5 DEF PurgeProjection, PrTypeOK, githubVars
<1> QED
  BY <1>1, <1>2, <1>3 DEF Prunes

\* A drain's steps, and the end a failure puts to a sweep.
Drains(s) == DrainReads(s) \/ DrainAcknowledges(s) \/ SweepFails(s)

\* Draining the outbox sends what was queued.
LEMMA DrainStepTypes ==
    ASSUME SweepTypes, NEW s \in Sweepers, Drains(s), UNCHANGED installed
    PROVE  SweepTypes'
<1> USE DEF SweepTypes, TypeOK
<1>0. /\ sweep[s] \in Sweeps /\ Installation \in Sweepers
      /\ sweep[Installation].live \subseteq Repositories
      /\ Resting \in Sweeps /\ Resting.live = {}
  BY SweepRecordTypes DEF Sweepers, Resting
<1>1. ASSUME Ends(s)
      PROVE  sweep' \in [Sweepers -> Sweeps] /\ sweep'[Installation].live \subseteq Repositories
  BY <1>0, <1>1 DEF Ends
<1>2. ASSUME AfterDrain(s)
      PROVE  /\ sweep' \in [Sweepers -> Sweeps] /\ sweep'[Installation].live \subseteq Repositories
             /\ reconciles' \subseteq Repositories
  BY <1>0, <1>1, <1>2 DEF AfterDrain
<1>3. CASE DrainReads(s)
  <2>1. CASE outbox = {}
    BY <1>2, <1>3, <2>1 DEF DrainReads, PrTypeOK, githubVars
  <2>2. CASE outbox # {}
    <3>1. last_of(outbox) \in 0..MaxRetirements
      <4> DEFINE ids == {e.id : e \in outbox}
      <4>1. ids \in SUBSET (0..MaxRetirements) /\ ids # {}
        BY <2>2, ReconcileAssumption DEF Retirements
      <4> HIDE DEF ids
      <4>2. Max(ids) \in ids
        BY <4>1, LastOf, ReconcileAssumption
      <4>3. Max(ids) \in 0..MaxRetirements
        BY <4>1, <4>2
      <4> QED
        BY <4>3 DEF last_of, ids
    <3>2. {ClosedMessage(e.pr, e.synced_before, e.seen) : e \in outbox} \subseteq ClosedMessages
      BY DEF Retirements, ClosedMessage, ClosedMessages
    <3>3. sweep' = [sweep EXCEPT ![s] = [sweep[s] EXCEPT !.step = "ack", !.through = last_of(outbox)]]
      BY <1>0, <1>3, <2>2 DEF DrainReads, Sweeps
    <3>4. /\ [sweep[s] EXCEPT !.step = "ack", !.through = last_of(outbox)] \in Sweeps
          /\ [sweep[s] EXCEPT !.step = "ack", !.through = last_of(outbox)].live = sweep[s].live
      <4>1. \A through \in 0..MaxRetirements :
              [sweep[s] EXCEPT !.step = "ack", !.through = through] \in Sweeps
        BY <1>0, SweepRecordTypes
      <4> QED
        BY <1>0, <3>1, <4>1 DEF Sweeps
    <3>5. sweep' \in [Sweepers -> Sweeps] /\ sweep'[Installation].live \subseteq Repositories
      BY <1>0, <3>3, <3>4
    <3> QED
      BY <1>3, <2>2, <3>2, <3>5 DEF DrainReads, Sent, PrTypeOK, githubVars
  <2> QED
    BY <2>1, <2>2
<1>4. CASE DrainAcknowledges(s)
  <2>1. outbox' \subseteq Retirements
    BY <1>4 DEF DrainAcknowledges, acknowledge_retirements
  <2>2. /\ sweep' \in [Sweepers -> Sweeps] /\ sweep'[Installation].live \subseteq Repositories
        /\ reconciles' \subseteq Repositories
    BY <1>0, <1>1, <1>2, <1>4 DEF DrainAcknowledges, StepFails
  <2> QED
    BY <1>4, <2>1, <2>2 DEF DrainAcknowledges, PrTypeOK, githubVars
<1>5. CASE SweepFails(s)
  BY <1>1, <1>5 DEF SweepFails, StepFails, PrTypeOK, prVars
<1> QED
  BY <1>3, <1>4, <1>5 DEF Drains

\* A sweep's own steps: its start, its listing and its calls.
Listings ==
    \/ SyncNow
    \/ ListRepositories
    \/ ListRepositoriesFails
    \/ PurgeStarts
    \/ \E r \in Repositories :
         \/ ReconcileStarts(r)
         \/ ListPullRequests(r)
         \/ CallSync(r)
         \/ SyncReturns(r)
         \/ SyncSha(r)

\* A sweep lists, prunes or drains.
LEMMA SweepSteps ==
    SweepNext => Listings \/ Prunes \/ \E s \in Sweepers : Drains(s)
  BY DEF SweepNext, Listings, Prunes, Drains

\* Of the objects' world they touch the messages alone, and add to those.
LEMMA ListingsKeep ==
    ASSUME Listings
    PROVE  /\ UNCHANGED <<clock, githubVars, repos, rows, object, failed, running, outbox, last_id>>
           /\ mail \subseteq mail'
           /\ \A m \in mail' : m \in mail \/ m.kind = "sync"
<1>1. CASE SyncNow \/ ListRepositories \/ ListRepositoriesFails \/ PurgeStarts
  BY <1>1 DEF SyncNow, ListRepositories, ListRepositoriesFails, PurgeStarts, prVars, githubVars
<1>2. ASSUME NEW r \in Repositories, ReconcileStarts(r) \/ ListPullRequests(r) \/ SyncReturns(r)
      PROVE  UNCHANGED <<clock, githubVars, repos, rows, object, failed, running, outbox, last_id, mail>>
  BY <1>2 DEF ReconcileStarts, ListPullRequests, SyncReturns, prVars, githubVars
<1>3. ASSUME NEW r \in Repositories, CallSync(r) \/ SyncSha(r)
      PROVE  /\ UNCHANGED <<clock, githubVars, repos, rows, object, failed, running, outbox, last_id>>
             /\ mail \subseteq mail'
             /\ \A m \in mail' : m \in mail \/ m.kind = "sync"
  <2>1. \A p, call : SyncMessage(p, None, 0, call).kind = "sync"
    BY DEF SyncMessage
  <2>2. CASE CallSync(r)
    BY <2>1, <2>2 DEF CallSync, Sent
  <2>3. CASE SyncSha(r)
    BY <2>1, <2>3 DEF SyncSha, Sent, sweepVars
  <2> QED
    BY <1>3, <2>2, <2>3
<1> QED
  BY <1>1, <1>2, <1>3 DEF Listings

\* A sweep's own steps, short of what it deletes.
LEMMA ListingTypes ==
    ASSUME SweepTypes, Listings, UNCHANGED installed
    PROVE  SweepTypes'
<1> USE DEF SweepTypes, TypeOK, PrTypeOK
<1>0. /\ sweep \in [Sweepers -> Sweeps]
      /\ Installation \in Sweepers /\ Repositories \subseteq Sweepers
      /\ \A r \in Repositories : r # Installation
      /\ sweep[Installation].live \subseteq Repositories
      /\ Resting \in Sweeps /\ Resting.live = {}
  BY SweepRecordTypes, ReconcileAssumption DEF Sweepers, Resting
<1>1. 0 \in Revs
  BY PullRequestAssumption DEF Revs
<1>2. ASSUME NEW s \in Sweepers, NEW x \in Sweeps,
             s = Installation => x.live \subseteq Repositories,
             sweep' = [sweep EXCEPT ![s] = x]
      PROVE  sweep' \in [Sweepers -> Sweeps] /\ sweep'[Installation].live \subseteq Repositories
  BY <1>0, <1>2
<1>3. \A p \in PullRequests, call \in BOOLEAN : SyncMessage(p, None, 0, call) \in SyncMessages
  <2>1. 0 \in 0..(MaxTime + Debounce)
    BY PullRequestAssumption
  <2> QED
    BY <2>1, MessageTypes
<1>4. CASE SyncNow
  <2> DEFINE x == [sweep[Installation] EXCEPT !.step = "list", !.fence = clock]
  <2>1. x \in Sweeps /\ x.live = sweep[Installation].live
    BY <1>0 DEF Sweeps
  <2>2. sweep' = [sweep EXCEPT ![Installation] = x]
    BY <1>0, <1>4 DEF SyncNow, Sweeps
  <2> HIDE DEF x
  <2> QED
    BY <1>0, <1>2, <1>4, <2>1, <2>2 DEF SyncNow, prVars
<1>5. CASE ListRepositories
  <2>1. PICK at \in sweep[Installation].fence..clock :
          sweep' = [sweep EXCEPT ![Installation].step = "replace",
                                 ![Installation].live = granted,
                                 ![Installation].at = at,
                                 ![Installation].seen = [p \in PullRequests |->
                                   IF Visible(p) THEN 0 ELSE rev[p]]]
    BY <1>5 DEF ListRepositories
  <2>2. at \in Times
    <3>1. sweep[Installation].fence \in Times
      BY <1>0 DEF Sweeps
    <3> QED
      BY <2>1, <3>1, PullRequestAssumption DEF Times
  <2> DEFINE seen == [p \in PullRequests |-> IF Visible(p) THEN 0 ELSE rev[p]]
             x == [sweep[Installation] EXCEPT !.step = "replace", !.live = granted,
                                              !.at = at, !.seen = seen]
  <2>3. seen \in [PullRequests -> Revs]
    BY <1>1
  <2>4. sweep' = [sweep EXCEPT ![Installation] = x]
    BY <1>0, <2>1 DEF Sweeps
  <2> HIDE DEF seen
  <2>5. x \in Sweeps /\ x.live \subseteq Repositories
    BY <1>0, <2>2, <2>3 DEF Sweeps
  <2> HIDE DEF x
  <2> QED
    BY <1>0, <1>2, <1>5, <2>4, <2>5 DEF ListRepositories, prVars
<1>6. CASE ListRepositoriesFails
  BY <1>0, <1>2, <1>6 DEF ListRepositoriesFails, Ends, prVars
<1>7. CASE PurgeStarts
  <2> DEFINE x == [sweep[Installation] EXCEPT !.step = "purge"]
  <2>1. x \in Sweeps /\ x.live = sweep[Installation].live
    BY <1>0 DEF Sweeps
  <2>2. sweep' = [sweep EXCEPT ![Installation] = x]
    BY <1>0, <1>7 DEF PurgeStarts, Goes, Sweeps
  <2> HIDE DEF x
  <2> QED
    BY <1>0, <1>2, <1>7, <2>1, <2>2 DEF PurgeStarts, prVars
<1>8. ASSUME NEW r \in Repositories, ReconcileStarts(r)
      PROVE  SweepTypes'
  <2> DEFINE x == [sweep[r] EXCEPT !.step = "list", !.fence = clock]
  <2>1. x \in Sweeps
    BY <1>0 DEF Sweeps
  <2>2. sweep' = [sweep EXCEPT ![r] = x]
    BY <1>0, <1>8 DEF ReconcileStarts, Sweeps
  <2> HIDE DEF x
  <2> QED
    BY <1>0, <1>2, <1>8, <2>1, <2>2 DEF ReconcileStarts, prVars
<1>9. ASSUME NEW r \in Repositories, ListPullRequests(r)
      PROVE  SweepTypes'
  <2> DEFINE open == {p \in PullsOf(r) : github[p] = "open"}
             x == [sweep[r] EXCEPT !.step = "sync", !.live = open, !.todo = open, !.seen = rev]
  <2>1. open \in SUBSET PullRequests
    BY DEF PullsOf
  <2>2. sweep' = [sweep EXCEPT ![r] = x] \/ sweep' = [sweep EXCEPT ![r] = Resting]
    BY <1>0, <1>9 DEF ListPullRequests, Ends, Sweeps
  <2> HIDE DEF open
  <2>3. x \in Sweeps
    BY <1>0, <2>1 DEF Sweeps
  <2> HIDE DEF x
  <2> QED
    BY <1>0, <1>2, <1>9, <2>2, <2>3 DEF ListPullRequests, prVars
<1>10. ASSUME NEW r \in Repositories, CallSync(r)
       PROVE  SweepTypes'
  <2>1. PICK p \in sweep[r].todo :
          /\ sweep' = [sweep EXCEPT ![r].step = "await", ![r].todo = @ \ {p}]
          /\ Sent({SyncMessage(p, None, 0, TRUE)})
    BY <1>10 DEF CallSync
  <2> DEFINE x == [sweep[r] EXCEPT !.step = "await", !.todo = @ \ {p}]
  <2>2. x \in Sweeps /\ p \in PullRequests
    BY <1>0, <2>1 DEF Sweeps
  <2>3. sweep' = [sweep EXCEPT ![r] = x]
    BY <1>0, <2>1 DEF Sweeps
  <2>4. mail' \subseteq SyncMessages \cup ClosedMessages
    BY <1>3, <2>1, <2>2 DEF Sent
  <2> HIDE DEF x
  <2> QED
    BY <1>0, <1>2, <1>10, <2>2, <2>3, <2>4 DEF CallSync, githubVars
<1>11. ASSUME NEW r \in Repositories, SyncReturns(r)
       PROVE  SweepTypes'
  <2> DEFINE x == [sweep[r] EXCEPT !.step = "sync"]
  <2>1. x \in Sweeps
    BY <1>0 DEF Sweeps
  <2>2. sweep' = [sweep EXCEPT ![r] = x]
    BY <1>0, <1>11 DEF SyncReturns, Goes, Sweeps
  <2> HIDE DEF x
  <2> QED
    BY <1>0, <1>2, <1>11, <2>1, <2>2 DEF SyncReturns, prVars
<1>12. ASSUME NEW r \in Repositories, SyncSha(r)
       PROVE  SweepTypes'
  <2>1. PICK told \in SUBSET PullRequests : Sent({SyncMessage(p, None, 0, FALSE) : p \in told})
    BY <1>12 DEF SyncSha, PullsOf
  <2>2. mail' \subseteq SyncMessages \cup ClosedMessages
    BY <1>3, <2>1 DEF Sent
  <2> QED
    BY <1>0, <1>12, <2>2 DEF SyncSha, sweepVars, githubVars
<1> QED
  BY <1>4, <1>5, <1>6, <1>7, <1>8, <1>9, <1>10, <1>11, <1>12 DEF Listings

\* What the App is granted is GitHub's affair, and the objects do not see it move.
LEMMA AccessTypes ==
    ASSUME SweepTypes, AccessNext
    PROVE  /\ SweepTypes'
           /\ UNCHANGED <<clock, rev, repos, rows, object, running, failed, mail, sweepVars>>
  BY DEF SweepTypes, TypeOK, PrTypeOK, AccessNext, GithubRevokes, GithubGrants, GithubUninstalls,
     sweepVars

\* Every step keeps the types.
LEMMA StepTypes ==
    SweepTypes /\ RowHasRepository /\ [Next]_vars => SweepTypes'
<1>1. PrTypeOK /\ [PrNext]_prVars => PrTypeOK'
  BY PrStepTypeOK
<1> QED
  BY <1>1, Steps, SweepSteps, ListingTypes, PruneStepTypes, DrainStepTypes, AccessTypes
     DEF SweepTypes, TypeOK, sweepVars

\* No step of an object or of its world drops a repository, and the row a
\* handler writes has one.
LEMMA PrRowHasRepository ==
    ASSUME PrTypeOK, RowHasRepository, [PrNext]_prVars
    PROVE  RowHasRepository' /\ UNCHANGED repos
<1>1. CASE Tick \/ \E p \in PullRequests : WorldNext(p)
  BY <1>1, WorldKeeps DEF RowHasRepository, Tick, WorldNext, GithubChanges, GithubCloses
<1>2. ASSUME NEW p \in PullRequests, ObjectNext(p)
      PROVE  /\ UNCHANGED repos
             /\ rows'[p] # None => rows[p] # None \/ repos[RepoOf[p]] # None
  <2> USE DEF PrTypeOK
  <2>1. CASE \/ \E m \in mail :
                  SyncDebounced(p, m) \/ SyncStarts(p, m) \/ ClosedKept(p, m) \/ ClosedStarts(p, m)
             \/ FetchReads(p) \/ FetchStamps(p) \/ FetchFails(p)
             \/ \E action \in {"merge", "update"} : ActionStarts(p, action)
             \/ MergeLands(p)
             \/ UpdateLands(p)
             \/ ActionRejected(p)
    BY <2>1 DEF SyncDebounced, SyncStarts, ClosedKept, ClosedStarts, FetchReads, FetchStamps,
       FetchFails, ActionStarts, MergeLands, UpdateLands, ActionRejected
  <2>2. CASE SyncFinishes(p) \/ UpsertRepeats(p) \/ UpsertFails(p)
    BY <2>2 DEF SyncFinishes, UpsertRepeats, UpsertFails, upsert_pr
  <2>3. CASE Dropped(p) \/ DropRepeats(p) \/ DropFails(p)
    BY <2>3 DEF Dropped, DropRepeats, DropFails, delete_pr
  <2> QED
    BY <1>2, <2>1, <2>2, <2>3 DEF ObjectNext
<1>3. ASSUME NEW p \in PullRequests, ObjectNext(p)
      PROVE  RowHasRepository' /\ UNCHANGED repos
  BY <1>2, <1>3, ObjectFrame DEF RowHasRepository
<1>4. CASE UNCHANGED prVars
  BY <1>4 DEF prVars, RowHasRepository
<1> QED
  BY <1>1, <1>3, <1>4 DEF PrNext

\* A repository that is dropped takes its rows with it.
LEMMA PruneRowHasRepository ==
    ASSUME SweepTypes, RowHasRepository, Prunes
    PROVE  RowHasRepository'
<1> USE DEF RowHasRepository
<1>1. ASSUME NEW r \in Repositories, RetainPullRequests(r)
      PROVE  RowHasRepository'
  BY <1>1, RetainPrunes DEF Delete
<1>2. CASE ReplaceRepositories
  <2> DEFINE s == sweep[Installation]
  <2>1. PICK gone \in SUBSET PullRequests, selected \in SUBSET (Repositories \ s.live) :
          /\ \A p \in PullRequests : p \in gone <=> RepoOf[p] \in selected /\ rows[p] # None
          /\ Delete(gone)
          /\ repos' = [r \in Repositories |->
                        IF r \in selected THEN None
                          ELSE IF r \in s.live THEN s.at ELSE repos[r]]
    BY <1>2, ReplacePrunes
  <2>2. s.at # None
    <3>1. s \in Sweeps
      BY DEF SweepTypes, TypeOK, Sweepers
    <3> QED
      BY <3>1, PullRequestAssumption DEF Sweeps, Times
  <2>3. ASSUME NEW p \in PullRequests, rows'[p] # None
        PROVE  repos'[RepoOf[p]] # None
    <3>1. rows[p] # None /\ RepoOf[p] \notin selected /\ RepoOf[p] \in Repositories
      BY <2>1, <2>3, PullRequestAssumption DEF Delete
    <3> QED
      BY <2>1, <2>2, <3>1
  <2> QED
    BY <2>3
<1>3. CASE PurgeProjection
  BY <1>3, PurgePrunes DEF Delete
<1> QED
  BY <1>1, <1>2, <1>3 DEF Prunes

\* Draining touches neither rows nor objects.
LEMMA DrainsKeep ==
    ASSUME NEW s \in Sweepers, Drains(s)
    PROVE  /\ UNCHANGED <<clock, githubVars, repos, rows, object, failed, running, last_id>>
           /\ mail \subseteq mail'
           /\ outbox' \subseteq outbox
<1>1. CASE DrainReads(s)
  BY <1>1 DEF DrainReads, Sent
<1>2. CASE DrainAcknowledges(s)
  BY <1>2 DEF DrainAcknowledges, acknowledge_retirements
<1>3. CASE SweepFails(s)
  BY <1>3 DEF SweepFails, prVars, githubVars
<1> QED
  BY <1>1, <1>2, <1>3 DEF Drains

SweepInv == SweepTypes /\ RowHasRepository

\* There are no rows yet.
LEMMA InitSweepInv == Init => SweepInv
  BY InitTypes DEF Init, PrInit, SweepInv, RowHasRepository

\* Every step keeps the types and rows with their repositories.
LEMMA StepSweepInv == SweepInv /\ [Next]_vars => SweepInv'
<1> SUFFICES ASSUME SweepInv, [Next]_vars
             PROVE  SweepInv'
  OBVIOUS
<1> USE DEF SweepInv
<1>1. SweepTypes'
  BY StepTypes
<1>2. CASE [PrNext]_prVars
  BY <1>1, <1>2, PrRowHasRepository DEF SweepTypes, TypeOK
<1>3. CASE SweepNext
  BY <1>1, <1>3, SweepSteps, ListingsKeep, DrainsKeep, PruneRowHasRepository DEF RowHasRepository
<1>4. CASE AccessNext
  BY <1>1, <1>4, AccessTypes DEF RowHasRepository
<1> QED
  BY <1>2, <1>3, <1>4, Steps

\* The sweeps, the outbox and the objects keep their types, for any number of
\* repositories, pull requests and retirements: what a reconcile or a purge
\* queues and a drain acknowledges (reconcile.rs, retirement.rs) are ids that
\* were handed out, under fences that were read.
THEOREM SweepTypeCorrect == Spec => []TypeOK
<1>1. SweepInv => TypeOK
  BY DEF SweepInv, SweepTypes
<1> QED
  BY InitSweepInv, StepSweepInv, <1>1, PTL DEF Spec

-----------------------------------------------------------------------------
(* What the objects promise, with the sweeps beside them                   *)

\* The sweeps and the App's access touch no record but the rows they delete.
LEMMA SweepRows ==
    ASSUME SweepInv, SweepNext \/ AccessNext
    PROVE  /\ UNCHANGED <<clock, rev, object, running, failed>>
           /\ mail \subseteq mail'
           /\ \A p \in PullRequests : rows'[p] \in {rows[p], None}
<1>1. CASE Listings
  BY <1>1, ListingsKeep DEF githubVars
<1>2. CASE \E s \in Sweepers : Drains(s)
  BY <1>2, DrainsKeep DEF githubVars
<1>3. CASE Prunes
  <2>1. UNCHANGED <<clock, rev, object, running, failed, mail>>
    BY <1>3 DEF Prunes, RetainPullRequests, ReplaceRepositories, PurgeProjection, githubVars
  <2>2. \E gone : Delete(gone)
    BY <1>3, RetainPrunes, ReplacePrunes, PurgePrunes DEF Prunes, SweepInv
  <2> QED
    BY <2>1, <2>2 DEF Delete
<1>4. CASE AccessNext
  BY <1>4, AccessTypes DEF SweepInv
<1> QED
  BY <1>1, <1>2, <1>3, <1>4, SweepSteps

\* Sweeps and grants write no stamp, so every stamp stays of the past.
LEMMA StepStamps ==
    ASSUME SweepInv, StampsArePast, [Next]_vars
    PROVE  StampsArePast'
<1>1. PrTypeOK
  BY DEF SweepInv, SweepTypes, TypeOK
<1>2. CASE [PrNext]_prVars
  BY <1>1, <1>2, PrStepStampsArePast
<1>3. CASE SweepNext \/ AccessNext
  BY <1>3, SweepRows DEF StampsArePast
<1> QED
  BY <1>2, <1>3, Steps

\* A sweep sends its syncs and closes, and takes no message away.
LEMMA StepFlagInv == SweepInv /\ FlagInv /\ [Next]_vars => FlagInv'
<1> SUFFICES ASSUME SweepInv, FlagInv, [Next]_vars
             PROVE  FlagInv'
  OBVIOUS
<1>1. PrTypeOK' /\ StampsArePast'
  BY StepSweepInv, StepStamps DEF SweepInv, SweepTypes, TypeOK, FlagInv
<1>2. CASE [PrNext]_prVars
  BY <1>1, <1>2, PrStepPendingTrails DEF FlagInv
<1>3. CASE SweepNext \/ AccessNext
  BY <1>1, <1>3, SweepRows DEF FlagInv, PendingTrails, Trails, Syncing
<1> QED
  BY <1>2, <1>3, Steps

\* No sweep, purge or change of the App's access, and no close they queue,
\* leaves a pending flag (schedule_sync) without the sync that clears it.
THEOREM TrailingSyncSurvivesSweeps == Spec => []TrailingSyncScheduled
<1>1. Init => SweepInv /\ FlagInv
  BY InitSweepInv, PrInitFlagInv DEF Init
<1>2. SweepInv /\ FlagInv /\ [Next]_vars => (SweepInv /\ FlagInv)'
  BY StepSweepInv, StepFlagInv
<1>3. FlagInv => TrailingSyncScheduled
  BY DEF FlagInv, PendingTrails, Trails, TrailingSyncScheduled
<1> QED
  BY <1>1, <1>2, <1>3, PTL DEF Spec

\* A row that is there is the one its object wrote last.
RowIsObjects ==
    \A p \in PullRequests \ failed :
      Settled(p) => rows[p] \in {None, object[p].snapshot}

\* Sweeps delete rows and write none.
LEMMA StepRowIsObjects ==
    ASSUME SweepInv, RowIsObjects, [Next]_vars
    PROVE  RowIsObjects'
<1>0. PrTypeOK
  BY DEF SweepInv, SweepTypes, TypeOK
<1>1. CASE UNCHANGED <<object, running, rows, failed>>
  BY <1>1 DEF RowIsObjects, Settled
<1>2. ASSUME NEW p \in PullRequests, ObjectNext(p)
      PROVE  RowIsObjects'
  <2>1. ASSUME NEW q \in (PullRequests \ {p}) \ failed', Settled(q)'
        PROVE  rows'[q] \in {None, object'[q].snapshot}
    BY <1>0, <1>2, <2>1, ObjectFrame DEF RowIsObjects, Settled
  <2>2. ASSUME p \notin failed', Settled(p)'
        PROVE  rows'[p] \in {None, object'[p].snapshot}
    BY <1>0, <1>2, <2>2, ObjectSettles DEF RowIsObjects
  <2> QED
    BY <2>1, <2>2 DEF RowIsObjects
<1>3. CASE [PrNext]_prVars
  BY <1>1, <1>2, <1>3, WorldKeeps DEF PrNext, prVars
<1>4. CASE SweepNext \/ AccessNext
  BY <1>4, SweepRows DEF RowIsObjects, Settled
<1> QED
  BY <1>3, <1>4, Steps

\* With the sweeps beside the objects a row may be gone before its object is
\* told, and that is the only way the two come apart (replace_installation_repos,
\* retain_prs, purge_installation): a row an object at rest has is the snapshot
\* it serves, unless a handler failed and none has succeeded since.
THEOREM RowIsSnapshotOrGone ==
    Spec => [](\A p \in PullRequests \ failed :
                 running[p] = Idle => rows[p] \in {None, object[p].snapshot})
<1>1. Init => SweepInv /\ RowIsObjects
  BY InitSweepInv DEF Init, PrInit, RowIsObjects
<1>2. SweepInv /\ RowIsObjects /\ [Next]_vars => (SweepInv /\ RowIsObjects)'
  BY StepSweepInv, StepRowIsObjects
<1>3. RowIsObjects =>
        \A p \in PullRequests \ failed :
          running[p] = Idle => rows[p] \in {None, object[p].snapshot}
  BY DEF RowIsObjects, Settled, Idle
<1> QED
  BY <1>1, <1>2, <1>3, PTL DEF Spec

\* Sweeps write no record.
LEMMA StepRecordsRun ==
    SweepInv /\ RecordsRun /\ [Next]_vars => RecordsRun' /\ RecordsRunForward
<1> SUFFICES ASSUME SweepInv, RecordsRun, [Next]_vars
             PROVE  RecordsRun' /\ RecordsRunForward
  OBVIOUS
<1>0. PrTypeOK /\ PrTypeOK'
  BY StepSweepInv DEF SweepInv, SweepTypes, TypeOK
<1>1. CASE [PrNext]_prVars
  BY <1>0, <1>1, PrStepRecordsRun
<1>2. CASE SweepNext \/ AccessNext
  <2>1. ASSUME NEW p \in PullRequests
        PROVE  /\ ReadsArePast(p)'
               /\ Overtaken(p, rows[p])'
               /\ Overtaken(p, object[p].snapshot)'
               /\ RunsForward(rows[p], rows'[p])
               /\ RunsForward(object[p].snapshot, object'[p].snapshot)
    <3>1. rev[p] \in Nat /\ clock \in Nat
      BY <1>0, PullRequestAssumption DEF PrTypeOK, Revs, Times
    <3> QED
      BY <1>0, <1>2, <3>1, SweepRows, StepRecords DEF RecordsRun, Reads
  <2> QED
    BY <2>1 DEF RecordsRun, RecordsRunForward
<1> QED
  BY <1>1, <1>2, Steps

\* Reconciles, prunes and purges between the objects' syncs, and syncs that come
\* after a row was pruned, never put an older record where a newer one is.
THEOREM RecordsRunForwardUnderSweeps == Spec => [][RecordsRunForward]_vars
<1>1. Init => SweepInv /\ RecordsRun
  BY InitSweepInv, PrInitRecordsRun DEF Init
<1>2. SweepInv /\ RecordsRun /\ [Next]_vars => (SweepInv /\ RecordsRun)' /\ RecordsRunForward
  BY StepSweepInv, StepRecordsRun
<1> QED
  BY <1>1, <1>2, PTL DEF Spec

-----------------------------------------------------------------------------
(* What the fences stand for                                               *)

\* A record of a pull request read before the fence shows no more than the
\* listing behind the fence could have seen.
Behind(record, fence, seen) == record.synced_at < fence => record.rev <= seen

\* ... and so it is with every record of the pull request there is: what is
\* stamped from now on is stamped with the fence's second or a later one.
Fenced(p, fence, seen) ==
    /\ fence <= clock
    /\ rows[p] # None => Behind(rows[p], fence, seen)
    /\ object[p].snapshot # None => Behind(object[p].snapshot, fence, seen)
    /\ running[p].step = "write" => Behind(running[p].record, fence, seen)

\* No record of the pull request, nor one about to be stamped, shows more.
UpTo(p, seen) ==
    /\ rows[p] # None => rows[p].rev <= seen
    /\ object[p].snapshot # None => object[p].snapshot.rev <= seen
    /\ running[p].step = "write" => running[p].record.rev <= seen
    /\ running[p].step = "stamp" => running[p].rev <= seen

\* Records show what GitHub had, and a snapshot is the object's last sync.
RecordsInv ==
    \A p \in PullRequests :
      /\ UpTo(p, rev[p])
      /\ object[p].snapshot # None => object[p].last_synced_at = object[p].snapshot.synced_at

\* Fences were read from the clock.
FencesArePast == \A s \in Sweepers : sweep[s].fence <= clock

\* A reconcile that has listed its repository has seen what is behind its fence.
ReconcileFenced ==
    \A r \in Repositories : sweep[r].step \in {"sync", "await"} =>
      \A p \in PullsOf(r) : Fenced(p, sweep[r].fence, sweep[r].seen[p])

\* ... and so has the installation's sweep, of what its listing did not show.
ReplaceFenced ==
    sweep[Installation].step = "replace" =>
      \A p \in PullRequests : RepoOf[p] \notin sweep[Installation].live =>
        Fenced(p, sweep[Installation].fence, sweep[Installation].seen[p])

\* What is queued and what is sent keeps the fence of its prune.
QueuedFenced ==
    \A e \in outbox : e.synced_before # None => Fenced(e.pr, e.synced_before, e.seen)

SentFenced ==
    \A m \in mail : m.kind = "closed" /\ m.synced_before # None =>
      Fenced(m.pr, m.synced_before, m.seen)

FenceInv ==
    /\ SweepInv
    /\ RecordsInv
    /\ FencesArePast
    /\ ReconcileFenced
    /\ ReplaceFenced
    /\ QueuedFenced
    /\ SentFenced

\* What the installation's listing did not show is out of the objects' sight
\* until it is dropped, so the cascade takes no row that shows more.
OutOfSight ==
    sweep[Installation].step = "replace" =>
      \A p \in PullRequests : RepoOf[p] \notin sweep[Installation].live =>
        ~Visible(p) /\ UpTo(p, sweep[Installation].seen[p])

SightInv == FenceInv /\ OutOfSight /\ PruneSparesNewer

\* A handler's step leaves the records behind the fence as they were.
LEMMA ObjectFenced ==
    ASSUME PrTypeOK, NEW p \in PullRequests, ObjectNext(p),
           NEW fence \in Times, NEW seen \in Revs, Fenced(p, fence, seen)
    PROVE  Fenced(p, fence, seen)'
<1>1. clock' = clock /\ clock \in Nat /\ fence \in Nat
  BY ObjectFrame, PullRequestAssumption DEF PrTypeOK, Times
<1>2. Stamped(running[p].rev).synced_at = clock
  BY DEF Stamped
<1>3. clock' >= fence /\ ~(clock < fence) /\ fence <= clock'
  BY <1>1 DEF Fenced
<1>4. rows'[p] # None => Behind(rows'[p], fence, seen)
  BY RecordMoves DEF Fenced
<1>5. object'[p].snapshot # None => Behind(object'[p].snapshot, fence, seen)
  BY RecordMoves DEF Fenced
<1>6. running'[p].step = "write" => Behind(running'[p].record, fence, seen)
  BY <1>2, <1>3, RecordMoves DEF Fenced, Behind
<1> QED
  BY <1>3, <1>4, <1>5, <1>6 DEF Fenced, Behind

\* ... and shows no more, unless GitHub does and is in sight.
LEMMA ObjectUpTo ==
    ASSUME PrTypeOK, NEW p \in PullRequests, ObjectNext(p),
           NEW seen \in Revs, UpTo(p, seen), Visible(p) => rev[p] <= seen
    PROVE  UpTo(p, seen)'
<1>1. Stamped(running[p].rev).rev = running[p].rev
  BY DEF Stamped
<1>2. rows'[p] # None => rows'[p].rev <= seen
  BY RecordMoves DEF UpTo
<1>3. object'[p].snapshot # None => object'[p].snapshot.rev <= seen
  BY RecordMoves DEF UpTo
<1>4. running'[p].step = "write" => running'[p].record.rev <= seen
  BY <1>1, RecordMoves DEF UpTo
<1>5. running'[p].step = "stamp" => running'[p].rev <= seen
  BY RecordMoves
<1> QED
  BY <1>2, <1>3, <1>4, <1>5 DEF UpTo

\* No step makes a record behind a fence newer than the fence allows.
LEMMA StepFenced ==
    ASSUME SweepInv, [Next]_vars, NEW p \in PullRequests,
           NEW fence \in Times, NEW seen \in Revs, Fenced(p, fence, seen)
    PROVE  Fenced(p, fence, seen)'
<1>0. PrTypeOK /\ clock \in Nat /\ fence \in Nat
  BY PullRequestAssumption DEF SweepInv, SweepTypes, TypeOK, PrTypeOK, Times
<1>1. ASSUME clock' \in Nat, clock' >= clock, rows'[p] \in {rows[p], None},
             object'[p] = object[p], running'[p] = running[p]
      PROVE  Fenced(p, fence, seen)'
  BY <1>0, <1>1 DEF Fenced, Behind
<1>2. CASE [PrNext]_prVars
  <2>1. clock' >= clock /\ clock' \in Nat
    BY <1>0, <1>2, PrClockRuns, PrStepTypeOK, PullRequestAssumption DEF PrTypeOK, Times
  <2>2. CASE UNCHANGED prVars
    BY <1>1, <2>1, <2>2 DEF prVars
  <2>3. CASE Tick \/ \E q \in PullRequests : WorldNext(q)
    BY <1>1, <2>1, <2>3, WorldKeeps
  <2>4. CASE ObjectNext(p)
    BY <1>0, <2>4, ObjectFenced
  <2>5. ASSUME NEW q \in PullRequests \ {p}, ObjectNext(q)
        PROVE  Fenced(p, fence, seen)'
    BY <1>0, <1>1, <2>1, <2>5, ObjectFrame
  <2> QED
    BY <1>2, <2>2, <2>3, <2>4, <2>5 DEF PrNext
<1>3. CASE SweepNext \/ AccessNext
  BY <1>0, <1>1, <1>3, SweepRows
<1> QED
  BY <1>2, <1>3, Steps

\* Every step keeps records to what GitHub had.
LEMMA StepRecordsInv ==
    ASSUME SweepInv, RecordsInv, [Next]_vars
    PROVE  RecordsInv'
<1>0. PrTypeOK /\ \A p \in PullRequests : rev[p] \in Nat
  BY PullRequestAssumption DEF SweepInv, SweepTypes, TypeOK, PrTypeOK, Revs
<1> SUFFICES ASSUME NEW p \in PullRequests
             PROVE  /\ UpTo(p, rev[p])'
                    /\ object'[p].snapshot # None =>
                         object'[p].last_synced_at = object'[p].snapshot.synced_at
  BY DEF RecordsInv
<1>1. /\ UpTo(p, rev[p])
      /\ object[p].snapshot # None => object[p].last_synced_at = object[p].snapshot.synced_at
  BY DEF RecordsInv
<1>2. CASE [PrNext]_prVars
  <2>1. PrTypeOK' /\ rev'[p] >= rev[p]
    BY <1>0, <1>2, PrRevRuns, PrStepTypeOK
  <2>2. PICK n \in Revs : n = rev'[p]
    BY <2>1 DEF PrTypeOK
  <2>3. UpTo(p, n) /\ rev[p] <= n
    <3>1. /\ rows[p] # None => rows[p].rev \in Nat
          /\ object[p].snapshot # None => object[p].snapshot.rev \in Nat
          /\ running[p].step = "write" => running[p].record.rev \in Nat
          /\ running[p].step = "stamp" => running[p].rev \in Nat
      BY <1>0, InvocationTypes, PullRequestAssumption DEF PrTypeOK, PrState, Record, Revs
    <3> QED
      BY <1>0, <1>1, <2>1, <2>2, <3>1, PullRequestAssumption DEF UpTo, Revs
  <2>4. ASSUME rows'[p] = rows[p], object'[p] = object[p], running'[p] = running[p]
        PROVE  /\ UpTo(p, rev[p])'
               /\ object'[p].snapshot # None =>
                    object'[p].last_synced_at = object'[p].snapshot.synced_at
    BY <1>1, <2>2, <2>3, <2>4 DEF UpTo
  <2>5. CASE UNCHANGED prVars
    BY <2>4, <2>5 DEF prVars
  <2>6. CASE Tick \/ \E q \in PullRequests : WorldNext(q)
    BY <2>4, <2>6, WorldKeeps
  <2>7. CASE ObjectNext(p)
    <3>1. UpTo(p, n)'
      BY <1>0, <2>3, <2>7, ObjectUpTo
    <3>2. object'[p].snapshot # None =>
            object'[p].last_synced_at = object'[p].snapshot.synced_at
      BY <1>0, <1>1, <2>7, RecordMoves
    <3> QED
      BY <2>2, <3>1, <3>2 DEF UpTo
  <2>8. ASSUME NEW q \in PullRequests \ {p}, ObjectNext(q)
        PROVE  /\ UpTo(p, rev[p])'
               /\ object'[p].snapshot # None =>
                    object'[p].last_synced_at = object'[p].snapshot.synced_at
    BY <1>0, <2>4, <2>8, ObjectFrame
  <2> QED
    BY <1>2, <2>5, <2>6, <2>7, <2>8 DEF PrNext
<1>3. CASE SweepNext \/ AccessNext
  BY <1>1, <1>3, SweepRows DEF UpTo
<1> QED
  BY <1>2, <1>3, Steps

\* How a sweep comes by its fence, and by what it has listed.
Moves(s) ==
    /\ sweep'[s].fence \in {sweep[s].fence, 0, clock}
    /\ sweep'[s].step \in {"sync", "await"} =>
         \/ /\ sweep[s].step \in {"sync", "await"}
            /\ sweep'[s].fence = sweep[s].fence
            /\ sweep'[s].seen = sweep[s].seen
         \/ sweep'[s].fence = sweep[s].fence /\ sweep'[s].seen = rev
    /\ sweep'[s].step = "replace" =>
         \/ sweep[s].step = "replace" /\ sweep'[s] = sweep[s]
         \/ /\ s = Installation
            /\ installed
            /\ sweep'[s].fence = sweep[s].fence
            /\ sweep'[s].live = granted
            /\ sweep'[s].seen = [p \in PullRequests |-> IF Visible(p) THEN 0 ELSE rev[p]]
    /\ sweep'[s].step = "purge" => sweep[s].step = "purge" \/ ~installed
    /\ sweep'[s].step = "ack" => sweep'[s] = sweep[s] \/ DrainReads(s)
    /\ \/ sweep'[s].through \in {sweep[s].through, 0}
       \/ outbox # {} /\ outbox' = outbox /\ sweep'[s].through = last_of(outbox)

\* Whichever sweep a step is of, it moves every sweep so, if at all.
LEMMA SweepMoves ==
    ASSUME SweepInv, SweepNext, NEW s \in Sweepers
    PROVE  Moves(s)
<1> USE DEF Moves
<1>0. /\ sweep \in [Sweepers -> Sweeps] /\ sweep[s] \in Sweeps
      /\ Installation \in Sweepers /\ Repositories \subseteq Sweepers
  BY DEF SweepInv, SweepTypes, TypeOK, Sweepers
<1>1. ASSUME sweep'[s] = sweep[s] \/ sweep'[s] = Resting
      PROVE  Moves(s)
  BY <1>1 DEF Resting
<1>2. ASSUME NEW t \in Sweepers, NEW step \in {"list", "purge", "drain"},
             step = "purge" => ~installed,
             \/ sweep' = [sweep EXCEPT ![t].step = step]
             \/ sweep' = [sweep EXCEPT ![t].step = step, ![t].fence = clock]
      PROVE  Moves(s)
  BY <1>0, <1>1, <1>2 DEF Sweeps
<1>3. CASE SyncNow \/ PurgeStarts \/ ListRepositoriesFails
  BY <1>0, <1>1, <1>2, <1>3 DEF SyncNow, PurgeStarts, ListRepositoriesFails, Goes, Ends
<1>4. CASE ListRepositories
  <2>1. PICK at : sweep' = [sweep EXCEPT ![Installation].step = "replace",
                                         ![Installation].live = granted,
                                         ![Installation].at = at,
                                         ![Installation].seen = [p \in PullRequests |->
                                           IF Visible(p) THEN 0 ELSE rev[p]]]
    BY <1>4 DEF ListRepositories
  <2>2. installed
    BY <1>4 DEF ListRepositories
  <2>3. CASE s = Installation
    BY <1>0, <2>1, <2>2, <2>3 DEF Sweeps
  <2>4. CASE s # Installation
    BY <1>0, <1>1, <2>1, <2>4
  <2> QED
    BY <2>3, <2>4
<1>5. ASSUME NEW r \in Repositories,
             ReconcileStarts(r) \/ ListPullRequests(r) \/ CallSync(r) \/ SyncReturns(r) \/ SyncSha(r)
      PROVE  Moves(s)
  <2>1. CASE ReconcileStarts(r)
    BY <1>0, <1>2, <2>1 DEF ReconcileStarts
  <2>2. CASE ListPullRequests(r)
    <3>1. ASSUME NEW open, sweep' = [sweep EXCEPT ![r].step = "sync", ![r].live = open,
                                                  ![r].todo = open, ![r].seen = rev]
          PROVE  Moves(s)
      BY <1>0, <1>1, <3>1 DEF Sweeps
    <3> QED
      BY <1>0, <1>1, <2>2, <3>1 DEF ListPullRequests, Ends
  <2>3. CASE CallSync(r)
    BY <1>0, <1>1, <2>3 DEF CallSync, Sweeps
  <2>4. CASE SyncReturns(r)
    BY <1>0, <1>1, <2>4 DEF SyncReturns, Goes, Sweeps
  <2>5. CASE SyncSha(r)
    BY <1>1, <2>5 DEF SyncSha, sweepVars
  <2> QED
    BY <1>5, <2>1, <2>2, <2>3, <2>4, <2>5
<1>6. ASSUME NEW t \in Sweepers, NEW effect, PruneStep(t, effect, "drain")
      PROVE  Moves(s)
  BY <1>0, <1>1, <1>2, <1>6 DEF PruneStep, Goes, Ends
<1>7. CASE Prunes
  BY <1>0, <1>6, <1>7 DEF Prunes, RetainPullRequests, ReplaceRepositories, PurgeProjection
<1>8. ASSUME NEW t \in Sweepers, Drains(t)
      PROVE  Moves(s)
  <2>1. CASE /\ DrainReads(t)
             /\ sweep' = [sweep EXCEPT ![t].step = "ack", ![t].through = last_of(outbox)]
             /\ outbox # {}
             /\ outbox' = outbox
    <3>1. CASE s = t
      BY <1>0, <2>1, <3>1 DEF Sweeps
    <3>2. CASE s # t
      BY <1>0, <1>1, <2>1, <3>2
    <3> QED
      BY <3>1, <3>2
  <2>2. CASE sweep' = sweep \/ sweep' = [sweep EXCEPT ![t] = Resting]
    BY <1>0, <1>1, <2>2
  <2> QED
    BY <1>8, <2>1, <2>2
       DEF Drains, DrainReads, DrainAcknowledges, SweepFails, AfterDrain, StepFails, Ends
<1> QED
  BY <1>3, <1>4, <1>5, <1>7, <1>8, SweepSteps DEF Listings

\* A fence is read from the clock, which does not run back.
LEMMA StepFences ==
    ASSUME SweepInv, FencesArePast, [Next]_vars
    PROVE  FencesArePast'
<1>0. /\ PrTypeOK /\ clock \in Nat
      /\ \A s \in Sweepers : sweep[s].fence \in Nat
  BY PullRequestAssumption DEF SweepInv, SweepTypes, TypeOK, PrTypeOK, Sweeps, Times
<1>1. CASE [PrNext]_prVars /\ UNCHANGED sweepVars
  <2>1. clock' >= clock /\ clock' \in Nat
    BY <1>0, <1>1, PrClockRuns, PrStepTypeOK, PullRequestAssumption DEF PrTypeOK, Times
  <2> QED
    BY <1>0, <1>1, <2>1 DEF FencesArePast, sweepVars
<1>2. CASE SweepNext
  <2>1. UNCHANGED clock
    BY <1>2, SweepRows
  <2>2. \A s \in Sweepers : sweep'[s].fence \in {sweep[s].fence, 0, clock}
    BY <1>2, SweepMoves DEF Moves
  <2> QED
    BY <1>0, <2>1, <2>2 DEF FencesArePast
<1>3. CASE AccessNext
  BY <1>3, AccessTypes DEF FencesArePast, SweepInv, sweepVars
<1> QED
  BY <1>1, <1>2, <1>3, Steps

\* A listing sees everything there is to see behind its fence, and nothing that
\* shows less comes after it.
LEMMA StepReconcileFenced ==
    ASSUME FenceInv, [Next]_vars
    PROVE  ReconcileFenced'
<1> SUFFICES ASSUME NEW r \in Repositories, sweep'[r].step \in {"sync", "await"},
                    NEW p \in PullsOf(r)
             PROVE  Fenced(p, sweep[r].fence, sweep[r].seen[p])'
  BY DEF ReconcileFenced
<1>0. /\ SweepInv /\ PrTypeOK /\ p \in PullRequests /\ r \in Sweepers
      /\ sweep[r].fence \in Times /\ sweep[r].seen \in [PullRequests -> Revs]
      /\ rev \in [PullRequests -> Revs]
  BY DEF FenceInv, SweepInv, SweepTypes, TypeOK, PrTypeOK, Sweeps, Sweepers, PullsOf
<1>1. ASSUME NEW seen \in Revs, Fenced(p, sweep[r].fence, seen),
             sweep'[r].fence = sweep[r].fence, sweep'[r].seen[p] = seen
      PROVE  Fenced(p, sweep[r].fence, sweep[r].seen[p])'
  <2> PICK fence \in Times : fence = sweep[r].fence
    BY <1>0
  <2>1. Fenced(p, fence, seen)'
    BY <1>0, <1>1, StepFenced
  <2> QED
    BY <1>1, <2>1 DEF Fenced
<1>2. CASE UNCHANGED sweepVars
  BY <1>0, <1>1, <1>2 DEF FenceInv, ReconcileFenced, sweepVars
<1>3. CASE SweepNext
  <2>1. CASE /\ sweep[r].step \in {"sync", "await"}
             /\ sweep'[r].fence = sweep[r].fence /\ sweep'[r].seen = sweep[r].seen
    BY <1>0, <1>1, <2>1 DEF FenceInv, ReconcileFenced
  <2>2. CASE sweep'[r].fence = sweep[r].fence /\ sweep'[r].seen = rev
    <3>1. Fenced(p, sweep[r].fence, rev[p])
      BY <1>0 DEF FenceInv, FencesArePast, RecordsInv, UpTo, Fenced, Behind
    <3> QED
      BY <1>0, <1>1, <2>2, <3>1
  <2> QED
    BY <1>0, <1>3, <2>1, <2>2, SweepMoves DEF Moves
<1> QED
  BY <1>0, <1>2, <1>3, Steps, AccessTypes DEF SweepInv

\* ... nor after the installation's, of a repository it did not show.
LEMMA StepReplaceFenced ==
    ASSUME FenceInv, [Next]_vars
    PROVE  ReplaceFenced'
<1> DEFINE s == sweep[Installation]
<1> SUFFICES ASSUME s'.step = "replace", NEW p \in PullRequests, RepoOf[p] \notin s'.live
             PROVE  Fenced(p, s.fence, s.seen[p])'
  BY DEF ReplaceFenced
<1>0. /\ SweepInv /\ PrTypeOK
      /\ Installation \in Sweepers
      /\ s.fence \in Times /\ s.seen \in [PullRequests -> Revs]
      /\ rev \in [PullRequests -> Revs]
  BY DEF FenceInv, SweepInv, SweepTypes, TypeOK, Sweeps, Sweepers, PrTypeOK
<1> HIDE DEF s
<1>1. ASSUME NEW seen \in Revs, Fenced(p, s.fence, seen), s'.fence = s.fence, s'.seen[p] = seen
      PROVE  Fenced(p, s.fence, s.seen[p])'
  <2> PICK fence \in Times : fence = s.fence
    BY <1>0
  <2>1. Fenced(p, fence, seen)'
    BY <1>0, <1>1, StepFenced
  <2> QED
    BY <1>1, <2>1 DEF Fenced
<1>2. CASE s' = s
  BY <1>0, <1>1, <1>2 DEF FenceInv, ReplaceFenced, s
<1>3. CASE SweepNext /\ s' # s
  <2>1. /\ s'.live = granted /\ s'.fence = s.fence
        /\ s'.seen = [q \in PullRequests |-> IF Visible(q) THEN 0 ELSE rev[q]]
    BY <1>0, <1>3, SweepMoves DEF Moves, s
  <2>2. s'.seen[p] = rev[p]
    BY <2>1 DEF Visible
  <2>3. Fenced(p, s.fence, rev[p])
    BY <1>0 DEF FenceInv, FencesArePast, RecordsInv, UpTo, Fenced, Behind, s
  <2> QED
    BY <1>0, <1>1, <2>1, <2>2, <2>3
<1> QED
  BY <1>0, <1>2, <1>3, Steps, AccessTypes DEF sweepVars, SweepInv, s

\* What a prune queues: no record from before the fence shows more than its
\* listing saw.
LEMMA QueuesFenced ==
    ASSUME FenceInv, [Next]_vars, NEW gone \in SUBSET PullRequests,
           NEW fence \in Times, NEW seen \in [PullRequests -> Revs],
           \A p \in gone : Fenced(p, fence, seen[p]),
           queue_retirements(gone, fence, seen)
    PROVE  QueuedFenced'
<1> SUFFICES ASSUME NEW e \in outbox', e.synced_before # None
             PROVE  Fenced(e.pr, e.synced_before, e.seen)'
  BY DEF QueuedFenced
<1>0. SweepInv
  BY DEF FenceInv
<1>1. CASE e \in outbox
  <2>1. e.pr \in PullRequests /\ e.synced_before \in Times /\ e.seen \in Revs
    BY <1>0, <1>1 DEF SweepInv, SweepTypes, TypeOK, Retirements
  <2> QED
    BY <1>0, <1>1, <2>1, StepFenced DEF FenceInv, QueuedFenced
<1>2. ASSUME NEW p \in gone,
             e = [id |-> last_id', pr |-> p, synced_before |-> fence,
                  seen |-> seen[p], had |-> rows[p].rev]
      PROVE  Fenced(e.pr, e.synced_before, e.seen)'
  <2>1. seen[p] \in Revs /\ p \in PullRequests
    OBVIOUS
  <2>2. Fenced(p, fence, seen[p])'
    BY <1>0, <2>1, StepFenced
  <2> QED
    BY <1>2, <2>2
<1> QED
  BY <1>1, <1>2 DEF queue_retirements

\* What is queued is behind the fence of the prune that queued it.
LEMMA StepQueuedFenced ==
    ASSUME FenceInv, [Next]_vars
    PROVE  QueuedFenced'
<1>0. /\ SweepInv /\ SweepTypes /\ RowHasRepository
      /\ Installation \in Sweepers /\ Repositories \subseteq Sweepers
      /\ \A s \in Sweepers : /\ sweep[s].fence \in Times
                             /\ sweep[s].seen \in [PullRequests -> Revs]
      /\ \A p \in PullRequests : rows[p] # None => rows[p] \in Record
      /\ None \notin Times
  BY PullRequestAssumption
     DEF FenceInv, SweepInv, SweepTypes, TypeOK, Sweeps, Sweepers, PrTypeOK, Times
<1>1. ASSUME outbox' \subseteq outbox
      PROVE  QueuedFenced'
  <2>1. \A e \in outbox : /\ e.pr \in PullRequests /\ e.seen \in Revs
                          /\ e.synced_before # None => e.synced_before \in Times
    BY <1>0 DEF SweepTypes, TypeOK, Retirements
  <2> QED
    BY <1>0, <1>1, <2>1, StepFenced DEF FenceInv, QueuedFenced
<1>2. ASSUME NEW r \in Repositories, RetainPullRequests(r)
      PROVE  QueuedFenced'
  <2>1. PICK gone \in SUBSET PullsOf(r) :
          /\ \A p \in gone : rows[p] # None /\ rows[p].synced_at < sweep[r].fence
          /\ queue_retirements(gone, sweep[r].fence, sweep[r].seen)
    BY <1>2, RetainPrunes
  <2>2. sweep[r].step = "sync"
    BY <1>2 DEF RetainPullRequests
  <2>3. \A p \in gone : Fenced(p, sweep[r].fence, sweep[r].seen[p])
    BY <2>1, <2>2 DEF FenceInv, ReconcileFenced
  <2> QED
    BY <1>0, <2>1, <2>3, QueuesFenced DEF PullsOf
<1>3. CASE ReplaceRepositories
  <2> DEFINE s == sweep[Installation]
  <2>1. PICK gone \in SUBSET PullRequests, selected \in SUBSET (Repositories \ s.live) :
          /\ \A p \in PullRequests : p \in gone <=> RepoOf[p] \in selected /\ rows[p] # None
          /\ queue_retirements(gone, s.fence, s.seen)
    BY <1>3, ReplacePrunes
  <2>2. s.step = "replace"
    BY <1>3 DEF ReplaceRepositories
  <2>3. \A p \in gone : Fenced(p, s.fence, s.seen[p])
    BY <2>1, <2>2 DEF FenceInv, ReplaceFenced
  <2> HIDE DEF s
  <2>4. s.fence \in Times /\ s.seen \in [PullRequests -> Revs]
    BY <1>0 DEF s
  <2> QED
    BY <2>1, <2>3, <2>4, QueuesFenced
<1>4. CASE PurgeProjection
  <2>1. PICK gone \in SUBSET PullRequests :
          queue_retirements(gone, None, [p \in PullRequests |-> 0])
    BY <1>0, <1>4, PurgePrunes
  <2>2. \A e \in outbox' : e \in outbox \/ e.synced_before = None
    BY <2>1 DEF queue_retirements
  <2>3. \A e \in outbox : /\ e.pr \in PullRequests /\ e.seen \in Revs
                          /\ e.synced_before # None => e.synced_before \in Times
    BY <1>0 DEF SweepTypes, TypeOK, Retirements
  <2> QED
    BY <1>0, <2>2, <2>3, StepFenced DEF FenceInv, QueuedFenced
<1>5. CASE SweepNext
  BY <1>1, <1>2, <1>3, <1>4, <1>5, SweepSteps, ListingsKeep, DrainsKeep DEF Prunes
<1> QED
  BY <1>0, <1>1, <1>5, Steps, AccessTypes DEF sweepVars

\* Whose close carries a fence.
LEMMA PrClosesUnfenced ==
    ASSUME PrTypeOK, [PrNext]_prVars, NEW m \in mail', m.kind = "closed", m.synced_before # None
    PROVE  m \in mail
<1>1. CASE UNCHANGED prVars \/ Tick
  BY <1>1 DEF prVars, Tick
<1>2. ASSUME NEW p \in PullRequests, WorldNext(p)
      PROVE  m \in mail
  BY <1>2 DEF WorldNext, GithubChanges, GithubCloses, ClosedWebhook, Delivered, Sent,
     SyncMessage, ClosedMessage
<1>3. ASSUME NEW p \in PullRequests, ObjectNext(p)
      PROVE  m \in mail
  <2>1. CASE \E n \in mail :
               SyncDebounced(p, n) \/ SyncStarts(p, n) \/ ClosedKept(p, n) \/ ClosedStarts(p, n)
    BY <2>1 DEF SyncDebounced, SyncStarts, ClosedKept, ClosedStarts, TrailingSync, SyncMessage
  <2>2. CASE \/ FetchReads(p) \/ FetchStamps(p) \/ FetchFails(p)
             \/ SyncFinishes(p) \/ UpsertRepeats(p) \/ UpsertFails(p)
             \/ Dropped(p) \/ DropRepeats(p) \/ DropFails(p)
    BY <2>2 DEF FetchReads, FetchStamps, FetchFails, SyncFinishes, UpsertRepeats, UpsertFails,
       Dropped, DropRepeats, DropFails
  <2>3. CASE \/ \E action \in {"merge", "update"} : ActionStarts(p, action)
             \/ MergeLands(p)
             \/ UpdateLands(p)
             \/ ActionRejected(p)
    BY <2>3 DEF ActionStarts, MergeLands, UpdateLands, ActionRejected, ClosedWebhook, Delivered,
       Sent, SyncMessage, ClosedMessage
  <2> QED
    BY <1>3, <2>1, <2>2, <2>3 DEF ObjectNext
<1> QED
  BY <1>1, <1>2, <1>3 DEF PrNext

\* A drained retirement carries the fence it was queued with.
LEMMA StepSentFenced ==
    ASSUME FenceInv, [Next]_vars
    PROVE  SentFenced'
<1> SUFFICES ASSUME NEW m \in mail', m.kind = "closed", m.synced_before # None
             PROVE  Fenced(m.pr, m.synced_before, m.seen)'
  BY DEF SentFenced
<1>0. SweepInv /\ SweepTypes /\ PrTypeOK
  BY DEF FenceInv, SweepInv, SweepTypes, TypeOK
<1>1. CASE m \in mail
  <2>1. m \in ClosedMessages
    BY <1>0, <1>1 DEF PrTypeOK, SyncMessages
  <2>2. m.pr \in PullRequests /\ m.synced_before \in Times /\ m.seen \in Revs
    BY <2>1 DEF ClosedMessages
  <2> QED
    BY <1>0, <1>1, <2>2, StepFenced DEF FenceInv, SentFenced
<1>2. ASSUME NEW e \in outbox, m = ClosedMessage(e.pr, e.synced_before, e.seen)
      PROVE  Fenced(m.pr, m.synced_before, m.seen)'
  <2>1. m.pr = e.pr /\ m.synced_before = e.synced_before /\ m.seen = e.seen
    BY <1>2 DEF ClosedMessage
  <2>2. Fenced(e.pr, e.synced_before, e.seen)
    BY <2>1 DEF FenceInv, QueuedFenced
  <2>3. e.pr \in PullRequests /\ e.synced_before \in Times /\ e.seen \in Revs
    <3>1. e \in Retirements
      BY <1>0 DEF SweepTypes, TypeOK
    <3> QED
      BY <2>1, <3>1 DEF Retirements
  <2>4. Fenced(e.pr, e.synced_before, e.seen)'
    BY <1>0, <2>2, <2>3, StepFenced
  <2> QED
    BY <2>1, <2>4
<1>3. CASE [PrNext]_prVars
  BY <1>0, <1>1, <1>3, PrClosesUnfenced
<1>4. CASE Listings
  BY <1>1, <1>4, ListingsKeep
<1>5. CASE Prunes
  BY <1>1, <1>5 DEF Prunes, RetainPullRequests, ReplaceRepositories, PurgeProjection
<1>6. ASSUME NEW s \in Sweepers, Drains(s)
      PROVE  Fenced(m.pr, m.synced_before, m.seen)'
  BY <1>1, <1>2, <1>6 DEF Drains, DrainReads, DrainAcknowledges, SweepFails, Sent, prVars
<1>7. CASE AccessNext
  BY <1>0, <1>1, <1>7, AccessTypes
<1> QED
  BY <1>3, <1>4, <1>5, <1>6, <1>7, Steps, SweepSteps

\* There is no fence yet.
LEMMA InitFenceInv == Init => FenceInv
<1> SUFFICES ASSUME Init PROVE FenceInv
  OBVIOUS
<1>1. SweepInv
  BY InitSweepInv
<1>2. \A p \in PullRequests : rows[p] = None /\ object[p] = Cleared /\ running[p] = Idle
  BY DEF Init, PrInit
<1>3. \A s \in Sweepers : sweep[s] = Resting
  BY DEF Init
<1>4. outbox = {} /\ \A m \in mail : m.kind = "sync"
  BY DEF Init, PrInit, SyncMessage
<1>5. clock = 0
  BY DEF Init, PrInit
<1>6. RecordsInv
  <2>1. Cleared.snapshot = None /\ Idle.step = "idle"
    BY DEF Cleared, Idle
  <2> QED
    BY <1>2, <2>1 DEF RecordsInv, UpTo
<1>7. FencesArePast /\ ReconcileFenced /\ ReplaceFenced
  BY <1>3, <1>5 DEF FencesArePast, ReconcileFenced, ReplaceFenced, Resting, Sweepers
<1>8. QueuedFenced /\ SentFenced
  BY <1>4 DEF QueuedFenced, SentFenced
<1> QED
  BY <1>1, <1>6, <1>7, <1>8 DEF FenceInv

\* Every step keeps the fences.
LEMMA StepFenceInv == FenceInv /\ [Next]_vars => FenceInv'
  BY StepSweepInv, StepRecordsInv, StepFences, StepReconcileFenced, StepReplaceFenced,
     StepQueuedFenced, StepSentFenced DEF FenceInv

\* A close that follows a prune (retire_pending, closed_retires) spares what is
\* newer, however late it is sent, whichever sweep's drain sends it, and though
\* the App regained the repository in between: an object that has read more than
\* the listing saw stands down.
THEOREM CloseSparesNewerHolds == Spec => []CloseSparesNewer
<1>1. FenceInv => CloseSparesNewer
  <2> SUFFICES ASSUME FenceInv, NEW m \in mail, m.kind = "closed", m.synced_before # None,
                      object[m.pr].snapshot # None, object[m.pr].snapshot.rev > m.seen
               PROVE  ~closed_retires(object[m.pr], m.synced_before)
    BY DEF CloseSparesNewer
  <2>1. m \in ClosedMessages
    BY DEF FenceInv, SweepInv, SweepTypes, TypeOK, PrTypeOK, SyncMessages
  <2>2. /\ m.pr \in PullRequests
        /\ m.synced_before \in Nat /\ m.seen \in Nat /\ None \notin Nat
    BY <2>1, PullRequestAssumption DEF ClosedMessages, Times, Revs
  <2>3. object[m.pr].snapshot.rev \in Nat /\ object[m.pr].snapshot.synced_at \in Nat
    <3>1. object[m.pr].snapshot \in Record
      BY <2>2 DEF FenceInv, SweepInv, SweepTypes, TypeOK, PrTypeOK, PrState
    <3> QED
      BY <3>1, PullRequestAssumption DEF Record, Times, Revs
  <2>4. Behind(object[m.pr].snapshot, m.synced_before, m.seen)
    BY DEF FenceInv, SentFenced, Fenced
  <2>5. object[m.pr].snapshot.synced_at >= m.synced_before
    BY <2>2, <2>3, <2>4 DEF Behind
  <2>6. object[m.pr].last_synced_at = object[m.pr].snapshot.synced_at
    BY <2>2 DEF FenceInv, RecordsInv
  <2> QED
    BY <2>2, <2>3, <2>5, <2>6 DEF closed_retires
<1>2. FenceInv /\ [Next]_vars => FenceInv'
  BY StepFenceInv
<1> QED
  BY InitFenceInv, <1>1, <1>2, PTL DEF Spec

\* While a repository is out of the App's sight and not regained, its pull
\* requests' records stay as the installation's listing left them behind.
LEMMA StepOutOfSight ==
    ASSUME FenceInv, OutOfSight, [Next]_vars, "grant" \notin Events
    PROVE  OutOfSight'
<1> DEFINE s == sweep[Installation]
<1> SUFFICES ASSUME s'.step = "replace", NEW p \in PullRequests, RepoOf[p] \notin s'.live
             PROVE  ~Visible(p)' /\ UpTo(p, s.seen[p])'
  BY DEF OutOfSight
<1>0. /\ SweepInv /\ PrTypeOK /\ RecordsInv
      /\ Installation \in Sweepers
      /\ s.seen \in [PullRequests -> Revs]
      /\ rev \in [PullRequests -> Revs]
  BY DEF FenceInv, SweepInv, SweepTypes, TypeOK, Sweeps, Sweepers, PrTypeOK
<1> HIDE DEF s
<1>1. CASE s' = s
  <2>1. ~Visible(p) /\ UpTo(p, s.seen[p])
    BY <1>1 DEF OutOfSight, s
  <2> PICK seen \in Revs : seen = s.seen[p]
    BY <1>0
  <2>2. UpTo(p, seen)'
    <3>1. ASSUME rows'[p] \in {rows[p], None}, object'[p] = object[p], running'[p] = running[p]
          PROVE  UpTo(p, seen)'
      BY <2>1, <3>1 DEF UpTo
    <3>2. CASE UNCHANGED prVars
      BY <3>1, <3>2 DEF prVars
    <3>3. CASE Tick \/ \E q \in PullRequests : WorldNext(q)
      BY <3>1, <3>3, WorldKeeps
    <3>4. CASE ObjectNext(p)
      BY <1>0, <2>1, <3>4, ObjectUpTo
    <3>5. ASSUME NEW q \in PullRequests \ {p}, ObjectNext(q)
          PROVE  UpTo(p, seen)'
      BY <1>0, <3>1, <3>5, ObjectFrame
    <3>6. CASE SweepNext \/ AccessNext
      BY <1>0, <3>1, <3>6, SweepRows
    <3> QED
      BY <3>2, <3>3, <3>4, <3>5, <3>6, Steps DEF PrNext
  <2>3. granted' \subseteq granted
    <3>1. CASE [PrNext]_prVars
      BY <3>1, GrantedKept DEF prVars
    <3>2. CASE SweepNext
      BY <3>2, SweepSteps, ListingsKeep, DrainsKeep
         DEF githubVars, Prunes, RetainPullRequests, ReplaceRepositories, PurgeProjection
    <3>3. CASE AccessNext
      BY <3>3 DEF AccessNext, GithubRevokes, GithubGrants, GithubUninstalls
    <3> QED
      BY <3>1, <3>2, <3>3, Steps
  <2> QED
    BY <1>1, <2>1, <2>2, <2>3 DEF Visible, UpTo
<1>2. CASE SweepNext /\ s' # s
  <2>1. s'.live = granted /\ s'.seen = [q \in PullRequests |-> IF Visible(q) THEN 0 ELSE rev[q]]
    BY <1>0, <1>2, SweepMoves DEF Moves, s
  <2>2. ~Visible(p) /\ s'.seen[p] = rev[p]
    BY <2>1 DEF Visible
  <2>3. granted' = granted
    BY <1>2, SweepSteps, ListingsKeep, DrainsKeep
       DEF githubVars, Prunes, RetainPullRequests, ReplaceRepositories, PurgeProjection
  <2>4. /\ rows'[p] \in {rows[p], None} /\ object'[p] = object[p] /\ running'[p] = running[p]
    BY <1>0, <1>2, SweepRows
  <2> QED
    BY <1>0, <2>2, <2>3, <2>4 DEF Visible, RecordsInv, UpTo
<1> QED
  BY <1>0, <1>1, <1>2, Steps, AccessTypes DEF sweepVars, SweepInv, s

\* What is queued showed no more than its prune's listing saw: a reconcile looks
\* at the rows, and what a replacement drops is out of sight.
LEMMA StepPruneSpares ==
    ASSUME SightInv, [Next]_vars
    PROVE  PruneSparesNewer'
<1>0. SweepTypes /\ RowHasRepository /\ PruneSparesNewer
  BY DEF SightInv, FenceInv, SweepInv
<1>1. ASSUME outbox' \subseteq outbox
      PROVE  PruneSparesNewer'
  BY <1>0, <1>1 DEF PruneSparesNewer
<1>2. ASSUME NEW gone \in SUBSET PullRequests, NEW fence, NEW seen,
             \A p \in gone : rows[p].rev <= seen[p],
             queue_retirements(gone, fence, seen)
      PROVE  PruneSparesNewer'
  BY <1>0, <1>2 DEF queue_retirements, PruneSparesNewer
<1>3. ASSUME NEW r \in Repositories, RetainPullRequests(r)
      PROVE  PruneSparesNewer'
  <2>1. PICK gone \in SUBSET PullsOf(r) :
          /\ \A p \in gone : rows[p] # None /\ rows[p].synced_at < sweep[r].fence
          /\ queue_retirements(gone, sweep[r].fence, sweep[r].seen)
    BY <1>3, RetainPrunes
  <2>2. sweep[r].step = "sync"
    BY <1>3 DEF RetainPullRequests
  <2>3. \A p \in gone : rows[p].rev <= sweep[r].seen[p]
    BY <2>1, <2>2 DEF SightInv, FenceInv, ReconcileFenced, Fenced, Behind
  <2> QED
    BY <1>2, <2>1, <2>3 DEF PullsOf
<1>4. CASE ReplaceRepositories
  <2> DEFINE s == sweep[Installation]
  <2>1. PICK gone \in SUBSET PullRequests, selected \in SUBSET (Repositories \ s.live) :
          /\ \A p \in PullRequests : p \in gone <=> RepoOf[p] \in selected /\ rows[p] # None
          /\ queue_retirements(gone, s.fence, s.seen)
    BY <1>4, ReplacePrunes
  <2>2. s.step = "replace"
    BY <1>4 DEF ReplaceRepositories
  <2>3. \A p \in gone : rows[p].rev <= s.seen[p]
    BY <2>1, <2>2 DEF SightInv, OutOfSight, UpTo
  <2> QED
    BY <1>2, <2>1, <2>3
<1>5. CASE PurgeProjection
  <2>1. PICK gone \in SUBSET PullRequests :
          queue_retirements(gone, None, [p \in PullRequests |-> 0])
    BY <1>0, <1>5, PurgePrunes
  <2>2. \A e \in outbox' : e \in outbox \/ e.synced_before = None
    BY <2>1 DEF queue_retirements
  <2> QED
    BY <1>0, <2>2 DEF PruneSparesNewer
<1>6. CASE SweepNext
  BY <1>1, <1>3, <1>4, <1>5, <1>6, SweepSteps, ListingsKeep, DrainsKeep DEF Prunes
<1> QED
  BY <1>0, <1>1, <1>6, Steps, AccessTypes DEF sweepVars

\* A prune (retain_prs, replace_installation_repos) takes no row that shows more
\* of its pull request than the listing behind it could have seen, however syncs,
\* pushes, revocations, an uninstall and other sweeps come between: unless the
\* App regains a repository it lost, whose cascade does not look at the rows.
THEOREM PruneSparesNewerHolds ==
    ASSUME "grant" \notin Events
    PROVE  Spec => []PruneSparesNewer
<1>1. Init => SightInv
  BY InitFenceInv DEF Init, SightInv, OutOfSight, PruneSparesNewer, Resting, Sweepers
<1>2. SightInv /\ [Next]_vars => SightInv'
  BY StepFenceInv, StepOutOfSight, StepPruneSpares DEF SightInv
<1>3. SightInv => PruneSparesNewer
  BY DEF SightInv
<1> QED
  BY <1>1, <1>2, <1>3, PTL DEF Spec

-----------------------------------------------------------------------------
(* What becomes of a snapshot whose row was pruned                         *)

\* No store step of an object is refused, or counts as failed after it landed.
StoreKeepsItsWord == "refused" \notin Faults /\ "gave_up" \notin Faults

\* A handler is about to make the object forget.
Dropping(p) == running[p].step \in {"drop", "drop_merged"}

\* A close that will retire the object is queued or on its way.
Told(p) ==
    \/ \E e \in outbox : e.pr = p /\ closed_retires(object[p], e.synced_before)
    \/ \E m \in mail : m.kind = "closed" /\ m.pr = p /\ closed_retires(object[p], m.synced_before)

LostRowTold ==
    \A p \in PullRequests :
      ~Dropping(p) /\ object[p].snapshot # None /\ rows[p] = None => Told(p)

\* A row is no older than the snapshot beside it, nor is what a sync will write:
\* a fence the row is behind, the snapshot is behind.
RowsNotOlder ==
    \A p \in PullRequests :
      /\ rows[p] # None /\ object[p].snapshot # None =>
           object[p].last_synced_at <= rows[p].synced_at
      /\ running[p].step = "write" /\ object[p].last_synced_at # None =>
           object[p].last_synced_at <= running[p].record.synced_at

\* The object has had the close of that fence: it holds nothing the close would
\* have retired, nor is about to.
Answered(p, fence) ==
    /\ object[p].snapshot # None => ~closed_retires(object[p], fence)
    /\ running[p].step = "write" /\ fence # None => running[p].record.synced_at >= fence

\* The close has been sent: it is on its way, or being handled, or was.
Covered(p, fence, seen) ==
    \/ ClosedMessage(p, fence, seen) \in mail
    \/ running[p].step = "drop"
    \/ Answered(p, fence)

\* What a drain is about to acknowledge, it has sent.
AckCovered ==
    \A s \in Sweepers : sweep[s].step = "ack" =>
      \A e \in outbox : e.id <= sweep[s].through => Covered(e.pr, e.synced_before, e.seen)

\* An acknowledgement covers only ids handed out, and queued fences are past.
IdsInv ==
    /\ \A s \in Sweepers : sweep[s].through <= last_id
    /\ \A e \in outbox : /\ e.id <= last_id
                         /\ e.synced_before # None => e.synced_before <= clock

\* A purge is the end: no repository comes back after one.
PurgedStays ==
    /\ sweep[Installation].step = "purge" => ~installed
    /\ (\E e \in outbox : e.synced_before = None) =>
         /\ ~installed
         /\ \A r \in Repositories : repos[r] = None
         /\ sweep[Installation].step # "replace"

\* An installation that loses no repository lists them all.
AllGranted ==
    /\ installed => granted = Repositories
    /\ sweep[Installation].step = "replace" => sweep[Installation].live = Repositories

LostInv ==
    /\ SweepInv
    /\ RecordsInv
    /\ FencesArePast
    /\ StampsArePast
    /\ RowsNotOlder
    /\ IdsInv
    /\ PurgedStays
    /\ AllGranted
    /\ AckCovered
    /\ LostRowTold

\* The row is written before the snapshot.
LEMMA StepRowsNotOlder ==
    ASSUME SweepInv, RecordsInv, StampsArePast, RowsNotOlder, [Next]_vars
    PROVE  RowsNotOlder'
<1> SUFFICES ASSUME NEW p \in PullRequests
             PROVE  /\ rows'[p] # None /\ object'[p].snapshot # None =>
                         object'[p].last_synced_at <= rows'[p].synced_at
                    /\ running'[p].step = "write" /\ object'[p].last_synced_at # None =>
                         object'[p].last_synced_at <= running'[p].record.synced_at
  BY DEF RowsNotOlder
<1> DEFINE Goal == /\ rows'[p] # None /\ object'[p].snapshot # None =>
                         object'[p].last_synced_at <= rows'[p].synced_at
                   /\ running'[p].step = "write" /\ object'[p].last_synced_at # None =>
                         object'[p].last_synced_at <= running'[p].record.synced_at
<1>0. /\ PrTypeOK
      /\ rows[p] # None /\ object[p].snapshot # None =>
           object[p].last_synced_at <= rows[p].synced_at
      /\ running[p].step = "write" /\ object[p].last_synced_at # None =>
           object[p].last_synced_at <= running[p].record.synced_at
      /\ object[p].snapshot # None => object[p].last_synced_at = object[p].snapshot.synced_at
      /\ object[p].last_synced_at # None => object[p].last_synced_at <= clock
  BY DEF SweepInv, SweepTypes, TypeOK, RowsNotOlder, RecordsInv, StampsArePast
<1>1. /\ object[p].snapshot # None => object[p].last_synced_at # None
      /\ running[p].step = "write" => running[p].record.synced_at \in Nat
      /\ Stamped(running[p].rev).synced_at = clock
  <2>1. /\ object[p].snapshot # None => object[p].snapshot \in Record
        /\ running[p].step = "write" => running[p].record \in Record
    BY <1>0, InvocationTypes DEF PrTypeOK, PrState
  <2> QED
    BY <1>0, <2>1, PullRequestAssumption DEF Record, Times, Stamped
<1>2. ASSUME rows'[p] \in {rows[p], None}, object'[p] = object[p], running'[p] = running[p]
      PROVE  Goal
  BY <1>0, <1>2
<1>3. CASE ObjectNext(p)
  <2>1. /\ \/ rows'[p] = rows[p]
           \/ rows'[p] = None
           \/ running[p].step = "write" /\ rows'[p] = running[p].record
        /\ \/ /\ object'[p].snapshot = object[p].snapshot
              /\ object'[p].last_synced_at = object[p].last_synced_at
           \/ object'[p].snapshot = None /\ running'[p] = Idle
           \/ /\ running[p].step = "write"
              /\ object'[p].snapshot = running[p].record
              /\ object'[p].last_synced_at = running[p].record.synced_at
              /\ rows'[p] = running[p].record
              /\ running'[p] = Idle
        /\ running'[p].step = "write" =>
             \/ running[p].step = "write" /\ running'[p].record = running[p].record
             \/ running[p].step = "stamp" /\ running'[p].record = Stamped(running[p].rev)
    BY <1>0, <1>3, RecordMoves
  <2>2. Idle.step # "write"
    BY DEF Idle
  <2> QED
    BY <1>0, <1>1, <2>1, <2>2
<1>4. CASE SweepNext \/ AccessNext
  BY <1>2, <1>4, SweepRows
<1>5. ASSUME NEW q \in PullRequests \ {p}, ObjectNext(q)
      PROVE  Goal
  BY <1>0, <1>2, <1>5, ObjectFrame
<1>6. CASE UNCHANGED prVars \/ Tick \/ \E q \in PullRequests : WorldNext(q)
  BY <1>2, <1>6, WorldKeeps DEF prVars
<1> QED
  BY <1>3, <1>4, <1>5, <1>6, Steps DEF PrNext

\* What a sweep's step adds to the outbox: one prune's retirements, under the
\* next id and that prune's fence.
LEMMA SweepQueues ==
    ASSUME SweepInv, SweepNext
    PROVE  /\ last_id' \in {last_id, last_id + 1}
           /\ \A e \in outbox' : e \in outbox \/
                /\ e.id = last_id + 1 /\ last_id' = last_id + 1
                /\ \/ \E r \in Repositories :
                        RetainPullRequests(r) /\ e.synced_before = sweep[r].fence
                   \/ ReplaceRepositories /\ e.synced_before = sweep[Installation].fence
                   \/ PurgeProjection /\ e.synced_before = None
<1>1. ASSUME NEW gone, NEW fence, NEW seen, queue_retirements(gone, fence, seen)
      PROVE  /\ last_id' \in {last_id, last_id + 1}
             /\ \A e \in outbox' : e \in outbox \/
                  (e.id = last_id + 1 /\ last_id' = last_id + 1 /\ e.synced_before = fence)
  <2>1. CASE gone = {}
    BY <1>1, <2>1 DEF queue_retirements
  <2>2. CASE gone # {}
    <3>1. /\ last_id' = last_id + 1
          /\ outbox' = outbox \cup
               {[id |-> last_id', pr |-> p, synced_before |-> fence,
                 seen |-> seen[p], had |-> rows[p].rev] : p \in gone}
      BY <1>1, <2>2 DEF queue_retirements
    <3>2. \A e \in outbox' : e \in outbox \/ (e.id = last_id' /\ e.synced_before = fence)
      BY <3>1
    <3> QED
      BY <3>1, <3>2
  <2> QED
    BY <2>1, <2>2
<1>2. ASSUME NEW r \in Repositories, RetainPullRequests(r)
      PROVE  /\ last_id' \in {last_id, last_id + 1}
             /\ \A e \in outbox' : e \in outbox \/
                  (e.id = last_id + 1 /\ last_id' = last_id + 1 /\ e.synced_before = sweep[r].fence)
  BY <1>1, <1>2, RetainPrunes
<1>3. ASSUME ReplaceRepositories
      PROVE  /\ last_id' \in {last_id, last_id + 1}
             /\ \A e \in outbox' : e \in outbox \/
                  /\ e.id = last_id + 1 /\ last_id' = last_id + 1
                  /\ e.synced_before = sweep[Installation].fence
  BY <1>1, <1>3, ReplacePrunes
<1>4. ASSUME PurgeProjection
      PROVE  /\ last_id' \in {last_id, last_id + 1}
             /\ \A e \in outbox' : e \in outbox \/
                  (e.id = last_id + 1 /\ last_id' = last_id + 1 /\ e.synced_before = None)
  BY <1>1, <1>4, PurgePrunes DEF SweepInv
<1>5. CASE Listings \/ \E s \in Sweepers : Drains(s)
  BY <1>5, ListingsKeep, DrainsKeep
<1> QED
  BY <1>2, <1>3, <1>4, <1>5, SweepSteps DEF Prunes

\* The last id of what is queued.
LEMMA LastQueued ==
    ASSUME SweepInv, outbox # {}
    PROVE  (\E e \in outbox : last_of(outbox) = e.id) /\ \A e \in outbox : e.id <= last_of(outbox)
<1> DEFINE ids == {e.id : e \in outbox}
<1>1. ids \in SUBSET (0..MaxRetirements) /\ ids # {} /\ MaxRetirements \in Nat
  BY ReconcileAssumption DEF SweepInv, SweepTypes, TypeOK, Retirements
<1> HIDE DEF ids
<1>2. Max(ids) \in ids /\ \A y \in ids : Max(ids) >= y
  BY <1>1, LastOf
<1> QED
  BY <1>1, <1>2 DEF last_of, ids

\* Ids only grow, and a fence is queued after it was read.
LEMMA StepIdsInv ==
    ASSUME SweepInv, FencesArePast, IdsInv, [Next]_vars
    PROVE  IdsInv'
<1>0. /\ PrTypeOK /\ SweepInv' /\ clock \in Nat /\ last_id \in Nat /\ last_id' \in Nat
      /\ Installation \in Sweepers /\ Repositories \subseteq Sweepers
      /\ None \notin Nat
      /\ \A s \in Sweepers : sweep[s].fence \in Nat /\ sweep[s].through \in Nat
      /\ \A e \in outbox : e.id \in Nat /\ e.synced_before \in Nat \cup {None}
  <2>1. SweepInv'
    BY StepSweepInv
  <2> QED
    BY <2>1, PullRequestAssumption, ReconcileAssumption
       DEF SweepInv, SweepTypes, TypeOK, PrTypeOK, Times, Sweeps, Sweepers, Retirements
<1>1. CASE [PrNext]_prVars /\ UNCHANGED sweepVars
  <2>1. clock' >= clock /\ clock' \in Nat
    BY <1>0, <1>1, PrClockRuns, PrStepTypeOK, PullRequestAssumption DEF PrTypeOK, Times
  <2> QED
    BY <1>0, <1>1, <2>1 DEF IdsInv, sweepVars
<1>2. CASE SweepNext
  <2>1. /\ last_id' >= last_id
        /\ clock' = clock
    BY <1>0, <1>2, SweepQueues, SweepRows
  <2>2. ASSUME NEW s \in Sweepers
        PROVE  sweep'[s].through <= last_id'
    <3>1. CASE sweep'[s].through \in {sweep[s].through, 0}
      BY <1>0, <2>1, <3>1 DEF IdsInv
    <3>2. CASE outbox # {} /\ sweep'[s].through = last_of(outbox)
      BY <1>0, <2>1, <3>2, LastQueued DEF IdsInv
    <3> QED
      BY <1>2, <3>1, <3>2, SweepMoves DEF Moves
  <2>3. ASSUME NEW e \in outbox'
        PROVE  e.id <= last_id' /\ (e.synced_before # None => e.synced_before <= clock')
    BY <1>0, <1>2, <2>1, SweepQueues DEF IdsInv, FencesArePast
  <2> QED
    BY <2>2, <2>3 DEF IdsInv
<1>3. CASE AccessNext
  BY <1>3, AccessTypes DEF IdsInv, SweepInv, sweepVars
<1> QED
  BY <1>1, <1>2, <1>3, Steps

\* Once the App is uninstalled and its projection purged, nothing is listed.
LEMMA StepPurgedStays ==
    ASSUME SweepInv, PurgedStays, [Next]_vars
    PROVE  PurgedStays'
<1>0. /\ PrTypeOK /\ Installation \in Sweepers /\ Repositories \subseteq Sweepers
      /\ None \notin Nat
      /\ \A s \in Sweepers : sweep[s].fence \in Nat
  BY PullRequestAssumption DEF SweepInv, SweepTypes, TypeOK, Times, Sweeps, Sweepers
<1>1. CASE [PrNext]_prVars /\ UNCHANGED <<sweepVars, installed>>
  <2>1. UNCHANGED <<repos, sweep, outbox, installed>>
    BY <1>0, <1>1, PrRowHasRepository DEF SweepInv, sweepVars
  <2> QED
    BY <2>1 DEF PurgedStays
<1>2. CASE SweepNext /\ UNCHANGED installed
  <2>0. /\ sweep'[Installation].step = "replace" =>
             installed \/ sweep[Installation].step = "replace"
        /\ sweep'[Installation].step = "purge" =>
             ~installed \/ sweep[Installation].step = "purge"
    BY <1>0, <1>2, SweepMoves DEF Moves
  <2>1. sweep'[Installation].step = "purge" => ~installed'
    BY <1>2, <2>0 DEF PurgedStays
  <2>2. ASSUME NEW e \in outbox', e.synced_before = None
        PROVE  /\ ~installed'
               /\ \A r \in Repositories : repos'[r] = None
               /\ sweep'[Installation].step # "replace"
    <3>1. CASE PurgeProjection
      <4>1. \A r \in Repositories : repos'[r] = None
        BY <3>1, PurgePrunes DEF SweepInv
      <4>2. sweep[Installation].step = "purge"
        BY <3>1 DEF PurgeProjection
      <4> QED
        BY <1>2, <2>0, <4>1, <4>2 DEF PurgedStays
    <3>2. CASE ~PurgeProjection
      <4>1. e \in outbox
        BY <1>0, <1>2, <2>2, <3>2, SweepQueues
      <4>2. /\ ~installed
            /\ \A r \in Repositories : repos[r] = None
            /\ sweep[Installation].step # "replace"
        BY <2>2, <4>1 DEF PurgedStays
      <4>3. repos' = repos
        <5>1. CASE Listings \/ \E s \in Sweepers : Drains(s)
          BY <5>1, ListingsKeep, DrainsKeep
        <5>2. CASE \E r \in Repositories : RetainPullRequests(r)
          BY <5>2, RetainPrunes
        <5>3. ~ReplaceRepositories
          BY <4>2 DEF ReplaceRepositories
        <5> QED
          BY <1>2, <3>2, <5>1, <5>2, <5>3, SweepSteps DEF Prunes
      <4> QED
        BY <1>2, <2>0, <4>2, <4>3
    <3> QED
      BY <3>1, <3>2
  <2> QED
    BY <2>1, <2>2 DEF PurgedStays
<1>3. CASE AccessNext
  <2>1. UNCHANGED <<repos, sweep, outbox>>
    BY <1>3, AccessTypes DEF SweepInv, sweepVars
  <2>2. installed' => installed
    BY <1>3 DEF AccessNext, GithubRevokes, GithubGrants, GithubUninstalls
  <2> QED
    BY <2>1, <2>2 DEF PurgedStays
<1> QED
  BY <1>1, <1>2, <1>3, Steps

\* What the installation sees it goes on seeing until it is uninstalled.
LEMMA StepAllGranted ==
    ASSUME SweepInv, AllGranted, [Next]_vars, "revoke" \notin Events
    PROVE  AllGranted'
<1>0. Installation \in Sweepers
  BY DEF Sweepers
<1>1. CASE [PrNext]_prVars /\ UNCHANGED <<sweepVars, installed>>
  <2>1. UNCHANGED <<granted, sweep, installed>>
    BY <1>1, GrantedKept DEF sweepVars
  <2> QED
    BY <2>1 DEF AllGranted
<1>2. CASE SweepNext /\ UNCHANGED installed
  <2>1. granted' = granted
    BY <1>2, SweepSteps, ListingsKeep, DrainsKeep
       DEF githubVars, Prunes, RetainPullRequests, ReplaceRepositories, PurgeProjection
  <2>2. sweep'[Installation].step = "replace" =>
          \/ sweep[Installation].step = "replace" /\ sweep'[Installation] = sweep[Installation]
          \/ installed /\ sweep'[Installation].live = granted
    BY <1>0, <1>2, SweepMoves DEF Moves
  <2> QED
    BY <1>2, <2>1, <2>2 DEF AllGranted
<1>3. CASE AccessNext
  <2>1. UNCHANGED sweep
    BY <1>3, AccessTypes DEF SweepInv, sweepVars
  <2>2. installed' => granted' = Repositories
    BY <1>3 DEF AccessNext, GithubRevokes, GithubGrants, GithubUninstalls, AllGranted
  <2> QED
    BY <2>1, <2>2 DEF AllGranted
<1> QED
  BY <1>1, <1>2, <1>3, Steps

\* What becomes of a close that was sent: it is kept, and answered; or handled,
\* and what it would have retired is gone.
LEMMA ObjectCovered ==
    ASSUME PrTypeOK, StoreKeepsItsWord, NEW p \in PullRequests, ObjectNext(p),
           NEW fence \in Times \cup {None}, NEW seen,
           fence # None => fence <= clock,
           fence = None => repos[RepoOf[p]] = None,
           Covered(p, fence, seen)
    PROVE  Covered(p, fence, seen)'
<1> DEFINE m == ClosedMessage(p, fence, seen)
<1>0. /\ m.kind = "closed" /\ m.synced_before = fence
      /\ running[p] \in Invocations /\ object[p] \in PrState
      /\ Idle.step = "idle"
      /\ None \notin Nat /\ Times \subseteq Nat /\ clock \in Nat
  BY PullRequestAssumption DEF ClosedMessage, PrTypeOK, Times, Idle
<1> HIDE DEF m
<1>1. ASSUME m \in mail, m \notin mail'
      PROVE  Covered(p, fence, seen)'
  <2>1. ClosedKept(p, m) \/ ClosedStarts(p, m)
    <3>1. ASSUME NEW n \in mail, SyncDebounced(p, n) \/ SyncStarts(p, n)
          PROVE  m \in mail'
      BY <1>0, <1>1, <3>1 DEF SyncDebounced, SyncStarts
    <3>2. ASSUME NEW n \in mail, n # m, ClosedKept(p, n) \/ ClosedStarts(p, n)
          PROVE  m \in mail'
      BY <1>1, <3>2 DEF ClosedKept, ClosedStarts
    <3>3. CASE \/ FetchReads(p) \/ FetchStamps(p) \/ FetchFails(p)
               \/ SyncFinishes(p) \/ UpsertRepeats(p) \/ UpsertFails(p)
               \/ Dropped(p) \/ DropRepeats(p) \/ DropFails(p)
      BY <1>1, <3>3 DEF FetchReads, FetchStamps, FetchFails, SyncFinishes, UpsertRepeats,
         UpsertFails, Dropped, DropRepeats, DropFails
    <3>4. CASE \/ \E action \in {"merge", "update"} : ActionStarts(p, action)
               \/ MergeLands(p)
               \/ UpdateLands(p)
               \/ ActionRejected(p)
      BY <1>1, <3>4 DEF ActionStarts, MergeLands, UpdateLands, ActionRejected, ClosedWebhook,
         Delivered, Sent
    <3> QED
      BY <1>1, <3>1, <3>2, <3>3, <3>4 DEF ObjectNext
  <2>2. CASE ClosedKept(p, m)
    <3>1. object' = object /\ running' = running /\ running[p] = Idle
      BY <2>2 DEF ClosedKept, Takes
    <3>2. ~closed_retires(object[p], fence)
      BY <1>0, <2>2 DEF ClosedKept
    <3>3. Answered(p, fence)'
      BY <1>0, <3>1, <3>2 DEF Answered
    <3> QED
      BY <3>3 DEF Covered
  <2>3. CASE ClosedStarts(p, m)
    <3>1. running'[p].step = "drop"
      BY <2>3 DEF ClosedStarts, PrTypeOK
    <3> QED
      BY <3>1 DEF Covered
  <2> QED
    BY <2>1, <2>2, <2>3
<1>2. ASSUME running[p].step = "drop"
      PROVE  Covered(p, fence, seen)'
  <2>1. Dropped(p) \/ DropRepeats(p)
    BY <1>0, <1>2 DEF ObjectNext, SyncDebounced, SyncStarts, ClosedKept, ClosedStarts, Takes,
       FetchReads, FetchStamps, FetchFails, SyncFinishes, UpsertRepeats, UpsertFails,
       DropFails, StoreKeepsItsWord, ActionStarts, MergeLands, UpdateLands, ActionRejected
  <2>2. CASE Dropped(p)
    <3>1. object'[p].snapshot = None /\ running'[p] = Idle
      BY <1>2, <2>2 DEF Dropped, Forgotten, Cleared, HandlerSucceeds, PrTypeOK
    <3>2. Answered(p, fence)'
      BY <1>0, <3>1 DEF Answered
    <3> QED
      BY <3>2 DEF Covered
  <2>3. CASE DropRepeats(p)
    BY <1>2, <2>3 DEF DropRepeats, Covered
  <2> QED
    BY <2>1, <2>2, <2>3
<1>3. ASSUME Answered(p, fence)
      PROVE  Answered(p, fence)'
  <2>1. running'[p].step = "write" /\ fence # None => running'[p].record.synced_at >= fence
    <3>1. Stamped(running[p].rev).synced_at = clock
      BY DEF Stamped
    <3> QED
      BY <1>0, <1>3, <3>1, RecordMoves DEF Answered
  <2>2. ASSUME object'[p].snapshot # None
        PROVE  ~closed_retires(object'[p], fence)
    <3>1. CASE /\ object'[p].snapshot = object[p].snapshot
               /\ object'[p].last_synced_at = object[p].last_synced_at
      BY <1>3, <2>2, <3>1 DEF Answered, closed_retires
    <3>2. CASE /\ running[p].step = "write"
               /\ object'[p].last_synced_at = running[p].record.synced_at
               /\ repos[RepoOf[p]] # None
      <4>1. running[p].record.synced_at \in Nat
        BY <1>0, <3>2, InvocationTypes DEF Record
      <4>2. fence # None
        BY <3>2
      <4> QED
        BY <1>0, <1>3, <3>2, <4>1, <4>2 DEF Answered, closed_retires
    <3> QED
      BY <2>2, <3>1, <3>2, RecordMoves
  <2> QED
    BY <2>1, <2>2 DEF Answered
<1> QED
  BY <1>1, <1>2, <1>3 DEF Covered, m

\* The prunes and the App's access send nothing and stop nothing.
LEMMA SweepKeepsMail ==
    ASSUME SweepInv, SweepNext \/ AccessNext
    PROVE  mail \subseteq mail'
<1>1. CASE Prunes
  BY <1>1 DEF Prunes, RetainPullRequests, ReplaceRepositories, PurgeProjection
<1> QED
  BY <1>1, SweepSteps, ListingsKeep, DrainsKeep, AccessTypes DEF SweepInv

\* What a drain read it has sent, and what it did not read it does not
\* acknowledge.
LEMMA StepAckCovered ==
    ASSUME LostInv, [Next]_vars, StoreKeepsItsWord
    PROVE  AckCovered'
<1> SUFFICES ASSUME NEW s \in Sweepers, sweep'[s].step = "ack",
                    NEW e \in outbox', e.id <= sweep'[s].through
             PROVE  Covered(e.pr, e.synced_before, e.seen)'
  BY DEF AckCovered
<1>0. /\ SweepInv /\ PrTypeOK /\ IdsInv /\ PurgedStays /\ AckCovered
      /\ last_id \in Nat /\ sweep[s].through \in Nat
  BY ReconcileAssumption DEF LostInv, SweepInv, SweepTypes, TypeOK, Sweeps
<1>1. ASSUME sweep'[s] = sweep[s], e \in outbox
      PROVE  /\ Covered(e.pr, e.synced_before, e.seen)
             /\ e.pr \in PullRequests
             /\ e.synced_before \in Times \cup {None}
             /\ e.synced_before # None => e.synced_before <= clock
             /\ e.synced_before = None => repos[RepoOf[e.pr]] = None
  <2>1. e \in Retirements
    BY <1>0, <1>1 DEF SweepInv, SweepTypes, TypeOK
  <2>2. e.pr \in PullRequests /\ e.synced_before \in Times \cup {None}
    BY <2>1 DEF Retirements
  <2>3. RepoOf[e.pr] \in Repositories
    BY <2>2, PullRequestAssumption
  <2>4. Covered(e.pr, e.synced_before, e.seen)
    BY <1>0, <1>1 DEF AckCovered
  <2> QED
    BY <1>0, <1>1, <2>2, <2>3, <2>4 DEF IdsInv, PurgedStays
<1>2. ASSUME e \in outbox, e.pr \in PullRequests, Covered(e.pr, e.synced_before, e.seen),
             object'[e.pr] = object[e.pr], running'[e.pr] = running[e.pr],
             \A m \in mail : m.pr = e.pr => m \in mail'
      PROVE  Covered(e.pr, e.synced_before, e.seen)'
  <2>1. ClosedMessage(e.pr, e.synced_before, e.seen).pr = e.pr
    BY DEF ClosedMessage
  <2> QED
    BY <1>2, <2>1 DEF Covered, Answered
<1>3. CASE [PrNext]_prVars /\ UNCHANGED sweepVars
  <2>0. sweep'[s] = sweep[s] /\ e \in outbox
    BY <1>3 DEF sweepVars
  <2>1. CASE UNCHANGED prVars \/ Tick \/ \E q \in PullRequests : WorldNext(q)
    BY <1>1, <1>2, <2>0, <2>1, WorldKeeps DEF prVars
  <2>2. ASSUME NEW q \in PullRequests \ {e.pr}, ObjectNext(q)
        PROVE  Covered(e.pr, e.synced_before, e.seen)'
    <3>1. /\ object'[e.pr] = object[e.pr] /\ running'[e.pr] = running[e.pr]
          /\ \A m \in mail : m.pr = e.pr => m \in mail'
      BY <1>0, <1>1, <2>0, <2>2, ObjectFrame
    <3> QED
      BY <1>1, <1>2, <2>0, <3>1
  <2>3. CASE ObjectNext(e.pr)
    <3>1. PICK p, fence, seen : p = e.pr /\ fence = e.synced_before /\ seen = e.seen
      OBVIOUS
    <3>2. Covered(p, fence, seen)'
      BY <1>0, <1>1, <2>0, <2>3, <3>1, ObjectCovered
    <3> QED
      BY <3>1, <3>2
  <2> QED
    BY <1>3, <2>1, <2>2, <2>3 DEF PrNext
<1>4. CASE SweepNext
  <2>1. CASE sweep'[s] = sweep[s]
    <3>1. e \in outbox
      <4>1. ~(e.id = last_id + 1)
        BY <1>0, <2>1 DEF IdsInv
      <4> QED
        BY <1>0, <1>4, <4>1, SweepQueues
    <3> QED
      BY <1>0, <1>1, <1>2, <1>4, <2>1, <3>1, SweepRows, SweepKeepsMail
  <2>2. CASE DrainReads(s) /\ sweep'[s] # sweep[s]
    <3>1. e \in outbox /\ outbox # {}
      BY <2>2 DEF DrainReads
    <3>2. ClosedMessage(e.pr, e.synced_before, e.seen) \in mail'
      BY <2>2, <3>1 DEF DrainReads, Sent
    <3> QED
      BY <3>2 DEF Covered
  <2> QED
    BY <1>0, <1>4, <2>1, <2>2, SweepMoves DEF Moves
<1>5. CASE AccessNext
  <2>1. UNCHANGED <<object, running, mail, sweep, outbox>>
    BY <1>0, <1>5, AccessTypes DEF SweepInv, sweepVars
  <2> QED
    BY <1>1, <1>2, <2>1
<1> QED
  BY <1>3, <1>4, <1>5, Steps

\* A handler that leaves an object at rest with a snapshot and no row, found it so,
\* and took no close that would have retired it.
LEMMA ObjectLoses ==
    ASSUME PrTypeOK, StoreKeepsItsWord, NEW p \in PullRequests, ObjectNext(p),
           ~Dropping(p)', object'[p].snapshot # None, rows'[p] = None
    PROVE  /\ ~Dropping(p)
           /\ rows[p] = None
           /\ object'[p].snapshot = object[p].snapshot
           /\ object'[p].last_synced_at = object[p].last_synced_at
           /\ \A m \in mail :
                m.kind = "closed" /\ closed_retires(object[p], m.synced_before) => m \in mail'
<1> USE DEF PrTypeOK, Dropping
<1>0. object[p] \in PrState /\ Idle.step = "idle" /\ None \notin Record
  BY PullRequestAssumption DEF Idle
<1>1. ASSUME NEW n \in mail, SyncDebounced(p, n) \/ SyncStarts(p, n)
      PROVE  /\ running[p] = Idle /\ rows' = rows
             /\ object'[p].snapshot = object[p].snapshot
             /\ object'[p].last_synced_at = object[p].last_synced_at
             /\ \A m \in mail : m.kind = "closed" => m \in mail'
  BY <1>0, <1>1 DEF SyncDebounced, SyncStarts, Takes, FlagCleared, PrState
<1>2. ASSUME NEW n \in mail, ClosedKept(p, n)
      PROVE  /\ running[p] = Idle /\ rows' = rows /\ object' = object
             /\ \A m \in mail :
                  m.kind = "closed" /\ closed_retires(object[p], m.synced_before) => m \in mail'
  BY <1>2 DEF ClosedKept, Takes
<1>3. ASSUME NEW n \in mail, ClosedStarts(p, n)
      PROVE  FALSE
  BY <1>3 DEF ClosedStarts
<1>4. CASE FetchReads(p) \/ FetchStamps(p) \/ FetchFails(p)
  BY <1>4 DEF FetchReads, FetchStamps, FetchFails
<1>5. CASE SyncFinishes(p) \/ UpsertRepeats(p)
  BY <1>0, <1>5, InvocationTypes DEF SyncFinishes, UpsertRepeats, upsert_pr
<1>6. CASE UpsertFails(p)
  BY <1>6 DEF UpsertFails, StoreKeepsItsWord
<1>7. CASE Dropped(p)
  BY <1>0, <1>7 DEF Dropped, Forgotten, Cleared, PrState
<1>8. CASE DropRepeats(p) \/ DropFails(p)
  BY <1>8 DEF DropRepeats, DropFails, StoreKeepsItsWord
<1>9. CASE \/ \E action \in {"merge", "update"} : ActionStarts(p, action)
           \/ MergeLands(p)
           \/ UpdateLands(p)
           \/ ActionRejected(p)
  BY <1>0, <1>9 DEF ActionStarts, MergeLands, UpdateLands, ActionRejected, ClosedWebhook,
     Delivered, Sent
<1> QED
  BY <1>0, <1>1, <1>2, <1>3, <1>4, <1>5, <1>6, <1>7, <1>8, <1>9 DEF ObjectNext

\* Every row a prune takes, under a fence it is behind, leaves its object told.
LEMMA StepLostRowTold ==
    ASSUME LostInv, [Next]_vars, StoreKeepsItsWord
    PROVE  LostRowTold'
<1> SUFFICES ASSUME NEW p \in PullRequests,
                    ~Dropping(p)', object'[p].snapshot # None, rows'[p] = None
             PROVE  Told(p)'
  BY DEF LostRowTold
<1>0. SweepInv /\ SweepTypes /\ PrTypeOK /\ LostRowTold /\ AckCovered
  BY DEF LostInv, SweepInv, SweepTypes, TypeOK
<1>1. ASSUME ~Dropping(p), rows[p] = None,
             object'[p].snapshot = object[p].snapshot,
             object'[p].last_synced_at = object[p].last_synced_at,
             outbox \subseteq outbox',
             \A m \in mail : m.kind = "closed" /\ m.pr = p /\ closed_retires(object[p], m.synced_before)
                               => m \in mail'
      PROVE  Told(p)'
  <2>1. Told(p)
    BY <1>0, <1>1 DEF LostRowTold
  <2> QED
    BY <1>1, <2>1 DEF Told, closed_retires
<1>2. ASSUME rows[p] = None, object'[p] = object[p], running'[p] = running[p],
             outbox \subseteq outbox', \A m \in mail : m.pr = p => m \in mail'
      PROVE  Told(p)'
  <2>1. ~Dropping(p)
    BY <1>2 DEF Dropping
  <2> QED
    BY <1>1, <1>2, <2>1
<1>3. CASE [PrNext]_prVars /\ UNCHANGED sweepVars
  <2>0. outbox' = outbox
    BY <1>3 DEF sweepVars
  <2>1. CASE UNCHANGED prVars \/ Tick \/ \E q \in PullRequests : WorldNext(q)
    <3>1. rows[p] = None /\ object'[p] = object[p] /\ running'[p] = running[p] /\ mail \subseteq mail'
      BY <2>1, WorldKeeps DEF prVars
    <3> QED
      BY <1>2, <2>0, <3>1
  <2>2. ASSUME NEW q \in PullRequests \ {p}, ObjectNext(q)
        PROVE  Told(p)'
    <3>1. /\ rows[p] = None /\ object'[p] = object[p] /\ running'[p] = running[p]
          /\ \A m \in mail : m.pr = p => m \in mail'
      BY <1>0, <2>2, ObjectFrame
    <3> QED
      BY <1>2, <2>0, <3>1
  <2>3. CASE ObjectNext(p)
    <3>1. /\ ~Dropping(p)
          /\ rows[p] = None
          /\ object'[p].snapshot = object[p].snapshot
          /\ object'[p].last_synced_at = object[p].last_synced_at
          /\ \A m \in mail :
               m.kind = "closed" /\ closed_retires(object[p], m.synced_before) => m \in mail'
      BY <1>0, <2>3, ObjectLoses
    <3> QED
      BY <1>1, <2>0, <3>1
  <2> QED
    BY <1>3, <2>1, <2>2, <2>3 DEF PrNext
<1>4. ASSUME SweepNext \/ AccessNext
      PROVE  object' = object /\ running' = running /\ mail \subseteq mail'
  BY <1>0, <1>4, SweepRows, SweepKeepsMail
<1>5. CASE Listings \/ AccessNext
  <2>1. rows' = rows /\ outbox' = outbox
    BY <1>0, <1>5, ListingsKeep, AccessTypes DEF SweepInv, sweepVars
  <2> QED
    BY <1>2, <1>4, <1>5, <2>1 DEF SweepNext, Listings
<1>6. ASSUME NEW gone, NEW fence, NEW seen,
             Delete(gone), queue_retirements(gone, fence, seen), Prunes,
             p \in gone => fence = None \/ ~(object[p].last_synced_at >= fence)
      PROVE  Told(p)'
  <2>1. object' = object /\ running' = running /\ mail' = mail
    BY <1>6 DEF Prunes, RetainPullRequests, ReplaceRepositories, PurgeProjection
  <2>2. outbox \subseteq outbox'
    BY <1>6 DEF queue_retirements
  <2>3. CASE p \notin gone
    <3>1. rows[p] = None
      BY <1>6, <2>3 DEF Delete
    <3> QED
      BY <1>2, <2>1, <2>2, <3>1
  <2>4. CASE p \in gone
    <3>1. \E e \in outbox' : e.pr = p /\ e.synced_before = fence
      <4>1. [id |-> last_id', pr |-> p, synced_before |-> fence,
             seen |-> seen[p], had |-> rows[p].rev] \in outbox'
        BY <1>6, <2>4 DEF queue_retirements
      <4> QED
        BY <4>1
    <3>2. closed_retires(object[p], fence)
      BY <1>6, <2>4 DEF closed_retires
    <3> QED
      BY <2>1, <3>1, <3>2 DEF Told, closed_retires
  <2> QED
    BY <2>3, <2>4
<1>7. CASE Prunes
  <2>1. ASSUME NEW r \in Repositories, RetainPullRequests(r)
        PROVE  Told(p)'
    <3>1. PICK gone \in SUBSET PullsOf(r) :
            /\ \A q \in gone : rows[q] # None /\ rows[q].synced_at < sweep[r].fence
            /\ Delete(gone)
            /\ queue_retirements(gone, sweep[r].fence, sweep[r].seen)
      BY <2>1, RetainPrunes
    <3>2. ASSUME p \in gone
          PROVE  ~(object[p].last_synced_at >= sweep[r].fence)
      <4>1. rows[p] # None /\ rows[p].synced_at < sweep[r].fence
        BY <3>1, <3>2
      <4>2. object[p].snapshot # None
        BY <1>4, <1>7, SweepSteps DEF Prunes, SweepNext
      <4>3. /\ object[p].last_synced_at <= rows[p].synced_at
            /\ object[p].last_synced_at = object[p].snapshot.synced_at
        BY <4>1, <4>2 DEF LostInv, RowsNotOlder, RecordsInv
      <4>4. /\ rows[p] \in Record /\ object[p].snapshot \in Record /\ sweep[r].fence \in Times
        BY <1>0, <4>1, <4>2 DEF PrTypeOK, PrState, SweepTypes, TypeOK, Sweeps, Sweepers
      <4> QED
        BY <4>1, <4>3, <4>4, PullRequestAssumption DEF Record, Times
    <3> QED
      BY <1>6, <1>7, <3>1, <3>2
  <2>2. CASE ReplaceRepositories
    <3>1. PICK gone \in SUBSET PullRequests,
               selected \in SUBSET (Repositories \ sweep[Installation].live) :
            /\ \A q \in PullRequests : q \in gone <=> RepoOf[q] \in selected /\ rows[q] # None
            /\ Delete(gone)
            /\ queue_retirements(gone, sweep[Installation].fence, sweep[Installation].seen)
      BY <2>2, ReplacePrunes
    <3>2. p \notin gone
      BY <2>2, <3>1 DEF LostInv, AllGranted, ReplaceRepositories
    <3> QED
      BY <1>6, <1>7, <3>1, <3>2
  <2>3. CASE PurgeProjection
    <3>1. PICK gone \in SUBSET PullRequests :
            Delete(gone) /\ queue_retirements(gone, None, [q \in PullRequests |-> 0])
      BY <1>0, <2>3, PurgePrunes DEF SweepInv
    <3> QED
      BY <1>6, <1>7, <3>1
  <2> QED
    BY <1>7, <2>1, <2>2, <2>3 DEF Prunes
<1>8. ASSUME NEW s \in Sweepers, Drains(s)
      PROVE  Told(p)'
  <2>1. object' = object /\ running' = running /\ rows' = rows /\ mail \subseteq mail'
    BY <1>8, DrainsKeep
  <2>2. CASE outbox' = outbox
    BY <1>2, <2>1, <2>2
  <2>3. CASE DrainAcknowledges(s)
    <3>1. Told(p)
      BY <1>0, <2>1 DEF LostRowTold, Dropping
    <3>2. ASSUME NEW e \in outbox, e.pr = p, closed_retires(object[p], e.synced_before),
                 e \notin outbox'
          PROVE  Told(p)'
      <4>1. e.id <= sweep[s].through /\ sweep[s].step = "ack"
        <5>1. e.id \in Nat /\ sweep[s].through \in Nat
          BY <1>0, ReconcileAssumption DEF SweepTypes, TypeOK, Retirements, Sweeps
        <5> QED
          BY <2>3, <3>2, <5>1 DEF DrainAcknowledges, acknowledge_retirements
      <4>2. Covered(p, e.synced_before, e.seen)
        BY <1>0, <3>2, <4>1 DEF AckCovered
      <4>3. ClosedMessage(p, e.synced_before, e.seen) \in mail
        BY <2>1, <3>2, <4>2 DEF Covered, Answered, Dropping
      <4> QED
        BY <2>1, <3>2, <4>3 DEF Told, ClosedMessage
    <3> QED
      BY <2>1, <3>1, <3>2 DEF Told
  <2> QED
    BY <1>8, <2>2, <2>3 DEF Drains, DrainReads, SweepFails
<1> QED
  BY <1>3, <1>5, <1>7, <1>8, Steps, SweepSteps

\* No row has been lost yet.
LEMMA InitLostInv == Init => LostInv
<1> SUFFICES ASSUME Init PROVE LostInv
  OBVIOUS
<1>1. SweepInv /\ RecordsInv /\ FencesArePast
  BY InitFenceInv DEF FenceInv
<1>2. \A p \in PullRequests : rows[p] = None /\ object[p] = Cleared /\ running[p] = Idle
  BY DEF Init, PrInit
<1>3. /\ Cleared.snapshot = None /\ Cleared.last_synced_at = None /\ Idle.step = "idle"
      /\ Resting.step = "idle" /\ Resting.through = 0
  BY DEF Cleared, Idle, Resting
<1>4. StampsArePast /\ RowsNotOlder /\ LostRowTold
  BY <1>2, <1>3 DEF StampsArePast, RowsNotOlder, LostRowTold
<1>5. /\ outbox = {} /\ last_id = 0 /\ granted = Repositories
      /\ sweep = [s \in Sweepers |-> Resting] /\ Installation \in Sweepers
  BY DEF Init, PrInit, Sweepers
<1>6. IdsInv /\ PurgedStays /\ AllGranted /\ AckCovered
  BY <1>3, <1>5 DEF IdsInv, PurgedStays, AllGranted, AckCovered
<1> QED
  BY <1>1, <1>4, <1>6 DEF LostInv

\* Every step keeps the trace of a lost row, while the store keeps its word and no
\* repository is taken away.
LEMMA StepLostInv ==
    ASSUME StoreKeepsItsWord, "revoke" \notin Events
    PROVE  LostInv /\ [Next]_vars => LostInv'
  BY StepSweepInv, StepRecordsInv, StepFences, StepStamps, StepRowsNotOlder, StepIdsInv,
     StepPurgedStays, StepAllGranted, StepAckCovered, StepLostRowTold DEF LostInv

\* A prune takes the object's state with the row (retain_prs, purge_installation
\* and the outbox that retire_pending drains): whatever results are lost, drains
\* fail and sweeps acknowledge each other's entries, an object at rest with a
\* snapshot the table has lost is about to be told.
THEOREM LostRowIsRetiredHolds ==
    ASSUME StoreKeepsItsWord, "revoke" \notin Events
    PROVE  Spec => []LostRowIsRetired
<1>1. LostInv => LostRowIsRetired
  <2> SUFFICES ASSUME LostInv, NEW p \in PullRequests,
                      running[p] = Idle, object[p].snapshot # None, rows[p] = None
               PROVE  Told(p)
    BY DEF LostRowIsRetired, Told
  <2>1. ~Dropping(p)
    BY DEF Dropping, Idle
  <2> QED
    BY <2>1 DEF LostInv, LostRowTold
<1>2. LostInv /\ [Next]_vars => LostInv'
  BY StepLostInv
<1> QED
  BY InitLostInv, <1>1, <1>2, PTL DEF Spec

\* An uninstall leaves nothing behind: once purge's outbox is drained, an object
\* that has handled all it was sent has neither a row nor a snapshot, whatever
\* sync, reconcile or sweep the uninstall overtook.
THEOREM PurgeForgetsHolds ==
    ASSUME StoreKeepsItsWord, "revoke" \notin Events
    PROVE  Spec => []PurgeForgets
<1>1. LostInv => PurgeForgets
  <2> SUFFICES ASSUME LostInv, Purged, NEW p \in PullRequests, Quiet(p)
               PROVE  rows[p] = None /\ object[p].snapshot = None
    BY DEF PurgeForgets
  <2>1. rows[p] = None
    BY PullRequestAssumption DEF LostInv, SweepInv, RowHasRepository, Purged
  <2>2. ~Dropping(p)
    BY DEF Quiet, Dropping, Idle
  <2>3. ~Told(p)
    BY DEF Purged, Quiet, Told
  <2> QED
    BY <2>1, <2>2, <2>3 DEF LostInv, LostRowTold
<1>2. LostInv /\ [Next]_vars => LostInv'
  BY StepLostInv
<1> QED
  BY InitLostInv, <1>1, <1>2, PTL DEF Spec
=============================================================================
