-------------------------- MODULE PullRequestLemmas --------------------------
(***************************************************************************)
(* What holds of the PullRequest objects whoever they are composed with,   *)
(* for any pull requests, debounce and bounds, any events and faults:      *)
(* their types, what a handler's step can touch, what never runs back, how *)
(* a pending flag keeps its sync, a row its snapshot, and records their    *)
(* order.                                                                  *)
(***************************************************************************)
EXTENDS PullRequest, SequenceTheorems, TLAPS

-----------------------------------------------------------------------------
(* The completion ids an object retains                                    *)

\* What complete_sync appends to, and what it keeps of it.
LEMMA RetainedIds ==
    ASSUME NEW ids \in Seq(Completions),
           NEW older \in Nat, older = IF Len(ids) > RetainedSyncIds THEN Len(ids) - RetainedSyncIds ELSE 0
    PROVE  /\ SubSeq(ids, older + 1, Len(ids)) \in
                UNION {[1..n -> Completions] : n \in 0..RetainedSyncIds}
           /\ \A i \in DOMAIN SubSeq(ids, older + 1, Len(ids)) :
                \E j \in DOMAIN ids : SubSeq(ids, older + 1, Len(ids))[i] = ids[j]
<1> DEFINE kept == SubSeq(ids, older + 1, Len(ids))
           k == Len(ids) - older
<1>0. RetainedSyncIds \in Nat
  BY PullRequestAssumption
<1>1. Len(ids) \in Nat /\ ids \in [1..Len(ids) -> Completions] /\ DOMAIN ids = 1..Len(ids)
  BY LenProperties
<1>2. k \in 0..RetainedSyncIds /\ older <= Len(ids)
  <2>1. CASE Len(ids) > RetainedSyncIds
    BY <1>0, <1>1, <2>1
  <2>2. CASE ~(Len(ids) > RetainedSyncIds)
    BY <1>0, <1>1, <2>2
  <2> QED
    BY <2>1, <2>2
<1>3. \A i \in (older + 1)..Len(ids) : ids[i] \in Completions
  BY <1>1
<1>4. /\ kept \in Seq(Completions)
      /\ Len(kept) = k
      /\ \A i \in 1..k : kept[i] = ids[older + i]
  <2> DEFINE m == older + 1
             n == Len(ids)
  <2>1. m \in Int /\ n \in Int /\ \A i \in m..n : ids[i] \in Completions
    BY <1>1, <1>3
  <2> HIDE DEF m, n
  <2>2. /\ SubSeq(ids, m, n) \in Seq(Completions)
        /\ Len(SubSeq(ids, m, n)) = IF m <= n THEN n - m + 1 ELSE 0
        /\ \A i \in 1..(n - m + 1) : SubSeq(ids, m, n)[i] = ids[m + i - 1]
    <3>1. \A S, s : (\A i \in m..n : s[i] \in S) =>
            /\ SubSeq(s, m, n) \in Seq(S)
            /\ Len(SubSeq(s, m, n)) = IF m <= n THEN n - m + 1 ELSE 0
            /\ \A i \in 1..(n - m + 1) : SubSeq(s, m, n)[i] = s[m + i - 1]
      BY ONLY <2>1, SubSeqProperties
    <3> QED
      BY ONLY <2>1, <3>1
  <2>3. /\ n - m + 1 = k
        /\ (IF m <= n THEN n - m + 1 ELSE 0) = k
        /\ \A i \in 1..k : m + i - 1 = older + i
    BY <1>1, <1>2 DEF m, n
  <2>4. kept = SubSeq(ids, m, n)
    BY DEF m, n
  <2> HIDE DEF kept, k
  <2>5. \A i \in 1..k : kept[i] = ids[older + i]
    BY <2>2, <2>3, <2>4
  <2> QED
    BY <2>2, <2>3, <2>4, <2>5
<1>5. kept \in [1..k -> Completions] /\ DOMAIN kept = 1..k
  BY <1>4, LenProperties
<1>6. \A i \in 1..k : older + i \in DOMAIN ids
  BY <1>1, <1>2
<1> HIDE DEF kept, k
<1>7. kept \in UNION {[1..n -> Completions] : n \in 0..RetainedSyncIds}
  BY <1>2, <1>5
<1>8. \A i \in DOMAIN kept : \E j \in DOMAIN ids : kept[i] = ids[j]
  BY <1>4, <1>5, <1>6
<1> QED
  BY <1>7, <1>8 DEF kept

\* complete_sync keeps the state's type and touches nothing but the ids, and of
\* those only the one it was given is new.
LEMMA CompleteSync ==
    ASSUME NEW state \in PrState, NEW id \in Completions \cup {None}
    PROVE  /\ complete_sync(state, id) \in PrState
           /\ complete_sync(state, id).snapshot = state.snapshot
           /\ complete_sync(state, id).last_synced_at = state.last_synced_at
           /\ complete_sync(state, id).sync_pending = state.sync_pending
           /\ \A c \in Completions :
                sync_id_completed(complete_sync(state, id), c) =>
                  sync_id_completed(state, c) \/ c = id
<1> USE PullRequestAssumption
<1> DEFINE old == state.completed_sync_ids
           new == ~(id = None \/ sync_id_completed(state, id))
           ids == IF new THEN Append(old, id) ELSE old
           older == IF Len(ids) > RetainedSyncIds THEN Len(ids) - RetainedSyncIds ELSE 0
           kept == SubSeq(ids, older + 1, Len(ids))
<1>1. old \in Seq(Completions)
  BY SeqDef DEF PrState
<1>2. ids \in Seq(Completions)
  BY <1>1, AppendProperties
<1>3. older \in Nat
  BY <1>2, LenProperties
<1>4. complete_sync(state, id) = [state EXCEPT !.completed_sync_ids = kept]
  BY DEF complete_sync
<1>5. /\ kept \in UNION {[1..n -> Completions] : n \in 0..RetainedSyncIds}
      /\ \A i \in DOMAIN kept : \E j \in DOMAIN ids : kept[i] = ids[j]
  <2> HIDE DEF ids
  <2> QED
    BY <1>2, <1>3, RetainedIds
<1>6. \A j \in DOMAIN ids : (\E i \in DOMAIN old : old[i] = ids[j]) \/ ids[j] = id
  <2>1. CASE ~new
    BY <2>1
  <2>2. CASE new
    <3>1. id \in Completions
      BY <2>2
    <3>2. /\ Append(old, id) \in Seq(Completions)
          /\ Len(Append(old, id)) = Len(old) + 1
          /\ \A i \in 1..Len(old) : Append(old, id)[i] = old[i]
          /\ Append(old, id)[Len(old) + 1] = id
      BY <1>1, <3>1, AppendProperties
    <3>3. DOMAIN old = 1..Len(old) /\ DOMAIN ids = 1..(Len(old) + 1) /\ Len(old) \in Nat
      BY <1>1, <2>2, <3>2, LenProperties
    <3> QED
      BY <2>2, <3>2, <3>3
  <2> QED
    BY <2>1, <2>2
<1>7. complete_sync(state, id).completed_sync_ids = kept
  BY <1>4 DEF PrState
<1>8. \A c \in Completions :
        sync_id_completed(complete_sync(state, id), c) => sync_id_completed(state, c) \/ c = id
  <2> HIDE DEF kept, ids
  <2> QED
    BY <1>5, <1>6, <1>7 DEF sync_id_completed
<1> HIDE DEF kept
<1> QED
  BY <1>4, <1>5, <1>8 DEF PrState

-----------------------------------------------------------------------------
(* Types                                                                   *)

\* What an object is in the middle of, by its step.
LEMMA InvocationTypes ==
    ASSUME NEW i \in Invocations
    PROVE  /\ i.call \in BOOLEAN
           /\ i.step \in {"fetch", "stamp", "write"} => i.completion \in Completions \cup {None}
           /\ i.step = "stamp" => i.rev \in Revs
           /\ i.step = "write" => i.record \in Record
           /\ i.step \in {"merge", "update"} => i.expected \in Revs
  BY DEF Invocations

\* What a sender may send.
LEMMA MessageTypes ==
    ASSUME NEW p \in PullRequests
    PROVE  /\ \A c \in Completions \cup {None}, at \in 0..(MaxTime + Debounce), call \in BOOLEAN :
                SyncMessage(p, c, at, call) \in SyncMessages
           /\ \A fence \in Times \cup {None}, seen \in Revs :
                ClosedMessage(p, fence, seen) \in ClosedMessages
  BY DEF SyncMessage, SyncMessages, ClosedMessage, ClosedMessages

\* The deliveries of a change at GitHub are well formed.
LEMMA WorldMessages ==
    ASSUME NEW p \in PullRequests
    PROVE  /\ SyncMessage(p, None, 0, FALSE) \in SyncMessages
           /\ ClosedMessage(p, None, 0) \in ClosedMessages
<1>1. 0 \in 0..(MaxTime + Debounce) /\ 0 \in Revs
  BY PullRequestAssumption DEF Revs
<1> QED
  BY <1>1, MessageTypes

\* An object that holds nothing holds a state.
LEMMA ClearedType == Cleared \in PrState
<1>1. <<>> \in [1..0 -> Completions]
  OBVIOUS
<1>2. 0 \in 0..RetainedSyncIds
  BY PullRequestAssumption
<1> QED
  BY <1>1, <1>2 DEF Cleared, PrState

\* An object forgets into a state, and clearing the flag leaves one.
LEMMA StateTypes ==
    ASSUME NEW state \in PrState, NEW step, NEW id
    PROVE  /\ Cleared \in PrState
           /\ Forgotten(state, step) \in PrState
           /\ FlagCleared(state, id) \in PrState
           /\ [state EXCEPT !.sync_pending = TRUE] \in PrState
  BY ClearedType DEF PrState, Forgotten, FlagCleared

\* A message that is taken leaves well-formed messages.
LEMMA TakenTypes ==
    ASSUME PrTypeOK, NEW p \in PullRequests, NEW m \in mail,
           SyncDebounced(p, m) \/ SyncStarts(p, m) \/ ClosedKept(p, m) \/ ClosedStarts(p, m)
    PROVE  PrTypeOK'
<1> USE DEF PrTypeOK, Takes
<1>0. p \in DOMAIN object /\ object[p] \in PrState
  OBVIOUS
<1>1. CASE SyncDebounced(p, m)
  <2>1. TrailingSync(p) \subseteq SyncMessages
    <3>1. clock + Debounce \in 0..(MaxTime + Debounce)
      BY PullRequestAssumption DEF Times
    <3> QED
      BY <3>1, MessageTypes DEF TrailingSync
  <2>2. object' \in [PullRequests -> PrState]
    BY <1>0, <1>1, StateTypes DEF SyncDebounced
  <2>3. mail' \subseteq SyncMessages \cup ClosedMessages
    BY <1>1, <2>1 DEF SyncDebounced
  <2> QED
    BY <1>1, <2>2, <2>3 DEF SyncDebounced, githubVars
<1>2. CASE SyncStarts(p, m)
  <2>1. m.completion \in Completions \cup {None} /\ m.call \in BOOLEAN
    BY <1>2 DEF SyncStarts, SyncMessages, ClosedMessages
  <2>2. Fetching(m.call, m.completion) \in Invocations
    BY <2>1 DEF Fetching, Invocations
  <2>3. object' \in [PullRequests -> PrState]
    BY <1>0, <1>2, StateTypes DEF SyncStarts
  <2> QED
    BY <1>2, <2>2, <2>3 DEF SyncStarts, githubVars
<1>3. CASE ClosedKept(p, m)
  BY <1>3 DEF ClosedKept, githubVars
<1>4. CASE ClosedStarts(p, m)
  <2>1. [step |-> "drop", call |-> FALSE] \in Invocations
    BY DEF Invocations
  <2> QED
    BY <1>4, <2>1 DEF ClosedStarts, githubVars
<1> QED
  BY <1>1, <1>2, <1>3, <1>4

\* A sync's own steps.
LEMMA FetchTypes ==
    ASSUME PrTypeOK, NEW p \in PullRequests,
           FetchReads(p) \/ FetchStamps(p) \/ FetchFails(p)
    PROVE  PrTypeOK'
<1> USE DEF PrTypeOK
<1>0. running[p] \in Invocations /\ rev[p] \in Revs /\ clock \in Times
  OBVIOUS
<1>1. CASE FetchReads(p)
  <2>1. /\ running[p].call \in BOOLEAN
        /\ running[p].completion \in Completions \cup {None}
    BY <1>0, <1>1, InvocationTypes DEF FetchReads
  <2>2. /\ [step |-> "stamp", call |-> running[p].call,
            completion |-> running[p].completion, rev |-> rev[p]] \in Invocations
        /\ [step |-> "drop", call |-> running[p].call] \in Invocations
        /\ Idle \in Invocations
    BY <1>0, <2>1 DEF Invocations, Idle
  <2>3. running' \in [PullRequests -> Invocations]
    BY <1>1, <2>2 DEF FetchReads
  <2> QED
    BY <1>1, <2>3 DEF FetchReads, githubVars
<1>2. CASE FetchStamps(p)
  <2>1. /\ running[p].call \in BOOLEAN
        /\ running[p].completion \in Completions \cup {None}
        /\ running[p].rev \in Revs
    BY <1>0, <1>2, InvocationTypes DEF FetchStamps
  <2>2. Stamped(running[p].rev) \in Record
    BY <1>0, <2>1 DEF Stamped, Record
  <2>3. [step |-> "write", call |-> running[p].call,
         completion |-> running[p].completion,
         record |-> Stamped(running[p].rev)] \in Invocations
    BY <2>1, <2>2 DEF Invocations
  <2> QED
    BY <1>2, <2>3 DEF FetchStamps, githubVars
<1>3. CASE FetchFails(p)
  <2>1. /\ running[p].call \in BOOLEAN
        /\ running[p].completion \in Completions \cup {None}
    BY <1>0, <1>3, InvocationTypes DEF FetchFails
  <2>2. Fetching(running[p].call, running[p].completion) \in Invocations /\ Idle \in Invocations
    BY <2>1 DEF Fetching, Invocations, Idle
  <2> QED
    BY <1>3, <2>2 DEF FetchFails, HandlerFails, githubVars
<1> QED
  BY <1>1, <1>2, <1>3

\* The row's write, and the object's after it.
LEMMA WriteTypes ==
    ASSUME PrTypeOK, NEW p \in PullRequests,
           SyncFinishes(p) \/ UpsertRepeats(p) \/ UpsertFails(p)
    PROVE  PrTypeOK'
<1> USE DEF PrTypeOK
<1>0. /\ running[p] \in Invocations /\ running[p].step = "write"
      /\ object[p] \in PrState
      /\ Idle \in Invocations
  BY DEF SyncFinishes, UpsertRepeats, UpsertFails, Idle, Invocations
<1>1. running[p].record \in Record /\ running[p].completion \in Completions \cup {None}
  BY <1>0, InvocationTypes
<1>2. upsert_pr(p) => rows' \in [PullRequests -> Record \cup {None}]
  BY <1>1 DEF upsert_pr
<1>3. CASE SyncFinishes(p)
  <2> DEFINE written == [object[p] EXCEPT !.snapshot = running[p].record,
                                          !.last_synced_at = running[p].record.synced_at]
  <2>1. written \in PrState
    BY <1>0, <1>1 DEF PrState, Record
  <2>2. complete_sync(written, running[p].completion) \in PrState
    BY <1>1, <2>1, CompleteSync
  <2> HIDE DEF written
  <2>3. object' \in [PullRequests -> PrState]
    BY <1>3, <2>2 DEF SyncFinishes, written
  <2> QED
    BY <1>0, <1>2, <1>3, <2>3 DEF SyncFinishes, HandlerSucceeds, githubVars
<1>4. CASE UpsertRepeats(p)
  BY <1>2, <1>4 DEF UpsertRepeats, githubVars
<1>5. CASE UpsertFails(p)
  <2>1. rows' \in [PullRequests -> Record \cup {None}]
    BY <1>2, <1>5 DEF UpsertFails
  <2> QED
    BY <1>0, <1>5, <2>1 DEF UpsertFails, HandlerFails, githubVars
<1> QED
  BY <1>3, <1>4, <1>5

\* The row's end, and the object's after it.
LEMMA DropTypes ==
    ASSUME PrTypeOK, NEW p \in PullRequests,
           Dropped(p) \/ DropRepeats(p) \/ DropFails(p)
    PROVE  PrTypeOK'
<1> USE DEF PrTypeOK
<1>0. object[p] \in PrState /\ Idle \in Invocations
  BY DEF Idle, Invocations
<1>1. delete_pr(p) => rows' \in [PullRequests -> Record \cup {None}]
  BY DEF delete_pr
<1>2. CASE Dropped(p)
  <2>1. object' \in [PullRequests -> PrState]
    BY <1>0, <1>2, StateTypes DEF Dropped
  <2> QED
    BY <1>0, <1>1, <1>2, <2>1 DEF Dropped, HandlerSucceeds, githubVars
<1>3. CASE DropRepeats(p)
  BY <1>1, <1>3 DEF DropRepeats, githubVars
<1>4. CASE DropFails(p)
  <2>1. rows' \in [PullRequests -> Record \cup {None}]
    BY <1>1, <1>4 DEF DropFails
  <2> QED
    BY <1>0, <1>4, <2>1 DEF DropFails, HandlerFails, githubVars
<1> QED
  BY <1>2, <1>3, <1>4

\* Merges and branch updates.
LEMMA ActionTypes ==
    ASSUME PrTypeOK, NEW p \in PullRequests,
           \/ \E action \in {"merge", "update"} : ActionStarts(p, action)
           \/ MergeLands(p)
           \/ UpdateLands(p)
           \/ ActionRejected(p)
    PROVE  PrTypeOK'
<1> USE DEF PrTypeOK
<1>0. Idle \in Invocations /\ [step |-> "drop_merged", call |-> FALSE] \in Invocations
  BY DEF Idle, Invocations
<1>1. ASSUME NEW action \in {"merge", "update"}, ActionStarts(p, action)
      PROVE  PrTypeOK'
  <2>1. \A expected \in Revs :
          [step |-> action, call |-> FALSE, expected |-> expected] \in Invocations
    BY DEF Invocations
  <2> QED
    BY <1>1, <2>1 DEF ActionStarts, githubVars
<1>2. CASE MergeLands(p)
  <2>1. mail' \subseteq SyncMessages \cup ClosedMessages
    BY <1>2, WorldMessages DEF MergeLands, ClosedWebhook, Delivered, Sent
  <2>2. github' \in [PullRequests -> {"open", "closed", "merged"}]
    BY <1>2 DEF MergeLands
  <2> QED
    BY <1>0, <1>2, <2>1, <2>2 DEF MergeLands
<1>3. CASE UpdateLands(p)
  <2>1. mail' \subseteq SyncMessages \cup ClosedMessages
    BY <1>3, WorldMessages DEF UpdateLands, Delivered, Sent
  <2>2. rev' \in [PullRequests -> Revs]
    <3>1. rev[p] + 1 \in Revs
      BY <1>3, PullRequestAssumption DEF UpdateLands, Revs
    <3> QED
      BY <1>3, <3>1 DEF UpdateLands
  <2> QED
    BY <1>0, <1>3, <2>1, <2>2 DEF UpdateLands
<1>4. CASE ActionRejected(p)
  BY <1>0, <1>4 DEF ActionRejected, githubVars
<1> QED
  BY <1>1, <1>2, <1>3, <1>4

\* The objects start with nothing, and their first syncs on the way.
LEMMA PrInitTypeOK == PrInit => PrTypeOK
<1> SUFFICES ASSUME PrInit PROVE PrTypeOK
  OBVIOUS
<1> USE DEF PrInit
<1>1. mail \subseteq SyncMessages
  BY WorldMessages
<1>2. 0 \in Times /\ 0 \in Revs
  BY PullRequestAssumption DEF Times, Revs
<1>3. Cleared \in PrState
  BY ClearedType
<1>4. Idle \in Invocations
  BY DEF Idle, Invocations
<1> QED
  BY <1>1, <1>2, <1>3, <1>4 DEF PrTypeOK

\* GitHub and the clock.
LEMMA WorldTypes ==
    ASSUME PrTypeOK, Tick \/ \E p \in PullRequests : WorldNext(p)
    PROVE  PrTypeOK'
<1> USE DEF PrTypeOK
<1>1. CASE Tick
  <2>1. clock' \in Times
    BY <1>1, PullRequestAssumption DEF Tick, Times
  <2> QED
    BY <1>1, <2>1 DEF Tick, githubVars
<1>2. ASSUME NEW p \in PullRequests, GithubChanges(p)
      PROVE  PrTypeOK'
  <2>1. mail' \subseteq SyncMessages \cup ClosedMessages
    BY <1>2, WorldMessages DEF GithubChanges, Delivered, Sent
  <2>2. rev[p] + 1 \in Revs
    BY <1>2, PullRequestAssumption DEF GithubChanges, Revs
  <2> QED
    BY <1>2, <2>1, <2>2 DEF GithubChanges
<1>3. ASSUME NEW p \in PullRequests, GithubCloses(p)
      PROVE  PrTypeOK'
  <2>1. mail' \subseteq SyncMessages \cup ClosedMessages
    BY <1>3, WorldMessages DEF GithubCloses, ClosedWebhook, Delivered, Sent
  <2> QED
    BY <1>3, <2>1 DEF GithubCloses
<1> QED
  BY <1>1, <1>2, <1>3 DEF WorldNext

\* Every step of the objects and of their world keeps the type.
LEMMA PrStepTypeOK == PrTypeOK /\ [PrNext]_prVars => PrTypeOK'
<1> SUFFICES ASSUME PrTypeOK, [PrNext]_prVars
             PROVE  PrTypeOK'
  OBVIOUS
<1>1. ASSUME NEW p \in PullRequests, ObjectNext(p)
      PROVE  PrTypeOK'
  BY <1>1, TakenTypes, FetchTypes, WriteTypes, DropTypes, ActionTypes DEF ObjectNext
<1>2. CASE UNCHANGED prVars
  BY <1>2 DEF PrTypeOK, prVars
<1> QED
  BY <1>1, <1>2, WorldTypes DEF PrNext

-----------------------------------------------------------------------------
(* What a step leaves alone                                                *)

\* A handler's step is its own object's affair.
LEMMA ObjectFrame ==
    ASSUME PrTypeOK, NEW p \in PullRequests, ObjectNext(p)
    PROVE  /\ clock' = clock
           /\ \A q \in PullRequests \ {p} :
                /\ object'[q] = object[q]
                /\ running'[q] = running[q]
                /\ rows'[q] = rows[q]
                /\ q \in failed' <=> q \in failed
           /\ \A m \in mail : m.pr # p => m \in mail'
<1> USE DEF PrTypeOK
<1>1. ASSUME NEW m \in mail,
             SyncDebounced(p, m) \/ SyncStarts(p, m) \/ ClosedKept(p, m) \/ ClosedStarts(p, m)
      PROVE  /\ UNCHANGED <<clock, rows, failed>>
             /\ \A q \in PullRequests \ {p} : object'[q] = object[q] /\ running'[q] = running[q]
             /\ \A n \in mail : n.pr # p => n \in mail'
  BY <1>1 DEF SyncDebounced, SyncStarts, ClosedKept, ClosedStarts, Takes
<1>2. ASSUME FetchReads(p) \/ FetchStamps(p) \/ FetchFails(p)
      PROVE  /\ UNCHANGED <<clock, rows, object, mail>>
             /\ \A q \in PullRequests \ {p} :
                  running'[q] = running[q] /\ (q \in failed' <=> q \in failed)
  BY <1>2 DEF FetchReads, FetchStamps, FetchFails, HandlerFails
<1>3. ASSUME SyncFinishes(p) \/ UpsertRepeats(p) \/ UpsertFails(p)
      PROVE  /\ UNCHANGED <<clock, mail>>
             /\ \A q \in PullRequests \ {p} :
                  /\ object'[q] = object[q]
                  /\ running'[q] = running[q]
                  /\ rows'[q] = rows[q]
                  /\ q \in failed' <=> q \in failed
  BY <1>3 DEF SyncFinishes, UpsertRepeats, UpsertFails, upsert_pr, HandlerSucceeds, HandlerFails
<1>4. ASSUME Dropped(p) \/ DropRepeats(p) \/ DropFails(p)
      PROVE  /\ UNCHANGED <<clock, mail>>
             /\ \A q \in PullRequests \ {p} :
                  /\ object'[q] = object[q]
                  /\ running'[q] = running[q]
                  /\ rows'[q] = rows[q]
                  /\ q \in failed' <=> q \in failed
  BY <1>4 DEF Dropped, DropRepeats, DropFails, delete_pr, HandlerSucceeds, HandlerFails
<1>5. ASSUME \/ \E action \in {"merge", "update"} : ActionStarts(p, action)
             \/ MergeLands(p)
             \/ UpdateLands(p)
             \/ ActionRejected(p)
      PROVE  /\ UNCHANGED <<clock, object, rows, failed>>
             /\ \A q \in PullRequests \ {p} : running'[q] = running[q]
             /\ mail \subseteq mail'
  BY <1>5 DEF ActionStarts, MergeLands, UpdateLands, ActionRejected, ClosedWebhook, Delivered, Sent
<1> QED
  BY <1>1, <1>2, <1>3, <1>4, <1>5 DEF ObjectNext

\* What a sync writes into its object.
LEMMA Written ==
    ASSUME PrTypeOK, NEW p \in PullRequests, SyncFinishes(p)
    PROVE  /\ running[p].step = "write"
           /\ running[p].record \in Record
           /\ running[p].completion \in Completions \cup {None}
           /\ object'[p].snapshot = running[p].record
           /\ object'[p].last_synced_at = running[p].record.synced_at
           /\ object'[p].sync_pending = object[p].sync_pending
           /\ rows'[p] = running[p].record
           /\ repos[RepoOf[p]] # None
           /\ running'[p] = Idle
           /\ failed' = failed \ {p}
           /\ \A c \in Completions :
                sync_id_completed(object'[p], c) =>
                  sync_id_completed(object[p], c) \/ c = running[p].completion
<1> DEFINE written == [object[p] EXCEPT !.snapshot = running[p].record,
                                        !.last_synced_at = running[p].record.synced_at]
<1>1. /\ running[p] \in Invocations /\ running[p].step = "write"
      /\ object[p] \in PrState
  BY DEF PrTypeOK, SyncFinishes
<1>2. running[p].record \in Record /\ running[p].completion \in Completions \cup {None}
  BY <1>1, InvocationTypes
<1>3. /\ written \in PrState
      /\ written.snapshot = running[p].record
      /\ written.last_synced_at = running[p].record.synced_at
      /\ written.sync_pending = object[p].sync_pending
      /\ written.completed_sync_ids = object[p].completed_sync_ids
  BY <1>1, <1>2 DEF PrState, Record
<1>4. object'[p] = complete_sync(written, running[p].completion)
  BY DEF PrTypeOK, SyncFinishes
<1>5. \A c : sync_id_completed(written, c) <=> sync_id_completed(object[p], c)
  BY <1>3 DEF sync_id_completed
<1>6. /\ rows'[p] = running[p].record
      /\ repos[RepoOf[p]] # None
      /\ running'[p] = Idle
      /\ failed' = failed \ {p}
  BY DEF PrTypeOK, SyncFinishes, upsert_pr, HandlerSucceeds
<1> HIDE DEF written
<1> QED
  BY <1>1, <1>2, <1>3, <1>4, <1>5, <1>6, CompleteSync

\* Where the records of a pull request come from: GitHub is read while the App
\* sees it, what was read is stamped by the clock, and the row and the snapshot
\* take what was stamped.
LEMMA RecordMoves ==
    ASSUME PrTypeOK, NEW p \in PullRequests, ObjectNext(p)
    PROVE  /\ \/ rows'[p] = rows[p]
              \/ rows'[p] = None
              \/ running[p].step = "write" /\ rows'[p] = running[p].record
           /\ \/ /\ object'[p].snapshot = object[p].snapshot
                 /\ object'[p].last_synced_at = object[p].last_synced_at
              \/ object'[p].snapshot = None /\ running'[p] = Idle
              \/ /\ running[p].step = "write"
                 /\ object'[p].snapshot = running[p].record
                 /\ object'[p].last_synced_at = running[p].record.synced_at
                 /\ rows'[p] = running[p].record
                 /\ repos[RepoOf[p]] # None
                 /\ running'[p] = Idle
           /\ running'[p].step = "write" =>
                \/ running[p].step = "write" /\ running'[p].record = running[p].record
                \/ running[p].step = "stamp" /\ running'[p].record = Stamped(running[p].rev)
           /\ running'[p].step = "stamp" => Visible(p) /\ running'[p].rev = rev[p]
<1> USE DEF PrTypeOK
<1>1. ASSUME NEW m \in mail,
             SyncDebounced(p, m) \/ SyncStarts(p, m) \/ ClosedKept(p, m) \/ ClosedStarts(p, m)
      PROVE  /\ rows' = rows
             /\ object'[p].snapshot = object[p].snapshot
             /\ object'[p].last_synced_at = object[p].last_synced_at
             /\ running'[p].step \in {"idle", "fetch", "drop"}
  <2>1. /\ rows' = rows
        /\ running'[p].step \in {"idle", "fetch", "drop"}
    BY <1>1 DEF SyncDebounced, SyncStarts, ClosedKept, ClosedStarts, Takes, Fetching, Idle
  <2>2. object[p] \in PrState
    OBVIOUS
  <2>3. /\ object'[p].snapshot = object[p].snapshot
        /\ object'[p].last_synced_at = object[p].last_synced_at
    BY <1>1, <2>2 DEF SyncDebounced, SyncStarts, ClosedKept, ClosedStarts, FlagCleared, PrState
  <2> QED
    BY <2>1, <2>3
<1>2. CASE FetchReads(p)
  <2>1. /\ UNCHANGED <<rows, object>>
        /\ running'[p].step # "write"
        /\ running'[p].step = "stamp" => Visible(p) /\ running'[p].rev = rev[p]
    BY <1>2 DEF FetchReads, Idle
  <2> QED
    BY <2>1
<1>3. CASE FetchStamps(p)
  BY <1>3 DEF FetchStamps
<1>4. CASE FetchFails(p)
  BY <1>4 DEF FetchFails, HandlerFails, Fetching, Idle
<1>5. CASE SyncFinishes(p)
  BY <1>5, Written DEF Idle
<1>6. CASE UpsertRepeats(p) \/ UpsertFails(p)
  BY <1>6 DEF UpsertRepeats, UpsertFails, upsert_pr, HandlerFails, Idle
<1>7. CASE Dropped(p)
  <2>1. object[p] \in PrState
    OBVIOUS
  <2>2. object'[p].snapshot = None
    BY <1>7, <2>1 DEF Dropped, Forgotten, Cleared, PrState
  <2>3. rows'[p] = None /\ running'[p] = Idle
    BY <1>7 DEF Dropped, delete_pr, HandlerSucceeds
  <2> QED
    BY <2>2, <2>3 DEF Idle
<1>8. CASE DropRepeats(p) \/ DropFails(p)
  BY <1>8 DEF DropRepeats, DropFails, delete_pr, HandlerFails, Idle
<1>9. CASE \/ \E action \in {"merge", "update"} : ActionStarts(p, action)
           \/ MergeLands(p)
           \/ UpdateLands(p)
           \/ ActionRejected(p)
  BY <1>9 DEF ActionStarts, MergeLands, UpdateLands, ActionRejected, Idle
<1> QED
  BY <1>1, <1>2, <1>3, <1>4, <1>5, <1>6, <1>7, <1>8, <1>9 DEF ObjectNext

\* What the steps of the world leave alone.
LEMMA WorldKeeps ==
    ASSUME Tick \/ \E p \in PullRequests : WorldNext(p)
    PROVE  UNCHANGED <<object, running, rows, failed>> /\ mail \subseteq mail'
<1>1. CASE Tick
  BY <1>1 DEF Tick
<1>2. CASE \E p \in PullRequests : WorldNext(p)
  BY <1>2 DEF WorldNext, GithubChanges, GithubCloses, ClosedWebhook, Delivered, Sent
<1> QED
  BY <1>1, <1>2

\* The clock never runs back.
LEMMA PrClockRuns == PrTypeOK /\ [PrNext]_prVars => clock' >= clock
<1> SUFFICES ASSUME PrTypeOK, [PrNext]_prVars
             PROVE  clock' >= clock
  OBVIOUS
<1>1. clock \in Nat
  BY PullRequestAssumption DEF PrTypeOK, Times
<1>2. CASE Tick
  BY <1>1, <1>2 DEF Tick
<1>3. ASSUME NEW p \in PullRequests, ObjectNext(p)
      PROVE  clock' = clock
  BY <1>3, ObjectFrame
<1>4. ASSUME NEW p \in PullRequests, WorldNext(p)
      PROVE  clock' = clock
  BY <1>4 DEF WorldNext, GithubChanges, GithubCloses
<1>5. CASE UNCHANGED prVars
  BY <1>1, <1>5 DEF prVars
<1> QED
  BY <1>1, <1>2, <1>3, <1>4, <1>5 DEF PrNext

\* What the App may read is nobody's affair here.
LEMMA GrantedKept == [PrNext]_prVars => UNCHANGED granted
<1>1. ASSUME NEW p \in PullRequests, ObjectNext(p) \/ WorldNext(p)
      PROVE  UNCHANGED granted
  BY <1>1 DEF ObjectNext, SyncDebounced, SyncStarts, ClosedKept, ClosedStarts, FetchReads,
     FetchStamps, FetchFails, SyncFinishes, UpsertRepeats, UpsertFails, Dropped, DropRepeats,
     DropFails, ActionStarts, MergeLands, UpdateLands, ActionRejected, githubVars,
     WorldNext, GithubChanges, GithubCloses
<1> QED
  BY <1>1 DEF PrNext, Tick, prVars, githubVars

\* GitHub's revision of a pull request never runs back.
LEMMA PrRevRuns ==
    PrTypeOK /\ [PrNext]_prVars => \A p \in PullRequests : rev'[p] >= rev[p]
<1> SUFFICES ASSUME PrTypeOK, [PrNext]_prVars
             PROVE  \A p \in PullRequests : rev'[p] >= rev[p]
  OBVIOUS
<1>1. rev \in [PullRequests -> Nat]
  BY PullRequestAssumption DEF PrTypeOK, Revs
<1>2. CASE Tick
  BY <1>1, <1>2 DEF Tick, githubVars
<1>3. ASSUME NEW p \in PullRequests, ObjectNext(p)
      PROVE  rev' = rev \/ rev' = [rev EXCEPT ![p] = @ + 1]
  BY <1>3 DEF ObjectNext, SyncDebounced, SyncStarts, ClosedKept, ClosedStarts, FetchReads,
     FetchStamps, FetchFails, SyncFinishes, UpsertRepeats, UpsertFails, Dropped, DropRepeats,
     DropFails, ActionStarts, MergeLands, UpdateLands, ActionRejected, githubVars
<1>4. ASSUME NEW p \in PullRequests, WorldNext(p)
      PROVE  rev' = rev \/ rev' = [rev EXCEPT ![p] = @ + 1]
  BY <1>4 DEF WorldNext, GithubChanges, GithubCloses
<1>5. CASE UNCHANGED prVars
  BY <1>1, <1>5 DEF prVars, githubVars
<1> QED
  BY <1>1, <1>2, <1>3, <1>4, <1>5 DEF PrNext

-----------------------------------------------------------------------------
(* Stamps                                                                  *)

\* No object was synced in a second that has not come, nor is about to be.
StampsArePast ==
    \A p \in PullRequests :
      /\ object[p].last_synced_at # None => object[p].last_synced_at <= clock
      /\ running[p].step = "write" => running[p].record.synced_at <= clock

\* What a handler writes down is of the past.
LEMMA PrStepStampsArePast ==
    PrTypeOK /\ StampsArePast /\ [PrNext]_prVars => StampsArePast'
<1> SUFFICES ASSUME PrTypeOK, StampsArePast, [PrNext]_prVars
             PROVE  StampsArePast'
  OBVIOUS
<1> USE DEF StampsArePast
<1>0. /\ clock \in Nat /\ clock' \in Nat /\ clock' >= clock
      /\ Times \subseteq Nat
      /\ None \notin Nat
  BY PrStepTypeOK, PrClockRuns, PullRequestAssumption DEF PrTypeOK, Times
<1>1. \A q \in PullRequests :
        /\ object[q].last_synced_at \in Nat \cup {None}
        /\ running[q].step = "write" => running[q].record.synced_at \in Nat
  BY <1>0, InvocationTypes DEF PrTypeOK, PrState, Record
<1>2. CASE UNCHANGED <<object, running>>
  BY <1>0, <1>1, <1>2
<1>3. ASSUME NEW p \in PullRequests, ObjectNext(p)
      PROVE  /\ object'[p].last_synced_at # None => object'[p].last_synced_at <= clock
             /\ running'[p].step = "write" => running'[p].record.synced_at <= clock
  <2> USE DEF PrTypeOK
  <2>1. ASSUME NEW m \in mail,
               SyncDebounced(p, m) \/ SyncStarts(p, m) \/ ClosedKept(p, m) \/ ClosedStarts(p, m)
        PROVE  /\ object'[p].last_synced_at = object[p].last_synced_at
               /\ running'[p] = running[p] \/ running'[p].step \in {"fetch", "drop"}
    BY <2>1 DEF SyncDebounced, SyncStarts, ClosedKept, ClosedStarts, FlagCleared, Fetching, PrState
  <2>2. CASE FetchReads(p) \/ FetchFails(p)
    BY <1>1, <2>2 DEF FetchReads, FetchFails, HandlerFails, Fetching, Idle
  <2>3. CASE FetchStamps(p)
    BY <1>0, <1>1, <2>3 DEF FetchStamps, Stamped
  <2>4. CASE SyncFinishes(p)
    BY <2>4, Written DEF Idle
  <2>5. CASE UpsertRepeats(p) \/ UpsertFails(p) \/ DropRepeats(p) \/ DropFails(p)
    BY <2>5 DEF UpsertRepeats, UpsertFails, DropRepeats, DropFails, HandlerFails, Idle
  <2>6. CASE Dropped(p)
    BY <2>6 DEF Dropped, Forgotten, Cleared, HandlerSucceeds, Idle, PrState
  <2>7. CASE \/ \E action \in {"merge", "update"} : ActionStarts(p, action)
             \/ MergeLands(p)
             \/ UpdateLands(p)
             \/ ActionRejected(p)
    BY <2>7 DEF ActionStarts, MergeLands, UpdateLands, ActionRejected, Idle
  <2> QED
    BY <1>3, <2>1, <2>2, <2>3, <2>4, <2>5, <2>6, <2>7 DEF ObjectNext
<1>4. ASSUME NEW p \in PullRequests, ObjectNext(p)
      PROVE  StampsArePast'
  BY <1>3, <1>4, ObjectFrame
<1> QED
  BY <1>2, <1>4, WorldKeeps DEF PrNext, prVars

-----------------------------------------------------------------------------
(* The flag and its sync                                                   *)

\* The handler is in the middle of a sync.
Syncing(p) == running[p].step \in {"fetch", "stamp", "write"}

\* A message is the trailing sync of an object whose flag is set: it comes due
\* no earlier than the window of the last sync ends, so it is never debounced.
Trails(m, p) ==
    /\ m.kind = "sync"
    /\ m.pr = p
    /\ ~Bypasses(m)
    /\ m.at > 0
    /\ object[p].last_synced_at # None => m.at >= object[p].last_synced_at + Debounce

PendingTrails ==
    \A p \in PullRequests :
      object[p].sync_pending => ~Syncing(p) /\ \E m \in mail : Trails(m, p)

FlagInv == PrTypeOK /\ StampsArePast /\ PendingTrails

\* No object has been told of anything yet.
LEMMA PrInitFlagInv == PrInit => FlagInv
<1> SUFFICES ASSUME PrInit PROVE FlagInv
  OBVIOUS
<1>1. \A p \in PullRequests : object[p] = Cleared /\ running[p] = Idle
  BY DEF PrInit
<1> QED
  BY <1>1, PrInitTypeOK DEF FlagInv, StampsArePast, PendingTrails, Cleared, Idle

\* An event inside the window leaves the flag with its sync on the way: the one
\* it sends, or the one that was on the way already, which is not due yet.
LEMMA DebouncedTrails ==
    ASSUME FlagInv, NEW p \in PullRequests, NEW m \in mail, SyncDebounced(p, m)
    PROVE  ~Syncing(p)' /\ \E n \in mail' : Trails(n, p)'
<1> USE DEF FlagInv, PrTypeOK
<1>1. /\ clock \in Nat /\ Debounce \in Nat
      /\ object[p].last_synced_at \in Nat
      /\ m.at \in Nat
  <2>1. m \in SyncMessages
    BY DEF SyncDebounced, ClosedMessages
  <2> QED
    BY <2>1, PullRequestAssumption
       DEF SyncDebounced, should_debounce_sync, PrState, Times, SyncMessages
<1>2. m.at <= clock /\ clock < object[p].last_synced_at + Debounce
  BY DEF SyncDebounced, should_debounce_sync
<1>3. object'[p].last_synced_at = object[p].last_synced_at
  BY DEF SyncDebounced, PrState
<1>4. ~Syncing(p)'
  BY DEF SyncDebounced, Takes, Syncing, Idle
<1>5. CASE object[p].sync_pending
  <2>1. PICK n \in mail : Trails(n, p)
    BY <1>5 DEF PendingTrails
  <2>2. n \in SyncMessages
    BY <2>1 DEF Trails, ClosedMessages
  <2>3. n.at \in Nat
    BY <2>2, PullRequestAssumption DEF SyncMessages
  <2>4. n # m
    BY <1>1, <1>2, <2>1, <2>3, PullRequestAssumption DEF Trails
  <2>5. n \in mail'
    BY <1>5, <2>4 DEF SyncDebounced
  <2> QED
    BY <1>3, <1>4, <2>1, <2>5 DEF Trails
<1>6. CASE ~object[p].sync_pending
  <2> DEFINE n == SyncMessage(p, None, clock + Debounce, FALSE)
  <2>1. n \in mail'
    BY <1>6 DEF SyncDebounced, TrailingSync
  <2>2. n.at = clock + Debounce /\ n.kind = "sync" /\ n.pr = p /\ ~Bypasses(n)
    BY DEF SyncMessage, Bypasses
  <2>3. object[p].last_synced_at <= clock
    BY <1>1, PullRequestAssumption DEF StampsArePast
  <2> HIDE DEF n
  <2>4. n.at > 0 /\ n.at >= object[p].last_synced_at + Debounce
    <3>1. clock + Debounce > clock /\ clock + Debounce >= object[p].last_synced_at + Debounce
      BY <1>1, <1>2, <2>3
    <3> QED
      BY <1>1, <2>2, <3>1
  <2> QED
    BY <1>3, <1>4, <2>1, <2>2, <2>4 DEF Trails
<1> QED
  BY <1>5, <1>6

\* No handler sets the flag but that one, and every sync that starts clears it.
LEMMA PrStepPendingTrails == FlagInv /\ [PrNext]_prVars => PendingTrails'
<1> SUFFICES ASSUME FlagInv, [PrNext]_prVars
             PROVE  PendingTrails'
  OBVIOUS
<1> USE DEF FlagInv
<1>1. ASSUME UNCHANGED <<object, running>>, mail \subseteq mail'
      PROVE  PendingTrails'
  BY <1>1 DEF PendingTrails, Trails, Syncing
<1>2. ASSUME NEW p \in PullRequests, ObjectNext(p), object'[p].sync_pending
      PROVE  ~Syncing(p)' /\ \E m \in mail' : Trails(m, p)'
  <2> USE DEF PrTypeOK
  <2>1. CASE \E m \in mail : SyncDebounced(p, m)
    BY <2>1, DebouncedTrails
  <2>2. CASE \E m \in mail : SyncStarts(p, m)
    BY <1>2, <2>2 DEF SyncStarts, FlagCleared, PrState
  <2>3. CASE \E m \in mail : ClosedKept(p, m) \/ ClosedStarts(p, m)
    BY <1>2, <2>3 DEF ClosedKept, ClosedStarts, PendingTrails, Trails, Syncing
  <2>4. CASE FetchReads(p) \/ FetchStamps(p) \/ FetchFails(p) \/ UpsertRepeats(p) \/ UpsertFails(p)
    BY <1>2, <2>4 DEF FetchReads, FetchStamps, FetchFails, UpsertRepeats, UpsertFails,
       PendingTrails, Syncing
  <2>5. CASE SyncFinishes(p)
    BY <1>2, <2>5, Written DEF PendingTrails, Syncing
  <2>6. CASE Dropped(p)
    <3>1. /\ object[p].sync_pending
          /\ object'[p].last_synced_at = object[p].last_synced_at
          /\ running'[p] = Idle
          /\ mail' = mail
      BY <1>2, <2>6 DEF Dropped, Forgotten, Cleared, HandlerSucceeds, PrState
    <3> QED
      BY <3>1 DEF PendingTrails, Trails, Syncing, Idle
  <2>7. CASE DropRepeats(p) \/ DropFails(p)
    BY <1>2, <2>7 DEF DropRepeats, DropFails, HandlerFails, PendingTrails, Trails, Syncing, Idle
  <2>8. CASE \/ \E action \in {"merge", "update"} : ActionStarts(p, action)
             \/ MergeLands(p)
             \/ UpdateLands(p)
             \/ ActionRejected(p)
    <3>1. UNCHANGED object /\ mail \subseteq mail'
      BY <2>8 DEF ActionStarts, MergeLands, UpdateLands, ActionRejected, ClosedWebhook,
         Delivered, Sent
    <3>2. ~Syncing(p)'
      BY <2>8 DEF ActionStarts, MergeLands, UpdateLands, ActionRejected, Syncing, Idle
    <3> QED
      BY <1>2, <3>1, <3>2 DEF PendingTrails, Trails
  <2> QED
    BY <1>2, <2>1, <2>2, <2>3, <2>4, <2>5, <2>6, <2>7, <2>8 DEF ObjectNext
<1>3. ASSUME NEW p \in PullRequests, ObjectNext(p)
      PROVE  PendingTrails'
  <2>1. ASSUME NEW q \in PullRequests \ {p}, object'[q].sync_pending
        PROVE  ~Syncing(q)' /\ \E m \in mail' : Trails(m, q)'
    <3>1. /\ object'[q] = object[q] /\ running'[q] = running[q]
          /\ \A m \in mail : m.pr = q => m \in mail'
      BY <1>3, ObjectFrame
    <3> QED
      BY <2>1, <3>1 DEF PendingTrails, Trails, Syncing
  <2> QED
    BY <1>2, <1>3, <2>1 DEF PendingTrails
<1> QED
  BY <1>1, <1>3, WorldKeeps DEF PrNext, prVars

-----------------------------------------------------------------------------
(* Object and row                                                          *)

\* Between the row's write and the object's they may differ.
Settled(p) == running[p].step \notin {"write", "drop", "drop_merged"}

\* A handler that is through with its writes, or has none to do, leaves the two
\* agreeing, or as it found them.
LEMMA ObjectSettles ==
    ASSUME PrTypeOK, NEW p \in PullRequests, ObjectNext(p), p \notin failed', Settled(p)'
    PROVE  \/ object'[p].snapshot = rows'[p]
           \/ /\ p \notin failed
              /\ Settled(p)
              /\ object'[p].snapshot = object[p].snapshot
              /\ rows'[p] = rows[p]
<1> USE DEF PrTypeOK, Settled
<1>1. ASSUME NEW m \in mail,
             SyncDebounced(p, m) \/ SyncStarts(p, m) \/ ClosedKept(p, m) \/ ClosedStarts(p, m)
      PROVE  /\ p \notin failed
             /\ Settled(p)
             /\ object'[p].snapshot = object[p].snapshot
             /\ rows'[p] = rows[p]
  <2>1. running[p] = Idle /\ p \notin failed
    BY <1>1 DEF SyncDebounced, SyncStarts, ClosedKept, ClosedStarts, Takes
  <2>2. object'[p].snapshot = object[p].snapshot
    BY <1>1 DEF SyncDebounced, SyncStarts, ClosedKept, ClosedStarts, FlagCleared, PrState
  <2>3. rows' = rows
    BY <1>1 DEF SyncDebounced, SyncStarts, ClosedKept, ClosedStarts
  <2> QED
    BY <2>1, <2>2, <2>3 DEF Idle
<1>2. CASE FetchReads(p) \/ FetchStamps(p) \/ FetchFails(p)
  BY <1>2 DEF FetchReads, FetchStamps, FetchFails, HandlerFails
<1>3. CASE SyncFinishes(p)
  BY <1>3, Written
<1>4. CASE UpsertRepeats(p) \/ UpsertFails(p) \/ DropRepeats(p) \/ DropFails(p)
  BY <1>4 DEF UpsertRepeats, UpsertFails, DropRepeats, DropFails, HandlerFails
<1>5. CASE Dropped(p)
  BY <1>5 DEF Dropped, Forgotten, Cleared, delete_pr, PrState
<1>6. CASE \/ \E action \in {"merge", "update"} : ActionStarts(p, action)
           \/ MergeLands(p)
           \/ UpdateLands(p)
           \/ ActionRejected(p)
  BY <1>6 DEF ActionStarts, MergeLands, UpdateLands, ActionRejected, Idle
<1> QED
  BY <1>1, <1>2, <1>3, <1>4, <1>5, <1>6 DEF ObjectNext

-----------------------------------------------------------------------------
(* Records run forward                                                     *)

\* The second record is no older than the first, in what it shows of the pull
\* request and in when it was read.
NoOlder(first, second) ==
    first.rev <= second.rev /\ first.synced_at <= second.synced_at

\* What a sync under way has read, and is to stamp or write, GitHub has had.
ReadsArePast(p) ==
    /\ running[p].step = "stamp" => running[p].rev <= rev[p]
    /\ running[p].step = "write" =>
         running[p].record.rev <= rev[p] /\ running[p].record.synced_at <= clock

\* No sync under way is to write anything older than the record.
Overtaken(p, record) ==
    record # None =>
      /\ record.rev <= rev[p]
      /\ record.synced_at <= clock
      /\ running[p].step = "stamp" => record.rev <= running[p].rev
      /\ running[p].step = "write" => NoOlder(record, running[p].record)

RecordsRun ==
    \A p \in PullRequests :
      /\ ReadsArePast(p)
      /\ Overtaken(p, rows[p])
      /\ Overtaken(p, object[p].snapshot)

RunsForward(before, after) == before # None /\ after # None => NoOlder(before, after)

\* Neither the row nor the snapshot is replaced by an older one.
RecordsRunForward ==
    \A p \in PullRequests :
      /\ RunsForward(rows[p], rows'[p])
      /\ RunsForward(object[p].snapshot, object'[p].snapshot)

\* What the handler under way has read, it read by this step's end.
Reads(p) ==
    \/ running'[p] = running[p]
    \/ /\ running'[p].step = "stamp" => running'[p].rev = rev[p]
       /\ running'[p].step = "write" =>
            \/ running[p].step = "write" /\ running'[p].record = running[p].record
            \/ running[p].step = "stamp" /\ running'[p].record = Stamped(running[p].rev)

\* A sync that reads later overtakes whatever was overtaken.
LEMMA OvertakenStays ==
    ASSUME PrTypeOK, PrTypeOK', NEW p \in PullRequests, NEW record \in Record \cup {None},
           rev'[p] >= rev[p], clock' >= clock, Overtaken(p, record), Reads(p)
    PROVE  Overtaken(p, record)'
<1> SUFFICES ASSUME record # None
             PROVE  Overtaken(p, record)'
  BY DEF Overtaken
<1>1. /\ record.rev \in Nat /\ record.synced_at \in Nat
      /\ rev[p] \in Nat /\ rev'[p] \in Nat /\ clock \in Nat /\ clock' \in Nat
  BY PullRequestAssumption DEF PrTypeOK, Record, Revs, Times
<1>2. record.rev <= rev[p] /\ record.synced_at <= clock
  BY DEF Overtaken
<1>3. record.rev <= rev'[p] /\ record.synced_at <= clock'
  BY <1>1, <1>2
<1>4. running'[p].step = "stamp" => record.rev <= running'[p].rev
  BY <1>2 DEF Overtaken, Reads
<1>5. running'[p].step = "write" => NoOlder(record, running'[p].record)
  <2>1. /\ Stamped(running[p].rev).rev = running[p].rev
        /\ Stamped(running[p].rev).synced_at = clock
    BY DEF Stamped
  <2> QED
    BY <1>2, <2>1 DEF Overtaken, NoOlder, Reads
<1> QED
  BY <1>3, <1>4, <1>5 DEF Overtaken

\* ... and what it read stays of the past.
LEMMA ReadsStayPast ==
    ASSUME PrTypeOK, PrTypeOK', NEW p \in PullRequests,
           rev'[p] >= rev[p], clock' >= clock, ReadsArePast(p), Reads(p)
    PROVE  ReadsArePast(p)'
<1>1. rev[p] \in Nat /\ rev'[p] \in Nat /\ clock \in Nat /\ clock' \in Nat
  BY PullRequestAssumption DEF PrTypeOK, Revs, Times
<1>2. /\ running[p].step = "stamp" => running[p].rev \in Nat
      /\ running[p].step = "write" =>
           running[p].record.rev \in Nat /\ running[p].record.synced_at \in Nat
  BY InvocationTypes, PullRequestAssumption DEF PrTypeOK, Record, Revs, Times
<1>3. /\ Stamped(running[p].rev).rev = running[p].rev
      /\ Stamped(running[p].rev).synced_at = clock
  BY DEF Stamped
<1>4. running'[p].step = "stamp" => running'[p].rev <= rev'[p]
  BY <1>1, <1>2 DEF ReadsArePast, Reads
<1>5. running'[p].step = "write" =>
        running'[p].record.rev <= rev'[p] /\ running'[p].record.synced_at <= clock'
  BY <1>1, <1>2, <1>3 DEF ReadsArePast, Reads
<1> QED
  BY <1>4, <1>5 DEF ReadsArePast

\* A step that takes the row away, or leaves it, or writes what the handler
\* under way has stamped, replaces no record by an older one; and so of the
\* snapshot.
LEMMA RecordsGoOn ==
    ASSUME PrTypeOK, PrTypeOK', NEW p \in PullRequests,
           ReadsArePast(p), Reads(p), rev'[p] >= rev[p], clock' >= clock,
           NEW before \in Record \cup {None}, Overtaken(p, before),
           NEW after \in {before, None, running[p].record},
           after \in {before, None} \/ running[p].step = "write"
    PROVE  RunsForward(before, after) /\ Overtaken(p, after)'
<1>1. CASE after = before
  <2>1. before # None => before.rev \in Nat /\ before.synced_at \in Nat
    BY PullRequestAssumption DEF Record, Revs, Times
  <2> QED
    BY <1>1, <2>1, OvertakenStays DEF RunsForward, NoOlder
<1>2. CASE after = None
  BY <1>2 DEF RunsForward, Overtaken
<1>3. CASE after = running[p].record /\ running[p].step = "write"
  <2>1. PICK record \in Record : record = running[p].record
    BY <1>3, InvocationTypes DEF PrTypeOK
  <2>2. record.rev \in Nat /\ record.synced_at \in Nat
    BY <2>1, PullRequestAssumption DEF Record, Revs, Times
  <2>3. Overtaken(p, record)
    BY <1>3, <2>1, <2>2 DEF Overtaken, NoOlder, ReadsArePast
  <2>4. Overtaken(p, record)'
    BY <2>1, <2>3, OvertakenStays
  <2>5. RunsForward(before, record)
    BY <1>3, <2>1 DEF Overtaken, RunsForward
  <2> QED
    BY <1>3, <2>1, <2>4, <2>5
<1> QED
  BY <1>1, <1>2, <1>3

\* Every step, the objects' own, the world's or one that does no more than take
\* rows away, keeps the records of a pull request running forward.
LEMMA StepRecords ==
    ASSUME PrTypeOK, PrTypeOK', NEW p \in PullRequests,
           ReadsArePast(p), Overtaken(p, rows[p]), Overtaken(p, object[p].snapshot),
           rev'[p] >= rev[p], clock' >= clock, Reads(p),
           \/ rows'[p] \in {rows[p], None}
           \/ running[p].step = "write" /\ rows'[p] = running[p].record,
           \/ object'[p].snapshot \in {object[p].snapshot, None}
           \/ running[p].step = "write" /\ object'[p].snapshot = running[p].record
    PROVE  /\ ReadsArePast(p)'
           /\ Overtaken(p, rows[p])'
           /\ Overtaken(p, object[p].snapshot)'
           /\ RunsForward(rows[p], rows'[p])
           /\ RunsForward(object[p].snapshot, object'[p].snapshot)
<1>1. ReadsArePast(p)'
  BY ReadsStayPast
<1>2. PICK row, row1 \in Record \cup {None} : row = rows[p] /\ row1 = rows'[p]
  BY DEF PrTypeOK
<1>3. RunsForward(row, row1) /\ Overtaken(p, row1)'
  BY <1>2, RecordsGoOn
<1>4. PICK shown, shown1 \in Record \cup {None} :
        shown = object[p].snapshot /\ shown1 = object'[p].snapshot
  BY DEF PrTypeOK, PrState
<1>5. RunsForward(shown, shown1) /\ Overtaken(p, shown1)'
  BY <1>4, RecordsGoOn
<1> QED
  BY <1>1, <1>2, <1>3, <1>4, <1>5 DEF Overtaken

\* No object has read anything yet.
LEMMA PrInitRecordsRun == PrInit => RecordsRun
<1> SUFFICES ASSUME PrInit PROVE RecordsRun
  OBVIOUS
<1>1. \A p \in PullRequests : object[p] = Cleared /\ running[p] = Idle /\ rows[p] = None
  BY DEF PrInit
<1>2. Cleared.snapshot = None /\ Idle.step = "idle"
  BY DEF Cleared, Idle
<1> QED
  BY <1>1, <1>2 DEF RecordsRun, ReadsArePast, Overtaken

\* The objects and their world write nothing older than what is there.
LEMMA PrStepRecordsRun ==
    PrTypeOK /\ RecordsRun /\ [PrNext]_prVars => RecordsRun' /\ RecordsRunForward
<1> SUFFICES ASSUME PrTypeOK, RecordsRun, [PrNext]_prVars, NEW p \in PullRequests
             PROVE  /\ ReadsArePast(p)'
                    /\ Overtaken(p, rows[p])'
                    /\ Overtaken(p, object[p].snapshot)'
                    /\ RunsForward(rows[p], rows'[p])
                    /\ RunsForward(object[p].snapshot, object'[p].snapshot)
  BY DEF RecordsRun, RecordsRunForward
<1>1. /\ PrTypeOK' /\ rev'[p] >= rev[p] /\ clock' >= clock
      /\ ReadsArePast(p) /\ Overtaken(p, rows[p]) /\ Overtaken(p, object[p].snapshot)
  BY PrStepTypeOK, PrRevRuns, PrClockRuns DEF RecordsRun
<1>2. CASE rows'[p] = rows[p] /\ object'[p] = object[p] /\ running'[p] = running[p]
  BY <1>1, <1>2, StepRecords DEF Reads
<1>3. CASE ObjectNext(p)
  <2>1. /\ Reads(p)
        /\ \/ rows'[p] \in {rows[p], None}
           \/ running[p].step = "write" /\ rows'[p] = running[p].record
        /\ \/ object'[p].snapshot \in {object[p].snapshot, None}
           \/ running[p].step = "write" /\ object'[p].snapshot = running[p].record
    BY <1>3, RecordMoves DEF Reads
  <2> QED
    BY <1>1, <2>1, StepRecords
<1>4. ASSUME NEW q \in PullRequests \ {p}, ObjectNext(q)
      PROVE  rows'[p] = rows[p] /\ object'[p] = object[p] /\ running'[p] = running[p]
  BY <1>4, ObjectFrame
<1>5. CASE UNCHANGED prVars
  BY <1>2, <1>5 DEF prVars
<1> QED
  BY <1>2, <1>3, <1>4, <1>5, WorldKeeps DEF PrNext
=============================================================================
