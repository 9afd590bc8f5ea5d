----------------------------- MODULE PageProofs -----------------------------
(***************************************************************************)
(* For any filters, bounds and number of outages: the page's state keeps   *)
(* its type, the rows on screen catch up with what the refresh has seen,   *)
(* and the cap note tells the truth.                                       *)
(***************************************************************************)
EXTENDS Page, FiniteSetTheorems, TLAPS

\* Rows a filter matches can be counted, and the first of them are among them.
LEMMA Matching ==
    ASSUME NEW f \in Filters
    PROVE  /\ Cardinality(Matches[f]) \in Nat
           /\ Matches[f] \subseteq AllRows
           /\ load_matching(f) \subseteq AllRows
<1>1. Cardinality(Matches[f]) \in Nat
  BY PageAssumption, FS_CardinalityType
<1> QED
  BY <1>1 DEF AllRows, load_matching

\* The page opens with everything in its range.
LEMMA InitTypeOK == Init => TypeOK
<1> SUFFICES ASSUME Init PROVE TypeOK
  OBVIOUS
<1> USE PageAssumption
<1>1. rev \in Revisions
  BY DEF Init, Revisions
<1>2. refresh \in Refreshes /\ poll \in Polls
  BY DEF Init, NewRefresh, Refreshes, Polls
<1>3. rows \in Answers /\ reading \in Readings
  BY DEF Init, Answers, Readings
<1>4. selection \in [rows : SUBSET AllRows, capped_from : Nat \cup {None}]
  BY DEF Init, Nothing
<1>5. {away, refusing, visible, cut, syncing} \subseteq BOOLEAN
  BY DEF Init
<1>6. syncs \in 0..MaxSyncs /\ upsets \in 0..MaxUpsets /\ gestures \in 0..MaxGestures
  BY DEF Init
<1> QED
  BY <1>1, <1>2, <1>3, <1>4, <1>5, <1>6 DEF Init, TypeOK

\* A tick leaves the refresh in its range.
LEMMA TickTypes ==
    ASSUME TypeOK
    PROVE  Ticked \in Refreshes
<1> USE PageAssumption
<1>1. Followed \in Nat /\ (~Overdue => Followed \in 0..SyncFollowTicks)
  BY DEF TypeOK, Refreshes, Followed, Overdue
<1>2. ~PollDue => refresh.since_poll + 1 \in 0..(RefreshTicks - 1)
  BY DEF TypeOK, Refreshes, PollDue
<1>3. CASE ~visible
  BY <1>1, <1>3 DEF Ticked, TypeOK, Refreshes, Overdue
<1>4. CASE visible /\ Overdue
  BY <1>4 DEF Ticked, TypeOK, Refreshes
<1>5. CASE visible /\ ~Overdue /\ PollDue
  <2>1. Ticked = [refresh EXCEPT !.followed = Followed, !.since_poll = 0, !.owed = FALSE]
    BY <1>5 DEF Ticked
  <2>2. refresh \in Refreshes /\ 0 \in 0..(RefreshTicks - 1)
    BY DEF TypeOK
  <2>3. Followed \in 0..SyncFollowTicks
    BY <1>1, <1>5
  <2> QED
    BY <2>1, <2>2, <2>3 DEF Refreshes
<1>6. CASE visible /\ ~Overdue /\ ~PollDue
  BY <1>1, <1>2, <1>6 DEF Ticked, TypeOK, Refreshes
<1> QED
  BY <1>3, <1>4, <1>5, <1>6

\* A read asked for leaves the resource in its range.
LEMMA ReadTypes ==
    ASSUME TypeOK, NEW f \in Filters, Read(f)
    PROVE  rows' \in Answers /\ reading' \in Readings \cup {None}
  BY PageAssumption DEF Read, TypeOK, Answers, Readings

\* So does a reload.
LEMMA ReloadTypes ==
    ASSUME TypeOK, reload
    PROVE  rows' \in Answers /\ reading' \in Readings \cup {None} /\ cut' \in BOOLEAN
<1>1. CASE SignedOut
  BY <1>1 DEF reload, TypeOK
<1>2. CASE ~SignedOut
  BY <1>2, ReadTypes DEF reload, TypeOK
<1> QED
  BY <1>1, <1>2

\* Every action keeps the page's state in its range.
LEMMA StepTypeOK == TypeOK /\ [Next]_vars => TypeOK'
<1> SUFFICES ASSUME TypeOK, [Next]_vars
             PROVE  TypeOK'
  OBVIOUS
<1> USE PageAssumption DEF server, line, live, table, picked, manual, bounds
<1>1. CASE ReadServed
  <2>1. reading \in Readings /\ rev.projection \in 0..MaxRev
    BY <1>1 DEF ReadServed, TypeOK, Revisions
  <2>2. reading' \in Readings
    BY <1>1, <2>1 DEF ReadServed, Readings
  <2> QED
    BY <1>1, <2>2 DEF ReadServed, TypeOK
<1>2. CASE ReadAnswered
  <2>1. reading \in Readings
    BY <1>2 DEF ReadAnswered, TypeOK
  <2>2. rows' \in Answers
    BY <1>2, <2>1 DEF ReadAnswered, Readings, Answers
  <2> QED
    BY <1>2, <2>2 DEF ReadAnswered, TypeOK
<1>3. CASE ReadFails
  <2>1. reading \in Readings
    BY <1>3 DEF ReadFails, TypeOK
  <2>2. rows' \in Answers
    BY <1>3, <2>1 DEF ReadFails, Readings, Answers
  <2>3. connection' \in {"online", "disconnected", "signed_out"}
    BY <1>3 DEF ReadFails, Unanswered, Refused, TypeOK
  <2> QED
    BY <1>3, <2>2, <2>3 DEF ReadFails, TypeOK
<1>4. CASE RetryRead
  BY <1>4, ReloadTypes DEF RetryRead, Gesture, TypeOK
<1>5. CASE load_next
  <2>1. rows' \in Answers /\ reading' \in Readings \cup {None}
    BY <1>5, ReadTypes DEF load_next, TypeOK
  <2>2. Gesture
    BY <1>5 DEF load_next
  <2>3. gestures' \in 0..MaxGestures /\ upsets' \in 0..MaxUpsets
    BY <2>2 DEF Gesture, TypeOK
  <2> QED
    BY <1>5, <2>1, <2>3 DEF load_next, TypeOK
<1>6. CASE Tick
  <2>1. poll' \in Polls
    BY <1>6 DEF Tick, TypeOK, Polls
  <2>2. syncing' \in BOOLEAN /\ filter' \in Filters
    BY <1>6 DEF Tick, TypeOK
  <2>3. rows' \in Answers /\ reading' \in Readings \cup {None} /\ cut' \in BOOLEAN
    BY <1>6, ReloadTypes DEF Tick, TypeOK
  <2> QED
    BY <1>6, <2>1, <2>2, <2>3, TickTypes DEF Tick, TypeOK
<1>7. CASE PollServed
  <2>1. poll' \in Polls
    BY <1>7 DEF PollServed, TypeOK, Polls
  <2> QED
    BY <1>7, <2>1 DEF PollServed, TypeOK
<1>8. CASE PollAnswered
  <2>1. poll.got \in Revisions
    BY <1>8 DEF PollAnswered, TypeOK, Polls
  <2>2. refresh' \in Refreshes
    <3> DEFINE moved == refresh.moved \/ Restored \/ Moved("projection")
    <3>1. refresh' = [refresh EXCEPT !.misses = 0, !.seen = poll.got, !.moved = moved]
      BY <1>8 DEF PollAnswered
    <3>2. moved \in BOOLEAN
      OBVIOUS
    <3> HIDE DEF moved
    <3>3. refresh \in Refreshes
      BY DEF TypeOK
    <3> DEFINE answered == [refresh EXCEPT !.misses = 0, !.seen = poll.got]
    <3>4. answered \in Refreshes
      <4>1. ASSUME NEW r \in Refreshes PROVE [r EXCEPT !.misses = 0] \in Refreshes
        BY DEF Refreshes
      <4>2. ASSUME NEW r \in Refreshes, NEW got \in Revisions
            PROVE  [r EXCEPT !.seen = got] \in Refreshes
        BY DEF Refreshes
      <4> QED
        BY <2>1, <3>3, <4>1, <4>2
    <3>5. refresh' = [answered EXCEPT !.moved = moved]
      BY <3>1, <3>3 DEF Refreshes
    <3> HIDE DEF answered
    <3> QED
      BY <3>2, <3>4, <3>5 DEF Refreshes
  <2>3. rows' \in Answers /\ reading' \in Readings \cup {None} /\ cut' \in BOOLEAN
    BY <1>8, ReloadTypes DEF PollAnswered, TypeOK
  <2>4. syncing' \in BOOLEAN /\ poll' \in Polls
    BY <1>8 DEF PollAnswered, Polls
  <2> QED
    BY <1>8, <2>2, <2>3, <2>4 DEF PollAnswered, TypeOK
<1>9. CASE PollMissed
  <2>1. refresh' = [refresh EXCEPT !.misses = @ + 1]
           \/ refresh' = [refresh EXCEPT !.misses = @ + 1, !.refused = TRUE]
    BY <1>9 DEF PollMissed
  <2>2. refresh.misses + 1 \in 0..MaxMisses
    BY <1>9 DEF PollMissed, TypeOK, Refreshes
  <2>3. refresh' \in Refreshes
    BY <2>1, <2>2 DEF TypeOK, Refreshes
  <2>4. poll' \in Polls /\ cut' \in BOOLEAN
    BY <1>9 DEF PollMissed, Polls
  <2> QED
    BY <1>9, <2>3, <2>4 DEF PollMissed, LineOf, TypeOK
<1>10. CASE ChangeFilter
  <2>1. PICK f \in Filters : update_filter(f)
    BY <1>10 DEF ChangeFilter
  <2>2. rows' \in Answers /\ reading' \in Readings \cup {None}
    BY <2>1, ReadTypes DEF update_filter
  <2>3. selection' \in [rows : SUBSET AllRows, capped_from : Nat \cup {None}]
    BY <2>1 DEF update_filter, Nothing
  <2>4. gestures' \in 0..MaxGestures
    BY <2>1 DEF update_filter, Gesture, TypeOK
  <2>5. upsets' \in 0..MaxUpsets /\ cut' \in BOOLEAN /\ filter' \in Filters
    BY <2>1 DEF update_filter, Gesture, TypeOK
  <2> QED
    BY <2>1, <2>2, <2>3, <2>4, <2>5 DEF update_filter, TypeOK
<1>11. CASE toggle_selected
  <2>1. Visible \subseteq AllRows
    BY Matching DEF Visible, TypeOK, Answers
  <2> QED
    BY <1>11, <2>1 DEF toggle_selected, EditSelection, Gesture, TypeOK
<1>12. CASE toggle_visible
  <2>1. Visible \subseteq AllRows
    BY Matching DEF Visible, TypeOK, Answers
  <2> QED
    BY <1>12, <2>1 DEF toggle_visible, EditSelection, Gesture, TypeOK
<1>13. CASE deselect
  BY <1>13 DEF deselect, EditSelection, Gesture, TypeOK
<1>14. CASE SelectMatching
  BY <1>14 DEF SelectMatching, Gesture, TypeOK
<1>15. CASE select_matching
  <2>1. selecting \in Filters
    BY <1>15 DEF select_matching, TypeOK
  <2> QED
    BY <1>15, <2>1, Matching DEF select_matching, TypeOK
<1>16. CASE SelectFails
  BY <1>16 DEF SelectFails, Unanswered, Refused, TypeOK
<1>17. CASE SyncPressed
  BY <1>17 DEF SyncPressed, Gesture, TypeOK
<1>18. CASE SyncQueued
  BY <1>18 DEF SyncQueued, TypeOK
<1>19. CASE SyncFails
  <2>1. connection' \in {"online", "disconnected", "signed_out"}
    BY <1>19 DEF SyncFails, Unanswered, Refused, TypeOK
  <2>2. syncs' \in 0..MaxSyncs
    BY <1>19 DEF SyncFails, TypeOK
  <2> QED
    BY <1>19, <2>1, <2>2 DEF SyncFails, TypeOK
<1>20. CASE Writes
  <2>1. rev' \in Revisions
    BY <1>20 DEF Writes, TypeOK, Revisions
  <2> QED
    BY <1>20, <2>1 DEF Writes, TypeOK
<1>21. CASE TabSwitched
  BY <1>21 DEF TabSwitched, TypeOK
<1>22. CASE CredentialsExpire
  BY <1>22 DEF CredentialsExpire, Upset, TypeOK
<1>23. CASE RefusedElsewhere
  BY <1>23 DEF RefusedElsewhere, Refused, TypeOK
<1>24. CASE ServerGoes
  BY <1>24 DEF ServerGoes, Upset, TypeOK
<1>25. CASE ServerReturns
  BY <1>25 DEF ServerReturns, TypeOK
<1>26. CASE UNCHANGED vars
  BY <1>26 DEF vars, TypeOK
<1> QED
  BY <1>1, <1>2, <1>3, <1>4, <1>5, <1>6, <1>7, <1>8, <1>9, <1>10, <1>11, <1>12, <1>13, <1>14,
     <1>15, <1>16, <1>17, <1>18, <1>19, <1>20, <1>21, <1>22, <1>23, <1>24, <1>25, <1>26 DEF Next

\* For any filters and bounds the page's state keeps its type: no interval
\* passes without a poll, no sync is followed past its time (Refresh::tick).
THEOREM TypeCorrect == Spec => []TypeOK
  BY InitTypeOK, StepTypeOK, PTL DEF Spec

-----------------------------------------------------------------------------
(* The cap note                                                            *)

\* The note and the filter are left as they are, or the note goes.
NoteKept ==
    \/ UNCHANGED <<filter, selection>>
    \/ selection'.capped_from = None

\* The note is only ever put up with the rows of the filter in force.
LEMMA NotePutUp ==
    ASSUME select_matching, CapNoteIsTrue
    PROVE  CapNoteIsTrue'
<1>1. filter' = filter
  BY DEF select_matching, table
<1>2. CASE InForce(selecting)
  <2>1. /\ selection'.rows = load_matching(filter)
        /\ selection'.capped_from \in {Cardinality(Matches[filter]), None}
    BY <1>2 DEF select_matching, InForce
  <2> QED
    BY <1>1, <2>1 DEF CapNoteIsTrue, load_matching
<1>3. CASE ~InForce(selecting)
  <2>1. selection' = selection
    BY <1>3 DEF select_matching
  <2> QED
    BY <1>1, <2>1 DEF CapNoteIsTrue, load_matching
<1> QED
  BY <1>2, <1>3

\* Every other action keeps the note and the filter, or takes the note down.
LEMMA OthersKeepNote ==
    ASSUME [Next]_vars, ~select_matching
    PROVE  NoteKept
<1> USE DEF NoteKept, table, picked, Nothing
<1>1. CASE ReadServed \/ ReadAnswered \/ ReadFails \/ RetryRead \/ load_next
  BY <1>1 DEF ReadServed, ReadAnswered, ReadFails, RetryRead, load_next
<1>2. CASE Tick \/ PollServed \/ PollAnswered \/ PollMissed
  BY <1>2 DEF Tick, PollServed, PollAnswered, PollMissed
<1>3. CASE ChangeFilter
  BY <1>3 DEF ChangeFilter, update_filter
<1>4. CASE toggle_selected \/ toggle_visible \/ deselect
  BY <1>4 DEF toggle_selected, toggle_visible, deselect, EditSelection
<1>5. CASE SelectMatching \/ SelectFails
  BY <1>5 DEF SelectMatching, SelectFails
<1>6. CASE SyncPressed \/ SyncQueued \/ SyncFails
  BY <1>6 DEF SyncPressed, SyncQueued, SyncFails
<1>7. CASE Writes \/ TabSwitched \/ CredentialsExpire \/ RefusedElsewhere
  BY <1>7 DEF Writes, TabSwitched, CredentialsExpire, RefusedElsewhere
<1>8. CASE ServerGoes \/ ServerReturns
  BY <1>8 DEF ServerGoes, ServerReturns
<1>9. CASE UNCHANGED vars
  BY <1>9 DEF vars
<1> QED
  BY <1>1, <1>2, <1>3, <1>4, <1>5, <1>6, <1>7, <1>8, <1>9 DEF Next

\* While the bar says the selection is the first so many of a filter's rows,
\* it is, of the filter in force (select_matching).
THEOREM CapNoteIsTrueHolds == Spec => []CapNoteIsTrue
<1>1. Init => CapNoteIsTrue
  BY DEF Init, Nothing, CapNoteIsTrue
<1>2. CapNoteIsTrue /\ [Next]_vars => CapNoteIsTrue'
  <2> SUFFICES ASSUME CapNoteIsTrue, [Next]_vars PROVE CapNoteIsTrue'
    OBVIOUS
  <2>1. CASE select_matching
    BY <2>1, NotePutUp
  <2>2. CASE ~select_matching
    BY <2>2, OthersKeepNote DEF NoteKept, CapNoteIsTrue, load_matching
  <2> QED
    BY <2>1, <2>2
<1> QED
  BY <1>1, <1>2, PTL DEF Spec

-----------------------------------------------------------------------------
(* The rows                                                                *)

\* Revisions only grow, and the refresh, the poll it has out and the writes
\* follow one another.
RevisionsFollow ==
    /\ refresh.seen # None => refresh.seen.projection <= rev.projection
    /\ poll.got # None =>
         /\ poll.got.projection <= rev.projection
         /\ refresh.seen # None => refresh.seen.projection <= poll.got.projection
    /\ refresh.moved => refresh.seen # None

\* A page that says it is signed out was refused.
SignedOutIsRefused == SignedOut \/ refresh.refused => refusing

\* The read in flight is for the filter in force, as the rows are once it is
\* answered, and once the refresh has seen the rows move it is no older than
\* what it saw.
ReadsFollow ==
    ~refusing =>
      /\ cut => refresh.misses > 0
      /\ reading = None => rows.filter = filter
      /\ reading # None => reading.filter = filter
      /\ refresh.seen # None /\ refresh.moved =>
           /\ reading # None /\ reading.at # None => reading.at >= refresh.seen.projection
           /\ reading = None /\ rows.state = "loaded" => rows.at >= refresh.seen.projection

RowsInv == TypeOK /\ RevisionsFollow /\ SignedOutIsRefused /\ ReadsFollow

\* The page opens with its first read out.
LEMMA InitRowsInv == Init => RowsInv
  BY InitTypeOK DEF Init, NewRefresh, RowsInv, RevisionsFollow, SignedOutIsRefused, SignedOut,
     ReadsFollow

\* A page that is not signed out reads for the filter in force.
LEMMA ReadStarts ==
    ASSUME NEW f \in Filters, Read(f), ~SignedOut
    PROVE  reading' # None /\ reading'.filter = f /\ reading'.at = None
  BY PageAssumption DEF Read

\* What a reload does on a page that is not signed out.
LEMMA ReloadStarts ==
    ASSUME reload, ~SignedOut, filter \in Filters
    PROVE  reading' # None /\ reading'.filter = filter /\ reading'.at = None /\ ~cut'
  BY ReadStarts DEF reload

\* A tick counts and asks: it leaves what the refresh has seen.
LEMMA TickKeeps ==
    ASSUME TypeOK, Tick
    PROVE  /\ refresh'.seen = refresh.seen
           /\ refresh'.moved = refresh.moved
           /\ refresh'.misses = refresh.misses
           /\ refresh'.refused = refresh.refused
  BY DEF TypeOK, Refreshes, Tick, Ticked

\* What the answer of a poll leaves of the refresh.
LEMMA AnswerSets ==
    ASSUME TypeOK, PollAnswered
    PROVE  /\ refresh'.seen = poll.got
           /\ refresh'.moved <=> refresh.moved \/ Restored \/ Moved("projection")
           /\ refresh'.misses = 0
           /\ refresh'.refused = refresh.refused
  BY DEF TypeOK, Refreshes, PollAnswered

\* What a poll without an answer leaves of it.
LEMMA MissSets ==
    ASSUME TypeOK, PollMissed
    PROVE  /\ refresh'.seen = refresh.seen
           /\ refresh'.moved = refresh.moved
           /\ refresh'.misses = refresh.misses + 1
           /\ refresh'.refused => refresh.refused \/ refusing
  BY DEF TypeOK, Refreshes, PollMissed

\* The actions that leave the read model, the refresh, the poll it has out and
\* the table alone.
Elsewhere ==
    \/ toggle_selected \/ toggle_visible \/ deselect
    \/ SelectMatching \/ select_matching \/ SelectFails
    \/ SyncPressed \/ SyncQueued \/ SyncFails
    \/ TabSwitched \/ CredentialsExpire \/ RefusedElsewhere
    \/ ServerGoes \/ ServerReturns

\* They do, and only a refusal signs the page out.
LEMMA ElsewhereKeeps ==
    ASSUME Elsewhere
    PROVE  /\ UNCHANGED <<rev, live, table>>
           /\ refusing => refusing'
           /\ SignedOut' => SignedOut \/ refusing
<1> USE DEF server, line, SignedOut
<1>1. CASE toggle_selected \/ toggle_visible \/ deselect
  BY <1>1 DEF toggle_selected, toggle_visible, deselect, EditSelection
<1>2. CASE SelectMatching \/ select_matching \/ SelectFails
  BY <1>2 DEF SelectMatching, select_matching, SelectFails, Refused, Unanswered
<1>3. CASE SyncPressed \/ SyncQueued \/ SyncFails
  BY <1>3 DEF SyncPressed, SyncQueued, SyncFails, Refused, Unanswered
<1>4. CASE TabSwitched \/ CredentialsExpire \/ RefusedElsewhere
  BY <1>4 DEF TabSwitched, CredentialsExpire, RefusedElsewhere, Refused
<1>5. CASE ServerGoes \/ ServerReturns
  BY <1>5 DEF ServerGoes, ServerReturns
<1> QED
  BY <1>1, <1>2, <1>3, <1>4, <1>5 DEF Elsewhere

\* The actions on the table that leave the read model and the refresh alone.
OnTable == ReadServed \/ ReadAnswered \/ ReadFails \/ RetryRead \/ load_next \/ ChangeFilter

\* What the table's own steps leave alone.
LEMMA OnTableKeeps ==
    ASSUME OnTable
    PROVE  /\ UNCHANGED <<rev, refusing, live>>
           /\ SignedOut' => SignedOut \/ refusing
<1> USE DEF server, line, SignedOut
<1>1. CASE ReadServed \/ ReadAnswered \/ ReadFails
  BY <1>1 DEF ReadServed, ReadAnswered, ReadFails, Refused, Unanswered
<1>2. CASE RetryRead \/ load_next \/ ChangeFilter
  BY <1>2 DEF RetryRead, load_next, ChangeFilter, update_filter
<1> QED
  BY <1>1, <1>2 DEF OnTable

\* Every step is one of the table, of the refresh, elsewhere, or a write.
LEMMA StepCases ==
    ASSUME [Next]_vars
    PROVE  \/ OnTable \/ Elsewhere \/ Writes \/ UNCHANGED vars
           \/ Tick \/ PollServed \/ PollAnswered \/ PollMissed
  BY DEF Next, OnTable, Elsewhere

\* Every action keeps the revisions in their order.
LEMMA StepRevisionsFollow == RowsInv /\ [Next]_vars => RevisionsFollow'
<1> SUFFICES ASSUME RowsInv, [Next]_vars
             PROVE  RevisionsFollow'
  OBVIOUS
<1> USE DEF RowsInv, RevisionsFollow
<1>0. TypeOK /\ TypeOK'
  BY StepTypeOK
<1>1. CASE OnTable \/ Elsewhere \/ UNCHANGED vars
  BY <1>1, OnTableKeeps, ElsewhereKeeps DEF live, vars, server
<1>2. CASE Writes
  BY <1>0, <1>2 DEF Writes, live, TypeOK, Revisions, Refreshes, Polls
<1>3. CASE Tick
  <2>1. rev' = rev /\ (poll'.got = poll.got \/ poll'.got = None)
    BY <1>0, <1>3 DEF Tick, server, TypeOK, Polls
  <2> QED
    BY <1>0, <1>3, <2>1, TickKeeps
<1>4. CASE PollServed
  <2>1. poll'.got = rev /\ UNCHANGED <<rev, refresh>>
    BY <1>0, <1>4 DEF PollServed, server, TypeOK, Polls
  <2> QED
    BY <1>0, <2>1 DEF TypeOK, Revisions
<1>5. CASE PollAnswered
  <2>1. poll.got # None /\ poll'.got = None /\ rev' = rev
    BY <1>5 DEF PollAnswered, server
  <2> QED
    BY <1>0, <1>5, <2>1, AnswerSets
<1>6. CASE PollMissed
  <2>1. poll'.got = None /\ rev' = rev
    BY <1>6 DEF PollMissed, server
  <2> QED
    BY <1>0, <1>6, <2>1, MissSets
<1> QED
  BY <1>1, <1>2, <1>3, <1>4, <1>5, <1>6, StepCases

\* Every action that signs the page out was refused, and a refusal stands.
LEMMA StepSignedOutIsRefused == RowsInv /\ [Next]_vars => SignedOutIsRefused'
<1> SUFFICES ASSUME RowsInv, [Next]_vars
             PROVE  SignedOutIsRefused'
  OBVIOUS
<1> USE DEF RowsInv, SignedOutIsRefused
<1>1. CASE OnTable \/ Elsewhere
  BY <1>1, OnTableKeeps, ElsewhereKeeps DEF live
<1>2. CASE Writes \/ PollServed \/ UNCHANGED vars
  BY <1>2 DEF Writes, PollServed, vars, server, line, live, SignedOut
<1>3. CASE Tick
  BY <1>3, TickKeeps DEF Tick, server, line, SignedOut
<1>4. CASE PollAnswered
  BY <1>4, AnswerSets DEF PollAnswered, server, SignedOut
<1>5. CASE PollMissed
  BY <1>5, MissSets DEF PollMissed, server, SignedOut, LineOf
<1> QED
  BY <1>1, <1>2, <1>3, <1>4, <1>5, StepCases

\* Every action of the table keeps its read and its rows following.
LEMMA TableReadsFollow == RowsInv /\ OnTable => ReadsFollow'
<1> SUFFICES ASSUME RowsInv, OnTable, ~refusing
             PROVE  ReadsFollow'
  BY OnTableKeeps DEF ReadsFollow
<1> USE PageAssumption DEF RowsInv, ReadsFollow
<1>1. UNCHANGED <<rev, refusing, refresh, poll>> /\ ~SignedOut
  BY OnTableKeeps DEF live, SignedOutIsRefused
<1>2. CASE ReadServed
  <2>1. reading \in Readings /\ rev.projection \in 0..MaxRev
    BY <1>2 DEF ReadServed, TypeOK, Revisions
  <2>2. reading'.filter = reading.filter /\ reading'.at = rev.projection
    BY <1>2, <2>1 DEF ReadServed, Readings
  <2>3. reading' # None
    BY <1>2, <2>1 DEF ReadServed, Readings
  <2> QED
    BY <1>1, <1>2, <2>1, <2>2, <2>3 DEF ReadServed, RevisionsFollow, TypeOK, Revisions, Refreshes
<1>3. CASE ReadAnswered
  BY <1>1, <1>3 DEF ReadAnswered
<1>4. CASE ReadFails
  BY <1>1, <1>4 DEF ReadFails
<1>5. CASE RetryRead
  BY <1>1, <1>5, ReloadStarts DEF RetryRead, TypeOK
<1>6. CASE load_next
  BY <1>1, <1>6, ReadStarts DEF load_next, TypeOK
<1>7. CASE ChangeFilter
  <2>1. PICK f \in Filters : update_filter(f)
    BY <1>7 DEF ChangeFilter
  <2> QED
    BY <1>1, <2>1, ReadStarts DEF update_filter
<1> QED
  BY <1>2, <1>3, <1>4, <1>5, <1>6, <1>7 DEF OnTable

\* The refresh keeps them following: a poll that finds the rows moved, or the
\* server back, has them read again.
LEMMA RefreshReadsFollow ==
    RowsInv /\ (Tick \/ PollServed \/ PollAnswered \/ PollMissed) => ReadsFollow'
<1>0. Tick \/ PollServed \/ PollAnswered \/ PollMissed => UNCHANGED refusing
  BY DEF Tick, PollServed, PollAnswered, PollMissed, server
<1> SUFFICES ASSUME RowsInv, Tick \/ PollServed \/ PollAnswered \/ PollMissed, ~refusing
             PROVE  ReadsFollow'
  BY <1>0 DEF ReadsFollow
<1> USE DEF RowsInv, ReadsFollow
<1>1. ~SignedOut /\ filter \in Filters
  BY DEF SignedOutIsRefused, TypeOK
<1>2. CASE Tick
  <2>1. CASE reload /\ UNCHANGED filter
    BY <1>1, <1>2, <2>1, ReloadStarts, TickKeeps
  <2>2. CASE UNCHANGED table
    BY <1>2, <2>2, TickKeeps DEF table
  <2> QED
    BY <1>2, <2>1, <2>2 DEF Tick
<1>3. CASE PollServed
  BY <1>3 DEF PollServed, table
<1>4. CASE PollAnswered
  <2>1. CASE Restored \/ Moved("projection")
    BY <1>1, <1>4, <2>1, ReloadStarts, AnswerSets DEF PollAnswered
  <2>2. CASE ~(Restored \/ Moved("projection"))
    <3>1. UNCHANGED <<rows, reading, cut, filter>> /\ refresh'.moved = refresh.moved
      BY <1>4, <2>2, AnswerSets DEF PollAnswered, TypeOK, Refreshes
    <3>2. refresh.moved => refresh'.seen.projection = refresh.seen.projection
      BY <1>4, <2>2, AnswerSets DEF Moved, RevisionsFollow
    <3>3. ~cut
      BY <2>2 DEF Restored
    <3> QED
      BY <3>1, <3>2, <3>3 DEF RevisionsFollow
  <2> QED
    BY <2>1, <2>2
<1>5. CASE PollMissed
  <2>1. UNCHANGED <<rows, reading, filter>>
    BY <1>5 DEF PollMissed
  <2>2. refresh'.misses > 0
    BY <1>5, MissSets DEF TypeOK, Refreshes
  <2> QED
    BY <1>5, <2>1, <2>2, MissSets
<1> QED
  BY <1>2, <1>3, <1>4, <1>5

\* So does every action.
LEMMA StepRowsInv == RowsInv /\ [Next]_vars => RowsInv'
<1> SUFFICES ASSUME RowsInv, [Next]_vars
             PROVE  ReadsFollow'
  BY StepTypeOK, StepRevisionsFollow, StepSignedOutIsRefused DEF RowsInv
<1>1. CASE OnTable
  BY <1>1, TableReadsFollow
<1>2. CASE Tick \/ PollServed \/ PollAnswered \/ PollMissed
  BY <1>2, RefreshReadsFollow
<1>3. CASE Elsewhere
  BY <1>3, ElsewhereKeeps DEF RowsInv, ReadsFollow, live, table
<1>4. CASE Writes \/ UNCHANGED vars
  BY <1>4 DEF Writes, RowsInv, ReadsFollow, live, table, vars, server
<1> QED
  BY <1>1, <1>2, <1>3, <1>4, StepCases

\* The invariant says what the rows on screen are.
LEMMA RowsInvCatchUp == RowsInv => RowsCatchUp
  BY DEF RowsInv, ReadsFollow, RowsCatchUp

\* With no read in flight the rows are for the filter in force and as new as
\* what the refresh has seen, and a read lost to an outage is owed a reload
\* (observe, miss and the live refresh's loop).
THEOREM RowsCatchUpHolds == Spec => []RowsCatchUp
  BY InitRowsInv, StepRowsInv, RowsInvCatchUp, PTL DEF Spec

=============================================================================
