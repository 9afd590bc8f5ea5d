-------------------------- MODULE BulkActionProofs --------------------------
(***************************************************************************)
(* For any batch, any number of concurrent calls and of cancellations: no  *)
(* two merges of one repository are in flight together and every           *)
(* repository gets its turn, every target that was attempted is counted    *)
(* once, and a batch that has ended is accounted for.                      *)
(***************************************************************************)
EXTENDS BulkAction, FiniteSetTheorems, SequenceTheorems, WellFoundedInduction, TLAPS

-----------------------------------------------------------------------------
(* Numbers                                                                 *)

\* A set of naturals has a least one.
LEMMA Least ==
    ASSUME NEW S \in SUBSET Nat, S # {}
    PROVE  Min(S) \in S /\ \A y \in S : Min(S) <= y
<1>1. PICK x \in S : \A y \in S : ~(<<y, x>> \in OpToRel(<, Nat))
  BY NatLessThanWellFounded, WFMin
<1>2. \A y \in S : x <= y
  <2> TAKE y \in S
  <2>1. x \in Nat /\ y \in Nat
    OBVIOUS
  <2>2. ~(y < x)
    BY <1>1, <2>1 DEF OpToRel
  <2> QED
    BY <2>1, <2>2
<1> QED
  BY <1>2 DEF Min

\* A count that ran past the end once starts over.
LEMMA WrapsOnce ==
    ASSUME NEW n \in Nat \ {0}, NEW x \in Nat, x < n + n
    PROVE  x % n = IF x < n THEN x ELSE x - n
<1>1. CASE x < n
  BY <1>1
<1>2. CASE x >= n
  <2>1. x = n * 1 + (x - n) /\ x - n \in 0..(n - 1)
    BY <1>2
  <2> QED
    BY <1>2, <2>1
<1> QED
  BY <1>1, <1>2

-----------------------------------------------------------------------------
(* The queues                                                              *)

\* A batch is a sequence, and its repositories are numbered from one.
LEMMA Batches ==
    ASSUME NEW batch \in Requests
    PROVE  /\ Len(batch) \in Nat
           /\ IsFiniteSet(Named(batch))
           /\ Cardinality(Named(batch)) \in Nat
           /\ Cardinality(Named(batch)) <= Len(batch)
<1>1. Len(batch) \in Nat
  BY BulkActionAssumption, LenProperties
<1>2. IsFiniteSet(1..Len(batch)) /\ Cardinality(1..Len(batch)) = Len(batch)
  <2>1. 1 \in Int /\ Len(batch) \in Int
    BY <1>1
  <2>2. /\ IsFiniteSet(1..Len(batch))
        /\ Cardinality(1..Len(batch)) = IF 1 > Len(batch) THEN 0 ELSE Len(batch) - 1 + 1
    BY <2>1, FS_Interval
  <2> QED
    BY <1>1, <2>2
<1>3. Named(batch) \in SUBSET (1..Len(batch))
  BY DEF Named
<1> QED
  BY <1>1, <1>2, <1>3, FS_Subset, FS_CardinalityType

\* A position waits in its repository's queue, and in no other.
LEMMA QueueNumbers ==
    ASSUME NEW batch \in Requests, NEW i \in 1..Len(batch), NEW j \in 1..Len(batch)
    PROVE  /\ QueueOf(batch, i) \in 1..Cardinality(Named(batch))
           /\ QueueOf(batch, i) = QueueOf(batch, j) <=> batch[i].repo = batch[j].repo
<1> DEFINE Upto(x) == {k \in Named(batch) : k <= x}
<1>0. /\ Len(batch) \in Nat
      /\ IsFiniteSet(Named(batch)) /\ Cardinality(Named(batch)) \in Nat
      /\ Named(batch) \subseteq Nat
  BY Batches DEF Named
<1>1. ASSUME NEW a \in 1..Len(batch)
      PROVE  \E f \in Named(batch) : /\ batch[f].repo = batch[a].repo
                                     /\ QueueOf(batch, a) = Cardinality(Upto(f))
  <2> DEFINE same == {k \in 1..Len(batch) : batch[k].repo = batch[a].repo}
             f == Min(same)
  <2>1. same \in SUBSET Nat /\ a \in same
    BY <1>0
  <2>2. f \in same /\ \A k \in same : f <= k
    <3> HIDE DEF same
    <3> QED
      BY <2>1, Least
  <2> HIDE DEF f
  <2>3. f \in Named(batch)
    BY <1>0, <2>2 DEF Named
  <2>4. \A k \in Named(batch) : batch[k].repo = batch[a].repo => k = f
    BY <1>0, <2>2, <2>3 DEF Named
  <2>5. {k \in Named(batch) : \A l \in Named(batch) : batch[l].repo = batch[a].repo => k <= l}
          = Upto(f)
    BY <2>2, <2>3, <2>4
  <2> QED
    BY <2>2, <2>3, <2>5 DEF QueueOf
<1>2. PICK f \in Named(batch) : /\ batch[f].repo = batch[i].repo
                                /\ QueueOf(batch, i) = Cardinality(Upto(f))
  BY <1>1
<1>3. PICK g \in Named(batch) : /\ batch[g].repo = batch[j].repo
                                /\ QueueOf(batch, j) = Cardinality(Upto(g))
  BY <1>1
<1>4. \A x : /\ IsFiniteSet(Upto(x))
             /\ Cardinality(Upto(x)) \in Nat
             /\ Cardinality(Upto(x)) <= Cardinality(Named(batch))
  <2> TAKE x
  <2>1. Upto(x) \in SUBSET Named(batch)
    OBVIOUS
  <2> HIDE DEF Upto
  <2> QED
    BY <1>0, <2>1, FS_Subset, FS_CardinalityType
<1>5. QueueOf(batch, i) \in 1..Cardinality(Named(batch))
  <2>1. f \in Upto(f)
    BY <1>0
  <2>2. Cardinality(Upto(f)) # 0
    <3> HIDE DEF Upto
    <3> QED
      BY <1>4, <2>1, FS_EmptySet
  <2> HIDE DEF Upto
  <2> QED
    BY <1>0, <1>2, <1>4, <2>2
<1>6. ASSUME NEW x \in Named(batch), NEW y \in Named(batch), x <= y,
             Cardinality(Upto(x)) = Cardinality(Upto(y))
      PROVE  x = y
  <2>1. Upto(x) \in SUBSET Upto(y)
    BY <1>0, <1>6
  <2>2. Upto(x) = Upto(y)
    <3> HIDE DEF Upto
    <3> QED
      BY <1>4, <1>6, <2>1, FS_Subset
  <2>3. y \in Upto(y)
    BY <1>0
  <2> QED
    BY <1>0, <1>6, <2>2, <2>3
<1>7. QueueOf(batch, i) = QueueOf(batch, j) => f = g
  <2>1. f <= g \/ g <= f
    BY <1>0
  <2> HIDE DEF Upto
  <2> QED
    BY <1>2, <1>3, <1>6, <2>1
<1>8. batch[i].repo = batch[j].repo => QueueOf(batch, i) = QueueOf(batch, j)
  BY DEF QueueOf
<1> HIDE DEF Upto
<1> QED
  BY <1>2, <1>3, <1>5, <1>7, <1>8

-----------------------------------------------------------------------------
(* The round                                                               *)

\* A function on 1..n has n entries.
LEMMA Entries ==
    ASSUME NEW n \in Nat, NEW S, NEW f \in [1..n -> S]
    PROVE  Len(f) = n /\ f \in Seq(S)
<1>1. f \in Seq(S)
  BY SeqDef
<1>2. Len(f) \in Nat /\ DOMAIN f = 1..Len(f) /\ DOMAIN f = 1..n
  BY <1>1, LenProperties
<1> QED
  BY <1>1, <1>2

\* How many queues lie between the one a round starts at and queue q.
Distance(q, start, n) ==
    IF q > start THEN q - 1 - start ELSE q - 1 - start + n

\* A queue is visited when the queues ahead of it have been.
LEMMA VisitedWhenAhead ==
    ASSUME NEW n \in Nat \ {0}, NEW queues, Len(queues) = n,
           NEW start \in 0..(n - 1)
    PROVE  /\ \A v \in 1..n : Visited(queues, start, v) \in 1..n
           /\ \A q \in 1..n : Distance(q, start, n) \in 0..(n - 1)
           /\ \A v \in 1..n, q \in 1..n :
                Visited(queues, start, v) = q <=> v = Distance(q, start, n) + 1
<1>1. \A v \in 1..n :
        Visited(queues, start, v) = IF start + v - 1 < n THEN start + v ELSE start + v - n
  <2> TAKE v \in 1..n
  <2>1. PICK x \in Nat : x = start + v - 1 /\ x < n + n
    OBVIOUS
  <2>2. x % n = IF x < n THEN x ELSE x - n
    BY <2>1, WrapsOnce
  <2>3. Visited(queues, start, v) = (x % n) + 1
    BY <2>1 DEF Visited
  <2> QED
    BY <2>1, <2>2, <2>3
<1>2. \A q \in 1..n : Distance(q, start, n) \in 0..(n - 1)
  BY DEF Distance
<1>3. \A v \in 1..n : Visited(queues, start, v) \in 1..n
  BY <1>1
<1>4. \A v \in 1..n, q \in 1..n :
        Visited(queues, start, v) = q <=> v = Distance(q, start, n) + 1
  <2> TAKE v \in 1..n, q \in 1..n
  <2>1. PICK visited \in Nat : /\ visited = Visited(queues, start, v)
                               /\ visited = IF start + v - 1 < n THEN start + v ELSE start + v - n
    BY <1>1
  <2>2. CASE q > start
    <3>1. Distance(q, start, n) = q - 1 - start
      BY <2>2 DEF Distance
    <3> QED
      BY <2>1, <2>2, <3>1
  <2>3. CASE ~(q > start)
    <3>1. Distance(q, start, n) = q - 1 - start + n
      BY <2>3 DEF Distance
    <3> QED
      BY <2>1, <2>3, <3>1
  <2> QED
    BY <2>2, <2>3
<1> QED
  BY <1>2, <1>3, <1>4

\* A round visits queues until it is full or has been to all of them, and meets
\* no more than it can hold.
LEMMA RoundsAreBounded ==
    ASSUME NEW n \in Nat, NEW queues, Len(queues) = n, NEW start
    PROVE  /\ Visits(queues, start) \in 0..n
           /\ IsFiniteSet(Waiting(queues, start, Visits(queues, start)))
           /\ Cardinality(Waiting(queues, start, Visits(queues, start))) <= MaxConcurrent
           /\ \/ Visits(queues, start) = n
              \/ Cardinality(Waiting(queues, start, Visits(queues, start))) >= MaxConcurrent
<1> DEFINE met(v) == Waiting(queues, start, v)
           enough == {v \in 0..n : v = n \/ Cardinality(met(v)) >= MaxConcurrent}
<1>0. MaxConcurrent \in Nat \ {0}
  BY BulkActionAssumption
<1>1. Visits(queues, start) = Min(enough)
  BY DEF Visits
<1>2. n \in enough /\ enough \in SUBSET Nat
  OBVIOUS
<1>3. Min(enough) \in enough /\ \A v \in enough : Min(enough) <= v
  <2> HIDE DEF enough
  <2> QED
    BY <1>2, Least
<1>4. PICK visits \in 0..n : visits = Visits(queues, start) /\ visits = Min(enough)
  BY <1>1, <1>3
<1>5. \A v \in Nat : IsFiniteSet(met(v)) /\ Cardinality(met(v)) \in Nat
  <2> TAKE v \in Nat
  <2>1. IsFiniteSet(1..v)
    BY FS_Interval
  <2>2. met(v) \in SUBSET (1..v)
    BY DEF Waiting
  <2> QED
    BY <2>1, <2>2, FS_Subset, FS_CardinalityType
<1>6. Cardinality(met(visits)) <= MaxConcurrent
  <2>1. CASE visits = 0
    <3>1. met(visits) = {}
      BY <2>1 DEF Waiting
    <3> HIDE DEF met
    <3> QED
      BY <1>0, <3>1, FS_EmptySet
  <2>2. CASE visits # 0
    <3>1. visits - 1 \in 0..n /\ ~(visits <= visits - 1) /\ visits - 1 \in Nat
      BY <2>2
    <3>2. visits - 1 \notin enough
      BY <1>3, <1>4, <3>1
    <3>3. ~(Cardinality(met(visits - 1)) >= MaxConcurrent)
      BY <3>1, <3>2
    <3>4. met(visits) \in SUBSET (met(visits - 1) \cup {visits})
      BY <2>2 DEF Waiting
    <3>5. /\ IsFiniteSet(met(visits - 1) \cup {visits})
          /\ Cardinality(met(visits - 1) \cup {visits}) \in Nat
          /\ Cardinality(met(visits - 1) \cup {visits}) <= Cardinality(met(visits - 1)) + 1
      <4>1. IsFiniteSet(met(visits - 1)) /\ Cardinality(met(visits - 1)) \in Nat
        BY <1>5, <3>1
      <4> HIDE DEF met
      <4>2. IsFiniteSet(met(visits - 1) \cup {visits})
        BY <4>1, FS_AddElement
      <4>3. \/ Cardinality(met(visits - 1) \cup {visits}) = Cardinality(met(visits - 1))
            \/ Cardinality(met(visits - 1) \cup {visits}) = Cardinality(met(visits - 1)) + 1
        BY <4>1, FS_AddElement
      <4> QED
        BY <4>1, <4>2, <4>3
    <3>6. Cardinality(met(visits)) <= Cardinality(met(visits - 1) \cup {visits})
      <4> HIDE DEF met
      <4> QED
        BY <3>4, <3>5, FS_Subset
    <3>7. Cardinality(met(visits)) \in Nat /\ Cardinality(met(visits - 1)) \in Nat
      BY <1>5, <3>1
    <3> HIDE DEF met
    <3> QED
      BY <1>0, <3>3, <3>5, <3>6, <3>7
  <2> QED
    BY <2>1, <2>2
<1>7. visits = n \/ Cardinality(met(visits)) >= MaxConcurrent
  BY <1>3, <1>4
<1> QED
  BY <1>4, <1>5, <1>6, <1>7

\* The batch's repositories, each with a queue of its own.
Repositories == Cardinality(Named(targets))

\* The target is still in its queue.
Waits(i) == i \in plan.queues[QueueOf(targets, i)]

\* A queue holds positions of its own repository, and the next round starts at one.
PlanInv ==
    /\ plan.queues \in [1..Repositories -> SUBSET Positions]
    /\ \A q \in 1..Repositories : \A i \in plan.queues[q] : QueueOf(targets, i) = q
    /\ plan.start = 0 \/ plan.start < Repositories
    /\ plan.start \in Nat

Ahead(q) == Distance(q, plan.start, Repositories)

\* A valid batch is of at least one repository.
LEMMA ValidBatches ==
    ASSUME targets \in Requests, validate
    PROVE  /\ Len(targets) \in Nat \ {0}
           /\ Positions = 1..Len(targets)
           /\ Repositories \in Nat \ {0}
           /\ Repositories <= Len(targets)
           /\ \A i \in Positions : QueueOf(targets, i) \in 1..Repositories
           /\ \A i, j \in Positions :
                QueueOf(targets, i) = QueueOf(targets, j) <=> targets[i].repo = targets[j].repo
           /\ \A i \in Positions : Find(i) = i
<1>1. Len(targets) \in Nat \ {0}
  BY Batches DEF validate
<1>2. Positions = 1..Len(targets)
  BY DEF Positions
<1>3. /\ \A i \in Positions : QueueOf(targets, i) \in 1..Repositories
      /\ \A i, j \in Positions :
           QueueOf(targets, i) = QueueOf(targets, j) <=> targets[i].repo = targets[j].repo
  BY <1>2, QueueNumbers DEF Repositories
<1>4. Repositories \in Nat /\ Repositories <= Len(targets)
  BY Batches DEF Repositories
<1>5. Repositories # 0
  <2>1. 1 \in Positions
    BY <1>1, <1>2
  <2> QED
    BY <1>3, <1>4, <2>1
<1>6. \A i \in Positions : Find(i) = i
  <2> TAKE i \in Positions
  <2>1. /\ targets[i] = targets[i]
        /\ \A k \in 1..(i - 1) : targets[k] # targets[i]
    BY <1>1, <1>2 DEF validate
  <2>2. \A j \in Positions : targets[j] = targets[i] => j = i
    BY DEF validate
  <2> QED
    BY <2>1, <2>2 DEF Find
<1> QED
  BY <1>1, <1>2, <1>3, <1>4, <1>5, <1>6

\* A merge round takes the next target of each queue it visits, and leaves the
\* queues it has not visited ahead of those it has.
LEMMA MergeRounds ==
    ASSUME targets \in Requests, validate, PlanInv
    PROVE  /\ MergeRound.round \subseteq Positions
           /\ Cardinality(MergeRound.round) <= MaxConcurrent
           /\ MergeRound.round = {} => \A i \in Positions : ~Waits(i)
           /\ \A i \in MergeRound.round :
                Waits(i) /\ \A j \in plan.queues[QueueOf(targets, i)] : i <= j
           /\ MergeRound.plan.queues =
                [q \in 1..Repositories |-> plan.queues[q] \ MergeRound.round]
           /\ MergeRound.plan.start \in 0..(Repositories - 1)
           /\ \E visits \in 0..Repositories :
                /\ \A i \in MergeRound.round : Ahead(QueueOf(targets, i)) < visits
                /\ \A i \in Positions :
                     Waits(i) /\ Ahead(QueueOf(targets, i)) < visits =>
                       \E sent \in MergeRound.round :
                         QueueOf(targets, sent) = QueueOf(targets, i)
                /\ \A q \in 1..Repositories :
                     Distance(q, MergeRound.plan.start, Repositories) =
                       IF Ahead(q) < visits THEN Ahead(q) + Repositories - visits
                       ELSE Ahead(q) - visits
<1> DEFINE queues == plan.queues
           n == Repositories
           visits == Visits(queues, plan.start)
           met == Waiting(queues, plan.start, visits)
           pops(v) == Min(queues[Visited(queues, plan.start, v)])
           round == MergeRound.round
           after == MergeRound.plan
<1>0. /\ n \in Nat \ {0} /\ Positions = 1..Len(targets) /\ Len(targets) \in Nat
      /\ MaxConcurrent \in Nat \ {0}
      /\ \A i \in Positions : QueueOf(targets, i) \in 1..n
  BY ValidBatches, BulkActionAssumption
<1>1. /\ queues \in [1..n -> SUBSET Positions]
      /\ \A q \in 1..n : \A i \in queues[q] : QueueOf(targets, i) = q
      /\ plan.start \in 0..(n - 1)
      /\ Len(queues) = n
  BY <1>0, Entries DEF PlanInv
<1>2. /\ visits \in 0..n
      /\ IsFiniteSet(met)
      /\ Cardinality(met) <= MaxConcurrent
      /\ visits = n \/ Cardinality(met) >= MaxConcurrent
  <2> HIDE DEF n, queues
  <2> QED
    BY <1>0, <1>1, RoundsAreBounded
<1>3. round = {pops(v) : v \in met}
  BY DEF MergeRound
<1>4. /\ after.queues = [q \in DOMAIN queues |-> queues[q] \ round]
      /\ after.start = (plan.start + visits) % Len(queues)
  BY DEF MergeRound, NextStart
<1>5. /\ \A v \in 1..n : Visited(queues, plan.start, v) \in 1..n
      /\ \A q \in 1..n : Ahead(q) \in 0..(n - 1)
      /\ \A v \in 1..n, q \in 1..n :
           Visited(queues, plan.start, v) = q <=> v = Ahead(q) + 1
  <2>1. /\ \A v \in 1..n : Visited(queues, plan.start, v) \in 1..n
        /\ \A q \in 1..n : Distance(q, plan.start, n) \in 0..(n - 1)
        /\ \A v \in 1..n, q \in 1..n :
             Visited(queues, plan.start, v) = q <=> v = Distance(q, plan.start, n) + 1
    <3> HIDE DEF n, queues, visits, met, round, after
    <3>1. PICK size \in Nat \ {0} : size = n
      BY <1>0
    <3>2. PICK start \in 0..(size - 1) : start = plan.start
      BY <1>1, <3>1
    <3>3. Len(queues) = size
      BY <1>1, <3>1
    <3>4. /\ \A v \in 1..size : Visited(queues, start, v) \in 1..size
          /\ \A q \in 1..size : Distance(q, start, size) \in 0..(size - 1)
          /\ \A v \in 1..size, q \in 1..size :
               Visited(queues, start, v) = q <=> v = Distance(q, start, size) + 1
      BY <3>3, VisitedWhenAhead
    <3> QED
      BY <3>1, <3>2, <3>4
  <2> QED
    BY <2>1 DEF Ahead
<1>6. \A q \in 1..n : queues[q] # {} =>
        Min(queues[q]) \in queues[q] /\ \A j \in queues[q] : Min(queues[q]) <= j
  <2> TAKE q \in 1..n
  <2>1. queues[q] \in SUBSET Nat
    BY <1>0, <1>1
  <2> HIDE DEF queues
  <2> QED
    BY <2>1, Least
<1>7. \A v : v \in met <=> /\ v \in 1..visits
                           /\ queues[Visited(queues, plan.start, v)] # {}
  BY DEF Waiting
<1>8. \A q \in 1..n : queues[q] # {} /\ Ahead(q) < visits => Min(queues[q]) \in round
  <2> SUFFICES ASSUME NEW q \in 1..n, queues[q] # {}, Ahead(q) < visits
               PROVE  Min(queues[q]) \in round
    OBVIOUS
  <2>0. PICK ahead \in 0..(n - 1) : ahead = Ahead(q)
    BY <1>5
  <2>1. Ahead(q) + 1 \in 1..visits /\ Ahead(q) + 1 \in 1..n
    <3> HIDE DEF n, visits
    <3> QED
      BY <1>0, <1>2, <2>0
  <2>2. Visited(queues, plan.start, Ahead(q) + 1) = q
    BY <1>5, <2>1
  <2> HIDE DEF met
  <2> QED
    BY <1>3, <1>7, <2>1, <2>2
<1>9. \A i \in round : /\ i \in Positions
                       /\ i \in queues[QueueOf(targets, i)]
                       /\ \A j \in queues[QueueOf(targets, i)] : i <= j
                       /\ Ahead(QueueOf(targets, i)) < visits
  <2> TAKE i \in round
  <2>1. PICK v \in met : i = pops(v)
    BY <1>3
  <2>2. v \in 1..visits /\ v \in 1..n
    BY <1>0, <1>2, <1>7
  <2>3. PICK q \in 1..n : q = Visited(queues, plan.start, v)
    BY <1>5, <2>2
  <2>4. queues[q] # {} /\ v = Ahead(q) + 1
    BY <1>5, <1>7, <2>2, <2>3
  <2>5. i = Min(queues[q])
    BY <2>1, <2>3
  <2>6. i \in queues[q] /\ \A j \in queues[q] : i <= j
    BY <1>6, <2>4, <2>5
  <2>7. QueueOf(targets, i) = q /\ i \in Positions
    BY <1>1, <2>6
  <2>8. Ahead(q) < visits
    BY <1>2, <1>5, <2>2, <2>4
  <2> QED
    BY <2>6, <2>7, <2>8
<1>10. Cardinality(round) <= MaxConcurrent
  <2> DEFINE f == [v \in met |-> pops(v)]
  <2>1. f \in Surjection(met, round)
    BY <1>3 DEF Surjection
  <2>2. IsFiniteSet(round) /\ Cardinality(round) <= Cardinality(met)
    <3> HIDE DEF f, met, round
    <3> QED
      BY <1>2, <2>1, FS_Surjection
  <2>3. Cardinality(round) \in Nat /\ Cardinality(met) \in Nat
    BY <1>2, <2>2, FS_CardinalityType
  <2> QED
    BY <1>0, <1>2, <2>2, <2>3
<1>11. round = {} => \A i \in Positions : ~Waits(i)
  <2> SUFFICES ASSUME round = {}, NEW i \in Positions, Waits(i)
               PROVE  FALSE
    OBVIOUS
  <2>1. met = {}
    BY <1>3
  <2>2. visits = n
    <3> HIDE DEF met, visits, n
    <3> QED
      BY <1>0, <1>2, <2>1, FS_EmptySet
  <2>3. QueueOf(targets, i) \in 1..n /\ queues[QueueOf(targets, i)] # {}
    BY <1>0 DEF Waits
  <2>4. Ahead(QueueOf(targets, i)) < visits
    <3>1. Ahead(QueueOf(targets, i)) \in 0..(n - 1)
      BY <1>5, <2>3
    <3> HIDE DEF n, visits
    <3> QED
      BY <1>0, <2>2, <3>1
  <2> QED
    BY <1>8, <2>3, <2>4
<1>12. after.start \in 0..(n - 1)
       /\ after.start = IF plan.start + visits < n THEN plan.start + visits
                        ELSE plan.start + visits - n
  <2>1. PICK x \in Nat : x = plan.start + visits
    BY <1>0, <1>1, <1>2
  <2>2. CASE x < n + n
    <3>1. x % n = IF x < n THEN x ELSE x - n
      <4> HIDE DEF n
      <4> QED
        BY <1>0, <2>1, <2>2, WrapsOnce
    <3>2. after.start = x % n
      BY <1>1, <1>4, <2>1
    <3> HIDE DEF n, visits, after
    <3> QED
      BY <1>0, <1>1, <1>2, <2>1, <2>2, <3>1, <3>2
  <2>3. x < n + n
    <3> HIDE DEF n, visits
    <3> QED
      BY <1>0, <1>1, <1>2, <2>1
  <2> QED
    BY <2>2, <2>3
<1>13. \A i \in Positions : Waits(i) /\ Ahead(QueueOf(targets, i)) < visits =>
         \E sent \in round : QueueOf(targets, sent) = QueueOf(targets, i)
  <2> SUFFICES ASSUME NEW i \in Positions, Waits(i), Ahead(QueueOf(targets, i)) < visits
               PROVE  \E sent \in round : QueueOf(targets, sent) = QueueOf(targets, i)
    OBVIOUS
  <2>1. PICK q \in 1..n : q = QueueOf(targets, i)
    BY <1>0
  <2>2. queues[q] # {} /\ Ahead(q) < visits
    BY <2>1 DEF Waits
  <2>3. Min(queues[q]) \in round /\ Min(queues[q]) \in queues[q]
    BY <1>6, <1>8, <2>2
  <2>4. QueueOf(targets, Min(queues[q])) = q
    BY <1>1, <2>3
  <2> QED
    BY <2>1, <2>3, <2>4
<1>14. \A q \in 1..n :
         Distance(q, after.start, n) =
           IF Ahead(q) < visits THEN Ahead(q) + n - visits ELSE Ahead(q) - visits
  <2> TAKE q \in 1..n
  <2>1. PICK start \in 0..(n - 1) : start = plan.start
    BY <1>1
  <2>2. Ahead(q) = IF q > start THEN q - 1 - start ELSE q - 1 - start + n
    BY <2>1 DEF Ahead, Distance
  <2>3. PICK next \in 0..(n - 1) : next = after.start
    BY <1>12
  <2>4. Distance(q, after.start, n) = IF q > next THEN q - 1 - next ELSE q - 1 - next + n
    BY <2>3 DEF Distance
  <2>5. next = IF start + visits < n THEN start + visits ELSE start + visits - n
    BY <1>12, <2>1, <2>3
  <2> HIDE DEF n, visits, after
  <2> QED
    BY <1>0, <1>2, <2>2, <2>4, <2>5
<1>15. after.queues = [q \in 1..n |-> queues[q] \ round]
  BY <1>1, <1>4
<1> HIDE DEF n, visits, after, round, queues
<1> QED
  BY <1>2, <1>9, <1>10, <1>11, <1>12, <1>13, <1>14, <1>15 DEF n, round, after, queues, Waits

\* The target has not been sent: it is in its queue, or past the rounds so far.
Unsent(i) ==
    \/ kind = "merge" /\ Waits(i)
    \/ kind = "update" /\ i > Len(rounds) * MaxConcurrent
    \/ kind = "rebase" /\ i > Len(rounds)

\* ... and would not have been after one more round.
UnsentAfter(i) ==
    \/ kind = "merge" /\ i \in NextRound.plan.queues[QueueOf(targets, i)]
    \/ kind = "update" /\ i > (Len(rounds) + 1) * MaxConcurrent
    \/ kind = "rebase" /\ i > Len(rounds) + 1

Kinds == {"merge", "update", "rebase"}

\* Every target is sent in some round: none is left out, and none is left over.
LEMMA NextRounds ==
    ASSUME targets \in Requests, validate, PlanInv, kind \in Kinds,
           rounds \in Seq(SUBSET Positions)
    PROVE  /\ NextRound.round \subseteq Positions
           /\ NextRound.round = {} => \A i \in Positions : ~Unsent(i)
           /\ \A i \in Positions : Unsent(i) => i \in NextRound.round \/ UnsentAfter(i)
           /\ NextRound.plan.queues \in [1..Repositories -> SUBSET Positions]
           /\ \A q \in 1..Repositories : \A i \in NextRound.plan.queues[q] :
                QueueOf(targets, i) = q
           /\ NextRound.plan.start \in 0..(Repositories - 1)
<1>0. /\ Len(targets) \in Nat \ {0} /\ Positions = 1..Len(targets)
      /\ MaxConcurrent \in Nat \ {0}
      /\ Len(rounds) \in Nat
      /\ Repositories \in Nat \ {0}
      /\ \A i \in Positions : QueueOf(targets, i) \in 1..Repositories
  BY ValidBatches, BulkActionAssumption, LenProperties
<1>1. CASE kind = "merge"
  <2>1. NextRound = MergeRound
    BY <1>1 DEF NextRound
  <2>2. MergeRound.plan.queues =
          [q \in 1..Repositories |-> plan.queues[q] \ MergeRound.round]
    BY MergeRounds
  <2>3. MergeRound.plan.queues \in [1..Repositories -> SUBSET Positions]
    BY <2>2 DEF PlanInv
  <2>4. \A q \in 1..Repositories : \A i \in MergeRound.plan.queues[q] : QueueOf(targets, i) = q
    BY <2>2 DEF PlanInv
  <2>5. \A i \in Positions : Unsent(i) => i \in MergeRound.round \/ UnsentAfter(i)
    BY <1>0, <1>1, <2>1, <2>2 DEF Unsent, UnsentAfter, Waits
  <2>6. /\ MergeRound.round \subseteq Positions
        /\ MergeRound.round = {} => \A i \in Positions : ~Waits(i)
        /\ MergeRound.plan.start \in 0..(Repositories - 1)
    BY MergeRounds
  <2>7. MergeRound.round = {} => \A i \in Positions : ~Unsent(i)
    BY <1>1, <2>6 DEF Unsent
  <2> QED
    BY <2>1, <2>3, <2>4, <2>5, <2>6, <2>7
<1>2. CASE kind # "merge"
  <2>1. /\ NextRound.plan = plan
        /\ NextRound.round = IF kind = "update" THEN Chunk(Len(rounds) + 1)
                             ELSE {Len(rounds) + 1} \cap Positions
    BY <1>2 DEF NextRound
  <2>2. /\ NextRound.plan.queues \in [1..Repositories -> SUBSET Positions]
        /\ \A q \in 1..Repositories : \A i \in NextRound.plan.queues[q] : QueueOf(targets, i) = q
        /\ NextRound.plan.start \in 0..(Repositories - 1)
    BY <1>0, <2>1 DEF PlanInv
  <2>3. CASE kind = "update"
    <3>1. PICK sent \in Nat : sent = Len(rounds) * MaxConcurrent
      BY <1>0
    <3>2. /\ (Len(rounds) + 1 - 1) * MaxConcurrent = sent
          /\ (Len(rounds) + 1) * MaxConcurrent = sent + MaxConcurrent
      BY <1>0, <3>1
    <3>3. NextRound.round = {i \in Positions : sent < i /\ i <= sent + MaxConcurrent}
      BY <2>1, <2>3, <3>2 DEF Chunk
    <3>4. \A i \in Positions : /\ Unsent(i) <=> i > sent
                               /\ UnsentAfter(i) <=> i > sent + MaxConcurrent
      BY <2>3, <3>1, <3>2 DEF Unsent, UnsentAfter
    <3>5. \A i \in Positions : Unsent(i) => i \in NextRound.round \/ UnsentAfter(i)
      BY <1>0, <3>1, <3>3, <3>4
    <3>6. ASSUME NEW i \in Positions, Unsent(i) PROVE NextRound.round # {}
      <4>1. i > sent /\ sent + 1 \in Positions
        BY <1>0, <3>1, <3>4, <3>6
      <4>2. sent + 1 \in NextRound.round
        BY <1>0, <3>1, <3>3, <4>1
      <4> QED
        BY <4>2
    <3> QED
      BY <2>2, <3>3, <3>5, <3>6
  <2>4. CASE kind = "rebase"
    <3>1. NextRound.round = {Len(rounds) + 1} \cap Positions
      BY <2>1, <2>4
    <3>2. \A i \in Positions : /\ Unsent(i) <=> i > Len(rounds)
                               /\ UnsentAfter(i) <=> i > Len(rounds) + 1
      BY <2>4 DEF Unsent, UnsentAfter
    <3> QED
      BY <1>0, <2>2, <3>1, <3>2
  <2> QED
    BY <1>2, <2>3, <2>4 DEF Kinds
<1> QED
  BY <1>1, <1>2

States == {"queued", "running"} \cup Outcomes

\* The workflow is about to start a round: no call is in flight, and a target not
\* yet sent is one some round will send.
Between(states) ==
    /\ states \in [Positions -> States]
    /\ \A i \in Positions : states[i] # "running"
    /\ \A i \in Positions : states[i] = "queued" => Unsent(i)

RoundTypes ==
    /\ targets \in Requests
    /\ validate
    /\ kind \in Kinds
    /\ PlanInv
    /\ rounds \in Seq(SUBSET Positions)

\* A round starts the calls of its targets, and settles none.
LEMMA StartedStates ==
    ASSUME targets \in Requests, validate, NEW states \in [Positions -> States],
           NEW round \in SUBSET Positions
    PROVE  /\ Started(states, round) \in [Positions -> States]
           /\ \A i \in Positions : Started(states, round)[i] =
                IF i \in round /\ ~IsSettled(states[i]) THEN "running" ELSE states[i]
<1>1. {Find(j) : j \in round} = round
  BY ValidBatches
<1>2. Started(states, round) =
        [i \in Positions |->
           IF i \in round /\ ~IsSettled(states[i]) THEN "running" ELSE states[i]]
  BY <1>1 DEF Started
<1> QED
  BY <1>2 DEF States

\* The next round: what is published of each target, and what is left to send.
LEMMA RoundStarts ==
    ASSUME RoundTypes, UNCHANGED request, NEW states, Between(states), Proceed(states)
    PROVE  /\ step' \in {"finish_clock", "call"}
           /\ calls' \subseteq Positions
           /\ step' # "call" => calls' = {}
           /\ progress' \in [Positions -> States]
           /\ \A i \in Positions : progress'[i] = "queued" => Unsent(i)'
           /\ \A i \in Positions : progress'[i] = "running" => i \in calls'
           /\ step' = "finish_clock" => \A i \in Positions : IsSettled(progress'[i])
           /\ \A i \in Positions, outcome \in Outcomes :
                progress'[i] = outcome <=> states[i] = outcome
           /\ \A i \in Positions : progress'[i] = "queued" => states[i] = "queued"
           /\ RoundTypes'
<1>0. /\ NextRound.round \subseteq Positions
      /\ NextRound.round = {} => \A i \in Positions : ~Unsent(i)
      /\ \A i \in Positions : Unsent(i) => i \in NextRound.round \/ UnsentAfter(i)
      /\ NextRound.plan.queues \in [1..Repositories -> SUBSET Positions]
      /\ \A q \in 1..Repositories : \A i \in NextRound.plan.queues[q] :
           QueueOf(targets, i) = q
      /\ NextRound.plan.start \in 0..(Repositories - 1)
  BY NextRounds DEF RoundTypes
<1>1. /\ targets' = targets /\ kind' = kind /\ Positions' = Positions
      /\ Repositories' = Repositories
      /\ validate'
  BY DEF request, Positions, Repositories, RoundTypes, validate
<1>2. states \in [Positions -> States]
  BY DEF Between
<1>3. CASE NextRound.round = {}
  <2>1. /\ step' = "finish_clock" /\ progress' = states /\ calls' = {}
        /\ plan' = plan /\ rounds' = rounds
    BY <1>3 DEF Proceed
  <2>2. \A i \in Positions : states[i] # "queued" /\ states[i] # "running"
    BY <1>0, <1>3 DEF Between
  <2>3. \A i \in Positions : IsSettled(states[i])
    BY <1>2, <2>2 DEF States, IsSettled
  <2>4. RoundTypes'
    BY <1>1, <2>1 DEF RoundTypes, PlanInv
  <2> QED
    BY <1>2, <2>1, <2>2, <2>3, <2>4
<1>4. CASE NextRound.round # {}
  <2>1. /\ step' = "call" /\ progress' = Started(states, NextRound.round)
        /\ calls' = NextRound.round
        /\ plan' = NextRound.plan /\ rounds' = Append(rounds, NextRound.round)
    BY <1>4 DEF Proceed
  <2>2. /\ progress' \in [Positions -> States]
        /\ \A i \in Positions : progress'[i] =
             IF i \in calls' /\ ~IsSettled(states[i]) THEN "running" ELSE states[i]
    BY <1>0, <1>2, <2>1, StartedStates DEF RoundTypes
  <2>3. \A i \in Positions, outcome \in Outcomes :
          progress'[i] = outcome <=> states[i] = outcome
    BY <2>2 DEF IsSettled, Outcomes
  <2>4. \A i \in Positions : /\ progress'[i] = "running" => i \in calls'
                             /\ progress'[i] = "queued" => states[i] = "queued" /\ i \notin calls'
    BY <2>2 DEF IsSettled, Outcomes, Between
  <2>5. /\ rounds' \in Seq(SUBSET Positions)
        /\ Len(rounds) \in Nat /\ Len(rounds') = Len(rounds) + 1
    BY <1>0, <2>1 DEF RoundTypes
  <2>6. \A i \in Positions : UnsentAfter(i) => Unsent(i)'
    BY <1>1, <2>1, <2>5 DEF UnsentAfter, Unsent, Waits
  <2>7. \A i \in Positions : progress'[i] = "queued" => Unsent(i)'
    BY <1>0, <2>1, <2>4, <2>6 DEF Between
  <2>8. PlanInv'
    <3>1. Repositories \in Nat
      BY Batches DEF RoundTypes, Repositories
    <3>2. plan'.start \in Nat /\ plan'.start < Repositories
      BY <1>0, <2>1, <3>1
    <3> QED
      BY <1>0, <1>1, <2>1, <3>2 DEF PlanInv
  <2>9. RoundTypes'
    BY <1>1, <2>5, <2>8 DEF RoundTypes
  <2> QED
    BY <1>0, <2>1, <2>2, <2>3, <2>4, <2>7, <2>9
<1> QED
  BY <1>3, <1>4

\* A merge is sent when the ones before it in its repository have been, and between
\* rounds what has been sent has settled.
LEMMA RoundSerialises ==
    ASSUME RoundTypes, UNCHANGED request, NEW states, Between(states), Proceed(states)
    PROVE  MergesSerialised'
<1>0. /\ \A i \in Positions, outcome \in Outcomes :
           progress'[i] = outcome <=> states[i] = outcome
      /\ RoundTypes' /\ states \in [Positions -> States]
      /\ kind' = kind /\ targets' = targets /\ Positions' = Positions
  BY RoundStarts DEF request, Positions, Between
<1>1. SUFFICES ASSUME kind = "merge"
               PROVE  /\ Cardinality(calls') <= MaxConcurrent
                      /\ \A i \in calls', j \in Positions :
                           j < i /\ targets[j].repo = targets[i].repo => IsSettled(progress'[j])
  BY <1>0 DEF MergesSerialised, IsSettled
<1>2. NextRound = MergeRound
  BY <1>1 DEF NextRound
<1>3. CASE NextRound.round = {}
  <2>1. calls' = {}
    BY <1>3 DEF Proceed
  <2>2. Cardinality({}) = 0 /\ 0 <= MaxConcurrent
    BY FS_EmptySet, BulkActionAssumption
  <2> QED
    BY <2>1, <2>2
<1>4. CASE NextRound.round # {}
  <2>1. calls' = MergeRound.round
    BY <1>2, <1>4 DEF Proceed
  <2>2. /\ MergeRound.round \subseteq Positions
        /\ Cardinality(MergeRound.round) <= MaxConcurrent
        /\ \A i \in MergeRound.round :
             Waits(i) /\ \A j \in plan.queues[QueueOf(targets, i)] : i <= j
    BY MergeRounds DEF RoundTypes
  <2>3. ASSUME NEW i \in calls', NEW j \in Positions,
               j < i, targets[j].repo = targets[i].repo
        PROVE  IsSettled(progress'[j])
    <3>1. i \in Positions /\ Positions \subseteq Nat
      BY <2>1, <2>2 DEF Positions
    <3>2. QueueOf(targets, j) = QueueOf(targets, i)
      BY <2>3, <3>1, ValidBatches DEF RoundTypes
    <3>3. ~Waits(j)
      BY <2>1, <2>2, <2>3, <3>1, <3>2 DEF Waits
    <3>4. states[j] # "queued" /\ states[j] # "running"
      BY <1>1, <3>3 DEF Between, Unsent
    <3>5. states[j] \in Outcomes
      BY <1>0, <3>4 DEF States
    <3> QED
      BY <1>0, <3>5 DEF IsSettled
  <2> QED
    BY <2>1, <2>2, <2>3
<1> QED
  BY <1>3, <1>4

\* A repository that still waits has had its turn since any round so far, or is
\* nearer to its turn than those that were sent a target then.
TurnsInv ==
    kind = "merge" =>
      \A n \in 1..Len(rounds) : \A waiting \in Positions, x \in rounds[n] :
        progress[waiting] = "queued" =>
          \/ \E m \in n..Len(rounds) : \E sent \in rounds[m] :
               targets[sent].repo = targets[waiting].repo
          \/ Ahead(QueueOf(targets, waiting)) < Ahead(QueueOf(targets, x))

\* What the turns rest on survives whatever leaves the rounds and their plan alone,
\* and sends no target back to its queue.
LEMMA TurnsStay ==
    ASSUME TurnsInv, RepositoriesTakeTurns, UNCHANGED <<request, rounds, plan>>,
           \A i \in Positions : progress'[i] = "queued" => progress[i] = "queued"
    PROVE  TurnsInv' /\ RepositoriesTakeTurns'
<1>1. /\ targets' = targets /\ kind' = kind /\ Positions' = Positions
      /\ rounds' = rounds /\ plan' = plan /\ Repositories' = Repositories
      /\ \A q : Ahead(q)' = Ahead(q)
  BY DEF request, Positions, Repositories, Ahead
<1>2. TurnsInv'
  BY <1>1 DEF TurnsInv
<1>3. RepositoriesTakeTurns'
  BY <1>1 DEF RepositoriesTakeTurns
<1> QED
  BY <1>2, <1>3

\* A round takes the queues nearest their turn: the others move up.
LEMMA RoundTakesTurns ==
    ASSUME RoundTypes, UNCHANGED request, NEW states, Between(states), Proceed(states),
           TurnsInv, RepositoriesTakeTurns,
           \A i \in Positions : states[i] = "queued" => progress[i] = "queued"
    PROVE  TurnsInv' /\ RepositoriesTakeTurns'
<1>0. /\ \A i \in Positions : progress'[i] = "queued" => states[i] = "queued"
      /\ kind' = kind /\ targets' = targets /\ Positions' = Positions
      /\ Repositories' = Repositories
  BY RoundStarts DEF request, Positions, Repositories
<1>1. CASE NextRound.round = {}
  <2>1. plan' = plan /\ rounds' = rounds
    BY <1>1 DEF Proceed
  <2> QED
    BY <1>0, <2>1, TurnsStay
<1>2. CASE kind # "merge"
  BY <1>0, <1>2 DEF TurnsInv, RepositoriesTakeTurns
<1>3. CASE kind = "merge" /\ NextRound.round # {}
  <2> DEFINE round == MergeRound.round
             last == Len(rounds) + 1
             nearer(a, b) == Ahead(QueueOf(targets, a)) < Ahead(QueueOf(targets, b))
  <2>1. plan' = MergeRound.plan /\ rounds' = Append(rounds, round)
    BY <1>3 DEF NextRound, Proceed
  <2>2. /\ Len(rounds) \in Nat
        /\ Len(rounds') = last
        /\ \A n \in 1..Len(rounds) : rounds'[n] = rounds[n] /\ rounds[n] \subseteq Positions
        /\ rounds'[last] = round
    BY <2>1 DEF RoundTypes
  <2>3. round \subseteq Positions
    BY MergeRounds DEF RoundTypes
  <2>4. PICK visits \in 0..Repositories :
          /\ \A i \in round : Ahead(QueueOf(targets, i)) < visits
          /\ \A i \in Positions : Waits(i) /\ Ahead(QueueOf(targets, i)) < visits =>
               \E sent \in round : QueueOf(targets, sent) = QueueOf(targets, i)
          /\ \A q \in 1..Repositories :
               Distance(q, MergeRound.plan.start, Repositories) =
                 IF Ahead(q) < visits THEN Ahead(q) + Repositories - visits
                 ELSE Ahead(q) - visits
    BY MergeRounds DEF RoundTypes
  <2>5. /\ Repositories \in Nat \ {0}
        /\ \A i \in Positions : QueueOf(targets, i) \in 1..Repositories
        /\ \A i, j \in Positions :
             QueueOf(targets, i) = QueueOf(targets, j) <=> targets[i].repo = targets[j].repo
    BY ValidBatches DEF RoundTypes
  <2>6. \A q \in 1..Repositories : Ahead(q) \in 0..(Repositories - 1)
    BY <2>5 DEF Ahead, Distance, RoundTypes, PlanInv
  <2>7. \A q \in 1..Repositories :
          Ahead(q)' = IF Ahead(q) < visits THEN Ahead(q) + Repositories - visits
                      ELSE Ahead(q) - visits
    BY <1>0, <2>1, <2>4 DEF Ahead
  <2>8. ASSUME NEW i \in Positions, progress'[i] = "queued", Ahead(QueueOf(targets, i)) < visits
        PROVE  \E sent \in round : targets[sent].repo = targets[i].repo
    <3>1. Waits(i)
      BY <1>0, <1>3, <2>8 DEF Between, Unsent
    <3>2. PICK sent \in round : QueueOf(targets, sent) = QueueOf(targets, i)
      BY <2>4, <2>8, <3>1
    <3> QED
      BY <2>3, <2>5, <3>2
  <2>9. ASSUME NEW i \in Positions, NEW x \in Positions,
               ~(Ahead(QueueOf(targets, i)) < visits),
               nearer(i, x) \/ Ahead(QueueOf(targets, x)) < visits
        PROVE  Ahead(QueueOf(targets, i))' < Ahead(QueueOf(targets, x))'
    <3>1. PICK q \in 1..Repositories, p \in 1..Repositories :
            q = QueueOf(targets, i) /\ p = QueueOf(targets, x)
      BY <2>5
    <3>2. Ahead(q)' < Ahead(p)'
      BY <2>4, <2>5, <2>6, <2>7, <2>9, <3>1
    <3> QED
      BY <1>0, <3>1, <3>2
  <2>10. ASSUME NEW n \in 1..last, NEW waiting \in Positions, NEW x \in rounds'[n],
                progress'[waiting] = "queued"
         PROVE  \/ \E m \in n..last : \E sent \in rounds'[m] :
                     targets[sent].repo = targets[waiting].repo
                \/ Ahead(QueueOf(targets, waiting))' < Ahead(QueueOf(targets, x))'
    <3>1. CASE Ahead(QueueOf(targets, waiting)) < visits
      BY <2>2, <2>8, <2>10, <3>1
    <3>2. CASE ~(Ahead(QueueOf(targets, waiting)) < visits) /\ n = last
      <4>1. x \in round /\ x \in Positions
        BY <2>2, <2>3, <3>2
      <4> QED
        BY <2>4, <2>9, <3>2, <4>1
    <3>3. CASE ~(Ahead(QueueOf(targets, waiting)) < visits) /\ n # last
      <4>1. n \in 1..Len(rounds) /\ x \in rounds[n] /\ x \in Positions
        BY <2>2, <3>3
      <4>2. progress[waiting] = "queued"
        BY <1>0, <2>10
      <4>3. \/ \E m \in n..Len(rounds) : \E sent \in rounds[m] :
                 targets[sent].repo = targets[waiting].repo
            \/ nearer(waiting, x)
        BY <1>3, <4>1, <4>2 DEF TurnsInv
      <4>4. CASE nearer(waiting, x)
        BY <2>9, <3>3, <4>1, <4>4
      <4>5. CASE \E m \in n..Len(rounds) : \E sent \in rounds[m] :
                   targets[sent].repo = targets[waiting].repo
        BY <2>2, <4>1, <4>5
      <4> QED
        BY <4>3, <4>4, <4>5
    <3> QED
      BY <3>1, <3>2, <3>3
  <2>11. TurnsInv'
    <3> HIDE DEF last, nearer, round
    <3> QED
      BY <1>0, <2>2, <2>10 DEF TurnsInv
  <2>12. ASSUME NEW j \in 1..last, NEW waiting \in Positions, NEW i \in 1..(j - 1),
                progress'[waiting] = "queued",
                NEW x \in rounds'[i], NEW y \in rounds'[j], targets[x].repo = targets[y].repo
         PROVE  \E m \in i..j : \E sent \in rounds'[m] :
                  targets[sent].repo = targets[waiting].repo
    <3>0. progress[waiting] = "queued" /\ i \in 1..Len(rounds)
      BY <1>0, <2>2, <2>12
    <3>1. CASE j # last
      <4>1. j \in 1..Len(rounds) /\ x \in rounds[i] /\ y \in rounds[j]
        BY <2>2, <2>12, <3>0, <3>1
      <4>2. \E sent \in UNION {rounds[n] : n \in i..j} :
              targets[sent].repo = targets[waiting].repo
        BY <1>3, <2>12, <3>0, <4>1 DEF RepositoriesTakeTurns
      <4>3. PICK m \in i..j : \E sent \in rounds[m] : targets[sent].repo = targets[waiting].repo
        BY <4>2
      <4>4. rounds'[m] = rounds[m]
        BY <2>2, <4>1, <4>3
      <4> QED
        BY <4>3, <4>4
    <3>2. CASE j = last
      <4>1. x \in rounds[i] /\ x \in Positions /\ y \in round /\ y \in Positions
        BY <2>2, <2>3, <2>12, <3>0, <3>2
      <4>2. \/ \E m \in i..Len(rounds) : \E sent \in rounds[m] :
                 targets[sent].repo = targets[waiting].repo
            \/ nearer(waiting, x)
        BY <1>3, <3>0, <4>1 DEF TurnsInv
      <4>3. CASE \E m \in i..Len(rounds) : \E sent \in rounds[m] :
                   targets[sent].repo = targets[waiting].repo
        BY <2>2, <3>0, <3>2, <4>3
      <4>4. CASE nearer(waiting, x)
        <5>1. PICK q \in 1..Repositories, p \in 1..Repositories :
                q = QueueOf(targets, waiting) /\ p = QueueOf(targets, x) /\ p = QueueOf(targets, y)
          BY <2>5, <2>12, <4>1
        <5>2. Ahead(q) < visits
          BY <2>4, <2>6, <4>1, <4>4, <5>1
        <5>3. \E sent \in round : targets[sent].repo = targets[waiting].repo
          BY <2>8, <2>12, <5>1, <5>2
        <5> QED
          BY <2>2, <3>0, <3>2, <5>3
      <4> QED
        BY <4>2, <4>3, <4>4
    <3> QED
      BY <3>1, <3>2
  <2>13. RepositoriesTakeTurns'
    <3> HIDE DEF last, nearer, round
    <3>1. SUFFICES ASSUME NEW j \in 1..last, NEW waiting \in Positions, NEW i \in 1..(j - 1),
                          progress'[waiting] = "queued",
                          \E x \in rounds'[i], y \in rounds'[j] : targets[x].repo = targets[y].repo
                   PROVE  \E sent \in UNION {rounds'[n] : n \in i..j} :
                            targets[sent].repo = targets[waiting].repo
      BY <1>0, <2>2 DEF RepositoriesTakeTurns
    <3>2. \E m \in i..j : \E sent \in rounds'[m] : targets[sent].repo = targets[waiting].repo
      BY <2>12, <3>1
    <3> QED
      BY <3>2
  <2> QED
    BY <2>11, <2>13
<1> QED
  BY <1>1, <1>2, <1>3

-----------------------------------------------------------------------------
(* The verdicts                                                            *)

Tallies ==
    [succeeded : 0..Len(targets), rejected : 0..Len(targets), failed : 0..Len(targets),
     completed : BOOLEAN]

\* The targets that have this verdict.
With(states, outcome) == {i \in Positions : states[i] = outcome}

\* The count is what is published of the targets, and complete when they all are.
Counts(count, states) ==
    /\ \A outcome \in Outcomes : count[outcome] = Cardinality(With(states, outcome))
    /\ count.completed <=> settled(count) = Len(targets)

\* The verdicts are of positions of the batch.
LEMMA Verdicts ==
    ASSUME targets \in Requests, NEW states
    PROVE  \A outcome : /\ IsFiniteSet(With(states, outcome))
                        /\ Cardinality(With(states, outcome)) \in 0..Len(targets)
<1>1. Len(targets) \in Nat
  BY Batches
<1>2. IsFiniteSet(Positions) /\ Cardinality(Positions) = Len(targets)
  <2>1. 1 \in Int /\ Len(targets) \in Int
    BY <1>1
  <2>2. /\ IsFiniteSet(1..Len(targets))
        /\ Cardinality(1..Len(targets)) = IF 1 > Len(targets) THEN 0 ELSE Len(targets) - 1 + 1
    BY <2>1, FS_Interval
  <2> QED
    BY <1>1, <2>2 DEF Positions
<1> TAKE outcome
<1>3. With(states, outcome) \in SUBSET Positions
  BY DEF With
<1>4. /\ IsFiniteSet(With(states, outcome))
      /\ Cardinality(With(states, outcome)) <= Cardinality(Positions)
      /\ Cardinality(With(states, outcome)) \in Nat
  BY <1>2, <1>3, FS_Subset, FS_CardinalityType
<1> QED
  BY <1>1, <1>2, <1>4

\* When every target has its verdict the counts add up to the batch.
LEMMA VerdictsAddUp ==
    ASSUME targets \in Requests, NEW states, \A i \in Positions : IsSettled(states[i])
    PROVE  Cardinality(With(states, "succeeded")) + Cardinality(With(states, "rejected"))
             + Cardinality(With(states, "failed")) = Len(targets)
<1> DEFINE S == With(states, "succeeded")
           R == With(states, "rejected")
           F == With(states, "failed")
<1>1. /\ IsFiniteSet(S) /\ IsFiniteSet(R) /\ IsFiniteSet(F)
      /\ Cardinality(S) \in Nat /\ Cardinality(R) \in Nat /\ Cardinality(F) \in Nat
  <2>1. Len(targets) \in Nat
    BY Batches
  <2> QED
    BY <2>1, Verdicts
<1>2. S \cap R = {} /\ (S \cup R) \cap F = {}
  BY DEF With
<1>3. Positions = (S \cup R) \cup F
  BY DEF With, IsSettled, Outcomes
<1>4. Cardinality({}) = 0
  BY FS_EmptySet
<1> HIDE DEF S, R, F
<1>5. IsFiniteSet(S \cup R) /\ Cardinality(S \cup R) = Cardinality(S) + Cardinality(R)
  <2>1. /\ IsFiniteSet(S \cup R)
        /\ Cardinality(S \cup R) = Cardinality(S) + Cardinality(R) - Cardinality(S \cap R)
    BY <1>1, FS_Union
  <2>2. Cardinality(S \cap R) = 0
    BY <1>2, <1>4, Zenon
  <2> QED
    BY <1>1, <2>1, <2>2
<1>6. Cardinality(Positions) = Cardinality(S \cup R) + Cardinality(F)
  <2>1. Cardinality((S \cup R) \cup F) =
          Cardinality(S \cup R) + Cardinality(F) - Cardinality((S \cup R) \cap F)
    BY <1>1, <1>5, FS_Union
  <2>2. Cardinality((S \cup R) \cap F) = 0
    BY <1>2, <1>4, Zenon
  <2>3. Cardinality(Positions) = Cardinality((S \cup R) \cup F)
    BY <1>3, Zenon
  <2> QED
    BY <1>1, <1>5, <2>1, <2>2, <2>3
<1>7. Cardinality(Positions) = Len(targets)
  <2>1. Len(targets) \in Nat
    BY Batches
  <2>2. Cardinality(1..Len(targets)) = IF 1 > Len(targets) THEN 0 ELSE Len(targets) - 1 + 1
    <3>1. 1 \in Int /\ Len(targets) \in Int
      BY <2>1
    <3> QED
      BY <3>1, FS_Interval
  <2> QED
    BY <2>1, <2>2 DEF Positions
<1> QED
  BY <1>5, <1>6, <1>7 DEF S, R, F

\* A verdict goes to the target it is for, once, and is counted as it is published.
LEMMA SetStates ==
    ASSUME targets \in Requests, validate, progress \in [Positions -> States],
           tally \in Tallies, Counts(tally, progress),
           NEW i \in Positions, NEW outcome \in Outcomes
    PROVE  /\ set_state(i, outcome).states \in [Positions -> States]
           /\ IsSettled(set_state(i, outcome).states[i])
           /\ \A j \in Positions : j # i \/ IsSettled(progress[j]) =>
                set_state(i, outcome).states[j] = progress[j]
           /\ set_state(i, outcome).tally \in Tallies
           /\ Counts(set_state(i, outcome).tally, set_state(i, outcome).states)
<1>0. Find(i) = i /\ Len(targets) \in Nat
  BY ValidBatches
<1>1. CASE IsSettled(progress[i])
  <2>1. set_state(i, outcome) = [states |-> progress, tally |-> tally]
    BY <1>0, <1>1 DEF set_state
  <2> QED
    BY <1>1, <2>1
<1>2. CASE ~IsSettled(progress[i])
  <2> DEFINE states == [progress EXCEPT ![i] = outcome]
             counted == [tally EXCEPT ![outcome] = @ + 1]
             count == [counted EXCEPT !.completed = settled(counted) = Len(targets)]
  <2>1. set_state(i, outcome) = [states |-> states, tally |-> count]
    BY <1>0, <1>2 DEF set_state
  <2>2. /\ states \in [Positions -> States]
        /\ states[i] = outcome
        /\ \A j \in Positions : j # i => states[j] = progress[j]
    BY DEF States
  <2>3. IsSettled(states[i])
    BY <2>2 DEF IsSettled
  <2>4. \A j \in Positions : j # i \/ IsSettled(progress[j]) => states[j] = progress[j]
    BY <1>2, <2>2
  <2>5. \A other \in Outcomes :
          Cardinality(With(states, other)) =
            Cardinality(With(progress, other)) + (IF other = outcome THEN 1 ELSE 0)
    <3> TAKE other \in Outcomes
    <3>1. /\ IsFiniteSet(With(progress, other))
          /\ Cardinality(With(progress, other)) \in Nat
      BY <1>0, Verdicts
    <3>2. CASE other = outcome
      <4>1. With(states, other) = With(progress, other) \cup {i}
        BY <2>2, <3>2 DEF With
      <4>2. i \notin With(progress, other)
        BY <1>2 DEF With, IsSettled
      <4> HIDE DEF states
      <4> QED
        BY <3>1, <3>2, <4>1, <4>2, FS_AddElement
    <3>3. CASE other # outcome
      <4>1. With(states, other) = With(progress, other)
        BY <1>2, <2>2, <3>3 DEF With, IsSettled
      <4> HIDE DEF states
      <4> QED
        BY <3>1, <3>3, <4>1
    <3> QED
      BY <3>2, <3>3
  <2>6. \A other \in Outcomes :
          counted[other] = tally[other] + (IF other = outcome THEN 1 ELSE 0)
    BY DEF Tallies, Outcomes
  <2>7. \A other \in Outcomes : count[other] = counted[other]
    BY DEF Tallies, Outcomes
  <2>8. \A other \in Outcomes : count[other] = Cardinality(With(states, other))
    <3> HIDE DEF states, count, counted
    <3> QED
      BY <2>5, <2>6, <2>7 DEF Counts
  <2>9. settled(count) = settled(counted)
    BY <2>7 DEF settled, Outcomes
  <2>10. count.completed = (settled(counted) = Len(targets))
    <3>1. DOMAIN counted = DOMAIN tally /\ "completed" \in DOMAIN tally
      BY DEF Tallies
    <3> HIDE DEF counted
    <3> QED
      BY <3>1, Zenon
  <2>11. Counts(count, states)
    <3> HIDE DEF states, count, counted
    <3> QED
      BY <2>8, <2>9, <2>10 DEF Counts
  <2>12. count \in Tallies
    <3>1. \A other \in Outcomes : count[other] \in 0..Len(targets)
      <4> HIDE DEF states, count, counted
      <4> QED
        BY <2>8, Verdicts
    <3>2. count.completed \in BOOLEAN
      BY <2>10
    <3>3. count = [succeeded |-> count.succeeded, rejected |-> count.rejected,
                   failed |-> count.failed, completed |-> count.completed]
      <4>1. PICK complete \in BOOLEAN : complete = (settled(counted) = Len(targets))
        OBVIOUS
      <4>2. count = [counted EXCEPT !.completed = complete]
        BY <4>1
      <4> HIDE DEF count
      <4> QED
        BY <4>2 DEF Tallies
    <3> HIDE DEF count
    <3> QED
      BY <3>1, <3>2, <3>3 DEF Tallies, Outcomes
  <2> HIDE DEF states, count
  <2> QED
    BY <2>1, <2>2, <2>3, <2>4, <2>11, <2>12
<1> QED
  BY <1>1, <1>2

-----------------------------------------------------------------------------
(* The invariant                                                           *)

\* Where the workflow is and what it has published: every target not yet sent is
\* one some round will send, those that run have their calls in flight, and the
\* finish is only reached when all have settled.
ProgressInv ==
    /\ step = "run" =>
         progress = <<>> /\ rounds = <<>> /\ plan.queues = QueuesOf(targets)
    /\ step \notin {"run", "ended"} => validate /\ progress # <<>>
    /\ step # "call" => calls = {}
    /\ progress # <<>> => \A i \in Positions : progress[i] = "queued" => Unsent(i)
    /\ step \in {"start_batch", "call", "pause", "finish_clock", "record"} =>
         \A i \in Positions : progress[i] = "running" => i \in calls
    /\ step \in {"finish_clock", "record"} => \A i \in Positions : IsSettled(progress[i])

NoTally == [succeeded |-> 0, rejected |-> 0, failed |-> 0, completed |-> FALSE]

TallyInv ==
    /\ progress = <<>> => tally = NoTally
    /\ progress # <<>> => Counts(tally, progress)

BatchInv ==
    /\ targets \in Requests
    /\ kind \in Kinds
    /\ calls \subseteq Positions
    /\ PlanInv
    /\ rounds \in Seq(SUBSET Positions)
    /\ progress \in {<<>>} \cup [Positions -> States]
    /\ tally \in Tallies
    /\ ProgressInv
    /\ TallyInv
    /\ MergesSerialised
    /\ TurnsInv
    /\ RepositoriesTakeTurns

\* The two rows of a batch, and where the workflow is when it has them.
RecordInv ==
    /\ record # <<>> => step \in {"record", "ended"} /\ ~listed
    /\ step \in {"run", "start_batch"} => ~listed
    /\ step \in {"call", "pause", "finish_clock", "record"} =>
         listed \/ record # <<>> \/ "start_batch" \in lapsed
    /\ step = "unlist" => ~tally.completed
    /\ EndedIsAccountedFor

RowTypes ==
    /\ step \in {"run", "start_batch", "call", "pause", "finish_clock", "record",
                 "unlist", "ended"}
    /\ listed \in BOOLEAN
    /\ record \in {<<>>} \cup [Positions -> Outcomes]
    /\ cancels \in 0..MaxCancels
    /\ cancelled \in BOOLEAN
    /\ lapsed \subseteq {"start_batch", "unlist_batch"}

BulkInv ==
    /\ BatchInv
    /\ RowTypes
    /\ RecordInv

\* A batch that has published anything has published of every target.
LEMMA Published ==
    ASSUME BatchInv, validate
    PROVE  /\ RoundTypes
           /\ Positions # {}
           /\ progress # <<>> => progress \in [Positions -> States] /\ Counts(tally, progress)
           /\ \A states \in [Positions -> States] : states # <<>>
<1>1. Len(targets) \in Nat \ {0} /\ Positions = 1..Len(targets)
  BY ValidBatches DEF BatchInv
<1>2. 1 \in Positions
  BY <1>1
<1>3. \A states \in [Positions -> States] : states # <<>>
  <2>1. DOMAIN <<>> = {}
    OBVIOUS
  <2> QED
    BY <1>2, <2>1
<1> QED
  BY <1>2, <1>3 DEF BatchInv, RoundTypes, TallyInv

\* What the invariant says of the batch stays true of a workflow that goes on to
\* its next round: whether it has just listed the batch, paused, or counted a verdict.
LEMMA RoundKeeps ==
    ASSUME BatchInv, validate, UNCHANGED request,
           NEW states, Between(states), Proceed(states),
           \A i \in Positions : states[i] = "queued" => progress[i] = "queued",
           tally' \in Tallies, Counts(tally', states)
    PROVE  BatchInv' /\ step' \in {"finish_clock", "call"}
<1>1. RoundTypes
  BY Published
<1>2. /\ step' \in {"finish_clock", "call"}
      /\ calls' \subseteq Positions
      /\ step' # "call" => calls' = {}
      /\ progress' \in [Positions -> States]
      /\ \A i \in Positions : progress'[i] = "queued" => Unsent(i)'
      /\ \A i \in Positions : progress'[i] = "running" => i \in calls'
      /\ step' = "finish_clock" => \A i \in Positions : IsSettled(progress'[i])
      /\ \A i \in Positions, outcome \in Outcomes :
           progress'[i] = outcome <=> states[i] = outcome
      /\ RoundTypes'
  BY <1>1, RoundStarts
<1>3. targets' = targets /\ kind' = kind /\ Positions' = Positions
  BY DEF request, Positions
<1>4. progress' # <<>>
  BY <1>2, Published
<1>5. ProgressInv'
  BY <1>2, <1>3, <1>4 DEF ProgressInv, RoundTypes, IsSettled
<1>6. Counts(tally', progress')
  <2>1. \A outcome \in Outcomes : With(progress', outcome) = With(states, outcome)
    BY <1>2 DEF With
  <2> QED
    BY <2>1 DEF Counts
<1>7. TallyInv'
  <2>1. Counts(tally, progress)' = Counts(tally', progress')
    BY <1>3 DEF Counts, With
  <2> QED
    BY <1>4, <1>6, <2>1 DEF TallyInv
<1>8. MergesSerialised'
  BY <1>1, RoundSerialises
<1>9. TurnsInv' /\ RepositoriesTakeTurns'
  BY <1>1, RoundTakesTurns DEF BatchInv
<1>10. Tallies' = Tallies
  BY <1>3 DEF Tallies
<1> QED
  BY <1>2, <1>3, <1>5, <1>7, <1>8, <1>9, <1>10 DEF BatchInv, RoundTypes

\* ... and of one that has counted a verdict and goes on as it may.
LEMMA SettleKeeps ==
    ASSUME BatchInv, step = "call", UNCHANGED request,
           NEW i \in calls, NEW outcome \in Outcomes, Settle(i, outcome)
    PROVE  BatchInv' /\ step' \in {"call", "pause", "finish_clock"}
<1> DEFINE states == set_state(i, outcome).states
           count == set_state(i, outcome).tally
<1>0. /\ validate /\ progress # <<>>
      /\ i \in Positions
      /\ \A j \in Positions : progress[j] = "queued" => Unsent(j)
      /\ \A j \in Positions : progress[j] = "running" => j \in calls
  BY DEF BatchInv, ProgressInv
<1>1. progress \in [Positions -> States] /\ Counts(tally, progress)
  BY <1>0, Published
<1>2. /\ states \in [Positions -> States]
      /\ IsSettled(states[i])
      /\ \A j \in Positions : j # i \/ IsSettled(progress[j]) => states[j] = progress[j]
      /\ count \in Tallies
      /\ Counts(count, states)
  BY <1>0, <1>1, SetStates DEF BatchInv
<1>3. \A j \in Positions : /\ states[j] = "queued" => progress[j] = "queued"
                           /\ states[j] = "running" => progress[j] = "running" /\ j # i
                           /\ IsSettled(progress[j]) => IsSettled(states[j])
  BY <1>2 DEF IsSettled, Outcomes
<1>4. tally' = count
  BY DEF Settle
<1>5. CASE /\ step' \in {"call", "pause"}
           /\ progress' = states
           /\ calls' = calls \ {i}
           /\ UNCHANGED <<plan, rounds>>
           /\ step' # "call" => calls' = {}
  <2>1. /\ targets' = targets /\ kind' = kind /\ Positions' = Positions
        /\ Tallies' = Tallies /\ validate' = validate /\ Repositories' = Repositories
    BY DEF request, Positions, Tallies, validate, Repositories
  <2>2. PlanInv'
    BY <1>5, <2>1 DEF BatchInv, PlanInv
  <2>3. \A j \in Positions : Unsent(j)' = Unsent(j)
    BY <1>5, <2>1 DEF Unsent, Waits
  <2>4. progress' # <<>>
    BY <1>0, <1>2, <1>5, Published
  <2>5. ProgressInv'
    BY <1>0, <1>3, <1>5, <2>1, <2>3, <2>4 DEF ProgressInv
  <2>6. TallyInv'
    <3>1. Counts(tally, progress)' = Counts(count, states)
      <4> HIDE DEF count, states
      <4> QED
        BY <1>4, <1>5, <2>1 DEF Counts, With
    <3> QED
      BY <1>2, <2>4, <3>1 DEF TallyInv
  <2>7. TurnsInv' /\ RepositoriesTakeTurns'
    BY <1>3, <1>5, TurnsStay DEF BatchInv
  <2>8. MergesSerialised'
    <3>1. IsFiniteSet(Positions)
      BY FS_Interval, ValidBatches, <1>0 DEF BatchInv
    <3>2. calls \in SUBSET Positions /\ calls' \in SUBSET calls
      BY <1>5 DEF BatchInv
    <3>3. IsFiniteSet(calls) /\ IsFiniteSet(calls')
      BY <3>1, <3>2, FS_Subset
    <3>4. /\ Cardinality(calls') \in Nat /\ Cardinality(calls) \in Nat
          /\ Cardinality(calls') <= Cardinality(calls)
      BY <3>2, <3>3, FS_Subset, FS_CardinalityType
    <3>5. kind = "merge" => Cardinality(calls') <= MaxConcurrent
      BY <3>4, BulkActionAssumption DEF BatchInv, MergesSerialised
    <3>6. kind = "merge" => \A k \in calls', j \in Positions :
            j < k /\ targets[j].repo = targets[k].repo => IsSettled(progress'[j])
      BY <1>3, <1>5 DEF BatchInv, MergesSerialised
    <3> QED
      BY <2>1, <3>5, <3>6 DEF MergesSerialised, IsSettled
  <2>9. calls' \subseteq Positions /\ rounds' \in Seq(SUBSET Positions)
    BY <1>5 DEF BatchInv
  <2>10. progress' \in [Positions -> States] /\ tally' \in Tallies
    BY <1>2, <1>4, <1>5
  <2> QED
    BY <1>5, <2>1, <2>2, <2>5, <2>6, <2>7, <2>8, <2>9, <2>10 DEF BatchInv
<1>6. CASE calls = {i} /\ Proceed(states)
  <2>1. Between(states)
    BY <1>0, <1>2, <1>3, <1>6 DEF Between
  <2> HIDE DEF states, count
  <2> QED
    BY <1>0, <1>2, <1>3, <1>4, <1>6, <2>1, RoundKeeps
<1>7. \/ /\ step' \in {"call", "pause"}
         /\ progress' = states
         /\ calls' = calls \ {i}
         /\ UNCHANGED <<plan, rounds>>
         /\ step' # "call" => calls' = {}
      \/ calls = {i} /\ Proceed(states)
  BY DEF Settle
<1> QED
  BY <1>5, <1>6, <1>7

\* At the finish every target has its verdict, so the counts say complete.
LEMMA FinishIsComplete ==
    ASSUME BulkInv
    PROVE  AttemptedIsComplete
<1> SUFFICES ASSUME step \in {"finish_clock", "record"}
             PROVE  /\ tally.completed
                    /\ \A i \in Positions : IsSettled(progress[i])
                    /\ \A outcome \in Outcomes : tally[outcome] = Cardinality(With(progress, outcome))
  BY DEF AttemptedIsComplete, With
<1>1. /\ validate /\ progress # <<>>
      /\ \A i \in Positions : IsSettled(progress[i])
  BY DEF BulkInv, BatchInv, ProgressInv
<1>2. Counts(tally, progress)
  BY <1>1, Published DEF BulkInv
<1>3. settled(tally) = Len(targets)
  BY <1>1, <1>2, VerdictsAddUp DEF settled, Counts, Outcomes, BulkInv, BatchInv
<1> QED
  BY <1>1, <1>2, <1>3 DEF Counts

\* A step of the workflow that is not a round's: it moves on, or ends with its calls.
Moves ==
    /\ UNCHANGED <<request, plan, rounds, progress, tally>>
    /\ \/ step' = step /\ calls' = calls
       \/ step' = "unlist" /\ step \notin {"run", "ended"} /\ calls' = {}
       \/ step' = "ended" /\ calls' = {}
       \/ step' = "record" /\ step = "finish_clock" /\ calls' = calls

\* ... says nothing new of the batch.
LEMMA MovesKeep ==
    ASSUME BatchInv, Moves
    PROVE  BatchInv'
<1>1. /\ targets' = targets /\ kind' = kind /\ Positions' = Positions
      /\ Tallies' = Tallies /\ validate' = validate /\ Repositories' = Repositories
      /\ plan' = plan /\ rounds' = rounds /\ progress' = progress /\ tally' = tally
      /\ calls' \in {calls, {}}
  BY DEF Moves, request, Positions, Tallies, validate, Repositories
<1>2. PlanInv'
  BY <1>1 DEF BatchInv, PlanInv
<1>3. \A j \in Positions : Unsent(j)' = Unsent(j)
  BY <1>1 DEF Unsent, Waits
<1>4. ProgressInv'
  BY <1>1, <1>3 DEF Moves, BatchInv, ProgressInv
<1>5. TallyInv'
  BY <1>1 DEF BatchInv, TallyInv, Counts, With
<1>6. TurnsInv' /\ RepositoriesTakeTurns'
  BY <1>1, TurnsStay DEF Moves, BatchInv
<1>7. MergesSerialised'
  <2>1. Cardinality({}) = 0 /\ 0 <= MaxConcurrent
    BY FS_EmptySet, BulkActionAssumption
  <2>2. kind = "merge" => Cardinality(calls') <= MaxConcurrent
    BY <1>1, <2>1 DEF BatchInv, MergesSerialised
  <2>3. kind = "merge" => \A k \in calls', j \in Positions :
          j < k /\ targets[j].repo = targets[k].repo => IsSettled(progress[j])
    BY <1>1 DEF BatchInv, MergesSerialised
  <2> QED
    BY <1>1, <2>2, <2>3 DEF MergesSerialised
<1> QED
  BY <1>1, <1>2, <1>4, <1>5, <1>6, <1>7 DEF BatchInv

\* The steps that start no round.
LEMMA OtherSteps ==
    ASSUME BulkInv,
           \/ Refuse
           \/ CallCancelled /\ kind # "rebase"
           \/ FinishClock \/ RecordBatch \/ StepCancelled \/ UnlistBatch
           \/ Cancel \/ UNCHANGED vars
    PROVE  Moves
<1>1. step # "call" => calls = {}
  BY DEF BulkInv, BatchInv, ProgressInv
<1>2. CASE Refuse
  BY <1>1, <1>2 DEF Refuse, Moves
<1>3. CASE CallCancelled /\ kind # "rebase"
  BY <1>3 DEF CallCancelled, CancelledAt, Abort, Moves
<1>4. CASE FinishClock
  BY <1>1, <1>4 DEF FinishClock, At, Abort, Moves
<1>5. CASE RecordBatch
  BY <1>1, <1>5 DEF RecordBatch, At, Moves
<1>6. CASE StepCancelled
  BY <1>1, <1>6 DEF StepCancelled, CancelledAt, Abort, Moves
<1>7. CASE UnlistBatch
  BY <1>1, <1>7 DEF UnlistBatch, Moves
<1>8. CASE Cancel
  BY <1>8 DEF Cancel, Moves
<1>9. CASE UNCHANGED vars
  BY <1>9 DEF vars, request, Moves
<1> QED
  BY <1>2, <1>3, <1>4, <1>5, <1>6, <1>7, <1>8, <1>9

\* The clock has struck: every target is queued, and none of them has been sent.
LEMMA StartClockKeeps ==
    ASSUME BulkInv, StartClock
    PROVE  BatchInv'
<1>1. /\ step = "run" /\ progress = <<>> /\ tally = NoTally /\ calls = {}
      /\ validate /\ step' = "start_batch"
      /\ progress' = [i \in Positions |-> "queued"]
      /\ UNCHANGED <<request, calls, plan, rounds, tally>>
  BY DEF StartClock, At, BulkInv, BatchInv, ProgressInv, TallyInv
<1>2. rounds = <<>> /\ plan.queues = QueuesOf(targets) /\ Len(rounds) = 0
  BY <1>1 DEF BulkInv, BatchInv, ProgressInv
<1>3. /\ targets' = targets /\ kind' = kind /\ Positions' = Positions
      /\ Tallies' = Tallies /\ validate' = validate /\ Repositories' = Repositories
      /\ plan' = plan /\ rounds' = rounds /\ tally' = tally /\ calls' = {}
  BY <1>1 DEF request, Positions, Tallies, validate, Repositories
<1>4. /\ Len(targets) \in Nat \ {0} /\ Positions = 1..Len(targets)
      /\ MaxConcurrent \in Nat
      /\ \A i \in Positions : QueueOf(targets, i) \in 1..Repositories
  BY <1>1, ValidBatches, BulkActionAssumption DEF BulkInv, BatchInv
<1>5. PlanInv'
  BY <1>3 DEF BulkInv, BatchInv, PlanInv
<1>6. \A i \in Positions : Unsent(i)'
  <2> TAKE i \in Positions
  <2>1. Waits(i)
    BY <1>2, <1>4 DEF Waits, QueuesOf, Repositories
  <2>2. i > 0 * MaxConcurrent /\ i > 0
    BY <1>4
  <2>3. Unsent(i)
    BY <1>2, <2>1, <2>2 DEF Unsent, BulkInv, BatchInv, Kinds
  <2> QED
    BY <1>3, <2>3 DEF Unsent, Waits
<1>7. /\ progress' \in [Positions -> States]
      /\ \A i \in Positions : progress'[i] = "queued"
  BY <1>1 DEF States
<1>8. progress' # <<>>
  BY <1>1, <1>7, Published DEF BulkInv
<1>9. ProgressInv'
  BY <1>1, <1>3, <1>6, <1>7, <1>8 DEF ProgressInv
<1>10. TallyInv'
  <2>1. \A outcome \in Outcomes : With(progress', outcome) = {}
    BY <1>7 DEF With, Outcomes
  <2>2. \A outcome \in Outcomes : tally[outcome] = Cardinality(With(progress', outcome))
    <3>1. \A outcome \in Outcomes : Cardinality(With(progress', outcome)) = 0
      <4>1. Cardinality({}) = 0
        BY FS_EmptySet
      <4> QED
        BY <2>1, <4>1, Zenon
    <3>2. \A outcome \in Outcomes : tally[outcome] = 0
      BY <1>1 DEF Outcomes, NoTally
    <3> QED
      BY <3>1, <3>2
  <2>3. tally.completed <=> settled(tally) = Len(targets)
    BY <1>1, <1>4 DEF NoTally, settled
  <2> QED
    BY <1>3, <1>8, <2>2, <2>3 DEF TallyInv, Counts, With
<1>11. MergesSerialised'
  <2>1. Cardinality({}) = 0 /\ 0 <= MaxConcurrent
    BY <1>4, FS_EmptySet
  <2> QED
    BY <1>3, <2>1 DEF MergesSerialised
<1>12. TurnsInv' /\ RepositoriesTakeTurns'
  BY <1>2, <1>3 DEF TurnsInv, RepositoriesTakeTurns
<1>13. rounds' \in Seq(SUBSET Positions) /\ tally' \in Tallies
  BY <1>3 DEF BulkInv, BatchInv
<1> QED
  BY <1>3, <1>5, <1>7, <1>9, <1>10, <1>11, <1>12, <1>13 DEF BulkInv, BatchInv

\* ... and the steps that start one.
LEMMA RoundSteps ==
    ASSUME BulkInv,
           \/ StartBatch
           \/ Pause
           \/ \E i \in Positions, outcome \in Outcomes : Lands(i, outcome)
           \/ CallCancelled /\ kind = "rebase"
    PROVE  /\ BatchInv'
           /\ \/ step = "start_batch" /\ step' \in {"call", "finish_clock"}
              \/ step = "pause" /\ step' \in {"call", "finish_clock"}
              \/ step = "call" /\ step' \in {"call", "pause", "finish_clock"}
<1>0. BatchInv
  BY DEF BulkInv
<1>1. ASSUME step \in {"start_batch", "pause"}, Proceed(progress), UNCHANGED <<request, tally>>
      PROVE  BatchInv' /\ step' \in {"finish_clock", "call"}
  <2>1. /\ validate /\ progress # <<>> /\ calls = {}
        /\ \A i \in Positions : progress[i] = "queued" => Unsent(i)
        /\ \A i \in Positions : progress[i] = "running" => i \in calls
    BY <1>0, <1>1 DEF BatchInv, ProgressInv
  <2>2. progress \in [Positions -> States] /\ Counts(tally, progress)
    BY <1>0, <2>1, Published
  <2>3. Between(progress)
    BY <2>1, <2>2 DEF Between
  <2>4. tally' = tally /\ tally \in Tallies /\ UNCHANGED request
    BY <1>0, <1>1 DEF BatchInv
  <2>5. tally' \in Tallies /\ Counts(tally', progress)
    BY <2>2, <2>4
  <2> QED
    BY <1>0, <1>1, <2>1, <2>3, <2>4, <2>5, RoundKeeps
<1>2. CASE StartBatch
  BY <1>1, <1>2 DEF StartBatch
<1>3. CASE Pause
  BY <1>1, <1>3 DEF Pause, At
<1>4. CASE \E i \in Positions, outcome \in Outcomes : Lands(i, outcome)
  <2>1. PICK i \in Positions, outcome \in Outcomes : Lands(i, outcome)
    BY <1>4
  <2>2. step = "call" /\ i \in calls /\ Settle(i, outcome) /\ UNCHANGED request
    BY <2>1 DEF Lands, At
  <2> QED
    BY <1>0, <2>2, SettleKeeps
<1>5. CASE CallCancelled /\ kind = "rebase"
  <2>1. /\ step = "call" /\ UNCHANGED request
        /\ \E i \in calls : Settle(i, "failed")
    BY <1>5 DEF CallCancelled, CancelledAt
  <2>2. PICK i \in calls : Settle(i, "failed")
    BY <2>1
  <2>3. "failed" \in Outcomes
    BY DEF Outcomes
  <2> QED
    BY <1>0, <2>1, <2>2, <2>3, SettleKeeps
<1> QED
  BY <1>2, <1>3, <1>4, <1>5

\* A batch with a verdict is one that has started.
LEMMA CompleteHasRun ==
    ASSUME BulkInv, tally.completed
    PROVE  step # "run" /\ progress # <<>>
BY DEF BulkInv, BatchInv, ProgressInv, TallyInv, NoTally

\* The rows of a batch, and the values they have, after any step.
LEMMA RowsKeep ==
    ASSUME BulkInv, [Next]_vars, BatchInv'
    PROVE  RowTypes' /\ RecordInv'
<1>0. /\ BatchInv /\ RowTypes /\ RecordInv /\ EndedIsAccountedFor
      /\ tally.completed => step # "run"
      /\ step = "record" => tally.completed
      /\ MaxCancels \in Nat
  BY CompleteHasRun, FinishIsComplete, BulkActionAssumption
     DEF BulkInv, RecordInv, AttemptedIsComplete
<1>1. CASE Refuse
  <2>1. /\ step = "run" /\ step' = "ended"
        /\ UNCHANGED <<request, tally, listed, record, cancels, cancelled, lapsed>>
    BY <1>1 DEF Refuse
  <2> QED
    BY <1>0, <2>1 DEF RowTypes, RecordInv, EndedIsAccountedFor, request, Positions
<1>2. CASE StartClock
  <2>1. /\ step = "run" /\ step' = "start_batch"
        /\ UNCHANGED <<request, tally, listed, record, cancels, cancelled, lapsed>>
    BY <1>2 DEF StartClock, At
  <2> QED
    BY <1>0, <2>1 DEF RowTypes, RecordInv, EndedIsAccountedFor, request, Positions
<1>3. CASE StartBatch
  <2>1. /\ step = "start_batch" /\ step' \in {"call", "finish_clock"}
        /\ UNCHANGED <<request, record, cancels>> /\ cancelled' = FALSE
        /\ listed' \in BOOLEAN
        /\ (listed' = TRUE /\ lapsed' = lapsed) \/ lapsed' = lapsed \cup {"start_batch"}
    BY <1>3, RoundSteps DEF StartBatch
  <2> QED
    BY <1>0, <2>1 DEF RowTypes, RecordInv, EndedIsAccountedFor, request, Positions
<1>4. CASE \/ Pause
           \/ \E i \in Positions, outcome \in Outcomes : Lands(i, outcome)
           \/ CallCancelled /\ kind = "rebase"
  <2>1. /\ step \in {"call", "pause"} /\ step' \in {"call", "pause", "finish_clock"}
        /\ UNCHANGED <<request, listed, record, cancels, lapsed>> /\ cancelled' \in BOOLEAN
    <3>1. /\ BatchInv
          /\ step \in {"start_batch", "pause", "call"}
          /\ step' \in {"call", "pause", "finish_clock"}
      BY <1>0, <1>4, RoundSteps
    <3>2. step \in {"call", "pause"}
      BY <1>4 DEF Pause, Lands, CallCancelled, CancelledAt, At
    <3>3. UNCHANGED <<request, listed, record, cancels, lapsed>> /\ cancelled' \in BOOLEAN
      BY <1>0, <1>4 DEF Pause, Lands, CallCancelled, CancelledAt, At, RowTypes
    <3> QED
      BY <3>1, <3>2, <3>3
  <2> QED
    BY <1>0, <2>1 DEF RowTypes, RecordInv, EndedIsAccountedFor, request, Positions
<1>5. CASE CallCancelled /\ kind # "rebase"
  <2>1. /\ step = "call" /\ Abort
        /\ cancelled' = FALSE
        /\ UNCHANGED <<request, tally, listed, record, cancels, lapsed>>
    BY <1>5 DEF CallCancelled, CancelledAt
  <2> QED
    BY <1>0, <2>1 DEF Abort, RowTypes, RecordInv, EndedIsAccountedFor, request, Positions
<1>6. CASE FinishClock
  <2>1. /\ step = "finish_clock"
        /\ UNCHANGED <<request, tally, listed, record, cancels, cancelled, lapsed>>
        /\ IF tally.completed THEN step' = "record" ELSE Abort
    BY <1>6 DEF FinishClock, At
  <2> QED
    BY <1>0, <2>1 DEF Abort, RowTypes, RecordInv, EndedIsAccountedFor, request, Positions
<1>7. CASE RecordBatch
  <2>1. /\ step = "record" /\ step' \in {"record", "ended"}
        /\ listed' = FALSE
        /\ record' = IF record = <<>> THEN progress ELSE record
        /\ UNCHANGED <<request, tally, cancels, cancelled, lapsed>>
    BY <1>7 DEF RecordBatch, At, record_batch
  <2>2. /\ validate /\ progress # <<>>
        /\ \A i \in Positions : IsSettled(progress[i])
    BY <1>0, <2>1 DEF BatchInv, ProgressInv
  <2>3. progress \in [Positions -> States]
    BY <1>0, <2>2, Published
  <2>4. progress \in [Positions -> Outcomes]
    BY <2>2, <2>3 DEF IsSettled
  <2>5. record' # <<>> /\ record' \in [Positions -> Outcomes]
    BY <1>0, <2>1, <2>2, <2>4 DEF RowTypes
  <2> QED
    BY <1>0, <2>1, <2>5 DEF RowTypes, RecordInv, EndedIsAccountedFor, request, Positions
<1>8. CASE StepCancelled
  <2>1. /\ UNCHANGED <<request, tally, listed, record, cancels, lapsed>> /\ cancelled' = FALSE
        /\ \/ step = "run" /\ step' = "ended"
           \/ step \in {"pause", "finish_clock", "record"} /\ Abort
    BY <1>8 DEF StepCancelled, CancelledAt
  <2> QED
    BY <1>0, <2>1 DEF Abort, RowTypes, RecordInv, EndedIsAccountedFor, request, Positions
<1>9. CASE UnlistBatch
  <2>1. /\ step = "unlist" /\ step' = "ended" /\ cancelled' = FALSE
        /\ \/ listed' = FALSE /\ lapsed' = lapsed
           \/ listed' \in {listed, FALSE} /\ lapsed' = lapsed \cup {"unlist_batch"}
        /\ UNCHANGED <<request, tally, record, cancels>>
    BY <1>9 DEF UnlistBatch
  <2> QED
    BY <1>0, <2>1 DEF RowTypes, RecordInv, EndedIsAccountedFor, request, Positions
<1>10. CASE Cancel
  <2>1. /\ step' = step /\ cancels < MaxCancels /\ cancels' = cancels + 1 /\ cancelled' = TRUE
        /\ UNCHANGED <<request, tally, listed, record, lapsed>>
    BY <1>10 DEF Cancel
  <2> QED
    BY <1>0, <2>1 DEF RowTypes, RecordInv, EndedIsAccountedFor, request, Positions
<1>11. CASE UNCHANGED vars
  BY <1>0, <1>11 DEF vars, RowTypes, RecordInv, EndedIsAccountedFor, Positions
<1> QED
  BY <1>1, <1>2, <1>3, <1>4, <1>5, <1>6, <1>7, <1>8, <1>9, <1>10, <1>11 DEF Next

\* A batch that has just been invoked has done nothing.
LEMMA InitBulk == Init => BulkInv
<1> SUFFICES ASSUME Init PROVE BulkInv
  OBVIOUS
<1>1. /\ targets \in Requests /\ kind \in Kinds /\ step = "run" /\ calls = {}
      /\ plan = [queues |-> QueuesOf(targets), start |-> 0]
      /\ rounds = <<>> /\ progress = <<>> /\ tally = NoTally
  BY DEF Init, Kinds, NoTally
<1>2. Len(targets) \in Nat /\ Repositories \in Nat /\ Positions = 1..Len(targets)
  BY <1>1, Batches DEF Repositories, Positions
<1>3. PlanInv
  <2>1. plan.queues = [q \in 1..Repositories |-> {i \in Positions : QueueOf(targets, i) = q}]
    BY <1>1 DEF QueuesOf, Repositories, Positions
  <2>2. plan.queues \in [1..Repositories -> SUBSET Positions]
    BY <2>1
  <2>3. \A q \in 1..Repositories : \A i \in plan.queues[q] : QueueOf(targets, i) = q
    BY <2>1
  <2> QED
    BY <1>1, <2>2, <2>3 DEF PlanInv
<1>4. rounds \in Seq(SUBSET Positions) /\ Len(rounds) = 0
  BY <1>1, EmptySeq
<1>5. tally \in Tallies
  BY <1>1, <1>2 DEF Tallies, NoTally
<1>6. ProgressInv
  BY <1>1 DEF ProgressInv
<1>7. TallyInv
  BY <1>1 DEF TallyInv
<1>8. MergesSerialised
  BY <1>1, FS_EmptySet, BulkActionAssumption DEF MergesSerialised
<1>9. TurnsInv /\ RepositoriesTakeTurns
  BY <1>4 DEF TurnsInv, RepositoriesTakeTurns
<1>10. RowTypes /\ RecordInv
  <2>1. /\ step = "run" /\ listed = FALSE /\ record = <<>>
        /\ cancels = 0 /\ cancelled = FALSE /\ lapsed = {}
    BY DEF Init
  <2>2. cancels \in 0..MaxCancels
    BY <2>1, BulkActionAssumption
  <2>3. RowTypes
    BY <2>1, <2>2 DEF RowTypes
  <2>4. RecordInv
    BY <2>1 DEF RecordInv, EndedIsAccountedFor
  <2> QED
    BY <2>3, <2>4
<1> QED
  BY <1>1, <1>3, <1>4, <1>5, <1>6, <1>7, <1>8, <1>9, <1>10 DEF BulkInv, BatchInv

\* Every step keeps the invariant.
LEMMA StepBulk == BulkInv /\ [Next]_vars => BulkInv'
<1> SUFFICES ASSUME BulkInv, [Next]_vars PROVE BulkInv'
  OBVIOUS
<1>1. BatchInv'
  <2>1. CASE StartClock
    BY <2>1, StartClockKeeps
  <2>2. CASE \/ StartBatch
             \/ Pause
             \/ \E i \in Positions, outcome \in Outcomes : Lands(i, outcome)
             \/ CallCancelled /\ kind = "rebase"
    BY <2>2, RoundSteps
  <2>3. CASE \/ Refuse
             \/ CallCancelled /\ kind # "rebase"
             \/ FinishClock \/ RecordBatch \/ StepCancelled \/ UnlistBatch
             \/ Cancel \/ UNCHANGED vars
    BY <2>3, OtherSteps, MovesKeep DEF BulkInv
  <2> QED
    BY <2>1, <2>2, <2>3 DEF Next
<1> QED
  BY <1>1, RowsKeep DEF BulkInv

\* What the invariant says, in the model's own words.
LEMMA BulkTypes ==
    ASSUME BulkInv
    PROVE  TypeOK
<1>1. /\ Repositories \in Nat /\ Len(targets) \in Nat /\ Repositories <= Len(targets)
  BY Batches DEF BulkInv, BatchInv, Repositories
<1>2. plan.start \in 0..Len(targets)
  BY <1>1 DEF BulkInv, BatchInv, PlanInv
<1>3. plan.queues \in Seq(SUBSET Positions)
  BY <1>1, Entries DEF BulkInv, BatchInv, PlanInv
<1> QED
  BY <1>2, <1>3 DEF BulkInv, BatchInv, RowTypes, TypeOK, Kinds, States, Tallies

\* The invariant holds throughout.
LEMMA Bulk == Spec => []BulkInv
BY InitBulk, StepBulk, PTL DEF Spec

-----------------------------------------------------------------------------
(* The theorems                                                            *)

\* The plan, the progress and the tallies of any batch stay within it.
THEOREM TypeCorrect == Spec => []TypeOK
BY Bulk, BulkTypes, PTL

\* No two merges of one repository are in flight, and no round is larger than
\* MAX_CONCURRENT, whatever the batch and whoever cancels it.
THEOREM MergesSerialisedHolds == Spec => []MergesSerialised
<1>1. BulkInv => MergesSerialised
  BY DEF BulkInv, BatchInv
<1> QED
  BY <1>1, Bulk, PTL

\* No repository of a batch waits for another to be drained.
THEOREM RepositoriesTakeTurnsHolds == Spec => []RepositoriesTakeTurns
<1>1. BulkInv => RepositoriesTakeTurns
  BY DEF BulkInv, BatchInv
<1> QED
  BY <1>1, Bulk, PTL

\* A batch that reaches its finish has a verdict for each of its targets, each
\* counted once.
THEOREM AttemptedIsCompleteHolds == Spec => []AttemptedIsComplete
BY Bulk, FinishIsComplete, PTL

\* A batch that has ended is recorded, or listed as the evidence of it, or was
\* never listed; and a recorded one is listed no longer.
THEOREM EndedIsAccountedForHolds == Spec => []EndedIsAccountedFor
<1>1. BulkInv => EndedIsAccountedFor
  BY DEF BulkInv, RecordInv
<1> QED
  BY <1>1, Bulk, PTL
=============================================================================
