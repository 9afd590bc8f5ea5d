---------------------------- MODULE MCBulkAction ----------------------------
(* Every way the targets of a batch share repositories, up to their names. *)
EXTENDS BulkAction

CONSTANT MCLength   \* bound: targets in a batch

\* Sequences that name a new repository only after all the earlier ones.
Shares(n) ==
    {s \in [1..n -> 1..n] :
       \A i \in 1..n : \A r \in 1..(s[i] - 1) : \E j \in 1..(i - 1) : s[j] = r}

Batch(s) == [i \in 1..Len(s) |-> [repo |-> s[i], number |-> i]]

\* ... with batches long enough for a repository to wait two rounds for its
\* turn, and requests that are refused: empty, a target named twice, too many.
MCRequests ==
    {Batch(s) : s \in UNION {Shares(n) : n \in 1..MCLength}
                       \cup {<<1, 1, 2, 2, 3>>, <<1, 2, 3, 1, 2>>}}
    \cup {<<>>,
          <<[repo |-> 1, number |-> 1], [repo |-> 1, number |-> 1]>>,
          Batch([i \in 1..(MaxTargets + 1) |-> 1])}
=============================================================================
