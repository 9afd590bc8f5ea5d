-------------------------- MODULE MCBatchFollower --------------------------
(* Two pull requests, and a batch queued over the follow of another. *)
EXTENDS BatchFollower

CONSTANTS r1, r2

MCRows == {r1, r2}
MCOpened == {r1}
=============================================================================
