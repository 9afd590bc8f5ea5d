---------------------------- MODULE MCReconcile ----------------------------
(* One pull request of one repository, with the sweeps over both. *)
EXTENDS Reconcile

CONSTANTS p1, r1

MCPullRequests == {p1}
MCRepositories == {r1}
MCRepoOf == [p \in MCPullRequests |-> r1]
=============================================================================
