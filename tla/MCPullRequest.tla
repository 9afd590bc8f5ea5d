--------------------------- MODULE MCPullRequest ---------------------------
(* One pull request of one repository, through syncs, closes and merges, with *)
(* pages that sync it themselves.                                             *)
EXTENDS ManualSync

CONSTANTS p1, r1

MCPullRequests == {p1}
MCRepositories == {r1}
MCRepoOf == [p \in MCPullRequests |-> r1]
=============================================================================
