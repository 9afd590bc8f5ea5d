-------------------------- MODULE MCGithubMutation --------------------------
(* The three mutations, each against one pull request. *)
EXTENDS GithubMutation
=============================================================================
