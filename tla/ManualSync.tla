----------------------------- MODULE ManualSync -----------------------------
(***************************************************************************)
(* A page syncs one pull request and follows the sync to its end: the      *)
(* drawer's Sync, and each target of a Retry rejected (sync_pr of          *)
(* apps/web/src/ui/pr_sync.rs), through the server functions of            *)
(* apps/web/src/api.rs.                                                    *)
(*                                                                         *)
(* The sync is one-way.  The page is handed a completion id and polls for  *)
(* it in the object's state, then reads the row in another call: the       *)
(* object and GitHub go on between any two of them.                        *)
(***************************************************************************)
EXTENDS PullRequest

VARIABLES
    follow  \* follow[c]: the page's sync under completion id c

vars == <<prVars, follow>>

\* asked is a history value: GitHub's revision as the page asked.
Polling(p, asked) == [pc |-> "polling", pr |-> p, asked |-> asked]

Ended(outcome) == [pc |-> outcome]

\* request_pr_sync: the row is the word on the pull request.  Restate may take
\* the sync and its answer be lost, and the page then believes it was not queued.
request_pr_sync(p, c) ==
    /\ "manual_sync" \in Events
    /\ follow[c].pc = "idle"
    /\ rows[p] # None
    /\ Sent({SyncMessage(p, c, 0, FALSE)})
    /\ \E taken \in BOOLEAN :
         follow' = [follow EXCEPT ![c] = IF taken THEN Polling(p, rev[p]) ELSE Ended("ended")]
    /\ UNCHANGED <<clock, githubVars, repos, rows, object, running, failed>>

\* load_pr_status: of a key with a row, looked up just before, the object
\* answers whatever its handlers are in the middle of.
SyncConfirmed(c) ==
    /\ follow[c].pc = "polling"
    /\ sync_id_completed(object[follow[c].pr], c)
    /\ follow' = [follow EXCEPT ![c].pc = "confirmed"]
    /\ UNCHANGED prVars

\* load_pr_projection, once the sync was seen to complete.
RowRead(c) ==
    /\ follow[c].pc = "confirmed"
    /\ follow' = [follow EXCEPT ![c] = Ended(IF rows[@.pr] = None THEN "ended" ELSE "row")]
    /\ UNCHANGED prVars

\* A row that is gone before the sync was seen to complete ends it as well.
RowGone(c) ==
    /\ follow[c].pc = "polling"
    /\ rows[follow[c].pr] = None
    /\ follow' = [follow EXCEPT ![c] = Ended("ended")]
    /\ UNCHANGED prVars

\* The row could not be read: the next poll asks for both again.
RowFails(c) ==
    /\ follow[c].pc = "confirmed"
    /\ follow' = [follow EXCEPT ![c].pc = "polling"]
    /\ UNCHANGED prVars

\* The polls run out, or are refused.
GivesUp(c) ==
    /\ follow[c].pc \in {"polling", "confirmed"}
    /\ follow' = [follow EXCEPT ![c] = Ended("ended")]
    /\ UNCHANGED prVars

Init ==
    /\ PrInit
    /\ follow = [c \in Completions |-> [pc |-> "idle"]]

Follows(c) ==
    \/ \E p \in PullRequests : request_pr_sync(p, c)
    \/ SyncConfirmed(c)
    \/ RowRead(c)
    \/ RowGone(c)
    \/ RowFails(c)
    \/ GivesUp(c)

Next ==
    \/ PrNext /\ UNCHANGED follow
    \/ \E c \in Completions : Follows(c)

Spec == Init /\ [][Next]_vars

-----------------------------------------------------------------------------

\* A sync followed to its end hands back a row at least as new as GitHub was
\* when the page asked, so a retry carries "the head SHAs the dashboard now
\* shows rather than the ones the batch was rejected over" (retry.rs): however
\* webhooks, reconciles, closes, failures and other syncs of the object run
\* between the request, the completion and the two reads.
RowIsFresh ==
    [][\A c \in Completions :
         follow[c].pc = "confirmed" /\ follow'[c].pc = "row" =>
           rows[follow[c].pr].rev >= follow[c].asked]_vars
=============================================================================
