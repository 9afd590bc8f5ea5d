--------------------------- MODULE GithubMutation ---------------------------
(***************************************************************************)
(* One journaled GitHub mutation of a PullRequest object: the client's     *)
(* fetch, verify, mutate, confirm (verified_mutation of crates/github) and *)
(* the step around it (run_github_step of apps/restate-service), against a *)
(* pull request other people change meanwhile.                             *)
(*                                                                         *)
(* The step's result is journaled after it ran, so a process that dies     *)
(* runs it again from its verify read; an answer may be lost or unreadable *)
(* whether or not the write took effect.  A request that GitHub received   *)
(* has taken effect, or never will, by the time the next one is answered.  *)
(***************************************************************************)
EXTENDS Naturals

CONSTANTS
    Operations,  \* the mutations of this instance, of {"merge", "comment", "update"}
    MaxWaits,    \* MAX_RATE_LIMIT_WAITS
    MaxRetries,  \* bound: retries the step's thirty minutes leave time for
    MaxCrashes,  \* bound: times the process dies during the step
    MaxHead      \* bound: pushes to the pull request's branch

ASSUME MutationAssumption ==
    /\ Operations \subseteq {"merge", "comment", "update"}
    /\ MaxWaits \in Nat
    /\ MaxRetries \in Nat
    /\ MaxCrashes \in Nat
    /\ MaxHead \in Nat

VARIABLES
    operation,  \* what the step was asked to do, against head 0
    pull,       \* GitHub's pull request: state and head
    marked,     \* comments carrying the batch's marker
    access,     \* whether the installation can still reach the repository
    phase,      \* where the attempt is
    retries,    \* retries of the attempt that is running
    waits,      \* rate limits waited out
    crashes,    \* times the process died
    outcome,    \* what the step settled as
    landed      \* history: how many of the step's writes took effect

step == <<phase, retries, waits, outcome>>
vars == <<operation, pull, marked, access, phase, retries, waits, crashes, outcome, landed>>

\* The head the target expects: the one the dashboard confirmed.
Expected == 0

-----------------------------------------------------------------------------
(* How an attempt ends                                                     *)

\* The responses that tell a caller something, by status and message: a conflict
\* is a 422, a disallowed method and a modified base are 405s.
Responses == {"rate_limited", "server_error", "base_modified", "not_found", "forbidden",
              "method_disallowed", "conflict", "unauthorized"}

\* classify_github_error, for a mutation's step: its resource is always known.
classify_github_error(response, op) ==
    IF response = "rate_limited" THEN "wait"
    ELSE IF \/ response = "server_error"
            \/ response = "base_modified" /\ op = "merge"
      THEN "retry"
    ELSE IF \/ response \in {"not_found", "forbidden"}
            \/ response = "method_disallowed" /\ op = "merge"
            \/ response = "conflict" /\ op \in {"merge", "update"}
      THEN "rejected"
    ELSE "failed"

Settles(result) ==
    /\ phase' = "done"
    /\ outcome' = result
    /\ UNCHANGED <<retries, waits>>

\* A retryable failure: the attempt runs again from its start, until the
\* policy's time is up.
Retries ==
    \/ /\ retries < MaxRetries
       /\ phase' = "verify"
       /\ retries' = retries + 1
       /\ UNCHANGED <<waits, outcome>>
    \/ Settles("failed")

\* Mutant: a step that is rate limited waits for as long as it takes.
Waits_forever ==
    /\ phase' = "verify"
    /\ retries' = 0
    /\ UNCHANGED <<waits, outcome>>

\* Mutant: one wait more than the limit.
Waits_once_more ==
    IF waits > MaxWaits
      THEN Settles("failed")
      ELSE /\ phase' = "verify"
           /\ waits' = waits + 1
           /\ retries' = 0
           /\ UNCHANGED outcome

\* A rate limit is slept out, then the step runs again; the last one is fatal.
Waits ==
    IF waits = MaxWaits
      THEN Settles("failed")
      ELSE /\ phase' = "verify"
           /\ waits' = waits + 1
           /\ retries' = 0
           /\ UNCHANGED outcome

\* journal_github_result of an HTTP error.
Answers(response) ==
    LET class == classify_github_error(response, operation) IN
    \/ class = "wait" /\ Waits
    \/ class = "retry" /\ Retries
    \/ class \in {"rejected", "failed"} /\ Settles(class)

-----------------------------------------------------------------------------
(* The attempt: verified_mutation                                          *)

\* An open pull request at the expected head is acted on; any other is not.
Checked ==
    IF pull.state = "open" /\ pull.head = Expected
      THEN /\ phase' = IF operation = "comment" THEN "scan" ELSE "send"
           /\ UNCHANGED <<retries, waits, outcome>>
      ELSE Settles("rejected")

\* Mutant: what an earlier attempt did is not looked for.
Verified_checks_only == Checked

\* What the verify read makes of the pull request.  A merge that landed has
\* closed it, so that is looked at before the checks.
Verified ==
    IF operation = "merge" /\ pull.state = "merged"
      THEN Settles("succeeded")
      ELSE Checked

\* fetch_target: answered, or not: a repository out of reach answers 403 or 404,
\* and a body that cannot be read is fatal.
Verify ==
    /\ phase = "verify"
    /\ IF access
         THEN \/ Verified
              \/ \E response \in {"rate_limited", "server_error", "unauthorized"} :
                   Answers(response)
              \/ Retries
              \/ Settles("failed")
         ELSE \E response \in {"forbidden", "not_found"} : Answers(response)
    /\ UNCHANGED <<operation, pull, marked, access, crashes, landed>>

\* Mutant: the comments are not looked through before one is posted.
ScanFinds_never == FALSE

ScanFinds == marked > 0

\* A comment's mutate looks for the marker first.  A scan that is lost is
\* confirmed by another; one GitHub refuses ends the attempt.
Scan ==
    /\ phase = "scan"
    /\ IF access
         THEN \/ /\ ~ScanFinds
                 /\ phase' = "send"
                 /\ UNCHANGED <<retries, waits, outcome>>
              \/ ScanFinds /\ Settles("succeeded")
              \/ phase' = "confirm" /\ UNCHANGED <<retries, waits, outcome>>
              \/ \E response \in {"rate_limited", "server_error", "unauthorized"} :
                   Answers(response)
              \/ Settles("failed")
         ELSE \E response \in {"forbidden", "not_found"} : Answers(response)
    /\ UNCHANGED <<operation, pull, marked, access, crashes, landed>>

\* Merge and update_branch name the expected head: GitHub refuses any other.
HeadGuard == pull.state = "open" /\ pull.head = Expected

\* GitHub does what was asked.  An update makes a new head.
Effect ==
    /\ access
    /\ landed' = landed + 1
    /\ \/ /\ operation = "merge"
          /\ HeadGuard
          /\ pull' = [pull EXCEPT !.state = "merged"]
          /\ UNCHANGED marked
       \/ /\ operation = "update"
          /\ HeadGuard
          /\ pull.head < MaxHead
          /\ pull' = [pull EXCEPT !.head = @ + 1]
          /\ UNCHANGED marked
       \/ /\ operation = "comment"
          /\ marked' = marked + 1
          /\ UNCHANGED pull

\* The write takes effect: its answer is read, is lost or unreadable, or a
\* gateway answers in GitHub's place.
SendLands ==
    /\ phase = "send"
    /\ Effect
    /\ \/ Settles("succeeded")
       \/ phase' = "confirm" /\ UNCHANGED <<retries, waits, outcome>>
       \/ Answers("server_error")
    /\ UNCHANGED <<operation, access, crashes>>

\* It takes no effect: refused, or the request never arrives.
SendRefused ==
    /\ phase = "send"
    /\ \/ \E response \in Responses : Answers(response)
       \/ phase' = "confirm" /\ UNCHANGED <<retries, waits, outcome>>
    /\ UNCHANGED <<operation, pull, marked, access, crashes, landed>>

\* Mutant: an answer that was lost is taken for the one that was hoped for.
Confirmed_assumed == TRUE

\* What the read-back takes for the write: merged; a head that moved; the marker.
Confirmed ==
    \/ operation = "merge" /\ pull.state = "merged"
    \/ operation = "update" /\ pull.head # Expected
    \/ operation = "comment" /\ marked > 0

\* confirm: seen, the mutation succeeded; not seen, or not readable, the
\* attempt fails and is retried.
Confirm ==
    /\ phase = "confirm"
    /\ \/ access /\ Confirmed /\ Settles("succeeded")
       \/ Retries
    /\ UNCHANGED <<operation, pull, marked, access, crashes, landed>>

\* The process dies before the result is journaled: Restate runs the step again.
Crash ==
    /\ phase # "done"
    /\ crashes < MaxCrashes
    /\ crashes' = crashes + 1
    /\ phase' = "verify"
    /\ UNCHANGED <<operation, pull, marked, access, retries, waits, outcome, landed>>

-----------------------------------------------------------------------------
(* The world                                                               *)

\* Someone pushes, or Dependabot rebases as it was asked to.
Push ==
    /\ pull.state = "open"
    /\ pull.head < MaxHead
    /\ pull' = [pull EXCEPT !.head = @ + 1]
    /\ UNCHANGED <<operation, marked, access, step, crashes, landed>>

\* Someone closes the pull request, reopens it or merges it.
OthersAct ==
    /\ pull.state # "merged"
    /\ \E state \in {"open", "closed", "merged"} \ {pull.state} :
         /\ state = "merged" => pull.state = "open"
         /\ pull' = [pull EXCEPT !.state = state]
    /\ UNCHANGED <<operation, marked, access, step, crashes, landed>>

\* The App loses the repository.
Revoked ==
    /\ access
    /\ access' = FALSE
    /\ UNCHANGED <<operation, pull, marked, step, crashes, landed>>

Init ==
    /\ operation \in Operations
    /\ pull \in [state : {"open", "closed", "merged"}, head : {0, 1} \cap 0..MaxHead]
    /\ marked = 0
    /\ access = TRUE
    /\ phase = "verify"
    /\ retries = 0
    /\ waits = 0
    /\ crashes = 0
    /\ outcome = "none"
    /\ landed = 0

StepNext == Verify \/ Scan \/ SendLands \/ SendRefused \/ Confirm

Next == StepNext \/ Crash \/ Push \/ OthersAct \/ Revoked

\* Restate runs the step until its result is journaled.
Spec == Init /\ [][Next]_vars /\ WF_vars(StepNext)

-----------------------------------------------------------------------------

\* The waits and retries of run_github_step stay within their limits.
TypeOK ==
    /\ operation \in Operations
    /\ pull \in [state : {"open", "closed", "merged"}, head : 0..MaxHead]
    /\ marked \in 0..(1 + MaxCrashes)
    /\ access \in BOOLEAN
    /\ phase \in {"verify", "scan", "send", "confirm", "done"}
    /\ retries \in 0..MaxRetries
    /\ waits \in 0..MaxWaits
    /\ crashes \in 0..MaxCrashes
    /\ outcome \in {"none", "succeeded", "rejected", "failed"}
    /\ landed \in Nat

\* Every mutation is safe to perform twice: however often the step runs, and
\* whatever answers it loses, GitHub is changed at most once.
AtMostOnce == landed <= 1

\* A merge that landed is worth more than its answer: no replay, lost answer or
\* retry of it reports a rejection, as long as GitHub can be asked.
LandedMergeIsNotDenied ==
    operation = "merge" /\ landed > 0 /\ access => outcome # "rejected"

\* ... and so for each of the three mutations.
LandedIsNotDenied ==
    landed > 0 /\ access => outcome # "rejected"

\* A merge or a comment reported as done is on GitHub, whoever put it there.
SucceededIsReal ==
    outcome = "succeeded" =>
      /\ operation = "merge" => pull.state = "merged"
      /\ operation = "comment" => marked > 0

\* Neither rate limits nor retries keep the step, and the object, forever.
StepSettles == <>(phase = "done")
=============================================================================
