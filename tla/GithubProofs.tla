---------------------------- MODULE GithubProofs ----------------------------
(***************************************************************************)
(* The GitHub client.  For every number of retries, waits, crashes and     *)
(* pushes: a mutation changes GitHub at most once, a merge that landed is  *)
(* never reported as rejected, and one reported as done is on GitHub.  For *)
(* any collection, page size and changes: a listing that is accepted       *)
(* misses nothing that was there throughout, short of a swap.              *)
(***************************************************************************)
EXTENDS GithubMutation, Listing, SequenceTheorems, FiniteSetTheorems, TLAPS

\* What an attempt may find of the attempts before it: a write that landed
\* shows on GitHub, in the place the operation looks for it, and no attempt is
\* about to send a second one.
LandedShows ==
    /\ operation = "merge" /\ landed > 0 => pull.state = "merged"
    /\ operation = "update" /\ landed > 0 => pull.head > 0
    /\ operation = "comment" => marked = landed
    /\ landed > 0 => phase # "send"

\* Only a comment's attempt looks through comments.
ScansComments == phase = "scan" => operation = "comment"

\* The step has an outcome exactly when it is over.
OutcomeAtEnd == outcome = "none" <=> phase # "done"

MutationTypes ==
    /\ operation \in {"merge", "comment", "update"}
    /\ pull \in [state : {"open", "closed", "merged"}, head : Nat]
    /\ marked \in Nat
    /\ access \in BOOLEAN
    /\ phase \in {"verify", "scan", "send", "confirm", "done"}
    /\ outcome \in {"none", "succeeded", "rejected", "failed"}
    /\ landed \in Nat

MutationInv ==
    /\ MutationTypes
    /\ LandedShows
    /\ ScansComments
    /\ OutcomeAtEnd
    /\ AtMostOnce
    /\ LandedMergeIsNotDenied
    /\ SucceededIsReal

-----------------------------------------------------------------------------

\* A step starts with nothing done.
LEMMA InitMutationInv == Init => MutationInv
  BY MutationAssumption DEF Init, MutationInv, MutationTypes, LandedShows, ScansComments,
     OutcomeAtEnd, AtMostOnce, LandedMergeIsNotDenied, SucceededIsReal

\* What classify_github_error makes of each answer.
LEMMA ClassOfAnswer ==
    ASSUME NEW response \in Responses
    PROVE  /\ classify_github_error(response, operation) \in {"wait", "retry", "rejected", "failed"}
           /\ response \in {"rate_limited", "server_error", "unauthorized"} =>
                classify_github_error(response, operation) # "rejected"
  BY DEF classify_github_error, Responses

\* An attempt that did not succeed runs again, or settles as one of results.
Unsuccessful(results) ==
    \/ phase' = "verify" /\ outcome' = outcome
    \/ phase' = "done" /\ outcome' \in results

\* No answer of GitHub's that is an error is taken for a success.
LEMMA AnswersUnsuccessful ==
    ASSUME NEW response \in Responses, Answers(response)
    PROVE  Unsuccessful({"rejected", "failed"})
<1> DEFINE class == classify_github_error(response, operation)
<1>1. class \in {"wait", "retry", "rejected", "failed"}
  BY ClassOfAnswer
<1>2. CASE class = "wait"
  BY <1>2 DEF Answers, Waits, Settles, Unsuccessful
<1>3. CASE class = "retry"
  BY <1>3 DEF Answers, Retries, Settles, Unsuccessful
<1>4. CASE class \in {"rejected", "failed"}
  <2>1. Settles(class)
    BY <1>4 DEF Answers
  <2> QED
    BY <1>4, <2>1 DEF Settles, Unsuccessful
<1> QED
  BY <1>1, <1>2, <1>3, <1>4

\* A rate limit, a server error and a bad credential say nothing about the
\* pull request: none of them is taken for a rejection.
LEMMA OutageIsNoRejection ==
    ASSUME NEW response \in {"rate_limited", "server_error", "unauthorized"},
           Answers(response)
    PROVE  Unsuccessful({"failed"})
<1> DEFINE class == classify_github_error(response, operation)
<1>1. class \in {"wait", "retry", "failed"}
  BY ClassOfAnswer DEF Responses
<1>2. CASE class = "wait"
  BY <1>2 DEF Answers, Waits, Settles, Unsuccessful
<1>3. CASE class = "retry"
  BY <1>3 DEF Answers, Retries, Settles, Unsuccessful
<1>4. CASE class = "failed"
  <2>1. Settles(class)
    BY <1>4 DEF Answers
  <2> QED
    BY <1>4, <2>1 DEF Settles, Unsuccessful
<1> QED
  BY <1>1, <1>2, <1>3, <1>4

\* An attempt that fails retryably runs again or fails for good.
LEMMA RetriesUnsuccessful ==
    ASSUME Retries
    PROVE  Unsuccessful({"failed"})
  BY DEF Retries, Settles, Unsuccessful

\* What an attempt's next phase and outcome have to satisfy when the step
\* changes nothing but the attempt.
AttemptGoesOn ==
    \/ Unsuccessful({"failed"})
    \/ Unsuccessful({"rejected", "failed"}) /\ (operation = "merge" /\ access => landed = 0)
    \/ phase' = "scan" /\ outcome' = outcome /\ operation = "comment"
    \/ phase' = "send" /\ outcome' = outcome /\ landed = 0
    \/ phase' = "confirm" /\ outcome' = outcome
    \/ /\ phase' = "done" /\ outcome' = "succeeded"
       /\ operation = "merge" => pull.state = "merged"
       /\ operation = "comment" => marked > 0

\* A step that goes on so, and changes nothing at GitHub, keeps the invariant.
LEMMA AttemptKeepsInv ==
    ASSUME MutationInv, phase # "done", AttemptGoesOn,
           UNCHANGED <<operation, pull, marked, access, landed>>
    PROVE  MutationInv'
<1> USE DEF MutationInv
<1>1. outcome = "none"
  BY DEF OutcomeAtEnd, MutationTypes
<1>2. MutationTypes' /\ ScansComments' /\ OutcomeAtEnd'
  BY <1>1 DEF MutationTypes, ScansComments, OutcomeAtEnd, AttemptGoesOn, Unsuccessful
<1>3. LandedShows' /\ AtMostOnce'
  BY DEF MutationTypes, LandedShows, AtMostOnce, AttemptGoesOn, Unsuccessful
<1>4. LandedMergeIsNotDenied'
  BY <1>1 DEF MutationTypes, LandedMergeIsNotDenied, AttemptGoesOn, Unsuccessful
<1>5. SucceededIsReal'
  BY <1>1 DEF MutationTypes, SucceededIsReal, AttemptGoesOn, Unsuccessful
<1> QED
  BY <1>2, <1>3, <1>4, <1>5

\* Each step of the mutation, of a dying process and of the world keeps what
\* the attempts rely on.
LEMMA NextMutationInv == MutationInv /\ [Next]_vars => MutationInv'
<1> SUFFICES ASSUME MutationInv, [Next]_vars
             PROVE  MutationInv'
  OBVIOUS
<1> USE DEF MutationInv
<1>1. CASE Verify
  <2>1. CASE access /\ Verified
    BY <1>1, <2>1, AttemptKeepsInv
       DEF Verify, Verified, Checked, Settles, AttemptGoesOn, Unsuccessful, Expected,
           MutationTypes, LandedShows
  <2>2. ASSUME NEW response \in {"rate_limited", "server_error", "unauthorized"},
               Answers(response)
        PROVE  MutationInv'
    BY <1>1, <2>2, OutageIsNoRejection, AttemptKeepsInv DEF Verify, AttemptGoesOn
  <2>3. CASE Retries
    BY <1>1, <2>3, RetriesUnsuccessful, AttemptKeepsInv DEF Verify, AttemptGoesOn
  <2>4. CASE Settles("failed")
    BY <1>1, <2>4, AttemptKeepsInv DEF Verify, Settles, AttemptGoesOn, Unsuccessful
  <2>5. ASSUME ~access, NEW response \in {"forbidden", "not_found"}, Answers(response)
        PROVE  MutationInv'
    <3>1. Unsuccessful({"rejected", "failed"})
      BY <2>5, AnswersUnsuccessful DEF Responses
    <3> QED
      BY <1>1, <2>5, <3>1, AttemptKeepsInv DEF Verify, AttemptGoesOn
  <2> QED
    BY <1>1, <2>1, <2>2, <2>3, <2>4, <2>5 DEF Verify
<1>2. CASE Scan
  <2> operation = "comment"
    BY <1>2 DEF Scan, ScansComments
  <2>1. CASE ~ScanFinds /\ phase' = "send" /\ UNCHANGED outcome
    BY <1>2, <2>1, AttemptKeepsInv DEF Scan, ScanFinds, AttemptGoesOn, MutationTypes, LandedShows
  <2>2. CASE ScanFinds /\ Settles("succeeded")
    BY <1>2, <2>2, AttemptKeepsInv DEF Scan, ScanFinds, Settles, AttemptGoesOn
  <2>3. CASE phase' = "confirm" /\ UNCHANGED outcome
    BY <1>2, <2>3, AttemptKeepsInv DEF Scan, AttemptGoesOn
  <2>4. ASSUME NEW response \in {"rate_limited", "server_error", "unauthorized"},
               Answers(response)
        PROVE  MutationInv'
    BY <1>2, <2>4, OutageIsNoRejection, AttemptKeepsInv DEF Scan, AttemptGoesOn
  <2>5. CASE Settles("failed")
    BY <1>2, <2>5, AttemptKeepsInv DEF Scan, Settles, AttemptGoesOn, Unsuccessful
  <2>6. ASSUME NEW response \in {"forbidden", "not_found"}, Answers(response)
        PROVE  MutationInv'
    <3>1. Unsuccessful({"rejected", "failed"})
      BY <2>6, AnswersUnsuccessful DEF Responses
    <3> QED
      BY <1>2, <3>1, AttemptKeepsInv DEF Scan, AttemptGoesOn
  <2> QED
    BY <1>2, <2>1, <2>2, <2>3, <2>4, <2>5, <2>6 DEF Scan
<1>3. CASE SendLands
  <2>1. /\ outcome = "none" /\ landed = 0 /\ landed' = 1
        /\ access' = access /\ operation' = operation
    BY <1>3 DEF SendLands, Effect, OutcomeAtEnd, LandedShows, MutationTypes
  <2>2. /\ pull' \in [state : {"open", "closed", "merged"}, head : Nat]
        /\ marked' \in Nat
        /\ operation = "merge" => pull'.state = "merged"
        /\ operation = "update" => pull'.head > 0
        /\ operation = "comment" => marked' = 1
    BY <1>3, <2>1 DEF SendLands, Effect, HeadGuard, MutationTypes, LandedShows
  <2>3. \/ phase' = "done" /\ outcome' = "succeeded"
        \/ phase' = "confirm" /\ outcome' = "none"
        \/ Unsuccessful({"failed"})
    BY <1>3, <2>1, OutageIsNoRejection DEF SendLands, Settles
  <2> QED
    BY <2>1, <2>2, <2>3
       DEF MutationTypes, LandedShows, ScansComments, OutcomeAtEnd, AtMostOnce,
           LandedMergeIsNotDenied, SucceededIsReal, Unsuccessful
<1>4. CASE SendRefused
  <2> landed = 0
    BY <1>4 DEF SendRefused, LandedShows, MutationTypes
  <2>1. ASSUME NEW response \in Responses, Answers(response)
        PROVE  MutationInv'
    BY <1>4, <2>1, AnswersUnsuccessful, AttemptKeepsInv DEF SendRefused, AttemptGoesOn
  <2>2. CASE phase' = "confirm" /\ UNCHANGED outcome
    BY <1>4, <2>2, AttemptKeepsInv DEF SendRefused, AttemptGoesOn
  <2> QED
    BY <1>4, <2>1, <2>2 DEF SendRefused
<1>5. CASE Confirm
  <2>1. CASE Confirmed /\ Settles("succeeded")
    BY <1>5, <2>1, AttemptKeepsInv DEF Confirm, Confirmed, Settles, AttemptGoesOn
  <2>2. CASE Retries
    BY <1>5, <2>2, RetriesUnsuccessful, AttemptKeepsInv DEF Confirm, AttemptGoesOn
  <2> QED
    BY <1>5, <2>1, <2>2 DEF Confirm
<1>6. CASE Crash
  BY <1>6, AttemptKeepsInv DEF Crash, AttemptGoesOn, Unsuccessful
<1>7. CASE Push
  BY <1>7 DEF Push, step, MutationTypes, LandedShows, ScansComments, OutcomeAtEnd, AtMostOnce,
              LandedMergeIsNotDenied, SucceededIsReal
<1>8. CASE OthersAct
  BY <1>8 DEF OthersAct, step, MutationTypes, LandedShows, ScansComments, OutcomeAtEnd,
              AtMostOnce, LandedMergeIsNotDenied, SucceededIsReal
<1>9. CASE Revoked
  BY <1>9 DEF Revoked, step, MutationTypes, LandedShows, ScansComments, OutcomeAtEnd, AtMostOnce,
              LandedMergeIsNotDenied, SucceededIsReal
<1>10. CASE UNCHANGED vars
  BY <1>10 DEF vars, MutationTypes, LandedShows, ScansComments, OutcomeAtEnd, AtMostOnce,
               LandedMergeIsNotDenied, SucceededIsReal
<1> QED
  BY <1>1, <1>2, <1>3, <1>4, <1>5, <1>6, <1>7, <1>8, <1>9, <1>10 DEF Next, StepNext

\* What the attempts rely on holds throughout.
LEMMA MutationInvHolds == Spec => []MutationInv
  BY InitMutationInv, NextMutationInv, PTL DEF Spec

\* However often the process dies and whatever answers are lost, the step
\* (verified_mutation under run_github_step) changes GitHub at most once.
THEOREM AtMostOnceHolds == Spec => []AtMostOnce
<1>1. MutationInv => AtMostOnce
  BY DEF MutationInv
<1> QED
  BY <1>1, MutationInvHolds, PTL

\* A merge that landed is never reported as rejected while GitHub can be asked.
THEOREM LandedMergeIsNotDeniedHolds == Spec => []LandedMergeIsNotDenied
<1>1. MutationInv => LandedMergeIsNotDenied
  BY DEF MutationInv
<1> QED
  BY <1>1, MutationInvHolds, PTL

\* A merge or a comment reported as done is on GitHub.
THEOREM SucceededIsRealHolds == Spec => []SucceededIsReal
<1>1. MutationInv => SucceededIsReal
  BY DEF MutationInv
<1> QED
  BY <1>1, MutationInvHolds, PTL

-----------------------------------------------------------------------------
(* The limits                                                              *)

Bounded ==
    /\ operation \in Operations
    /\ pull.head \in 0..MaxHead
    /\ operation # "comment" => marked = 0
    /\ retries \in 0..MaxRetries
    /\ waits \in 0..MaxWaits
    /\ crashes \in 0..MaxCrashes

\* An error answer costs one retry or one wait, of those there are left.
LEMMA AnswersBounded ==
    ASSUME retries \in 0..MaxRetries, waits \in 0..MaxWaits,
           \/ Retries
           \/ \E response \in Responses : Answers(response)
           \/ \E result : Settles(result)
    PROVE  retries' \in 0..MaxRetries /\ waits' \in 0..MaxWaits
<1>1. MaxRetries \in Nat /\ MaxWaits \in Nat
  BY MutationAssumption
<1>2. ASSUME NEW result, Settles(result)
      PROVE  retries' \in 0..MaxRetries /\ waits' \in 0..MaxWaits
  BY <1>2 DEF Settles
<1>3. CASE Retries
  <2>1. CASE retries < MaxRetries /\ retries' = retries + 1 /\ waits' = waits
    BY <1>1, <2>1
  <2> QED
    BY <1>2, <1>3, <2>1 DEF Retries
<1>4. CASE Waits
  <2>1. CASE waits = MaxWaits
    BY <1>2, <1>4, <2>1 DEF Waits
  <2>2. CASE waits # MaxWaits
    BY <1>1, <1>4, <2>2 DEF Waits
  <2> QED
    BY <2>1, <2>2
<1>5. ASSUME NEW response \in Responses, Answers(response)
      PROVE  Waits \/ Retries \/ \E result : Settles(result)
  BY <1>5 DEF Answers
<1> QED
  BY <1>2, <1>3, <1>4, <1>5

\* Every step stays within the limits.
LEMMA StepBounded == MutationInv /\ Bounded /\ [Next]_vars => Bounded'
<1> SUFFICES ASSUME MutationInv, Bounded, [Next]_vars
             PROVE  Bounded'
  OBVIOUS
<1>1. UNCHANGED operation
  BY DEF Next, StepNext, Verify, Scan, SendLands, SendRefused, Confirm, Crash, Push, OthersAct,
     Revoked, vars
<1>2. retries' \in 0..MaxRetries /\ waits' \in 0..MaxWaits
  <2>1. CASE Retries \/ (\E response \in Responses : Answers(response)) \/ \E result : Settles(result)
    BY <2>1, AnswersBounded DEF Bounded
  <2>2. CASE UNCHANGED <<retries, waits>>
    BY <2>2 DEF Bounded
  <2>3. CASE Verify
    BY <2>1, <2>2, <2>3 DEF Verify, Verified, Checked, Responses
  <2>4. CASE Scan
    BY <2>1, <2>2, <2>4 DEF Scan, Responses
  <2>5. CASE SendLands \/ SendRefused
    BY <2>1, <2>2, <2>5 DEF SendLands, SendRefused, Responses
  <2>6. CASE Confirm
    BY <2>1, <2>2, <2>6 DEF Confirm
  <2>7. CASE Crash \/ Push \/ OthersAct \/ Revoked \/ UNCHANGED vars
    BY <2>2, <2>7 DEF Crash, Push, OthersAct, Revoked, step, vars
  <2> QED
    BY <2>3, <2>4, <2>5, <2>6, <2>7 DEF Next, StepNext
<1>3. crashes' \in 0..MaxCrashes
  <2>1. CASE Crash
    <3>1. crashes \in Nat /\ crashes < MaxCrashes /\ crashes' = crashes + 1 /\ MaxCrashes \in Nat
      BY <2>1, MutationAssumption DEF Crash, Bounded
    <3> QED
      BY <3>1
  <2>2. CASE UNCHANGED crashes
    BY <2>2 DEF Bounded
  <2> QED
    BY <2>1, <2>2 DEF Next, StepNext, Verify, Scan, SendLands, SendRefused, Confirm, Push,
       OthersAct, Revoked, vars
<1>4. pull'.head \in 0..MaxHead
  <2>1. /\ pull \in [state : {"open", "closed", "merged"}, head : Nat]
        /\ pull.head \in 0..MaxHead /\ MaxHead \in Nat
    BY MutationAssumption DEF MutationInv, MutationTypes, Bounded
  <2>2. \/ pull' = pull
        \/ \E state : pull' = [pull EXCEPT !.state = state]
        \/ pull.head < MaxHead /\ pull' = [pull EXCEPT !.head = @ + 1]
    BY DEF Next, StepNext, Verify, Scan, SendLands, SendRefused, Effect, Confirm, Crash, Push,
       OthersAct, Revoked, vars
  <2> QED
    BY <2>1, <2>2
<1>5. operation # "comment" => marked' = 0
  BY DEF Bounded, Next, StepNext, Verify, Scan, SendLands, SendRefused, Effect, Confirm, Crash,
     Push, OthersAct, Revoked, vars
<1> QED
  BY <1>1, <1>2, <1>3, <1>4, <1>5 DEF Bounded

\* The step's state is what run_github_step can hold: no more retries, waits or
\* marked comments than the limits and the deaths of the process allow.
THEOREM TypeCorrect == Spec => []TypeOK
<1>1. Init => Bounded
  <2>1. 0 \in 0..MaxRetries /\ 0 \in 0..MaxWaits /\ 0 \in 0..MaxCrashes
    BY MutationAssumption
  <2> QED
    BY <2>1 DEF Init, Bounded
<1>2. MutationInv /\ Bounded => TypeOK
  <2> SUFFICES ASSUME MutationInv, Bounded PROVE TypeOK
    OBVIOUS
  <2>1. marked \in 0..(1 + MaxCrashes)
    <3>1. MaxCrashes \in Nat /\ landed \in Nat
      BY MutationAssumption DEF MutationInv, MutationTypes
    <3>2. marked = 0 \/ (marked = landed /\ landed <= 1)
      BY DEF MutationInv, LandedShows, AtMostOnce, Bounded
    <3> QED
      BY <3>1, <3>2
  <2>2. pull \in [state : {"open", "closed", "merged"}, head : 0..MaxHead]
    BY DEF MutationInv, MutationTypes, Bounded
  <2> QED
    BY <2>1, <2>2 DEF MutationInv, MutationTypes, Bounded, TypeOK
<1> QED
  BY <1>1, <1>2, InitMutationInv, NextMutationInv, StepBounded, PTL DEF Spec

-----------------------------------------------------------------------------
(* The listings: what changes under them, and what a page holds            *)

LEMMA SmallerOfTwo ==
    ASSUME NEW a \in Nat, NEW b \in Nat
    PROVE  /\ Min({a, b}) \in Nat
           /\ Min({a, b}) = IF a <= b THEN a ELSE b
<1> DEFINE least == IF a <= b THEN a ELSE b
<1>1. least \in {a, b} /\ \A y \in {a, b} : least <= y
  OBVIOUS
<1>2. \A x \in {a, b} : (\A y \in {a, b} : x <= y) => x = least
  OBVIOUS
<1> HIDE DEF least
<1>3. Min({a, b}) = least
  BY <1>1, <1>2 DEF Min
<1> QED
  BY <1>3 DEF least

\* One item less, the others in their order.
LEMMA OneLess ==
    ASSUME NEW s \in Seq(Items), NEW at \in 1..Len(s)
    PROVE  /\ RemoveAt(s, at) \in Seq(Items)
           /\ Len(RemoveAt(s, at)) = Len(s) - 1
<1> DEFINE before == SubSeq(s, 1, at - 1)
           behind == SubSeq(s, at + 1, Len(s))
<1>1. Len(s) \in Nat /\ \A i \in 1..Len(s) : s[i] \in Items
  BY LenProperties
<1>2. before \in Seq(Items) /\ Len(before) = at - 1
  <2>1. 1 \in Int /\ at - 1 \in Int /\ \A i \in 1..(at - 1) : s[i] \in Items
    BY <1>1
  <2> QED
    BY <1>1, <2>1, SubSeqProperties
<1>3. behind \in Seq(Items) /\ Len(behind) = Len(s) - at
  <2>1. at + 1 \in Int /\ Len(s) \in Int /\ \A i \in (at + 1)..Len(s) : s[i] \in Items
    BY <1>1
  <2> QED
    BY <1>1, <2>1, SubSeqProperties
<1>4. RemoveAt(s, at) = before \o behind
  BY DEF RemoveAt
<1> HIDE DEF before, behind
<1>5. before \o behind \in Seq(Items) /\ Len(before \o behind) = Len(before) + Len(behind)
  BY <1>2, <1>3, ConcatProperties
<1>6. Len(before) + Len(behind) = Len(s) - 1
  BY <1>1, <1>2, <1>3
<1> QED
  BY <1>4, <1>5, <1>6

\* One item more: those before it keep their places, those behind it move by one.
LEMMA OneMore ==
    ASSUME NEW s \in Seq(Items), NEW at \in 1..(Len(s) + 1), NEW item \in Items,
           NEW more, more = InsertAt(s, at, item)
    PROVE  /\ more \in Seq(Items)
           /\ Len(more) = Len(s) + 1
           /\ \A i \in 1..(at - 1) : more[i] = s[i]
           /\ more[at] = item
           /\ \A i \in (at + 1)..(Len(s) + 1) : more[i] = s[i - 1]
<1> DEFINE before == SubSeq(s, 1, at - 1)
           behind == SubSeq(s, at, Len(s))
           half == before \o <<item>>
<1>1. Len(s) \in Nat /\ \A i \in 1..Len(s) : s[i] \in Items
  BY LenProperties
<1>2. /\ before \in Seq(Items)
      /\ Len(before) = at - 1
      /\ \A i \in 1..(at - 1) : before[i] = s[i]
  <2>1. 1 \in Int /\ at - 1 \in Int /\ \A i \in 1..(at - 1) : s[i] \in Items
    BY <1>1
  <2>2. /\ SubSeq(s, 1, at - 1) \in Seq(Items)
        /\ Len(SubSeq(s, 1, at - 1)) = IF 1 <= at - 1 THEN (at - 1) - 1 + 1 ELSE 0
        /\ \A i \in 1..((at - 1) - 1 + 1) : SubSeq(s, 1, at - 1)[i] = s[1 + i - 1]
    BY <2>1, SubSeqProperties
  <2> QED
    BY <1>1, <2>2
<1>3. /\ behind \in Seq(Items)
      /\ Len(behind) = Len(s) - at + 1
      /\ \A i \in 1..(Len(s) - at + 1) : behind[i] = s[at + i - 1]
  <2>1. at \in Int /\ Len(s) \in Int /\ \A i \in at..Len(s) : s[i] \in Items
    BY <1>1
  <2>2. /\ SubSeq(s, at, Len(s)) \in Seq(Items)
        /\ Len(SubSeq(s, at, Len(s))) = IF at <= Len(s) THEN Len(s) - at + 1 ELSE 0
        /\ \A i \in 1..(Len(s) - at + 1) : SubSeq(s, at, Len(s))[i] = s[at + i - 1]
    BY <2>1, SubSeqProperties
  <2> QED
    BY <1>1, <2>2
<1>4. <<item>> \in Seq(Items) /\ Len(<<item>>) = 1 /\ <<item>>[1] = item
  OBVIOUS
<1> HIDE DEF before, behind
<1>5. /\ half \in Seq(Items)
      /\ Len(half) = at
      /\ \A i \in 1..at : half[i] = IF i < at THEN s[i] ELSE item
  <2>1. /\ half \in Seq(Items)
        /\ Len(half) = Len(before) + Len(<<item>>)
        /\ \A i \in 1..(Len(before) + Len(<<item>>)) :
             half[i] = IF i <= Len(before) THEN before[i] ELSE <<item>>[i - Len(before)]
    BY <1>2, <1>4, ConcatProperties
  <2> QED
    BY <1>1, <1>2, <1>4, <2>1
<1> HIDE DEF half
<1>6. more = half \o behind
  BY DEF InsertAt, half, before, behind
<1>7. /\ half \o behind \in Seq(Items)
      /\ Len(half \o behind) = Len(half) + Len(behind)
      /\ \A i \in 1..(Len(half) + Len(behind)) :
           (half \o behind)[i] = IF i <= Len(half) THEN half[i] ELSE behind[i - Len(half)]
  BY <1>3, <1>5, ConcatProperties
<1> QED
  BY <1>1, <1>3, <1>5, <1>6, <1>7

Pages == [total : Nat, items : Seq(Items)]

\* A page holds what stands in its range, no more than was asked for, and only a
\* page that reaches the end is short.
LEMMA PageHolds ==
    ASSUME there \in Seq(Items), NEW n \in Nat \ {0}
    PROVE  /\ Page(n) \in Pages
           /\ Page(n).total = Len(there)
           /\ Len(Page(n).items) <= PageSize
           /\ ToSet(Page(n).items) \subseteq ToSet(there)
           /\ \A i \in 1..Len(there) :
                (n - 1) * PageSize < i /\ i <= n * PageSize => there[i] \in ToSet(Page(n).items)
           /\ Len(Page(n).items) < PageSize => Len(there) <= n * PageSize
<1>1. /\ Len(there) \in Nat
      /\ DOMAIN there = 1..Len(there)
      /\ \A i \in 1..Len(there) : there[i] \in Items
  BY LenProperties
<1>2. PICK before \in Nat : before = (n - 1) * PageSize /\ n * PageSize = before + PageSize
  BY ListingAssumption
<1>3. PICK end \in Nat :
        /\ end = Min({n * PageSize, Len(there)})
        /\ end = IF before + PageSize <= Len(there) THEN before + PageSize ELSE Len(there)
  <2> DEFINE reach == before + PageSize
  <2>1. reach \in Nat /\ n * PageSize = reach
    BY <1>2, ListingAssumption
  <2> HIDE DEF reach
  <2>2. /\ Min({reach, Len(there)}) \in Nat
        /\ Min({reach, Len(there)}) = IF reach <= Len(there) THEN reach ELSE Len(there)
    BY <1>1, <2>1, SmallerOfTwo
  <2> QED
    BY <2>1, <2>2 DEF reach
<1>4. end <= Len(there) /\ end <= before + PageSize
  BY <1>1, <1>2, <1>3, ListingAssumption
<1> DEFINE items == SubSeq(there, before + 1, end)
<1>5. /\ items \in Seq(Items)
      /\ Len(items) = IF before + 1 <= end THEN end - before ELSE 0
      /\ \A i \in 1..(end - before) : items[i] = there[before + i]
  <2>1. before + 1 \in Int /\ end \in Int /\ \A i \in (before + 1)..end : there[i] \in Items
    BY <1>1, <1>4
  <2>2. /\ SubSeq(there, before + 1, end) \in Seq(Items)
        /\ Len(SubSeq(there, before + 1, end)) =
             IF before + 1 <= end THEN end - (before + 1) + 1 ELSE 0
        /\ \A i \in 1..(end - (before + 1) + 1) :
             SubSeq(there, before + 1, end)[i] = there[(before + 1) + i - 1]
    BY <2>1, SubSeqProperties
  <2> QED
    BY <2>2
<1>6. Page(n) = [total |-> Len(there), items |-> items]
  BY <1>2, <1>3 DEF Page
<1> HIDE DEF items
<1>7. DOMAIN items = 1..Len(items)
  BY <1>5, LenProperties
<1>8. Page(n) \in Pages /\ Page(n).total = Len(there) /\ Page(n).items = items
  BY <1>1, <1>5, <1>6 DEF Pages
<1>9. Len(items) <= PageSize /\ (Len(items) < PageSize => Len(there) <= n * PageSize)
  <2>1. Len(items) <= PageSize /\ (Len(items) < PageSize => Len(there) <= before + PageSize)
    BY <1>1, <1>3, <1>4, <1>5, ListingAssumption
  <2> QED
    BY <1>2, <2>1
<1>10. ToSet(items) \subseteq ToSet(there)
  <2> SUFFICES ASSUME NEW i \in 1..Len(items) PROVE items[i] \in ToSet(there)
    BY <1>7 DEF ToSet
  <2>1. items[i] = there[before + i] /\ before + i \in 1..Len(there)
    BY <1>1, <1>4, <1>5
  <2> QED
    BY <1>1, <2>1 DEF ToSet
<1>11. \A i \in 1..Len(there) :
         (n - 1) * PageSize < i /\ i <= n * PageSize => there[i] \in ToSet(items)
  <2> SUFFICES ASSUME NEW i \in 1..Len(there), before < i, i <= before + PageSize
               PROVE  there[i] \in ToSet(items)
    BY <1>2
  <2>1. i - before \in 1..Len(items) /\ i - before \in 1..(end - before)
    BY <1>1, <1>3, <1>4, <1>5, ListingAssumption
  <2>2. items[i - before] = there[i]
    BY <1>5, <2>1
  <2> QED
    BY <1>7, <2>1, <2>2 DEF ToSet
<1> QED
  BY <1>8, <1>9, <1>10, <1>11

\* What a page adds to the listing.
LEMMA ReadMore ==
    ASSUME NEW read \in Seq(Pages), NEW page \in Pages
    PROVE  /\ Append(read, page) \in Seq(Pages)
           /\ Len(Append(read, page)) = Len(read) + 1
           /\ Append(read, page)[Len(read) + 1] = page
           /\ \A n \in 1..Len(read) : Append(read, page)[n] = read[n]
           /\ Listed(Append(read, page)) = Listed(read) \cup ToSet(page.items)
<1>1. Len(read) \in Nat
  BY LenProperties
<1>2. /\ Append(read, page) \in Seq(Pages)
      /\ Len(Append(read, page)) = Len(read) + 1
      /\ Append(read, page)[Len(read) + 1] = page
      /\ \A n \in 1..Len(read) : Append(read, page)[n] = read[n]
  BY AppendProperties, LenProperties
<1> DEFINE more == Append(read, page)
<1> HIDE DEF more
<1>3. UNION {ToSet(more[n].items) : n \in 1..Len(more)}
        = (UNION {ToSet(read[n].items) : n \in 1..Len(read)}) \cup ToSet(page.items)
  <2>1. 1..Len(more) = 1..Len(read) \cup {Len(read) + 1}
    BY <1>1, <1>2 DEF more
  <2>2. /\ ToSet(more[Len(read) + 1].items) = ToSet(page.items)
        /\ \A n \in 1..Len(read) : ToSet(more[n].items) = ToSet(read[n].items)
    BY <1>2 DEF more
  <2>3. ASSUME NEW x
        PROVE  (\E n \in 1..Len(more) : x \in ToSet(more[n].items))
                 <=> (\E n \in 1..Len(read) : x \in ToSet(read[n].items)) \/ x \in ToSet(page.items)
    <3>1. \A n \in 1..Len(more) : n \in 1..Len(read) \/ n = Len(read) + 1
      BY <2>1
    <3>2. Len(read) + 1 \in 1..Len(more) /\ \A n \in 1..Len(read) : n \in 1..Len(more)
      BY <2>1
    <3> QED
      BY <2>2, <3>1, <3>2
  <2> DEFINE after == UNION {ToSet(more[n].items) : n \in 1..Len(more)}
             sofar == UNION {ToSet(read[n].items) : n \in 1..Len(read)}
  <2>4. \A x : /\ x \in after <=> \E n \in 1..Len(more) : x \in ToSet(more[n].items)
               /\ x \in sofar <=> \E n \in 1..Len(read) : x \in ToSet(read[n].items)
    OBVIOUS
  <2> HIDE DEF after, sofar
  <2>5. \A x : x \in after <=> x \in sofar \cup ToSet(page.items)
    BY <2>3, <2>4
  <2>6. after = sofar \cup ToSet(page.items)
    BY <2>5
  <2> QED
    BY <2>6 DEF after, sofar
<1> QED
  BY <1>2, <1>3 DEF Listed, more

\* What the first page tells.
LEMMA FirstTotal ==
    ASSUME NEW read \in Seq(Pages), read # <<>>
    PROVE  1 \in 1..Len(read) /\ read[1].total \in Nat
<1>1. Len(read) \in Nat \ {0}
  BY EmptySeq
<1>2. 1 \in 1..Len(read)
  BY <1>1
<1>3. read[1] \in Pages
  BY <1>2, ElementOfSeq
<1> QED
  BY <1>2, <1>3 DEF Pages

\* A sequence holds no more than it is long.
LEMMA NoMoreThanLong ==
    ASSUME NEW s \in Seq(Items)
    PROVE  IsFiniteSet(ToSet(s)) /\ Cardinality(ToSet(s)) <= Len(s)
<1>1. Len(s) \in Nat /\ DOMAIN s = 1..Len(s) /\ s \in [1..Len(s) -> Items]
  BY LenProperties
<1>2. s \in Surjection(1..Len(s), ToSet(s))
  BY <1>1 DEF Surjection, ToSet
<1>3. IsFiniteSet(1..Len(s)) /\ Cardinality(1..Len(s)) = Len(s)
  BY <1>1, FS_Interval
<1> QED
  BY <1>2, <1>3, FS_Surjection

-----------------------------------------------------------------------------
(* What a listing that is accepted is worth                                *)

\* The type invariant, with what the pages and the collection are made of.
ListingTypes ==
    /\ kind \in Kinds
    /\ there \in Seq(Items)
    /\ pages \in Seq(Pages)
    /\ \A n \in 1..Len(pages) : Len(pages[n].items) <= PageSize
    /\ listing \in {"reading", "listed", "shifted"}
    /\ changes \in 0..MaxChanges
    /\ left \subseteq Items
    /\ joined \subseteq Items

\* While items only leave, or only join, the collection's length tells whether
\* one did since the first page; if none did, what was read is still there.
TotalsTell ==
    listing = "reading" /\ pages # <<>> =>
        /\ joined = {} => Len(there) <= pages[1].total
        /\ left = {} => Len(there) >= pages[1].total
        /\ (joined = {} \/ left = {}) /\ Len(there) = pages[1].total =>
             Listed(pages) \subseteq ToSet(there)

\* While none leaves, nothing slips from a page to come into one already read.
NothingSlips ==
    listing = "reading" /\ left = {} =>
        \A i \in 1..Len(there) :
            i <= Len(pages) * PageSize => there[i] \in Listed(pages) \cup joined

\* What the listing has once it is accepted.
Accepted ==
    listing = "listed" =>
        /\ left = {} => Throughout \subseteq Listed(pages)
        /\ kind = "repositories" /\ joined = {} => Throughout \subseteq Listed(pages)

ListingInv == ListingTypes /\ TotalsTell /\ NothingSlips /\ Accepted

LEMMA InitListingInv == ListingInit => ListingInv
<1> SUFFICES ASSUME ListingInit PROVE ListingInv
  OBVIOUS
<1>1. PICK n \in 0..MaxItems : there = [i \in 1..n |-> i]
  BY DEF ListingInit
<1>2. there \in Seq(Items)
  <2>1. n \in Nat /\ \A i \in 1..n : i \in Items
    BY ListingAssumption DEF Items
  <2> QED
    BY <1>1, <2>1, IsASeq
<1>3. pages = <<>> /\ pages \in Seq(Pages) /\ Len(pages) = 0
  BY EmptySeq DEF ListingInit
<1>4. ListingTypes
  BY <1>2, <1>3, ListingAssumption DEF ListingInit, ListingTypes
<1>5. NothingSlips
  BY <1>3, ListingAssumption DEF NothingSlips
<1> QED
  BY <1>3, <1>4, <1>5 DEF ListingInit, ListingInv, TotalsTell, Accepted

\* A listing that starts over has read nothing yet.
LEMMA StartOverListingInv ==
    ASSUME ListingInv, StartOver
    PROVE  ListingInv'
<1>1. pages' = <<>> /\ pages' \in Seq(Pages) /\ Len(pages') = 0
  BY EmptySeq DEF StartOver
<1>2. ListingTypes'
  BY <1>1 DEF ListingInv, ListingTypes, StartOver
<1>3. NothingSlips'
  BY <1>1, ListingAssumption DEF NothingSlips
<1> QED
  BY <1>1, <1>2, <1>3 DEF ListingInv, TotalsTell, Accepted, StartOver

\* An item that leaves makes the collection shorter than the first page told.
LEMMA LeavesListingInv ==
    ASSUME ListingInv, NEW at \in 1..Len(there), Leaves(at)
    PROVE  ListingInv'
<1>1. there \in Seq(Items) /\ pages \in Seq(Pages) /\ Len(there) \in Nat /\ Len(pages) \in Nat
  BY LenProperties DEF ListingInv, ListingTypes
<1>2. there' \in Seq(Items) /\ Len(there') = Len(there) - 1
  BY <1>1, OneLess DEF Leaves
<1>3. left' # {} /\ left' \subseteq Items
  <2>1. there[at] \in Items
    BY <1>1, ElementOfSeq
  <2> QED
    BY <2>1 DEF Leaves, ListingInv, ListingTypes
<1>4. ListingTypes'
  <2>1. changes' \in 0..MaxChanges
    BY ListingAssumption DEF Leaves, ListingInv, ListingTypes
  <2> QED
    BY <1>2, <1>3, <2>1 DEF Leaves, ListingInv, ListingTypes
<1>5. TotalsTell'
  <2> SUFFICES ASSUME listing = "reading", pages # <<>>, joined = {}
               PROVE  Len(there') < pages[1].total
    <3>1. joined' = joined /\ left' # {} /\ pages' = pages /\ listing' = listing
      BY <1>3 DEF Leaves
    <3>2. pages # <<>> => pages[1].total \in Nat
      BY <1>1, FirstTotal
    <3> QED
      BY <1>1, <1>2, <3>1, <3>2 DEF TotalsTell
  <2>1. Len(there) <= pages[1].total
    BY DEF ListingInv, TotalsTell
  <2>2. pages[1].total \in Nat
    BY <1>1, FirstTotal
  <2> QED
    BY <1>1, <1>2, <2>1, <2>2
<1> QED
  BY <1>3, <1>4, <1>5 DEF ListingInv, NothingSlips, Accepted, Leaves

\* An item that joins makes it longer, and moves the others only to later pages.
LEMMA JoinsListingInv ==
    ASSUME ListingInv, NEW item \in Items, Joins(item)
    PROVE  ListingInv'
<1>1. there \in Seq(Items) /\ pages \in Seq(Pages) /\ Len(there) \in Nat /\ Len(pages) \in Nat
  BY LenProperties DEF ListingInv, ListingTypes
<1>2. PICK at \in 1..(Len(there) + 1) : there' = InsertAt(there, at, item)
  BY DEF Joins
<1>3. /\ there' \in Seq(Items)
      /\ Len(there') = Len(there) + 1
      /\ \A i \in 1..(at - 1) : there'[i] = there[i]
      /\ there'[at] = item
      /\ \A i \in (at + 1)..(Len(there) + 1) : there'[i] = there[i - 1]
  <2>1. PICK s, more : s = there /\ more = there'
    OBVIOUS
  <2>2. s \in Seq(Items) /\ at \in 1..(Len(s) + 1) /\ item \in Items /\ more = InsertAt(s, at, item)
    BY <1>1, <1>2, <2>1
  <2>3. /\ more \in Seq(Items)
        /\ Len(more) = Len(s) + 1
        /\ \A i \in 1..(at - 1) : more[i] = s[i]
        /\ more[at] = item
        /\ \A i \in (at + 1)..(Len(s) + 1) : more[i] = s[i - 1]
    BY <2>2, OneMore, SMTT(60)
  <2> QED
    BY <2>1, <2>3
<1>4. ListingTypes'
  <2>1. changes' \in 0..MaxChanges
    BY ListingAssumption DEF Joins, ListingInv, ListingTypes
  <2> QED
    BY <1>3, <2>1 DEF Joins, ListingInv, ListingTypes
<1>5. TotalsTell'
  <2> SUFFICES ASSUME listing = "reading", pages # <<>>, left = {}
               PROVE  Len(there') > pages[1].total
    <3>1. joined' # {} /\ left' = left /\ pages' = pages /\ listing' = listing
      BY DEF Joins
    <3>2. pages # <<>> => pages[1].total \in Nat
      BY <1>1, FirstTotal
    <3> QED
      BY <1>1, <1>3, <3>1, <3>2 DEF TotalsTell
  <2>1. Len(there) >= pages[1].total
    BY DEF ListingInv, TotalsTell
  <2>2. pages[1].total \in Nat
    BY <1>1, FirstTotal
  <2> QED
    BY <1>1, <1>3, <2>1, <2>2
<1>6. NothingSlips'
  <2> SUFFICES ASSUME listing = "reading", left = {}, NEW i \in 1..Len(there'),
                      i <= Len(pages) * PageSize
               PROVE  there'[i] \in Listed(pages) \cup joined'
    BY DEF Joins, NothingSlips
  <2>1. PICK reach \in Nat : reach = Len(pages) * PageSize
    BY <1>1, ListingAssumption
  <2>2. \A j \in 1..Len(there) : j <= reach => there[j] \in Listed(pages) \cup joined
    BY <2>1 DEF ListingInv, NothingSlips
  <2>3. joined' = joined \cup {item}
    BY DEF Joins
  <2>4. i \in 1..(Len(there) + 1) /\ i <= reach
    BY <1>3, <2>1
  <2>5. CASE i < at
    <3>1. i \in 1..Len(there) /\ i \in 1..(at - 1) /\ i <= reach
      BY <1>1, <2>4, <2>5
    <3>2. there'[i] = there[i]
      BY <1>3, <3>1
    <3> QED
      BY <2>2, <2>3, <3>1, <3>2
  <2>6. CASE i = at
    BY <1>3, <2>3, <2>6
  <2>7. CASE i > at
    <3>1. i - 1 \in 1..Len(there) /\ i \in (at + 1)..(Len(there) + 1) /\ i - 1 <= reach
      BY <1>1, <2>7, <2>4
    <3>2. there'[i] = there[i - 1]
      BY <1>3, <3>1
    <3> QED
      BY <2>2, <2>3, <3>1, <3>2
  <2> QED
    BY <2>5, <2>6, <2>7, <2>4
<1> QED
  BY <1>4, <1>5, <1>6 DEF ListingInv, Accepted, Joins

\* A page that is read shows what is there; the last one settles what the
\* listing is worth.
LEMMA ReadPageListingInv ==
    ASSUME ListingInv, ReadPage
    PROVE  ListingInv'
<1>1. /\ listing = "reading" /\ kind' = kind /\ there' = there
      /\ changes' = changes /\ left' = left /\ joined' = joined
  BY DEF ReadPage
<1>2. there \in Seq(Items) /\ pages \in Seq(Pages) /\ Len(there) \in Nat /\ Len(pages) \in Nat
  BY LenProperties DEF ListingInv, ListingTypes
<1>3. PICK n \in Nat \ {0} : n = Len(pages) + 1
  BY <1>2
<1>4. PICK page : page = Page(n)
  OBVIOUS
<1>5. /\ page \in Pages /\ page.total = Len(there)
      /\ Len(page.items) <= PageSize
      /\ ToSet(page.items) \subseteq ToSet(there)
      /\ \A i \in 1..Len(there) :
           (n - 1) * PageSize < i /\ i <= n * PageSize => there[i] \in ToSet(page.items)
      /\ Len(page.items) < PageSize => Len(there) <= n * PageSize
  BY <1>2, <1>4, PageHolds
<1>6. /\ pages' = Append(pages, page)
      /\ pages' \in Seq(Pages)
      /\ Len(pages') = n
      /\ pages'[n] = page
      /\ \A m \in 1..Len(pages) : pages'[m] = pages[m]
      /\ Listed(pages') = Listed(pages) \cup ToSet(page.items)
  <2>1. pages' = Append(pages, page)
    BY <1>3, <1>4 DEF ReadPage
  <2> QED
    BY <1>2, <1>3, <1>5, <2>1, ReadMore
<1>7. ListingTypes'
  <2>1. listing' \in {"reading", "listed", "shifted"}
    BY DEF ReadPage
  <2>2. \A m \in 1..Len(pages') : Len(pages'[m].items) <= PageSize
    <3>1. \A m \in 1..Len(pages') : m \in 1..Len(pages) \/ m = n
      BY <1>2, <1>3, <1>6
    <3> QED
      BY <1>5, <1>6, <3>1 DEF ListingInv, ListingTypes
  <2> QED
    BY <1>1, <1>6, <2>1, <2>2 DEF ListingInv, ListingTypes
<1>8. /\ joined = {} => Len(there) <= pages'[1].total
      /\ left = {} => Len(there) >= pages'[1].total
      /\ (joined = {} \/ left = {}) /\ Len(there) = pages'[1].total =>
           Listed(pages') \subseteq ToSet(there)
  <2>1. CASE pages = <<>>
    <3>1. Len(pages) = 0 /\ n = 1 /\ Listed(pages) = {}
      BY <1>3, <2>1, EmptySeq DEF Listed
    <3> QED
      BY <1>2, <1>5, <1>6, <3>1
  <2>2. CASE pages # <<>>
    <3>1. pages'[1] = pages[1]
      BY <1>2, <1>6, <2>2, FirstTotal
    <3> QED
      BY <1>1, <1>5, <1>6, <2>2, <3>1 DEF ListingInv, TotalsTell
  <2> QED
    BY <2>1, <2>2
<1>9. left = {} => \A i \in 1..Len(there) :
                     i <= n * PageSize => there[i] \in Listed(pages') \cup joined
  <2> SUFFICES ASSUME left = {}, NEW i \in 1..Len(there), i <= n * PageSize
               PROVE  there[i] \in Listed(pages') \cup joined
    OBVIOUS
  <2>1. n - 1 = Len(pages)
    BY <1>2, <1>3
  <2>2. CASE i <= (n - 1) * PageSize
    BY <1>1, <1>6, <2>1, <2>2 DEF ListingInv, NothingSlips
  <2>3. CASE (n - 1) * PageSize < i
    BY <1>5, <1>6, <2>3
  <2>4. (n - 1) * PageSize \in Nat
    BY ListingAssumption
  <2> QED
    BY <1>2, <2>2, <2>3, <2>4
<1>10. ASSUME listing' = "listed", left = {} \/ joined = {}, kind = "repositories"
       PROVE  Listed(pages') = ToSet(there)
  <2>1. fold_repository_pages(pages')
    BY <1>10 DEF ReadPage
  <2>2. pages'[n].total = pages'[1].total /\ Cardinality(Listed(pages')) = pages'[1].total
    BY <1>3, <1>6, <2>1 DEF fold_repository_pages
  <2>3. Listed(pages') \subseteq ToSet(there) /\ Cardinality(Listed(pages')) = Len(there)
    BY <1>5, <1>6, <1>8, <1>10, <2>2
  <2>4. IsFiniteSet(ToSet(there)) /\ Cardinality(ToSet(there)) <= Len(there)
    BY <1>2, NoMoreThanLong
  <2>5. Cardinality(ToSet(there)) \in Nat
    BY <2>4, FS_CardinalityType
  <2>6. PICK read : read = Listed(pages')
    OBVIOUS
  <2>7. PICK all : all = ToSet(there)
    OBVIOUS
  <2>8. read \in SUBSET all /\ IsFiniteSet(all)
    BY <2>3, <2>4, <2>6, <2>7
  <2>9. Cardinality(read) <= Cardinality(all) /\ (Cardinality(all) = Cardinality(read) => all = read)
    BY <2>8, FS_Subset
  <2>10. Cardinality(all) = Cardinality(read)
    BY <1>2, <2>3, <2>4, <2>5, <2>6, <2>7, <2>9
  <2> QED
    BY <2>6, <2>7, <2>9, <2>10
<1>11. ASSUME listing' = "listed", left = {}, kind = "pulls"
       PROVE  Throughout \subseteq Listed(pages')
  <2>1. IsLastPage(pages')
    BY <1>11 DEF ReadPage
  <2>2. Len(page.items) < PageSize
    BY <1>6, <1>11, <2>1 DEF IsLastPage
  <2>3. \A i \in 1..Len(there) : i <= n * PageSize
    <3>1. PICK reach \in Nat : reach = n * PageSize
      BY ListingAssumption
    <3>2. Len(there) <= reach
      BY <1>5, <2>2, <3>1
    <3> QED
      BY <1>2, <3>1, <3>2
  <2>4. \A i \in 1..Len(there) : there[i] \in Listed(pages') \cup joined
    BY <1>9, <1>11, <2>3
  <2>5. DOMAIN there = 1..Len(there)
    BY <1>2, LenProperties
  <2> QED
    BY <2>4, <2>5 DEF Throughout, ToSet
<1>12. TotalsTell'
  BY <1>1, <1>8 DEF TotalsTell
<1>13. NothingSlips'
  BY <1>1, <1>6, <1>9 DEF NothingSlips
<1>14. Accepted'
  <2>1. Throughout' = Throughout
    BY <1>1 DEF Throughout
  <2>2. Throughout \subseteq ToSet(there)
    BY DEF Throughout
  <2>3. kind = "repositories" \/ kind = "pulls"
    BY ListingAssumption DEF ListingInv, ListingTypes
  <2> QED
    BY <1>1, <1>10, <1>11, <2>1, <2>2, <2>3 DEF Accepted
<1> QED
  BY <1>7, <1>12, <1>13, <1>14 DEF ListingInv

LEMMA StepListingInv == ListingInv /\ [ListingNext]_listingVars => ListingInv'
<1> SUFFICES ASSUME ListingInv, [ListingNext]_listingVars PROVE ListingInv'
  OBVIOUS
<1>1. CASE ReadPage
  BY <1>1, ReadPageListingInv
<1>2. CASE StartOver
  BY <1>2, StartOverListingInv
<1>3. CASE \E at \in 1..Len(there) : Leaves(at)
  BY <1>3, LeavesListingInv
<1>4. CASE \E i \in Items : Joins(i)
  BY <1>4, JoinsListingInv
<1>5. CASE UNCHANGED listingVars
  BY <1>5 DEF listingVars, ListingInv, ListingTypes, TotalsTell, NothingSlips, Accepted, Throughout
<1> QED
  BY <1>1, <1>2, <1>3, <1>4, <1>5 DEF ListingNext

LEMMA ListingKeepsInv == ListingSpec => []ListingInv
BY InitListingInv, StepListingInv, PTL DEF ListingSpec

\* The listing's types are kept, and no page is longer than was asked for.
THEOREM ListingTypeCorrect == ListingSpec => []ListingTypeOK
<1>1. ListingInv => ListingTypeOK
  <2> SUFFICES ASSUME ListingInv PROVE ToSet(there) \subseteq Items
    BY DEF ListingInv, ListingTypes, ListingTypeOK
  <2>1. DOMAIN there = 1..Len(there) /\ \A i \in 1..Len(there) : there[i] \in Items
    BY LenProperties DEF ListingInv, ListingTypes
  <2> QED
    BY <2>1 DEF ToSet
<1> QED
  BY <1>1, ListingKeepsInv, PTL

\* fold_repository_pages: the repositories a sweep prunes by miss none that was
\* there throughout, short of one that left while another joined.
THEOREM ListedIsCompleteOrSwappedHolds ==
    ListingSpec => [](kind = "repositories" => ListedIsCompleteOrSwapped)
<1>1. ListingInv => (kind = "repositories" => ListedIsCompleteOrSwapped)
  BY DEF ListingInv, Accepted, ListedIsCompleteOrSwapped
<1> QED
  BY <1>1, ListingKeepsInv, PTL

\* list_dependabot_prs compares nothing across its pages: neither listing misses
\* anything as long as nothing leaves, and this is all the pull requests have.
THEOREM ListedIsCompleteIfNoneLeft == ListingSpec => [](left = {} => ListedIsComplete)
<1>1. ListingInv => (left = {} => ListedIsComplete)
  BY DEF ListingInv, Accepted, ListedIsComplete
<1> QED
  BY <1>1, ListingKeepsInv, PTL
=============================================================================
