---------------------------- MODULE PullRequest ----------------------------
(***************************************************************************)
(* What the delivery reconciler and the legacy ship gate share: one run's  *)
(* branch, its pull request and the checks GitHub reports for its head.    *)
(*                                                                         *)
(* A head is the sequence of commits over the head the review accepted:    *)
(* "finish" is the delivery worker's, "bump" the gate's version bump, and  *)
(* "other" any commit that no review has seen.  GitHub, the project's      *)
(* people and its CI act on their own; Moves bounds what they do.          *)
(***************************************************************************)
EXTENDS Integers, Sequences, FiniteSets, SequencesExt

CONSTANTS MaxMoves, MaxFaults, MaxCommits

ASSUME PullRequestAssumption ==
  /\ MaxMoves \in Nat
  /\ MaxFaults \in Nat
  /\ MaxCommits \in Nat \ {0}

VARIABLES
  branch,   \* the local head of the run's branch
  remote,   \* its head on origin
  pr,       \* the pull request: state, and the head it was merged or closed with
  ci,       \* the rollup and the suites GitHub holds for the pull request's head
  moves,    \* acts of people and workers the code did not ask for
  faults    \* commands that failed, processes that died

prVars == <<branch, remote, pr, ci, moves, faults>>

Commits == {"finish", "bump", "other"}
Heads == BoundedSeq(Commits, MaxCommits)

-----------------------------------------------------------------------------
(* The evidence of a head: the states of its rollup; its check suites, each *)
(* with the runs it made, whether it concluded and the app behind it; does  *)
(* the page list them all; the number of legacy statuses.                   *)

Evidence(states, suites, listed) ==
  [states |-> states, suites |-> suites, listed |-> listed, statuses |-> 0]
Suite(concluded, app) == [runs |-> 0, concluded |-> concluded, app |-> app]

Running == Evidence({"QUEUED", "SUCCESS"}, {}, TRUE)
Passing == Evidence({"SUCCESS", "SKIPPED"}, {}, TRUE)
Failing == Evidence({"SUCCESS", "FAILURE"}, {}, TRUE)
Unheard == Evidence({"SUCCESS", "NEW_STATE"}, {}, TRUE)
NoGate  == Evidence({}, {Suite(FALSE, "codecov")}, TRUE)
Startup == Evidence({}, {Suite(TRUE, "github-actions")}, TRUE)
Waiting == Evidence({}, {Suite(FALSE, "github-actions")}, TRUE)
Paged   == Evidence({}, {Suite(FALSE, "codecov")}, FALSE)
Legacy  == [NoGate EXCEPT !.statuses = 1]

Rollups == {Running, Passing, Failing, Unheard, NoGate, Startup, Waiting, Paged, Legacy}

CHECKS_GREEN == {"SUCCESS", "SKIPPED", "NEUTRAL"}
CHECKS_RED == {"ERROR", "FAILURE", "TIMED_OUT", "ACTION_REQUIRED", "CANCELLED", "STALE",
               "STARTUP_FAILURE"}
CHECKS_TRANSIENT == {"EXPECTED", "REQUESTED", "WAITING", "QUEUED", "PENDING", "IN_PROGRESS", ""}

\* An empty rollup means "no gate" only if the commit's suites and statuses say so too.
RollupIsHonestlyEmpty(e) ==
  /\ e.listed
  /\ \A s \in e.suites : s.runs = 0 /\ ~s.concluded /\ s.app # "github-actions"
  /\ e.statuses = 0

ClassifyCheckStates(states) ==
  IF ~(states \subseteq CHECKS_GREEN \cup CHECKS_RED \cup CHECKS_TRANSIENT) THEN "unavailable"
  ELSE IF states \cap CHECKS_RED # {} THEN "failed"
  ELSE IF states \cap CHECKS_TRANSIENT # {} THEN "pending"
  ELSE "passed"

CheckState(e) ==
  IF e.states # {} THEN ClassifyCheckStates(e.states)
  ELSE IF RollupIsHonestlyEmpty(e) THEN "passed" ELSE "unavailable"

\* The gate's own reading of a rollup that is not empty.
CiIsGreen(states) == states # {} /\ states \subseteq {"SUCCESS", "NEUTRAL", "SKIPPED"}

\* _corroborate_empty_rollup: the rollup must be that of the head to be merged.
CorroborateEmptyRollup(e, shown, head) == shown = head /\ RollupIsHonestlyEmpty(e)

-----------------------------------------------------------------------------
(* The pull request.                                                       *)

PrStates == {"none", "open", "merged", "closed"}

\* A pull request follows its branch while it is open.
PrHead == IF pr.state = "open" THEN remote ELSE pr.head

\* Other commits on the branch start CI anew; a merged or closed pull request is past that.
\* GitHub is taken to show the rollup of the new head from the push on.  (A rollup that lags
\* behind its head would pass both readings of it, which compare no head unless it is empty.)
SetRemote(h) ==
  /\ remote' = h
  /\ ci' = IF pr.state = "open" /\ h # remote THEN Running ELSE ci

Merges == pr' = [state |-> "merged", head |-> remote]

Fails ==
  /\ faults < MaxFaults
  /\ faults' = faults + 1

Moves ==
  /\ moves < MaxMoves
  /\ moves' = moves + 1

PrTypeOK ==
  /\ branch \in Heads
  /\ remote \in Heads
  /\ pr \in [state : PrStates, head : Heads]
  /\ ci \in Rollups
  /\ moves \in 0..MaxMoves
  /\ faults \in 0..MaxFaults

\* Checks that are running or about to start report, once.
CiReports ==
  /\ pr.state \in {"open", "merged"}
  /\ ci \in {Running, Waiting}
  /\ ci' \in Rollups \ {Running, ci}
  /\ UNCHANGED <<branch, remote, pr, moves, faults>>

\* Somebody commits on the branch where it is checked out.
CommitsLocally ==
  /\ Moves
  /\ Len(branch) < MaxCommits
  /\ branch' = Append(branch, "other")
  /\ UNCHANGED <<remote, pr, ci, faults>>

\* Somebody pushes to the branch from elsewhere.
PushesElsewhere ==
  /\ Moves
  /\ Len(remote) < MaxCommits
  /\ SetRemote(Append(remote, "other"))
  /\ UNCHANGED <<branch, pr, faults>>

ClosesPr ==
  /\ Moves
  /\ pr.state = "open"
  /\ pr' = [state |-> "closed", head |-> remote]
  /\ UNCHANGED <<branch, remote, ci, faults>>

PeopleAct == CiReports \/ CommitsLocally \/ PushesElsewhere \/ ClosesPr
=============================================================================
