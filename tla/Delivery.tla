------------------------------ MODULE Delivery ------------------------------
(***************************************************************************)
(* Delivery of one pinned run (todos_completion.py): the tick verifies the *)
(* finish worker's report, follows the pull request until a person merges  *)
(* it and its checks pass, and then closes the issue.  The state that      *)
(* outlives a tick is the run directory's marker files; everything else is *)
(* read again from git and GitHub on every tick.                           *)
(*                                                                         *)
(* Two processes close issues: the tick, and an operator's `tpo todos      *)
(* complete`, which takes no lock.  Commands of both fail, or take effect  *)
(* and time out; a comment is listed only some time after it is accepted.  *)
(*                                                                         *)
(* The run's profile is a modern one: its phase schedule admits the finish *)
(* card and the phases after it.  Comments by other logins and a project   *)
(* whose origin is retargeted are left out.                                *)
(***************************************************************************)
EXTENDS PullRequest

CONSTANTS Tick, Operator,   \* the processes that close the issue
          Own, Other        \* the run's pull request, another one of the repository

ASSUME DeliveryAssumption == Tick # Operator

VARIABLES
  card,      \* the finish card: "none", "open", "done"
  claim,     \* what the finish worker reported
  tail,      \* the phases after delivery are done
  files,     \* marker files in runs/<tick_id>
  pointer,   \* the run is still the project's current tick
  issue,     \* the issue: state, the in-progress label, a hold, an edit since it was pinned
  comments,  \* completion comments accepted, by marker
  listed,    \* markers the comment listing shows
  closer     \* closer[p] : the reconciliation or close under way

dVars == <<card, claim, tail, files, pointer, issue, comments, listed, closer>>

Closers == {Tick, Operator}
Prs == {Own, Other}
RunMarker == <<"run", Own>>
Manual(q) == <<"manual", q>>
Markers == {RunMarker} \cup {Manual(q) : q \in Prs}

NoClaim == [git |-> <<>>, head |-> <<>>, pr |-> Own]
Files == {"finish-verified", "issue-close-started", "issue-commented", "issue-closed", "abandoned"}
IssueStates == {"open", "completed", "not_planned"}
Idle == [pc |-> "idle", pr |-> Own, force |-> FALSE, open |-> FALSE, label |-> FALSE]
Pcs == {"idle", "finish", "view", "checks", "drift", "look", "comment", "record", "close",
        "label", "confirm"}

DeliveryTypeOK ==
  /\ card \in {"none", "open", "done"}
  /\ claim \in [git : Heads, head : Heads, pr : Prs]
  /\ tail \in BOOLEAN
  /\ files \subseteq Files
  /\ pointer \in BOOLEAN
  /\ issue \in [state : IssueStates, label : BOOLEAN, held : BOOLEAN, edited : BOOLEAN]
  /\ comments \in [Markers -> 0..(1 + MaxFaults + MaxMoves)]
  /\ listed \subseteq Markers
  /\ closer \in [Closers -> [pc : Pcs, pr : Prs, force : BOOLEAN, open : BOOLEAN, label : BOOLEAN]]

\* Nothing is delivered yet.
NoDeliveryInit ==
  /\ card = "none"
  /\ claim = NoClaim
  /\ tail = FALSE
  /\ files = {}
  /\ pointer = TRUE
  /\ issue = [state |-> "open", label |-> TRUE, held |-> FALSE, edited |-> FALSE]
  /\ comments = [m \in Markers |-> 0]
  /\ listed = {}
  /\ closer = [p \in Closers |-> Idle]

DeliveryInit ==
  /\ branch = <<>> /\ remote = <<>>
  /\ pr = [state |-> "none", head |-> <<>>]
  /\ ci = Running
  /\ moves = 0 /\ faults = 0
  /\ NoDeliveryInit

-----------------------------------------------------------------------------
(* Helpers.                                                                *)

\* registration_state: only an active run keeps its issue and is reconciled.
Active == files \cap {"issue-closed", "abandoned"} = {}

HasRun(p) == p = Tick
MarkerOf(p) == IF HasRun(p) THEN RunMarker ELSE Manual(closer[p].pr)
PrOf(m) == m[2]

At(p, pc) == closer[p].pc = pc
Goes(p, pc) == closer' = [closer EXCEPT ![p].pc = pc]
Returns(p) == closer' = [closer EXCEPT ![p] = Idle]
Writes(p, file) == files' = IF HasRun(p) THEN files \cup {file} ELSE files

\* check_issue_drift; allowClosed is for the verified closeout only.
IssueDrift(allowClosed) ==
  IF issue.state # "open" /\ ~allowClosed THEN "issue_closed"
  ELSE IF issue.state = "not_planned" THEN "issue_not_planned"
  ELSE IF issue.held THEN "issue_on_hold"
  ELSE IF issue.edited THEN "issue_drift"
  ELSE "none"

\* verify_optional_single_commit: at most one commit over the accepted head; before the
\* report is verified it must also be the worktree's present head.
VerifyFinish(requireCurrent) ==
  /\ Len(claim.git) <= 1
  /\ requireCurrent => branch = claim.git

\* What _pr_view answered must be the pull request of the run's branch, at the reported head.
\* An open one's branch is asked of origin again.
PrIdentity == claim.pr = Own /\ pr.state # "none"
\* Mutant: the head of the pull request is not compared with the delivered one.
ViewAccepts_AnyHead ==
  /\ PrIdentity
  /\ pr.state \in {"merged", "open"}

ViewAccepts ==
  /\ PrIdentity
  /\ pr.state \in {"merged", "open"}
  /\ PrHead = claim.head

\* A later phase may not have moved the head the delivery named.
SequenceKeepsHead == tail => branch = claim.head

-----------------------------------------------------------------------------
(* The worker and the phase schedule.                                      *)

\* The schedule admits the finish card once the review is accepted.
AdmitsFinish ==
  /\ Active /\ pointer
  /\ card = "none"
  /\ card' = "open"
  /\ UNCHANGED <<prVars, claim, tail, files, pointer, issue, comments, listed, closer>>

\* Release metadata as one commit; nothing stops the worker from making two.
WorkerCommits ==
  /\ card = "open"
  /\ Len(branch) < MaxCommits
  /\ branch' = Append(branch, "finish")
  /\ UNCHANGED <<remote, pr, ci, moves, faults, dVars>>

WorkerPushes ==
  /\ card = "open"
  /\ remote # branch
  /\ IsPrefix(remote, branch)
  /\ SetRemote(branch)
  /\ UNCHANGED <<branch, pr, moves, faults, dVars>>

WorkerOpensPr ==
  /\ card = "open"
  /\ pr.state = "none"
  /\ pr' = [state |-> "open", head |-> <<>>]
  /\ ci' = Running
  /\ UNCHANGED <<branch, remote, moves, faults, dVars>>

\* The report may name a head that is not the branch's, or another pull request.
WorkerReports ==
  /\ card = "open"
  /\ card' = "done"
  /\ claim' \in [git : {branch, remote}, head : {branch, remote}, pr : Prs]
  /\ UNCHANGED <<prVars, tail, files, pointer, issue, comments, listed, closer>>

\* The schedule runs the phases after delivery once the report is verified; one of them
\* may have committed.
TailFinishes ==
  /\ Active /\ pointer
  /\ "finish-verified" \in files
  /\ ~tail
  /\ tail' = TRUE
  /\ UNCHANGED <<prVars, card, claim, files, pointer, issue, comments, listed, closer>>

-----------------------------------------------------------------------------
(* The tick's reconciliation.                                              *)

\* Mutant: a closed issue always stops the run.
TickLooks_Strict == IssueDrift(FALSE) = "none"

\* The current tick compares the pinned issue with the live one before anything else.  One that
\* has drifted stops it; a closed one does not once the report is verified or the close has begun.
TickLooks ==
  \/ IssueDrift(FALSE) = "none"
  \/ IssueDrift(FALSE) = "issue_closed" /\ files \cap {"issue-close-started", "finish-verified"} # {}

\* The claim label is put back on an issue that is as pinned; its failure is ignored.  An issue
\* that cannot be read (issue_unavailable) stops nothing.
TickReconciles ==
  /\ At(Tick, "idle")
  /\ Active /\ pointer
  /\ Goes(Tick, "finish")
  /\ \/ /\ TickLooks
        /\ IF IssueDrift(FALSE) = "none"
           THEN issue' \in {issue, [issue EXCEPT !.label = TRUE]}
           ELSE UNCHANGED issue
        /\ UNCHANGED faults
     \/ Fails /\ UNCHANGED issue
  /\ UNCHANGED <<branch, remote, pr, ci, moves, card, claim, tail, files, pointer, comments, listed>>

\* reconcile_pending_deliveries: runs the pointer has left, once verified.
TickReconcilesPending ==
  /\ At(Tick, "idle")
  /\ Active /\ ~pointer
  /\ "finish-verified" \in files
  /\ Goes(Tick, "finish")
  /\ UNCHANGED <<prVars, card, claim, tail, files, pointer, issue, comments, listed>>

\* The local half, under the worktree lock; the marker is written last.
VerifiesFinish ==
  /\ At(Tick, "finish")
  /\ IF /\ card = "done"
        /\ VerifyFinish("finish-verified" \notin files)
        /\ claim.head = claim.git
     THEN /\ files' = files \cup {"finish-verified"}
          /\ Goes(Tick, "view")
     ELSE /\ Returns(Tick)
          /\ UNCHANGED files
  /\ UNCHANGED <<prVars, card, claim, tail, pointer, issue, comments, listed>>

\* The view is kept: `open` here says whether the pull request was still open.
ViewsPr ==
  /\ At(Tick, "view")
  /\ IF ViewAccepts /\ SequenceKeepsHead
     THEN closer' = [closer EXCEPT ![Tick].pc = "checks", ![Tick].open = (pr.state = "open")]
     ELSE Returns(Tick)
  /\ UNCHANGED <<prVars, card, claim, tail, files, pointer, issue, comments, listed>>

\* Mutant: the merge is not waited for.
ClosesNow_Open == CheckState(ci) = "passed" /\ tail

\* A verified pull request that waits for its checks or its merge is no stall.
ClosesNow ==
  /\ CheckState(ci) = "passed"
  /\ ~closer[Tick].open
  /\ tail

ReadsChecks ==
  /\ At(Tick, "checks")
  /\ IF ClosesNow THEN Goes(Tick, "drift") ELSE Returns(Tick)
  /\ UNCHANGED <<prVars, card, claim, tail, files, pointer, issue, comments, listed>>

RechecksDrift ==
  /\ At(Tick, "drift")
  /\ IF IssueDrift(TRUE) = "none" THEN Goes(Tick, "look") ELSE Returns(Tick)
  /\ UNCHANGED <<prVars, card, claim, tail, files, pointer, issue, comments, listed>>

-----------------------------------------------------------------------------
(* close_issue_for_delivery, entered by the tick and by the operator.      *)

\* `tpo todos complete`: the pull request must be merged and no run active, unless forced.
OperatorCompletes(q, forced) ==
  /\ Moves
  /\ At(Operator, "idle")
  /\ \/ forced
     \/ ~Active /\ (q = Own => pr.state = "merged")
  /\ closer' = [closer EXCEPT ![Operator] = [Idle EXCEPT !.pc = "look", !.pr = q, !.force = forced]]
  /\ UNCHANGED <<branch, remote, pr, ci, faults, card, claim, tail, files, pointer, issue,
                 comments, listed>>

Conflict(p) == ~closer[p].force /\ \E m \in listed : PrOf(m) # closer[p].pr

\* A comment this run has posted, by its own receipt or by the listing.
MarkerPresent(p) ==
  \/ HasRun(p) /\ "issue-commented" \in files
  \/ MarkerOf(p) \in listed

LooksAtIssue(p) ==
  /\ At(p, "look")
  /\ IF issue.state = "not_planned" \/ Conflict(p)
     THEN Returns(p) /\ UNCHANGED files
     ELSE /\ Writes(p, "issue-close-started")
          /\ closer' = [closer EXCEPT ![p].pc = IF MarkerPresent(p) THEN "close" ELSE "comment",
                                      ![p].open = (issue.state = "open"),
                                      ![p].label = issue.label]
  /\ UNCHANGED <<prVars, card, claim, tail, pointer, issue, comments, listed>>

Comments(p) == comments' = [comments EXCEPT ![MarkerOf(p)] = @ + 1]

\* The comment is accepted; or the command fails, with or without its effect.
AddsComment(p) ==
  /\ At(p, "comment")
  /\ \/ Comments(p) /\ Goes(p, "record") /\ UNCHANGED faults
     \/ Fails /\ Returns(p) /\ (Comments(p) \/ UNCHANGED comments)
  /\ UNCHANGED <<branch, remote, pr, ci, moves, card, claim, tail, files, pointer, issue, listed>>

RecordsComment(p) ==
  /\ At(p, "record")
  /\ Writes(p, "issue-commented")
  /\ Goes(p, "close")
  /\ UNCHANGED <<prVars, card, claim, tail, pointer, issue, comments, listed>>

\* The two mutations act on what was fetched; gh closes a closed issue with success.
ClosesIssue(p) ==
  /\ At(p, "close")
  /\ LET closed == [issue EXCEPT !.state = IF @ = "open" THEN "completed" ELSE @]
     IN IF closer[p].open
        THEN \/ issue' = closed /\ Goes(p, "label") /\ UNCHANGED faults
             \/ Fails /\ Returns(p) /\ issue' \in {issue, closed}
        ELSE Goes(p, "label") /\ UNCHANGED <<issue, faults>>
  /\ UNCHANGED <<branch, remote, pr, ci, moves, card, claim, tail, files, pointer, comments, listed>>

RemovesLabel(p) ==
  /\ At(p, "label")
  /\ LET bare == [issue EXCEPT !.label = FALSE]
     IN IF closer[p].label
        THEN \/ issue' = bare /\ Goes(p, "confirm") /\ UNCHANGED faults
             \/ Fails /\ Returns(p) /\ issue' \in {issue, bare}
        ELSE Goes(p, "confirm") /\ UNCHANGED <<issue, faults>>
  /\ UNCHANGED <<branch, remote, pr, ci, moves, card, claim, tail, files, pointer, comments, listed>>

\* A second look decides; what is not there yet is left to the next tick.
Confirmed(p) == issue.state # "open" /\ MarkerPresent(p) /\ ~issue.label

Confirms(p) ==
  /\ At(p, "confirm")
  /\ IF Confirmed(p) THEN Writes(p, "issue-closed") ELSE UNCHANGED files
  /\ Returns(p)
  /\ UNCHANGED <<prVars, card, claim, tail, pointer, issue, comments, listed>>

CloseStep(p) ==
  \/ LooksAtIssue(p) \/ AddsComment(p) \/ RecordsComment(p)
  \/ ClosesIssue(p) \/ RemovesLabel(p) \/ Confirms(p)

TickStep ==
  \/ TickReconciles \/ TickReconcilesPending
  \/ VerifiesFinish \/ ViewsPr \/ ReadsChecks \/ RechecksDrift
  \/ CloseStep(Tick)

\* A call to git or GitHub fails, or the process dies, between two effects.
Breaks(p) ==
  /\ Fails
  /\ ~At(p, "idle")
  /\ Returns(p)
  /\ UNCHANGED <<branch, remote, pr, ci, moves, card, claim, tail, files, pointer, issue,
                 comments, listed>>

-----------------------------------------------------------------------------
(* People and GitHub.                                                      *)

\* The handoff: a person merges; GitHub may close the issue the pull request names.
PersonMerges ==
  /\ pr.state = "open"
  /\ Merges
  /\ issue' \in {issue, [issue EXCEPT !.state = IF @ = "open" THEN "completed" ELSE @]}
  /\ UNCHANGED <<branch, remote, ci, moves, faults, card, claim, tail, files, pointer, comments,
                 listed, closer>>

ListingShows(m) ==
  /\ comments[m] > 0
  /\ m \notin listed
  /\ listed' = listed \cup {m}
  /\ UNCHANGED <<prVars, card, claim, tail, files, pointer, issue, comments, closer>>

PersonChangesIssue ==
  /\ Moves
  /\ \/ \E s \in IssueStates : s # issue.state /\ issue' = [issue EXCEPT !.state = s]
     \/ issue' = [issue EXCEPT !.held = ~@]
     \/ issue' = [issue EXCEPT !.edited = ~@]
  /\ UNCHANGED <<branch, remote, pr, ci, faults, card, claim, tail, files, pointer, comments,
                 listed, closer>>

\* An operator resolves the run with `touch runs/<tick>/abandoned`.
Abandons ==
  /\ Moves
  /\ Active
  /\ files' = files \cup {"abandoned"}
  /\ UNCHANGED <<branch, remote, pr, ci, faults, card, claim, tail, pointer, issue, comments,
                 listed, closer>>

\* Once its pull request is no longer open the run does not hold the project: the next tick that
\* selects takes the pointer.
Superseded ==
  /\ pointer
  /\ At(Tick, "idle")
  /\ "finish-verified" \in files
  /\ tail
  /\ pr.state \in {"merged", "closed"}
  /\ pointer' = FALSE
  /\ UNCHANGED <<prVars, card, claim, tail, files, issue, comments, listed, closer>>

World ==
  \/ AdmitsFinish \/ WorkerCommits \/ WorkerPushes \/ WorkerOpensPr \/ WorkerReports
  \/ TailFinishes
  \/ PeopleAct /\ UNCHANGED dVars
  \/ PersonMerges \/ PersonChangesIssue \/ Abandons \/ Superseded
  \/ \E m \in Markers : ListingShows(m)
  \/ \E q \in Prs, forced \in BOOLEAN : OperatorCompletes(q, forced)
  \/ CloseStep(Operator)
  \/ \E p \in Closers : Breaks(p)

DeliveryNext == TickStep \/ World

-----------------------------------------------------------------------------
(* Properties.                                                             *)

\* The run is marked delivered only for a pull request that was merged at a head the review
\* accepted, or one finish commit over it, with checks that passed: whatever people pushed,
\* merged or closed meanwhile, and however often the tick began anew.
DeliveredIsMergedReviewed ==
  "issue-closed" \in files => pr.state = "merged" /\ pr.head = claim.head /\ Len(pr.head) <= 1
                              /\ CheckState(ci) = "passed"

\* No comment announces a completion, under the run's name, that did not happen.
CommentsAreTrue ==
  comments[RunMarker] > 0 => pr.state = "merged" /\ CheckState(ci) = "passed"

\* A second comment of a run takes a command that failed or a process that died between the
\* comment and its receipt, each at most once; a lagging listing alone causes none.
CommentedOnce == comments[RunMarker] <= 1 + faults

\* The issue is told of a completion that happened, and once, whatever failed on the way.
CommentsTellTheTruth == CommentsAreTrue /\ CommentedOnce

\* A verified handoff that was merged and passed is delivered, as long as the issue stays as it
\* was pinned: also when the pointer has moved on, when GitHub closed the issue at the merge,
\* and when a command failed on the way.
Deliverable ==
  /\ Active
  /\ "finish-verified" \in files
  /\ tail
  /\ pr.state = "merged"
  /\ pr.head = claim.head /\ claim.pr = Own
  /\ branch = claim.head
  /\ CheckState(ci) = "passed"
  /\ IssueDrift(TRUE) = "none"
  /\ \A m \in Markers : comments[m] > 0 => PrOf(m) = Own
HandoffIsDelivered == Deliverable ~> "issue-closed" \in files \/ ~Deliverable
=============================================================================
