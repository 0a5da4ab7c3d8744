----------------------------- MODULE HarnessRun -----------------------------
(***************************************************************************)
(* `tpo test` (harness.py): one run of the pipeline against a GitHub       *)
(* sandbox.  It creates an issue, starts production ticks until the run is *)
(* delivered or stuck, checks the pull request, and shuts down: cancels    *)
(* the run's cards, proves that nothing of it still runs, and only then    *)
(* closes and deletes what the run left on GitHub.                         *)
(*                                                                         *)
(* Each action is what the harness does up to its next effect or answer.   *)
(* Any call can fail, and the process can be interrupted anywhere; its     *)
(* workspace is then the only record of what is left.  A retired profile's *)
(* review and finish cards are left out.                                   *)
(***************************************************************************)
EXTENDS Sandbox

CONSTANT Keep   \* values of --keep

ASSUME HarnessAssumption == Keep \subseteq BOOLEAN

VARIABLES
  h,          \* the harness process
  artifacts,  \* what discovery recorded: deletable branches with their tips, open pull requests
  deleted,    \* deleted[b] : the tip at which the harness deleted b, 0 if it did not
  workspace,  \* "there", "removed"
  exit,       \* "running", "zero", "one", "raised", "interrupted"
  \* For the properties:
  slipped,    \* a create that nobody knew to be pending landed after its run was seen to be over
  moved       \* branches that anybody pushed to after the heads were listed

hVars == <<h, artifacts, deleted, workspace, exit, slipped, moved>>
vars == <<sandbox, hVars>>

Pcs == {"prepare", "create", "anchor", "tick", "recover", "poll", "settled", "verify", "shutdown",
        "cancel", "quiesce", "decide", "list", "discover", "close", "prs", "branches", "report", "end"}
Boards == [Keys -> Statuses]
NoBoard == [k \in Keys |-> "absent"]
NoArtifacts == [tips |-> [b \in Heads |-> 0], prs |-> {}]

Fresh(keep) ==
  [pc |-> "prepare", keep |-> keep, tick |-> 0, run |-> 0, same |-> 0,
   last |-> NoBoard, board |-> NoBoard, observed |-> {},
   err |-> "none", errTick |-> 0, unaccounted |-> FALSE,
   success |-> FALSE, timedOut |-> FALSE, failed |-> FALSE, pending |-> "none",
   incomplete |-> FALSE, quiescent |-> TRUE, ok |-> TRUE]

Init ==
  /\ SandboxInit
  /\ \E keep \in Keep : h = Fresh(keep)
  /\ artifacts = NoArtifacts
  /\ deleted = [b \in Heads |-> 0]
  /\ workspace = "there"
  /\ exit = "running"
  /\ slipped = FALSE
  /\ moved = {}

At(pc) == h.pc = pc /\ exit = "running"
Goes(pc) == h' = [h EXCEPT !.pc = pc]

\* The finally of run_harness.  The process is gone; what it saw of the board is in its report.
Ends(e, g) ==
  /\ exit' = e
  /\ h' = [Fresh(g.keep) EXCEPT !.pc = "end", !.board = g.board]
  /\ workspace' = IF ~g.keep /\ g.quiescent /\ ~g.incomplete THEN "removed" ELSE workspace

-----------------------------------------------------------------------------
(* Before the drive.                                                       *)

\* Preflight, clone, seed check and baseline touch nothing remote.
Prepares ==
  /\ At("prepare")
  /\ \/ h' = [h EXCEPT !.pc = "create", !.incomplete = TRUE] /\ UNCHANGED <<workspace, exit>>
     \/ Ends("raised", h)
  /\ UNCHANGED <<sandbox, artifacts, deleted, slipped, moved>>

\* Until the created issue is verified the workspace is the only record of it.
CreatesIssue ==
  /\ At("create")
  /\ \/ issue' = "open" /\ h' = [h EXCEPT !.pc = "anchor", !.incomplete = FALSE]
        /\ UNCHANGED <<workspace, exit>>
     \/ issue' \in {"none", "open"} /\ \E e \in {"raised", "interrupted"} : Ends(e, h)
  /\ UNCHANGED <<kind, current, used, ticks, tip, foreign, pushed, merged, pr, acts, artifacts, deleted, slipped, moved>>

\* The issue becomes visible, is verified, and the run anchor is committed in the clone.  What
\* fails before that leaves no doubt of the issue.
CreatesAnchor ==
  /\ At("anchor")
  /\ \/ Goes("tick")
     \/ \E doubt \in BOOLEAN :
          h' = [h EXCEPT !.pc = "shutdown", !.pending = "other", !.incomplete = doubt]
  /\ UNCHANGED <<sandbox, artifacts, deleted, workspace, exit, slipped, moved>>

-----------------------------------------------------------------------------
(* The drive.                                                              *)

\* len(step_keys) + 6
Budget == NKeys + 6
MAX_IDENTICAL == 3

TimesOut == h' = [h EXCEPT !.pc = "shutdown", !.timedOut = TRUE]

\* A tick error ends the drive; its class says what shutdown may require of the board.
Errs(class, t, unaccounted) ==
  h' = [h EXCEPT !.pc = "shutdown", !.err = class, !.errTick = t, !.failed = TRUE,
                 !.unaccounted = unaccounted]

\* Mutant: a pointer that moved to another tick is an ordinary error.
CheckUnchanged_NoWorkers ==
  IF current = 0 \/ (current = h.tick /\ ~(ticks[current].valid /\ ticks[current].expected))
  THEN [class |-> "partial", unaccounted |-> FALSE]
  ELSE IF current = h.tick THEN [class |-> "none", unaccounted |-> FALSE]
  ELSE IF ticks[current].sentinel = "picked_none" THEN [class |-> "observed", unaccounted |-> FALSE]
  ELSE [class |-> "partial", unaccounted |-> FALSE]

\* assert_pinned_registration_unchanged: later ticks keep the run's id and its registration.
\* Another id is harmless only if its tick provably picked nothing.
CheckUnchanged ==
  IF current = 0 \/ (current = h.tick /\ ~(ticks[current].valid /\ ticks[current].expected))
  THEN [class |-> "partial", unaccounted |-> FALSE]
  ELSE IF current = h.tick THEN [class |-> "none", unaccounted |-> FALSE]
  ELSE IF ticks[current].sentinel = "picked_none" THEN [class |-> "observed", unaccounted |-> FALSE]
  ELSE [class |-> "partial", unaccounted |-> TRUE]

Unchanged == h.tick = 0 \/ CheckUnchanged.class = "none"
ErrsUnchanged == Errs(CheckUnchanged.class, h.tick, CheckUnchanged.unaccounted)

\* _tick_failure: a tick that failed may have spawned workers under an id nobody can name.
UnaccountedAfter(was, now, tks) ==
  IF was # 0 THEN now \notin {0, was} /\ tks[now].sentinel # "picked_none"
  ELSE now = 0

\* run_tick returned non-zero, or was killed at its timeout.
TickFails ==
  /\ TickRuns(h.tick)
  /\ \E class \in {"observed", "partial"} :
       h' = [h EXCEPT !.pc = "shutdown", !.run = @ + 1, !.err = class, !.failed = TRUE,
                      !.errTick = IF h.tick # 0 THEN h.tick ELSE current',
                      !.unaccounted = UnaccountedAfter(h.tick, current', ticks')]

RunsTick ==
  /\ At("tick")
  /\ \/ TimesOut /\ UNCHANGED sandbox
     \/ ~Unchanged /\ ErrsUnchanged /\ UNCHANGED sandbox
     \/ Unchanged /\ TickRuns(h.tick) /\ h' = [h EXCEPT !.pc = "recover", !.run = @ + 1]
     \/ Unchanged /\ TickFails
  /\ UNCHANGED <<artifacts, deleted, workspace, exit, slipped, moved>>

FailedSpawns == {t \in Ids : ticks[t].spawnFailed}

\* A pinned tick's registration must be the one the issue asks for, and pass every check.
Registered(t) ==
  /\ t.sentinel = "started" /\ ~t.spawnFailed
  /\ kind = "pinned" => t.valid
  /\ t.expected

\* recover_tick_registration and recover_pinned_registration, the first time.  A tick that has
\* an id is named to shutdown unless it provably picked nothing.
Recovers ==
  /\ At("recover")
  /\ h.tick = 0
  /\ \/ current = 0 /\ Errs("partial", IF FailedSpawns = {} THEN 0 ELSE Max(FailedSpawns), FALSE)
     \/ current # 0 /\ ticks[current].sentinel = "picked_none" /\ Errs("partial", 0, FALSE)
     \/ /\ current # 0 /\ ticks[current].sentinel # "picked_none" /\ ~Registered(ticks[current])
        /\ Errs("partial", current, FALSE)
     \/ current # 0 /\ Registered(ticks[current]) /\ h' = [h EXCEPT !.pc = "poll", !.tick = current]
  /\ UNCHANGED <<sandbox, artifacts, deleted, workspace, exit, slipped, moved>>

\* A later tick must have left the registration alone.
Reasserts ==
  /\ At("recover")
  /\ h.tick # 0
  /\ IF Unchanged THEN Goes("poll") ELSE ErrsUnchanged
  /\ UNCHANGED <<sandbox, artifacts, deleted, workspace, exit, slipped, moved>>

\* An error of another class.  Before it has a registration the pinned drive takes it that agents
\* may be running; the single one does not.  A pointer that moved is a tick error first.
Breaks ==
  /\ At("tick") \/ At("recover") \/ At("settled")
  /\ h.tick # 0 => current = h.tick
  /\ h' = [h EXCEPT !.pc = "shutdown", !.pending = "other",
                    !.unaccounted = (kind = "pinned" /\ h.tick = 0)]
  /\ UNCHANGED <<sandbox, artifacts, deleted, workspace, exit, slipped, moved>>

\* The cards a poll waits for: all of them, or the first one of a schedule that admits the rest.
StepKeys == IF kind = "single" THEN Keys ELSE {1}
Board == ticks[h.tick].cards
KeysOn(board) == {k \in Keys : board[k] # "absent"}
Settled(board) ==
  /\ StepKeys \subseteq KeysOn(board)
  /\ \A k \in KeysOn(board) : board[k] \in TERMINAL_STATUSES \cup {"blocked"}

\* Mutant: the poll waits for the board and nothing else.
Polls_Patient ==
  /\ At("poll")
  /\ Settled(Board)
  /\ h' = [h EXCEPT !.pc = "settled", !.board = Board,
                    !.observed = IF kind = "pinned" THEN @ \cup KeysOn(Board) ELSE @]
  /\ UNCHANGED <<sandbox, artifacts, deleted, workspace, exit, slipped, moved>>

\* The poll ends with a settled board; with one that holds too many failures; at the deadline;
\* with a worker thread that does not stop; or with a command that raised.
Polls ==
  /\ At("poll")
  /\ \/ /\ Settled(Board) \/ \E k \in Keys : Board[k] = "failed"
        /\ h' = [h EXCEPT !.pc = "settled", !.board = Board,
                          !.observed = IF kind = "pinned" THEN @ \cup KeysOn(Board) ELSE @]
     \/ TimesOut
     \/ \E p \in {"poll", "other"} : h' = [h EXCEPT !.pc = "shutdown", !.pending = p]
  /\ UNCHANGED <<sandbox, artifacts, deleted, workspace, exit, slipped, moved>>

\* classify_pinned_run
ClassifyPinnedRun(board) ==
  IF \E k \in Keys : board[k] \in {"failed", "archived", "blocked"} THEN "failed"
  ELSE IF \A k \in Keys : board[k] = "done" THEN "delivered"
  ELSE "in_progress"

JudgesSingle ==
  /\ At("settled") /\ kind = "single"
  /\ LET done == \A k \in Keys : h.board[k] = "done"
     IN h' = [h EXCEPT !.pc = IF done THEN "verify" ELSE "shutdown", !.success = done]
  /\ UNCHANGED <<sandbox, artifacts, deleted, workspace, exit, slipped, moved>>

Identical(board) == IF board = h.last THEN h.same + 1 ELSE 1

JudgesPinned ==
  /\ At("settled") /\ kind = "pinned"
  /\ IF ~Unchanged THEN ErrsUnchanged
     ELSE LET verdict == ClassifyPinnedRun(h.board)
          IN \/ verdict = "failed" /\ Goes("shutdown")
             \/ verdict = "delivered" /\ h' = [h EXCEPT !.pc = "verify", !.success = TRUE]
             \/ /\ verdict = "in_progress"
                /\ IF Identical(h.board) >= MAX_IDENTICAL \/ h.run >= Budget
                   THEN Errs("observed", h.tick, FALSE)
                   ELSE h' = [h EXCEPT !.pc = "tick", !.last = h.board, !.same = Identical(h.board)]
  /\ UNCHANGED <<sandbox, artifacts, deleted, workspace, exit, slipped, moved>>

-----------------------------------------------------------------------------
(* Attribution.  Only the branch's commits are evidence: every one it adds *)
(* over the default branch must descend from the run anchor.               *)

\* _branch_provenance_failure
Provenance(b) == tip[b] >= Anchor /\ b \notin foreign /\ ~merged

IsDeletableBranch(b) == b # "old" /\ Provenance(b)

IsAttributablePr(b) == pr[b] # "none" /\ b # "old" /\ Provenance(b)

Discovered ==
  [tips |-> [b \in Heads |-> IF IsDeletableBranch(b) THEN tip[b] ELSE 0],
   prs |-> {b \in Heads : IsAttributablePr(b)}]

\* verify_pull_request, and for a pinned run its branch and its implementation.
VerifyPullRequest ==
  \E b \in Heads :
    /\ Discovered.prs = {b}
    /\ pr[b] = "open"
    /\ kind = "pinned" => b = "own"
    /\ tip[b] # Anchor

Verifies ==
  /\ At("verify")
  /\ \/ h' = [h EXCEPT !.pc = "shutdown", !.failed = (@ \/ ~VerifyPullRequest)]
     \/ h' = [h EXCEPT !.pc = "shutdown", !.failed = TRUE]
     \/ h' = [h EXCEPT !.pc = "shutdown", !.pending = "other"]
  /\ UNCHANGED <<sandbox, artifacts, deleted, workspace, exit, slipped, moved>>

-----------------------------------------------------------------------------
(* Shutdown.                                                               *)

ShutdownTick == IF h.errTick # 0 THEN h.errTick ELSE h.tick

\* Without an error the cards known to exist must be accounted for; a partial registration and
\* a crash of the first tick name none.
ShutdownKeys ==
  IF h.tick = 0 \/ h.err = "partial" \/ (h.err = "observed" /\ kind = "single") THEN {}
  ELSE IF kind = "single" \/ ~ticks[h.tick].expected THEN Keys
  ELSE {1} \cup h.observed

Reports(quiescent, ok) == h' = [h EXCEPT !.pc = "report", !.quiescent = quiescent, !.ok = ok]

\* _close_issue_leftover: closing is tried, whatever comes of it.
ClosesIssue(quiescent, okIfClosed) ==
  \/ issue' = "closed" /\ Reports(quiescent, okIfClosed)
  \/ issue' \in {issue, "closed"} /\ Reports(quiescent, FALSE)

\* Without a tick no worker exists, unless a tick failed under an id that cannot be read.
ShutsDown ==
  /\ At("shutdown")
  /\ \/ ShutdownTick = 0 /\ h.keep /\ Reports(~h.unaccounted, ~h.unaccounted) /\ UNCHANGED issue
     \/ ShutdownTick = 0 /\ ~h.keep /\ ClosesIssue(~h.unaccounted, ~h.unaccounted)
     \/ ShutdownTick # 0 /\ Goes("cancel") /\ UNCHANGED issue
  /\ UNCHANGED <<kind, current, used, ticks, tip, foreign, pushed, merged, pr, acts, artifacts, deleted,
                 workspace, exit, slipped, moved>>

\* cancel_todo_kanban_tasks, by what it promises (DurableRegistration).  A pending create of a
\* chain that was registered from the clone is found by its marker; a pinned run keeps its
\* marker elsewhere.
CancelConfirms ==
  LET t == ShutdownTick
  IN /\ kind = "single" => ticks[t].late = 0
     /\ ticks' = [ticks EXCEPT ![t].orphan = FALSE,
          ![t].cards = [k \in Keys |-> IF @[k] = "absent" THEN "absent" ELSE "archived"]]
     /\ Goes("quiesce")

CancelFails ==
  LET t == ShutdownTick
  IN /\ \E archived \in SUBSET Created(t) :
          ticks' = [ticks EXCEPT
            ![t].cards = [k \in Keys |-> IF k \in archived THEN "archived" ELSE @[k]],
            ![t].orphan = (@ \/ \E k \in archived : ticks[t].cards[k] = "live")]
     /\ h' = [h EXCEPT !.pc = "decide", !.quiescent = FALSE]

Cancels ==
  /\ At("cancel")
  /\ CancelConfirms \/ CancelFails
  /\ UNCHANGED <<kind, current, used, issue, tip, foreign, pushed, merged, pr, acts, artifacts, deleted,
                 workspace, exit, slipped, moved>>

\* _wait_for_kanban_quiescence: some card is listed, the known ones are, and all are terminal.
Quiescent ==
  /\ Created(ShutdownTick) # {}
  /\ ShutdownKeys \subseteq Created(ShutdownTick)
  /\ \A k \in Created(ShutdownTick) : ticks[ShutdownTick].cards[k] \in TERMINAL_STATUSES

Quiesces ==
  /\ At("quiesce")
  /\ \/ Quiescent /\ h' = [h EXCEPT !.pc = "decide", !.quiescent = TRUE]
     \/ h' = [h EXCEPT !.pc = "decide", !.quiescent = FALSE]
  /\ UNCHANGED <<sandbox, artifacts, deleted, workspace, exit, slipped, moved>>

MayDestroy == h.quiescent /\ ~h.unaccounted

Decides ==
  /\ At("decide")
  /\ \/ h.keep /\ Reports(h.quiescent, h.quiescent) /\ UNCHANGED issue
     \/ ~h.keep /\ ~MayDestroy /\ ClosesIssue(h.quiescent, FALSE)
     \/ ~h.keep /\ MayDestroy /\ Goes("list") /\ UNCHANGED issue
  /\ UNCHANGED <<kind, current, used, ticks, tip, foreign, pushed, merged, pr, acts, artifacts, deleted,
                 workspace, exit, slipped, moved>>

\* The heads are listed first, and each is fetched and judged afterwards.
ListsHeads ==
  /\ At("list")
  /\ \/ artifacts' = [artifacts EXCEPT !.tips = tip] /\ Goes("discover") /\ UNCHANGED issue
     \/ ClosesIssue(TRUE, FALSE) /\ UNCHANGED artifacts
  /\ UNCHANGED <<kind, current, used, ticks, tip, foreign, pushed, merged, pr, acts, deleted, workspace,
                 exit, slipped, moved>>

\* A branch whose tip moved since it was listed is left alone, and so are its pull requests.
Judged(b) == IF artifacts.tips[b] = tip[b] /\ IsDeletableBranch(b) THEN tip[b] ELSE 0

Discovers ==
  /\ At("discover")
  /\ \/ /\ artifacts' = [tips |-> [b \in Heads |-> Judged(b)],
                          prs |-> {b \in Discovered.prs : artifacts.tips[b] = tip[b]}]
        /\ Goes("close") /\ UNCHANGED issue
     \/ ClosesIssue(TRUE, FALSE) /\ artifacts' = NoArtifacts
  /\ UNCHANGED <<kind, current, used, ticks, tip, foreign, pushed, merged, pr, acts, deleted, workspace, exit,
                 slipped, moved>>

CleansIssue ==
  /\ At("close")
  /\ \/ issue' = "closed" /\ Goes("prs")
     \/ issue' \in {issue, "closed"} /\ h' = [h EXCEPT !.pc = "prs", !.ok = FALSE]
  /\ artifacts' = [artifacts EXCEPT !.prs = {b \in @ : pr[b] \in {"open", "sideways"}}]
  /\ UNCHANGED <<kind, current, used, ticks, tip, foreign, pushed, merged, pr, acts, deleted, workspace, exit,
                 slipped, moved>>

\* A pull request that was merged meanwhile is not closed by gh, which fails.
CleansPr ==
  /\ At("prs")
  /\ IF artifacts.prs = {} THEN Goes("branches") /\ UNCHANGED <<pr, artifacts>>
     ELSE \E b \in artifacts.prs :
            /\ artifacts' = [artifacts EXCEPT !.prs = @ \ {b}]
            /\ LET closed == [pr EXCEPT ![b] = IF @ = "merged" THEN @ ELSE "closed"]
               IN \/ pr[b] # "merged" /\ pr' = closed /\ UNCHANGED h
                  \/ pr' \in {pr, closed} /\ h' = [h EXCEPT !.ok = FALSE]
  /\ UNCHANGED <<kind, current, used, ticks, issue, tip, foreign, pushed, merged, acts, deleted, workspace, exit,
                 slipped, moved>>

\* Mutant: the push has no lease.
LeaseHolds_Always(b) == tip[b] # 0

\* --force-with-lease: the tip must be the one discovery recorded.
LeaseHolds(b) == tip[b] = artifacts.tips[b]

\* A refused deletion of a branch that has gone counts as done; one that times out does not.
CleansBranch ==
  /\ At("branches")
  /\ LET left == {b \in Heads : artifacts.tips[b] # 0}
     IN IF left = {} THEN Reports(TRUE, h.ok) /\ UNCHANGED <<tip, foreign, artifacts, deleted>>
        ELSE \E b \in left :
               /\ artifacts' = [artifacts EXCEPT !.tips[b] = 0]
               /\ \/ /\ LeaseHolds(b)
                     /\ tip' = [tip EXCEPT ![b] = 0]
                     /\ foreign' = foreign \ {b}
                     /\ deleted' = [deleted EXCEPT ![b] = tip[b]]
                     /\ h' \in {h, [h EXCEPT !.ok = FALSE]}
                  \/ /\ h' = IF tip[b] = 0 THEN h ELSE [h EXCEPT !.ok = FALSE]
                     /\ UNCHANGED <<tip, foreign, deleted>>
                  \/ /\ h' = [h EXCEPT !.ok = FALSE]
                     /\ UNCHANGED <<tip, foreign, deleted>>
  /\ UNCHANGED <<kind, current, used, ticks, issue, pushed, merged, pr, acts, workspace, exit, slipped, moved>>

ExitCode(g) == IF g.success /\ ~g.timedOut /\ ~g.failed THEN "zero" ELSE "one"

\* Mutant: what is left on GitHub does not keep the workspace.
Reported_Forgets(g) == [g EXCEPT !.quiescent = @ /\ g.pending # "poll"]

Reported(g) == [g EXCEPT !.quiescent = @ /\ g.pending # "poll", !.incomplete = @ \/ ~g.ok]

\* Rendering the report can fail too.
Finishes ==
  /\ At("report")
  /\ \E e \in IF h.pending # "none" \/ ~h.quiescent \/ ~h.ok THEN {"raised"} ELSE {"raised", ExitCode(h)} :
       Ends(e, Reported(h))
  /\ UNCHANGED <<sandbox, artifacts, deleted, slipped, moved>>

\* An interrupt starts nothing remote.  From the try around the drive to the shutdown's report it
\* keeps the workspace, but for the moment between the two; before that try, in that moment and
\* after the report the finally finds the flags as they are.
Interrupted ==
  /\ exit = "running"
  /\ \/ h.pc \notin {"prepare", "create"} /\ Ends("interrupted", [h EXCEPT !.quiescent = FALSE])
     \/ h.pc \in {"prepare", "create", "anchor", "shutdown"} /\ Ends("interrupted", h)
     \/ /\ h.pc = "report"
        /\ \E g \in {[Reported(h) EXCEPT !.incomplete = h.incomplete], Reported(h)} :
             Ends("interrupted", g)
  /\ UNCHANGED <<sandbox, artifacts, deleted, slipped, moved>>

-----------------------------------------------------------------------------

HarnessStep ==
  \/ Prepares \/ CreatesIssue \/ CreatesAnchor
  \/ RunsTick \/ Recovers \/ Reasserts \/ Breaks \/ Polls \/ JudgesSingle \/ JudgesPinned \/ Verifies
  \/ ShutsDown \/ Cancels \/ Quiesces \/ Decides \/ ListsHeads \/ Discovers
  \/ CleansIssue \/ CleansPr \/ CleansBranch \/ Finishes

\* The board has been seen idle.
PastQuiescence == h.pc \in {"decide", "list", "discover", "close", "prs", "branches", "report"}

\* The heads have been listed, and what is listed is being judged and deleted.
Listed == h.pc \in {"discover", "close", "prs", "branches"}

\* The rest of the world, while the harness runs.
Environment ==
  /\ exit = "running"
  /\ \/ /\ World
        /\ moved' = IF Listed THEN moved \cup {b \in Heads : tip'[b] # tip[b]} ELSE moved
        /\ UNCHANGED <<h, artifacts, deleted, workspace, exit, slipped>>
     \/ \E t \in Ids : /\ LateLands(t)
                       /\ slipped' = (slipped \/ (kind = "pinned" /\ PastQuiescence))
                       /\ UNCHANGED <<h, artifacts, deleted, workspace, exit, moved>>

Next == HarnessStep \/ Interrupted \/ Environment

\* The harness is one process whose waits all have a deadline.
Spec == Init /\ [][Next]_vars /\ WF_vars(HarnessStep)

TypeOK ==
  /\ SandboxTypeOK
  /\ h \in [pc : Pcs, keep : BOOLEAN, tick : 0..MaxIds, run : 0..Budget, same : 0..MAX_IDENTICAL,
            last : Boards, board : Boards, observed : SUBSET Keys,
            err : {"none", "observed", "partial"}, errTick : 0..MaxIds, unaccounted : BOOLEAN,
            success : BOOLEAN, timedOut : BOOLEAN, failed : BOOLEAN,
            pending : {"none", "poll", "other"}, incomplete : BOOLEAN, quiescent : BOOLEAN, ok : BOOLEAN]
  /\ artifacts \in [tips : [Heads -> 0..MaxTip], prs : SUBSET Heads]
  /\ deleted \in [Heads -> 0..MaxTip]
  /\ workspace \in {"there", "removed"}
  /\ exit \in {"running", "zero", "one", "raised", "interrupted"}
  /\ slipped \in BOOLEAN
  /\ moved \subseteq Heads

-----------------------------------------------------------------------------
(* Properties.                                                             *)

Destroys == h.pc \in {"prs", "branches"} \/ \E b \in Heads : deleted[b] # 0

\* No pull request is closed and no branch deleted while an agent of the run may still push:
\* not one of the tick the harness drove, not one of a tick it cannot name, not one whose
\* create command was still under way, except for a pinned run's, which cancelling cannot see.
NothingRunsDuringCleanup == Destroys /\ SomeoneMayPush => slipped

\* A branch is deleted only for what the harness knew of it: it was not there before the run, all
\* its commits descend from the run's anchor, and nobody, worker or person, has pushed to it since
\* the heads were listed.  What people put on top of the run's commits earlier goes with them:
\* nothing tells it from the run's own (harness.py:1714).
DeletesWhatWasJudged ==
  [][\A b \in Heads : deleted'[b] # deleted[b] => b \notin foreign \cup moved]_vars

\* Nothing is left that only the workspace records: no agent that may push, but one whose card
\* slipped; no create under way, but a pinned run's, which cancelling cannot see; no open issue;
\* and no branch or open pull request of the run, but one that people merged, or whose branch they
\* pushed to, or that a slipped card's agent may have made.
NothingLeft ==
  /\ issue # "open"
  /\ SomeoneMayPush => slipped
  /\ kind = "single" => \A t \in Ids : ticks[t].late = 0
  /\ \A b \in {"own", "stray"} :
       tip[b] # 0 \/ pr[b] \in {"open", "sideways"} => merged \/ b \in pushed \/ slipped

\* The single drive broke after its tick and before it had the registration; shutdown then takes
\* it that no tick ran (harness.py:3392).
TickForgotten == kind = "single" /\ h.run # 0 /\ h.pending = "other" /\ ShutdownTick = 0

\* An interrupt that nothing keeps the workspace from: before the try, between it and the shutdown,
\* and between the two flags that the shutdown's report sets.
Unguarded == exit' = "interrupted" /\ (h.pc \in {"anchor", "shutdown"} \/ (h.pc = "report" /\ ~h.ok))

\* The workspace is removed only when nothing is left, whichever step failed or was interrupted,
\* but for an interrupt that finds no guard, and for a forgotten tick, whose issue is closed still.
RemovedMeansNothingLeft ==
  workspace' # workspace => NothingLeft' \/ Unguarded \/ (TickForgotten /\ issue' # "open")

\* Exit code zero means that the run did its work: every card was seen done, and it had pushed
\* an implementation, a pinned run to the branch its issue names, whatever shutdown deleted since.
ZeroMeansDelivered ==
  exit = "zero" =>
    /\ \A k \in Keys : h.board[k] = "done"
    /\ \E b \in Heads : /\ tip[b] > Anchor \/ deleted[b] > Anchor
                        /\ kind = "pinned" => b = "own"

\* What a run leaves and what it says agree with what happened when it ends.
EndTellsTheTruth == [][RemovedMeansNothingLeft /\ ZeroMeansDelivered']_vars

\* A run that is not interrupted ends: the pinned drive by its verdict, its stall, its budget or
\* its deadline.
RunEnds == <>(exit # "running")
=============================================================================
