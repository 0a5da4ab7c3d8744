---------------------------- MODULE PhaseRecovery ----------------------------
(***************************************************************************)
(* The cards of one phase, the workers Hermes runs for them, and the tick  *)
(* that resumes the phase's execution (hermes_pipeline/phase_recovery.py,  *)
(* phase_schedule.py, review_reconciliation._create_task, and the wait     *)
(* loop of _agent_supervisor.main), composed with AgentSupervisor.         *)
(*                                                                         *)
(* A card exists per generation of the execution.  The worker of a card    *)
(* attaches to the execution, waits for the attempt's outcome and completes *)
(* or blocks the card.  The tick takes the worktree lock, reads the board  *)
(* and the record, and for a failed attempt approves a resume, archives    *)
(* the old cards and creates the next generation's card, one Hermes        *)
(* command at a time.  Hermes, its dispatcher and the operator act between *)
(* the commands; the tick may die between any two of them.                 *)
(***************************************************************************)
EXTENDS AgentSupervisor, FiniteSetsExt

CONSTANTS
  Phase,      \* the phase's execution
  Operators   \* who unblocks cards and recovers by hand; may be empty

ASSUME PhaseAssumption == Phase \in Executions /\ MaxGenerations > 0

VARIABLES
  card,       \* card[g] : the latest card of generation g on the board
  worker,     \* worker[g] : the Hermes worker that runs card[g]
  tick,       \* the tick's pass over the phase
  unblocked,  \* generations with an unblock marker
  parked,     \* the validation-blocked marker
  abandoned   \* runs/<tick>/abandoned

boardVars == <<card, worker, tick, unblocked, parked, abandoned>>
phaseVars == <<vars, boardVars>>

-----------------------------------------------------------------------------
(* Values *)

Generations == 1..MaxGenerations

CardStatus == {"none", "ready", "running", "blocked", "triage", "done", "archived"}
Cards      == [status : CardStatus, wasBlocked : BOOLEAN]
NoCard     == [status |-> "none", wasBlocked |-> FALSE]
NewCard    == [status |-> "ready", wasBlocked |-> FALSE]
Retired    == [status |-> "archived", wasBlocked |-> FALSE]

GaveUp == {"blocked", "triage"}
Listed == CardStatus \ {"none", "archived"}

(* `expected` is expected_generation, 0 if the worker waits for whatever   *)
(* attempt is the last; `event` is the recovery its daemon was started for. *)
Workers ==
  [pc       : {"none", "attach", "wait", "report"},
   expected : Nat,
   event    : Events \cup {NoEvent},
   report   : {"none", "completed", "failed", "invalidated", "stalled"}]
NoWorker == [pc |-> "none", expected |-> 0, event |-> NoEvent, report |-> "none"]

(* What the tick has read and still has to do.                             *)
Ticks ==
  [pc     : {"idle", "route", "unblock", "unblocked", "retire", "archive", "abandon", "create", "leave"},
   seen   : 0..MaxGenerations,   \* generation of the card it read, 0 for none
   status : CardStatus,          \* and its status
   stale  : SUBSET Generations,  \* cards it still has to archive
   next   : 0..MaxGenerations]   \* generation to create, 0 after the last one
IdleTick == [pc |-> "idle", seen |-> 0, status |-> "none", stale |-> {}, next |-> 0]

-----------------------------------------------------------------------------
(* The board *)

ListedCards == {g \in Generations : card[g].status \in Listed}

(* get_todo_kanban_tasks keeps the highest generation.                     *)
Newest == IF ListedCards = {} THEN 0 ELSE Max(ListedCards)

Archive(g)         == card' = [card EXCEPT ![g] = Retired]
SetCard(g, status) == card' = [card EXCEPT ![g] = [@ EXCEPT !.status = status]]

(* Hermes blocks a card once and parks it in triage the second time.       *)
Blocked(c) == [status |-> IF c.wasBlocked THEN "triage" ELSE "blocked", wasBlocked |-> TRUE]

-----------------------------------------------------------------------------
(* Hermes' dispatcher and the operator *)

Dispatch(g) ==
  /\ card[g].status = "ready"
  /\ SetCard(g, "running")
  /\ worker' = [worker EXCEPT ![g] = [NoWorker EXCEPT !.pc = "attach"]]
  /\ UNCHANGED <<vars, tick, unblocked, parked, abandoned>>

OperatorUnblocks(g) ==
  /\ Operators # {}
  /\ card[g].status \in GaveUp
  /\ SetCard(g, "ready")
  /\ UNCHANGED <<vars, worker, tick, unblocked, parked, abandoned>>

-----------------------------------------------------------------------------
(* The worker: tpo-agent-supervisor run --wait *)

Settings(g, pc, expected, event, report) ==
  worker' = [worker EXCEPT ![g] =
    [pc |-> pc, expected |-> expected, event |-> event, report |-> report]]

Waits(g, expected, event) == Settings(g, "wait", expected, event, "none")
Reports(g, report) == Settings(g, "report", worker[g].expected, worker[g].event, report)

AttachStarts(g, d) ==
  /\ worker[g].pc = "attach"
  /\ AttachFresh(Phase, d)
  /\ Waits(g, 0, NoEvent)
  /\ UNCHANGED <<card, tick, unblocked, parked, abandoned>>

(* A live or lost attempt is waited for, without taking a lock.            *)
AttachJoins(g) ==
  /\ worker[g].pc = "attach"
  /\ ~Closed(Phase)
  /\ Waits(g, 0, NoEvent)
  /\ UNCHANGED <<vars, card, tick, unblocked, parked, abandoned>>

AttachResumes(g, d) ==
  /\ worker[g].pc = "attach"
  /\ PendingAutoRecovery(Phase)
  /\ AttachRecovery(Phase, d)
  /\ Waits(g, Generation(Phase) + 1, intent[Phase].event)
  /\ UNCHANGED <<card, tick, unblocked, parked, abandoned>>

AttachFindsChange(g) ==
  /\ worker[g].pc = "attach"
  /\ PendingAutoRecovery(Phase)
  /\ AttachInvalidates(Phase)
  /\ Settings(g, "report", 0, intent[Phase].event, "invalidated")
  /\ UNCHANGED <<card, tick, unblocked, parked, abandoned>>

(* What status says of a closed last attempt.  completed needs a settled   *)
(* exit 0 and a promoted result that validates against the worktree now.   *)
MayBeCompleted ==
  /\ Settled(Last(Phase))
  /\ Last(Phase).status = "exited" /\ Last(Phase).exit0
  /\ Generation(Phase) \in promoted[Phase]

OutcomeReports == {"failed"} \cup (IF MayBeCompleted THEN {"completed"} ELSE {})

(* Nothing to resume: the last outcome is reported as it is.               *)
AttachReports(g) ==
  /\ worker[g].pc = "attach"
  /\ wtLock = NoDaemon /\ PeersResolved(Phase)
  /\ attempts[Phase] # << >> /\ Closed(Phase) /\ ~PendingAutoRecovery(Phase)
  /\ \E r \in OutcomeReports : Reports(g, r)
  /\ UNCHANGED <<vars, card, tick, unblocked, parked, abandoned>>

(* The peers, the preflight or the snapshot are refused.                   *)
MayRefuse == attempts[Phase] = << >> \/ PendingAutoRecovery(Phase) \/ ~PeersResolved(Phase)

AttachFails(g) ==
  /\ worker[g].pc = "attach"
  /\ wtLock = NoDaemon
  /\ MayRefuse
  /\ Reports(g, "failed")
  /\ UNCHANGED <<vars, card, tick, unblocked, parked, abandoned>>

WorkerSeesOutcome(g) ==
  /\ worker[g].pc = "wait"
  /\ attempts[Phase] # << >> /\ Closed(Phase)
  /\ Generation(Phase) >= worker[g].expected
  /\ \E r \in OutcomeReports : Reports(g, r)
  /\ UNCHANGED <<vars, card, tick, unblocked, parked, abandoned>>

(* Mutant: the poll does not wait for the daemon that holds the lock.      *)
ExecutionLockFree_Always == TRUE

(* The execution lock is free: no daemon is between consuming an approval  *)
(* and admitting its attempt.                                              *)
ExecutionLockFree == ~(wtLock \in Daemons /\ Exec(wtLock) = Phase)

ApprovalOpen(generation) ==
  intent[Phase].status = "approved" /\ intent[Phase].generation = generation

AwaitsAdmission(g) ==
  /\ worker[g].pc = "wait"
  /\ Generation(Phase) < worker[g].expected
  /\ ExecutionLockFree

(* recovery_invalidated: consumed by a dead daemon, or invalidated.        *)
WorkerSeesInvalidated(g) ==
  /\ AwaitsAdmission(g)
  /\ ~ApprovalOpen(worker[g].expected - 1)
  /\ Reports(g, "invalidated")
  /\ UNCHANGED <<vars, card, tick, unblocked, parked, abandoned>>

(* admission_failed: the grace of its daemon is over.                      *)
WorkerSeesStall(g) ==
  /\ AwaitsAdmission(g)
  /\ ApprovalOpen(worker[g].expected - 1)
  /\ Reports(g, "stalled")
  /\ UNCHANGED <<vars, card, tick, unblocked, parked, abandoned>>

(* The bounded wait is over, or the session ended without a final line.    *)
WorkerReconnects(g) ==
  /\ worker[g].pc = "wait"
  /\ ~Closed(Phase) \/ attempts[Phase] = << >>
  /\ worker' = [worker EXCEPT ![g] = [NoWorker EXCEPT !.pc = "attach"]]
  /\ UNCHANGED <<vars, card, tick, unblocked, parked, abandoned>>

(* The worker transitions its card, if that is still its own run.          *)
WorkerReports(g) ==
  /\ worker[g].pc = "report"
  /\ card' = [card EXCEPT ![g] =
       IF @.status # "running" THEN @
       ELSE IF worker[g].report = "completed" THEN [@ EXCEPT !.status = "done"]
       ELSE Blocked(@)]
  /\ worker' = [worker EXCEPT ![g] = NoWorker]
  /\ UNCHANGED <<vars, tick, unblocked, parked, abandoned>>

(* The card's ceiling is reached or the worker ends early: the card is     *)
(* blocked although the attempt may go on.                                 *)
WorkerGivesUp(g) ==
  /\ worker[g].pc \in {"attach", "wait"}
  /\ card' = [card EXCEPT ![g] = IF @.status = "running" THEN Blocked(@) ELSE @]
  /\ worker' = [worker EXCEPT ![g] = NoWorker]
  /\ UNCHANGED <<vars, tick, unblocked, parked, abandoned>>

WorkerStep(g) ==
  \/ \E d \in Daemons : AttachStarts(g, d) \/ AttachResumes(g, d)
  \/ AttachJoins(g) \/ AttachFindsChange(g) \/ AttachReports(g) \/ AttachFails(g)
  \/ WorkerSeesOutcome(g) \/ WorkerSeesInvalidated(g) \/ WorkerSeesStall(g)
  \/ WorkerReconnects(g) \/ WorkerReports(g) \/ WorkerGivesUp(g)

-----------------------------------------------------------------------------
(* The tick: reconcile_schedule and route_recovery *)

TickAt(pc) == tick.pc = pc

Unlock     == wtLock' = NoDaemon /\ tick' = IdleTick
TickTo(pc) == tick' = [tick EXCEPT !.pc = pc] /\ UNCHANGED wtLock

(* _refuse, or a ResultContractError: the marker is the human boundary.    *)
Park == parked' = TRUE /\ Unlock

superVars == <<storeVars, intent, nextEvent, work, live, marker, promoted, daemon, crashes>>

(* locked_run_authority, then the board is listed.  A list that failed     *)
(* looks like a board without cards.  A done card leaves nothing to route. *)
TickReads ==
  /\ TickAt("idle") /\ ~abandoned
  /\ wtLock = NoDaemon
  /\ wtLock' = Tick
  /\ \E seen \in {0, Newest} :
       /\ seen # 0 => card[seen].status # "done"
       /\ tick' = [IdleTick EXCEPT !.pc = "route", !.seen = seen,
                     !.status = IF seen = 0 THEN "none" ELSE card[seen].status]
  /\ UNCHANGED <<superVars, card, worker, unblocked, parked, abandoned>>

(* After a verdict that ends the pass.                                     *)
TickLeaves ==
  /\ TickAt("leave")
  /\ Unlock
  /\ UNCHANGED <<superVars, card, worker, unblocked, parked, abandoned>>

Resumable(a) ==
  /\ Settled(a)
  /\ a.status # "exited" \/ a.reason = "result_invalid"

(* PROCEED: the ordinary admission, for which HEAD must be the             *)
(* predecessor's; the card of a recorded attempt is left to its worker.    *)
RouteProceeds ==
  /\ TickAt("route")
  /\ attempts[Phase] # << >> => Closed(Phase) /\ ~Resumable(Last(Phase))
  /\ \E headMatches \in BOOLEAN :
       IF tick.seen = 0 /\ headMatches
       THEN /\ tick' = [tick EXCEPT !.pc = "create", !.next = 1]
            /\ UNCHANGED <<wtLock, parked>>
       ELSE Unlock /\ parked' = (parked \/ tick.seen = 0)
  /\ UNCHANGED <<superVars, card, worker, unblocked, abandoned>>

(* Mutant: triage does not count as given up.                              *)
HasGivenUp_BlockedOnly == tick.seen # 0 /\ tick.status = "blocked"

HasGivenUp == tick.seen # 0 /\ tick.status \in GaveUp
CardAhead  == tick.seen > Generation(Phase)
MayUnblock == tick.status = "blocked" /\ tick.seen \notin unblocked

(* WAIT: a daemon or a worker is still responsible.  A card blocked while  *)
(* a live daemon owns the attempt is unblocked once.                       *)
RouteWaits ==
  /\ TickAt("route")
  /\ attempts[Phase] # << >>
  /\ Closed(Phase) => Resumable(Last(Phase)) /\ tick.seen # 0 /\ ~HasGivenUp
  /\ IF ~Closed(Phase) /\ MayUnblock /\ SupervisorAlive(Phase)
     THEN TickTo("unblock") ELSE Unlock
  /\ UNCHANGED <<superVars, card, worker, unblocked, parked, abandoned>>

Stalled == HasGivenUp /\ CardAhead /\ ApprovalOpen(Generation(Phase))

(* The worker of the next generation gave up while the approval is open:   *)
(* its daemon gets one more chance.                                        *)
RouteStalled ==
  /\ TickAt("route")
  /\ attempts[Phase] # << >> /\ Closed(Phase) /\ Resumable(Last(Phase))
  /\ Stalled
  /\ IF MayUnblock THEN TickTo("unblock") /\ UNCHANGED parked ELSE Park
  /\ UNCHANGED <<superVars, card, worker, unblocked, abandoned>>

(* auto_approve_resume's verdict, and whether it leaves the intent alone.   *)
Verdict ==
  IF ~PeersResolved(Phase) THEN "busy"
  ELSE IF ~ResumableOutcome(Last(Phase)) \/ Last(Phase).cleanup # "confirmed" THEN "refused"
  ELSE IF Generation(Phase) >= MaxGenerations THEN "exhausted"
  ELSE IF OperatorIntentPending(Phase) THEN "refused"
  ELSE IF AlreadyApproved(Phase) \/ (SnapshotSafe /\ Reissues(Phase) <= MaxReissues)
  THEN "approved"
  ELSE "refused"

IntentStands ==
  \/ Verdict = "busy"
  \/ OperatorIntentPending(Phase) /\ ResumeEligible(Phase)
  \/ Verdict \in {"refused", "exhausted"} /\ ~Retractable(Phase)
  \/ Verdict = "approved" /\ AlreadyApproved(Phase)

Asks ==
  IF IntentStands THEN UNCHANGED vars ELSE AutoApprove(Phase)

RouteAsks ==
  /\ TickAt("route")
  /\ attempts[Phase] # << >> /\ Closed(Phase) /\ Resumable(Last(Phase))
  /\ tick.seen = 0 \/ HasGivenUp
  /\ ~Stalled
  /\ Asks
  /\ parked' = (parked \/ Verdict = "refused")
  /\ tick' = [tick EXCEPT
       !.pc   = IF Verdict \in {"approved", "exhausted"} THEN "retire" ELSE "leave",
       !.next = IF Verdict = "approved" THEN Generation(Phase) + 1 ELSE 0]
  /\ UNCHANGED <<card, worker, unblocked, abandoned>>

(* unblock_once: the command may fail, or take effect and time out; only a *)
(* confirmed one is recorded.                                              *)
UnblockConfirmed ==
  /\ TickAt("unblock")
  /\ card[tick.seen].status = "blocked"
  /\ SetCard(tick.seen, "ready")
  /\ TickTo("unblocked")
  /\ UNCHANGED <<superVars, worker, unblocked, parked, abandoned>>

UnblockFails ==
  /\ TickAt("unblock")
  /\ \/ UNCHANGED card
     \/ card[tick.seen].status = "blocked" /\ SetCard(tick.seen, "ready")
  /\ parked' = (parked \/ Closed(Phase))
  /\ Unlock
  /\ UNCHANGED <<superVars, worker, unblocked, abandoned>>

UnblockRecorded ==
  /\ TickAt("unblocked")
  /\ unblocked' = unblocked \cup {tick.seen}
  /\ Unlock
  /\ UNCHANGED <<superVars, card, worker, parked, abandoned>>

(* _retire_cards: another list, which a running card's worker vetoes ...    *)
Retiring(stale) ==
  /\ tick' = [tick EXCEPT !.stale = stale, !.pc =
                 IF stale # {} THEN "archive" ELSE IF tick.next = 0 THEN "abandon" ELSE "create"]
  /\ UNCHANGED wtLock

RetireReads ==
  /\ TickAt("retire")
  /\ IF \E g \in Generations : card[g].status = "running" THEN Unlock ELSE Retiring(ListedCards)
  /\ UNCHANGED <<superVars, card, worker, unblocked, parked, abandoned>>

RetireUnreadable ==
  /\ TickAt("retire")
  /\ Park
  /\ UNCHANGED <<superVars, card, worker, unblocked, abandoned>>

(* ... and then one archive command per card, each confirmed by a list.    *)
ArchiveConfirmed(g) ==
  /\ TickAt("archive") /\ g \in tick.stale
  /\ Archive(g)
  /\ Retiring(tick.stale \ {g})
  /\ UNCHANGED <<superVars, worker, unblocked, parked, abandoned>>

(* Mutant: an unconfirmed archive does not stop the pass.                  *)
ArchiveUnconfirmed_GoesOn(g) ==
  /\ TickAt("archive") /\ g \in tick.stale
  /\ UNCHANGED card \/ Archive(g)
  /\ Retiring(tick.stale \ {g})
  /\ UNCHANGED <<superVars, worker, unblocked, parked, abandoned>>

ArchiveUnconfirmed(g) ==
  /\ TickAt("archive") /\ g \in tick.stale
  /\ UNCHANGED card \/ Archive(g)
  /\ Park
  /\ UNCHANGED <<superVars, worker, unblocked, abandoned>>

Abandons ==
  /\ TickAt("abandon")
  /\ abandoned' = TRUE
  /\ Park
  /\ UNCHANGED <<superVars, card, worker, unblocked>>

(* Mutant: whatever card the generation has is replaced.                   *)
Created_Always(g) == [card EXCEPT ![g] = NewCard]

(* _create_task adopts a live card of the generation, by the snapshot or   *)
(* by Hermes' idempotency key; an archived one is replaced.                *)
Created(g) == IF card[g].status \in Listed THEN card ELSE [card EXCEPT ![g] = NewCard]

CreateConfirmed ==
  /\ TickAt("create")
  /\ card' = Created(tick.next)
  /\ parked' = (parked /\ tick.next = 1)
  /\ Unlock
  /\ UNCHANGED <<superVars, worker, unblocked, abandoned>>

(* RetryableReviewRegistration: the next tick tries again.                  *)
CreateUncertain ==
  /\ TickAt("create")
  /\ card' \in {card, Created(tick.next)}
  /\ Unlock
  /\ UNCHANGED <<superVars, worker, unblocked, parked, abandoned>>

TickDies ==
  /\ ~TickAt("idle")
  /\ crashes < MaxCrashes
  /\ crashes' = crashes + 1
  /\ wtLock' = NoDaemon
  /\ tick' = IdleTick
  /\ UNCHANGED <<storeVars, intent, nextEvent, work, live, marker, promoted, daemon,
                 card, worker, unblocked, parked, abandoned>>

TickStep ==
  \/ TickReads \/ TickLeaves
  \/ RouteProceeds \/ RouteWaits \/ RouteStalled \/ RouteAsks
  \/ UnblockConfirmed \/ UnblockFails \/ UnblockRecorded
  \/ RetireReads \/ RetireUnreadable
  \/ \E g \in Generations : ArchiveConfirmed(g) \/ ArchiveUnconfirmed(g)
  \/ Abandons \/ CreateConfirmed \/ CreateUncertain

-----------------------------------------------------------------------------
PhaseInit ==
  /\ Init
  /\ card = [g \in Generations |-> NoCard]
  /\ worker = [g \in Generations |-> NoWorker]
  /\ tick = IdleTick
  /\ unblocked = {}
  /\ parked = FALSE
  /\ abandoned = FALSE

(* The daemons, the sweep that precedes the tick's pass, and what neither  *)
(* controls.  A reboot is left to AgentSupervisor.                         *)
SupervisorStep ==
  /\ \/ \E d \in Daemons : DaemonStep(d) \/ DaemonDies(d)
     \/ \E e \in Executions : Recover(e) \/ \E p \in Processes : ProcessEnds(e, p)
     \/ Edit
  /\ UNCHANGED boardVars

(* An operator recovers with an event of the operator's own.                *)
OperatorRecovers ==
  /\ Operators # {}
  /\ \/ Prepare(Phase) \/ Approve(Phase)
     \/ intent[Phase].event.by = "operator" /\ \E d \in Daemons : AttachRecovery(Phase, d)
  /\ UNCHANGED boardVars

PhaseNext ==
  \/ SupervisorStep
  \/ OperatorRecovers
  \/ \E g \in Generations : Dispatch(g) \/ OperatorUnblocks(g) \/ WorkerStep(g)
  \/ TickStep \/ TickDies

PhaseSpec == PhaseInit /\ [][PhaseNext]_phaseVars

(* Hermes dispatches ready cards and a worker that has something to report *)
(* reports it.  Ticks recur, and what a tick asks of Hermes does not fail  *)
(* for ever: each command that is tried again and again is confirmed once. *)
TickFairness ==
  /\ \A g \in Generations :
       /\ WF_phaseVars(Dispatch(g))
       /\ WF_phaseVars(WorkerStep(g))
       /\ SF_phaseVars(ArchiveConfirmed(g))
  /\ SF_phaseVars(TickReads /\ tick'.seen = Newest)
  /\ WF_phaseVars(TickStep)
  /\ SF_phaseVars(RetireReads)
  /\ SF_phaseVars(CreateConfirmed)
  /\ SF_phaseVars(UnblockConfirmed)

(* Daemons and sweeps as in AgentSupervisor.                               *)
SupervisorFairness ==
  /\ \A d \in Daemons : WF_phaseVars(DaemonStep(d) /\ UNCHANGED boardVars)
  /\ \A e \in Executions :
       /\ WF_phaseVars(RecoverConfirmed(e) /\ UNCHANGED boardVars)
       /\ WF_phaseVars(RecoverUnconfirmed(e) /\ UNCHANGED boardVars)
       /\ WF_phaseVars(ReceiptedEnds(e) /\ UNCHANGED boardVars)

FairPhaseSpec == PhaseSpec /\ TickFairness /\ SupervisorFairness

-----------------------------------------------------------------------------
(* The types of the board, the workers and the tick's pass.                *)
PhaseTypeOK ==
  /\ card      \in [Generations -> Cards]
  /\ worker    \in [Generations -> Workers]
  /\ tick      \in Ticks
  /\ unblocked \subseteq Generations
  /\ parked    \in BOOLEAN
  /\ abandoned \in BOOLEAN

(* A card for a later generation is on the board only if the attempt       *)
(* before it ended and its processes are known to be gone, although the    *)
(* tick creates it several commands after it looked.                       *)
NextCardMeansSettled ==
  \A g \in Generations \ {1} :
    card[g].status # "none" =>
      /\ Generation(Phase) >= g - 1
      /\ attempts[Phase][g-1].status \in Terminal
      /\ attempts[Phase][g-1].cleanup = "confirmed"

(* A worker that reports recovery_invalidated is right: the event its      *)
(* daemon was started for admits no attempt, then or later.  The report is *)
(* terminal for the card, so a wrong one would leave a running attempt     *)
(* without anybody to complete the card.                                   *)
InvalidatedIsFinal ==
  \A g \in Generations :
    worker[g].report = "invalidated" => ~EventUsed(Phase, worker[g].event)

(* An abandoned run leaves no card on the board that Hermes or an operator *)
(* could start again: selection is released on the strength of it.         *)
AbandonedLeavesNoCard == abandoned => ListedCards = {}

(* What makes these inductive: the tick holds the worktree lock throughout *)
(* a pass, the cards it still has to archive are the listed ones, what     *)
(* it creates follows a settled attempt, and what it unblocks it has read. *)
FollowsSettled(g) ==
  Generation(Phase) >= g - 1 /\ Settled(attempts[Phase][g-1])

TickRelies ==
  /\ tick.pc # "idle" <=> wtLock = Tick
  /\ tick.pc \in {"archive", "abandon"} => ListedCards = tick.stale
  /\ tick.pc = "abandon" => tick.stale = {}
  /\ abandoned => tick.pc = "idle"
  /\ tick.next > 1 => FollowsSettled(tick.next)
  /\ tick.seen = 0 => tick.status = "none"
  /\ tick.pc \in {"unblock", "unblocked"} => tick.seen # 0

PhaseInv ==
  /\ PhaseTypeOK
  /\ SupervisorInv
  /\ TickRelies
  /\ NextCardMeansSettled
  /\ AbandonedLeavesNoCard

(* The card of a completed attempt stays done: no later pass archives or   *)
(* replaces it, whatever the list of the board said.  An attempt that is   *)
(* recorded result_invalid after its result was promoted is left out:      *)
(* status calls it completed and the tick resumes it.                      *)
CompletionRecorded == MayBeCompleted /\ Last(Phase).reason = "none"
DoneIsFinal ==
  [][\A g \in Generations :
       attempts[Phase] # << >> /\ CompletionRecorded /\ card[g].status = "done"
       => card'[g].status = "done"]_phaseVars

(* A failed attempt nobody waits for any more is answered: the tick        *)
(* reissues the phase, parks it for a human or abandons the run.           *)
Unanswered ==
  /\ attempts[Phase] # << >> /\ Closed(Phase) /\ Resumable(Last(Phase))
  /\ Newest = 0 \/ card[Newest].status \in GaveUp
  /\ ~parked /\ ~abandoned
FailureIsAnswered == Unanswered ~> ~Unanswered

=============================================================================
