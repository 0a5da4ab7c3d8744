----------------------------- MODULE ProjectTick -----------------------------
(***************************************************************************)
(* One project's tick (src/hermes_pipeline/cli.py, _tick_project), from    *)
(* the reconciliation of a pending create to the claim of the next issue,  *)
(* composed with the durable registration of its cards, the run            *)
(* registrations, the phase outcomes and the circuit breaker.  Ticks recur *)
(* under the project's lock, one at a time (module TickLock); each may die *)
(* between any two steps.  The later cards of a pinned run are module      *)
(* PhaseRecovery's: its one card here stands for the whole run.            *)
(***************************************************************************)
EXTENDS DurableRegistration, FiniteSets

CONSTANTS
  Issues,       \* GitHub issues of the project
  NoIssue,
  Kinds,        \* profiles in use: a subset of {"legacy", "pinned"}
  Threshold,    \* no_progress_threshold of the circuit breaker
  MaxCrashes,   \* ticks that die (bound)
  MaxDrifts     \* edits, holds and closings of issues by people (bound)

ASSUME IssuesAssumption == NoIssue \notin Issues
ASSUME KindsAssumption == Kinds \subseteq {"legacy", "pinned"}
ASSUME ThresholdAssumption == Threshold \in Nat \ {0}
ASSUME BoundsAssumption == MaxCrashes \in Nat /\ MaxDrifts \in Nat

VARIABLES
  tick,       \* the tick under way: [pc, id, prior, pick]
  current,    \* current_tick_id.txt
  outcome,    \* outcome[t], the outcome lines of <t>-phases.json
  run,        \* run[t], registration_state of runs/<t>, "none" without registration.json
  finish,     \* finish[t], the finish-verified marker
  issueOf,    \* the issue a tick registered
  issue,      \* issue[i] on GitHub: [open, ready, claimed, pinned]
  pr,         \* pr[t], the pull request of the tick's branch
  stalls,     \* consecutive_no_progress, up to the threshold
  alerted,    \* the breaker sent an alert since the last progress
  stopped,    \* the harness drives no more ticks
  crashes,
  drifts

tickVars == <<tick, current, outcome, run, finish, issueOf, issue, pr, stalls, alerted,
              stopped, crashes, drifts>>
vars == <<regVars, tickVars>>

Idle == [pc |-> "idle", prior |-> NoTick, id |-> NoTick, pick |-> NoIssue]
TickPcs == {"idle", "marker", "prior", "drift", "results", "delivery", "complete", "outcomes",
            "history", "select", "nopick", "nopersist", "register", "bind", "persist",
            "started", "chain", "claim"}

TypeOK ==
  /\ RegTypeOK
  /\ tick \in [pc : TickPcs, prior : Ticks \cup {NoTick}, id : Ticks \cup {NoTick},
               pick : Issues \cup {NoIssue}]
  /\ current \in Ticks \cup {NoTick}
  /\ outcome \in [Ticks -> SUBSET {"tick_started", "picked_none", "complete", "failed"}]
  /\ run \in [Ticks -> {"none", "active", "abandoned", "delivered"}]
  /\ finish \in [Ticks -> BOOLEAN]
  /\ issueOf \in [Ticks -> Issues \cup {NoIssue}]
  /\ issue \in [Issues -> [open : BOOLEAN, ready : BOOLEAN, claimed : BOOLEAN, pinned : BOOLEAN]]
  /\ pr \in [Ticks -> {"none", "open", "merged", "closed"}]
  /\ stalls \in 0..Threshold
  /\ alerted \in BOOLEAN /\ stopped \in BOOLEAN
  /\ crashes \in 0..MaxCrashes /\ drifts \in 0..MaxDrifts

Init ==
  /\ RegInit
  /\ tick = Idle
  /\ current = NoTick
  /\ outcome = [t \in Ticks |-> {}]
  /\ run = [t \in Ticks |-> "none"]
  /\ finish = [t \in Ticks |-> FALSE]
  /\ issueOf = [t \in Ticks |-> NoIssue]
  /\ issue = [i \in Issues |-> [open |-> TRUE, ready |-> TRUE, claimed |-> FALSE, pinned |-> TRUE]]
  /\ pr = [t \in Ticks |-> "none"]
  /\ stalls = 0
  /\ alerted = FALSE /\ stopped = FALSE
  /\ crashes = 0 /\ drifts = 0

-----------------------------------------------------------------------------
(* Helpers.                                                                *)

To(pc) == tick' = [tick EXCEPT !.pc = pc]
Returns == tick' = Idle

\* CircuitBreaker.observe.
ObserveProgress == stalls' = 0 /\ alerted' = FALSE
ObserveStall ==
  /\ stalls' = IF stalls < Threshold THEN stalls + 1 ELSE stalls
  /\ alerted' = (alerted \/ stalls + 1 >= Threshold)
ObserveNeutral == UNCHANGED <<stalls, alerted>>
breaker == <<stalls, alerted>>

Stalls == ObserveStall /\ Returns

Unused == {t \in Ticks : kind[t] = "unused"}
Prior == tick.prior

\* Mutant: a tick without a registration is nobody's prior run.
PriorTick_Registered ==
  IF current # NoTick /\ run[current] = "active" THEN current ELSE NoTick

\* The pointer, unless its run was delivered or abandoned (_read_prior_tick_id).
PriorTick ==
  IF current # NoTick /\ run[current] \in {"none", "active"} THEN current ELSE NoTick

\* get_todo_kanban_status: the tick's cards that are not archived, barrier included.
StatusMap(t) == {p \in 0..Chain(t) : card[t][p] \in Live}
ChainDone(t) == \A p \in 1..Chain(t) : card[t][p] = "done"

\* The expected phases that all_phases_complete reads are the project's.
Expected(t) == CASE expected[Project] = "none"   -> TRUE
                 [] expected[Project] = "legacy" -> kind[t] = "legacy" /\ StatusMap(t) = 0..NPhases
                 [] OTHER                        -> ChainDone(t)

\* all_phases_complete.
AllPhasesComplete(t) ==
  \/ StatusMap(t) = {} /\ run[t] = "none" /\ "picked_none" \in outcome[t]
  \/ /\ StatusMap(t) # {}
     /\ \A p \in StatusMap(t) : card[t][p] = "done"
     /\ kind[t] = "pinned" => ChainDone(t)
     /\ Expected(t)

ActiveRuns == {t \in Ticks : run[t] = "active"}

\* active_registration_issue_numbers.
ActiveIssues == {issueOf[t] : t \in ActiveRuns}

\* build_in_flight: the issues with a card that is ready or running.
InFlight == {issueOf[t] : t \in {u \in Ticks : \E p \in 1..NPhases :
               card[u][p] = "running" \/ (card[u][p] = "todo" /\ Released(u, p))}}

\* compile_eligible_issues / _status_reason.
Eligible(i, inFlight) ==
  /\ issue[i].open /\ issue[i].ready /\ ~issue[i].claimed
  /\ i \notin ActiveIssues
  /\ i \notin inFlight

\* unresolved_execution_runs.
UnresolvedRuns == {t \in ActiveRuns \ {Prior} : ~finish[t]}

-----------------------------------------------------------------------------
(* The tick up to its prior run.                                            *)

TickBegins ==
  /\ tick.pc = "idle" /\ Free /\ ~stopped
  /\ tick' = [Idle EXCEPT !.pc = "marker"]
  /\ BeginReconcile
  /\ UNCHANGED <<kind, card, active, admitted, marker, expected, faults, cancelled, current,
                 outcome, run, finish, issueOf, issue, pr, breaker, stopped, crashes, drifts>>

\* A project whose marker is not resolved is skipped; otherwise verified deliveries of
\* other runs are retried (reconcile_pending_deliveries) and the pointer is read: a run
\* that was delivered or abandoned no longer is the prior one.
MarkerChecked ==
  /\ tick.pc = "marker" /\ Free
  /\ \/ /\ ~job.ok
        /\ Returns
        /\ UNCHANGED <<run, issue>>
     \/ /\ job.ok
        /\ \E D \in SUBSET {t \in ActiveRuns \ {current} : finish[t] /\ pr[t] = "merged"} :
             /\ run' = [t \in Ticks |-> IF t \in D THEN "delivered" ELSE run[t]]
             /\ issue' = [i \in Issues |-> IF i \in {issueOf[t] : t \in D}
                                           THEN [issue[i] EXCEPT !.open = FALSE, !.claimed = FALSE]
                                           ELSE issue[i]]
        /\ tick' = [tick EXCEPT !.prior = PriorTick,
                                !.pc = IF PriorTick = NoTick THEN "history"
                                       ELSE IF run[PriorTick] = "active" THEN "drift"
                                       ELSE "complete"]
  /\ UNCHANGED <<regVars, current, outcome, finish, issueOf, pr, breaker, stopped, crashes, drifts>>

driftFrame == <<kind, card, active, admitted, marker, expected, job, cancelled, current, outcome,
                run, finish, issueOf, pr, stopped, crashes, drifts>>
Pinned == issue[issueOf[Prior]]

\* The pinned issue is read once; a missing claim label is added again.  An issue that cannot
\* be read does not stop the reconciliation, and a closed issue may be what the merge did.
CheckDrift ==
  /\ tick.pc = "drift"
  /\ \/ /\ Fails
        /\ To("results")
        /\ UNCHANGED issue
     \/ /\ ~Pinned.open /\ finish[Prior]
        /\ To("delivery")
        /\ UNCHANGED <<issue, faults>>
     \/ /\ Pinned.open /\ Pinned.pinned
        /\ issue' = [issue EXCEPT ![issueOf[Prior]].claimed = TRUE]
        /\ To("results")
        /\ UNCHANGED faults
  /\ UNCHANGED <<breaker, driftFrame>>

\* flag_issue_drift: nothing of a run whose issue is no longer what was pinned is reconciled.
BlockDrift ==
  /\ tick.pc = "drift"
  /\ IF Pinned.open THEN ~Pinned.pinned ELSE ~finish[Prior]
  /\ Stalls
  /\ UNCHANGED <<issue, faults, driftFrame>>

resultsFrame == <<kind, active, marker, expected, job, cancelled, current, outcome, run, finish,
                  issueOf, issue, pr, stopped, crashes, drifts>>

\* The schedule admits a worker that is not on the board; its idempotent create finds the
\* chain's own card when there is one.
AdmitWorker ==
  /\ tick.pc = "results"
  /\ card[Prior][1] \in {"none", "archived", "late"}
  /\ card' = [card EXCEPT ![Prior][1] = "todo"]
  /\ admitted' = [admitted EXCEPT ![Prior] = @ \/ card[Prior][1] # "late"]
  /\ To("complete")
  /\ UNCHANGED <<breaker, faults, resultsFrame>>

\* reconcile_plan_task_results and reconcile_reviews wait for a worker and accept its result.
AcceptResults ==
  /\ tick.pc = "results"
  /\ card[Prior][1] \in Live
  /\ To(IF card[Prior][1] = "done" THEN "delivery" ELSE "complete")
  /\ UNCHANGED <<card, admitted, breaker, faults, resultsFrame>>

\* A result that does not validate blocks the run, beside its evidence.
RejectResults ==
  /\ tick.pc = "results"
  /\ Fails
  /\ Stalls
  /\ UNCHANGED <<card, admitted, resultsFrame>>

Merged(t) == pr[t] = "merged"

\* reconcile_todo_completion (module Delivery): verified once, closed after the merge.
ReconcileDelivery ==
  /\ tick.pc = "delivery"
  /\ \/ /\ Fails
        /\ Stalls
        /\ UNCHANGED <<finish, run, issue>>
     \/ /\ finish' = [finish EXCEPT ![Prior] = TRUE]
        /\ pr[Prior] = "closed"
        /\ Stalls
        /\ UNCHANGED <<faults, run, issue>>
     \/ /\ finish' = [finish EXCEPT ![Prior] = TRUE]
        /\ pr[Prior] # "closed"
        /\ \/ /\ Merged(Prior)
              /\ run' = [run EXCEPT ![Prior] = "delivered"]
              /\ issue' = [issue EXCEPT ![issueOf[Prior]].open = FALSE,
                                        ![issueOf[Prior]].claimed = FALSE]
           \/ UNCHANGED <<run, issue>>          \* not merged, or checks pending
        /\ To("complete")
        /\ UNCHANGED <<breaker, faults>>
  /\ UNCHANGED <<kind, card, active, admitted, marker, expected, job, cancelled, current, outcome,
                 issueOf, pr, stopped, crashes, drifts>>

\* Mutant: a chain counts as blocked when all of it is.
HasBlocked_All(t) == \A p \in StatusMap(t) : card[t][p] = "blocked"

HasBlocked(t) == \E p \in StatusMap(t) : card[t][p] = "blocked"

\* observe_outcomes: only a board that shows the tick's cards adds to its outcomes.
WriteOutcomes(t, o) ==
  outcome' = [outcome EXCEPT ![t] = IF StatusMap(t) = {} THEN @ ELSE @ \cup {o}]

\* A blocked card and an empty board are stalls; a chain in flight is not observed.
CheckComplete ==
  /\ tick.pc = "complete"
  /\ \/ /\ AllPhasesComplete(Prior)
        /\ To("outcomes")
        /\ UNCHANGED <<outcome, breaker, faults>>
     \/ /\ ~AllPhasesComplete(Prior)
        /\ StatusMap(Prior) # {} /\ HasBlocked(Prior)
        /\ WriteOutcomes(Prior, "failed")
        /\ Stalls
        /\ UNCHANGED faults
     \/ /\ ~AllPhasesComplete(Prior)
        /\ StatusMap(Prior) = {}
        /\ Stalls
        /\ UNCHANGED <<outcome, faults>>
     \/ /\ ~AllPhasesComplete(Prior)
        /\ StatusMap(Prior) # {} /\ ~HasBlocked(Prior)
        /\ Returns
        /\ UNCHANGED <<outcome, breaker, faults>>
     \/ /\ Fails                                \* the board cannot be read
        /\ Stalls
        /\ UNCHANGED outcome
  /\ UNCHANGED <<kind, card, active, admitted, marker, expected, job, cancelled, current, run,
                 finish, issueOf, issue, pr, stopped, crashes, drifts>>

\* observe_from_outcomes on what is now recorded: a completed run is progress, a tick that
\* picked none counts neither way.
JudgeOutcomes(t) == IF StatusMap(t) = {} THEN ObserveNeutral ELSE ObserveProgress

\* _pr_handoff_authority: without registration.json every card on the board must have one of
\* the executions that BindExecutions left on disk, and the barrier has none.
HasAuthority(t) == run[t] = "none" => 0 \notin StatusMap(t)

\* _has_pending_pr_handoff.
Handoff(t) == IF StatusMap(t) = {} THEN "resolved"
              ELSE CASE ~HasAuthority(t) -> "stalled"
                     [] HasAuthority(t) /\ pr[t] = "merged" -> "resolved"
                     [] HasAuthority(t) /\ pr[t] = "open"   -> "waiting"
                     [] OTHER -> "stalled"

outcomesFrame == <<kind, card, active, admitted, marker, expected, job, cancelled, run, finish,
                   issueOf, issue, pr, stopped, crashes, drifts>>

\* The outcomes are written and the pull request is awaited; after its merge the checkout is
\* moved to the base, the pointer cleared and the run judged.
ObserveOutcomes ==
  /\ tick.pc = "outcomes"
  /\ WriteOutcomes(Prior, "complete")
  /\ CASE Handoff(Prior) = "resolved" ->
            /\ current' = IF StatusMap(Prior) = {} THEN current ELSE NoTick
            /\ JudgeOutcomes(Prior)
            /\ To("history")
       [] Handoff(Prior) = "waiting" ->
            ObserveNeutral /\ Returns /\ UNCHANGED current
       [] OTHER ->
            Stalls /\ UNCHANGED current
  /\ UNCHANGED <<faults, outcomesFrame>>

\* The merge state is not available, or the checkout cannot be moved to the merged base.
HandoffUnverified ==
  /\ tick.pc = "outcomes"
  /\ Fails
  /\ WriteOutcomes(Prior, "complete")
  /\ Stalls
  /\ UNCHANGED <<current, outcomesFrame>>

\* An execution of an earlier run that nobody resolved holds the selection.
CheckHistory ==
  /\ tick.pc = "history"
  /\ \/ /\ UnresolvedRuns = {}
        /\ To("select")
        /\ UNCHANGED breaker
     \/ /\ UnresolvedRuns # {}
        /\ Stalls
  /\ UNCHANGED <<regVars, current, outcome, run, finish, issueOf, issue, pr, stopped, crashes, drifts>>

-----------------------------------------------------------------------------
(* Selection and registration.                                             *)

selectFrame == <<card, active, admitted, marker, expected, job, cancelled, current, outcome, run,
                 finish, issue, pr, stopped, crashes, drifts>>

\* A tick id is spent when something is written under it; the others are never seen again.
NextId == CHOOSE t \in Unused : \A u \in Unused : t <= u
Selecting == tick.pc = "select" /\ Unused # {}

\* Contract, capabilities or prerequisites: the tick raises, unobserved.
ContractInvalid ==
  /\ Selecting
  /\ Fails
  /\ Returns
  /\ UNCHANGED <<kind, issueOf, breaker, selectFrame>>

\* _record_tracker_error: a fault of the configuration does not count.
TrackerError ==
  /\ Selecting
  /\ Fails
  /\ ObserveStall \/ ObserveNeutral
  /\ Returns
  /\ UNCHANGED <<kind, issueOf, selectFrame>>

\* No candidate, or the selection picks none of them.
PickNone ==
  /\ Selecting
  /\ ObserveStall
  /\ kind' = [kind EXCEPT ![NextId] = "idle"]
  /\ tick' = [tick EXCEPT !.pc = "nopick", !.id = NextId]
  /\ UNCHANGED <<issueOf, faults, selectFrame>>

\* run_selection picks a compiled candidate and nothing else; without a snapshot of the board
\* the labels and the registrations alone decide.
Pick ==
  /\ Selecting
  /\ \E i \in Issues, k \in Kinds :
       /\ \/ /\ Eligible(i, InFlight)
             /\ UNCHANGED faults
          \/ /\ Eligible(i, {})
             /\ Fails
       /\ kind' = [kind EXCEPT ![NextId] = k]
       /\ issueOf' = [issueOf EXCEPT ![NextId] = i]
       /\ tick' = [tick EXCEPT !.pc = IF k = "pinned" THEN "register" ELSE "bind",
                               !.id = NextId, !.pick = i]
  /\ UNCHANGED <<breaker, selectFrame>>

\* Mutant: the pointer is written before the sentinel.
RecordPickedNone_PointerFirst ==
  /\ tick.pc = "nopick"
  /\ current' = tick.id
  /\ To("nopersist")
  /\ UNCHANGED <<regVars, outcome, run, finish, issueOf, issue, pr, breaker, stopped, crashes, drifts>>

\* The picked_none sentinel is written before the pointer; without it the pointer stays.
RecordPickedNone ==
  /\ tick.pc = "nopick"
  /\ \/ /\ outcome' = [outcome EXCEPT ![tick.id] = {"picked_none"}]
        /\ To("nopersist")
        /\ UNCHANGED faults
     \/ /\ Fails
        /\ Returns
        /\ UNCHANGED outcome
  /\ UNCHANGED <<kind, card, active, admitted, marker, expected, job, cancelled, current, run,
                 finish, issueOf, issue, pr, breaker, stopped, crashes, drifts>>

PersistPickedNone ==
  /\ tick.pc = "nopersist"
  /\ current' = tick.id
  /\ Returns
  /\ UNCHANGED <<regVars, outcome, run, finish, issueOf, issue, pr, breaker, stopped, crashes, drifts>>

registerFrame == <<kind, card, active, admitted, marker, expected, job, cancelled, current, outcome,
                   finish, issueOf, pr, stopped, crashes, drifts>>

\* register_pinned_run: the artifact, registration.json, then the worktree.
RegisterRun ==
  /\ tick.pc = "register"
  /\ run' = [run EXCEPT ![tick.id] = "active"]
  /\ To("bind")
  /\ UNCHANGED <<issue, breaker, faults, registerFrame>>

\* What fails after registration.json is abandoned when the Plan is the issue's own; the run of a
\* Plan in the repository stays active (cli.py:2826-2841).  A fault of the issue's own content
\* demotes it.
RegistrationFails ==
  /\ tick.pc = "register"
  /\ Fails
  /\ \E state \in {"none", "active", "abandoned"} : run' = [run EXCEPT ![tick.id] = state]
  /\ \E ready \in {issue[tick.pick].ready, FALSE} :
       issue' = [issue EXCEPT ![tick.pick].ready = ready]
  /\ Stalls
  /\ UNCHANGED registerFrame

\* prepare_todo_phases and bind_prepared_executions; their failure abandons the run.
BindExecutions ==
  /\ tick.pc = "bind"
  /\ \/ /\ To("persist")
        /\ UNCHANGED <<run, breaker, faults>>
     \/ /\ Fails
        /\ run' = [run EXCEPT ![tick.id] = IF @ = "active" THEN "abandoned" ELSE @]
        /\ Stalls
  /\ UNCHANGED <<kind, card, active, admitted, marker, expected, job, cancelled, current, outcome,
                 finish, issueOf, issue, pr, stopped, crashes, drifts>>

\* _persist_tick_id.
PersistTickId ==
  /\ tick.pc = "persist"
  /\ \/ /\ current' = tick.id
        /\ To("started")
        /\ UNCHANGED faults
     \/ /\ Fails
        /\ Returns
        /\ UNCHANGED current
  /\ UNCHANGED <<kind, card, active, admitted, marker, expected, job, cancelled, outcome, run,
                 finish, issueOf, issue, pr, breaker, stopped, crashes, drifts>>

\* The tick_started sentinel is best effort; then the chain is created.
BeginChain ==
  /\ tick.pc = "started"
  /\ \/ /\ outcome' = [outcome EXCEPT ![tick.id] = @ \cup {"tick_started"}]
        /\ UNCHANGED faults
     \/ /\ Fails
        /\ UNCHANGED outcome
  /\ BeginCreate(tick.id)
  /\ To("chain")
  /\ UNCHANGED <<kind, card, active, admitted, marker, expected, cancelled, current, run, finish,
                 issueOf, issue, pr, breaker, stopped, crashes, drifts>>

\* A chain that was not committed makes the tick raise, unobserved.
ChainCreated ==
  /\ tick.pc = "chain" /\ Free
  /\ IF job.ok THEN To("claim") ELSE Returns
  /\ UNCHANGED <<regVars, current, outcome, run, finish, issueOf, issue, pr, breaker, stopped,
                 crashes, drifts>>

\* The claim label is best effort.
ClaimIssue ==
  /\ tick.pc = "claim"
  /\ \/ /\ issue' = [issue EXCEPT ![tick.pick].claimed = TRUE]
        /\ UNCHANGED faults
     \/ /\ Fails
        /\ UNCHANGED issue
  /\ ObserveProgress
  /\ Returns
  /\ UNCHANGED <<kind, card, active, admitted, marker, expected, job, cancelled, current, outcome,
                 run, finish, issueOf, pr, stopped, crashes, drifts>>

TickStep ==
  \/ MarkerChecked
  \/ CheckDrift
  \/ BlockDrift
  \/ AdmitWorker
  \/ AcceptResults
  \/ RejectResults
  \/ ReconcileDelivery
  \/ CheckComplete
  \/ ObserveOutcomes
  \/ HandoffUnverified
  \/ CheckHistory
  \/ ContractInvalid
  \/ TrackerError
  \/ PickNone
  \/ Pick
  \/ RecordPickedNone
  \/ PersistPickedNone
  \/ RegisterRun
  \/ RegistrationFails
  \/ BindExecutions
  \/ PersistTickId
  \/ BeginChain
  \/ ChainCreated
  \/ ClaimIssue

-----------------------------------------------------------------------------
(* What happens around the tick.                                           *)

TickDies ==
  /\ tick.pc # "idle"
  /\ crashes < MaxCrashes
  /\ crashes' = crashes + 1
  /\ tick' = Idle
  /\ job' = NoJob
  /\ UNCHANGED <<kind, card, active, admitted, marker, expected, faults, cancelled, current,
                 outcome, run, finish, issueOf, issue, pr, breaker, stopped, drifts>>

\* The last worker opens the pull request; people merge it or close it.  GitHub may close
\* the issue of a merged pull request.
OpenPullRequest(t) ==
  /\ kind[t] \in {"legacy", "pinned"}
  /\ ChainDone(t)
  /\ pr[t] = "none"
  /\ pr' = [pr EXCEPT ![t] = "open"]
  /\ UNCHANGED <<regVars, tick, current, outcome, run, finish, issueOf, issue, breaker, stopped,
                 crashes, drifts>>

ResolvePullRequest(t) ==
  /\ pr[t] = "open"
  /\ \/ /\ pr' = [pr EXCEPT ![t] = "merged"]
        /\ \E open \in {issue[issueOf[t]].open, FALSE} :
             issue' = [issue EXCEPT ![issueOf[t]].open = open]
     \/ /\ pr' = [pr EXCEPT ![t] = "closed"]
        /\ UNCHANGED issue
  /\ UNCHANGED <<regVars, tick, current, outcome, run, finish, issueOf, breaker, stopped, crashes,
                 drifts>>

\* A person edits an issue so that it no longer is what was pinned, or closes it.
IssueChanges(i) ==
  /\ drifts < MaxDrifts
  /\ issue[i].open
  /\ \/ issue' = [issue EXCEPT ![i].pinned = FALSE]
     \/ issue' = [issue EXCEPT ![i].open = FALSE]
  /\ drifts' = drifts + 1
  /\ UNCHANGED <<regVars, tick, current, outcome, run, finish, issueOf, pr, breaker, stopped, crashes>>

\* The harness stops driving ticks and cancels the tick the pointer names, as often as it takes.
HarnessStops ==
  /\ ~stopped /\ tick.pc = "idle" /\ Free
  /\ stopped' = TRUE
  /\ UNCHANGED <<regVars, tick, current, outcome, run, finish, issueOf, issue, pr, breaker, crashes,
                 drifts>>

HarnessCancels ==
  /\ stopped /\ Free
  /\ current # NoTick /\ current \notin cancelled
  /\ BeginCancel(current)
  /\ UNCHANGED <<kind, card, active, admitted, marker, expected, faults, cancelled, tickVars>>

CardMoves(t, p) == LateCardShows(t, p) \/ Claim(t, p) \/ WorkerEnds(t, p) \/ Unblock(t, p)

Next ==
  \/ TickBegins
  \/ TickStep
  \/ TickDies
  \/ JobStep /\ UNCHANGED tickVars
  \/ \E t \in Ticks, p \in Positions : p > 0 /\ CardMoves(t, p) /\ UNCHANGED tickVars
  \/ \E t \in Ticks : LateCardShows(t, 0) /\ UNCHANGED tickVars
  \/ \E t \in Ticks : OpenPullRequest(t) \/ ResolvePullRequest(t)
  \/ \E i \in Issues : IssueChanges(i)
  \/ HarnessStops
  \/ HarnessCancels

Spec == Init /\ [][Next]_vars

\* Cron runs ticks again and again and a tick that does not die goes on.
FairSpec == Spec /\ WF_vars(TickBegins) /\ WF_vars(TickStep) /\ WF_vars(JobStep /\ UNCHANGED tickVars)

-----------------------------------------------------------------------------
(* Properties.                                                             *)

Unfinished(t) == \E p \in 1..NPhases : card[t][p] \in {"running", "blocked"} \/ active[t][p]

\* The project works at one selected issue at a time: no two ticks have a worker that runs or
\* waits for an operator (cli.py:2360-2385, run_registration.py:755).
OneRunAtATime ==
  \A t, u \in Ticks : Unfinished(t) /\ Unfinished(u) => t = u

\* The pointer never names a tick that picked none without the evidence of it, whenever the
\* tick dies: the project would be in flight for ever (cli.py:2671-2690).
PickedNoneIsEvident ==
  current # NoTick /\ kind[current] = "idle" => "picked_none" \in outcome[current]

Blocked(t) == current = t /\ \E p \in 1..NPhases : card[t][p] = "blocked"

\* A run that stays blocked reaches the alert, as long as ticks go on (circuit.py:48).
BlockedRunAlerts ==
  \A t \in Ticks : <>[](Blocked(t) /\ ~stopped) => <>[]alerted

\* A commit or a cleanup that its tick left undone is completed by later ticks
\* (kanban_tasks.py:378).
MarkerIsResolved ==
  Free /\ marker[Project].form \in {"commit", "cleanup"} ~> marker[Project].form = "none" \/ stopped
=============================================================================
