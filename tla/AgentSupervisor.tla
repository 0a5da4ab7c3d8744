--------------------------- MODULE AgentSupervisor ---------------------------
(***************************************************************************)
(* Supervised agent executions that share one worktree                     *)
(* (hermes_pipeline/_agent_supervisor.py, agent_recovery.py, and the       *)
(* process ownership of agent_collector.py).                               *)
(*                                                                         *)
(* A worker or an operator attaches to an execution, which spawns a        *)
(* detached daemon.  The daemon takes the worktree lock, admits one        *)
(* attempt, launches the client, collects its exit and its checkpoints and *)
(* writes the terminal outcome, holding the lock throughout.  Anything may *)
(* die between two durable writes; a sweep recovers what a dead daemon     *)
(* left.  A further attempt needs a recovery intent, approved by the       *)
(* operator or by the tick, which binds the state of the worktree.         *)
(*                                                                         *)
(* The execution lock is not modelled: every holder that keeps it over     *)
(* more than one step also holds the worktree lock, and the other holders  *)
(* are single steps here.                                                  *)
(***************************************************************************)
EXTENDS AgentExecution, FiniteSets

CONSTANTS
  Works,          \* states of HEAD, index, working tree and journal
  UnsafeWorks,    \* those whose snapshot or journal is refused
  Manifested,     \* executions registered with a plan manifest
  Tick,           \* the tick as an owner of the worktree lock
  MaxGenerations, \* agent_recovery.MAX_GENERATIONS
  MaxReissues,    \* agent_recovery.MAX_REISSUES
  MaxEvents,      \* bound: recovery events issued
  MaxChecks,      \* bound: collector processes per attempt
  MaxCrashes      \* bound: daemon deaths and reboots

ASSUME WorksAssumption == Works # {} /\ UnsafeWorks \subseteq Works
ASSUME ExecutionsAssumption == Executions # {}
ASSUME ManifestedAssumption == Manifested \subseteq Executions
ASSUME TickAssumption == Tick \notin Daemons \cup {NoDaemon}
ASSUME BoundsAssumption ==
  {MaxGenerations, MaxReissues, MaxEvents, MaxChecks, MaxCrashes} \subseteq Nat

VARIABLES
  intent,       \* intent[e] : recovery-intent.json
  nextEvent,    \* events issued so far
  work,         \* the worktree's present state
  live,         \* live[e] : owned processes of e that are really running
  marker,       \* marker[e] : collector-launch.json says a launch is pending
  promoted,     \* promoted[e] : generations whose result file is promoted
  wtLock,       \* owner of the kernel lock on the worktree
  daemon,       \* daemon[d] : one `_supervise` process
  crashes

vars == <<attempts, approval, intent, nextEvent, work, live, marker, promoted,
          wtLock, daemon, crashes>>

-----------------------------------------------------------------------------
(* Values *)

NoIntent == [status |-> "absent", event |-> NoEvent, generation |-> 0,
             work |-> CHOOSE w \in Works : TRUE, reissues |-> 0]

Intents ==
  [status     : {"absent", "prepared", "approved", "consumed", "invalidated"},
   event      : Events \cup {NoEvent},     \* event.by is the approver
   generation : Nat,
   work       : Works,
   reissues   : Nat]

(* Where a daemon is, named for the last durable effect it had.            *)
PreAdmission  == {"spawned", "locked", "consumed", "authorized"}
ClientSteps   == {"admitted", "ready", "launched", "running"}
CheckSteps    == {"check_marked", "check_ready", "check_spawned",
                  "check_received", "check_running", "check_exited"}
CollectSteps  == {"collecting", "check_failed", "promoted"} \cup CheckSteps
Owning        == ClientSteps \cup CollectSteps
Steps         == {"unborn", "gone"} \cup PreAdmission \cup Owning

DaemonStates ==
  [pc    : Steps,
   exec  : Executions,
   event : Events \cup {NoEvent},          \* --recovery-event
   out   : {"none", "ok", "late", "fail", "lost"},
   clean : BOOLEAN]                        \* outcome of the last check

Unborn == [pc |-> "unborn", exec |-> CHOOSE e \in Executions : TRUE,
           event |-> NoEvent, out |-> "none", clean |-> FALSE]

-----------------------------------------------------------------------------
(* Predicates of the code *)

Alive(d)      == d \in Daemons /\ daemon[d].pc \notin {"unborn", "gone"}
AliveSteps    == Steps \ {"unborn", "gone"}
SnapshotSafe  == work \notin UnsafeWorks

(* _snapshot: a preview exists only for a settled last attempt.            *)
CanSnapshot(e) ==
  /\ attempts[e] # << >>
  /\ Settled(Last(e))
  /\ SnapshotSafe

SnapshotEquals(e) ==
  intent[e].generation = Generation(e) /\ intent[e].work = work

ApprovedFor(e, ev) == intent[e].status = "approved" /\ intent[e].event = ev

(* Mutant: recovery does not read the launch marker.                       *)
LaunchPending_Ignored(e) == FALSE

(* collector_launch_pending: the launch marker names no generation here,   *)
(* an attempt settles only once it is cleared.                             *)
LaunchPending(e) == marker[e]

(* Mutant: any confirmed terminal outcome counts.                          *)
PendingAutoRecovery_AnyOutcome(e) ==
  /\ intent[e].status = "approved"
  /\ intent[e].event.by = "tick"
  /\ attempts[e] # << >>
  /\ Settled(Last(e))
  /\ Generation(e) < MaxGenerations
  /\ intent[e].generation = Generation(e)
  /\ ~EventUsed(e, intent[e].event)

(* pending_auto_recovery                                                   *)
PendingAutoRecovery(e) ==
  /\ intent[e].status = "approved"
  /\ intent[e].event.by = "tick"
  /\ attempts[e] # << >>
  /\ Last(e).status \in {"timed_out", "interrupted"}
  /\ Last(e).cleanup = "confirmed"
  /\ Generation(e) < MaxGenerations
  /\ intent[e].generation = Generation(e)
  /\ ~EventUsed(e, intent[e].event)

-----------------------------------------------------------------------------
(* Recovery intents *)

SetIntent(e, i) == intent' = [intent EXCEPT ![e] = i]

NewIntent(e, approver, status, reissues) ==
  /\ nextEvent < MaxEvents
  /\ nextEvent' = nextEvent + 1
  /\ SetIntent(e, [status     |-> status,
                   event      |-> [by |-> approver, id |-> nextEvent + 1,
                                   after |-> Generation(e)],
                   generation |-> Generation(e),
                   work       |-> work,
                   reissues   |-> reissues])

(* prepare_recovery                                                        *)
Prepare(e) ==
  /\ wtLock = NoDaemon
  /\ PeersResolved(e)
  /\ CanSnapshot(e)
  /\ NewIntent(e, "operator", "prepared", 0)
  /\ UNCHANGED <<storeVars, work, live, marker, promoted, wtLock, daemon, crashes>>

(* approve_recovery                                                        *)
Approve(e) ==
  /\ wtLock = NoDaemon
  /\ PeersResolved(e)
  /\ intent[e].status = "prepared"
  /\ CanSnapshot(e)
  /\ SnapshotEquals(e)
  /\ SetIntent(e, [intent[e] EXCEPT !.status = "approved"])
  /\ UNCHANGED <<storeVars, nextEvent, work, live, marker, promoted, wtLock, daemon, crashes>>

OperatorIntentPending(e) ==
  /\ intent[e].event.by = "operator"
  /\ intent[e].status \in {"prepared", "approved"}

Retractable(e) ==
  /\ intent[e].status = "approved"
  /\ intent[e].event.by = "tick"
  /\ intent[e].generation = Generation(e)

AlreadyApproved(e) ==
  /\ Retractable(e)
  /\ ~EventUsed(e, intent[e].event)
  /\ SnapshotSafe
  /\ SnapshotEquals(e)

Reissues(e) ==
  IF intent[e].event.by = "tick" /\ intent[e].generation = Generation(e)
  THEN intent[e].reissues + 1
  ELSE 0

ResumableOutcome(a) ==
  \/ a.status \in {"timed_out", "interrupted"}
  \/ a.status = "exited" /\ a.reason = "result_invalid"

ResumeEligible(e) ==
  /\ ResumableOutcome(Last(e))
  /\ Last(e).cleanup = "confirmed"
  /\ Generation(e) < MaxGenerations

Invalidate(e) == SetIntent(e, [intent[e] EXCEPT !.status = "invalidated"])

(* Mutant: the approver is not tested.                                     *)
InvalidateRecovery_AnyApprover(e, ev) ==
  IF ApprovedFor(e, ev) THEN Invalidate(e) ELSE UNCHANGED intent

(* invalidate_recovery: only an approval of the tick is marked invalid.    *)
InvalidateRecovery(e, ev) ==
  IF ApprovedFor(e, ev) /\ intent[e].event.by = "tick"
  THEN Invalidate(e)
  ELSE UNCHANGED intent

(* auto_approve_resume, called with the worktree lock held: approve the    *)
(* last outcome for another generation, or retract a stale approval of it. *)
AutoApprove(e) ==
  /\ attempts[e] # << >>
  /\ PeersResolved(e)
  /\ \/ /\ ~ResumeEligible(e)
        /\ Retractable(e)
        /\ Invalidate(e)
        /\ UNCHANGED nextEvent
     \/ /\ ResumeEligible(e)
        /\ ~OperatorIntentPending(e)
        /\ ~AlreadyApproved(e)
        /\ IF SnapshotSafe /\ Reissues(e) <= MaxReissues
           THEN NewIntent(e, "tick", "approved", Reissues(e))
           ELSE Retractable(e) /\ Invalidate(e) /\ UNCHANGED nextEvent
  /\ UNCHANGED <<storeVars, work, live, marker, promoted, wtLock, daemon, crashes>>

TickApproves(e) == wtLock = NoDaemon /\ AutoApprove(e)

-----------------------------------------------------------------------------
(* attach: check the recovery under both locks, then spawn a daemon.       *)

Spawn(e, d, ev) ==
  /\ daemon[d].pc = "unborn"
  /\ daemon' = [daemon EXCEPT ![d] = [@ EXCEPT !.pc = "spawned", !.exec = e, !.event = ev]]

AttachFresh(e, d) ==
  /\ wtLock = NoDaemon
  /\ PeersResolved(e)
  /\ attempts[e] = << >>
  /\ Spawn(e, d, NoEvent)
  /\ UNCHANGED <<storeVars, intent, nextEvent, work, live, marker, promoted, wtLock, crashes>>

(* A worker attaches with the tick's pending event, an operator with the   *)
(* event the operator approved.                                            *)
AttachableEvent(e) ==
  \/ PendingAutoRecovery(e)
  \/ intent[e].status = "approved" /\ intent[e].event.by = "operator"

AttachRecovery(e, d) ==
  /\ wtLock = NoDaemon
  /\ PeersResolved(e)
  /\ AttachableEvent(e)
  /\ CanSnapshot(e)
  /\ SnapshotEquals(e)
  /\ Spawn(e, d, intent[e].event)
  /\ UNCHANGED <<storeVars, intent, nextEvent, work, live, marker, promoted, wtLock, crashes>>

(* RecoveryStateChanged                                                    *)
AttachInvalidates(e) ==
  /\ wtLock = NoDaemon
  /\ PeersResolved(e)
  /\ AttachableEvent(e)
  /\ CanSnapshot(e)
  /\ ~SnapshotEquals(e)
  /\ InvalidateRecovery(e, intent[e].event)
  /\ UNCHANGED <<storeVars, nextEvent, work, live, marker, promoted, wtLock, daemon, crashes>>

-----------------------------------------------------------------------------
(* The daemon: admission *)

At(d, pc)   == daemon[d].pc = pc
Goto(d, pc) == daemon' = [daemon EXCEPT ![d] = [@ EXCEPT !.pc = pc]]
Exec(d)     == daemon[d].exec

(* The daemon process ends and the kernel drops its lock.                  *)
Gone == [Unborn EXCEPT !.pc = "gone"]

Exit(d) ==
  /\ daemon' = [daemon EXCEPT ![d] = Gone]
  /\ wtLock' = IF wtLock = d THEN NoDaemon ELSE wtLock

TakeWorktree(d) ==
  /\ At(d, "spawned")
  /\ wtLock = NoDaemon
  /\ IF PeersResolved(Exec(d))
     THEN Goto(d, "locked") /\ wtLock' = d
     ELSE Exit(d)
  /\ UNCHANGED <<storeVars, intent, nextEvent, work, live, marker, promoted, crashes>>

AdmissionTimesOut(d) ==
  /\ At(d, "spawned")
  /\ wtLock # NoDaemon
  /\ Exit(d)
  /\ UNCHANGED <<storeVars, intent, nextEvent, work, live, marker, promoted, crashes>>

(* Mutant: the approval is left in place.                                  *)
Consume_KeepsApproval(d) ==
  LET e == Exec(d) IN
  /\ At(d, "locked")
  /\ daemon[d].event # NoEvent
  /\ ApprovedFor(e, daemon[d].event)
  /\ CanSnapshot(e)
  /\ SnapshotEquals(e)
  /\ Goto(d, "consumed")
  /\ UNCHANGED <<intent, storeVars, nextEvent, work, live, marker, promoted, wtLock, crashes>>

(* consume_recovery accepts: the approval is spent before it is used.      *)
Consume(d) ==
  LET e == Exec(d) IN
  /\ At(d, "locked")
  /\ daemon[d].event # NoEvent
  /\ ApprovedFor(e, daemon[d].event)
  /\ CanSnapshot(e)
  /\ SnapshotEquals(e)
  /\ SetIntent(e, [intent[e] EXCEPT !.status = "consumed"])
  /\ Goto(d, "consumed")
  /\ UNCHANGED <<storeVars, nextEvent, work, live, marker, promoted, wtLock, crashes>>

ConsumeInvalidates(d) ==
  LET e == Exec(d) IN
  /\ At(d, "locked")
  /\ daemon[d].event # NoEvent
  /\ ApprovedFor(e, daemon[d].event)
  /\ CanSnapshot(e)
  /\ ~SnapshotEquals(e)
  /\ InvalidateRecovery(e, daemon[d].event)
  /\ Exit(d)
  /\ UNCHANGED <<storeVars, nextEvent, work, live, marker, promoted, crashes>>

(* The execution has attempts and the daemon no usable event: it reports   *)
(* and ends.  _prepare_launch may refuse any daemon.                       *)
Refuse(d) ==
  /\ At(d, "locked")
  /\ Exit(d)
  /\ UNCHANGED <<storeVars, intent, nextEvent, work, live, marker, promoted, crashes>>

Authorize(d) ==
  /\ At(d, "consumed")
  /\ AuthorizeRetry(Exec(d), intent[Exec(d)].generation, daemon[d].event)
  /\ Goto(d, "authorized")
  /\ UNCHANGED <<intent, nextEvent, work, live, marker, promoted, wtLock, crashes>>

AdmitFrom(d) == IF daemon[d].event = NoEvent THEN "locked" ELSE "authorized"

Admit(d) ==
  /\ At(d, AdmitFrom(d))
  /\ AdmitAttempt(Exec(d), daemon[d].event)
  /\ Goto(d, "admitted")
  /\ UNCHANGED <<intent, nextEvent, work, live, marker, promoted, wtLock, crashes>>

RecordSupervisor(d) ==
  /\ At(d, "admitted")
  /\ UpdateAttempt(Exec(d), [Last(Exec(d)) EXCEPT !.supervisor = d])
  /\ Goto(d, "ready")
  /\ UNCHANGED <<intent, nextEvent, work, live, marker, promoted, wtLock, crashes>>

-----------------------------------------------------------------------------
(* The daemon: the client *)

(* A terminal write, after which the daemon reports and ends.              *)
Conclude(d, a) ==
  /\ UpdateAttempt(Exec(d), a)
  /\ Exit(d)

Outcome(e, status, reason) == [Last(e) EXCEPT !.status = status, !.reason = reason]

(* ProcessLaunchError: the client process was never created.               *)
LaunchFails(d) ==
  /\ At(d, "ready")
  /\ Conclude(d, [Outcome(Exec(d), "blocked", "client_not_launched")
                    EXCEPT !.cleanup = "confirmed"])
  /\ UNCHANGED <<intent, nextEvent, work, live, marker, promoted, crashes>>

Launch(d) ==
  /\ At(d, "ready")
  /\ live' = [live EXCEPT ![Exec(d)] = @ \cup {"client"}]
  /\ Goto(d, "launched")
  /\ UNCHANGED <<storeVars, intent, nextEvent, work, marker, promoted, wtLock, crashes>>

(* on_launch: the birth receipt is durable.                                *)
RecordLaunch(d) ==
  /\ At(d, "launched")
  /\ UpdateAttempt(Exec(d), [Last(Exec(d)) EXCEPT !.status = "running",
                                                  !.known = @ \cup {"client"}])
  /\ Goto(d, "running")
  /\ UNCHANGED <<intent, nextEvent, work, live, marker, promoted, wtLock, crashes>>

(* ProcessOwnershipError or a failed callback: what can be identified is   *)
(* recorded, and that its exit was not observed.                           *)
OwnershipLost(d) ==
  /\ daemon[d].pc \in {"launched", "running"}
  /\ \E known \in {Last(Exec(d)).known, Last(Exec(d)).known \cup {"client"}} :
       Conclude(d, [Outcome(Exec(d), "interrupted", "exit_unobservable")
                      EXCEPT !.cleanup = "unconfirmed", !.known = known])
  /\ UNCHANGED <<intent, nextEvent, work, live, marker, promoted, crashes>>

(* run_process returned.  An exit was collected, or the deadline passed;   *)
(* the cleanup is confirmed only after every known process was observed    *)
(* gone.  A clean exit 0 goes on to collection, and so does a clean        *)
(* deadline when there is a manifest; other outcomes are final.            *)
Collects(outcome, confirmed)       == outcome = "exit0" /\ confirmed
SalvagesAt(e, outcome, confirmed)  == outcome = "late" /\ confirmed /\ e \in Manifested

ExitRecord(e, outcome, confirmed) ==
  [Outcome(e, IF Collects(outcome, confirmed) \/ SalvagesAt(e, outcome, confirmed)
              THEN "running"
              ELSE IF outcome = "late" THEN "timed_out" ELSE "exited",
           IF SalvagesAt(e, outcome, confirmed)
           THEN "deadline_collection_pending" ELSE "none")
     EXCEPT !.exit0   = (outcome = "exit0"),
            !.cleanup = IF confirmed THEN "confirmed" ELSE "unconfirmed"]

ExitObserved(d, outcome, confirmed) ==
  /\ At(d, "running")
  /\ "client" \in live[Exec(d)] => outcome = "late" /\ ~confirmed
  /\ IF ExitRecord(Exec(d), outcome, confirmed).status = "running"
     THEN /\ UpdateAttempt(Exec(d), ExitRecord(Exec(d), outcome, confirmed))
          /\ Goto(d, "collecting")
          /\ UNCHANGED wtLock
     ELSE Conclude(d, ExitRecord(Exec(d), outcome, confirmed))
  /\ UNCHANGED <<intent, nextEvent, work, live, marker, promoted, crashes>>

ObserveExit(d) ==
  \E outcome \in {"exit0", "exit1", "late"}, confirmed \in BOOLEAN :
    ExitObserved(d, outcome, confirmed)

-----------------------------------------------------------------------------
(* The daemon: collection.  Each verification or review command is an      *)
(* owned process; the launch marker and an unconfirmed cleanup are durable *)
(* before it exists.  `known` counts a check only if its birth is recorded *)
(* after the marker, which is what roots_before establishes.               *)

Collecting(d)   == At(d, "collecting") /\ Exec(d) \in Manifested
AtDeadline(e)   == Last(e).reason = "deadline_collection_pending"

MarkCheck(d) ==
  LET e == Exec(d) IN
  /\ Collecting(d)
  /\ Last(e).checks < MaxChecks
  /\ marker' = [marker EXCEPT ![e] = TRUE]
  /\ UpdateAttempt(e, [Last(e) EXCEPT !.known = @ \ {"check"}, !.checks = @ + 1])
  /\ Goto(d, "check_marked")
  /\ UNCHANGED <<intent, nextEvent, work, live, promoted, wtLock, crashes>>

DoubtCleanup(d) ==
  /\ At(d, "check_marked")
  /\ UpdateAttempt(Exec(d), [Last(Exec(d)) EXCEPT !.cleanup = "unconfirmed"])
  /\ Goto(d, "check_ready")
  /\ UNCHANGED <<intent, nextEvent, work, live, marker, promoted, wtLock, crashes>>

LaunchCheck(d) ==
  /\ At(d, "check_ready")
  /\ live' = [live EXCEPT ![Exec(d)] = @ \cup {"check"}]
  /\ Goto(d, "check_spawned")
  /\ UNCHANGED <<storeVars, intent, nextEvent, work, marker, promoted, wtLock, crashes>>

CheckOutcome(d, out, clean) ==
  daemon' = [daemon EXCEPT ![d] = [@ EXCEPT !.pc = "check_exited", !.out = out, !.clean = clean]]

(* Mutant: the marker of a launch that failed is left pending.             *)
CheckNotLaunched_KeepsMarker(d) ==
  /\ At(d, "check_ready")
  /\ \E out \in {"fail", "late"} : CheckOutcome(d, out, TRUE)
  /\ UNCHANGED <<storeVars, intent, nextEvent, work, live, marker, promoted, wtLock, crashes>>

(* ProcessLaunchError: the marker is cleared although nothing was born.    *)
CheckNotLaunched(d) ==
  /\ At(d, "check_ready")
  /\ marker' = [marker EXCEPT ![Exec(d)] = FALSE]
  /\ \E out \in {"fail", "late"} : CheckOutcome(d, out, TRUE)
  /\ UNCHANGED <<storeVars, intent, nextEvent, work, live, promoted, wtLock, crashes>>

RecordCheck(d) ==
  /\ At(d, "check_spawned")
  /\ UpdateAttempt(Exec(d), [Last(Exec(d)) EXCEPT !.known = @ \cup {"check"}])
  /\ Goto(d, "check_received")
  /\ UNCHANGED <<intent, nextEvent, work, live, marker, promoted, wtLock, crashes>>

ClearMarker(d) ==
  /\ At(d, "check_received")
  /\ marker' = [marker EXCEPT ![Exec(d)] = FALSE]
  /\ Goto(d, "check_running")
  /\ UNCHANGED <<storeVars, intent, nextEvent, work, live, promoted, wtLock, crashes>>

(* The check's exit reaches the ledger before the attempt: a late one is   *)
(* what recovery will report.                                              *)
RecordCheckExit(d) ==
  \E out \in {"ok", "fail", "late"}, clean \in BOOLEAN :
    /\ At(d, "check_running")
    /\ "check" \in live[Exec(d)] => out = "late" /\ ~clean
    /\ UpdateAttempt(Exec(d), [Last(Exec(d)) EXCEPT !.lateCheck = @ \/ out = "late"])
    /\ CheckOutcome(d, out, clean)
    /\ UNCHANGED <<intent, nextEvent, work, live, marker, promoted, wtLock, crashes>>

(* The exit is accounted for; only a clean success continues collection.   *)
SettleCheck(d) ==
  LET e   == Exec(d)
      out == IF daemon[d].out \in {"ok", "fail"} /\ ~daemon[d].clean THEN "lost"
             ELSE daemon[d].out
  IN
  /\ At(d, "check_exited")
  /\ UpdateAttempt(e, IF daemon[d].clean THEN [Last(e) EXCEPT !.cleanup = "confirmed"]
                                         ELSE Last(e))
  /\ daemon' = [daemon EXCEPT ![d] =
       IF out = "ok" THEN [@ EXCEPT !.pc = "collecting", !.out = "none", !.clean = FALSE]
                     ELSE [@ EXCEPT !.pc = "check_failed", !.out = out, !.clean = FALSE]]
  /\ UNCHANGED <<intent, nextEvent, work, live, marker, promoted, wtLock, crashes>>

(* ProcessOwnershipError ("lost") or another failure around the process    *)
(* ("fail"): the cleanup stays in doubt and the marker as it was.          *)
CheckLost(d) ==
  /\ daemon[d].pc \in {"check_spawned", "check_received", "check_running"}
  /\ \E known \in {Last(Exec(d)).known, Last(Exec(d)).known \cup {"check"}} :
       UpdateAttempt(Exec(d), [Last(Exec(d)) EXCEPT !.known = known])
  /\ \E out \in {"lost", "fail"} :
       daemon' = [daemon EXCEPT ![d] = [@ EXCEPT !.pc = "check_failed", !.out = out]]
  /\ UNCHANGED <<intent, nextEvent, work, live, marker, promoted, wtLock, crashes>>

(* validated_result(promote=True): result-<generation>.json is final.      *)
Promote(d) ==
  LET e == Exec(d) IN
  /\ At(d, "collecting")
  /\ ~AtDeadline(e)
  /\ promoted' = [promoted EXCEPT ![e] = @ \cup {Generation(e)}]
  /\ Goto(d, "promoted")
  /\ UNCHANGED <<storeVars, intent, nextEvent, work, live, marker, wtLock, crashes>>

(* The terminal outcomes a finished collection can have.                   *)
Invalid    == <<"exited", "result_invalid">>
Late       == <<"timed_out", "checkpoint_deadline_exceeded">>
Lost       == <<"interrupted", "exit_unobservable">>
Completion == <<"exited", "none">>
Deadline(kind) == <<"timed_out", kind>>

Verdicts(d) ==
  IF AtDeadline(Exec(d))
  THEN {Deadline("deadline_collection_incomplete")} \cup
       (IF At(d, "collecting")
        THEN {Deadline("deadline_collection_complete"), Deadline("deadline_collection_partial")}
        ELSE {})
  ELSE CASE At(d, "collecting")   -> {Invalid, Late}
         [] At(d, "promoted")     -> {Invalid, Late, Completion}
         [] At(d, "check_failed") -> {CASE daemon[d].out = "late" -> Late
                                        [] daemon[d].out = "lost" -> Lost
                                        [] OTHER                  -> Invalid}
         [] OTHER                 -> {}

FinishCollection(d) ==
  /\ daemon[d].pc \in {"collecting", "promoted", "check_failed"}
  /\ \E v \in Verdicts(d) : Conclude(d, Outcome(Exec(d), v[1], v[2]))
  /\ UNCHANGED <<intent, nextEvent, work, live, marker, promoted, crashes>>

-----------------------------------------------------------------------------
(* recover, as the tick's sweep calls it for every execution.  A process   *)
(* without a birth receipt cannot be looked for, so without receipts, or   *)
(* with a launch still pending, the cleanup is never confirmed.            *)

(* Mutant: any recorded supervisor counts as alive.                        *)
SupervisorAlive_Recorded(e) == Last(e).supervisor \in Daemons

SupervisorAlive(e) == Alive(Last(e).supervisor)

(* Mutant: a settled attempt is looked at again.                           *)
Recoverable_Settled(e) ==
  /\ wtLock = NoDaemon
  /\ attempts[e] # << >>
  /\ ~SupervisorAlive(e)

(* Mutant: a terminal outcome is enough to be left alone.                  *)
Recoverable_OpenOnly(e) ==
  /\ wtLock = NoDaemon
  /\ attempts[e] # << >>
  /\ Last(e).status \notin Terminal \/ LaunchPending(e)
  /\ ~SupervisorAlive(e)

Recoverable(e) ==
  /\ wtLock = NoDaemon
  /\ attempts[e] # << >>
  /\ ~Settled(Last(e)) \/ LaunchPending(e)
  /\ ~SupervisorAlive(e)

(* Mutant: the exit ledger is not consulted.                               *)
Recovered_NoLedger(a) ==
  IF a.status \in Terminal THEN a
  ELSE IF a.reason = "deadline_collection_pending"
       THEN [a EXCEPT !.status = "timed_out", !.reason = "deadline_collection_incomplete"]
  ELSE [a EXCEPT !.status = "interrupted", !.reason = "exit_unobservable"]

Recovered(a) ==
  IF a.status \in Terminal THEN a
  ELSE IF a.lateCheck
       THEN [a EXCEPT !.status = "timed_out", !.reason = "checkpoint_deadline_exceeded"]
  ELSE IF a.reason = "deadline_collection_pending"
       THEN [a EXCEPT !.status = "timed_out", !.reason = "deadline_collection_incomplete"]
  ELSE [a EXCEPT !.status = "interrupted", !.reason = "exit_unobservable"]

(* Every process with a receipt was observed gone.                         *)
RecoverConfirmed(e) ==
  LET a       == Last(e)
      pending == LaunchPending(e) /\ "check" \notin a.known
  IN
  /\ Recoverable(e)
  /\ a.known # {}
  /\ live[e] \cap a.known = {}
  /\ marker' = [marker EXCEPT ![e] = pending]
  /\ UpdateAttempt(e, [Recovered(a) EXCEPT
                         !.cleanup = IF pending THEN "unconfirmed" ELSE "confirmed"])
  /\ UNCHANGED <<intent, nextEvent, work, live, promoted, wtLock, daemon, crashes>>

(* They were signalled, or could not be observed.                          *)
RecoverUnconfirmed(e) ==
  /\ Recoverable(e)
  /\ UpdateAttempt(e, [Recovered(Last(e)) EXCEPT !.cleanup = "unconfirmed"])
  /\ UNCHANGED <<intent, nextEvent, work, live, marker, promoted, wtLock, daemon, crashes>>

-----------------------------------------------------------------------------
(* What the code does not control *)

ProcessEnds(e, p) ==
  /\ p \in live[e]
  /\ live' = [live EXCEPT ![e] = @ \ {p}]
  /\ UNCHANGED <<storeVars, intent, nextEvent, work, marker, promoted, wtLock, daemon, crashes>>

(* The client, or anybody, changes the worktree.                           *)
Edit ==
  /\ \E w \in Works \ {work} : work' = w
  /\ UNCHANGED <<storeVars, intent, nextEvent, live, marker, promoted, wtLock, daemon, crashes>>

(* A daemon is killed, or an unexpected error ends it, between two steps.  *)
DaemonDies(d) ==
  /\ Alive(d)
  /\ crashes < MaxCrashes
  /\ crashes' = crashes + 1
  /\ Exit(d)
  /\ UNCHANGED <<storeVars, intent, nextEvent, work, live, marker, promoted>>

Reboot ==
  /\ crashes < MaxCrashes
  /\ crashes' = crashes + 1
  /\ daemon' = [d \in Daemons |-> IF Alive(d) THEN Gone ELSE daemon[d]]
  /\ live' = [e \in Executions |-> {}]
  /\ wtLock' = NoDaemon
  /\ UNCHANGED <<storeVars, intent, nextEvent, work, marker, promoted>>

-----------------------------------------------------------------------------
Init ==
  /\ attempts  = [e \in Executions |-> << >>]
  /\ approval  = [e \in Executions |-> NoApproval]
  /\ intent    = [e \in Executions |-> NoIntent]
  /\ nextEvent = 0
  /\ work      \in Works
  /\ live      = [e \in Executions |-> {}]
  /\ marker    = [e \in Executions |-> FALSE]
  /\ promoted  = [e \in Executions |-> {}]
  /\ wtLock    = NoDaemon
  /\ daemon    = [d \in Daemons |-> Unborn]
  /\ crashes   = 0

AdmissionStep(d) ==
  \/ TakeWorktree(d) \/ AdmissionTimesOut(d)
  \/ Consume(d) \/ ConsumeInvalidates(d) \/ Refuse(d)
  \/ Authorize(d) \/ Admit(d)

ClientStep(d) ==
  \/ RecordSupervisor(d) \/ LaunchFails(d) \/ Launch(d)
  \/ RecordLaunch(d) \/ OwnershipLost(d) \/ ObserveExit(d)

CollectStep(d) ==
  \/ MarkCheck(d) \/ DoubtCleanup(d) \/ CheckNotLaunched(d) \/ LaunchCheck(d)
  \/ RecordCheck(d) \/ ClearMarker(d) \/ RecordCheckExit(d) \/ SettleCheck(d)
  \/ CheckLost(d) \/ Promote(d) \/ FinishCollection(d)

DaemonStep(d) == AdmissionStep(d) \/ ClientStep(d) \/ CollectStep(d)

Request(e) ==
  \/ Prepare(e) \/ Approve(e) \/ AttachInvalidates(e)
  \/ \E d \in Daemons : AttachFresh(e, d) \/ AttachRecovery(e, d)

Environment ==
  \/ Edit \/ Reboot
  \/ \E d \in Daemons : DaemonDies(d)
  \/ \E e \in Executions, p \in Processes : ProcessEnds(e, p)

Recover(e) == RecoverConfirmed(e) \/ RecoverUnconfirmed(e)

Next ==
  \/ \E d \in Daemons : DaemonStep(d)
  \/ \E e \in Executions : Request(e) \/ TickApproves(e) \/ Recover(e)
  \/ Environment

Spec == Init /\ [][Next]_vars

(* An owned process with a birth receipt is killed at its deadline by its  *)
(* daemon, or by the sweep.  Nobody looks for one without a receipt.       *)
ReceiptedEnds(e) ==
  /\ attempts[e] # << >>
  /\ \E p \in Last(e).known : ProcessEnds(e, p)

(* A daemon that is not killed keeps running, every tick sweeps, and a     *)
(* process that is gone is eventually observed to be gone.                 *)
Fairness ==
  /\ \A d \in Daemons : WF_vars(DaemonStep(d))
  /\ \A e \in Executions : WF_vars(RecoverConfirmed(e)) /\ WF_vars(RecoverUnconfirmed(e))
  /\ \A e \in Executions : WF_vars(ReceiptedEnds(e))

FairSpec == Spec /\ Fairness

-----------------------------------------------------------------------------
(* The types of the variables: what record.json, recovery-intent.json, the *)
(* launch marker and a daemon process can hold.                            *)
TypeOK ==
  /\ attempts  \in [Executions -> Seq(Attempts)]
  /\ approval  \in [Executions -> Approvals]
  /\ intent    \in [Executions -> Intents]
  /\ nextEvent \in Nat
  /\ work      \in Works
  /\ live      \in [Executions -> SUBSET Processes]
  /\ marker    \in [Executions -> BOOLEAN]
  /\ promoted  \in [Executions -> SUBSET Nat]
  /\ wtLock    \in Daemons \cup {NoDaemon, Tick}
  /\ daemon    \in [Daemons -> DaemonStates]
  /\ crashes   \in Nat

(* Over every execution on the worktree at most one attempt is unsettled,  *)
(* and it is the latest of its execution, whatever daemons race or die:    *)
(* the promise of admit and of the worktree lock.                          *)
OneUnsettledAttempt ==
  /\ \A e \in Executions : \A i \in 1..Len(attempts[e]) :
       ~Settled(attempts[e][i]) => i = Len(attempts[e])
  /\ \A e, f \in Executions : ~AllSettled(e) /\ ~AllSettled(f) => e = f

(* "confirmed" is true: no client, check or reviewer of an execution is    *)
(* running once its last attempt is settled, although a daemon may die     *)
(* between creating a process and recording its birth.                     *)
SettledMeansNothingRuns ==
  \A e \in Executions : live[e] # {} => attempts[e] # << >> /\ ~Settled(Last(e))

(* A launch marker is never left behind by a settled attempt: otherwise    *)
(* the next sweep would reopen a terminal outcome, and a later attempt's   *)
(* cleanup would be doubted for a process of an earlier one.               *)
SettledMeansNoPendingLaunch ==
  \A e \in Executions : marker[e] => attempts[e] # << >> /\ ~Settled(Last(e))

(* What makes the three invariants above inductive.  The last attempt a of *)
(* an execution, its processes l and its marker m agree: the client's      *)
(* receipt is the first one, and a running check without a receipt has a   *)
(* pending marker.                                                         *)
Agree(a, l, m) ==
  /\ Settled(a) => l = {} /\ ~m
  /\ a.known # {} => "client" \in a.known
  /\ "check" \in l => "check" \in a.known \/ m

Accounts(e) ==
  IF attempts[e] = << >> THEN live[e] = {} /\ ~marker[e]
                         ELSE Agree(Last(e), live[e], marker[e])

(* Every step of a daemon that holds the worktree lock.                    *)
Holding == AliveSteps \ {"spawned"}

(* What a daemon at step s may rely on, of the last attempt a of its       *)
(* execution, the processes l really running and its launch marker m.      *)
Relies(s, a, l, m) ==
  /\ a.status \notin Terminal
  /\ s.pc \in {"admitted", "ready"} => l = {} /\ ~m
  /\ s.pc \in {"launched", "running"} => "check" \notin l /\ ~m
  /\ s.pc \in {"running"} \cup CollectSteps => "client" \in a.known
  /\ s.pc \in CollectSteps => "client" \notin l
  /\ s.pc \in {"collecting", "promoted"} => l = {} /\ ~m
  /\ s.pc \in {"check_marked", "check_ready"} => l = {}
  /\ s.pc \in {"check_marked", "check_ready", "check_spawned"} => m
  /\ s.pc \in {"check_received", "check_running"} => "check" \in a.known
  /\ s.pc \in {"check_running", "check_exited"} => ~m
  /\ s.pc \in CheckSteps \ {"check_marked"} => a.cleanup = "unconfirmed"
  /\ s.pc = "check_exited" /\ s.clean => l = {}
  /\ s.pc = "check_failed" /\ a.cleanup = "confirmed" => l = {} /\ ~m

DaemonRelies(d) ==
  /\ daemon[d].pc \in Holding => wtLock = d
  /\ daemon[d].pc \in Owning =>
       /\ attempts[Exec(d)] # << >>
       /\ Relies(daemon[d], Last(Exec(d)), live[Exec(d)], marker[Exec(d)])

(* The inductive invariant of the proofs: a daemon relies only on what the *)
(* lock protects, and every execution's accounts agree, at every point at  *)
(* which a daemon can die.                                                 *)
SupervisorInv ==
  /\ TypeOK
  /\ OneUnsettledAttempt
  /\ \A e \in Executions : Accounts(e)
  /\ \A d \in Daemons : DaemonRelies(d)

(* A recovery event admits at most one attempt, exactly the one after the  *)
(* generation it was issued against, and an approval that could still be   *)
(* consumed has admitted none, although a daemon may die between consuming *)
(* it, authorising it and admitting the attempt.                           *)
EventsAdmitOnce ==
  \A e \in Executions :
    /\ \A i \in 2..Len(attempts[e]) : attempts[e][i].event.after = i - 1
    /\ \A f \in Executions :
         \A i \in 2..Len(attempts[e]), j \in 2..Len(attempts[f]) :
           attempts[e][i].event = attempts[f][j].event => e = f /\ i = j
    /\ intent[e].status \in {"prepared", "approved"} => ~EventUsed(e, intent[e].event)

(* The tick alone never starts a generation above its budget, and never    *)
(* repeats an attempt that completed, that the client failed, or whose     *)
(* client was never launched.                                              *)
TickRepeatsOnlyInterruptions ==
  \A e \in Executions : \A i \in 2..Len(attempts[e]) :
    attempts[e][i].event.by = "tick" =>
      /\ i <= MaxGenerations
      /\ attempts[e][i-1].status \in {"timed_out", "interrupted"}

(* An attempt one of whose checks ran into the deadline ends timed_out,    *)
(* whether its daemon lives to write that or a sweep finds the exit ledger.*)
LateCheckIsTimeout ==
  \A e \in Executions : \A i \in 1..Len(attempts[e]) :
    LET a == attempts[e][i] IN
    a.lateCheck /\ a.status \in Terminal => a.status = "timed_out"

(* A decision the operator has prepared or approved is only ever consumed  *)
(* or replaced by the operator: neither the tick nor a racing worker       *)
(* overwrites or invalidates it.                                           *)
OperatorDecides ==
  [][\A e \in Executions :
       OperatorIntentPending(e) /\ intent'[e] # intent[e] =>
         /\ intent'[e].event.by = "operator"
         /\ intent'[e].status # "invalidated"]_vars

(* The store implements the ledger it promises.                            *)
Entry(a) ==
  IF a.status \notin Terminal THEN "open"
  ELSE IF a.cleanup = "confirmed" THEN "settled" ELSE "doubtful"

Ledger == INSTANCE AttemptLedger WITH
  ledger <- [e \in Executions |-> [i \in 1..Len(attempts[e]) |-> Entry(attempts[e][i])]]

LedgerSpec == Ledger!Spec

(* Every attempt gets a terminal outcome, also when its daemon dies: the   *)
(* sweep closes what nobody supervises any more.                           *)
Closed(e) == attempts[e] # << >> => Last(e).status \in Terminal
EveryAttemptCloses == \A e \in Executions : ~Closed(e) ~> Closed(e)

(* An abandoned attempt all of whose processes have receipts is eventually *)
(* settled, so that it cannot block its peers on the worktree for ever.    *)
Accounted(e) ==
  /\ attempts[e] # << >>
  /\ ~Settled(Last(e))
  /\ ~SupervisorAlive(e)
  /\ Last(e).known # {}
  /\ LaunchPending(e) => "check" \in Last(e).known
AccountedAttemptsSettle ==
  \A e \in Executions : Accounted(e) ~> (attempts[e] # << >> /\ Settled(Last(e)))
=============================================================================
