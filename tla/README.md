# A TLA+ model of todo-pipeline-orch

`hermes_pipeline` ("tpo") takes one TODO at a time from a GitHub project, turns
it into a chain of Kanban cards, and has supervised coding agents work the
cards in a git worktree until a pull request is delivered.  A cron job runs
`tpo tick`, which does all of the deciding; between ticks only detached
supervisor daemons and the workers of the Kanban board run.  Nothing of it is a
server: all coordination goes through files written with fsync and rename,
kernel locks on directories, and two command line services (`hermes kanban` and
`gh`) whose calls can time out after they took effect.

This directory models the parts of that whose correctness depends on who runs
when, who dies where and what is retried.

## Inventory

| Component | State it keeps | Operations | Interacts with |
|---|---|---|---|
| Execution store (`agent_execution.py`) | `record.json` per execution: registration, attempts, approved recovery | register, admit, authorize_retry, update_attempt, load | everybody; kernel locks per execution and per worktree |
| Supervisor daemon (`_agent_supervisor.py`) | its own position; `result-<generation>.json` | attach (spawn), supervise, recover, sweep, status | store, intents, collector, processes |
| Recovery intents (`agent_recovery.py`) | `recovery-intent.json` | prepare, approve, validate, consume, invalidate, auto-approve, pending | operator, tick, daemon, worktree |
| Collector (`agent_collector.py`) | `collector-launch.json`, `collector-exits-<g>.json` | run one owned check, collect the checkpoints | processes, journal, store |
| Process ownership (`agent_process.py`, `agent_darwin.py`) | none; birth receipts handed to callbacks | run_process, cleanup_processes | kernel |
| Checkpoint journal (`agent_checkpoint.py`, `agent_git.py`) | `progress.json`, `progress-anchor.json` | initialize, record_receipt, promote, recovery_context | collector, git |
| Phase recovery and schedule (`phase_recovery.py`, `phase_schedule.py`) | unblock markers; cards of each generation | route_recovery, reconcile_schedule, retire, reissue | store, intents, Kanban |
| Run authority (`authority_result.py`) | `supervisor-required` marker | locked_run_authority, require_authorized_result | worktree lock, store |
| Kanban registration (`kanban_tasks.py`) | pending-create marker, validation-blocked marker, expected phases | durable create, barrier, archive, cancel, reconcile | `hermes kanban` |
| Kanban adapter (`kanban.py`) | outbox, active tasks | enqueue, drain, set/update/clear | `hermes kanban` |
| Reviews (`review_reconciliation.py`) | accepted head, pending-create marker | create the review of the accepted head | Kanban, run authority |
| Result contract (`result_contract.py`) | none | parse and verify a worker's result | git |
| Tick (`tick.py`, `cli.py`, `state.py`) | `tick.lock`, current tick id | acquire, sweep, resume the prior run, select, register | all of the above |
| Circuit breaker (`circuit.py`, `outcomes.py`, `slack.py`) | no-progress counter, time of the last alert | observe, observe_from_outcomes | tick, outcome files |
| Run registration (`run_registration.py`, `plan_manifest.py`) | `registration.json`, plan artifact, branch, worktree, resolution | register, abandon, state | git |
| Delivery (`todos_completion.py`, `github_issues.py`) | `finish-verified`, close-started and cleanup markers | verify the finish, close the issue, reconcile past runs | `gh`, Kanban |
| Ship gate (`ship.py`) | ship sidecar, approve lock | detect, approve, bump, merge | `gh`, git, Kanban |
| Issue creation (`todos_create.py`) | the approved request until it is done, create lock | preview, execute | `gh` |
| Selection (`decision/`) | decisions and outcomes, write-once | build context, ask, validate, persist | the model's command line |
| Skill installer (`skill_installer.py`) | journal, stage, backup, receipt | install, uninstall, rollback, recover | file system |
| Test harness (`harness.py`) | its workspace, the run's issue, branches and pull requests on the sandbox | create the issue, drive ticks, poll, verify, shut down, clean up | tick, Kanban, git, `gh` |
| Profiles, configuration, clients | none shared | parse, validate, render | |

### What is hard here, and what correct means

*Executions* (store, daemon, intents, collector, processes).  A worker that
waits may spawn a daemon again; an operator or a tick may act at the same time;
a daemon can be killed between any two of its writes, and the whole host can
restart.  Correct means: at most one unsettled attempt per worktree; "cleanup
confirmed" is never written while an owned process is running; an approval
admits one attempt, the one it was given for; the tick never overrides the
operator, never exceeds its budget and never repeats what was not interrupted;
and an attempt is not left open for ever.

*Phase recovery* (phase recovery, schedule, authority, Kanban).  The tick reads
cards and executions without a common transaction.  Correct means: one
claimable card per phase, a card is unblocked a bounded number of times, and a
phase whose execution can go on eventually goes on.

*Durable creation* (Kanban registration, reviews, issue creation).  The remote
call is not idempotent by itself and may time out after it took effect.  Correct
means: no second object for one key, and no card is claimable before its chain
is complete.

*Tick* (lock, project tick, registration, circuit breaker, delivery, ship).  The
steps of a tick are separate files.  Correct means: one tick at a time, a crash
anywhere leaves a run that is either resumed or reported, the alert comes when
nothing progresses, and delivery is done once.

*Intake* (issue creation, run registration, issue tracker).  A request becomes an
issue in a dozen commands, and the issue a run in five steps on disk and in git;
either may break off anywhere, is repeated, and meets what people did meanwhile.
Correct means: one request releases one issue, complete and with its hold; a
rerun goes on where the last one stopped; and a run works on what it pinned and
on nothing an earlier run left.

*Skill installer.*  A crash at any point is finished or undone.

*Test harness.*  It starts production ticks it cannot look into and later force
deletes branches and removes its own workspace.  Correct means: nothing remote is
destroyed while an agent of the run may still push, nothing that somebody else
made is destroyed at all, and what it could not clean up it still has a record of.

## Plan

1. `AgentExecution`, `AttemptLedger`, `AgentSupervisor` and its proofs (done).
2. `PhaseRecovery` and its proofs: the wait loop of the worker, `route_recovery`
   and the cards of one phase, composed with `AgentSupervisor` (done).
3. `TickLock` and its proofs: the directory lock with stale reclaim (done).
4. `DurableRegistration`: the card chain against an unreliable board, and
   cancellation (done).
5. `ProjectTick`: one project's tick over it, with registrations, outcomes and
   the circuit breaker (done).
6. `PullRequest`, `Delivery`, `ShipGate` and their composition `Release`: how a
   run's branch becomes a merged pull request and a closed issue (done).
7. `Sandbox` and `HarnessRun`: a run of the test harness (done).
8. `TodoCreate` and `RunRegistration`, from a request to a run that starts (done).
9. `SkillInstaller`: one skill at one target (done).
10. `CheckpointJournal`, `KanbanOutbox`, `ProcessCleanup`.

Abstract specifications worth stating besides `AttemptLedger`: the journal as a
growing prefix of the plan's tasks, and durable creation as "at most one object
per key, visible only when complete".  (The installer's "old or new, never
between" is `AllOrNothing`.)

Theorems planned beyond those below: the prefix invariant of the journal.

## Modules

### AgentExecution

The store.  `attempts[e]` is the list of attempts in `record.json`; the code's
`generation` is the position in it.  `approval[e]` is `approved_recovery`.
`AuthorizeRetry`, `AdmitAttempt` and `UpdateAttempt` are the three writers; each
is one atomic rename in the code and one action here.  All executions share one
worktree: executions on different worktrees share nothing but the directory.
A `Process` stands for a client or check with its descendants: what the code
knows of them is whether its owner observed them gone.

### AttemptLedger

What readers of the store rely on, as a state machine of its own: attempts are
open, doubtful (their processes may be running) or settled; a new attempt on the
worktree needs all others settled; a settled attempt is never touched.
`LedgerSpec` in `AgentSupervisor` says that the daemons implement it.

### AgentSupervisor

One `daemon[d]` per `_supervise` process.  Its `pc` is named after the last
durable effect it had, so that a crash (`DaemonDies`, `Reboot`) can come between
every two effects: lock, consume, authorise, admit, record supervisor, launch,
record the birth, observe the exit, and for each check of the collection the
marker, the doubted cleanup, the launch, the birth, the cleared marker, the exit
ledger and the settled cleanup.  `live[e]` is which owned processes are really
running, `known` in the attempt is which of them have a birth receipt.

`Request` is what workers and operators do (attach, prepare, approve), one
action per critical section under the locks; `TickApproves` is
`auto_approve_resume`; `Recover` is `recover` as the sweep calls it.
`RecoverConfirmed` needs every process with a receipt gone; without receipts, or
with a launch pending, the cleanup stays unconfirmed for good, which is what the
code does on purpose: a process without a birth receipt can never be told from
a stranger with the same pid.

Abstractions.  The execution lock is not modelled: whoever keeps it over more
than one step also holds the worktree lock.  The content of a worktree and of
the journal is one value of `Works`, the ones that a snapshot refuses are
`UnsafeWorks`.  `known` counts a check only if its birth was recorded after the
present marker, which the code establishes by the number of receipts it stored
in the marker.  Reading `status` changes nothing and is left out, as is the log.

### AgentSupervisor_proofs

Theorems for all executions, daemons, worktree states and limits: the invariant and
the refinement first, then the properties of recovery intents and of late checks,
each with the invariant it needs.

### PhaseRecovery

The phase whose attempts `AgentSupervisor` runs, with the three that wait for
them.  It extends that module: all its variables, and every action of a daemon,
of the sweep and of a process, are the ones above; a reboot of the host is left
to `AgentSupervisor`.

*Cards.*  `card[g]` is the latest card of generation `g` on the Hermes board;
Hermes keeps a key of its own per generation, so a listed card is adopted and an
archived one replaced (`Created`).  Hermes blocks a card once and parks it in
triage the second time; its dispatcher (`Dispatch`) and an operator
(`OperatorUnblocks`) act whenever they like.  These are external: the module
models what the code in `phase_recovery.py` and `kanban_tasks.py` expects of
them.

*Workers.*  `worker[g]` is the `run --wait` call of the worker of that card:
`attach` (the branches of `_agent_supervisor.attach`), `wait` (the poll of
`main`, which watches for the generation its daemon is to admit) and `report`
(the line the worker turns into done or blocked).  Reporting is apart from
deciding, because a tick can archive the card in between.  `MayBeCompleted` says
when `status` may answer completed; whether the promoted result still validates
against the worktree is a free choice.

*The tick.*  `tick.pc` walks one pass of `reconcile_schedule` over the phase that
is being worked.  Reading the board and the record is one step, each Hermes
command another: unblock and its marker, the second list, one archive per card,
the create.  A command can fail, or take effect and report a failure; a list that
fails reads as a board without cards in `TickReads` (`seen = 0`), as it does in
`get_todo_kanban_tasks`, and ends the pass in `RetireUnreadable`.  The pass holds
the worktree lock throughout (`locked_run_authority`), which is `wtLock = Tick`.
`RouteProceeds`, `RouteWaits`, `RouteStalled` and `RouteAsks` are the decisions
of `route_recovery`; `Verdict` is what `auto_approve_resume` answers and `Asks`
what it does to the intent.  `TickDies` loses the pass and its lock.

Left out: the other phases (a done card ends the pass, where the code goes on to
the next phase), refusals of the approval that depend on files other than those
modelled, and the delivery of the parked marker to the operator.

### PhaseRecovery_proofs

Theorems for any number of generations and daemons, with or without operators: the
invariant of a pass, then what workers report.

### TickLock

The lock of a project's tick: `dir` is the directory `tick.lock`, `holder` the
file in it, both with their age as young or old (older than `max_age`).  Every
system call is a step and a tick can die before each: mkdir, write, the two
stats, unlink and rmdir of the sweep, unlink and rmdir of the release, the second
mkdir.  Removing the file or creating it makes the directory young, since that
is what its mtime does.  A call on a path that has gone ends the tick with
`FileNotFoundError` (`Fails`) exactly where the code has no handler; the scan
then reports the project and goes on (`Reports`).  The two `exists()` are one
step: what follows looks again at what they saw.  A member of `Ticks` is one
tick after another of the project, so it starts over when it ends.

### TickLock_proofs

Theorems for any number of ticks and deaths.

### DurableRegistration

Creating a chain of cards, reconciling what was left of one and cancelling a
whole tick are jobs of the same form: `job` says which, in which directory
(`place`), for which tick and at which card.  Each step is one durable write or
one `hermes` command, and can fail (`Fails`, at most `MaxFaults` times) or, for a
command, take effect and time out; a process that dies loses the job and nothing
else.  `marker[place]` is `pending-task-create.json` with its three forms: a card
whose creation is uncertain, cards to archive, a chain that stands and only
lacks the completion of its barrier.  `card[t][p]` is the board: position 0 is
the barrier, `late` a card whose create timed out and that may still show up.
Hermes releases a card whose parent is done or archived, which is why the code
archives children first (`ArchiveNext`).  `active` is apart from the card's
status because an archived card's worker may go on.

A chain of a pinned run has its marker under the run's worktree
(`PlaceOf`), where `Reconcile` never looks: see the findings.

### ProjectTick

`_tick_project`, one action per stretch between two effects, over the module
above and `run`, `outcome`, `current` (the pointer to the prior tick), `issue`,
`pr` and the circuit breaker.  `tick.pc` follows the order of the code: the
pending marker, deliveries of other runs, the prior run (drift of its issue,
results, delivery, completeness, hand-over), unresolved earlier runs, selection,
registration, the pointer, the chain, the claim label.  `Returns` is a return or
an exception; `Stalls` a return that the breaker counts.  A tick that dies
(`TickDies`) loses `tick` and `job`.  `kind` is "pinned" for a profile with a
plan and "legacy" for one without: they differ in the registration, in the place
of the marker and in who admits the later phases, which for a pinned run is
module PhaseRecovery, so that one card stands for the run here.  Around the
tick, Hermes works the cards, people merge or close the pull request and edit
issues, and the harness may stop driving ticks and cancel the run.

`Expected` follows `all_phases_complete` in reading the *project's*
`expected-phases.json`, whichever kind of chain wrote it last.  `Handoff` resolves
a run only with `HasAuthority`; a legacy chain whose barrier is on the board has
executions that no registration vouches for, and stalls.

Left out: the legacy ship gate before the prior run's results, the rotation
over projects, the manifest and prompt checks of the preparation, the
deduplication of alerts.

### ProjectTick_proofs

Theorems about the two modules above, for any number of ticks, phases, issues,
faults, deaths and drifts.  After the invariant come its types; then what each kind
of write to the board or to a marker keeps (`AppearingKeeps`, `ArchivingKeeps`,
`MarkingKeeps`, ...), which knows nothing of jobs; then one lemma per job step, one
for everything Hermes does (`MovingInv`), and one per action of the tick.

### PullRequest

What the next two share.  A head is the sequence of commits over the one the
review accepted, so that "the head the sidecar names" or "at most one finish
commit" can be said; a pull request follows its branch while it is open.  `ci` is
the evidence GitHub holds for a head: the states of the rollup and, when that is
empty, the suites and statuses that tell "no gate" from "not started".
`CheckState` is delivery's reading of it, `CiIsGreen` with
`CorroborateEmptyRollup` the ship gate's.  What people and CI do is external.  GitHub is
assumed to show the rollup of the new head from a push on; one that lags would pass, since
neither reading compares the head of a rollup that is not empty (`ship.py:522`).

### Delivery

`reconcile_todo_completion` and `close_issue_for_delivery` for a run of a modern
profile.  `files` are the markers in the run's directory, `closer[p]` a
reconciliation under way, of the tick or of an operator's `tpo todos complete`,
named after its next call: look at the issue, verify the report, view the pull
request, read its checks, look at the issue's drift, look for the comment, send
it, write its receipt, close, take the label off, confirm.  What one call read is
kept (`open`, `label`) and used by later ones, as in the code; a tick that cannot
read the issue goes on to the finish all the same.  A call can fail,
or (comment, close, label) take effect and time out; the process can die between
two.  `listed` is what the comment listing shows, which lags `comments`.  The
worker of the finish card commits, pushes, opens the pull request and reports
whatever it likes.

### ShipGate

`maybe_ship_ready` (`DetectsReady`) and `approve_ship` with `bump_in_pr`, one
action per effect.  An approval works on the sidecar it read (`approval[a].sc`)
and persists it after the push; whoever comes after a failure starts from the
file, the branch, the working tree and the gate card it left.  `owner` is the
kernel lock.  A failing bump may leave the tree dirty and tries to check the original
branch out again; a dirty tree refuses until a person cleans it.

### Release

Delivery or the gate, by the profile the run was registered with; they exclude
each other, so a behaviour has one of them.

### Release_proofs

Theorems for any number of approvers, commits, faults and acts of people.

### Sandbox

What `tpo test` acts upon: the ticks it starts as subprocesses, the cards and
workers they leave, and the GitHub repository.  `ticks[t]` is what is on disk and
on the board of tick id `t` when the subprocess has ended, whichever way
(`Registers`: a prefix of the cards, perhaps one more whose create is still in
flight, with or without the file of expected phases); `TickReconciles` is a later
tick that admits the next card, `TickRegisters` after that one that registered a
run of its own.  `tip[b]` is a branch with the run anchor and what was pushed on
top; `foreign` are branches with commits that do not descend from the anchor.
Workers end as they like, push and open pull requests; one act (`acts`) is left
to people and to workers who leave their instructions: push elsewhere, open or
close a pull request, merge it, damage the registration.

### HarnessRun

`run_harness` and all it calls, as one process: `h.pc` is `prepare`, `create`
(the issue), `anchor`, then `tick`, `recover`, `poll`, `settled` in turn, `verify`,
and from `shutdown` on `cancel`, `quiesce`, `decide`, `list`, `discover`, `close`,
`prs`, `branches`, `report`.  `kind` chooses `_drive_single_tick` or
`_drive_pinned_ticks`.  `h.err` is the class of the tick error, which decides what
shutdown may require of the board (`ShutdownKeys`); `h.unaccounted` that agents
may run under an id nobody can name.  `CheckUnchanged` is
`assert_pinned_registration_unchanged`, `Provenance` the ancestry check, `Judged`
what discovery says of a listed branch, `LeaseHolds` the `--force-with-lease`.
Any command can fail and any wait can reach its deadline.  `Breaks` is an exception
that is no tick error, anywhere in a drive: the pinned drive takes it that workers may
exist when it has no registration yet, the single drive does not.  `Interrupted` can
come anywhere and starts nothing remote; whether it keeps the workspace depends on
the flags at that line, and in three places none of them is set (`Unguarded`): before
the try, between the try and the shutdown, and between the two flags that the report
sets.  `Ends` is the `finally` that removes the workspace.

`moved` are the branches that anybody pushed to after the heads were listed.
`DeletesWhatWasJudged` is about them and about branches with somebody's own commits:
neither is deleted.  What a person pushes on top of the run's commits *before* the
listing passes the ancestry check and goes with the branch, as the code's comment
admits (`harness.py:1714`).  `EndTellsTheTruth` is about the step that ends the run.
The workspace is removed only when `NothingLeft`: no agent that may push, no create
under way, no open issue, and no branch or open pull request of the run but what
people merged or pushed to.  It names what it excepts: a card that slipped and what its
agent did, a pinned run's create under way, an interrupt without a guard, and a single
drive that broke before it had its tick's registration (`TickForgotten`).

Cancelling is taken by what `DurableRegistration` shows of it: confirmed, it
leaves no card of the tick running and, for a chain registered from the clone, no
create in flight.  A pinned run's create in flight is kept under its worktree or
its run directory, which cancelling does not read; `slipped` records that one
landed after the run was seen to be over.  A worker
is trusted to leave `current_tick_id.txt` alone, as `assert_tick_id_unchanged`
trusts it.  Left out: preflight and clone (they touch nothing remote), the text
of reports, the review and finish cards of a retired profile.

### HarnessRun_proofs

Theorems for any number of tick ids, cards and acts of people and unruly workers.

### TodoCreate

`execute_create` for one request: `create.pc` is the next command it gives, from
the listing (`list`) over the creation, the listing after a failed one
(`relist`), the body and one label at a time to the last look (`final`).  The
lock of the state directory admits one process at a time, so there is one, and
`CreateDies` releases it.  `request` is the file that `persist_create_request`
writes and the last step unlinks; `Requests` is the operator's run or rerun of
it, with or without the number of an issue.  A body is `fields` (what
`_render_fields` gives), `final` (with the Plan), `edited` (a person's, with a Plan
that parses) or `broken`; titles are part of it.  Of the labels, `mirror` stands for those that
repeat the body's decisions and `extra` for one that contradicts them.  `seen` is
`current_labels`, which the process keeps up to date by what it did itself.  A
command may fail before or after it took effect; `late` counts creations whose
client has gone and that still land, or that the listing does not show yet.
People edit, hold, close and label issues and set `touched`; they leave the marker.

Left out: reading, validating and rendering the request, which change nothing.

### RunRegistration

`register_pinned_run` for an embedded Plan and what `_tick_project` does around
it, over the issues of the module above.  `tick` carries the issue as it was
listed (`body`) and the pinned HEAD (`base`); `plan[t]` and `run[t]` are the two
files of the run's directory, written in this order, before the branch and the
worktree are looked at (`ValidatesTree`, `CreatesTree`).  A branch is its base
and the runs with commits on it; `tree[i].dirt` are the runs that left changes.
All issues of a request name the same branch; each has a worktree of its own
(`_slug`).  `Binds` is what ProjectTick has in detail.  A run that is refused for
its branch demotes its issue (`Demotes`, `Informs`).  A started run works until
the operator gives it up; delivery is the modules above.

An operator is taken to abandon a run when its tick and workers are gone, to
clean between runs, and people to create the branch but not to commit to it:
the code looks at the branch once, and nothing keeps it from moving afterwards.
Left out: Plans in the repository, whose registration writes no artifact and
leaves the run active when it fails (ProjectTick has that), and the retry of a
registration under the same tick id, which no caller makes.

### RunRegistration_proofs

Theorems about both modules of the intake, for any number of issues, runs, reruns,
faults and deaths.

### SkillInstaller

`install`, `uninstall` and `recover` for one skill at one target.  `pc` is where
the running command is; `idle` with a `journal` is what a death, or a refusal,
leaves.  There is one command, since the target's flock admits one.  A directory
is an inode, a content and the number of its entries: `_identity` compares all
three, a digest the content, a manifest everything but the inode (`Fits`).  Inodes
are used again (`NewTreeId`).  Copying and removing go entry by entry, so that a
death leaves a part.  `_finish_install` and `_finish_uninstall` are `InstallResumes`
and `UninstallResumes` with the steps that follow, the same whether a command runs
for the first time or `recover --finish` repeats it; the comparison before a
rename, the rename and the comparison after it are three steps.  `_rollback` is
`UndoBegins` to `ReceiptRestored`, and goes by what it read of the directories
when it began (`Restorable`).  `Refuse` is every "identity drift".

People edit, remove and create the skill's directory and change its receipt at any
step; tpo is upgraded between two commands, with another version of the skill or
with the same content in a directory made anew.
`touched` says who did so since the transaction began, `kept` which of people's
contents nobody has asked to remove; both are for the properties only.

Left out: temporary files that a death leaves, refusals of symbolic links and of
other file systems, a receipt that is no JSON, the choice of targets, and the
journal's `step`, which nothing reads.

### SkillInstaller_proofs

Theorems for any number of transactions, deaths, edits, upgrades and directory
entries.

## Runs

| Run | Instance | Shows |
|---|---|---|
| `supervisor_peers` | two executions (one with a manifest), three daemons, one crash | one unsettled attempt on the worktree; the store implements the ledger |
| `supervisor_collect` | one execution with a manifest, two daemons, two recovery events, one check, one crash, under fairness | nothing runs behind a settled attempt; no launch marker is left; a late check is a timeout; an event admits once; the tick's budget; the operator decides; every attempt closes; an abandoned one whose processes have receipts settles |
| `recovery_board` | a daemon for each of two generations, three worktree states of which one is unsafe | a later card follows a settled attempt; an abandoned run has no card; an invalidated recovery admits nothing; a done card stays done |
| `recovery_answered` | an operator, two worktree states, one death, under fairness | a failed attempt is reissued, parked or abandoned |
| `ticklock_overlap` | three ticks that may overrun, two deaths, under fairness | one owner until a lock outlives max_age; the lock of a dead tick is reclaimed |
| `ticklock_stolen` | two ticks that never overrun, one death | violated: one tick runs at a time |
| `tick_selection` | two issues, two ticks with ids, legacy and pinned, one death, one fault | no card is claimable before its chain is committed; what a failed creation left is named by a marker; a cancelled run has stopped; one run at a time |
| `tick_progress` | one issue that is edited, held or closed, under fairness | a tick that picked none leaves evidence; a run that stays blocked is alerted; a marker is resolved |
| `release` | one run, pinned or gated, two approvers, one act of people, one fault, under fairness | delivered means merged, reviewed and passed; comments are true and sent once; the gate merges what was found ready, passed, with one bump; a handoff that was merged is delivered |
| `harness_run` | a run of either kind, two tick ids, two cards, one act of people or of an unruly worker, under fairness | nothing is destroyed while an agent may push; a branch with somebody's own commits, or pushed to after the listing, is not deleted; the workspace goes only when nothing it records is left, but for four named gaps; exit code zero means delivered; the run ends |
| `intake` | one request, up to three issues with its marker, two runs, one fault, one death, one act of people, under fairness | one issue of a request is released; what is released is complete; a started run stands on what it pinned; a request converges |
| `skills` | two transactions, two deaths in each, two acts of people, a directory of two entries, under fairness | nothing is lost; a transaction ends done or undone; one that died once ends |

Bounds.  Two executions are enough for the peer scan, which compares a pair.
Three daemons give two racing ones and a third that comes after a crash.  Two
generations (`MaxGenerations = 2`, the code's limit is 3) reach the limit after
one resume.  `MaxEvents` bounds recovery events, `MaxChecks` the check
processes (one: what the run asks of checks is proved for any number of them),
`MaxCrashes` crashes and reboots: one reaches every place a crash can come at, and
the proofs have no such bound.  Daemons are symmetric in the runs
without liveness.  Deadlock is checked except in `supervisor_peers`, whose only
worktree state never changes, so that the instance ends when its bounds are used
up.

The recovery runs have one execution, since peers are `supervisor_peers`'
question.  A daemon runs once, so `recovery_board` has one for the generation
that fails and one for the reissued one, after which the budget is exhausted and
the run abandoned; `recovery_answered` has the first only, with the operator and
the death.  The invariants are proved for all of it at once.  They end when the
generations are used up, so deadlock is not checked.  In `TickLock` two ticks race and a third comes after a death;
`Overruns` says whether a tick may outlive `max_age`, and is FALSE in the
violation, which needs none that does.

`MaxTicks` bounds the tick ids that were written under, not the ticks: two give a
prior run and the one selected after it.  `NPhases = 2` gives a chain with a
card that has a worker card for its parent.  One fault and one death in the same
behaviour reach a marker that one leaves and the other finds.  The two issues of
`tick_selection` are symmetric.  The harness may stop for good and tick ids run
out, so deadlock is not checked in the tick's runs.

In `release`, `MaxMoves` bounds what people do besides merging (push, commit,
close, edit, hold, complete by hand), `MaxFaults` commands that fail and
processes that die, `MaxCommits` the length of a head: the finish commit, a bump
and one more.  One act and one fault in the same behaviour reach every place the
other can come at.  A delivered or refused run has nothing left to do, so
deadlock is not checked.

In `harness_run` two tick ids give the run's and one that a later tick should not
have registered; two cards give one that is admitted by a later tick, which is
what progress, stall and a partial registration need.  `MaxTip = 3` is the
anchor, the implementation and a push after it.  `MaxActs = 1` in the run; with
two, and without `--keep`, the invariants were checked to hold too.  The run
ends, so deadlock is not checked.

In `intake` two issues beside the right one are what a failed and an interrupted
creation can leave; the second run meets what the first left.  One fault, one
death and one act fall into the same behaviour in any order.  With two acts of
people (2.9 million states) and with three runs the properties were checked to
hold too.

In `skills` the second transaction meets what the first left; one death leaves a
journal, the second interrupts its recovery.  Two acts are an edit and an upgrade,
or a removal and a new directory.  Two entries make a directory that is partly
copied or partly removed.  A transaction that both ways refuse stays, and commands
run out, so deadlock is not checked.

Fairness.  A daemon that is not killed keeps running: weak fairness of each
daemon's steps.  Every tick sweeps: weak fairness of `RecoverConfirmed` and
`RecoverUnconfirmed` per execution.  `run_process` kills a client at its deadline
and the sweep signals the processes it has receipts of: weak fairness of
`ReceiptedEnds`.  A process without a receipt need never end.  Nothing makes an
operator, an edit or a crash happen.

`TickFairness` is what cron and Hermes give: ready cards are dispatched, a worker
goes on or gives up (its card has a ceiling), ticks recur, and a command that
every tick repeats does not fail for ever (strong fairness of its confirmed form,
because other steps of the pass disable it in between).  `SupervisorFairness`
repeats the paragraph above over the larger state.   In `TickLock` ticks recur and do
not hang, and time passes.  In `ProjectTick` ticks recur and one that does not
die goes on; faults are bounded, so no fairness is asked of commands, and none of
workers, people or Hermes.  In `Release` ticks go on, and GitHub lists a comment
in the end; merges, checks and approvals need never come.  In `HarnessRun` the
harness goes on: every command it runs and every wait it makes has a timeout, and
none of workers, ticks or people is asked to do anything.  In `RunRegistration`
the process that creates goes on, and the operator reruns a request that is still
on disk, as `create_pending` tells them to; ticks and people owe nothing.  In
`SkillInstaller` a command that is not killed goes on, and the operator who is told
of a journal (every command prints it) tries `--finish` and `--rollback` again and
again: strong fairness, since the other recovery disables either in between.

## Proofs

`SupervisorInv` is inductive.  `OneUnsettledAttempt` alone is not: that a daemon
may write an outcome depends on its still holding the lock, and that a sweep may
confirm a cleanup depends on what `live`, `known` and the marker say of each
other.  The invariant therefore adds `Accounts` (per execution: a settled attempt
has no process and no marker, the client's receipt comes first, a check that runs
without a receipt has its marker) and `DaemonRelies` (per daemon: whoever is past
its admission holds the worktree lock, and at each step what it may assume of
attempt, processes and marker).  `InvariantHolds` proves it for every action;
the three theorems on safety follow.  They use the assumptions the modules name:
`NoDaemonAssumption` and `TickAssumption` (lock owners are distinct),
`WorksAssumption`, `ExecutionsAssumption`, `ManifestedAssumption`,
`BoundsAssumption`.

`ImplementsLedger` proves the refinement, `Spec => LedgerSpec`: `LedgerOf` maps an
attempt to open, doubtful or settled.  `SupervisorInv` supplies what a single step
cannot see: owners and sweeps only write attempts that are not settled, and an
attempt is admitted when every other one is.

`PhaseInv` adds to `SupervisorInv` what a pass needs: `TickRelies` says that a
pass holds the worktree lock, that the cards it still has to archive are the
ones listed, and that what it is about to create follows a settled attempt.  The
argument has three parts.  What is not the tick's is a step of `AgentSupervisor`
that leaves the tick's lock alone (`OthersSupervise`, `DaemonLeavesTicksLock`),
so `SupervisorInv` carries over and no daemon is past its admission during a
pass.  A step of the pass writes no attempt (`PassInv`).  And a settled attempt
stays settled, because the steps of `AgentSupervisor` implement the ledger
(`SettledStays`): that is why what a tick saw when it decided still holds when it
creates, several commands later.  `PhaseInvariantHolds` gives
`NextCardFollowsSettled` and `AbandonedIsCleared`; `PhaseImplementsLedger` says
that adding workers, operators and ticks leaves `LedgerSpec` implemented.
`PhaseAssumption` is the only assumption added.

`TickLock`: mutual exclusion is not inductive either.  `Unswept` adds that, while
no lock has outlived `max_age`, nobody sweeps, an owner's directory is there in
whatever call the owner is, and a lock is without holder file exactly while its
owner writes or removes it.  `OneOwner` and `HolderNamed` follow.  Past that
point there is nothing to prove: see the findings.

Type correctness of the supervisor (`TypeCorrect`) and `HolderNamed` are proved
and no longer repeated in a run.

Recovery events need an invariant of their own.  That an event admits once
(`EventsAdmitOnce`) is not inductive, because between consuming an approval,
authorising the retry and admitting it the event is spent in one file and not yet
in the others, and a daemon may die there.  `EventsInv` says that an event belongs
to one execution wherever it is found, in the intent, in an approval, in a daemon's
hands or in an attempt (`HeldOnce`), that an intent which can still be consumed has
admitted nothing, and what a daemon finds between consuming and admitting
(`EventFits`).  It is proved relative to `SupervisorInv`, as is `LateInv`, which
relates the exits a daemon has collected to what it is about to write, and gives
`LateCheckIsTimeout`.  `TickRepeatsOnlyInterruptions` follows from `EventsInv`:
the tick's approvals carry the generation they repeat.  `ReportInv` adds what a
waiting worker may still believe of its event while daemons it cannot see live
(`WorkerFits`) and what a pass has resumed (`PassResumes`), and gives
`InvalidatedIsFinal`; `DoneIsFinal` and `OperatorDecides` are facts about single
steps, from the invariants.

`SkillInv`: what a step of the installer finds is what the earlier ones left or
what people did since, so the invariant says for every `pc`, running or left by a
death, which of target, stage and backup hold which content (`FinishRelies`,
`UndoRelies`, `DoneRelies`), that no two of them share an inode (`DiskFits`), and
that contents people wrote are somewhere whole unless removal was asked for
(`EditsPlaced`).  `Undisturbed` adds that a transaction nobody touched has its
earlier directory whole, which is the half of `NothingIsLost` that recovery rests
on.  `AllOrNothing` is a property of the last steps only, and follows.

`RegistrationInv` has two parts.  `CreateInv` counts what of a request may be
untriaged: what the process knows of labels (`seen`), what may still land
(`late`), and the final look decide together that at most one issue is released,
complete.  `PinsInv` says at each step of a registration what already stands on
disk and in git, and that what an unresolved earlier run left is refused;
`OneRunIsUnresolved` is part of it.

`PTInv` joins what four kinds of state say of each other, none of which is
inductive alone.  `BoardFits`: a chain that no marker names is released or has no
card that could be claimed, and children are archived before their parents
(`OrphansFit`, `ChildrenFirst`, `ClaimsFit`).  `JobFits`: at each step of a job what
it has and has not written, with the marker exactly one step ahead of the board
(`CreateFits`, `UndoFits`, `CancelFits`).  `TickFits` and `ProjectClear`: what a
tick may rely on at each `pc`, in particular that the project's directory has no
marker once it was looked at, and that a tick id under registration is fresh.
`QuietFits`: only the tick of the pointer has a worker or a card that waits, and
none while the next issue is selected; that a completed or delivered run leaves
nobody at work (`CompleteIsQuiet`, `SettledIsQuiet`) is the argument for
`OneRunAtATime`.  Its five safety properties follow.

`ReleaseInv` is `DeliveryInv` or `GateInv`, by the run's profile.  A delivery
acts on what several earlier calls read, so `DeliveryInv` says for every `pc` what
the reconciliation has established that nobody can undo (`TickKnows`: a report
that was verified is final, a merged pull request keeps its head, checks that
passed report no more), what each marker proves (`MarkersTell`), and what a
second comment is paid with: a comment without its receipt takes a fault
(`Receipted`), and whoever moves the issue takes one of the moves (`MovesPay`).
It assumes that the tick and the operator are two processes
(`DeliveryAssumption`).  `GateInv` is about an approval that works on a sidecar it
has read while others push: one approves at a time, on the sidecar that is in the
file until the bump (`OneApproves`); the file names the ready head until then, and
outlives the merge (`SidecarStands`); and origin only grows, so a bumped head at which the approval reads green either still is origin's
head or is refused by the merge (`HeadsFit`).  `BumpsArePaid` charges a bump that no
sidecar remembers to a fault; `GateMergesAccepted` and `BumpsAreAccounted` follow.

`HarnessInv`: the harness destroys what it listed several commands earlier, so the
invariant says what of that list is still true, and why nobody moves it.
`NamesFit`: a tick that left something running or in flight is the one the drive
follows, the one the pointer names until it was looked at, or the one shutdown
cancels, unless the harness knows that it cannot name it (`unaccounted`).
`QuietFits`: so from a confirmed cancel on nobody may push, and only the create of
a pinned run that slipped may still start a worker.  `PushesFit`: only workers
start branches of the run, and an open pull request has its branch.  `FoundFits`:
what discovery recorded of the run's branches and pull requests is what is there
until it is cleaned, or the harness knows that it is not, apart from what people
took over or a slipped create may have touched (`Spared`).  `JudgedFits`: a listed
branch only grows, and one in `moved` is longer than when it was listed, so the lease
refuses it; with the ancestry check this gives the action property
`DeletesWhatWasJudged`.  `EndTellsTheTruth` is an action property too, and is proved of
each step that ends a run: where the code removes the workspace of its own accord, a
cancel was confirmed and every wait, close and deletion succeeded, so `QuietFits`,
`FoundFits` and `IssueFits` leave nothing (`QuietIsNothingLeft`, `ReportIsTrue`), unless
the tick was forgotten, which `WorkIsNamed`, `QuietFits` and `FoundFits` except;
`SuccessFits` is for exit code zero.  `NothingRunsDuringCleanup` follows from
`QuietFits`.  The assumptions are `SandboxAssumption` and `HarnessAssumption`.

All these invariants were checked by TLC on the runs' instances, or larger ones,
before they were proved.  One attempt to prove found a mistake of the model: the
alternatives of a CASE in `MarkerChecked` overlapped when there is no prior run, so
that its value was settled by the order in which TLC tries them.

Every invariant and every action property of a passing run is a theorem.  Only
model-checked: liveness (fairness and ENABLED are out of the prover's reach).

## Findings

A run that TLC finds violated, against a sentence of the repository:

- `ticklock_stolen`: after a tick died, two contenders judge its lock old; the
  slower removes the lock that the faster has just taken, and both run.

Met while modelling, without a run of their own: the chain of a pinned run is
created with its worktree as the project directory (`cli.py:2889`), so its marker
lies where the next tick does not look (`cli.py:2103`); the project is not skipped,
as `docs/howto-pipeline-tick.md:212` says it is, and cancelling does not see the
card that is missing (the states of `tick_selection` with a marker whose place is
the run's); a worker that gave up on a live
daemon is not unblocked while that daemon lives, since `route_recovery`'s branch
for it is behind a lock the daemon holds (ADR 0005 says it is); the approval of
an attempt with an invalid result is never counted by `pending_auto_recovery`
(`agent_recovery.py:489`); a tick that looks at the lock while its owner releases
it ends with `FileNotFoundError` instead of skipping (`tick.py:43`); the tick
after a delivered run does not move the checkout to the merged base
(`cli.py:2137`); a pinned run that completed is in flight for ever when the
project's `expected-phases.json` is a legacy chain's (`kanban_tasks.py:1992`);
and `circuit.json` is not written atomically (`circuit.py:44`).
In the intake: the body is written without a condition, so an edit made since it
was read is lost (`github_issues.py:1017` says why); and the run of a Plan in the
repository whose worktree is refused stays active, so that it holds selection
until an operator gives it up, while one with an embedded Plan is abandoned
(`cli.py:2826`, `cli.py:2739`).
In delivery: a person who merges before the finish report is verified, so that
GitHub closes the issue, stops the run with `issue_closed` until it is reopened;
the later run of a reopened issue meets the earlier run's comment
(`completion_conflict`) until it is forced; and a process that dies between the
comment and its receipt, while the listing lags, comments twice, where
`todos_completion.py:882` says it never does.  At the ship gate: a commit on the
*local* branch that nobody reviewed is pushed with the bump and merged, since the
guard compares the pull request's head only; and a rollup that is not empty is
not compared with the head it belongs to.  A chain without a registration never gets
past its handoff: `_pr_handoff_authority` wants an execution for every card on the board
(`cli.py:1494`), the barrier is one of them and has none, so that every tick stalls on a
run that is complete (`HasAuthority`; its test, `tests/test_tick_subcommand.py:2058`,
passes a board without the barrier).  In the harness: an exception other than
a tick error before the registration is recovered counts as "workers may exist" in
`_drive_pinned_ticks` (`harness.py:3633`) and not in `_drive_single_tick`
(`harness.py:3392`), whose shutdown then cancels nothing, reports quiescence and removes
the workspace while workers may run; an interrupt between `harness.py:4149` and 4170,
between 4259 and 4275 or after 4361 removes it too, where
`docs/howto-live-integration-test-harness.md:304` says that an interrupted run retains
it; what a person pushes on the run's branch before the listing is deleted with it; a branch
that moves while discovery looks at it is left, and reported, but does not make the
cleanup incomplete, so the workspace goes; and `_wait_for_kanban_quiescence` finds
nothing that a confirmed cancel has not already archived.
In the skill installer, where `docs/reference-cli.md:348` says that each
single-target operation is recoverable: (1) an uninstall dies before its commit,
a rollback puts back a copy of the receipt, with another inode, and dies before it
removes the journal; `--finish` then commits and refuses the receipt
(`skill_installer.py:344`) and `--rollback` refuses what is committed, for good,
though nobody touched anything.  `RecoveryEnds` excepts the second death for that
(without `deaths > 1` TLC shows it); a reinstall over an earlier receipt has the
same.  (2) An install dies while it copies and tpo is upgraded: `--finish` refuses
the changed source (`:236`; one that was installed anew with the same content
too, since the comparison includes the inode) and `--rollback` the partial stage
(`:839`).  (3) A rollback compares the new directory before it moves it aside
(`:847`) and not again after, as `_step_rename` does; an edit in between is
deleted with the stage (`Noticed`).

## Not modelled

Everything whose row in `PROJECT.json` says so; the plan above names the module
that will.  Out of scope for good: argument construction of the clients, parsing
of profiles and configuration, rendering of prompts, the harness's reports.
