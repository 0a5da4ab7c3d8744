------------------------- MODULE DurableRegistration -------------------------
(***************************************************************************)
(* The registration of a tick's chain of Kanban cards                      *)
(* (src/hermes_pipeline/kanban_tasks.py): a barrier card that nobody can   *)
(* claim and, behind it, one worker card per phase.  Hermes is a command   *)
(* line whose answers get lost, so every remote step is preceded by a      *)
(* durable marker, pending-task-create.json, that says what to look for or *)
(* what to archive.  Creating the chain, reconciling what a dead or failed *)
(* creation left, and cancelling a whole tick are jobs made of single      *)
(* steps; a job belongs to a process that may die between any two of them. *)
(***************************************************************************)
EXTENDS Naturals

CONSTANTS
  MaxTicks,     \* tick ids that may be used (bound)
  NPhases,      \* worker cards of a chain without a pinned registration
  MaxFaults     \* failed writes, failed commands and lost answers (bound)

ASSUME MaxTicksAssumption == MaxTicks \in Nat \ {0}
ASSUME NPhasesAssumption == NPhases \in Nat \ {0}
ASSUME MaxFaultsAssumption == MaxFaults \in Nat

Ticks == 1..MaxTicks
NoTick == 0
Positions == 0..NPhases

\* The directories that hold a pending-task-create.json and an expected-phases.json:
\* the project's .hermes/outcomes, and the same path under the worktree of a pinned run.
Project == 0
Places == {Project} \cup Ticks

VARIABLES
  kind,       \* what a tick registers: "unused", "idle" (picked none), "legacy", "pinned"
  card,       \* card[t][p] on the board; position 0 is the barrier
  active,     \* active[t][p]: a worker run of the card has not ended
  admitted,   \* admitted[t]: the schedule re-admitted the first worker card without the chain
  marker,     \* marker[place], pending-task-create.json
  expected,   \* expected[place], the chain kind expected-phases.json was last written for
  job,        \* the registration, reconciliation or cancellation under way
  faults,     \* faults that happened
  cancelled   \* ticks whose cancellation was confirmed

regVars == <<kind, card, active, admitted, marker, expected, job, faults, cancelled>>

CardStatus == {"none", "late", "todo", "running", "done", "blocked", "archived"}
Live == {"todo", "running", "done", "blocked"}

NoMarker == [form |-> "none", tick |-> NoTick, upto |-> 0]
MarkerType == [form : {"none", "create", "cleanup", "commit"},
               tick : Ticks \cup {NoTick}, upto : Positions]

NoJob == [mode |-> "none", pc |-> "none", place |-> Project, tick |-> NoTick,
          at |-> 0, target |-> NoTick, ok |-> TRUE]
JobType == [mode : {"none", "create", "reconcile", "cancel"},
            pc : {"none", "intent", "create", "repeat", "record", "sentinel", "commit",
                  "barrier", "clear", "undo", "archive", "look", "stop", "retire", "confirm"},
            place : Places, tick : Ticks \cup {NoTick}, at : Positions,
            target : Ticks \cup {NoTick}, ok : BOOLEAN]

RegTypeOK ==
  /\ kind \in [Ticks -> {"unused", "idle", "legacy", "pinned"}]
  /\ card \in [Ticks -> [Positions -> CardStatus]]
  /\ active \in [Ticks -> [Positions -> BOOLEAN]]
  /\ admitted \in [Ticks -> BOOLEAN]
  /\ marker \in [Places -> MarkerType]
  /\ expected \in [Places -> {"none", "legacy", "pinned"}]
  /\ job \in JobType
  /\ faults \in 0..MaxFaults
  /\ cancelled \subseteq Ticks

RegInit ==
  /\ kind = [t \in Ticks |-> "unused"]
  /\ card = [t \in Ticks |-> [p \in Positions |-> "none"]]
  /\ active = [t \in Ticks |-> [p \in Positions |-> FALSE]]
  /\ admitted = [t \in Ticks |-> FALSE]
  /\ marker = [q \in Places |-> NoMarker]
  /\ expected = [q \in Places |-> "none"]
  /\ job = NoJob
  /\ faults = 0
  /\ cancelled = {}

-----------------------------------------------------------------------------
(* Helpers.                                                                *)

\* A pinned run registers its first worker only; phase_schedule admits the others.
Chain(t) == IF kind[t] = "pinned" THEN 1 ELSE NPhases

\* create_prepared_todo_phases gets the worktree of a pinned run as its project directory.
PlaceOf(t) == IF kind[t] = "pinned" THEN t ELSE Project

Fails == /\ faults < MaxFaults
         /\ faults' = faults + 1

Mark(form, t, p) == marker' = [marker EXCEPT ![job.place] = [form |-> form, tick |-> t, upto |-> p]]
Unmark == marker' = [marker EXCEPT ![job.place] = NoMarker]
Sets(p, status) == card' = [card EXCEPT ![job.tick][p] = status]

Goto(pc) == job' = [job EXCEPT !.pc = pc]
GotoAt(pc, p) == job' = [job EXCEPT !.pc = pc, !.at = p]
Ends(verdict) == job' = [NoJob EXCEPT !.ok = verdict]

\* A reconciliation that resolved its marker: a cancellation goes on with its own tick.
Resolved ==
  IF job.mode = "cancel"
  THEN job' = [job EXCEPT !.pc = "stop", !.tick = job.target]
  ELSE Ends(job.mode = "reconcile")

\* What a command whose answer was lost may have done to a card.
CreateEffects(t, p) == IF card[t][p] \in Live THEN {card[t][p]} ELSE {card[t][p], "late", "todo"}

Free == job.mode = "none"

BeginCreate(t) ==
  job' = [NoJob EXCEPT !.mode = "create", !.pc = "intent", !.place = PlaceOf(t), !.tick = t]
BeginReconcile ==
  job' = [NoJob EXCEPT !.mode = "reconcile", !.pc = "look"]
BeginCancel(t) ==
  job' = [NoJob EXCEPT !.mode = "cancel", !.pc = "look", !.target = t]

-----------------------------------------------------------------------------
(* create_prepared_todo_phases: one durable create per card, barrier first. *)

GivesUpBefore(p) == IF p = 0 THEN Ends(FALSE) ELSE GotoAt("undo", p - 1)

PersistIntent ==
  /\ job.pc = "intent"
  /\ \/ /\ Mark("create", job.tick, job.at)
        /\ Goto("create")
        /\ UNCHANGED faults
     \/ /\ Fails
        /\ GivesUpBefore(job.at)
        /\ UNCHANGED marker
  /\ UNCHANGED <<kind, card, active, admitted, expected, cancelled>>

CreateCard ==
  /\ job.pc = "create"
  /\ \/ /\ Sets(job.at, IF card[job.tick][job.at] \in Live THEN card[job.tick][job.at] ELSE "todo")
        /\ Goto("record")
        /\ UNCHANGED <<marker, faults>>
     \/ /\ Fails                                \* timed out, failed or answered nonsense
        /\ \E status \in CreateEffects(job.tick, job.at) : Sets(job.at, status)
        /\ Goto("repeat")
        /\ UNCHANGED marker
     \/ /\ Fails                                \* the command never ran
        /\ GivesUpBefore(job.at)
        /\ IF job.at = 0 THEN Unmark ELSE UNCHANGED marker
        /\ UNCHANGED card
  /\ UNCHANGED <<kind, active, admitted, expected, cancelled>>

\* One repeat of the idempotent create, then a look at the board: what is found is
\* archived with everything before it, what is not found stays in the marker.
RepeatCreate ==
  /\ job.pc = "repeat"
  /\ \/ /\ Sets(job.at, IF card[job.tick][job.at] \in Live THEN card[job.tick][job.at] ELSE "todo")
        /\ Goto("undo")
        /\ UNCHANGED faults
     \/ /\ Fails
        /\ \E status \in CreateEffects(job.tick, job.at) : Sets(job.at, status)
        /\ Ends(FALSE)
  /\ UNCHANGED <<kind, active, admitted, marker, expected, cancelled>>

ChainStands(p) == p >= Chain(job.tick)

RecordCreated ==
  /\ job.pc = "record"
  /\ \/ /\ Mark("cleanup", job.tick, job.at)
        /\ IF ChainStands(job.at) THEN Goto("sentinel") ELSE GotoAt("intent", job.at + 1)
        /\ UNCHANGED faults
     \/ /\ Fails
        /\ Ends(FALSE)
        /\ UNCHANGED marker
  /\ UNCHANGED <<kind, card, active, admitted, expected, cancelled>>

PersistExpectedPhases ==
  /\ job.pc = "sentinel"
  /\ \/ /\ expected' = [expected EXCEPT ![job.place] = kind[job.tick]]
        /\ Goto("commit")
        /\ UNCHANGED faults
     \/ /\ Fails
        /\ GotoAt("undo", Chain(job.tick))
        /\ UNCHANGED expected
  /\ UNCHANGED <<kind, card, active, admitted, marker, cancelled>>

PersistCommit ==
  /\ job.pc = "commit"
  /\ \/ /\ Mark("commit", job.tick, Chain(job.tick))
        /\ Goto("barrier")
        /\ UNCHANGED faults
     \/ /\ Fails
        /\ GotoAt("undo", Chain(job.tick))
        /\ UNCHANGED marker
  /\ UNCHANGED <<kind, card, active, admitted, expected, cancelled>>

CompleteBarrier ==
  /\ job.pc = "barrier"
  /\ \/ /\ Sets(0, "done")
        /\ Goto("clear")
        /\ UNCHANGED faults
     \/ /\ Fails
        /\ \E status \in {card[job.tick][0], "done"} : Sets(0, status)
        /\ Ends(FALSE)
  /\ UNCHANGED <<kind, active, admitted, marker, expected, cancelled>>

\* The last step of a commit and of a cleanup removes the marker.
ClearMarker ==
  /\ job.pc = "clear"
  /\ \/ /\ Unmark
        /\ IF job.mode = "create" THEN Ends(marker[job.place].form = "commit") ELSE Resolved
        /\ UNCHANGED faults
     \/ /\ Fails
        /\ Ends(FALSE)
        /\ UNCHANGED marker
  /\ UNCHANGED <<kind, card, active, admitted, expected, cancelled>>

-----------------------------------------------------------------------------
(* _persist_and_archive_cleanup: the children before their parents, each    *)
(* confirmed on the board before the next.                                  *)

PersistCleanup ==
  /\ job.pc = "undo"
  /\ \/ /\ Mark("cleanup", job.tick, job.at)
        /\ Goto("archive")
        /\ UNCHANGED faults
     \/ /\ Fails
        /\ Ends(FALSE)
        /\ UNCHANGED marker
  /\ UNCHANGED <<kind, card, active, admitted, expected, cancelled>>

\* Mutant: parents are archived before their children.
ArchiveNext_ParentFirst ==
  /\ Sets(marker[job.place].upto - job.at, "archived")
  /\ IF job.at = 0 THEN Goto("clear") ELSE GotoAt("archive", job.at - 1)

ArchiveNext ==
  /\ Sets(job.at, "archived")
  /\ IF job.at = 0 THEN Goto("clear") ELSE GotoAt("archive", job.at - 1)

ArchiveCard ==
  /\ job.pc = "archive"
  /\ \/ /\ ArchiveNext
        /\ UNCHANGED faults
     \/ /\ Fails
        /\ \E status \in {card[job.tick][job.at], "archived"} : Sets(job.at, status)
        /\ Ends(FALSE)
  /\ UNCHANGED <<kind, active, admitted, marker, expected, cancelled>>

-----------------------------------------------------------------------------
(* reconcile_pending_task_create: what the project's marker says, and only  *)
(* the project's.  cleanup_only archives an uncommitted chain.              *)

Barrier(t) == card[t][0]

LookAtNothing ==
  /\ marker[Project].form = "none"
  /\ Resolved

\* Mutant: a commit that was not completed is not retried.
LookAtCommit_NoRetry ==
  LET t == marker[Project].tick IN
  /\ marker[Project].form = "commit"
  /\ IF job.mode = "cancel" \/ Barrier(t) = "archived"
     THEN job' = [job EXCEPT !.pc = "undo", !.tick = t, !.at = marker[Project].upto]
     ELSE IF Barrier(t) = "done" THEN job' = [job EXCEPT !.pc = "clear", !.tick = t] ELSE Ends(FALSE)

LookAtCommit ==
  LET t == marker[Project].tick IN
  /\ marker[Project].form = "commit"
  /\ IF job.mode = "cancel" \/ Barrier(t) = "archived"
     THEN job' = [job EXCEPT !.pc = "undo", !.tick = t, !.at = marker[Project].upto]
     ELSE job' = [job EXCEPT !.pc = IF Barrier(t) = "done" THEN "clear" ELSE "barrier", !.tick = t]

LookAtCleanup ==
  /\ marker[Project].form = "cleanup"
  /\ job' = [job EXCEPT !.pc = "archive", !.tick = marker[Project].tick, !.at = marker[Project].upto]

\* Mutant: a card that is not on the board counts as resolved.
LookAtCreate_NotFoundIsNone ==
  LET m == marker[Project] IN
  /\ m.form = "create"
  /\ IF card[m.tick][m.upto] \in Live
     THEN job' = [job EXCEPT !.pc = "undo", !.tick = m.tick, !.at = m.upto]
     ELSE job' = [job EXCEPT !.pc = "clear", !.tick = m.tick]

LookAtCreate ==
  LET m == marker[Project] IN
  /\ m.form = "create"
  /\ IF card[m.tick][m.upto] \in Live
     THEN job' = [job EXCEPT !.pc = "undo", !.tick = m.tick, !.at = m.upto]
     ELSE Ends(FALSE)

Reconcile ==
  /\ job.pc = "look"
  /\ \/ /\ \/ LookAtNothing
           \/ LookAtCommit
           \/ LookAtCleanup
           \/ LookAtCreate
        /\ UNCHANGED faults
     \/ /\ marker[Project].form \in {"create", "commit"}   \* the board cannot be read
        /\ Fails
        /\ Ends(FALSE)
  /\ UNCHANGED <<kind, card, active, admitted, marker, expected, cancelled>>

-----------------------------------------------------------------------------
(* cancel_todo_kanban_tasks: reclaim what runs, archive child first, then   *)
(* look again.                                                              *)

Running(t) == {p \in Positions : card[t][p] = "running"}
OnBoard(t) == {p \in Positions : card[t][p] \in Live \cup {"archived"}}

\* A reclaimed card goes back to the board; its run is confirmed terminated.
ReclaimRunning ==
  /\ job.pc = "stop"
  /\ \/ /\ card' = [card EXCEPT ![job.tick] =
                     [p \in Positions |-> IF p \in Running(job.tick) THEN "todo" ELSE @[p]]]
        /\ active' = [active EXCEPT ![job.tick] =
                       [p \in Positions |-> @[p] /\ p \notin Running(job.tick)]]
        /\ GotoAt("retire", NPhases)
        /\ UNCHANGED faults
     \/ /\ Fails
        /\ Ends(FALSE)
        /\ UNCHANGED <<card, active>>
  /\ UNCHANGED <<kind, admitted, marker, expected, cancelled>>

RetireCard ==
  /\ job.pc = "retire"
  /\ \/ /\ IF job.at \in OnBoard(job.tick) THEN Sets(job.at, "archived") ELSE UNCHANGED card
        /\ IF job.at = 0 THEN Goto("confirm") ELSE GotoAt("retire", job.at - 1)
        /\ UNCHANGED faults
     \/ /\ Fails
        /\ Ends(FALSE)
        /\ UNCHANGED card
  /\ UNCHANGED <<kind, active, admitted, marker, expected, cancelled>>

\* Mutant: archived cards are enough, whatever their runs do.
Stopped_BoardOnly(t) == \A p \in OnBoard(t) : card[t][p] = "archived"

Stopped(t) == \A p \in OnBoard(t) : card[t][p] = "archived" /\ ~active[t][p]

ConfirmCancelled ==
  /\ job.pc = "confirm"
  /\ \/ /\ Stopped(job.tick)
        /\ cancelled' = cancelled \cup {job.tick}
        /\ Ends(TRUE)
        /\ UNCHANGED faults
     \/ /\ ~Stopped(job.tick)
        /\ Ends(FALSE)
        /\ UNCHANGED <<cancelled, faults>>
     \/ /\ Fails
        /\ Ends(FALSE)
        /\ UNCHANGED cancelled
  /\ UNCHANGED <<kind, card, active, admitted, marker, expected>>

JobStep ==
  \/ PersistIntent
  \/ CreateCard
  \/ RepeatCreate
  \/ RecordCreated
  \/ PersistExpectedPhases
  \/ PersistCommit
  \/ CompleteBarrier
  \/ ClearMarker
  \/ PersistCleanup
  \/ ArchiveCard
  \/ Reconcile
  \/ ReclaimRunning
  \/ RetireCard
  \/ ConfirmCancelled

-----------------------------------------------------------------------------
(* Hermes: a create that timed out shows up late or never; a card whose     *)
(* parent is done, or archived, is claimed; its worker ends.                *)

\* A worker re-admitted by the schedule has no barrier above it.
Released(t, p) ==
  \/ card[t][p - 1] \in {"done", "archived"}
  \/ admitted[t] /\ p = 1

LateCardShows(t, p) ==
  /\ card[t][p] = "late"
  /\ \E status \in {"todo", "none"} : card' = [card EXCEPT ![t][p] = status]
  /\ UNCHANGED <<kind, active, admitted, marker, expected, job, faults, cancelled>>

Claim(t, p) ==
  /\ card[t][p] = "todo"
  /\ Released(t, p)
  /\ card' = [card EXCEPT ![t][p] = "running"]
  /\ active' = [active EXCEPT ![t][p] = TRUE]
  /\ UNCHANGED <<kind, admitted, marker, expected, job, faults, cancelled>>

WorkerEnds(t, p) ==
  /\ active[t][p]
  /\ active' = [active EXCEPT ![t][p] = FALSE]
  /\ \E status \in {"done", "blocked"} :
       card' = [card EXCEPT ![t][p] = IF @ = "running" THEN status ELSE @]
  /\ UNCHANGED <<kind, admitted, marker, expected, job, faults, cancelled>>

\* An operator resolves a blocked card.
Unblock(t, p) ==
  /\ card[t][p] = "blocked"
  /\ card' = [card EXCEPT ![t][p] = "todo"]
  /\ UNCHANGED <<kind, active, admitted, marker, expected, job, faults, cancelled>>

-----------------------------------------------------------------------------
(* Properties of the registration.                                          *)

\* A marker that neither a reconciliation nor a cancellation reads.
Unseen(t) == PlaceOf(t) # Project /\ marker[PlaceOf(t)].tick = t

Claimed(t, p) == card[t][p] \in {"running", "done", "blocked"} \/ active[t][p]

\* No worker of a chain runs before the whole chain stands and its commit is decided: a
\* claimed card of a registration that was not re-admitted has its barrier completed, every
\* card of the chain was created, and the expected phases are recorded
\* (kanban_tasks.py:1048-1227).  Not so where a cancellation archives the parents of a card
\* whose marker it cannot see, under the worktree of a pinned run.
ReleasedMeansCommitted ==
  \A t \in Ticks : \A p \in 1..NPhases :
    Claimed(t, p) /\ ~admitted[t] /\ ~(Barrier(t) = "archived" /\ Unseen(t)) =>
      /\ Barrier(t) \in {"done", "archived"}
      /\ \A q \in 1..Chain(t) : card[t][q] \notin {"none", "late"}
      /\ expected[PlaceOf(t)] # "none"

\* Whatever a failed or dead registration left on the board is named by its marker: a card
\* that is there, or may still show up, of a chain whose barrier is not done, is at or below
\* the position the marker of its directory names, unless a job is at work
\* (kanban_tasks.py:922-1045).
OrphansAreNamed ==
  \A t \in Ticks : \A p \in Positions :
    /\ Free
    /\ t \notin cancelled /\ ~admitted[t]
    /\ card[t][p] \in Live \cup {"late"}
    /\ Barrier(t) # "done"
    => /\ marker[PlaceOf(t)].tick = t
       /\ p <= marker[PlaceOf(t)].upto

\* A confirmed cancellation leaves nothing on the board and nobody at work, provided that the
\* directory of the chain holds no marker (kanban_tasks.py:1785-1910).
CancelledMeansStopped ==
  \A t \in cancelled :
    marker[PlaceOf(t)].tick # t =>
      \A p \in Positions : card[t][p] \notin Live /\ ~active[t][p]
=============================================================================
