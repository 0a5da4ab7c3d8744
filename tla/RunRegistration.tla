-------------------------- MODULE RunRegistration --------------------------
(***************************************************************************)
(* The registration of a run with an embedded Plan                         *)
(* (src/hermes_pipeline/run_registration.py, register_pinned_run, and what *)
(* _tick_project in cli.py does around it), composed with the creation of  *)
(* the issues it selects.  A tick pins the issue as it was listed and the  *)
(* HEAD of the project, writes the Plan and then the registration into the *)
(* run's directory, and only then looks for the run's branch and worktree. *)
(* It may die after any of these; the next run of the issue finds the      *)
(* registrations, the branch and the worktree of the runs before it.       *)
(*                                                                         *)
(* All issues of one request name the same branch, and each has a worktree *)
(* of its own.  Ticks recur under the project's lock, one at a time        *)
(* (module TickLock).                                                      *)
(***************************************************************************)
EXTENDS TodoCreate

CONSTANTS
  MaxRuns,   \* run directories (bound)
  MaxHeads   \* commits that HEAD of the project reaches (bound)

ASSUME RunRegistrationAssumption == MaxRuns \in Nat \ {0} /\ MaxHeads \in Nat \ {0}

VARIABLES
  tick,      \* the tick under way: [pc, id : its run, issue, body, base]
  main,      \* HEAD of the project directory
  branch,    \* the request's branch, here and on origin: [base, by : the runs with commits on it]
  tree,      \* tree[i], the worktree of issue i: [made, dirt : the runs that left changes]
  plan,      \* plan[t], runs/<t>/plan.md
  run,       \* run[t], runs/<t>/registration.json and its state, with what it pins
  started    \* runs whose cards exist

runVars == <<tick, main, branch, tree, plan, run, started>>
vars == <<createVars, runVars>>

Runs == 1..MaxRuns
Plans == {"final", "edited"}

IdleTick == [pc |-> "idle", id |-> 0, issue |-> 0, body |-> "none", base |-> 0]
NoBranch == [base |-> 0, by |-> {}]
NoTree == [made |-> FALSE, dirt |-> {}]
NoRun == [state |-> "none", issue |-> 0, body |-> "none", base |-> 0]

TypeOK ==
  /\ CreateTypeOK
  /\ tick \in [pc : {"idle", "begin", "demote", "inform", "plan", "pins", "tree", "bind",
                     "abandon", "claim"},
               id : 0..MaxRuns, issue : 0..MaxIssues, body : Bodies, base : 0..MaxHeads]
  /\ main \in 1..MaxHeads
  /\ branch \in [base : 0..MaxHeads, by : SUBSET Runs]
  /\ tree \in [Numbers -> [made : BOOLEAN, dirt : SUBSET Runs]]
  /\ plan \in [Runs -> Bodies]
  /\ run \in [Runs -> [state : {"none", "active", "abandoned"}, issue : 0..MaxIssues,
                       body : Bodies, base : 0..MaxHeads]]
  /\ started \subseteq Runs

Init ==
  /\ CreateInit
  /\ tick = IdleTick
  /\ main = 1
  /\ branch = NoBranch
  /\ tree = [i \in Numbers |-> NoTree]
  /\ plan = [t \in Runs |-> "none"]
  /\ run = [t \in Runs |-> NoRun]
  /\ started = {}

-----------------------------------------------------------------------------
(* Helpers.                                                                *)

TickAt(pc) == tick.pc = pc
TickGoes(pc) == tick' = [tick EXCEPT !.pc = pc]
TickEnds == tick' = IdleTick

Active(t) == run[t].state = "active"

\* unresolved_execution_runs, and the run of the prior tick, which is in flight.
UnresolvedRuns == {t \in Runs : Active(t)}

\* The next tick id, one whose run directory is empty.
Unused == {t \in Runs : plan[t] = "none"}

\* A command of the tick fails, whether or not it took effect.
TickFails == Fails /\ UNCHANGED <<crashes, acts>>

\* What a tick leaves alone on its way to the start of the run.
others == <<request, hold, create, late>>

\* _branch_registered_for_issue: an earlier run of the same issue, in any state, pinned it.
RegisteredFor(i) == \E t \in Runs : run[t].issue = i

\* _validate_branch: a branch that this issue did not register is somebody else's.
BranchRefused == branch # NoBranch /\ ~RegisteredFor(tick.issue)

-----------------------------------------------------------------------------
(* A tick that selects, registers and starts a run.                        *)

\* The issue as it is listed now: no run is unresolved, its labels offer it and its body holds
\* a Plan that parses.
Selects ==
  /\ TickAt("idle")
  /\ UnresolvedRuns = {}
  /\ Unused # {}
  /\ \E i \in Numbers :
       /\ Offered(i) /\ issue[i].body \in Plans
       /\ tick' = [IdleTick EXCEPT !.pc = "begin", !.id = Min(Unused), !.issue = i,
                                !.body = issue[i].body]
  /\ UNCHANGED <<createVars, main, branch, tree, plan, run, started>>

\* HEAD is pinned, unless the branch is refused.
Begins ==
  /\ TickAt("begin")
  /\ IF BranchRefused
     THEN TickGoes("demote")
     ELSE tick' = [tick EXCEPT !.pc = "plan", !.base = main]
  /\ UNCHANGED <<createVars, main, branch, tree, plan, run, started>>

\* _demote_issue, best effort: it stops at the first command that fails.
RelabelsFor(pc, labels, next) ==
  /\ TickAt(pc)
  /\ \/ issue' = [issue EXCEPT ![tick.issue].labels = labels] /\ UNCHANGED bounds /\ next
     \/ /\ issue' \in {issue, [issue EXCEPT ![tick.issue].labels = labels]}
        /\ TickFails /\ TickEnds
  /\ UNCHANGED <<others, main, branch, tree, plan, run, started>>

Demotes == RelabelsFor("demote", issue[tick.issue].labels \ {"ready"}, TickGoes("inform"))
Informs == RelabelsFor("inform", issue[tick.issue].labels \cup {"info"}, TickEnds)

\* _materialize_embedded_artifact: plan.md appears whole or not at all.
WritesPlan ==
  /\ TickAt("plan")
  /\ \/ plan' = [plan EXCEPT ![tick.id] = tick.body] /\ TickGoes("pins") /\ UNCHANGED bounds
     \/ TickFails /\ TickEnds /\ UNCHANGED plan
  /\ UNCHANGED <<others, issue, main, branch, tree, run, started>>

Pinned == [state |-> "active", issue |-> tick.issue, body |-> tick.body, base |-> tick.base]

\* _write_registration_at: from here on the run is active.
WritesRegistration ==
  /\ TickAt("pins")
  /\ \/ /\ run' = [run EXCEPT ![tick.id] = Pinned]
        /\ TickGoes("tree")
        /\ UNCHANGED bounds
     \/ TickFails /\ TickEnds /\ UNCHANGED run
  /\ UNCHANGED <<others, issue, main, branch, tree, plan, started>>

\* Mutant: the branch is checked by its name alone.
TipIsBase_Named == TRUE

\* The branch stands at the pinned base, without a commit of an earlier run.
TipIsBase == branch = [base |-> tick.base, by |-> {}]

\* A worktree that exists must be the run's branch at the pinned base, and clean.
ValidatesTree ==
  /\ TickAt("tree")
  /\ tree[tick.issue].made
  /\ TickGoes(IF TipIsBase /\ tree[tick.issue].dirt = {} THEN "bind" ELSE "abandon")
  /\ UNCHANGED <<createVars, main, branch, tree, plan, run, started>>

\* git refuses a branch that another worktree has checked out.
MayAdd == branch = NoBranch \/ (TipIsBase /\ \A i \in Numbers : ~tree[i].made)

\* A worktree that does not is added, with the branch if need be; an add that fails may leave
\* the branch, or both, behind.
CreatesTree ==
  /\ TickAt("tree")
  /\ ~tree[tick.issue].made
  /\ LET made == [base |-> tick.base, by |-> {}]
         added == [tree EXCEPT ![tick.issue].made = TRUE]
     IN \/ /\ MayAdd
           /\ branch' = made /\ tree' = added
           /\ \/ TickGoes("bind") /\ UNCHANGED bounds
              \/ TickGoes("abandon") /\ TickFails
        \/ /\ MayAdd
           /\ branch' \in {branch, made} /\ UNCHANGED tree
           /\ TickGoes("abandon") /\ TickFails
        \/ /\ ~MayAdd
           /\ TickGoes("abandon")
           /\ UNCHANGED <<branch, tree, bounds>>
  /\ UNCHANGED <<others, issue, main, plan, run, started>>

\* load_validated_registration: the worktree and the artifact that the registration names.
ReadsBack == tree[tick.issue].made /\ plan[tick.id] = run[tick.id].body

\* The registration is read back, the prompts are rendered, the executions are bound and the
\* cards created (module ProjectTick has their steps).  A failure gives the run up, but for one
\* of the cards, after which it stays active.
Binds ==
  /\ TickAt("bind")
  /\ \/ /\ ReadsBack
        /\ started' = started \cup {tick.id}
        /\ TickGoes("claim")
        /\ UNCHANGED bounds
     \/ TickFails /\ (TickGoes("abandon") \/ TickEnds) /\ UNCHANGED started
  /\ UNCHANGED <<others, issue, main, branch, tree, plan, run>>

\* Best effort.
Claims == RelabelsFor("claim", issue[tick.issue].labels \cup {"progress"}, TickEnds)

\* abandon_run_if_registered.
Abandons ==
  /\ TickAt("abandon")
  /\ run' = [run EXCEPT ![tick.id].state = "abandoned"]
  /\ TickEnds
  /\ UNCHANGED <<createVars, main, branch, tree, plan, started>>

TickDies ==
  /\ ~TickAt("idle")
  /\ Dies
  /\ TickEnds
  /\ UNCHANGED <<others, issue, faults, acts, main, branch, tree, plan, run, started>>

TickStep ==
  \/ Selects \/ Begins \/ Demotes \/ Informs \/ WritesPlan \/ WritesRegistration
  \/ ValidatesTree \/ CreatesTree \/ Binds \/ Claims \/ Abandons \/ TickDies

-----------------------------------------------------------------------------
(* The run's workers and the people around it.                             *)

\* A worker of the run changes files and commits.
Works(t) ==
  /\ Active(t) /\ t \in started
  /\ \/ tree' = [tree EXCEPT ![run[t].issue].dirt = @ \cup {t}] /\ UNCHANGED branch
     \/ /\ branch' = [branch EXCEPT !.by = @ \cup {t}]
        /\ tree' = [tree EXCEPT ![run[t].issue].dirt = {}]
  /\ UNCHANGED <<createVars, tick, main, plan, run, started>>

\* The operator gives up on a run (touch runs/<t>/abandoned) whose tick and workers are gone.
OperatorAbandons(t) ==
  /\ Active(t)
  /\ TickAt("idle") \/ tick.id # t
  /\ run' = [run EXCEPT ![t].state = "abandoned"]
  /\ UNCHANGED <<createVars, tick, main, branch, tree, plan, started>>

\* Between runs the operator cleans the worktree of an issue, or removes it, or also the branch.
OperatorCleans(i) ==
  /\ UnresolvedRuns = {}
  /\ \/ tree' = [tree EXCEPT ![i].dirt = {}] /\ UNCHANGED branch
     \/ /\ tree' = [tree EXCEPT ![i] = NoTree]
        /\ branch' \in {branch, NoBranch}
        /\ branch' = NoBranch => \A j \in Numbers \ {i} : ~tree[j].made
  /\ UNCHANGED <<createVars, tick, main, plan, run, started>>

\* An issue that was demoted, or whose run was given up, is offered again.
PersonOffers(i) ==
  /\ {"info", "progress"} \cap issue[i].labels # {}
  /\ UnresolvedRuns = {}
  /\ issue' = [issue EXCEPT ![i].labels = (@ \ {"info", "progress"}) \cup {"ready"}]
  /\ UNCHANGED <<others, bounds, runVars>>

\* Somebody merges into the project's HEAD, or creates the branch.
PersonMovesHead ==
  /\ Acts /\ main < MaxHeads
  /\ main' = main + 1
  /\ UNCHANGED <<others, issue, faults, crashes, tick, branch, tree, plan, run, started>>

PersonBranches ==
  /\ Acts /\ branch = NoBranch
  /\ branch' = [base |-> main, by |-> {}]
  /\ UNCHANGED <<others, issue, faults, crashes, tick, main, tree, plan, run, started>>

-----------------------------------------------------------------------------

CreateNext == (Requests \/ CreateStep \/ CreateDies \/ LateLands
                 \/ \E i \in Numbers : PersonChanges(i)) /\ UNCHANGED runVars

Next ==
  \/ CreateNext
  \/ TickStep
  \/ \E t \in Runs : Works(t) \/ OperatorAbandons(t)
  \/ \E i \in Numbers : OperatorCleans(i) \/ PersonOffers(i)
  \/ PersonMovesHead \/ PersonBranches

Spec == Init /\ [][Next]_vars

\* The process goes on, and the operator reruns a request that is still on disk.
Fairness ==
  /\ WF_vars(CreateStep /\ UNCHANGED runVars)
  /\ WF_vars(request /\ Requests /\ UNCHANGED runVars)

FairSpec == Spec /\ Fairness

-----------------------------------------------------------------------------
(* Properties.                                                             *)

\* However often the creation is rerun, late or dead in between, agents are never offered two
\* issues of one request (todos_create.py:361-380).
OneReleasedIssue ==
  \A i, j \in Numbers : Released(i) /\ Released(j) => i = j

\* An issue nobody touched is never offered half made: what a tick may select holds its Plan
\* and its mirror labels, and the hold that the request asks for (todos_create.py:396-440).
ReleasedIsComplete ==
  \A i \in Numbers :
    Released(i) /\ ~issue[i].touched =>
      /\ issue[i].body = "final"
      /\ "mirror" \in issue[i].labels
      /\ HoldStands(i)

\* A run that started and is not given up stands on what its registration pins: the Plan of the
\* listed issue, and a worktree on the branch at the pinned base with no work but its own,
\* whatever the runs before it left (run_registration.py:499-560).
StandsOnItsPins ==
  \A t \in started :
    Active(t) =>
      /\ plan[t] = run[t].body
      /\ tree[run[t].issue].made /\ tree[run[t].issue].dirt \subseteq {t}
      /\ branch.base = run[t].base /\ branch.by \subseteq {t}

\* A request that people leave alone is carried out by rerunning it, wherever a process died or
\* a command failed; only a second issue with its marker, or an issue a tick demoted, stops it.
RequestConverges ==
  request ~> \/ ~request
             \/ Cardinality(Matching) > 1
             \/ \E i \in Matching : issue[i].touched \/ "info" \in issue[i].labels

=============================================================================
