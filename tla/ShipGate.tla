------------------------------ MODULE ShipGate ------------------------------
(***************************************************************************)
(* The legacy ship gate (ship.py): a run whose profile ends in a blocked   *)
(* gate card is shipped by a person with `tpo approve`, which bumps the    *)
(* version on the run's branch, waits for CI, and squash-merges the pull   *)
(* request at the head its sidecar file records.                           *)
(*                                                                         *)
(* Approvers exclude each other with a kernel lock that dies with them;    *)
(* the sidecar, the gate card, the project's working tree and the branch   *)
(* outlive them.  An approval dies or has a command fail at any step and   *)
(* is run again.                                                           *)
(***************************************************************************)
EXTENDS PullRequest

CONSTANTS Approvers, None

ASSUME ShipGateAssumption == None \notin Approvers

VARIABLES
  gate,      \* the gate card: "none", "blocked", "done"
  sidecar,   \* <tick>-ship.json
  tree,      \* the project's working tree: "clean", "dirty"
  on,        \* the branch checked out: "base", "work"
  owner,     \* who holds approve.lock
  approval,  \* approval[a] : the approve command of a
  forced,    \* an approval went on in spite of a head nobody reviewed
  local,     \* somebody committed on the local branch, or pulled under an approval
  ready,     \* the head the tick found ready to ship
  mergedBy   \* who merged the pull request: "none", "gate", "person"

sVars == <<gate, sidecar, tree, on, owner, approval, forced, local, ready, mergedBy>>

NoSidecar == [there |-> FALSE, head |-> <<>>, bumped |-> FALSE]
Sidecars == [there : BOOLEAN, head : Heads, bumped : BOOLEAN]

NoApproval == [pc |-> "idle", sc |-> NoSidecar, orig |-> "base", force |-> FALSE]
ApprovePcs == {"idle", "view", "checkout", "edit", "commit", "push", "restore", "persist", "ci", "merge",
        "complete", "delete"}

GateTypeOK ==
  /\ gate \in {"none", "blocked", "done"}
  /\ sidecar \in Sidecars
  /\ tree \in {"clean", "dirty"}
  /\ on \in {"base", "work"}
  /\ owner \in Approvers \cup {None}
  /\ approval \in [Approvers -> [pc : ApprovePcs, sc : Sidecars, orig : {"base", "work"}, force : BOOLEAN]]
  /\ forced \in BOOLEAN
  /\ local \in BOOLEAN
  /\ ready \in Heads
  /\ mergedBy \in {"none", "gate", "person"}

GateAtRest ==
  /\ sidecar = NoSidecar
  /\ tree = "clean" /\ on = "base"
  /\ owner = None
  /\ approval = [a \in Approvers |-> NoApproval]
  /\ forced = FALSE /\ local = FALSE
  /\ ready = <<>>
  /\ mergedBy = "none"

\* A run whose profile has no gate.
NoGateInit == gate = "none" /\ GateAtRest

\* Every phase before the gate is done: the branch is pushed and its pull request open.
GateInit ==
  /\ branch = <<"finish">> /\ remote = <<"finish">>
  /\ pr = [state |-> "open", head |-> <<>>]
  /\ ci = Running
  /\ moves = 0 /\ faults = 0
  /\ gate = "blocked"
  /\ GateAtRest

-----------------------------------------------------------------------------
(* Helpers.                                                                *)

Doing(a, pc) == approval[a].pc = pc
Proceeds(a, pc) == approval' = [approval EXCEPT ![a].pc = pc]

\* The command returns, refused or not; leaving it drops the lock.
Quits(a) ==
  /\ approval' = [approval EXCEPT ![a] = NoApproval]
  /\ owner' = None

\* bump_in_pr checks out the branch it found, also when a step of it failed; that this
\* fails too is only logged.
LeavesBranch(a) == on' \in {on, approval[a].orig}

GivesUp(a) ==
  /\ Fails
  /\ LeavesBranch(a)
  /\ Quits(a)

CountOf(commit, h) == Cardinality({i \in 1..Len(h) : h[i] = commit})

-----------------------------------------------------------------------------
(* The tick.                                                               *)

\* maybe_ship_ready: the head of this moment is what counts as reviewed.
DetectsReady ==
  /\ ~sidecar.there
  /\ gate = "blocked"
  /\ sidecar' = [there |-> TRUE, head |-> PrHead, bumped |-> FALSE]
  /\ ready' = PrHead
  /\ UNCHANGED <<prVars, gate, tree, on, owner, approval, forced, local, mergedBy>>

-----------------------------------------------------------------------------
(* approve_ship.                                                           *)

\* The lock is taken without waiting, then the sidecar is read.
Approves(a, force) ==
  /\ Doing(a, "idle")
  /\ owner = None
  /\ sidecar.there /\ gate # "none"
  /\ owner' = a
  /\ approval' = [approval EXCEPT ![a] = [NoApproval EXCEPT !.pc = "view", !.sc = sidecar, !.force = force]]
  /\ UNCHANGED <<prVars, gate, sidecar, tree, on, forced, local, ready, mergedBy>>

\* A dirty tree always refuses.  A head that is not the reviewed one refuses unless forced
\* twice, or unless the bump has made the sidecar's head its own.
CheckShipGuards(a) ==
  /\ tree = "clean"
  /\ approval[a].sc.bumped \/ PrHead = approval[a].sc.head \/ approval[a].force

\* A merge whose approval broke off is finished by the next one.
AlreadyShipped == pr.state = "merged"

ApproveViews(a) ==
  /\ Doing(a, "view")
  /\ \/ /\ AlreadyShipped
        /\ Proceeds(a, "complete")
        /\ UNCHANGED <<owner, forced>>
     \/ /\ ~AlreadyShipped
        /\ CheckShipGuards(a)
        /\ Proceeds(a, IF approval[a].sc.bumped THEN "ci" ELSE "checkout")
        /\ forced' = (forced \/ (approval[a].force /\ ~approval[a].sc.bumped /\ PrHead # approval[a].sc.head))
        /\ UNCHANGED owner
     \/ /\ ~AlreadyShipped
        /\ ~CheckShipGuards(a)
        /\ Quits(a)
        /\ UNCHANGED forced
  /\ UNCHANGED <<prVars, gate, sidecar, tree, on, local, ready, mergedBy>>

ChecksOut(a) ==
  /\ Doing(a, "checkout")
  /\ on' = "work"
  /\ approval' = [approval EXCEPT ![a].pc = "edit", ![a].orig = on]
  /\ UNCHANGED <<prVars, gate, sidecar, tree, owner, forced, local, ready, mergedBy>>

\* The manifests and the changelog are rewritten; a failure half way leaves the tree dirty.
EditsManifests(a) ==
  /\ Doing(a, "edit")
  /\ \/ tree' = "dirty" /\ Proceeds(a, "commit") /\ UNCHANGED <<on, owner, faults>>
     \/ GivesUp(a) /\ tree' \in {"clean", "dirty"}
  /\ UNCHANGED <<branch, remote, pr, ci, moves, gate, sidecar, forced, local, ready, mergedBy>>

CommitsBump(a) ==
  /\ Doing(a, "commit")
  /\ Len(branch) < MaxCommits
  /\ \/ /\ branch' = Append(branch, "bump")
        /\ tree' = "clean"
        /\ Proceeds(a, "push")
        /\ UNCHANGED <<on, owner, faults>>
     \/ GivesUp(a) /\ UNCHANGED <<branch, tree>>
  /\ UNCHANGED <<remote, pr, ci, moves, gate, sidecar, forced, local, ready, mergedBy>>

\* A push that is no fast-forward is rejected; one that times out may have gone through.
PushesBump(a) ==
  /\ Doing(a, "push")
  /\ \/ /\ IsPrefix(remote, branch)
        /\ SetRemote(branch)
        /\ \/ Proceeds(a, "restore") /\ UNCHANGED <<on, owner, faults>>
           \/ GivesUp(a)
     \/ /\ ~IsPrefix(remote, branch)
        /\ LeavesBranch(a)
        /\ Quits(a)
        /\ UNCHANGED <<remote, ci, faults>>
     \/ GivesUp(a) /\ UNCHANGED <<remote, ci>>
  /\ UNCHANGED <<branch, pr, moves, gate, sidecar, tree, forced, local, ready, mergedBy>>

\* The new head is read before the branch is left; the caller's sidecar takes it.
RestoresBranch(a) ==
  /\ Doing(a, "restore")
  /\ LeavesBranch(a)
  /\ approval' = [approval EXCEPT ![a].pc = "persist",
                                  ![a].sc = [there |-> TRUE, head |-> branch, bumped |-> TRUE]]
  /\ UNCHANGED <<prVars, gate, sidecar, tree, owner, forced, local, ready, mergedBy>>

\* Mutant: only the command's own copy is re-baselined.
PersistsSidecar_Not(a) ==
  /\ Doing(a, "persist")
  /\ Proceeds(a, "ci")
  /\ UNCHANGED <<prVars, gate, sidecar, tree, on, owner, forced, local, ready, mergedBy>>

PersistsSidecar(a) ==
  /\ Doing(a, "persist")
  /\ sidecar' = approval[a].sc
  /\ Proceeds(a, "ci")
  /\ UNCHANGED <<prVars, gate, tree, on, owner, forced, local, ready, mergedBy>>

\* Mutant: an empty rollup means that nothing gates.
CiAllows_Empty(a) == CiIsGreen(ci.states) \/ ci.states = {}

\* An empty rollup is green only if the commit to be merged proves that it has no gate.
CiAllows(a) ==
  \/ CiIsGreen(ci.states)
  \/ /\ ci.states = {}
     /\ CorroborateEmptyRollup(ci, PrHead, approval[a].sc.head)

ReadsCi(a) ==
  /\ Doing(a, "ci")
  /\ IF CiAllows(a)
     THEN Proceeds(a, "merge") /\ UNCHANGED owner
     ELSE Quits(a)
  /\ UNCHANGED <<prVars, gate, sidecar, tree, on, forced, local, ready, mergedBy>>

\* gh pr merge --match-head-commit: GitHub refuses a head that is not the one named.
MatchesHead(a) == PrHead = approval[a].sc.head

MergesSquash(a) ==
  /\ Doing(a, "merge")
  /\ \/ /\ pr.state = "open" /\ MatchesHead(a)
        /\ Merges
        /\ mergedBy' = "gate"
        /\ \/ Proceeds(a, "complete") /\ UNCHANGED <<owner, faults>>
           \/ Fails /\ Quits(a)
     \/ /\ ~(pr.state = "open" /\ MatchesHead(a))
        /\ Quits(a)
        /\ UNCHANGED <<pr, mergedBy, faults>>
     \/ Fails /\ Quits(a) /\ UNCHANGED <<pr, mergedBy>>
  /\ UNCHANGED <<branch, remote, ci, moves, gate, sidecar, tree, on, forced, local, ready>>

CompletesGate(a) ==
  /\ Doing(a, "complete")
  /\ \/ gate' = "done" /\ Proceeds(a, "delete") /\ UNCHANGED <<owner, faults>>
     \/ Fails /\ Quits(a) /\ gate' \in {gate, "done"}
  /\ UNCHANGED <<branch, remote, pr, ci, moves, sidecar, tree, on, forced, local, ready, mergedBy>>

DeletesSidecar(a) ==
  /\ Doing(a, "delete")
  /\ sidecar' = NoSidecar
  /\ Quits(a)
  /\ UNCHANGED <<prVars, gate, tree, on, forced, local, ready, mergedBy>>

ApproveStep(a) ==
  \/ ApproveViews(a) \/ ChecksOut(a) \/ EditsManifests(a) \/ CommitsBump(a) \/ PushesBump(a)
  \/ RestoresBranch(a) \/ PersistsSidecar(a) \/ ReadsCi(a) \/ MergesSquash(a)
  \/ CompletesGate(a) \/ DeletesSidecar(a)

\* The process dies: the kernel drops its lock, and the tree stays as it is.
Dies(a) ==
  /\ Fails
  /\ ~Doing(a, "idle")
  /\ Quits(a)
  /\ UNCHANGED <<branch, remote, pr, ci, moves, gate, sidecar, tree, on, forced, local, ready, mergedBy>>

-----------------------------------------------------------------------------
(* People.                                                                 *)

PersonMergesGated ==
  /\ Moves
  /\ pr.state = "open"
  /\ Merges
  /\ mergedBy' = "person"
  /\ UNCHANGED <<branch, remote, ci, faults, gate, sidecar, tree, on, owner, approval, forced, local, ready>>

\* The edits an approval left behind are thrown away; the tree is dirtied by other work.
PersonTouchesTree ==
  /\ Moves
  /\ tree' = IF tree = "dirty" THEN "clean" ELSE "dirty"
  /\ UNCHANGED <<branch, remote, pr, ci, faults, gate, sidecar, on, owner, approval, forced, local,
                 ready, mergedBy>>

\* The local branch is brought up to what origin has.
PersonPulls ==
  /\ IsStrictPrefix(branch, remote)
  /\ branch' = remote
  /\ local' = (local \/ owner # None)
  /\ UNCHANGED <<remote, pr, ci, moves, faults, gate, sidecar, tree, on, owner, approval, forced, ready,
                 mergedBy>>

PersonCommits ==
  /\ CommitsLocally
  /\ local' = TRUE
  /\ UNCHANGED <<gate, sidecar, tree, on, owner, approval, forced, ready, mergedBy>>

GateNext ==
  \/ DetectsReady
  \/ \E a \in Approvers : (\E force \in BOOLEAN : Approves(a, force)) \/ ApproveStep(a) \/ Dies(a)
  \/ (CiReports \/ PushesElsewhere \/ ClosesPr) /\ UNCHANGED sVars
  \/ PersonMergesGated \/ PersonTouchesTree \/ PersonPulls \/ PersonCommits

-----------------------------------------------------------------------------
(* Properties.                                                             *)

\* The gate merges only a head whose checks passed, by the rule delivery applies to the same
\* evidence: neither a rollup read before a push nor an empty one slips through.  Only a commit that
\* reaches the local branch between the push and the reading of the new head can: a rollup that
\* is not empty is never compared with the head it belongs to.
MergedPassed == mergedBy = "gate" /\ ~local => CheckState(ci) = "passed"

\* What the gate merges is the head the tick found ready and version bumps.  Commits that were
\* made on the local branch, or a head that was forced, are the two ways anything else gets in.
MergedReviewed ==
  mergedBy = "gate" /\ CountOf("other", pr.head) # CountOf("other", ready) => forced \/ local

\* Whatever happens between the tick that found a head ready and the merge, what the gate merges
\* was checked and is what was reviewed, but for the two gaps named above (ship.py:503).
GateMergesAccepted == MergedPassed /\ MergedReviewed

\* A version is bumped once; each bump more takes an approval that broke off between the commit
\* and the sidecar that remembers it.
BumpsAreAccounted == mergedBy = "gate" => CountOf("bump", pr.head) <= 1 + faults
=============================================================================
