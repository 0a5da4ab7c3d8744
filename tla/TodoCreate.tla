---------------------------- MODULE TodoCreate ----------------------------
(***************************************************************************)
(* `tpo todos create` (src/hermes_pipeline/todos_create.py): one approved  *)
(* request, kept on disk until it succeeds, becomes one GitHub issue with  *)
(* an embedded Plan.  The issue is created incomplete and the Plan, which  *)
(* names the issue's number, is written into it afterwards; labels that    *)
(* offer it to agents come last.  Every command on GitHub may fail, may    *)
(* take effect and report a failure, or take effect later; the process may *)
(* die between any two; people change the issue meanwhile.  An operator    *)
(* reruns the identical request, which finds the issue by its marker.      *)
(*                                                                         *)
(* The lock of the state directory admits one process at a time, so there  *)
(* is one here, and its crash releases the lock.                           *)
(***************************************************************************)
EXTENDS Integers, FiniteSets, FiniteSetsExt

CONSTANTS
  MaxIssues,   \* issues that carry the request's marker
  MaxFaults,   \* commands that fail (bound)
  MaxCrashes,  \* processes that die (bound)
  MaxActs      \* what people do to the issues and the repository (bound)

ASSUME TodoCreateAssumption ==
  /\ MaxFaults \in Nat /\ MaxCrashes \in Nat /\ MaxActs \in Nat
  /\ MaxIssues \in Nat /\ MaxIssues > MaxFaults + MaxCrashes

VARIABLES
  request,   \* todo-create/<transaction>.json is on disk
  hold,      \* the request asks for an issue on hold
  create,    \* the process: [pc, n : the issue, seen : its labels as last known]
  issue,     \* issue[n] on GitHub, NoIssue before it exists
  late,      \* creations that nobody waits for any more and that have not landed yet
  faults, crashes, acts

createVars == <<request, hold, create, issue, late, faults, crashes, acts>>

Numbers == 1..MaxIssues
Labels == {"ready", "mirror", "extra", "triage", "info", "hold", "progress"}
Bodies == {"none", "fields", "final", "edited", "broken"}

NoIssue == [body |-> "none", labels |-> {}, open |-> FALSE, touched |-> FALSE]

\* What create_issue makes: the fields without a Plan, waiting for triage.
Created == [body |-> "fields", labels |-> {"triage"} \cup (IF hold THEN {"hold"} ELSE {}),
            open |-> TRUE, touched |-> FALSE]

Idle == [pc |-> "idle", n |-> 0, seen |-> {}]

CreateTypeOK ==
  /\ request \in BOOLEAN /\ hold \in BOOLEAN
  /\ create \in [pc : {"idle", "list", "create", "relist", "fetch", "body", "check", "label",
                       "edit", "final"},
                 n : 0..MaxIssues, seen : SUBSET Labels]
  /\ issue \in [Numbers -> [body : Bodies, labels : SUBSET Labels, open : BOOLEAN,
                            touched : BOOLEAN]]
  /\ late \in 0..MaxIssues
  /\ faults \in 0..MaxFaults /\ crashes \in 0..MaxCrashes /\ acts \in 0..MaxActs

CreateInit ==
  /\ request = FALSE
  /\ hold \in BOOLEAN
  /\ create = Idle
  /\ issue = [i \in Numbers |-> NoIssue]
  /\ late = 0
  /\ faults = 0 /\ crashes = 0 /\ acts = 0

-----------------------------------------------------------------------------
(* Helpers.                                                                *)

Fails == faults < MaxFaults /\ faults' = faults + 1
Dies == crashes < MaxCrashes /\ crashes' = crashes + 1
Acts == acts < MaxActs /\ acts' = acts + 1
bounds == <<faults, crashes, acts>>

\* _matching_issues: the issues with the request's marker, in any state.
Matching == {i \in Numbers : issue[i].body # "none"}
NewNumber == Cardinality(Matching) + 1
Room == Cardinality(Matching) + late < MaxIssues

At(pc) == create.pc = pc
Goes(pc) == create' = [create EXCEPT !.pc = pc]
Target == issue[create.n]
Exits == create' = Idle

\* A command fails, or the process does not accept what it read; the request stays.
GivesUp == Exits /\ UNCHANGED <<request, hold, issue, late>>
CommandFails == Fails /\ GivesUp /\ UNCHANGED <<crashes, acts>>

\* assert_hold: a missing hold is somebody's decision, never put back and never overlooked.
HoldStands(i) == hold => "hold" \in issue[i].labels

\* assert_fresh, and the same look after the body was written.
Fresh(i) == HoldStands(i) /\ issue[i].open /\ issue[i].body = "final"

-----------------------------------------------------------------------------
(* The command.                                                            *)

\* The approved request is made durable before anything remote (persist_create_request); the
\* operator may name the issue of a partial result.
Requests ==
  /\ At("idle")
  /\ request' = TRUE
  /\ \E n \in Matching \cup {0} : create' = [Idle EXCEPT !.pc = "list", !.n = n]
  /\ UNCHANGED <<hold, issue, late, bounds>>

\* Mutant: an issue that the operator names is not compared with the other matches.
Chosen_Named ==
  CASE create.n # 0  -> {create.n}
    [] Matching = {} -> {0}
    [] OTHER         -> IF Cardinality(Matching) > 1 THEN {} ELSE Matching

\* The issue to go on with, 0 to create it; nothing when the marker is not unique.
Chosen ==
  CASE Matching = {} -> {0} \cap {create.n}
    [] Cardinality(Matching) > 1 -> {}
    [] OTHER -> {i \in Matching : create.n \in {0, i}}

Lists ==
  /\ At("list")
  /\ \/ /\ 0 \in Chosen
        /\ Goes("create")
        /\ UNCHANGED <<request, hold, issue, late, bounds>>
     \/ /\ \E i \in Chosen \ {0} : create' = [create EXCEPT !.pc = "fetch", !.n = i]
        /\ UNCHANGED <<request, hold, issue, late, bounds>>
     \/ /\ Chosen = {}
        /\ GivesUp
        /\ UNCHANGED bounds
     \/ CommandFails

Creates ==
  /\ At("create")
  /\ \/ /\ Room
        /\ issue' = [issue EXCEPT ![NewNumber] = Created]
        /\ \/ /\ create' = [create EXCEPT !.pc = "fetch", !.n = NewNumber]
              /\ UNCHANGED faults
           \/ /\ Fails
              /\ Goes("relist")
        /\ UNCHANGED late
     \/ /\ Fails
        /\ late' \in {late, late + 1} /\ (late' > late => Room)
        /\ Goes("relist")
        /\ UNCHANGED issue
  /\ UNCHANGED <<request, hold, crashes, acts>>

\* After a failed creation the marker is looked for again.
Relists ==
  /\ At("relist")
  /\ \/ /\ Cardinality(Matching) = 1
        /\ create' = [create EXCEPT !.pc = "fetch", !.n = Min(Matching)]
        /\ UNCHANGED <<request, hold, issue, late, bounds>>
     \/ /\ Cardinality(Matching) # 1
        /\ GivesUp
        /\ UNCHANGED bounds
     \/ CommandFails

\* Mutant: a body that holds the Plan already is somebody's edit.
Rendered_Fields == {"fields"}

\* The bodies the request renders to, without the Plan and with it.
Rendered == {"fields", "final"}

\* Anything but the two bodies the request renders to is somebody's edit.
Fetches ==
  /\ At("fetch")
  /\ \/ /\ HoldStands(create.n) /\ Target.open /\ Target.body \in Rendered
        /\ \/ Target.body = "fields" /\ Goes("body")
           \/ Target.body = "final" /\ Goes("check")
        /\ UNCHANGED <<request, hold, issue, late, bounds>>
     \/ /\ ~(HoldStands(create.n) /\ Target.open /\ Target.body \in Rendered)
        /\ GivesUp
        /\ UNCHANGED bounds
     \/ CommandFails

\* update_issue_body has no condition: it also replaces an edit made since the fetch.
WritesBody ==
  /\ At("body")
  /\ \/ /\ issue' = [issue EXCEPT ![create.n].body = "final"]
        /\ \/ Goes("check") /\ UNCHANGED faults
           \/ Exits /\ Fails
        /\ UNCHANGED <<request, hold, late, crashes, acts>>
     \/ CommandFails

\* The look after the body was written and the audit of what it finds; the labels seen here are
\* updated from now on by what the process does itself.
Checks ==
  /\ At("check")
  /\ \/ /\ Fresh(create.n)
        /\ create' = [create EXCEPT !.pc = "label", !.seen = Target.labels]
        /\ UNCHANGED <<request, hold, issue, late, bounds>>
     \/ /\ ~Fresh(create.n)
        /\ GivesUp
        /\ UNCHANGED bounds
     \/ CommandFails

\* Mutant: the issue is taken out of triage first.
Order_TriageFirst == << <<"remove", "triage">>, <<"add", "ready">>, <<"add", "mirror">>, <<"remove", "extra">> >>

\* The labels that mirror the body, the one that offers the issue, the mirror labels that are
\* wrong, and triage last.
Order == << <<"add", "mirror">>, <<"add", "ready">>, <<"remove", "extra">>, <<"remove", "triage">> >>

Pending(edit) == IF edit[1] = "add" THEN edit[2] \notin create.seen ELSE edit[2] \in create.seen
Left == {k \in DOMAIN Order : Pending(Order[k])}
Edit == Order[Min(Left)]
Edited(labels) == IF Edit[1] = "add" THEN labels \cup {Edit[2]} ELSE labels \ {Edit[2]}

\* Before each edit the issue is looked at again.
Asserts ==
  /\ At("label")
  /\ \/ /\ Left = {}
        /\ Goes("final")
        /\ UNCHANGED <<request, hold, issue, late, bounds>>
     \/ /\ Left # {} /\ Fresh(create.n)
        /\ Goes("edit")
        /\ UNCHANGED <<request, hold, issue, late, bounds>>
     \/ /\ Left # {} /\ ~Fresh(create.n)
        /\ GivesUp
        /\ UNCHANGED bounds
     \/ Left # {} /\ CommandFails

EditsLabel ==
  /\ At("edit")
  /\ \/ /\ issue' = [issue EXCEPT ![create.n].labels = Edited(@)]
        /\ \/ create' = [create EXCEPT !.pc = "label", !.seen = Edited(@)] /\ UNCHANGED faults
           \/ Exits /\ Fails
        /\ UNCHANGED <<request, hold, late, crashes, acts>>
     \/ CommandFails

\* The final audit; only a complete issue lets the request go.
Complete(i) ==
  /\ issue[i].open /\ issue[i].body = "final"
  /\ {"mirror", "ready"} \subseteq issue[i].labels
  /\ {"triage", "info", "extra"} \cap issue[i].labels = {}

Finishes ==
  /\ At("final")
  /\ \/ /\ HoldStands(create.n) /\ Complete(create.n)
        /\ request' = FALSE
        /\ Exits
        /\ UNCHANGED <<hold, issue, late, bounds>>
     \/ /\ ~(HoldStands(create.n) /\ Complete(create.n))
        /\ GivesUp
        /\ UNCHANGED bounds
     \/ CommandFails

\* A process that dies while it creates may have sent the creation.
CreateDies ==
  /\ ~At("idle")
  /\ Dies
  /\ Exits
  /\ late' \in {late, late + 1} /\ (late' > late => At("create") /\ Room)
  /\ UNCHANGED <<request, hold, issue, faults, acts>>

CreateStep ==
  \/ Lists \/ Creates \/ Relists \/ Fetches \/ WritesBody
  \/ Checks \/ Asserts \/ EditsLabel \/ Finishes

-----------------------------------------------------------------------------
(* GitHub and the people who use it.                                       *)

\* A creation lands, or shows in the listing, after its command was given up.
LateLands ==
  /\ late > 0
  /\ late' = late - 1
  /\ issue' = [issue EXCEPT ![NewNumber] = Created]
  /\ UNCHANGED <<request, hold, create, bounds>>

\* People edit an issue (well or so that its Plan no longer parses), lift or set its hold, put
\* a label on it, close it.  They leave the marker in the body.
PersonChanges(i) ==
  /\ issue[i].body # "none"
  /\ Acts
  /\ \E change \in {[issue[i] EXCEPT !.body = "edited"], [issue[i] EXCEPT !.body = "broken"],
                    [issue[i] EXCEPT !.labels = @ \cup {"extra"}], [issue[i] EXCEPT !.open = FALSE],
                    [issue[i] EXCEPT !.labels = IF "hold" \in @ THEN @ \ {"hold"} ELSE @ \cup {"hold"}]} :
       issue' = [issue EXCEPT ![i] = [change EXCEPT !.touched = TRUE]]
  /\ UNCHANGED <<request, hold, create, late, faults, crashes>>

-----------------------------------------------------------------------------
(* What the rest of the pipeline sees.                                     *)

\* Open, ready and not waiting for triage: what keeps the issue from a tick is its hold, if any.
Released(i) ==
  /\ issue[i].open /\ "ready" \in issue[i].labels
  /\ {"triage", "info"} \cap issue[i].labels = {}

\* _status_reason finds nothing against the issue.
Offered(i) == Released(i) /\ {"hold", "progress"} \cap issue[i].labels = {}

=============================================================================
