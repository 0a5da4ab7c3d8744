------------------------ MODULE RunRegistration_proofs ------------------------
(***************************************************************************)
(* Theorems of RunRegistration, for any number of issues, runs, commits,   *)
(* faults, deaths and acts of people.                                      *)
(***************************************************************************)
EXTENDS RunRegistration, FiniteSetTheorems, WellFoundedInduction, TLAPS

-----------------------------------------------------------------------------
(* The creation's part of the inductive invariant.                         *)

Untriaged(i) == issue[i].body # "none" /\ "triage" \notin issue[i].labels

\* GitHub numbers the issues in their order, and late creations have room behind them.
Numbered ==
  \E k \in 0..MaxIssues : Matching = 1..k /\ k + late <= MaxIssues

\* A process that works on an issue works on one of them, and what it saw it saw there.
Working == {"fetch", "body", "check", "label", "edit", "final"}

\* One issue at most is out of triage, and a process that goes on with an issue goes on with that
\* one; while it creates, there is none.
OneUntriaged ==
  /\ \A i \in Numbers : issue[i].body = "none" => issue[i] = NoIssue
  /\ \A i, j \in Numbers : Untriaged(i) /\ Untriaged(j) => i = j
  /\ At("create") => \A i \in Numbers : ~Untriaged(i)
  /\ create.pc \in Working =>
       /\ create.n \in Matching
       /\ \A i \in Numbers : Untriaged(i) => i = create.n

\* What nobody touched keeps its hold, and is complete but for the labels yet to come: a process
\* past its check has written the body, and knows of no mirror label that is not there.
InOrder(i) ==
  ~issue[i].touched =>
    /\ HoldStands(i)
    /\ issue[i].body \in Rendered
    /\ Untriaged(i) => issue[i].body = "final" /\ "mirror" \in issue[i].labels
    /\ create.pc \in {"label", "edit", "final"} /\ create.n = i =>
         /\ issue[i].body = "final"
         /\ "mirror" \in create.seen => "mirror" \in issue[i].labels

MadeInOrder == \A i \in Matching : InOrder(i)

\* An edit is under way only when one is left.
EditIsLeft == At("edit") => Left # {}

CreateInv == CreateTypeOK /\ Numbered /\ OneUntriaged /\ MadeInOrder /\ EditIsLeft

-----------------------------------------------------------------------------
(* The registration's part of it.                                          *)

Before == {"begin", "demote", "inform", "plan", "pins"}
Registered == {"tree", "bind", "abandon"}

\* A run is active after its plan and its registration, and only one is: no tick selects while a
\* run is unresolved, and only a tick activates one.
RunsFollow ==
  /\ \A t \in Runs :
       IF run[t].state = "none" THEN run[t] = NoRun /\ t \notin started
       ELSE /\ plan[t] = run[t].body /\ run[t].body \in Plans
            /\ run[t].issue \in Numbers /\ run[t].base \in 1..MaxHeads
  /\ \A s, t \in UnresolvedRuns : s = t

\* What the tick holds while it prepares its run.
TickFollows ==
  /\ ~TickAt("idle") =>
       /\ tick.id \in Runs /\ tick.issue \in Matching /\ tick.body \in Plans
  /\ tick.pc \in Before => UnresolvedRuns = {} /\ run[tick.id].state = "none"
  /\ tick.pc \in {"begin", "plan"} => plan[tick.id] = "none"
  /\ tick.pc \in {"plan", "pins"} => tick.base \in 1..MaxHeads
  /\ TickAt("pins") => plan[tick.id] = tick.body
  /\ tick.pc \in Registered => run[tick.id] = Pinned /\ tick.id \notin started
  /\ TickAt("bind") => tree[tick.issue].made /\ tree[tick.issue].dirt = {} /\ TipIsBase

\* Work is left only in a worktree that is there.
WorkHasATree == \A i \in Numbers : ~tree[i].made => tree[i].dirt = {}

PinsInv == TypeOK /\ RunsFollow /\ TickFollows /\ WorkHasATree /\ StandsOnItsPins

RegistrationInv == CreateInv /\ PinsInv
-----------------------------------------------------------------------------
(* Numbers.                                                                *)

\* A non-empty set of numbers has a least one.
LEMMA Least ==
  ASSUME NEW S, S \subseteq Nat, S # {}
  PROVE  Min(S) \in S /\ \A y \in S : Min(S) =< y
<1>1. PICK x \in S : \A y \in S : <<y, x>> \notin OpToRel(<, Nat)
  BY WFMin, NatLessThanWellFounded, Zenon
<1>2. ASSUME NEW y \in S PROVE x =< y
  <2>1. ~(y < x)
    BY <1>1, <1>2, Zenon DEF OpToRel
  <2>2. QED
    BY <2>1
<1>3. QED
  BY <1>2, Zenon DEF Min

\* The next issue is the first number that no issue has, as long as one is left.
LEMMA NewIsNext ==
  ASSUME NEW k \in 0..MaxIssues, Matching = 1..k
  PROVE  /\ IsFiniteSet(Matching) /\ Cardinality(Matching) = k /\ NewNumber = k + 1
         /\ k = 1 => Min(Matching) = 1
<1>1. k \in Nat
  BY TodoCreateAssumption
<1>2. IsFiniteSet(1..k) /\ Cardinality(1..k) = IF 1 > k THEN 0 ELSE k - 1 + 1
  BY <1>1, FS_Interval
<1>3. ASSUME k = 1 PROVE Min(Matching) = 1
  <2>1. Min(1..k) \in 1..k
    BY <1>3, Least
  <2>2. QED
    BY <2>1, <1>3
<1>4. QED
  BY <1>1, <1>2, <1>3 DEF NewNumber

\* The edits come in their order: triage goes only after the mirror label was seen to be there.
LEMMA EditIs ==
  ASSUME Left # {}
  PROVE  \/ Edit \in {<<"add", "mirror">>, <<"add", "ready">>, <<"remove", "extra">>}
         \/ Edit = <<"remove", "triage">> /\ "mirror" \in create.seen
<1>1. Left \subseteq 1..4 /\ Left \subseteq Nat
  BY DEF Left, Order
<1>2. Min(Left) \in Left /\ \A k \in Left : Min(Left) =< k
  BY <1>1, Least
<1>3. Min(Left) \in 1..4
  BY <1>1, <1>2
<1>4. ASSUME "mirror" \notin create.seen PROVE Min(Left) = 1
  <2>1. 1 \in Left
    BY <1>4 DEF Left, Order, Pending
  <2>2. Min(Left) =< 1
    BY <2>1, <1>2
  <2>3. QED
    BY <2>2, <1>3
<1>5. CASE Min(Left) = 1
  BY <1>5 DEF Edit, Order
<1>6. CASE Min(Left) = 2
  BY <1>6 DEF Edit, Order
<1>7. CASE Min(Left) = 3
  BY <1>7 DEF Edit, Order
<1>8. CASE Min(Left) = 4
  <2>1. "mirror" \in create.seen
    BY <1>4, <1>8
  <2>2. QED
    BY <2>1, <1>8 DEF Edit, Order
<1>9. QED
  BY <1>3, <1>5, <1>6, <1>7, <1>8

\* The next run's directory is empty.
LEMMA UnusedId ==
  ASSUME Unused # {}
  PROVE  Min(Unused) \in Runs /\ plan[Min(Unused)] = "none"
<1>1. Unused \subseteq Nat
  BY RunRegistrationAssumption DEF Unused, Runs
<1>2. Min(Unused) \in Unused
  BY <1>1, Least
<1>3. QED
  BY <1>2 DEF Unused
-----------------------------------------------------------------------------
(* What steps do to issues.                                                *)

Issues == [body : Bodies, labels : SUBSET Labels, open : BOOLEAN, touched : BOOLEAN]

\* What an issue keeps while people and ticks change it: its marker, its triage, and, as long as
\* nobody touched it, what the creation made of it.
Kept(old, new) ==
  /\ new.body # "none"
  /\ "triage" \in new.labels <=> "triage" \in old.labels
  /\ ~new.touched => /\ ~old.touched /\ new.body = old.body
                     /\ "hold" \in new.labels <=> "hold" \in old.labels
                     /\ "mirror" \in new.labels <=> "mirror" \in old.labels

\* A step that is not the creation's.
Aside ==
  /\ UNCHANGED <<request, hold, create, late>>
  /\ issue' \in [Numbers -> Issues]
  /\ \A j \in Numbers :
       IF issue[j].body = "none" THEN issue'[j] = issue[j] ELSE Kept(issue[j], issue'[j])

\* GitHub has one more issue.
Adds ==
  /\ NewNumber \in Numbers \ Matching
  /\ issue' = [issue EXCEPT ![NewNumber] = Created]

LEMMA IssueTypes ==
  ASSUME CreateTypeOK
  PROVE  /\ issue \in [Numbers -> Issues]
         /\ \A i \in Numbers : /\ issue[i] \in Issues
                               /\ issue[i].labels \in SUBSET Labels /\ issue[i].body \in Bodies
         /\ create.n \in 0..MaxIssues /\ create.seen \in SUBSET Labels
         /\ late \in Nat /\ hold \in BOOLEAN /\ Created \in Issues
         /\ create = [pc |-> create.pc, n |-> create.n, seen |-> create.seen]
  BY TodoCreateAssumption DEF CreateTypeOK, Issues, Created, Labels, Bodies

\* New labels for one issue that exists are a step aside when they agree on the labels that the
\* creation answers for.
LEMMA RelabelIsAside ==
  ASSUME CreateTypeOK, UNCHANGED <<request, hold, create, late>>,
         NEW i \in Matching, NEW labels \in SUBSET Labels,
         \A label \in {"triage", "hold", "mirror"} : label \in labels <=> label \in issue[i].labels,
         issue' \in {issue, [issue EXCEPT ![i].labels = labels]}
  PROVE  Aside
<1>1. i \in Numbers
  BY DEF Matching
<1>2. CASE issue' = issue
  BY <1>2, IssueTypes DEF Aside, Kept
<1>3. CASE issue' = [issue EXCEPT ![i].labels = labels]
  <2>1. issue' \in [Numbers -> Issues]
    BY <1>1, <1>3, IssueTypes DEF Issues
  <2>2. \A j \in Numbers \ {i} : issue'[j] = issue[j]
    BY <1>3, IssueTypes
  <2>3. issue'[i].labels = labels /\ issue'[i].body = issue[i].body
        /\ issue'[i].touched = issue[i].touched
    BY <1>1, <1>3, IssueTypes DEF Issues
  <2>4. Kept(issue[i], issue'[i])
    BY <2>3 DEF Kept, Matching
  <2>5. QED
    BY <2>1, <2>2, <2>4 DEF Aside, Kept, Matching
<1>4. QED
  BY <1>2, <1>3

\* Ticks and people leave the creation alone.
LEMMA OthersAreAside ==
  ASSUME CreateTypeOK, OneUntriaged, TickFollows,
         \/ \E i \in Numbers : PersonChanges(i) \/ PersonOffers(i)
         \/ Demotes \/ Informs \/ Claims
         \/ UNCHANGED <<request, hold, create, issue, late>>
  PROVE  Aside
<1>1. ASSUME NEW i \in Numbers, PersonChanges(i) PROVE Aside
  <2>1. PICK change \in {[issue[i] EXCEPT !.body = "edited"], [issue[i] EXCEPT !.body = "broken"],
             [issue[i] EXCEPT !.labels = @ \cup {"extra"}], [issue[i] EXCEPT !.open = FALSE],
             [issue[i] EXCEPT !.labels = IF "hold" \in @ THEN @ \ {"hold"} ELSE @ \cup {"hold"}]} :
          issue' = [issue EXCEPT ![i] = [change EXCEPT !.touched = TRUE]]
    BY <1>1, Zenon DEF PersonChanges
  <2>2. issue[i] \in Issues /\ issue[i].body # "none"
    BY <1>1, IssueTypes DEF PersonChanges
  <2>3. /\ change \in Issues /\ change.body # "none"
        /\ "triage" \in change.labels <=> "triage" \in issue[i].labels
    <3>1. CASE change \in {[issue[i] EXCEPT !.body = "edited"], [issue[i] EXCEPT !.body = "broken"]}
      BY <2>2, <3>1 DEF Issues, Bodies
    <3>2. CASE change = [issue[i] EXCEPT !.labels = @ \cup {"extra"}]
      BY <2>2, <3>2 DEF Issues, Labels
    <3>3. CASE change = [issue[i] EXCEPT !.open = FALSE]
      BY <2>2, <3>3 DEF Issues
    <3>4. CASE change = [issue[i] EXCEPT !.labels = IF "hold" \in @ THEN @ \ {"hold"}
                                                    ELSE @ \cup {"hold"}]
      BY <2>2, <3>4 DEF Issues, Labels
    <3>5. QED
      BY <2>1, <3>1, <3>2, <3>3, <3>4
  <2>4. Kept(issue[i], [change EXCEPT !.touched = TRUE]) /\ [change EXCEPT !.touched = TRUE] \in Issues
    BY <2>3 DEF Kept, Issues
  <2>5. UNCHANGED <<request, hold, create, late>>
    BY <1>1 DEF PersonChanges
  <2>6. QED
    BY <2>1, <2>2, <2>4, <2>5, IssueTypes DEF Aside, Kept
<1>2. ASSUME NEW i \in Numbers, PersonOffers(i) PROVE Aside
  <2>1. i \in Matching
    BY <1>2 DEF PersonOffers, Matching, OneUntriaged, NoIssue
  <2> DEFINE labels == (issue[i].labels \ {"info", "progress"}) \cup {"ready"}
  <2>2. issue' = [issue EXCEPT ![i].labels = labels] /\ UNCHANGED <<request, hold, create, late>>
    BY <1>2 DEF PersonOffers, others
  <2>3. labels \in SUBSET Labels
    BY IssueTypes DEF Labels
  <2>4. \A label \in {"triage", "hold", "mirror"} : label \in labels <=> label \in issue[i].labels
    OBVIOUS
  <2>5. QED
    BY <2>1, <2>2, <2>3, <2>4, RelabelIsAside
<1>3. CASE Demotes \/ Informs \/ Claims
  <2>1. tick.issue \in Matching /\ tick.issue \in Numbers
    BY <1>3 DEF Demotes, Informs, Claims, RelabelsFor, TickAt, TickFollows, Matching
  <2>2. UNCHANGED <<request, hold, create, late>>
    BY <1>3 DEF Demotes, Informs, Claims, RelabelsFor, others
  <2>3. CASE Demotes
    BY <2>1, <2>2, <2>3, RelabelIsAside, IssueTypes DEF Demotes, RelabelsFor
  <2>4. CASE Informs
    BY <2>1, <2>2, <2>4, RelabelIsAside, IssueTypes DEF Informs, RelabelsFor, Labels
  <2>5. CASE Claims
    BY <2>1, <2>2, <2>5, RelabelIsAside, IssueTypes DEF Claims, RelabelsFor, Labels
  <2>6. QED
    BY <1>3, <2>3, <2>4, <2>5
<1>4. CASE UNCHANGED <<request, hold, create, issue, late>>
  BY <1>4, IssueTypes DEF Aside, Kept
<1>5. QED
  BY <1>1, <1>2, <1>3, <1>4

\* An issue is created where none was.
LEMMA CreationAdds ==
  ASSUME CreateTypeOK, Numbered, Room \/ late > 0, issue' = [issue EXCEPT ![NewNumber] = Created]
  PROVE  /\ Adds
         /\ Matching' = Matching \cup {NewNumber}
         /\ \E k \in 0..MaxIssues - 1 :
              /\ Matching = 1..k /\ NewNumber = k + 1 /\ Matching' = 1..(k + 1)
              /\ k + late <= MaxIssues /\ (Room => k + late < MaxIssues)
<1>1. PICK k \in 0..MaxIssues : Matching = 1..k /\ k + late <= MaxIssues
  BY DEF Numbered
<1>2. Cardinality(Matching) = k /\ NewNumber = k + 1
  BY <1>1, NewIsNext
<1>3. k \in 0..MaxIssues - 1 /\ (Room => k + late < MaxIssues)
  BY <1>1, <1>2, IssueTypes, TodoCreateAssumption DEF Room
<1>4. NewNumber \in Numbers \ Matching
  BY <1>1, <1>2, <1>3, TodoCreateAssumption DEF Numbers
<1>5. \A j \in Numbers : issue'[j].body = IF j = NewNumber THEN "fields" ELSE issue[j].body
  BY <1>4, IssueTypes DEF Created
<1>6. Matching' = Matching \cup {NewNumber}
  BY <1>4, <1>5 DEF Matching
<1>7. Matching' = 1..(k + 1)
  BY <1>1, <1>2, <1>3, <1>6, TodoCreateAssumption
<1>8. QED
  BY <1>1, <1>2, <1>3, <1>4, <1>6, <1>7 DEF Adds
-----------------------------------------------------------------------------
(* The creation's part is inductive.                                       *)

LEMMA NextSplits ==
  ASSUME CreateTypeOK, OneUntriaged, TickFollows, [Next]_vars
  PROVE  \/ Requests \/ CreateStep \/ CreateDies \/ LateLands
         \/ Aside
<1>1. ASSUME UNCHANGED createVars \/ UNCHANGED <<others, issue>> PROVE Aside
  BY <1>1, OthersAreAside DEF createVars, others
<1>2. CASE CreateNext
  BY <1>2, OthersAreAside DEF CreateNext
<1>3. CASE TickStep
  BY <1>1, <1>3, OthersAreAside
     DEF TickStep, Selects, Begins, WritesPlan, WritesRegistration, ValidatesTree, CreatesTree,
         Binds, Abandons, TickDies
<1>4. CASE \E t \in Runs : Works(t) \/ OperatorAbandons(t)
  BY <1>1, <1>4 DEF Works, OperatorAbandons
<1>5. CASE \E i \in Numbers : OperatorCleans(i) \/ PersonOffers(i)
  BY <1>1, <1>5, OthersAreAside DEF OperatorCleans
<1>6. CASE PersonMovesHead \/ PersonBranches
  BY <1>1, <1>6 DEF PersonMovesHead, PersonBranches
<1>7. CASE UNCHANGED vars
  BY <1>1, <1>7 DEF vars
<1>8. QED
  BY <1>2, <1>3, <1>4, <1>5, <1>6, <1>7 DEF Next

\* Every bound is taken by one more, and only while it is not reached.
LEMMA BoundsHold ==
  ASSUME CreateTypeOK, [Next]_vars
  PROVE  faults' \in 0..MaxFaults /\ crashes' \in 0..MaxCrashes /\ acts' \in 0..MaxActs
<1> USE TodoCreateAssumption DEF Fails, Dies, Acts, CommandFails, TickFails, bounds, createVars
<1>1. /\ faults \in 0..MaxFaults /\ crashes \in 0..MaxCrashes /\ acts \in 0..MaxActs
  BY DEF CreateTypeOK
<1>2. /\ Fails => faults' \in 0..MaxFaults
      /\ Dies => crashes' \in 0..MaxCrashes
      /\ Acts => acts' \in 0..MaxActs
  BY <1>1
<1>a. [Next]_vars
  OBVIOUS
<1> USE ONLY <1>1, <1>2 DEF CommandFails, TickFails, bounds, createVars
<1>3. CASE CreateNext
  BY <1>3 DEF CreateNext, Requests, CreateStep, Lists, Creates, Relists, Fetches, WritesBody,
              Checks, Asserts, EditsLabel, Finishes, CreateDies, LateLands, PersonChanges
<1>4. CASE TickStep
  BY <1>4 DEF TickStep, Selects, Begins, Demotes, Informs, RelabelsFor, WritesPlan,
              WritesRegistration, ValidatesTree, CreatesTree, Binds, Claims, Abandons, TickDies
<1>5. CASE \E t \in Runs : Works(t) \/ OperatorAbandons(t)
  BY <1>5 DEF Works, OperatorAbandons
<1>6. CASE \E i \in Numbers : OperatorCleans(i) \/ PersonOffers(i)
  BY <1>6 DEF OperatorCleans, PersonOffers
<1>7. CASE PersonMovesHead \/ PersonBranches
  BY <1>7 DEF PersonMovesHead, PersonBranches
<1>8. CASE UNCHANGED vars
  BY <1>8 DEF vars
<1>9. QED
  BY <1>a, <1>3, <1>4, <1>5, <1>6, <1>7, <1>8 DEF Next

\* What the process does to its issue: only it writes the body and edits the labels.
LEMMA CreateStepEffects ==
  ASSUME CreateTypeOK, Numbered, OneUntriaged, EditIsLeft,
         Requests \/ CreateStep \/ CreateDies \/ LateLands
  PROVE  /\ request' \in BOOLEAN /\ hold' = hold
         /\ \/ UNCHANGED issue
            \/ Adds /\ (Room \/ late > 0)
            \/ At("body") /\ issue' = [issue EXCEPT ![create.n].body = "final"]
            \/ At("edit") /\ issue' = [issue EXCEPT ![create.n].labels = Edited(@)]
<1>0. request \in BOOLEAN
  BY DEF CreateTypeOK
<1> USE DEF GivesUp, CommandFails, bounds
<1>1. CASE Requests \/ Lists \/ Relists \/ Fetches \/ Checks \/ Asserts \/ Finishes \/ CreateDies
  BY <1>0, <1>1 DEF Requests, Lists, Relists, Fetches, Checks, Asserts, Finishes, CreateDies
<1>2. CASE Creates \/ LateLands
  BY <1>0, <1>2, CreationAdds DEF Creates, LateLands
<1>3. CASE WritesBody \/ EditsLabel
  BY <1>0, <1>3 DEF WritesBody, EditsLabel
<1>4. QED
  BY <1>1, <1>2, <1>3 DEF CreateStep

LEMMA IssuesTyped ==
  ASSUME CreateTypeOK, Numbered, OneUntriaged, EditIsLeft, TickFollows, [Next]_vars
  PROVE  /\ issue' \in [Numbers -> Issues] /\ request' \in BOOLEAN /\ hold' \in BOOLEAN
         /\ Matching \subseteq Matching'
<1> USE IssueTypes
<1> DEFINE Good == issue' \in [Numbers -> Issues] /\ Matching \subseteq Matching'
<1>1. ASSUME Aside PROVE Good
  BY <1>1 DEF Aside, Matching, Kept, CreateTypeOK
<1>2. ASSUME UNCHANGED issue PROVE Good
  BY <1>2 DEF Matching
<1>3. ASSUME Adds PROVE Good
  BY <1>3 DEF Adds, Matching, Created, Issues
<1>4. ASSUME At("body") /\ issue' = [issue EXCEPT ![create.n].body = "final"] PROVE Good
  BY <1>4 DEF At, OneUntriaged, Working, Matching, Issues, Bodies
<1>5. ASSUME At("edit") /\ issue' = [issue EXCEPT ![create.n].labels = Edited(@)] PROVE Good
  <2>1. Edited(issue[create.n].labels) \in SUBSET Labels
    BY <1>5, EditIs DEF EditIsLeft, Edited, Labels, At, OneUntriaged, Working, Matching
  <2>2. QED
    BY <1>5, <2>1 DEF At, OneUntriaged, Working, Matching, Issues
<1>6. Good
  BY <1>1, <1>2, <1>3, <1>4, <1>5, NextSplits, CreateStepEffects
<1>7. QED
  BY <1>6, NextSplits, CreateStepEffects DEF Aside, CreateTypeOK

\* Where the process goes on, and with which issue.
LEMMA ProcessMoves ==
  ASSUME CreateTypeOK, Numbered, OneUntriaged, EditIsLeft,
         Requests \/ CreateStep \/ CreateDies \/ LateLands
  PROVE  \/ create' = Idle
         \/ create' = create /\ Adds
         \/ /\ Requests /\ create'.n \in 0..MaxIssues
            /\ create' = [pc |-> "list", n |-> create'.n, seen |-> {}]
         \/ /\ create' = [create EXCEPT !.pc = create'.pc]
            /\ \/ At("list") /\ create'.pc = "create" /\ Matching = {} /\ UNCHANGED issue
               \/ At("create") /\ create'.pc = "relist"
               \/ At("fetch") /\ create'.pc = "body" /\ UNCHANGED issue
               \/ At("fetch") /\ create'.pc = "check" /\ UNCHANGED issue
               \/ At("body") /\ create'.pc = "check"
               \/ At("label") /\ create'.pc = "final" /\ UNCHANGED issue
               \/ At("label") /\ create'.pc = "edit" /\ Left # {} /\ UNCHANGED issue
         \/ /\ create' = [create EXCEPT !.pc = "fetch", !.n = create'.n]
            /\ \/ Matching = {create'.n} /\ UNCHANGED issue
               \/ At("create") /\ Adds /\ create'.n = NewNumber
         \/ /\ At("check") /\ Fresh(create.n) /\ UNCHANGED issue
            /\ create' = [create EXCEPT !.pc = "label", !.seen = Target.labels]
         \/ /\ At("edit") /\ issue' = [issue EXCEPT ![create.n].labels = Edited(@)]
            /\ create' = [create EXCEPT !.pc = "label", !.seen = Edited(@)]
<1>1. PICK k \in 0..MaxIssues : Matching = 1..k
  BY DEF Numbered
<1>2. k \in Nat /\ Cardinality(Matching) = k /\ (k = 1 => Min(Matching) = 1)
  BY <1>1, NewIsNext, TodoCreateAssumption
<1>3. Cardinality(Matching) = 1 => Matching = {Min(Matching)}
  BY <1>1, <1>2
<1> USE IssueTypes DEF GivesUp, CommandFails, bounds, Goes, Exits
<1>4. CASE Requests
  <2>1. PICK n \in Matching \cup {0} : create' = [Idle EXCEPT !.pc = "list", !.n = n]
    BY <1>4 DEF Requests
  <2>2. n \in 0..MaxIssues
    BY <2>1, <1>1, <1>2, TodoCreateAssumption
  <2>3. create' = [pc |-> "list", n |-> n, seen |-> {}]
    BY <2>1 DEF Idle
  <2>4. QED
    BY <1>4, <2>2, <2>3
<1>5. CASE Lists
  <2>1. 0 \in Chosen => Matching = {}
    BY <1>1 DEF Chosen
  <2>2. \A i \in Chosen \ {0} : Matching = {i}
    BY <1>1, <1>2 DEF Chosen
  <2>3. QED
    BY <1>5, <2>1, <2>2 DEF Lists
<1>6. CASE Creates
  BY <1>6, CreationAdds DEF Creates
<1>7. CASE Relists
  BY <1>7, <1>3 DEF Relists
<1>8. CASE Fetches
  BY <1>8 DEF Fetches
<1>9. CASE WritesBody
  BY <1>9 DEF WritesBody
<1>10. CASE Checks
  BY <1>10 DEF Checks
<1>11. CASE Asserts
  BY <1>11 DEF Asserts
<1>12. CASE EditsLabel
  BY <1>12 DEF EditsLabel
<1>13. CASE Finishes
  BY <1>13 DEF Finishes
<1>14. CASE CreateDies
  BY <1>14 DEF CreateDies
<1>15. CASE LateLands
  BY <1>15, CreationAdds DEF LateLands
<1>16. QED
  BY <1>4, <1>5, <1>6, <1>7, <1>8, <1>9, <1>10, <1>11, <1>12, <1>13, <1>14, <1>15 DEF CreateStep

\* The same, for its counter alone.
LEMMA CounterMoves ==
  ASSUME CreateTypeOK, Numbered, OneUntriaged, EditIsLeft,
         Requests \/ CreateStep \/ CreateDies \/ LateLands
  PROVE  \/ create'.pc \in {"idle", "list", "relist"}
         \/ create' = create
         \/ At("list") /\ create'.pc = "create" /\ Matching = {}
         \/ create'.pc = "fetch" /\ Matching = {create'.n} /\ UNCHANGED issue
         \/ create'.pc = "fetch" /\ At("create") /\ Adds /\ create'.n = NewNumber
         \/ /\ create.pc \in Working /\ create'.n = create.n
            /\ create'.pc \in {"body", "check", "label", "final"}
         \/ /\ At("label") /\ create' = [create EXCEPT !.pc = "edit"] /\ Left # {}
            /\ create'.n = create.n /\ create'.pc = "edit" /\ create'.seen = create.seen
<1>1. create = [pc |-> create.pc, n |-> create.n, seen |-> create.seen]
  BY IssueTypes
<1>2. \A s, i, p : /\ [create EXCEPT !.pc = p].pc = p /\ [create EXCEPT !.pc = p].n = create.n
                   /\ [create EXCEPT !.pc = p].seen = create.seen
                   /\ [create EXCEPT !.pc = p, !.n = i].pc = p
                   /\ [create EXCEPT !.pc = p, !.seen = s].pc = p
                   /\ [create EXCEPT !.pc = p, !.seen = s].n = create.n
  BY <1>1
<1>3. CASE create' = Idle \/ create' = [pc |-> "list", n |-> create'.n, seen |-> {}]
  BY <1>3 DEF Idle
<1>4. CASE /\ create' = [create EXCEPT !.pc = create'.pc]
           /\ \/ At("list") /\ create'.pc = "create" /\ Matching = {} /\ UNCHANGED issue
              \/ At("create") /\ create'.pc = "relist"
              \/ At("fetch") /\ create'.pc = "body" /\ UNCHANGED issue
              \/ At("fetch") /\ create'.pc = "check" /\ UNCHANGED issue
              \/ At("body") /\ create'.pc = "check"
              \/ At("label") /\ create'.pc = "final" /\ UNCHANGED issue
              \/ At("label") /\ create'.pc = "edit" /\ Left # {} /\ UNCHANGED issue
  <2>1. create'.n = create.n /\ create'.seen = create.seen
    BY <1>2, <1>4
  <2>2. QED
    BY <1>4, <2>1 DEF At, Working
<1>5. CASE /\ create' = [create EXCEPT !.pc = "fetch", !.n = create'.n]
           /\ \/ Matching = {create'.n} /\ UNCHANGED issue
              \/ At("create") /\ Adds /\ create'.n = NewNumber
  <2>1. create'.pc = "fetch"
    BY <1>1, <1>5
  <2>2. QED
    BY <1>5, <2>1
<1>6. CASE /\ At("check") \/ At("edit")
           /\ \/ create' = [create EXCEPT !.pc = "label", !.seen = Target.labels]
              \/ create' = [create EXCEPT !.pc = "label", !.seen = Edited(@)]
  <2>1. create'.pc = "label" /\ create'.n = create.n
    BY <1>1, <1>6
  <2>2. QED
    BY <1>6, <2>1 DEF At, Working
<1>7. QED
  BY <1>3, <1>4, <1>5, <1>6, ProcessMoves

\* And after its check.
LEMMA LateMoves ==
  ASSUME CreateTypeOK, Numbered, OneUntriaged, EditIsLeft,
         Requests \/ CreateStep \/ CreateDies \/ LateLands,
         create'.pc \in {"label", "edit", "final"}
  PROVE  /\ create.n \in Matching /\ create'.n = create.n
         /\ \/ create' = create /\ Adds
            \/ At("label") /\ UNCHANGED issue /\ create'.seen = create.seen
            \/ /\ At("check") /\ Fresh(create.n) /\ UNCHANGED issue
               /\ create'.seen = issue[create.n].labels
            \/ /\ At("edit") /\ issue' = [issue EXCEPT ![create.n].labels = Edited(@)]
               /\ create'.seen = Edited(create.seen)
<1>1. create = [pc |-> create.pc, n |-> create.n, seen |-> create.seen]
  BY IssueTypes
<1>2. /\ create' # Idle /\ create' # [pc |-> "list", n |-> create'.n, seen |-> {}]
      /\ create' # [create EXCEPT !.pc = "fetch", !.n = create'.n]
  <2>1. /\ Idle.pc = "idle" /\ [pc |-> "list", n |-> create'.n, seen |-> {}].pc = "list"
        /\ [create EXCEPT !.pc = "fetch", !.n = create'.n].pc = "fetch"
    BY <1>1 DEF Idle
  <2>2. QED
    BY <2>1
<1>3. CASE create' = create /\ Adds
  BY <1>3 DEF OneUntriaged, Working
<1>4. CASE create' = [create EXCEPT !.pc = create'.pc] /\ At("label") /\ UNCHANGED issue
  <2>1. create'.n = create.n /\ create'.seen = create.seen
    BY <1>1, <1>4
  <2>2. QED
    BY <1>4, <2>1 DEF OneUntriaged, Working, At
<1>5. CASE /\ At("check") /\ Fresh(create.n) /\ UNCHANGED issue
           /\ create' = [create EXCEPT !.pc = "label", !.seen = Target.labels]
  <2>1. create'.n = create.n /\ create'.seen = Target.labels
    BY <1>1, <1>5
  <2>2. QED
    BY <1>5, <2>1 DEF OneUntriaged, Working, At, Target
<1>6. CASE /\ At("edit") /\ issue' = [issue EXCEPT ![create.n].labels = Edited(@)]
           /\ create' = [create EXCEPT !.pc = "label", !.seen = Edited(@)]
  <2>1. create'.n = create.n /\ create'.seen = Edited(create.seen)
    BY <1>1, <1>6
  <2>2. QED
    BY <1>6, <2>1 DEF OneUntriaged, Working, At
<1>7. QED
  BY <1>2, <1>3, <1>4, <1>5, <1>6, ProcessMoves

\* A creation lands, is on its way, or neither.
LEMMA Landings ==
  ASSUME CreateTypeOK, Numbered, OneUntriaged, EditIsLeft, TickFollows, [Next]_vars
  PROVE  \/ /\ \A i \in Numbers : issue[i].body = "none" <=> issue'[i].body = "none"
            /\ late' = late \/ (late' = late + 1 /\ Room)
         \/ /\ issue' = [issue EXCEPT ![NewNumber] = Created]
            /\ (late' = late /\ Room) \/ (late' = late - 1 /\ late > 0)
<1> USE DEF GivesUp, CommandFails
<1>1. late \in Nat
  BY IssueTypes
<1>2. CASE Aside
  BY <1>2 DEF Aside, Kept
<1>3. CASE Requests \/ Lists \/ Relists \/ Fetches \/ Checks \/ Asserts \/ Finishes
  BY <1>3 DEF Requests, Lists, Relists, Fetches, Checks, Asserts, Finishes
<1>4. CASE CreateDies
  BY <1>1, <1>4 DEF CreateDies
<1>5. CASE Creates
  BY <1>1, <1>5 DEF Creates
<1>6. CASE LateLands
  BY <1>6 DEF LateLands
<1>7. CASE WritesBody \/ EditsLabel
  <2>1. create.n \in Matching
    BY <1>7 DEF WritesBody, EditsLabel, At, OneUntriaged, Working
  <2>2. \A i \in Numbers : issue[i].body = "none" <=> issue'[i].body = "none"
    BY <1>7, <2>1, IssueTypes DEF WritesBody, EditsLabel, Matching, Issues
  <2>3. QED
    BY <1>7, <2>2 DEF WritesBody, EditsLabel
<1>8. QED
  BY <1>2, <1>3, <1>4, <1>5, <1>6, <1>7, NextSplits DEF CreateStep

LEMMA NumberedHolds ==
  ASSUME CreateTypeOK, Numbered, OneUntriaged, EditIsLeft, TickFollows, [Next]_vars
  PROVE  Numbered' /\ late' \in 0..MaxIssues
<1>1. PICK k \in 0..MaxIssues : Matching = 1..k /\ k + late <= MaxIssues
  BY DEF Numbered
<1>2. k \in Nat /\ Cardinality(Matching) = k /\ late \in Nat /\ MaxIssues \in Nat
  BY <1>1, NewIsNext, IssueTypes, TodoCreateAssumption
<1>3. CASE /\ issue' = [issue EXCEPT ![NewNumber] = Created]
           /\ (late' = late /\ Room) \/ (late' = late - 1 /\ late > 0)
  <2>1. PICK l \in 0..MaxIssues - 1 :
          Matching' = 1..(l + 1) /\ l + late <= MaxIssues /\ (Room => l + late < MaxIssues)
    BY <1>3, CreationAdds
  <2>2. l + 1 \in 0..MaxIssues /\ l + 1 + late' <= MaxIssues /\ late' \in 0..MaxIssues
    BY <1>2, <1>3, <2>1
  <2>3. QED
    BY <2>1, <2>2 DEF Numbered
<1>4. CASE /\ \A i \in Numbers : issue[i].body = "none" <=> issue'[i].body = "none"
           /\ late' = late \/ (late' = late + 1 /\ Room)
  <2>1. Matching' = Matching
    BY <1>4 DEF Matching
  <2>2. k + late' <= MaxIssues /\ late' \in 0..MaxIssues
    BY <1>1, <1>2, <1>4 DEF Room
  <2>3. QED
    BY <1>1, <2>1, <2>2 DEF Numbered
<1>5. QED
  BY <1>3, <1>4, Landings

LEMMA CreateTyped ==
  ASSUME CreateTypeOK, Numbered, OneUntriaged, EditIsLeft, TickFollows, [Next]_vars
  PROVE  CreateTypeOK'
<1> DEFINE Steps == {"idle", "list", "create", "relist", "fetch", "body", "check", "label",
                     "edit", "final"}
           Processes == [pc : Steps, n : 0..MaxIssues, seen : SUBSET Labels]
<1>1. create \in Processes
  BY DEF CreateTypeOK
<1>2. ASSUME Requests \/ CreateStep \/ CreateDies \/ LateLands PROVE create' \in Processes
  <2>1. create' = Idle => create' \in Processes
    BY TodoCreateAssumption DEF Idle
  <2>2. Adds => NewNumber \in 0..MaxIssues
    BY TodoCreateAssumption DEF Adds, Numbers
  <2>3. \A i : Matching = {i} => i \in 0..MaxIssues
    <3>1. Matching \subseteq 0..MaxIssues
      BY TodoCreateAssumption DEF Matching, Numbers
    <3>2. QED
      BY <3>1
  <2>4. At("check") \/ At("edit") => create.n \in Numbers /\ Target.labels \in SUBSET Labels
    BY IssueTypes DEF At, OneUntriaged, Working, Matching, Target
  <2>5. At("edit") => Edited(create.seen) \in SUBSET Labels
    BY EditIs, IssueTypes DEF EditIsLeft, Edited, Labels
  <2>6. /\ \A p \in Steps : [create EXCEPT !.pc = p] \in Processes
        /\ \A i \in 0..MaxIssues : [create EXCEPT !.pc = "fetch", !.n = i] \in Processes
        /\ \A s \in SUBSET Labels : [create EXCEPT !.pc = "label", !.seen = s] \in Processes
        /\ \A i \in 0..MaxIssues : [pc |-> "list", n |-> i, seen |-> {}] \in Processes
    BY <1>1
  <2> HIDE DEF Processes
  <2>7. QED
    BY <1>1, <1>2, <2>1, <2>2, <2>3, <2>4, <2>5, <2>6, ProcessMoves
<1>3. create' \in Processes
  BY <1>1, <1>2, NextSplits DEF Aside
<1>4. QED
  BY <1>3, NumberedHolds, IssuesTyped, BoundsHold DEF CreateTypeOK, Issues

LEMMA EditIsLeftHolds ==
  ASSUME CreateTypeOK, Numbered, OneUntriaged, EditIsLeft, TickFollows, [Next]_vars
  PROVE  EditIsLeft'
<1>1. create' = create => Left' = Left
  BY DEF Left, Pending
<1>2. CASE Aside
  BY <1>1, <1>2 DEF Aside, EditIsLeft, At
<1>3. CASE Requests \/ CreateStep \/ CreateDies \/ LateLands
  <2>1. CASE create' = create
    BY <1>1, <2>1 DEF EditIsLeft, At
  <2>2. CASE create'.pc # "edit"
    BY <2>2 DEF EditIsLeft, At
  <2>3. CASE create' = [create EXCEPT !.pc = "edit"] /\ Left # {}
    <3>1. create'.seen = create.seen /\ create'.pc = "edit"
      BY <2>3, IssueTypes
    <3>2. Left' = Left
      BY <3>1 DEF Left, Pending
    <3>3. QED
      BY <2>3, <3>2 DEF EditIsLeft
  <2>4. QED
    BY <1>3, <2>1, <2>2, <2>3, CounterMoves
<1>4. QED
  BY <1>2, <1>3, NextSplits

\* No step takes an issue out of triage but the removal of that label by the process, from the
\* one issue it may go on with.
LEMMA OneUntriagedHolds ==
  ASSUME CreateTypeOK, Numbered, OneUntriaged, EditIsLeft, TickFollows, [Next]_vars
  PROVE  OneUntriaged'
<1> USE IssueTypes
<1>1. /\ Matching \subseteq Matching' /\ issue' \in [Numbers -> Issues]
  BY IssuesTyped
<1>2. ASSUME Aside PROVE OneUntriaged'
  <2>1. \A i \in Numbers : Untriaged(i)' <=> Untriaged(i)
    BY <1>2 DEF Aside, Kept, Untriaged
  <2>2. UNCHANGED create /\ \A i \in Numbers : issue'[i].body = "none" => issue'[i] = NoIssue
    BY <1>2 DEF OneUntriaged, Aside, Kept
  <2>3. QED
    BY <1>1, <2>1, <2>2 DEF OneUntriaged, At
<1>3. \A i \in Numbers : issue'[i].body = "none" => issue'[i] = NoIssue
  <2>1. CASE UNCHANGED issue
    BY <2>1 DEF OneUntriaged
  <2>2. CASE Adds
    BY <2>2 DEF Adds, OneUntriaged, Created
  <2>3. CASE At("body") /\ issue' = [issue EXCEPT ![create.n].body = "final"]
    BY <2>3 DEF At, OneUntriaged, Working, Matching
  <2>4. CASE At("edit") /\ issue' = [issue EXCEPT ![create.n].labels = Edited(@)]
    BY <2>4 DEF At, OneUntriaged, Working, Matching, Issues
  <2>5. CASE Aside
    BY <2>5 DEF Aside, OneUntriaged, Kept
  <2>6. QED
    BY <2>1, <2>2, <2>3, <2>4, <2>5, NextSplits, CreateStepEffects
<1>4. \A i \in Numbers : Untriaged(i)' => Untriaged(i) \/ (At("edit") /\ i = create.n)
  <2>1. CASE UNCHANGED issue
    BY <2>1 DEF Untriaged
  <2>2. CASE Adds
    BY <2>2 DEF Adds, Untriaged, Created
  <2>3. CASE At("body") /\ issue' = [issue EXCEPT ![create.n].body = "final"]
    BY <2>3 DEF At, OneUntriaged, Working, Matching, Untriaged, Issues
  <2>4. CASE At("edit") /\ issue' = [issue EXCEPT ![create.n].labels = Edited(@)]
    BY <2>4 DEF At, OneUntriaged, Working, Matching, Issues, Untriaged
  <2>5. CASE Aside
    BY <2>5 DEF Aside, Untriaged, Kept
  <2>6. QED
    BY <2>1, <2>2, <2>3, <2>4, <2>5, NextSplits, CreateStepEffects
<1>5. \A i, j \in Numbers : Untriaged(i)' /\ Untriaged(j)' => i = j
  BY <1>4 DEF OneUntriaged, At, Working
<1>6. ASSUME Requests \/ CreateStep \/ CreateDies \/ LateLands PROVE OneUntriaged'
  <2>1. At("create")' => \A i \in Numbers : ~Untriaged(i)'
    <3>1. CASE create' = create
      BY <1>4, <3>1 DEF OneUntriaged, At
    <3>2. CASE At("list") /\ Matching = {}
      BY <1>4, <3>2 DEF At, Untriaged, Matching
    <3>3. QED
      BY <1>6, <3>1, <3>2, CounterMoves DEF At
  <2>2. create'.pc \in Working =>
          create'.n \in Matching' /\ \A i \in Numbers : Untriaged(i)' => i = create'.n
    <3>1. CASE create.pc \in Working /\ create'.n = create.n
      BY <1>1, <1>4, <3>1 DEF OneUntriaged, At
    <3>2. CASE Matching = {create'.n} /\ UNCHANGED issue
      BY <1>1, <3>2 DEF Untriaged, Matching
    <3>3. CASE At("create") /\ Adds /\ create'.n = NewNumber
      <4>1. create'.n \in Matching'
        BY <3>3 DEF Adds, Created, Matching
      <4>2. QED
        BY <1>4, <3>3, <4>1 DEF OneUntriaged, At
    <3>4. create'.pc \in Working => \/ create.pc \in Working /\ create'.n = create.n
                                    \/ Matching = {create'.n} /\ UNCHANGED issue
                                    \/ At("create") /\ Adds /\ create'.n = NewNumber
      BY <1>6, CounterMoves DEF Working, At
    <3>5. QED
      BY <3>1, <3>2, <3>3, <3>4
  <2>3. QED
    BY <1>3, <1>5, <2>1, <2>2 DEF OneUntriaged
<1>7. QED
  BY <1>2, <1>6, NextSplits

\* A new issue waits for triage and has its hold, an edit follows the order, and what the process
\* saw of its issue at the check stays true until somebody touches it.
LEMMA MadeInOrderHolds ==
  ASSUME CreateTypeOK, Numbered, OneUntriaged, MadeInOrder, EditIsLeft, TickFollows, [Next]_vars
  PROVE  MadeInOrder'
<1> DEFINE Late == {"label", "edit", "final"}
<1>1. CASE Aside
  <2>1. Matching' = Matching
    BY <1>1 DEF Aside, Matching, Kept
  <2>2. SUFFICES ASSUME NEW i \in Matching, ~issue'[i].touched PROVE InOrder(i)'
    BY <2>1 DEF MadeInOrder, InOrder
  <2>3. Kept(issue[i], issue'[i]) /\ UNCHANGED <<hold, create>> /\ InOrder(i)
    BY <1>1 DEF Aside, Matching, MadeInOrder
  <2>4. QED
    BY <2>2, <2>3 DEF InOrder, Kept, HoldStands, Untriaged
<1>2. ASSUME Requests \/ CreateStep \/ CreateDies \/ LateLands PROVE MadeInOrder'
  <2>1. hold' = hold
    BY <1>2, CreateStepEffects
  <2>2. SUFFICES ASSUME NEW i \in Matching', ~issue'[i].touched PROVE InOrder(i)'
    BY DEF MadeInOrder, InOrder
  <2>3. i \in Numbers /\ i \in Matching => InOrder(i) /\ issue[i] \in Issues
    BY IssueTypes DEF MadeInOrder, Matching
  <2>4. CASE UNCHANGED issue
    <3>1. i \in Matching /\ InOrder(i)
      BY <2>3, <2>4 DEF Matching
    <3>2. CASE create'.pc \in Late /\ create'.n = i
      <4>1. ~Adds
        BY <2>4, IssueTypes DEF Adds, Matching, Created
      <4>2. \/ At("label") /\ create'.seen = create.seen
            \/ At("check") /\ Fresh(create.n) /\ create'.seen = issue[create.n].labels
            \/ At("edit") /\ issue' = [issue EXCEPT ![create.n].labels = Edited(@)]
               /\ create'.seen = Edited(create.seen)
        BY <1>2, <3>2, <4>1, LateMoves
      <4>3. create.n = i
        BY <1>2, <3>2, LateMoves
      <4>4. CASE At("label") /\ create'.seen = create.seen
        BY <2>1, <2>2, <2>4, <3>1, <4>3, <4>4 DEF InOrder, HoldStands, Untriaged, At
      <4>5. CASE At("check") /\ Fresh(create.n) /\ create'.seen = issue[create.n].labels
        BY <2>1, <2>2, <2>4, <3>1, <4>3, <4>5 DEF InOrder, HoldStands, Untriaged, Fresh
      <4>6. CASE /\ At("edit") /\ issue' = [issue EXCEPT ![create.n].labels = Edited(@)]
                 /\ create'.seen = Edited(create.seen)
        <5>1. issue[i].labels = Edited(issue[i].labels)
          BY <2>3, <2>4, <3>1, <4>3, <4>6, IssueTypes DEF Issues, Matching
        <5>2. QED
          BY <2>1, <2>2, <2>4, <3>1, <4>3, <4>6, <5>1, EditIs
             DEF InOrder, HoldStands, Untriaged, EditIsLeft, Edited, At
      <4>7. QED
        BY <4>2, <4>4, <4>5, <4>6
    <3>3. QED
      BY <2>1, <2>2, <2>4, <3>1, <3>2 DEF InOrder, HoldStands, Untriaged
  <2>5. CASE Adds
    <3>1. NewNumber \in Numbers \ Matching
      BY <2>5 DEF Adds
    <3>2. /\ ~UNCHANGED issue
          /\ ~(At("edit") /\ issue' = [issue EXCEPT ![create.n].labels = Edited(@)])
      <4>1. issue[NewNumber].body = "none" /\ issue'[NewNumber].body = "fields"
        BY <2>5, <3>1, IssueTypes DEF Adds, Matching, Created
      <4>2. issue' = [issue EXCEPT ![create.n].labels = Edited(@)]
              => issue'[NewNumber].body = issue[NewNumber].body
        BY <3>1, IssueTypes DEF Issues
      <4>3. QED
        BY <4>1, <4>2
    <3>3. CASE i = NewNumber
      <4>1. issue'[i] = Created
        BY <2>5, <3>1, <3>3, IssueTypes DEF Adds
      <4>2. ~(create'.pc \in Late /\ create'.n = i)
        BY <1>2, <3>1, <3>3, LateMoves
      <4>3. QED
        BY <2>1, <4>1, <4>2 DEF InOrder, HoldStands, Untriaged, Created, Rendered
    <3>4. CASE i # NewNumber
      <4>1. issue'[i] = issue[i] /\ i \in Matching /\ InOrder(i)
        BY <2>3, <2>5, <3>1, <3>4, IssueTypes DEF Adds, Matching
      <4>2. create'.pc \in Late => create' = create
        BY <1>2, <3>2, LateMoves
      <4>3. QED
        BY <2>1, <2>2, <4>1, <4>2 DEF InOrder, HoldStands, Untriaged
    <3>5. QED
      BY <3>3, <3>4
  <2>6. CASE At("body") /\ issue' = [issue EXCEPT ![create.n].body = "final"]
    <3>1. create.n \in Matching /\ create.n \in Numbers
      BY <2>6 DEF At, OneUntriaged, Working, Matching
    <3>2. i \in Matching /\ InOrder(i)
      BY <2>3, <2>6, <3>1 DEF Matching
    <3>3. /\ issue'[i].labels = issue[i].labels /\ issue'[i].touched = issue[i].touched
          /\ issue'[i].body \in {issue[i].body, "final"}
          /\ i # create.n => issue'[i] = issue[i]
      BY <2>3, <2>6, <3>1, IssueTypes DEF Issues
    <3>4. issue[i].body = "final" => issue'[i].body = "final"
      BY <3>3
    <3>5. create'.pc \notin Late
      BY <1>2, <2>6, LateMoves, IssueTypes DEF At, Adds
    <3>6. QED
      BY <2>1, <2>2, <3>2, <3>3, <3>4, <3>5 DEF InOrder, HoldStands, Untriaged, Rendered, Matching
  <2>7. CASE At("edit") /\ issue' = [issue EXCEPT ![create.n].labels = Edited(@)]
    <3>1. create.n \in Matching /\ create.n \in Numbers
      BY <2>7 DEF At, OneUntriaged, Working, Matching
    <3>2. i \in Matching /\ InOrder(i) /\ issue[i] \in Issues
      BY <2>3, <2>7, <3>1 DEF Matching, Issues
    <3>3. CASE i # create.n
      <4>1. issue'[i] = issue[i]
        BY <2>3, <2>7, <3>3, IssueTypes
      <4>2. ~(create'.pc \in Late /\ create'.n = i)
        BY <1>2, <3>3, LateMoves
      <4>3. QED
        BY <2>1, <2>2, <3>2, <4>1, <4>2 DEF InOrder, HoldStands, Untriaged
    <3>4. CASE i = create.n
      <4>1. /\ issue'[i].labels = Edited(issue[i].labels) /\ issue'[i].body = issue[i].body
            /\ issue'[i].touched = issue[i].touched
        BY <2>7, <3>1, <3>2, <3>4, IssueTypes DEF Issues
      <4>2. ~Adds
        BY <3>1, <4>1, <2>7, IssueTypes DEF Adds, Matching, Created, Issues
      <4>3. create'.pc \in Late => create'.seen = Edited(create.seen)
        BY <1>2, <2>7, <4>2, LateMoves DEF At
      <4>4. QED
        BY <2>1, <2>2, <2>7, <3>2, <3>4, <4>1, <4>3, EditIs
           DEF InOrder, HoldStands, Untriaged, EditIsLeft, Edited, At
    <3>5. QED
      BY <3>3, <3>4
  <2>8. QED
    BY <1>2, <2>4, <2>5, <2>6, <2>7, CreateStepEffects
<1>3. QED
  BY <1>1, <1>2, NextSplits

\* The creation's part is kept by every step of the whole.
LEMMA CreateInductive ==
  ASSUME CreateInv, TickFollows, [Next]_vars
  PROVE  CreateInv' /\ Matching \subseteq Matching'
  BY CreateTyped, NumberedHolds, OneUntriagedHolds, MadeInOrderHolds, EditIsLeftHolds, IssuesTyped
     DEF CreateInv

-----------------------------------------------------------------------------
(* The registration's part is inductive.                                   *)

LEMMA RunTypes ==
  ASSUME TypeOK
  PROVE  /\ plan \in [Runs -> Bodies] /\ started \subseteq Runs
         /\ tree \in [Numbers -> [made : BOOLEAN, dirt : SUBSET Runs]]
         /\ branch \in [base : 0..MaxHeads, by : SUBSET Runs]
         /\ run \in [Runs -> [state : {"none", "active", "abandoned"}, issue : 0..MaxIssues,
                              body : Bodies, base : 0..MaxHeads]]
         /\ tick = [pc |-> tick.pc, id |-> tick.id, issue |-> tick.issue, body |-> tick.body,
                    base |-> tick.base]
         /\ main \in 1..MaxHeads /\ MaxHeads \in Nat
  BY RunRegistrationAssumption DEF TypeOK

\* The steps of the creation and of people never touch a run.
LEMMA QuietSteps ==
  ASSUME TypeOK, CreateNext \/ (\E i \in Numbers : PersonOffers(i)) \/ UNCHANGED vars
                   \/ PersonMovesHead \/ PersonBranches
  PROVE  /\ UNCHANGED <<tick, tree, plan, run, started>>
         /\ UNCHANGED branch \/ branch = NoBranch
  BY DEF CreateNext, PersonOffers, PersonMovesHead, PersonBranches, vars, runVars

LEMMA RunsFollowHold ==
  ASSUME TypeOK, RunsFollow, TickFollows, [Next]_vars
  PROVE  RunsFollow'
<1> USE DEF TickAt
<1>1. CASE UNCHANGED <<plan, run, started>>
  BY <1>1 DEF RunsFollow, UnresolvedRuns, Active
<1>2. CASE WritesPlan
  BY <1>2, RunTypes DEF WritesPlan, RunsFollow, TickFollows, UnresolvedRuns, Active, Before
<1>3. CASE WritesRegistration
  <2>1. /\ tick.id \in Runs /\ UnresolvedRuns = {} /\ plan[tick.id] = tick.body
        /\ tick.body \in Plans /\ tick.issue \in Numbers /\ tick.base \in 1..MaxHeads
    BY <1>3 DEF WritesRegistration, TickFollows, Before, Matching
  <2>2. UNCHANGED <<plan, started>> /\ (UNCHANGED run \/ run' = [run EXCEPT ![tick.id] = Pinned])
    BY <1>3 DEF WritesRegistration
  <2>3. CASE run' = [run EXCEPT ![tick.id] = Pinned]
    <3>1. \A t \in Runs : run'[t] = IF t = tick.id THEN Pinned ELSE run[t]
      BY <2>3, RunTypes
    <3>2. UnresolvedRuns' = {tick.id}
      BY <2>1, <3>1 DEF UnresolvedRuns, Active, Pinned
    <3>3. QED
      BY <2>1, <2>2, <3>1, <3>2 DEF RunsFollow, Pinned
  <2>4. QED
    BY <1>1, <2>2, <2>3
<1>4. CASE Binds
  BY <1>4, RunTypes DEF Binds, RunsFollow, TickFollows, UnresolvedRuns, Active, Registered, Pinned
<1>5. ASSUME NEW t \in Runs, UNCHANGED <<plan, started>>, run[t].state = "active",
             run' = [run EXCEPT ![t].state = "abandoned"]
      PROVE  RunsFollow'
  BY <1>5, RunTypes DEF RunsFollow, UnresolvedRuns, Active
<1>6. CASE Abandons
  <2>1. tick.id \in Runs /\ run[tick.id].state = "active"
    BY <1>6 DEF Abandons, TickFollows, Registered, Pinned
  <2>2. UNCHANGED <<plan, started>> /\ run' = [run EXCEPT ![tick.id].state = "abandoned"]
    BY <1>6 DEF Abandons
  <2>3. QED
    BY <1>5, <2>1, <2>2
<1>7. CASE \E t \in Runs : OperatorAbandons(t)
  BY <1>5, <1>7 DEF OperatorAbandons, Active
<1>8. QED
  BY <1>1, <1>2, <1>3, <1>4, <1>6, <1>7, QuietSteps
     DEF Next, TickStep, Selects, Begins, Demotes, Informs, RelabelsFor, ValidatesTree,
         CreatesTree, Claims, TickDies, Works, OperatorCleans

LEMMA TickFollowsHold ==
  ASSUME TypeOK, RunsFollow, TickFollows, WorkHasATree, Matching \subseteq Matching', [Next]_vars
  PROVE  TickFollows'
<1> USE RunTypes DEF TickGoes, TickEnds, IdleTick, TickAt
<1>1. CASE tick' = IdleTick
  BY <1>1 DEF TickFollows, Before, Registered
<1>2. CASE UNCHANGED <<tick, plan, run, tree, started>> /\ (UNCHANGED branch \/ branch = NoBranch)
  <2>1. tick.pc = "bind" => branch # NoBranch
    BY DEF TickFollows, Registered, RunsFollow, Pinned, TipIsBase, NoBranch
  <2>2. QED
    BY <1>2, <2>1 DEF TickFollows, UnresolvedRuns, Active, Pinned, TipIsBase
<1>3. CASE Selects
  <2>1. PICK i \in Matching : /\ issue[i].body \in Plans
                              /\ tick' = [pc |-> "begin", id |-> Min(Unused), issue |-> i,
                                          body |-> issue[i].body, base |-> 0]
    BY <1>3 DEF Selects, Matching, Plans
  <2>2. Min(Unused) \in Runs /\ plan[Min(Unused)] = "none" /\ UnresolvedRuns = {}
        /\ UNCHANGED <<plan, run, tree, started, branch>>
    BY <1>3, UnusedId DEF Selects
  <2>3. run[Min(Unused)].state = "none"
    BY <2>2 DEF RunsFollow, Plans
  <2>4. QED
    BY <2>1, <2>2, <2>3 DEF TickFollows, Before, Registered, UnresolvedRuns, Active
<1>4. CASE Begins
  <2>1. /\ tick.id \in Runs /\ tick.issue \in Matching /\ tick.body \in Plans
        /\ UnresolvedRuns = {} /\ run[tick.id].state = "none" /\ plan[tick.id] = "none"
    BY <1>4 DEF Begins, TickFollows, Before
  <2>2. UNCHANGED <<plan, run>>
        /\ (tick' = [tick EXCEPT !.pc = "demote"] \/ tick' = [tick EXCEPT !.pc = "plan", !.base = main])
    BY <1>4 DEF Begins
  <2>3. QED
    BY <2>1, <2>2 DEF TickFollows, Before, Registered, UnresolvedRuns, Active
<1>5. CASE Demotes \/ Informs \/ Claims
  BY <1>5 DEF Demotes, Informs, Claims, RelabelsFor, TickFollows, Before,
              Registered, UnresolvedRuns, Active
<1>6. CASE WritesPlan
  BY <1>6 DEF WritesPlan, TickFollows, Before, Registered, UnresolvedRuns, Active
<1>7. CASE WritesRegistration
  BY <1>7 DEF WritesRegistration, TickFollows, Before, Registered, RunsFollow, Pinned
<1>8. CASE ValidatesTree
  <2>1. /\ tick.id \in Runs /\ tick.issue \in Matching /\ tick.body \in Plans
        /\ run[tick.id] = Pinned /\ tick.id \notin started /\ tick.issue \in Numbers
    BY <1>8 DEF ValidatesTree, TickFollows, Registered, Matching
  <2>2. UNCHANGED <<plan, run, tree, started, branch>> /\ tree[tick.issue].made
    BY <1>8 DEF ValidatesTree
  <2>3. \E pc \in {"bind", "abandon"} :
          /\ tick' = [tick EXCEPT !.pc = pc]
          /\ pc = "bind" => TipIsBase /\ tree[tick.issue].dirt = {}
    BY <1>8 DEF ValidatesTree
  <2>4. Pinned' = Pinned /\ (TipIsBase => TipIsBase')
    BY <2>2, <2>3 DEF Pinned, TipIsBase
  <2>5. QED
    BY <2>1, <2>2, <2>3, <2>4 DEF TickFollows, Before, Registered
<1>9. CASE CreatesTree
  <2>1. /\ tick.id \in Runs /\ tick.issue \in Matching /\ tick.body \in Plans
        /\ run[tick.id] = Pinned /\ tick.id \notin started /\ tick.issue \in Numbers
    BY <1>9 DEF CreatesTree, TickFollows, Registered, Matching
  <2>2. UNCHANGED <<plan, run, started>> /\ tree[tick.issue].dirt = {}
    BY <1>9, <2>1 DEF CreatesTree, WorkHasATree
  <2>3. \E pc \in {"bind", "abandon"} :
          /\ tick' = [tick EXCEPT !.pc = pc]
          /\ pc = "bind" => /\ branch' = [base |-> tick.base, by |-> {}]
                            /\ tree' = [tree EXCEPT ![tick.issue].made = TRUE]
    BY <1>9 DEF CreatesTree
  <2>4. tree' = [tree EXCEPT ![tick.issue].made = TRUE]
          => tree'[tick.issue].made /\ tree'[tick.issue].dirt = {}
    BY <2>1, <2>2
  <2>5. QED
    BY <2>1, <2>2, <2>3, <2>4 DEF TickFollows, Before, Registered, Pinned, TipIsBase
<1>10. CASE Binds
  BY <1>10 DEF Binds, TickFollows, Before, Registered, Pinned
<1>11. CASE Abandons \/ TickDies
  BY <1>1, <1>11 DEF Abandons, TickDies
<1>12. CASE \E t \in Runs : Works(t)
  BY <1>12 DEF Works, Active, TickFollows, Before,
              Registered, RunsFollow, UnresolvedRuns, Pinned, TipIsBase
<1>13. CASE \E t \in Runs : OperatorAbandons(t)
  BY <1>13 DEF OperatorAbandons, Active, TickFollows, Before,
              Registered, UnresolvedRuns, Pinned, TipIsBase
<1>14. CASE \E i \in Numbers : OperatorCleans(i)
  BY <1>14 DEF OperatorCleans, TickFollows, Before,
              Registered, UnresolvedRuns, Active, Pinned, TipIsBase
<1>15. QED
  BY <1>2, <1>3, <1>4, <1>5, <1>6, <1>7, <1>8, <1>9, <1>10, <1>11, <1>12, <1>13, <1>14, QuietSteps
     DEF Next, TickStep

LEMMA StandsOnItsPinsHolds ==
  ASSUME TypeOK, RunsFollow, TickFollows, StandsOnItsPins, [Next]_vars
  PROVE  StandsOnItsPins'
<1> USE RunTypes DEF TickAt, Active
<1>1. CASE UNCHANGED <<tree, plan, run, started>> /\ (UNCHANGED branch \/ branch = NoBranch)
  BY <1>1 DEF StandsOnItsPins, RunsFollow, NoBranch
<1>2. CASE WritesPlan \/ WritesRegistration \/ CreatesTree
  <2>1. \A t \in started : run'[t].state # "active"
    BY <1>2 DEF WritesPlan, WritesRegistration, CreatesTree, TickFollows, RunsFollow, Before,
                Registered, UnresolvedRuns, Pinned
  <2>2. started' = started
    BY <1>2 DEF WritesPlan, WritesRegistration, CreatesTree
  <2>3. QED
    BY <2>1, <2>2 DEF StandsOnItsPins
<1>3. CASE Binds
  BY <1>3 DEF Binds, StandsOnItsPins, TickFollows, Registered, Pinned, TipIsBase, ReadsBack
<1>4. CASE Abandons
  BY <1>4 DEF Abandons, StandsOnItsPins, TickFollows, Registered
<1>5. CASE \E t \in Runs : OperatorAbandons(t)
  BY <1>5 DEF OperatorAbandons, StandsOnItsPins
<1>6. CASE \E t \in Runs : Works(t)
  <2>1. PICK t \in Runs : Works(t)
    BY <1>6
  <2>2. t \in UnresolvedRuns /\ t \in started /\ run[t].issue \in Numbers
    BY <2>1 DEF Works, UnresolvedRuns, RunsFollow
  <2>3. \A s \in started : run[s].state = "active" => s = t
    BY <2>2 DEF RunsFollow, UnresolvedRuns
  <2>4. QED
    BY <2>1, <2>2, <2>3 DEF Works, StandsOnItsPins
<1>7. CASE \E i \in Numbers : OperatorCleans(i)
  <2>1. \A t \in started : run[t].state # "active"
    BY <1>7 DEF OperatorCleans, UnresolvedRuns
  <2>2. QED
    BY <1>7, <2>1 DEF OperatorCleans, StandsOnItsPins
<1>8. QED
  BY <1>1, <1>2, <1>3, <1>4, <1>5, <1>6, <1>7, QuietSteps
     DEF Next, TickStep, Selects, Begins, Demotes, Informs, RelabelsFor, ValidatesTree, Claims, TickDies

LEMMA WorkHasATreeHolds ==
  ASSUME TypeOK, RunsFollow, WorkHasATree, StandsOnItsPins, [Next]_vars
  PROVE  WorkHasATree'
<1> USE RunTypes
<1>1. CASE UNCHANGED tree
  BY <1>1 DEF WorkHasATree
<1>2. CASE CreatesTree
  BY <1>2 DEF CreatesTree, WorkHasATree
<1>3. CASE \E t \in Runs : Works(t)
  BY <1>3 DEF Works, WorkHasATree, StandsOnItsPins
<1>4. CASE \E i \in Numbers : OperatorCleans(i)
  BY <1>4 DEF OperatorCleans, WorkHasATree, NoTree
<1>5. QED
  BY <1>1, <1>2, <1>3, <1>4, QuietSteps
     DEF Next, TickStep, Selects, Begins, Demotes, Informs, RelabelsFor, WritesPlan,
         WritesRegistration, ValidatesTree, Binds, Claims, Abandons, TickDies, OperatorAbandons

LEMMA RunTyped ==
  ASSUME TypeOK, RunsFollow, TickFollows, CreateTypeOK', [Next]_vars
  PROVE  TypeOK'
<1> USE RunTypes
<1> DEFINE States == [state : {"none", "active", "abandoned"}, issue : 0..MaxIssues, body : Bodies,
                      base : 0..MaxHeads]
           Ticks == [pc : {"idle", "begin", "demote", "inform", "plan", "pins", "tree", "bind",
                           "abandon", "claim"},
                     id : 0..MaxRuns, issue : 0..MaxIssues, body : Bodies, base : 0..MaxHeads]
<1>1. tick' \in Ticks
  <2>1. tick \in Ticks
    BY DEF TypeOK
  <2>2. \A pc : pc \in {"idle", "begin", "demote", "inform", "plan", "pins", "tree", "bind",
                        "abandon", "claim"} => [tick EXCEPT !.pc = pc] \in Ticks
    BY <2>1
  <2>3. CASE Selects
    <3>1. PICK i \in Numbers : tick' = [pc |-> "begin", id |-> Min(Unused), issue |-> i,
                                        body |-> issue[i].body, base |-> 0]
      BY <2>3 DEF Selects, IdleTick
    <3>2. Min(Unused) \in 0..MaxRuns /\ i \in 0..MaxIssues /\ issue[i].body \in Bodies
      BY <2>3, UnusedId, IssueTypes, RunRegistrationAssumption, TodoCreateAssumption
         DEF Selects, Runs, Numbers, TypeOK
    <3>3. QED
      BY <3>1, <3>2
  <2>4. CASE Begins
    <3>1. \A b \in 0..MaxHeads : [tick EXCEPT !.pc = "plan", !.base = b] \in Ticks
      BY <2>1
    <3>2. main \in 0..MaxHeads
      OBVIOUS
    <3>3. tick' = [tick EXCEPT !.pc = "demote"] \/ tick' = [tick EXCEPT !.pc = "plan", !.base = main]
      BY <2>4 DEF Begins, TickGoes
    <3> HIDE DEF Ticks
    <3>4. QED
      BY <2>2, <3>1, <3>2, <3>3
  <2>5. IdleTick \in Ticks
    BY TodoCreateAssumption, RunRegistrationAssumption DEF IdleTick, Bodies
  <2> HIDE DEF Ticks
  <2>6. QED
    BY <2>1, <2>2, <2>3, <2>4, <2>5, QuietSteps
       DEF Next, TickStep, Demotes, Informs, RelabelsFor, WritesPlan, WritesRegistration,
           ValidatesTree, CreatesTree, Binds, Claims, Abandons, TickDies, Works, OperatorAbandons,
           OperatorCleans, TickGoes, TickEnds
<1>2. main' \in 1..MaxHeads
  <2>1. main' = main \/ (main < MaxHeads /\ main' = main + 1)
    BY DEF Next, CreateNext, TickStep, Selects, Begins, Demotes, Informs, RelabelsFor, WritesPlan,
           WritesRegistration, ValidatesTree, CreatesTree, Binds, Claims, Abandons, TickDies, Works,
           OperatorAbandons, OperatorCleans, PersonOffers, PersonMovesHead, PersonBranches,
           runVars, vars
  <2>2. QED
    BY <2>1
<1>3. branch' \in [base : 0..MaxHeads, by : SUBSET Runs]
  <2>1. \/ branch' \in {branch, NoBranch, [base |-> main, by |-> {}], [base |-> tick.base, by |-> {}]}
        \/ \E t \in Runs : branch' = [branch EXCEPT !.by = @ \cup {t}]
    BY DEF Next, CreateNext, TickStep, Selects, Begins, Demotes, Informs, RelabelsFor, WritesPlan,
           WritesRegistration, ValidatesTree, CreatesTree, Binds, Claims, Abandons, TickDies, Works,
           OperatorAbandons, OperatorCleans, PersonOffers, PersonMovesHead, PersonBranches,
           runVars, vars
  <2>2. tick.base \in 0..MaxHeads
    BY DEF TypeOK
  <2>3. QED
    BY <2>1, <2>2 DEF NoBranch
<1>4. tree' \in [Numbers -> [made : BOOLEAN, dirt : SUBSET Runs]]
  <2>1. \/ tree' = tree
        \/ \E i \in Numbers : \/ tree' = [tree EXCEPT ![i].made = TRUE]
                              \/ tree' = [tree EXCEPT ![i].dirt = {}]
                              \/ tree' = [tree EXCEPT ![i] = NoTree]
        \/ \E t \in Runs : tree' = [tree EXCEPT ![run[t].issue].dirt = @ \cup {t}]
        \/ \E t \in Runs : tree' = [tree EXCEPT ![run[t].issue].dirt = {}]
    BY DEF Next, CreateNext, TickStep, Selects, Begins, Demotes, Informs, RelabelsFor, WritesPlan,
           WritesRegistration, ValidatesTree, CreatesTree, Binds, Claims, Abandons, TickDies, Works,
           OperatorAbandons, OperatorCleans, PersonOffers, PersonMovesHead, PersonBranches,
           runVars, vars,
           TickFollows, TickAt, Matching
  <2> DEFINE Trees == [Numbers -> [made : BOOLEAN, dirt : SUBSET Runs]]
  <2>2. \A f \in Trees : \A i : /\ [f EXCEPT ![i].made = TRUE] \in Trees
                               /\ [f EXCEPT ![i].dirt = {}] \in Trees
                               /\ [f EXCEPT ![i] = NoTree] \in Trees
    BY DEF NoTree
  <2>3. \A f \in Trees, t \in Runs, i \in 0..MaxIssues : [f EXCEPT ![i].dirt = @ \cup {t}] \in Trees
    OBVIOUS
  <2>4. tree \in Trees /\ \A t \in Runs : run[t].issue \in 0..MaxIssues
    OBVIOUS
  <2> HIDE DEF Trees
  <2>5. tree' \in Trees
    <3>1. CASE tree' = tree
      BY ONLY <3>1, <2>4
    <3>2. CASE \E i \in Numbers : \/ tree' = [tree EXCEPT ![i].made = TRUE]
                                  \/ tree' = [tree EXCEPT ![i].dirt = {}]
                                  \/ tree' = [tree EXCEPT ![i] = NoTree]
      BY ONLY <3>2, <2>2, <2>4
    <3>3. CASE \E t \in Runs : tree' = [tree EXCEPT ![run[t].issue].dirt = @ \cup {t}]
      <4>1. PICK t \in Runs : tree' = [tree EXCEPT ![run[t].issue].dirt = @ \cup {t}]
        BY <3>3
      <4>2. [tree EXCEPT ![run[t].issue].dirt = @ \cup {t}] \in Trees
        BY <2>3, <2>4
      <4>3. QED
        BY ONLY <4>1, <4>2
    <3>4. CASE \E t \in Runs : tree' = [tree EXCEPT ![run[t].issue].dirt = {}]
      <4>1. PICK t \in Runs : tree' = [tree EXCEPT ![run[t].issue].dirt = {}]
        BY <3>4
      <4>2. [tree EXCEPT ![run[t].issue].dirt = {}] \in Trees
        BY <2>2, <2>4
      <4>3. QED
        BY ONLY <4>1, <4>2
    <3>5. QED
      BY ONLY <2>1, <3>1, <3>2, <3>3, <3>4
  <2>6. QED
    BY <2>5 DEF Trees
<1>5. plan' \in [Runs -> Bodies] /\ started' \subseteq Runs
  <2>1. /\ plan' = plan \/ (tick.id \in Runs /\ plan' = [plan EXCEPT ![tick.id] = tick.body])
        /\ started' = started \/ (tick.id \in Runs /\ started' = started \cup {tick.id})
    BY QuietSteps
       DEF Next, TickStep, Selects, Begins, Demotes, Informs, RelabelsFor, WritesPlan,
           WritesRegistration, ValidatesTree, CreatesTree, Binds, Claims, Abandons, TickDies, Works,
           OperatorAbandons, OperatorCleans, TickFollows, TickAt
  <2>2. tick.body \in Bodies
    BY DEF TypeOK
  <2>3. QED
    BY <2>1, <2>2
<1>6. run' \in [Runs -> States]
  <2>1. \/ run' = run \/ run' = [run EXCEPT ![tick.id] = Pinned]
        \/ \E t : run' = [run EXCEPT ![t].state = "abandoned"]
    BY QuietSteps
       DEF Next, TickStep, Selects, Begins, Demotes, Informs, RelabelsFor, WritesPlan,
           WritesRegistration, ValidatesTree, CreatesTree, Binds, Claims, Abandons, TickDies, Works,
           OperatorAbandons, OperatorCleans, TickFollows, TickAt, Runs
  <2>2. Pinned \in States
    BY DEF TypeOK, Pinned
  <2>3. QED
    BY <2>1, <2>2
<1>7. QED
  BY <1>1, <1>2, <1>3, <1>4, <1>5, <1>6 DEF TypeOK

-----------------------------------------------------------------------------
(* The theorems.                                                           *)

\* Nothing is there at the start.
LEMMA InitHolds == Init => RegistrationInv
<1> SUFFICES ASSUME Init PROVE RegistrationInv
  OBVIOUS
<1> USE RunRegistrationAssumption, TodoCreateAssumption DEF Init, CreateInit
<1>1. CreateTypeOK
  <2>1. NoIssue \in [body : Bodies, labels : SUBSET Labels, open : BOOLEAN, touched : BOOLEAN]
    BY DEF NoIssue, Bodies
  <2>2. issue \in [Numbers -> [body : Bodies, labels : SUBSET Labels, open : BOOLEAN,
                              touched : BOOLEAN]]
    BY <2>1
  <2>3. create \in [pc : {"idle", "list", "create", "relist", "fetch", "body", "check", "label",
                         "edit", "final"}, n : 0..MaxIssues, seen : SUBSET Labels]
    BY DEF Idle
  <2>4. /\ late \in 0..MaxIssues /\ faults \in 0..MaxFaults
        /\ crashes \in 0..MaxCrashes /\ acts \in 0..MaxActs
    OBVIOUS
  <2>5. request \in BOOLEAN /\ hold \in BOOLEAN
    BY Zenon
  <2>6. QED
    BY <2>2, <2>3, <2>4, <2>5 DEF CreateTypeOK
<1>2. TypeOK
  BY <1>1 DEF TypeOK, IdleTick, NoBranch, NoTree, NoRun, Bodies, Runs
<1>3. Matching = {} /\ Matching = 1..0
  BY DEF Matching, NoIssue
<1>4. Numbered /\ OneUntriaged /\ MadeInOrder /\ EditIsLeft
  BY <1>3 DEF Numbered, OneUntriaged, MadeInOrder, EditIsLeft, At, Idle, Working, Untriaged, NoIssue
<1>5. RunsFollow /\ TickFollows /\ WorkHasATree /\ StandsOnItsPins
  BY DEF RunsFollow, TickFollows, TickAt, IdleTick, Before, Registered, UnresolvedRuns, Active,
         NoRun, NoTree, WorkHasATree, StandsOnItsPins
<1>6. QED
  BY <1>1, <1>2, <1>4, <1>5 DEF RegistrationInv, CreateInv, PinsInv

LEMMA RegistrationInductive == RegistrationInv /\ [Next]_vars => RegistrationInv'
<1> SUFFICES ASSUME RegistrationInv, [Next]_vars PROVE RegistrationInv'
  OBVIOUS
<1>1. CreateInv' /\ Matching \subseteq Matching'
  BY CreateInductive DEF RegistrationInv, PinsInv
<1>2. PinsInv'
  BY <1>1, RunTyped, RunsFollowHold, TickFollowsHold, WorkHasATreeHolds, StandsOnItsPinsHolds
     DEF RegistrationInv, PinsInv, CreateInv
<1>3. QED
  BY <1>1, <1>2 DEF RegistrationInv

\* The creation of issues (todos_create.py) and the registration of runs (run_registration.py)
\* keep the invariant that the other theorems rest on, whatever fails, dies or is done by people.
THEOREM RegistrationInvariantHolds == Spec => []RegistrationInv
<1>1. QED
  BY InitHolds, RegistrationInductive, PTL DEF Spec

\* Every variable keeps its type.
THEOREM TypesHold == Spec => []TypeOK
<1>1. RegistrationInv => TypeOK
  BY DEF RegistrationInv, PinsInv
<1>2. QED
  BY <1>1, RegistrationInvariantHolds, PTL

\* However often a creation is rerun, late or dead in between, two issues of one request are never
\* both released: the second that GitHub gets, late or not, stays in triage (todos_create.py:361-380).
THEOREM ReleasesOne == Spec => []OneReleasedIssue
<1>1. RegistrationInv => OneReleasedIssue
  BY DEF RegistrationInv, CreateInv, OneUntriaged, OneReleasedIssue, Released, Untriaged, NoIssue
<1>2. QED
  BY <1>1, RegistrationInvariantHolds, PTL

\* A released issue that nobody touched has its Plan, its mirror label and the hold that the
\* request asked for (todos_create.py:396-440).
THEOREM ReleasesComplete == Spec => []ReleasedIsComplete
<1>1. ASSUME RegistrationInv, NEW i \in Numbers, Released(i), ~issue[i].touched
      PROVE  issue[i].body = "final" /\ "mirror" \in issue[i].labels /\ HoldStands(i)
  <2>1. issue[i].body # "none" /\ Untriaged(i)
    BY <1>1 DEF RegistrationInv, CreateInv, OneUntriaged, Released, Untriaged, NoIssue
  <2>2. InOrder(i)
    BY <1>1, <2>1 DEF RegistrationInv, CreateInv, MadeInOrder, Matching
  <2>3. QED
    BY <1>1, <2>1, <2>2 DEF InOrder
<1>2. RegistrationInv => ReleasedIsComplete
  BY <1>1 DEF ReleasedIsComplete
<1>3. QED
  BY <1>2, RegistrationInvariantHolds, PTL

\* A run that started and was not given up works on the Plan that was listed, in a worktree on the
\* branch at the pinned base, with no work of another run (run_registration.py:499-560).
THEOREM RunsStandOnTheirPins == Spec => []StandsOnItsPins
<1>1. RegistrationInv => StandsOnItsPins
  BY DEF RegistrationInv, PinsInv
<1>2. QED
  BY <1>1, RegistrationInvariantHolds, PTL

\* No two runs of the project are unresolved at once: no tick selects while one is, and only a
\* tick registers one (cli.py, _tick_project).
THEOREM OneRunIsUnresolved == Spec => [](\A s, t \in UnresolvedRuns : s = t)
<1>1. RegistrationInv => \A s, t \in UnresolvedRuns : s = t
  BY DEF RegistrationInv, PinsInv, RunsFollow
<1>2. QED
  BY <1>1, RegistrationInvariantHolds, PTL

=============================================================================
