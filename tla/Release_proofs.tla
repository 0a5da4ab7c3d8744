---------------------------- MODULE Release_proofs ----------------------------
(***************************************************************************)
(* Theorems of Release, for any number of approvers, commits, faults and   *)
(* acts of people.                                                         *)
(***************************************************************************)
EXTENDS Release, FiniteSetTheorems, TLAPS

-----------------------------------------------------------------------------
(* The inductive invariant of a pinned run's delivery.                     *)

Passed == CheckState(ci) = "passed"

\* What the delivery names was merged, and its checks passed.
Delivered ==
  /\ pr.state = "merged"
  /\ pr.head = claim.head
  /\ Passed

\* The report the tick goes by was read once it was final.
Verified ==
  /\ card = "done"
  /\ claim.head = claim.git
  /\ Len(claim.git) <= 1

Closing == {"drift", "look", "comment", "record", "close", "label", "confirm"}

\* What the tick has established at each step of a reconciliation: nothing of it can be undone,
\* since a report is final, a merged pull request keeps its head, and checks that passed report
\* no more.
TickKnows ==
  /\ ~(At(Tick, "idle") \/ At(Tick, "finish")) => Verified
  /\ At(Tick, "checks") /\ ~closer[Tick].open => pr.state = "merged" /\ pr.head = claim.head
  /\ closer[Tick].pc \in Closing => Delivered

\* The same of what it has left behind it.
MarkersTell ==
  /\ "issue-closed" \in files => Delivered /\ Verified
  /\ comments[RunMarker] > 0 => pr.state = "merged" /\ Passed

\* A comment without its receipt is paid for with a fault, but for the one about to be recorded.
Receipted ==
  /\ At(Tick, "comment") => "issue-commented" \notin files
  /\ comments[RunMarker] <= 1 + faults
  /\ "issue-commented" \notin files /\ ~At(Tick, "record") => comments[RunMarker] <= faults

\* An operator's comment is paid for with the move that began it.
MovesPay ==
  \A q \in Prs :
    /\ comments[Manual(q)] <= moves
    /\ closer[Operator].pc \in {"look", "comment"} /\ closer[Operator].pr = q =>
         comments[Manual(q)] < moves

DeliveryInv == TickKnows /\ MarkersTell /\ Receipted /\ MovesPay

-----------------------------------------------------------------------------
(* The inductive invariant of a gated run's approvals.                     *)

Bumping == {"checkout", "edit", "commit", "push"}

\* The approval that is under way holds the lock, and the sidecar it read is the one there is:
\* not yet bumped before the bump, bumped after it.
OneApproves ==
  \A a \in Approvers :
    /\ IF owner = a THEN approval[a].pc # "idle" /\ sidecar.there ELSE approval[a] = NoApproval
    /\ approval[a].pc \in Bumping => approval[a].sc = sidecar /\ ~sidecar.bumped
    /\ approval[a].pc = "view" => approval[a].sc = sidecar
    /\ approval[a].pc \in {"restore", "persist"} => ~sidecar.bumped
    /\ approval[a].pc \in {"persist", "ci", "merge"} => approval[a].sc.there /\ approval[a].sc.bumped
    /\ approval[a].pc \in {"complete", "delete"} => pr.state = "merged"
    /\ approval[a].pc = "delete" => gate = "done"

\* The sidecar names the ready head until the bump, and outlives the merge until the gate is done.
SidecarStands ==
  /\ ~sidecar.there => sidecar = NoSidecar
  /\ sidecar.there /\ ~sidecar.bumped => sidecar.head = ready
  /\ mergedBy = "gate" => pr.state = "merged" /\ (sidecar.there \/ gate = "done")

\* Where h has the commits that no review has seen.
Others(h) == {i \in 1..Len(h) : h[i] = "other"}

\* Unless somebody committed or pulled there, the local branch has nothing over origin but bumps.
OnlyBumpsAhead == ~local => \A i \in 1..Len(branch) : i > Len(remote) => branch[i] = "bump"

\* Origin only grows.
OriginGrows == pr.state # "open" => IsPrefix(pr.head, remote)

\* A bumped head is on origin, and adds nothing unreviewed to the ready one.
BumpedFits(s) ==
  s.bumped =>
    /\ ~local => IsPrefix(s.head, remote)
    /\ ~local /\ ~forced /\ pr.state = "open" => Others(s.head) = Others(ready)

\* What an approval relies on between its look at the pull request and the merge.
ApprovalFits(a) ==
  /\ BumpedFits(approval[a].sc)
  /\ approval[a].pc \in Bumping /\ ~forced /\ ~local /\ pr.state = "open" =>
       /\ IsPrefix(ready, remote)
       /\ \A i \in 1..Len(branch) : i > Len(ready) => branch[i] = "bump"
  /\ approval[a].pc = "restore" /\ ~local =>
       /\ IsPrefix(branch, remote)
       /\ ~forced /\ pr.state = "open" => Others(branch) = Others(ready)
  /\ approval[a].pc = "merge" /\ ~local /\ pr.state = "open" /\ remote = approval[a].sc.head => Passed

HeadsFit ==
  /\ OnlyBumpsAhead
  /\ OriginGrows
  /\ BumpedFits(sidecar)
  /\ \A a \in Approvers : ApprovalFits(a)

\* A bump that no sidecar remembers is paid for with a fault, but for the one under way.
Remembered == sidecar.bumped \/ \E a \in Approvers : approval[a].pc \in {"restore", "persist"}
Committed == Remembered \/ \E a \in Approvers : approval[a].pc = "push"

BumpsArePaid ==
  pr.state # "merged" =>
    /\ CountOf("bump", remote) <= faults + (IF Remembered THEN 1 ELSE 0)
    /\ IsPrefix(remote, branch) =>
         CountOf("bump", branch) <= faults + (IF Committed THEN 1 ELSE 0)

GateInv ==
  /\ OneApproves
  /\ SidecarStands
  /\ HeadsFit
  /\ BumpsArePaid
  /\ GateMergesAccepted
  /\ BumpsAreAccounted

-----------------------------------------------------------------------------
(* A run is of one kind for good.                                          *)

ReleaseInv ==
  /\ TypeOK
  /\ IF Pinned THEN GateAtRest /\ DeliveryInv ELSE NoDeliveryInit /\ GateInv

-----------------------------------------------------------------------------
(* Heads.                                                                  *)

\* A head is a sequence of at most MaxCommits commits.
LEMMA HeadIsSeq ==
  ASSUME NEW h \in Heads
  PROVE  h \in Seq(Commits) /\ Len(h) \in 0..MaxCommits
<1>1. PICK m \in 0..MaxCommits : h \in [1..m -> Commits]
  BY DEF Heads, BoundedSeq, SeqOf
<1>2. m \in Nat
  BY <1>1, PullRequestAssumption
<1>3. h \in Seq(Commits) /\ Len(h) = m
  BY <1>1, <1>2
<1>4. QED
  BY <1>1, <1>3

\* And conversely.
LEMMA SeqIsHead ==
  ASSUME NEW h \in Seq(Commits), Len(h) <= MaxCommits
  PROVE  h \in Heads
<1>1. Len(h) \in 0..MaxCommits /\ h \in [1..Len(h) -> Commits]
  BY PullRequestAssumption
<1>2. QED
  BY <1>1 DEF Heads, BoundedSeq, SeqOf

\* A commit makes a head longer by itself.
LEMMA AppendHead ==
  ASSUME NEW h \in Heads, NEW c \in Commits
  PROVE  /\ Len(h) \in Nat
         /\ Len(Append(h, c)) = Len(h) + 1
         /\ \A i \in 1..Len(h) : Append(h, c)[i] = h[i]
         /\ Append(h, c)[Len(h) + 1] = c
         /\ Len(h) < MaxCommits => Append(h, c) \in Heads
<1>1. h \in Seq(Commits) /\ Len(h) \in Nat
  BY HeadIsSeq
<1>2. Append(h, c) \in Seq(Commits) /\ Len(Append(h, c)) = Len(h) + 1
  BY <1>1
<1>3. Len(h) < MaxCommits => Len(Append(h, c)) <= MaxCommits
  BY <1>1, <1>2, PullRequestAssumption
<1>4. Len(h) < MaxCommits => Append(h, c) \in Heads
  BY <1>2, <1>3, SeqIsHead
<1>5. QED
  BY <1>1, <1>2, <1>4

\* The empty head and the finish worker's.
LEMMA FirstHeads ==
  <<>> \in Heads /\ <<"finish">> \in Heads
<1>1. <<>> \in Seq(Commits) /\ Len(<<>>) = 0
  OBVIOUS
<1>2. <<"finish">> \in Seq(Commits) /\ Len(<<"finish">>) = 1
  BY DEF Commits
<1>3. 0 <= MaxCommits /\ 1 <= MaxCommits
  BY PullRequestAssumption
<1>4. <<>> \in Heads
  BY <1>1, <1>3, SeqIsHead
<1>5. <<"finish">> \in Heads
  BY <1>2, <1>3, SeqIsHead
<1>6. QED
  BY <1>4, <1>5

\* What a prefix is, commit by commit.
LEMMA PrefixIs ==
  ASSUME NEW s \in Heads, NEW t \in Heads
  PROVE  IsPrefix(s, t) <=> Len(s) <= Len(t) /\ \A i \in 1..Len(s) : s[i] = t[i]
<1>1. s \in Seq(Commits) /\ t \in Seq(Commits) /\ Len(s) \in Nat /\ Len(t) \in Nat
  BY HeadIsSeq
<1>2. ASSUME Len(s) <= Len(t)
      PROVE  /\ SubSeq(s, 1, Len(s)) = [i \in 1..Len(s) |-> s[i]]
             /\ SubSeq(t, 1, Len(s)) = [i \in 1..Len(s) |-> t[i]]
  BY <1>1, <1>2
<1>3. Len(s) <= Len(t) =>
        (SubSeq(s, 1, Len(s)) = SubSeq(t, 1, Len(s)) <=> \A i \in 1..Len(s) : s[i] = t[i])
  <2> SUFFICES ASSUME Len(s) <= Len(t)
               PROVE  SubSeq(s, 1, Len(s)) = SubSeq(t, 1, Len(s)) <=> \A i \in 1..Len(s) : s[i] = t[i]
    OBVIOUS
  <2> DEFINE f == [i \in 1..Len(s) |-> s[i]]
             g == [i \in 1..Len(s) |-> t[i]]
  <2>1. f = g <=> \A i \in 1..Len(s) : s[i] = t[i]
    <3>1. ASSUME f = g PROVE \A i \in 1..Len(s) : s[i] = t[i]
      <4>1. \A i \in 1..Len(s) : f[i] = s[i] /\ g[i] = t[i]
        OBVIOUS
      <4>2. QED
        BY <3>1, <4>1
    <3>2. QED
      BY <3>1
  <2>2. QED
    BY <1>2, <2>1
<1>4. QED
  BY <1>3 DEF IsPrefix

\* Heads with the same commits are the same.
LEMMA SameHead ==
  ASSUME NEW s \in Heads, NEW t \in Heads, Len(s) = Len(t), \A i \in 1..Len(s) : s[i] = t[i]
  PROVE  s = t
<1>1. s \in Seq(Commits) /\ t \in Seq(Commits)
  BY HeadIsSeq
<1>2. QED
  BY <1>1

\* Prefixes are transitive, and a head is a prefix of what is committed on it.
LEMMA PrefixOfPrefix ==
  ASSUME NEW r \in Heads, NEW s \in Heads, NEW t \in Heads, IsPrefix(r, s), IsPrefix(s, t)
  PROVE  IsPrefix(r, t)
<1>1. Len(r) \in Nat /\ Len(s) \in Nat /\ Len(t) \in Nat
  BY HeadIsSeq
<1>2. Len(r) <= Len(s) /\ \A i \in 1..Len(r) : r[i] = s[i]
  BY PrefixIs
<1>3. Len(s) <= Len(t) /\ \A i \in 1..Len(s) : s[i] = t[i]
  BY PrefixIs
<1>4. Len(r) <= Len(t) /\ \A i \in 1..Len(r) : r[i] = t[i]
  BY <1>1, <1>2, <1>3
<1>5. QED
  BY <1>4, PrefixIs

\* A head is a prefix of itself and of what is committed on it.
LEMMA PrefixOfAppend ==
  ASSUME NEW h \in Heads, NEW c \in Commits, Append(h, c) \in Heads
  PROVE  IsPrefix(h, h) /\ IsPrefix(h, Append(h, c))
<1>1. /\ Len(h) \in Nat
      /\ Len(Append(h, c)) = Len(h) + 1
      /\ \A i \in 1..Len(h) : Append(h, c)[i] = h[i]
  BY AppendHead
<1>2. IsPrefix(h, h)
  BY <1>1, PrefixIs
<1>3. Len(h) <= Len(Append(h, c)) /\ \A i \in 1..Len(h) : h[i] = Append(h, c)[i]
  BY <1>1
<1>4. IsPrefix(h, Append(h, c))
  BY <1>3, PrefixIs
<1>5. QED
  BY <1>2, <1>4

\* A head that becomes a prefix by a commit is the new head.
LEMMA PrefixByAppend ==
  ASSUME NEW h \in Heads, NEW r \in Heads, NEW c \in Commits, Append(h, c) \in Heads,
         IsPrefix(r, Append(h, c)), ~IsPrefix(r, h)
  PROVE  r = Append(h, c)
<1>1. /\ Len(h) \in Nat /\ Len(r) \in Nat
      /\ Len(Append(h, c)) = Len(h) + 1
      /\ \A i \in 1..Len(h) : Append(h, c)[i] = h[i]
  BY AppendHead, HeadIsSeq
<1>2. Len(r) <= Len(h) + 1 /\ \A i \in 1..Len(r) : r[i] = Append(h, c)[i]
  BY PrefixIs, <1>1
<1>3. ~(Len(r) <= Len(h))
  <2> SUFFICES ASSUME Len(r) <= Len(h) PROVE FALSE
    OBVIOUS
  <2>1. \A i \in 1..Len(r) : r[i] = h[i]
    BY <1>1, <1>2
  <2>2. QED
    BY <2>1, PrefixIs
<1>4. Len(r) = Len(h) + 1
  BY <1>1, <1>2, <1>3
<1>5. QED
  BY <1>1, <1>2, <1>4, SameHead

-----------------------------------------------------------------------------
(* Counting commits.                                                       *)

\* How often a commit occurs is a number.
LEMMA CountIsNat ==
  ASSUME NEW h \in Heads, NEW c
  PROVE  /\ IsFiniteSet({i \in 1..Len(h) : h[i] = c})
         /\ CountOf(c, h) \in Nat
<1>1. Len(h) \in Nat
  BY HeadIsSeq
<1>2. IsFiniteSet(1..Len(h))
  BY <1>1, FS_Interval
<1>3. IsFiniteSet({i \in 1..Len(h) : h[i] = c})
  BY <1>2, FS_Subset
<1>4. QED
  BY <1>3, FS_CardinalityType DEF CountOf

\* A commit counts once.
LEMMA CountAppend ==
  ASSUME NEW h \in Heads, NEW d \in Commits, NEW c
  PROVE  CountOf(c, Append(h, d)) = CountOf(c, h) + (IF d = c THEN 1 ELSE 0)
<1> DEFINE S == {i \in 1..Len(h) : h[i] = c}
           T == {i \in 1..Len(Append(h, d)) : Append(h, d)[i] = c}
<1>1. /\ Len(h) \in Nat
      /\ Len(Append(h, d)) = Len(h) + 1
      /\ \A i \in 1..Len(h) : Append(h, d)[i] = h[i]
      /\ Append(h, d)[Len(h) + 1] = d
  BY AppendHead
<1>2. IsFiniteSet(S) /\ Cardinality(S) \in Nat
  BY CountIsNat, FS_CardinalityType
<1>3. T = IF d = c THEN S \cup {Len(h) + 1} ELSE S
  <2>1. \A i : i \in T <=> i \in S \/ (d = c /\ i = Len(h) + 1)
    <3>1. \A i : i \in 1..(Len(h) + 1) <=> i \in 1..Len(h) \/ i = Len(h) + 1
      BY <1>1
    <3>2. QED
      BY <1>1, <3>1
  <2>2. QED
    BY <2>1
<1>4. Len(h) + 1 \notin S
  BY <1>1
<1>5. d = c => Cardinality(T) = Cardinality(S) + 1
  BY <1>2, <1>3, <1>4, FS_AddElement
<1>6. CountOf(c, h) = Cardinality(S) /\ CountOf(c, Append(h, d)) = Cardinality(T)
  BY DEF CountOf
<1> HIDE DEF S, T
<1>7. CASE d = c
  BY <1>2, <1>5, <1>6, <1>7
<1>8. CASE d # c
  BY <1>2, <1>3, <1>6, <1>8
<1>9. QED
  BY <1>7, <1>8

-----------------------------------------------------------------------------
(* Checks and the pull request.                                            *)

\* Checks that still report have not passed.
LEMMA ReportingIsNotPassed ==
  CheckState(Running) # "passed" /\ CheckState(Waiting) # "passed"
<1>1. CheckState(Running) # "passed"
  BY DEF CheckState, Running, Evidence, ClassifyCheckStates, CHECKS_GREEN, CHECKS_RED, CHECKS_TRANSIENT
<1>2. Waiting.states = {} /\ ~RollupIsHonestlyEmpty(Waiting)
  BY DEF Waiting, Evidence, Suite, RollupIsHonestlyEmpty
<1>3. CheckState(Waiting) # "passed"
  BY <1>2 DEF CheckState
<1>4. QED
  BY <1>1, <1>3

\* So what has passed reports no more.
LEMMA PassedReportsNoMore ==
  ASSUME Passed
  PROVE  ~CiReports
BY ReportingIsNotPassed DEF Passed, CiReports

\* What the gate takes for green, delivery takes for passed.
LEMMA GreenPasses ==
  ASSUME CiIsGreen(ci.states) \/ (ci.states = {} /\ RollupIsHonestlyEmpty(ci))
  PROVE  Passed
<1>1. CASE CiIsGreen(ci.states)
  <2>1. /\ ci.states # {}
        /\ ci.states \subseteq CHECKS_GREEN
        /\ ci.states \cap CHECKS_RED = {}
        /\ ci.states \cap CHECKS_TRANSIENT = {}
    BY <1>1 DEF CiIsGreen, CHECKS_GREEN, CHECKS_RED, CHECKS_TRANSIENT
  <2>2. QED
    BY <2>1 DEF Passed, CheckState, ClassifyCheckStates
<1>2. CASE ci.states = {} /\ RollupIsHonestlyEmpty(ci)
  BY <1>2 DEF Passed, CheckState
<1>3. QED
  BY <1>1, <1>2

\* The rollups of a head that is new, and of one that reports.
LEMMA RunningIsRollup ==
  Running \in Rollups
BY DEF Rollups

-----------------------------------------------------------------------------
(* What a step of a delivery can change.                                   *)

\* Heads grow by a commit, or origin takes the local one.
LEMMA DeliveryMovesHeads ==
  ASSUME DeliveryNext
  PROVE  /\ \/ branch' = branch
            \/ Len(branch) < MaxCommits /\ \E c \in Commits : branch' = Append(branch, c)
         /\ \/ remote' = remote
            \/ remote' = branch
            \/ Len(remote) < MaxCommits /\ remote' = Append(remote, "other")
<1>1. CASE TickStep
  BY <1>1 DEF TickStep, TickReconciles, TickReconcilesPending, VerifiesFinish, ViewsPr, ReadsChecks,
       RechecksDrift, CloseStep, LooksAtIssue, AddsComment, RecordsComment, ClosesIssue, RemovesLabel,
       Confirms, prVars
<1>2. CASE World
  <2>1. "finish" \in Commits /\ "other" \in Commits
    BY DEF Commits
  <2>2. CASE AdmitsFinish \/ WorkerCommits \/ WorkerPushes \/ WorkerOpensPr \/ WorkerReports \/ TailFinishes
    BY <2>1, <2>2 DEF AdmitsFinish, WorkerCommits, WorkerPushes, WorkerOpensPr, WorkerReports,
         TailFinishes, prVars, SetRemote
  <2>3. CASE PeopleAct
    BY <2>1, <2>3 DEF PeopleAct, CiReports, CommitsLocally, PushesElsewhere, ClosesPr, SetRemote
  <2>4. CASE PersonMerges \/ PersonChangesIssue \/ Abandons \/ Superseded
    BY <2>4 DEF PersonMerges, PersonChangesIssue, Abandons, Superseded, prVars
  <2>5. CASE (\E m \in Markers : ListingShows(m))
             \/ (\E q \in Prs, f \in BOOLEAN : OperatorCompletes(q, f))
             \/ (\E p \in Closers : Breaks(p))
    BY <2>5 DEF ListingShows, OperatorCompletes, Breaks, prVars
  <2>6. CASE CloseStep(Operator)
    BY <2>6 DEF CloseStep, LooksAtIssue, AddsComment, RecordsComment, ClosesIssue, RemovesLabel,
         Confirms, prVars
  <2>7. QED
    BY <1>2, <2>2, <2>3, <2>4, <2>5, <2>6 DEF World
<1>3. QED
  BY <1>1, <1>2 DEF DeliveryNext

\* A pull request is opened, merged or closed at origin's head; its checks begin anew or report.
LEMMA DeliveryMovesPr ==
  ASSUME DeliveryNext
  PROVE  /\ \/ pr' = pr
            \/ pr.state = "none" /\ pr' = [state |-> "open", head |-> <<>>]
            \/ pr.state = "open" /\ pr' \in {[state |-> "merged", head |-> remote],
                                             [state |-> "closed", head |-> remote]}
         /\ \/ ci' = ci
            \/ pr.state # "merged" /\ ci' = Running
            \/ CiReports
<1>1. CASE TickStep
  BY <1>1 DEF TickStep, TickReconciles, TickReconcilesPending, VerifiesFinish, ViewsPr, ReadsChecks,
       RechecksDrift, CloseStep, LooksAtIssue, AddsComment, RecordsComment, ClosesIssue, RemovesLabel,
       Confirms, prVars
<1>2. CASE World
  <2>2. CASE AdmitsFinish \/ WorkerCommits \/ WorkerPushes \/ WorkerOpensPr \/ WorkerReports \/ TailFinishes
    BY <2>2 DEF AdmitsFinish, WorkerCommits, WorkerPushes, WorkerOpensPr, WorkerReports,
         TailFinishes, prVars, SetRemote
  <2>3. CASE PeopleAct
    BY <2>3 DEF PeopleAct, CiReports, CommitsLocally, PushesElsewhere, ClosesPr, SetRemote
  <2>4. CASE PersonMerges \/ PersonChangesIssue \/ Abandons \/ Superseded
    BY <2>4 DEF PersonMerges, PersonChangesIssue, Abandons, Superseded, prVars, Merges
  <2>5. CASE (\E m \in Markers : ListingShows(m))
             \/ (\E q \in Prs, f \in BOOLEAN : OperatorCompletes(q, f))
             \/ (\E p \in Closers : Breaks(p))
    BY <2>5 DEF ListingShows, OperatorCompletes, Breaks, prVars
  <2>6. CASE CloseStep(Operator)
    BY <2>6 DEF CloseStep, LooksAtIssue, AddsComment, RecordsComment, ClosesIssue, RemovesLabel,
         Confirms, prVars
  <2>7. QED
    BY <1>2, <2>2, <2>3, <2>4, <2>5, <2>6 DEF World
<1>3. QED
  BY <1>1, <1>2 DEF DeliveryNext

\* Faults and moves are counted, within their bounds.
LEMMA DeliveryCounts ==
  ASSUME PrTypeOK, DeliveryNext
  PROVE  /\ faults \in Nat /\ moves \in Nat
         /\ faults' = faults \/ (faults < MaxFaults /\ faults' = faults + 1)
         /\ moves' = moves \/ (moves < MaxMoves /\ moves' = moves + 1)
<1>1. faults \in Nat /\ moves \in Nat
  BY PullRequestAssumption DEF PrTypeOK
<1>2. CASE TickStep
  BY <1>1, <1>2 DEF TickStep, TickReconciles, TickReconcilesPending, VerifiesFinish, ViewsPr, ReadsChecks,
       RechecksDrift, CloseStep, LooksAtIssue, AddsComment, RecordsComment, ClosesIssue, RemovesLabel,
       Confirms, prVars, Fails
<1>3. CASE World
  <2>2. CASE AdmitsFinish \/ WorkerCommits \/ WorkerPushes \/ WorkerOpensPr \/ WorkerReports \/ TailFinishes
    BY <1>1, <2>2 DEF AdmitsFinish, WorkerCommits, WorkerPushes, WorkerOpensPr, WorkerReports,
         TailFinishes, prVars, SetRemote
  <2>3. CASE PeopleAct
    BY <1>1, <2>3 DEF PeopleAct, CiReports, CommitsLocally, PushesElsewhere, ClosesPr, SetRemote, Moves
  <2>4. CASE PersonMerges \/ PersonChangesIssue \/ Abandons \/ Superseded
    BY <1>1, <2>4 DEF PersonMerges, PersonChangesIssue, Abandons, Superseded, prVars, Moves
  <2>5. CASE (\E m \in Markers : ListingShows(m))
             \/ (\E q \in Prs, f \in BOOLEAN : OperatorCompletes(q, f))
             \/ (\E p \in Closers : Breaks(p))
    BY <1>1, <2>5 DEF ListingShows, OperatorCompletes, Breaks, prVars, Moves, Fails
  <2>6. CASE CloseStep(Operator)
    BY <1>1, <2>6 DEF CloseStep, LooksAtIssue, AddsComment, RecordsComment, ClosesIssue, RemovesLabel,
         Confirms, prVars, Fails
  <2>7. QED
    BY <1>3, <2>2, <2>3, <2>4, <2>5, <2>6 DEF World
<1>4. QED
  BY <1>1, <1>2, <1>3 DEF DeliveryNext

\* So the heads, the pull request, its checks and the counters keep their types.
LEMMA DeliveryKeepsPrTypes ==
  ASSUME PrTypeOK, DeliveryNext
  PROVE  PrTypeOK'
<1>1. branch' \in Heads /\ remote' \in Heads
  <2>1. branch \in Heads /\ remote \in Heads /\ "other" \in Commits
    BY DEF PrTypeOK, Commits
  <2>2. branch' \in Heads
    BY <2>1, DeliveryMovesHeads, AppendHead
  <2>3. remote' \in Heads
    BY <2>1, DeliveryMovesHeads, AppendHead
  <2>4. QED
    BY <2>2, <2>3
<1>2. pr' \in [state : PrStates, head : Heads]
  <2>1. pr \in [state : PrStates, head : Heads] /\ remote \in Heads /\ <<>> \in Heads
    BY FirstHeads DEF PrTypeOK
  <2>2. \A s \in PrStates, k \in Heads : [state |-> s, head |-> k] \in [state : PrStates, head : Heads]
    OBVIOUS
  <2>3. QED
    BY <2>1, <2>2, DeliveryMovesPr DEF PrStates
<1>3. ci' \in Rollups
  BY DeliveryMovesPr, RunningIsRollup DEF PrTypeOK, CiReports
<1>4. moves' \in 0..MaxMoves /\ faults' \in 0..MaxFaults
  BY DeliveryCounts, PullRequestAssumption DEF PrTypeOK
<1>5. QED
  BY <1>1, <1>2, <1>3, <1>4 DEF PrTypeOK

\* A merged pull request keeps its head, and passed checks stay passed.
LEMMA MergedIsFinal ==
  ASSUME DeliveryNext, pr.state = "merged"
  PROVE  /\ pr' = pr
         /\ Passed => Passed'
<1>1. pr' = pr
  BY DeliveryMovesPr
<1>2. ASSUME Passed PROVE Passed'
  <2>1. ci' = ci
    BY <1>2, DeliveryMovesPr, PassedReportsNoMore
  <2>2. QED
    BY <1>2, <2>1 DEF Passed
<1>3. QED
  BY <1>1, <1>2

\* The report is final once it is made.
LEMMA ReportIsFinal ==
  ASSUME DeliveryNext, card = "done"
  PROVE  card' = "done" /\ claim' = claim
<1>1. CASE TickStep
  BY <1>1 DEF TickStep, TickReconciles, TickReconcilesPending, VerifiesFinish, ViewsPr, ReadsChecks,
       RechecksDrift, CloseStep, LooksAtIssue, AddsComment, RecordsComment, ClosesIssue, RemovesLabel,
       Confirms
<1>2. CASE World
  <2>2. CASE AdmitsFinish \/ WorkerCommits \/ WorkerPushes \/ WorkerOpensPr \/ WorkerReports \/ TailFinishes
    BY <2>2 DEF AdmitsFinish, WorkerCommits, WorkerPushes, WorkerOpensPr, WorkerReports,
         TailFinishes, dVars
  <2>3. CASE PeopleAct /\ UNCHANGED dVars
    BY <2>3 DEF dVars
  <2>4. CASE PersonMerges \/ PersonChangesIssue \/ Abandons \/ Superseded
    BY <2>4 DEF PersonMerges, PersonChangesIssue, Abandons, Superseded
  <2>5. CASE (\E m \in Markers : ListingShows(m))
             \/ (\E q \in Prs, f \in BOOLEAN : OperatorCompletes(q, f))
             \/ (\E p \in Closers : Breaks(p))
    BY <2>5 DEF ListingShows, OperatorCompletes, Breaks
  <2>6. CASE CloseStep(Operator)
    BY <2>6 DEF CloseStep, LooksAtIssue, AddsComment, RecordsComment, ClosesIssue, RemovesLabel,
         Confirms
  <2>7. QED
    BY <1>2, <2>2, <2>3, <2>4, <2>5, <2>6 DEF World
<1>3. QED
  BY <1>1, <1>2 DEF DeliveryNext

\* What was delivered stays delivered.
LEMMA DeliveredStays ==
  ASSUME DeliveryNext
  PROVE  /\ Verified => Verified'
         /\ Verified /\ Delivered => Delivered'
         /\ Verified /\ pr.state = "merged" /\ pr.head = claim.head =>
              pr'.state = "merged" /\ pr'.head = claim'.head
         /\ pr.state = "merged" /\ Passed => pr'.state = "merged" /\ Passed'
<1>1. Verified => Verified'
  BY ReportIsFinal DEF Verified
<1>2. Verified /\ Delivered => Delivered'
  BY ReportIsFinal, MergedIsFinal DEF Verified, Delivered
<1>3. Verified /\ pr.state = "merged" /\ pr.head = claim.head =>
              pr'.state = "merged" /\ pr'.head = claim'.head
  BY ReportIsFinal, MergedIsFinal DEF Verified
<1>4. pr.state = "merged" /\ Passed => pr'.state = "merged" /\ Passed'
  BY MergedIsFinal
<1>5. QED
  BY <1>1, <1>2, <1>3, <1>4

\* The types of a close under way, and that the tick and the operator are two.
Closes == [pc : Pcs, pr : Prs, force : BOOLEAN, open : BOOLEAN, label : BOOLEAN]

LEMMA TwoClosers ==
  /\ Tick \in Closers /\ Operator \in Closers /\ Tick # Operator
  /\ \A p \in Closers : p = Tick \/ p = Operator
  /\ HasRun(Tick) /\ ~HasRun(Operator)
  /\ Idle \in Closes
BY DeliveryAssumption DEF Closers, HasRun, Idle, Closes, Pcs, Prs

\* What each step of closing does to its own close.
LEMMA CloseStepMoves ==
  ASSUME DeliveryTypeOK, NEW p \in Closers, CloseStep(p)
  PROVE  /\ closer' \in [Closers -> Closes]
         /\ \A r \in Closers \ {p} : closer'[r] = closer[r]
         /\ \/ closer'[p] = Idle
            \/ closer'[p].pr = closer[p].pr /\ <<closer[p].pc, closer'[p].pc>> \in
                 {<<"look", "close">>, <<"look", "comment">>, <<"comment", "record">>,
                  <<"record", "close">>, <<"close", "label">>, <<"label", "confirm">>}
<1>1. closer \in [Closers -> Closes] /\ Idle \in Closes
  BY TwoClosers DEF DeliveryTypeOK, Closes
<1>2. closer[p] \in Closes
  BY <1>1
<1>3. issue.label \in BOOLEAN
  BY DEF DeliveryTypeOK
<1>4. ASSUME NEW x \in Closes, closer' = [closer EXCEPT ![p] = x]
      PROVE  /\ closer' \in [Closers -> Closes]
             /\ \A r \in Closers \ {p} : closer'[r] = closer[r]
             /\ closer'[p] = x
  BY <1>1, <1>4
<1>5. ASSUME NEW pc \in Pcs, closer' = [closer EXCEPT ![p].pc = pc]
      PROVE  /\ closer' \in [Closers -> Closes]
             /\ \A r \in Closers \ {p} : closer'[r] = closer[r]
             /\ closer'[p].pr = closer[p].pr /\ closer'[p].pc = pc
  <2>1. closer' = [closer EXCEPT ![p] = [closer[p] EXCEPT !.pc = pc]]
    BY <1>5
  <2>2. [closer[p] EXCEPT !.pc = pc] \in Closes
    BY <1>2 DEF Closes
  <2>3. [closer[p] EXCEPT !.pc = pc].pr = closer[p].pr /\ [closer[p] EXCEPT !.pc = pc].pc = pc
    BY <1>2 DEF Closes
  <2>4. QED
    BY <1>4, <2>1, <2>2, <2>3
<1>6. ASSUME Returns(p) PROVE /\ closer' \in [Closers -> Closes]
                              /\ \A r \in Closers \ {p} : closer'[r] = closer[r]
                              /\ closer'[p] = Idle
  BY <1>1, <1>4, <1>6 DEF Returns
<1>7. CASE LooksAtIssue(p)
  <2>1. CASE Returns(p)
    BY <1>6, <2>1
  <2>2. CASE ~Returns(p)
    <3> DEFINE pc == IF MarkerPresent(p) THEN "close" ELSE "comment"
               x == [closer[p] EXCEPT !.pc = pc, !.open = (issue.state = "open"), !.label = issue.label]
    <3>1. closer' = [closer EXCEPT ![p] = x]
      BY <1>7, <2>2 DEF LooksAtIssue
    <3>2. x \in Closes /\ x.pr = closer[p].pr /\ x.pc = pc
      BY <1>2, <1>3 DEF Closes, Pcs
    <3>3. closer[p].pc = "look"
      BY <1>7 DEF LooksAtIssue, At
    <3> HIDE DEF x
    <3>4. QED
      BY <1>4, <3>1, <3>2, <3>3
  <2>3. QED
    BY <2>1, <2>2
<1>8. CASE AddsComment(p)
  BY <1>5, <1>6, <1>8 DEF AddsComment, Goes, At, Pcs
<1>9. CASE RecordsComment(p)
  BY <1>5, <1>6, <1>9 DEF RecordsComment, Goes, At, Pcs
<1>10. CASE ClosesIssue(p)
  BY <1>5, <1>6, <1>10 DEF ClosesIssue, Goes, At, Pcs
<1>11. CASE RemovesLabel(p)
  BY <1>5, <1>6, <1>11 DEF RemovesLabel, Goes, At, Pcs
<1>12. CASE Confirms(p)
  BY <1>6, <1>12 DEF Confirms
<1>13. QED
  BY <1>7, <1>8, <1>9, <1>10, <1>11, <1>12 DEF CloseStep

\* What a step of the tick's own reading of the delivery does to its close.
TickReads ==
  TickReconciles \/ TickReconcilesPending \/ VerifiesFinish \/ ViewsPr \/ ReadsChecks \/ RechecksDrift

LEMMA TickReadsMoves ==
  ASSUME DeliveryTypeOK, TickReads
  PROVE  /\ closer' \in [Closers -> Closes]
         /\ closer'[Operator] = closer[Operator]
         /\ \/ closer'[Tick] = Idle
            \/ closer'[Tick].pc = "finish"
            \/ At(Tick, "finish") /\ closer'[Tick].pc = "view" /\ Verified
            \/ /\ At(Tick, "view") /\ closer'[Tick].pc = "checks" /\ ViewAccepts
               /\ closer'[Tick].open = (pr.state = "open")
            \/ At(Tick, "checks") /\ closer'[Tick].pc = "drift" /\ ClosesNow
            \/ At(Tick, "drift") /\ closer'[Tick].pc = "look"
<1>1. closer \in [Closers -> Closes] /\ Idle \in Closes /\ Tick \in Closers /\ Operator \in Closers
      /\ Tick # Operator
  BY TwoClosers DEF DeliveryTypeOK, Closes
<1>2. closer[Tick] \in Closes
  BY <1>1
<1>4. ASSUME NEW x \in Closes, closer' = [closer EXCEPT ![Tick] = x]
      PROVE  /\ closer' \in [Closers -> Closes]
             /\ closer'[Operator] = closer[Operator]
             /\ closer'[Tick] = x
  BY <1>1, <1>4
<1>5. ASSUME NEW pc \in Pcs, closer' = [closer EXCEPT ![Tick].pc = pc]
      PROVE  /\ closer' \in [Closers -> Closes]
             /\ closer'[Operator] = closer[Operator]
             /\ closer'[Tick].pc = pc
  <2>1. closer' = [closer EXCEPT ![Tick] = [closer[Tick] EXCEPT !.pc = pc]]
    BY <1>5
  <2>2. [closer[Tick] EXCEPT !.pc = pc] \in Closes /\ [closer[Tick] EXCEPT !.pc = pc].pc = pc
    BY <1>2 DEF Closes
  <2>4. QED
    BY <1>4, <2>1, <2>2
<1>6. ASSUME Returns(Tick) PROVE /\ closer' \in [Closers -> Closes]
                                 /\ closer'[Operator] = closer[Operator]
                                 /\ closer'[Tick] = Idle
  BY <1>1, <1>4, <1>6 DEF Returns
<1>7. CASE TickReconciles \/ TickReconcilesPending
  BY <1>5, <1>7 DEF TickReconciles, TickReconcilesPending, Goes, Pcs
<1>8. CASE VerifiesFinish
  BY <1>5, <1>6, <1>8 DEF VerifiesFinish, VerifyFinish, Verified, Goes, Pcs
<1>9. CASE ViewsPr
  <2>1. CASE Returns(Tick)
    BY <1>6, <2>1
  <2>2. CASE ~Returns(Tick)
    <3> DEFINE x == [closer[Tick] EXCEPT !.pc = "checks", !.open = (pr.state = "open")]
    <3>1. closer' = [closer EXCEPT ![Tick] = x] /\ At(Tick, "view") /\ ViewAccepts
      BY <1>9, <2>2 DEF ViewsPr
    <3>2. x \in Closes /\ x.pc = "checks" /\ x.open = (pr.state = "open")
      BY <1>2 DEF Closes, Pcs
    <3> HIDE DEF x
    <3>3. closer' \in [Closers -> Closes] /\ closer'[Operator] = closer[Operator] /\ closer'[Tick] = x
      BY <1>4, <3>1, <3>2
    <3>4. QED
      BY <3>1, <3>2, <3>3
  <2>3. QED
    BY <2>1, <2>2
<1>10. CASE ReadsChecks
  BY <1>5, <1>6, <1>10 DEF ReadsChecks, Goes, Pcs
<1>11. CASE RechecksDrift
  BY <1>5, <1>6, <1>11 DEF RechecksDrift, Goes, Pcs
<1>12. QED
  BY <1>7, <1>8, <1>9, <1>10, <1>11 DEF TickReads

\* Any other step leaves the closes alone, or begins the operator's, or ends one.

LEMMA WorldMovesClosers ==
  ASSUME DeliveryTypeOK, World, ~CloseStep(Operator)
  PROVE  /\ closer' \in [Closers -> Closes]
         /\ \/ closer' = closer
            \/ /\ closer'[Tick] = closer[Tick] /\ moves' = moves + 1
               /\ closer'[Operator].pc = "look" /\ closer[Operator].pc = "idle"
            \/ \E p \in Closers : /\ closer'[p] = Idle /\ faults' = faults + 1
                                  /\ \A r \in Closers \ {p} : closer'[r] = closer[r]
<1>1. closer \in [Closers -> Closes] /\ Idle \in Closes /\ Tick \in Closers /\ Operator \in Closers
      /\ Tick # Operator
  BY TwoClosers DEF DeliveryTypeOK, Closes
<1>2. CASE closer' = closer
  BY <1>1, <1>2
<1>3. CASE \E q \in Prs, f \in BOOLEAN : OperatorCompletes(q, f)
  <2>1. PICK q \in Prs, f \in BOOLEAN : OperatorCompletes(q, f)
    BY <1>3
  <2> DEFINE x == [Idle EXCEPT !.pc = "look", !.pr = q, !.force = f]
  <2>2. x \in Closes /\ x.pc = "look"
    BY DEF Idle, Closes, Pcs
  <2>3. closer' = [closer EXCEPT ![Operator] = x] /\ closer[Operator].pc = "idle" /\ moves' = moves + 1
    BY <2>1 DEF OperatorCompletes, At, Moves
  <2> HIDE DEF x
  <2>4. QED
    BY <1>1, <2>2, <2>3
<1>4. CASE \E p \in Closers : Breaks(p)
  <2>1. PICK p \in Closers : Breaks(p)
    BY <1>4
  <2>2. closer' = [closer EXCEPT ![p] = Idle] /\ faults' = faults + 1
    BY <2>1 DEF Breaks, Returns, Fails
  <2>3. QED
    BY <1>1, <2>2
<1>5. ASSUME ~(\E q \in Prs, f \in BOOLEAN : OperatorCompletes(q, f)), ~(\E p \in Closers : Breaks(p))
      PROVE  closer' = closer
  <2>2. CASE AdmitsFinish \/ WorkerCommits \/ WorkerPushes \/ WorkerOpensPr \/ WorkerReports \/ TailFinishes
    BY <2>2 DEF AdmitsFinish, WorkerCommits, WorkerPushes, WorkerOpensPr, WorkerReports,
         TailFinishes, dVars
  <2>3. CASE PeopleAct /\ UNCHANGED dVars
    BY <2>3 DEF dVars
  <2>4. CASE PersonMerges \/ PersonChangesIssue \/ Abandons \/ Superseded
             \/ (\E m \in Markers : ListingShows(m))
    BY <2>4 DEF PersonMerges, PersonChangesIssue, Abandons, Superseded, ListingShows
  <2>7. QED
    BY <1>5, <2>2, <2>3, <2>4 DEF World
<1>6. QED
  BY <1>2, <1>3, <1>4, <1>5

-----------------------------------------------------------------------------
(* Marker files and comments.                                              *)

\* The run's marker is none of the operator's, which differ by their pull request.
LEMMA MarkersDiffer ==
  /\ RunMarker \in Markers
  /\ \A q \in Prs : Manual(q) \in Markers /\ Manual(q) # RunMarker
  /\ \A q, r \in Prs : Manual(q) = Manual(r) => q = r
  /\ \A m \in Markers : m = RunMarker \/ \E q \in Prs : m = Manual(q)
BY DEF Markers, RunMarker, Manual, Prs

\* Which step leaves which file; no file is removed.
LEMMA FilesAreLeft ==
  ASSUME DeliveryTypeOK, DeliveryNext
  PROVE  \/ files' = files
         \/ files' = files \cup {"finish-verified"}
         \/ files' = files \cup {"issue-close-started"}
         \/ files' = files \cup {"abandoned"}
         \/ RecordsComment(Tick) /\ files' = files \cup {"issue-commented"}
         \/ Confirms(Tick) /\ files' = files \cup {"issue-closed"}
<1>1. ASSUME NEW p \in Closers, CloseStep(p)
      PROVE  \/ files' = files
             \/ files' = files \cup {"issue-close-started"}
             \/ RecordsComment(Tick) /\ files' = files \cup {"issue-commented"}
             \/ Confirms(Tick) /\ files' = files \cup {"issue-closed"}
  <2>1. HasRun(p) => p = Tick
    BY DEF HasRun
  <2>2. QED
    BY <1>1, <2>1 DEF CloseStep, LooksAtIssue, AddsComment, RecordsComment, ClosesIssue, RemovesLabel,
         Confirms, Writes
<1>2. CASE TickReads
  BY <1>2 DEF TickReads, TickReconciles, TickReconcilesPending, VerifiesFinish, ViewsPr, ReadsChecks,
       RechecksDrift
<1>3. CASE CloseStep(Tick) \/ CloseStep(Operator)
  BY <1>1, <1>3, TwoClosers
<1>4. CASE World /\ ~CloseStep(Operator)
  <2>2. CASE AdmitsFinish \/ WorkerCommits \/ WorkerPushes \/ WorkerOpensPr \/ WorkerReports \/ TailFinishes
    BY <2>2 DEF AdmitsFinish, WorkerCommits, WorkerPushes, WorkerOpensPr, WorkerReports,
         TailFinishes, dVars
  <2>3. CASE PeopleAct /\ UNCHANGED dVars
    BY <2>3 DEF dVars
  <2>4. CASE PersonMerges \/ PersonChangesIssue \/ Abandons \/ Superseded
    BY <2>4 DEF PersonMerges, PersonChangesIssue, Abandons, Superseded
  <2>5. CASE (\E m \in Markers : ListingShows(m))
             \/ (\E q \in Prs, f \in BOOLEAN : OperatorCompletes(q, f))
             \/ (\E p \in Closers : Breaks(p))
    BY <2>5 DEF ListingShows, OperatorCompletes, Breaks
  <2>7. QED
    BY <1>4, <2>2, <2>3, <2>4, <2>5 DEF World
<1>5. QED
  BY <1>2, <1>3, <1>4 DEF DeliveryNext, TickStep, TickReads

\* A comment is accepted in AddsComment only.
LEMMA CommentsAreAdded ==
  ASSUME DeliveryNext, ~AddsComment(Tick), ~AddsComment(Operator)
  PROVE  comments' = comments
<1>2. CASE TickReads
  BY <1>2 DEF TickReads, TickReconciles, TickReconcilesPending, VerifiesFinish, ViewsPr, ReadsChecks,
       RechecksDrift
<1>3. CASE CloseStep(Tick)
  BY <1>3 DEF CloseStep, LooksAtIssue, RecordsComment, ClosesIssue, RemovesLabel, Confirms
<1>4. CASE CloseStep(Operator)
  BY <1>4 DEF CloseStep, LooksAtIssue, RecordsComment, ClosesIssue, RemovesLabel, Confirms
<1>5. CASE World /\ ~CloseStep(Operator)
  <2>2. CASE AdmitsFinish \/ WorkerCommits \/ WorkerPushes \/ WorkerOpensPr \/ WorkerReports \/ TailFinishes
    BY <2>2 DEF AdmitsFinish, WorkerCommits, WorkerPushes, WorkerOpensPr, WorkerReports,
         TailFinishes, dVars
  <2>3. CASE PeopleAct /\ UNCHANGED dVars
    BY <2>3 DEF dVars
  <2>4. CASE PersonMerges \/ PersonChangesIssue \/ Abandons \/ Superseded
    BY <2>4 DEF PersonMerges, PersonChangesIssue, Abandons, Superseded
  <2>5. CASE (\E m \in Markers : ListingShows(m))
             \/ (\E q \in Prs, f \in BOOLEAN : OperatorCompletes(q, f))
             \/ (\E p \in Closers : Breaks(p))
    BY <2>5 DEF ListingShows, OperatorCompletes, Breaks
  <2>7. QED
    BY <1>5, <2>2, <2>3, <2>4, <2>5 DEF World
<1>6. QED
  BY <1>2, <1>3, <1>4, <1>5 DEF DeliveryNext, TickStep, TickReads

\* It is the commenter's, and goes with a step to its receipt or with a fault.
LEMMA CommentIsOne ==
  ASSUME PrTypeOK, DeliveryTypeOK, NEW p \in Closers, AddsComment(p)
  PROVE  /\ At(p, "comment")
         /\ MarkerOf(p) \in Markers
         /\ comments' \in [Markers -> Nat]
         /\ \A m \in Markers \ {MarkerOf(p)} : comments'[m] = comments[m]
         /\ comments'[MarkerOf(p)] \in {comments[MarkerOf(p)], comments[MarkerOf(p)] + 1}
         /\ \/ closer'[p].pc = "record" /\ faults' = faults
            \/ closer'[p] = Idle /\ faults' = faults + 1
         /\ files' = files /\ moves' = moves
<1>1. closer[p] \in Closes /\ closer[p].pr \in Prs /\ comments \in [Markers -> Nat]
      /\ closer \in [Closers -> Closes]
  BY PullRequestAssumption DEF DeliveryTypeOK, Closes
<1>2. MarkerOf(p) \in Markers
  BY <1>1, MarkersDiffer DEF MarkerOf
<1>3. At(p, "comment") /\ files' = files /\ moves' = moves
  BY DEF AddsComment
<1>4. /\ comments' \in [Markers -> Nat]
      /\ \A m \in Markers \ {MarkerOf(p)} : comments'[m] = comments[m]
      /\ comments'[MarkerOf(p)] \in {comments[MarkerOf(p)], comments[MarkerOf(p)] + 1}
  <2>1. comments' = comments \/ comments' = [comments EXCEPT ![MarkerOf(p)] = @ + 1]
    BY DEF AddsComment, Comments
  <2>2. QED
    BY <1>1, <1>2, <2>1
<1>5. \/ closer'[p].pc = "record" /\ faults' = faults
      \/ closer'[p] = Idle /\ faults' = faults + 1
  <2>1. CASE Goes(p, "record") /\ UNCHANGED faults
    <3>1. closer'[p].pc = "record"
      BY <1>1, <2>1 DEF Goes, Closes
    <3>2. QED
      BY <2>1, <3>1
  <2>2. CASE Fails /\ Returns(p)
    BY <1>1, <2>2 DEF Fails, Returns
  <2>3. QED
    BY <2>1, <2>2 DEF AddsComment
<1>6. QED
  BY <1>2, <1>3, <1>4, <1>5

-----------------------------------------------------------------------------
(* The delivery's invariant is inductive.                                  *)

\* What the tick has established stands.
LEMMA TickKnowsKeeps ==
  ASSUME TypeOK, TickKnows, DeliveryNext
  PROVE  TickKnows'
<1> USE DEF At
<1>1. DeliveryTypeOK /\ PrTypeOK
  BY DEF TypeOK
<1>2. Idle.pc = "idle"
  BY DEF Idle
<1>3. CASE closer'[Tick] = closer[Tick] \/ closer'[Tick].pc \in {"idle", "finish"}
  BY <1>3, DeliveredStays DEF TickKnows, Closing
<1>4. CASE TickReads
  <2>1. CASE closer'[Tick].pc \in {"idle", "finish"}
    BY <1>3, <2>1
  <2>2. CASE At(Tick, "finish") /\ closer'[Tick].pc = "view" /\ Verified
    BY <2>2, DeliveredStays DEF TickKnows, Closing
  <2>3. CASE At(Tick, "view") /\ closer'[Tick].pc = "checks" /\ ViewAccepts
             /\ closer'[Tick].open = (pr.state = "open")
    <3>1. Verified
      BY <2>3 DEF TickKnows
    <3>2. pr.state \in {"merged", "open"} /\ (pr.state = "merged" => pr.head = claim.head)
      BY <2>3 DEF ViewAccepts, PrHead
    <3>3. Verified' /\ (pr.state = "merged" => pr'.state = "merged" /\ pr'.head = claim'.head)
      BY <3>1, <3>2, DeliveredStays
    <3>4. QED
      BY <2>3, <3>2, <3>3 DEF TickKnows, Closing
  <2>4. CASE At(Tick, "checks") /\ closer'[Tick].pc = "drift" /\ ClosesNow
    <3>1. Verified /\ pr.state = "merged" /\ pr.head = claim.head
      BY <2>4 DEF TickKnows, ClosesNow
    <3>2. Delivered
      BY <2>4, <3>1 DEF ClosesNow, Delivered, Passed
    <3>3. QED
      BY <2>4, <3>1, <3>2, DeliveredStays DEF TickKnows, Closing
  <2>5. CASE At(Tick, "drift") /\ closer'[Tick].pc = "look"
    BY <2>5, DeliveredStays DEF TickKnows, Closing
  <2>6. QED
    BY <1>1, <1>2, <1>4, <2>1, <2>2, <2>3, <2>4, <2>5, TickReadsMoves
<1>5. CASE CloseStep(Tick)
  <2>1. \/ closer'[Tick] = Idle
        \/ closer[Tick].pc \in Closing /\ closer'[Tick].pc \in Closing
    BY <1>1, <1>5, CloseStepMoves, TwoClosers DEF Closing
  <2>2. CASE closer[Tick].pc \in Closing /\ closer'[Tick].pc \in Closing
    BY <2>2, DeliveredStays DEF TickKnows, Closing
  <2>3. QED
    BY <1>2, <1>3, <2>1, <2>2
<1>6. CASE CloseStep(Operator)
  BY <1>1, <1>3, <1>6, CloseStepMoves, TwoClosers
<1>7. CASE World /\ ~CloseStep(Operator)
  <2>1. closer'[Tick] = closer[Tick] \/ closer'[Tick] = Idle
    BY <1>1, <1>7, WorldMovesClosers, TwoClosers
  <2>2. QED
    BY <1>2, <1>3, <2>1
<1>8. QED
  BY <1>4, <1>5, <1>6, <1>7 DEF DeliveryNext, TickStep, TickReads

\* What the markers tell stands, and is true when they are left.
LEMMA MarkersTellKeeps ==
  ASSUME TypeOK, TickKnows, MarkersTell, DeliveryNext
  PROVE  MarkersTell'
<1>1. DeliveryTypeOK /\ PrTypeOK
  BY DEF TypeOK
<1>2. ASSUME "issue-closed" \in files' PROVE Delivered' /\ Verified'
  <2>1. CASE "issue-closed" \in files
    BY <2>1, DeliveredStays DEF MarkersTell
  <2>2. CASE Confirms(Tick)
    <3>1. closer[Tick].pc = "confirm"
      BY <2>2 DEF Confirms, At
    <3>2. Delivered /\ Verified
      BY <3>1 DEF TickKnows, Closing, At
    <3>3. QED
      BY <3>2, DeliveredStays
  <2>3. QED
    BY <1>1, <1>2, <2>1, <2>2, FilesAreLeft
<1>3. ASSUME comments'[RunMarker] > 0 PROVE (pr.state = "merged" /\ Passed)'
  <2>1. CASE comments[RunMarker] > 0
    BY <2>1, DeliveredStays DEF MarkersTell
  <2>2. CASE AddsComment(Tick)
    <3>1. closer[Tick].pc = "comment"
      BY <2>2 DEF AddsComment, At
    <3>2. Delivered
      BY <3>1 DEF TickKnows, Closing
    <3>3. QED
      BY <3>2, DeliveredStays DEF Delivered
  <2>3. CASE AddsComment(Operator)
    <3>1. MarkerOf(Operator) # RunMarker
      <4>1. closer[Operator].pr \in Prs
        BY <1>1, TwoClosers DEF DeliveryTypeOK
      <4>2. QED
        BY <4>1, TwoClosers, MarkersDiffer DEF MarkerOf
    <3>2. comments'[RunMarker] = comments[RunMarker]
      BY <1>1, <2>3, <3>1, CommentIsOne, TwoClosers, MarkersDiffer
    <3>3. QED
      BY <1>3, <2>1, <3>2
  <2>4. CASE comments' = comments
    BY <1>3, <2>1, <2>4
  <2>5. QED
    BY <2>2, <2>3, <2>4, CommentsAreAdded
<1>4. QED
  BY <1>2, <1>3 DEF MarkersTell

\* A receipt follows its comment, or a fault does.
LEMMA ReceiptedKeeps ==
  ASSUME TypeOK, Receipted, DeliveryNext
  PROVE  Receipted'
<1> USE DEF At
<1>1. DeliveryTypeOK /\ PrTypeOK
  BY DEF TypeOK
<1>2. Idle.pc = "idle"
  BY DEF Idle
<1>3. /\ faults \in Nat /\ comments[RunMarker] \in Nat
      /\ faults' = faults \/ faults' = faults + 1
  <2>1. comments[RunMarker] \in 0..(1 + MaxFaults + MaxMoves)
    BY <1>1, MarkersDiffer DEF DeliveryTypeOK
  <2>2. QED
    BY <1>1, <2>1, DeliveryCounts, PullRequestAssumption
<1>4. /\ closer[Tick].pc = "comment" => "issue-commented" \notin files
      /\ comments[RunMarker] <= 1 + faults
      /\ "issue-commented" \notin files /\ closer[Tick].pc # "record" => comments[RunMarker] <= faults
  BY DEF Receipted
<1>5. CASE AddsComment(Tick)
  <2>1. /\ closer[Tick].pc = "comment" /\ files' = files
        /\ comments'[RunMarker] \in {comments[RunMarker], comments[RunMarker] + 1}
        /\ \/ closer'[Tick].pc = "record" /\ faults' = faults
           \/ closer'[Tick] = Idle /\ faults' = faults + 1
    <3>1. MarkerOf(Tick) = RunMarker
      BY TwoClosers DEF MarkerOf
    <3>2. QED
      BY <1>1, <1>5, <3>1, CommentIsOne, TwoClosers
  <2>2. comments[RunMarker] <= faults
    BY <1>4, <2>1
  <2>3. comments'[RunMarker] <= faults + 1
    BY <1>3, <2>1, <2>2
  <2>4. QED
    BY <1>2, <1>3, <2>1, <2>3 DEF Receipted
<1>6. ASSUME ~AddsComment(Tick) PROVE comments'[RunMarker] = comments[RunMarker]
  <2>1. CASE AddsComment(Operator)
    <3>1. MarkerOf(Operator) # RunMarker
      <4>1. closer[Operator].pr \in Prs
        BY <1>1, TwoClosers DEF DeliveryTypeOK
      <4>2. QED
        BY <4>1, TwoClosers, MarkersDiffer DEF MarkerOf
    <3>2. QED
      BY <1>1, <2>1, <3>1, CommentIsOne, TwoClosers, MarkersDiffer
  <2>2. QED
    BY <1>6, <2>1, CommentsAreAdded
<1>7. CASE RecordsComment(Tick)
  <2>1. "issue-commented" \in files' /\ closer'[Tick].pc # "comment"
    <3>1. closer[Tick].pc = "record" /\ "issue-commented" \in files'
      BY <1>7, TwoClosers DEF RecordsComment, Writes
    <3>2. CloseStep(Tick)
      BY <1>7 DEF CloseStep
    <3>3. QED
      BY <1>1, <1>2, <3>1, <3>2, CloseStepMoves, TwoClosers
  <2>2. comments'[RunMarker] = comments[RunMarker]
    BY <1>6, <1>7 DEF RecordsComment, AddsComment
  <2>3. QED
    BY <1>3, <1>4, <2>1, <2>2 DEF Receipted
<1>8. ASSUME ~AddsComment(Tick), ~RecordsComment(Tick)
      PROVE  Receipted'
  <2>1. "issue-commented" \in files' <=> "issue-commented" \in files
    BY <1>1, <1>8, FilesAreLeft
  <2>2. /\ closer'[Tick].pc = "comment" => closer[Tick].pc = "comment" \/ LooksAtIssue(Tick)
        /\ closer[Tick].pc = "record" => closer'[Tick].pc = "record" \/ faults' = faults + 1
    <3>1. CASE TickReads
      <4>1. closer'[Tick].pc # "comment"
        BY <1>1, <1>2, <3>1, TickReadsMoves
      <4>2. closer[Tick].pc # "record"
        BY <3>1 DEF TickReads, TickReconciles, TickReconcilesPending, VerifiesFinish, ViewsPr, ReadsChecks,
             RechecksDrift
      <4>3. QED
        BY <4>1, <4>2
    <3>2. CASE CloseStep(Tick)
      <4>1. closer[Tick].pc # "record"
        BY <1>8, <3>2 DEF CloseStep, LooksAtIssue, ClosesIssue, RemovesLabel, Confirms
      <4>2. closer'[Tick].pc = "comment" => closer[Tick].pc = "look"
        BY <1>1, <1>2, <3>2, CloseStepMoves, TwoClosers
      <4>3. closer[Tick].pc = "look" => LooksAtIssue(Tick)
        BY <3>2 DEF CloseStep, AddsComment, RecordsComment, ClosesIssue, RemovesLabel, Confirms
      <4>4. QED
        BY <4>1, <4>2, <4>3
    <3>3. CASE CloseStep(Operator)
      BY <1>1, <3>3, CloseStepMoves, TwoClosers
    <3>4. CASE World /\ ~CloseStep(Operator)
      BY <1>1, <1>2, <3>4, WorldMovesClosers, TwoClosers
    <3>5. QED
      BY <3>1, <3>2, <3>3, <3>4 DEF DeliveryNext, TickStep, TickReads
  <2>3. LooksAtIssue(Tick) /\ closer'[Tick].pc = "comment" => "issue-commented" \notin files
    <3>1. SUFFICES ASSUME LooksAtIssue(Tick), closer'[Tick].pc = "comment", "issue-commented" \in files
                   PROVE  FALSE
      OBVIOUS
    <3>2. MarkerPresent(Tick)
      BY <3>1, TwoClosers DEF MarkerPresent
    <3>3. closer[Tick] \in Closes /\ closer \in [Closers -> Closes]
      BY <1>1, TwoClosers DEF DeliveryTypeOK, Closes
    <3>4. CASE Returns(Tick)
      BY <1>2, <3>1, <3>3, <3>4, TwoClosers DEF Returns
    <3>5. CASE closer' = [closer EXCEPT ![Tick].pc = "close",
                                        ![Tick].open = (issue.state = "open"),
                                        ![Tick].label = issue.label]
      <4>1. closer'[Tick].pc = "close"
        BY <3>3, <3>5, TwoClosers DEF Closes
      <4>2. QED
        BY <3>1, <4>1
    <3>6. QED
      BY <3>1, <3>2, <3>4, <3>5 DEF LooksAtIssue
  <2>4. comments'[RunMarker] = comments[RunMarker]
    BY <1>6, <1>8
  <2>5. closer'[Tick].pc = "comment" => "issue-commented" \notin files'
    BY <1>4, <2>1, <2>2, <2>3
  <2>6. comments'[RunMarker] <= 1 + faults'
    BY <1>3, <1>4, <2>4
  <2>7. "issue-commented" \notin files' /\ closer'[Tick].pc # "record" => comments'[RunMarker] <= faults'
    BY <1>3, <1>4, <2>1, <2>2, <2>4
  <2>8. QED
    BY <2>5, <2>6, <2>7 DEF Receipted
<1>9. QED
  BY <1>5, <1>7, <1>8

\* An operator's comment is paid for when it begins.
LEMMA MovesPayKeeps ==
  ASSUME TypeOK, MovesPay, DeliveryNext
  PROVE  MovesPay'
<1> SUFFICES ASSUME NEW q \in Prs
             PROVE  /\ comments'[Manual(q)] <= moves'
                    /\ closer'[Operator].pc \in {"look", "comment"} /\ closer'[Operator].pr = q =>
                         comments'[Manual(q)] < moves'
  BY DEF MovesPay
<1>1. DeliveryTypeOK /\ PrTypeOK
  BY DEF TypeOK
<1>2. Idle.pc = "idle"
  BY DEF Idle
<1>3. /\ moves \in Nat /\ comments[Manual(q)] \in Nat
      /\ moves' = moves \/ moves' = moves + 1
  <2>1. comments[Manual(q)] \in 0..(1 + MaxFaults + MaxMoves)
    BY <1>1, MarkersDiffer DEF DeliveryTypeOK
  <2>2. QED
    BY <1>1, <2>1, DeliveryCounts, PullRequestAssumption
<1>4. /\ comments[Manual(q)] <= moves
      /\ closer[Operator].pc \in {"look", "comment"} /\ closer[Operator].pr = q =>
           comments[Manual(q)] < moves
  BY DEF MovesPay
<1>5. CASE AddsComment(Operator)
  <2>1. MarkerOf(Operator) = Manual(closer[Operator].pr) /\ closer[Operator].pr \in Prs
    BY <1>1, TwoClosers DEF MarkerOf, DeliveryTypeOK
  <2>2. /\ closer[Operator].pc = "comment"
        /\ closer'[Operator].pc \notin {"look", "comment"}
        /\ moves' = moves
    BY <1>1, <1>2, <1>5, CommentIsOne, TwoClosers DEF At
  <2>3. CASE closer[Operator].pr = q
    <3>1. comments'[Manual(q)] \in {comments[Manual(q)], comments[Manual(q)] + 1}
      BY <1>1, <1>5, <2>1, <2>3, CommentIsOne, TwoClosers
    <3>2. QED
      BY <1>3, <1>4, <2>2, <2>3, <3>1
  <2>4. CASE closer[Operator].pr # q
    <3>1. comments'[Manual(q)] = comments[Manual(q)]
      BY <1>1, <1>5, <2>1, <2>4, CommentIsOne, TwoClosers, MarkersDiffer
    <3>2. QED
      BY <1>3, <1>4, <2>2, <3>1
  <2>5. QED
    BY <2>3, <2>4
<1>6. CASE ~AddsComment(Operator)
  <2>1. comments'[Manual(q)] = comments[Manual(q)]
    <3>1. CASE AddsComment(Tick)
      <4>1. MarkerOf(Tick) = RunMarker
        BY TwoClosers DEF MarkerOf
      <4>2. QED
        BY <1>1, <3>1, <4>1, CommentIsOne, TwoClosers, MarkersDiffer
    <3>2. QED
      BY <1>6, <3>1, CommentsAreAdded
  <2>2. \/ closer'[Operator] = closer[Operator]
        \/ closer'[Operator].pc \notin {"look", "comment"}
        \/ closer'[Operator].pr = closer[Operator].pr /\ closer[Operator].pc = "look"
        \/ moves' = moves + 1
    <3>1. CASE TickReads
      BY <1>1, <3>1, TickReadsMoves
    <3>2. CASE CloseStep(Tick)
      BY <1>1, <3>2, CloseStepMoves, TwoClosers
    <3>3. CASE CloseStep(Operator)
      BY <1>1, <1>2, <3>3, CloseStepMoves, TwoClosers
    <3>4. CASE World /\ ~CloseStep(Operator)
      BY <1>1, <1>2, <3>4, WorldMovesClosers, TwoClosers
    <3>5. QED
      BY <3>1, <3>2, <3>3, <3>4 DEF DeliveryNext, TickStep, TickReads
  <2>3. QED
    BY <1>3, <1>4, <2>1, <2>2
<1>7. QED
  BY <1>5, <1>6

\* The delivery's variables keep their types; the counts of comments are what the invariant pays for.
LEMMA DeliveryKeepsTypes ==
  ASSUME TypeOK, DeliveryNext, PrTypeOK', Receipted', MovesPay'
  PROVE  DeliveryTypeOK'
<1>1. DeliveryTypeOK /\ PrTypeOK
  BY DEF TypeOK
<1>2. closer' \in [Closers -> Closes]
  <2>1. CASE TickReads
    BY <1>1, <2>1, TickReadsMoves
  <2>2. CASE CloseStep(Tick)
    BY <1>1, <2>2, CloseStepMoves, TwoClosers
  <2>3. CASE CloseStep(Operator)
    BY <1>1, <2>3, CloseStepMoves, TwoClosers
  <2>4. CASE World /\ ~CloseStep(Operator)
    BY <1>1, <2>4, WorldMovesClosers
  <2>5. QED
    BY <2>1, <2>2, <2>3, <2>4 DEF DeliveryNext, TickStep, TickReads
<1>3. files' \subseteq Files
  BY <1>1, FilesAreLeft DEF DeliveryTypeOK, Files
<1>4. comments' \in [Markers -> 0..(1 + MaxFaults + MaxMoves)]
  <2>1. comments' \in [Markers -> Nat]
    <3>1. comments \in [Markers -> Nat]
      BY <1>1, PullRequestAssumption DEF DeliveryTypeOK
    <3>2. QED
      BY <1>1, <3>1, CommentIsOne, CommentsAreAdded, TwoClosers
  <2>2. faults' \in Nat /\ faults' <= MaxFaults /\ moves' \in Nat /\ moves' <= MaxMoves
        /\ MaxFaults \in Nat /\ MaxMoves \in Nat
    BY PullRequestAssumption DEF PrTypeOK
  <2>3. \A m \in Markers : comments'[m] <= 1 + faults' \/ comments'[m] <= moves'
    BY MarkersDiffer DEF Receipted, MovesPay
  <2>4. \A m \in Markers : comments'[m] \in Nat
    BY <2>1
  <2>5. \A m \in Markers : comments'[m] \in 0..(1 + MaxFaults + MaxMoves)
    BY <2>2, <2>3, <2>4
  <2>6. QED
    BY <2>1, <2>5
<1>5. /\ card' \in {"none", "open", "done"}
      /\ claim' \in [git : Heads, head : Heads, pr : Prs]
      /\ tail' \in BOOLEAN
      /\ pointer' \in BOOLEAN
      /\ issue' \in [state : IssueStates, label : BOOLEAN, held : BOOLEAN, edited : BOOLEAN]
      /\ listed' \subseteq Markers
  <2> DEFINE Issues == [state : IssueStates, label : BOOLEAN, held : BOOLEAN, edited : BOOLEAN]
  <2>1. /\ card \in {"none", "open", "done"}
        /\ claim \in [git : Heads, head : Heads, pr : Prs]
        /\ tail \in BOOLEAN
        /\ pointer \in BOOLEAN
        /\ issue \in Issues
        /\ listed \subseteq Markers
        /\ branch \in Heads /\ remote \in Heads
    BY <1>1 DEF DeliveryTypeOK, PrTypeOK
  <2>2. /\ \A s \in IssueStates : [issue EXCEPT !.state = s] \in Issues
        /\ \A b \in BOOLEAN : [issue EXCEPT !.label = b] \in Issues
        /\ [issue EXCEPT !.held = ~@] \in Issues
        /\ [issue EXCEPT !.edited = ~@] \in Issues
        /\ [issue EXCEPT !.state = IF @ = "open" THEN "completed" ELSE @] \in Issues
    BY <2>1 DEF IssueStates
  <2>3. CASE TickReads
    BY <2>1, <2>2, <2>3 DEF TickReads, TickReconciles, TickReconcilesPending, VerifiesFinish, ViewsPr,
         ReadsChecks, RechecksDrift
  <2>4. ASSUME NEW p \in Closers, CloseStep(p)
        PROVE  /\ UNCHANGED <<card, claim, tail, pointer, listed>>
               /\ issue' \in Issues
    <3>1. UNCHANGED <<card, claim, tail, pointer, listed>>
      BY <2>4 DEF CloseStep, LooksAtIssue, AddsComment, RecordsComment, ClosesIssue, RemovesLabel, Confirms
    <3>2. issue' \in Issues
      BY <2>1, <2>2, <2>4 DEF CloseStep, LooksAtIssue, AddsComment, RecordsComment, ClosesIssue,
           RemovesLabel, Confirms
    <3>3. QED
      BY <3>1, <3>2
  <2>5. CASE CloseStep(Tick) \/ CloseStep(Operator)
    BY <2>1, <2>4, <2>5, TwoClosers
  <2>6. CASE World /\ ~CloseStep(Operator)
    <3>1. CASE AdmitsFinish \/ WorkerCommits \/ WorkerPushes \/ WorkerOpensPr \/ TailFinishes
      BY <2>1, <3>1 DEF AdmitsFinish, WorkerCommits, WorkerPushes, WorkerOpensPr, TailFinishes, dVars
    <3>2. CASE WorkerReports
      BY <2>1, <3>2 DEF WorkerReports
    <3>3. CASE PeopleAct /\ UNCHANGED dVars
      BY <2>1, <3>3 DEF dVars
    <3>4. CASE PersonMerges \/ PersonChangesIssue
      BY <2>1, <2>2, <3>4 DEF PersonMerges, PersonChangesIssue
    <3>5. CASE Abandons \/ Superseded
      BY <2>1, <3>5 DEF Abandons, Superseded
    <3>6. CASE (\E m \in Markers : ListingShows(m))
             \/ (\E q \in Prs, f \in BOOLEAN : OperatorCompletes(q, f))
             \/ (\E p \in Closers : Breaks(p))
      BY <2>1, <3>6 DEF ListingShows, OperatorCompletes, Breaks
    <3>7. QED
      BY <2>6, <3>1, <3>2, <3>3, <3>4, <3>5, <3>6 DEF World
  <2>7. QED
    BY <2>3, <2>5, <2>6 DEF DeliveryNext, TickStep, TickReads
<1>6. QED
  BY <1>2, <1>3, <1>4, <1>5 DEF DeliveryTypeOK, Closes

\* A pinned run's steps keep the invariant.
LEMMA DeliveryKeeps ==
  ASSUME ReleaseInv, Pinned, DeliveryNext, UNCHANGED sVars
  PROVE  ReleaseInv'
<1>1. TypeOK /\ GateAtRest /\ DeliveryInv
  BY DEF ReleaseInv
<1>2. DeliveryInv'
  BY <1>1, TickKnowsKeeps, MarkersTellKeeps, ReceiptedKeeps, MovesPayKeeps DEF DeliveryInv
<1>3. PrTypeOK' /\ DeliveryTypeOK'
  BY <1>1, <1>2, DeliveryKeepsPrTypes, DeliveryKeepsTypes DEF TypeOK, DeliveryInv
<1>4. GateTypeOK' /\ GateAtRest' /\ Pinned'
  BY <1>1 DEF TypeOK, GateTypeOK, GateAtRest, Pinned, sVars
<1>5. QED
  BY <1>2, <1>3, <1>4 DEF ReleaseInv, TypeOK

-----------------------------------------------------------------------------
(* What a step of a gated run can change.                                  *)

GatePeople ==
  \/ (CiReports \/ PushesElsewhere \/ ClosesPr) /\ UNCHANGED sVars
  \/ PersonMergesGated \/ PersonTouchesTree \/ PersonPulls \/ PersonCommits

\* A step is the tick's, an approval's or other people's.
LEMMA GateSteps ==
  ASSUME GateNext
  PROVE  \/ DetectsReady
         \/ \E a \in Approvers, force \in BOOLEAN : Approves(a, force)
         \/ \E a \in Approvers : ApproveStep(a) \/ Dies(a)
         \/ GatePeople
BY DEF GateNext, GatePeople

\* Heads grow by a commit, or one takes the other's where it is a prefix.
LEMMA GateMovesHeads ==
  ASSUME PrTypeOK, GateNext
  PROVE  /\ branch' \in Heads /\ remote' \in Heads
         /\ \/ branch' = branch
            \/ Len(branch) < MaxCommits /\ branch' = Append(branch, "bump") /\ remote' = remote
            \/ Len(branch) < MaxCommits /\ branch' = Append(branch, "other") /\ remote' = remote /\ PersonCommits
            \/ branch' = remote /\ remote' = remote /\ PersonPulls
         /\ \/ remote' = remote
            \/ remote' = branch /\ IsPrefix(remote, branch) /\ branch' = branch
            \/ Len(remote) < MaxCommits /\ remote' = Append(remote, "other") /\ branch' = branch
<1>1. branch \in Heads /\ remote \in Heads /\ "bump" \in Commits /\ "other" \in Commits
  BY DEF PrTypeOK, Commits
<1>2. /\ \/ branch' = branch
         \/ Len(branch) < MaxCommits /\ branch' = Append(branch, "bump") /\ remote' = remote
         \/ Len(branch) < MaxCommits /\ branch' = Append(branch, "other") /\ remote' = remote /\ PersonCommits
         \/ branch' = remote /\ remote' = remote /\ PersonPulls
      /\ \/ remote' = remote
         \/ remote' = branch /\ IsPrefix(remote, branch) /\ branch' = branch
         \/ Len(remote) < MaxCommits /\ remote' = Append(remote, "other") /\ branch' = branch
  <2>1. CASE DetectsReady \/ \E a \in Approvers, force \in BOOLEAN : Approves(a, force)
    BY <2>1 DEF DetectsReady, Approves, prVars
  <2>2. ASSUME NEW a \in Approvers, ApproveStep(a) \/ Dies(a)
        PROVE  /\ \/ branch' = branch
                  \/ Len(branch) < MaxCommits /\ branch' = Append(branch, "bump") /\ remote' = remote
               /\ \/ remote' = remote
                  \/ remote' = branch /\ IsPrefix(remote, branch) /\ branch' = branch
    <3>1. CASE ApproveViews(a) \/ ChecksOut(a) \/ EditsManifests(a) \/ RestoresBranch(a)
               \/ PersistsSidecar(a) \/ ReadsCi(a)
      BY <3>1 DEF ApproveViews, ChecksOut, EditsManifests, RestoresBranch, PersistsSidecar, ReadsCi, prVars
    <3>2. CASE MergesSquash(a) \/ CompletesGate(a) \/ DeletesSidecar(a) \/ Dies(a)
      BY <3>2 DEF MergesSquash, CompletesGate, DeletesSidecar, Dies, prVars
    <3>3. CASE CommitsBump(a)
      BY <3>3 DEF CommitsBump
    <3>4. CASE PushesBump(a)
      BY <3>4 DEF PushesBump, SetRemote
    <3>5. QED
      BY <2>2, <3>1, <3>2, <3>3, <3>4 DEF ApproveStep
  <2>3. CASE GatePeople
    BY <2>3 DEF GatePeople, CiReports, PushesElsewhere, ClosesPr, PersonMergesGated, PersonTouchesTree,
         PersonPulls, PersonCommits, CommitsLocally, SetRemote
  <2>4. QED
    BY <2>1, <2>2, <2>3, GateSteps
<1>3. branch' \in Heads /\ remote' \in Heads
  BY <1>1, <1>2, AppendHead
<1>4. QED
  BY <1>2, <1>3

\* So origin only grows.
LEMMA OriginExtends ==
  ASSUME PrTypeOK, GateNext
  PROVE  /\ IsPrefix(remote, remote')
         /\ \A h \in Heads : IsPrefix(h, remote) => IsPrefix(h, remote')
         /\ Len(remote) <= Len(remote')
<1>1. branch \in Heads /\ remote \in Heads /\ remote' \in Heads /\ "other" \in Commits
  BY GateMovesHeads DEF PrTypeOK, Commits
<1>2. IsPrefix(remote, remote)
  BY <1>1, PrefixIs, HeadIsSeq
<1>3. IsPrefix(remote, remote')
  BY <1>1, <1>2, GateMovesHeads, PrefixOfAppend
<1>4. \A h \in Heads : IsPrefix(h, remote) => IsPrefix(h, remote')
  BY <1>1, <1>3, PrefixOfPrefix
<1>5. Len(remote) <= Len(remote')
  BY <1>1, <1>3, PrefixIs
<1>6. QED
  BY <1>3, <1>4, <1>5

\* The pull request is merged or closed at origin's head, and its checks begin anew or report.
LEMMA GateMovesPr ==
  ASSUME GateNext
  PROVE  /\ \/ pr' = pr
            \/ pr.state = "open" /\ remote' = remote
               /\ pr' \in {[state |-> "merged", head |-> remote], [state |-> "closed", head |-> remote]}
         /\ \/ ci' = ci
            \/ pr.state = "open" /\ remote' # remote /\ ci' = Running
            \/ CiReports
         /\ \/ faults' = faults
            \/ faults < MaxFaults /\ faults' = faults + 1
         /\ \/ moves' = moves
            \/ moves < MaxMoves /\ moves' = moves + 1
<1>1. CASE DetectsReady \/ \E a \in Approvers, force \in BOOLEAN : Approves(a, force)
  BY <1>1 DEF DetectsReady, Approves, prVars
<1>2. CASE \E a \in Approvers : ApproveStep(a) \/ Dies(a)
  <2>1. PICK a \in Approvers : ApproveStep(a) \/ Dies(a)
    BY <1>2
  <2>2. CASE ApproveViews(a) \/ ChecksOut(a) \/ EditsManifests(a) \/ RestoresBranch(a)
             \/ PersistsSidecar(a) \/ ReadsCi(a)
    BY <2>2 DEF ApproveViews, ChecksOut, EditsManifests, RestoresBranch, PersistsSidecar, ReadsCi, prVars,
         GivesUp, Fails
  <2>3. CASE CompletesGate(a) \/ DeletesSidecar(a) \/ Dies(a) \/ CommitsBump(a)
    BY <2>3 DEF CompletesGate, DeletesSidecar, Dies, CommitsBump, prVars, GivesUp, Fails
  <2>4. CASE PushesBump(a)
    BY <2>4 DEF PushesBump, SetRemote, GivesUp, Fails
  <2>5. CASE MergesSquash(a)
    BY <2>5 DEF MergesSquash, Merges, Fails
  <2>6. QED
    BY <2>1, <2>2, <2>3, <2>4, <2>5 DEF ApproveStep
<1>3. CASE GatePeople
  BY <1>3 DEF GatePeople, CiReports, PushesElsewhere, ClosesPr, PersonMergesGated, PersonTouchesTree,
       PersonPulls, PersonCommits, CommitsLocally, SetRemote, Merges, Moves
<1>4. QED
  BY <1>1, <1>2, <1>3, GateSteps

\* So the heads, the pull request, its checks and the counters keep their types.
LEMMA GateKeepsPrTypes ==
  ASSUME PrTypeOK, GateNext
  PROVE  /\ PrTypeOK'
         /\ pr.state = "merged" => pr' = pr /\ (Passed => Passed')
         /\ faults \in Nat /\ (faults' = faults \/ faults' = faults + 1)
<1>1. branch' \in Heads /\ remote' \in Heads
  BY GateMovesHeads
<1>2. pr' \in [state : PrStates, head : Heads]
  <2>1. pr \in [state : PrStates, head : Heads] /\ remote \in Heads
    BY DEF PrTypeOK
  <2>2. \A s \in PrStates, k \in Heads : [state |-> s, head |-> k] \in [state : PrStates, head : Heads]
    OBVIOUS
  <2>3. QED
    BY <2>1, <2>2, GateMovesPr DEF PrStates
<1>3. ci' \in Rollups
  BY GateMovesPr, RunningIsRollup DEF PrTypeOK, CiReports
<1>4. moves' \in 0..MaxMoves /\ faults' \in 0..MaxFaults
  BY GateMovesPr, PullRequestAssumption DEF PrTypeOK
<1>5. ASSUME pr.state = "merged" PROVE pr' = pr /\ (Passed => Passed')
  <2>1. pr' = pr
    BY <1>5, GateMovesPr
  <2>2. ASSUME Passed PROVE Passed'
    <3>1. ci' = ci
      BY <1>5, <2>2, GateMovesPr, PassedReportsNoMore
    <3>2. QED
      BY <2>2, <3>1 DEF Passed
  <2>3. QED
    BY <2>1, <2>2
<1>6. faults \in Nat /\ (faults' = faults \/ faults' = faults + 1)
  BY GateMovesPr, PullRequestAssumption DEF PrTypeOK
<1>7. QED
  BY <1>1, <1>2, <1>3, <1>4, <1>5, <1>6 DEF PrTypeOK

-----------------------------------------------------------------------------
(* Approvals.                                                              *)

Approvals == [pc : ApprovePcs, sc : Sidecars, orig : {"base", "work"}, force : BOOLEAN]

\* An approval at rest, and a sidecar that is not there.
LEMMA AtRest ==
  /\ NoSidecar \in Sidecars /\ ~NoSidecar.there /\ ~NoSidecar.bumped
  /\ NoApproval \in Approvals /\ NoApproval.pc = "idle" /\ NoApproval.sc = NoSidecar
<1>1. NoSidecar \in Sidecars /\ ~NoSidecar.there /\ ~NoSidecar.bumped
  BY FirstHeads DEF NoSidecar, Sidecars
<1>2. NoApproval \in Approvals /\ NoApproval.pc = "idle" /\ NoApproval.sc = NoSidecar
  BY <1>1 DEF NoApproval, Approvals, ApprovePcs
<1>3. QED
  BY <1>1, <1>2

\* Whoever is not idle holds the lock, alone.
LEMMA Alone ==
  ASSUME OneApproves, NEW a \in Approvers, ~Doing(a, "idle")
  PROVE  /\ owner = a /\ sidecar.there
         /\ \A b \in Approvers \ {a} : approval[b] = NoApproval
<1>1. owner = a
  BY AtRest DEF OneApproves, Doing
<1>2. QED
  BY <1>1 DEF OneApproves

\* What an approval does to itself: it ends, or goes on to its next step.
LEMMA ApproveStepMoves ==
  ASSUME PrTypeOK, GateTypeOK, OneApproves, NEW a \in Approvers, ApproveStep(a) \/ Dies(a)
  PROVE  /\ ~Doing(a, "idle")
         /\ approval' \in [Approvers -> Approvals]
         /\ \A b \in Approvers \ {a} : approval'[b] = approval[b]
         /\ \/ owner' = None /\ approval'[a] = NoApproval
            \/ /\ owner' = owner /\ approval'[a].sc = approval[a].sc
               /\ \/ /\ ApproveViews(a) /\ approval'[a].pc = "complete" /\ AlreadyShipped
                  \/ /\ ApproveViews(a) /\ ~AlreadyShipped /\ CheckShipGuards(a)
                     /\ approval'[a].pc = (IF approval[a].sc.bumped THEN "ci" ELSE "checkout")
                  \/ ChecksOut(a) /\ approval'[a].pc = "edit"
                  \/ EditsManifests(a) /\ approval'[a].pc = "commit"
                  \/ CommitsBump(a) /\ approval'[a].pc = "push" /\ branch' = Append(branch, "bump")
                  \/ /\ PushesBump(a) /\ approval'[a].pc = "restore"
                     /\ remote' = branch /\ IsPrefix(remote, branch) /\ branch' = branch
                  \/ PersistsSidecar(a) /\ approval'[a].pc = "ci"
                  \/ ReadsCi(a) /\ CiAllows(a) /\ approval'[a].pc = "merge"
                  \/ MergesSquash(a) /\ approval'[a].pc = "complete" /\ pr'.state = "merged"
                  \/ CompletesGate(a) /\ approval'[a].pc = "delete" /\ gate' = "done"
            \/ /\ owner' = owner /\ RestoresBranch(a) /\ approval'[a].pc = "persist"
               /\ approval'[a].sc = [there |-> TRUE, head |-> branch, bumped |-> TRUE]
<1>1. approval \in [Approvers -> Approvals] /\ approval[a] \in Approvals
  BY DEF GateTypeOK, Approvals
<1>2. NoApproval \in Approvals
  BY AtRest
<1>3. ASSUME NEW x \in Approvals, approval' = [approval EXCEPT ![a] = x]
      PROVE  /\ approval' \in [Approvers -> Approvals]
             /\ \A b \in Approvers \ {a} : approval'[b] = approval[b]
             /\ approval'[a] = x
  BY <1>1, <1>3
<1>4. ASSUME Quits(a)
      PROVE  /\ approval' \in [Approvers -> Approvals]
             /\ \A b \in Approvers \ {a} : approval'[b] = approval[b]
             /\ owner' = None /\ approval'[a] = NoApproval
  BY <1>2, <1>3, <1>4 DEF Quits
<1>5. ASSUME NEW pc \in ApprovePcs, Proceeds(a, pc)
      PROVE  /\ approval' \in [Approvers -> Approvals]
             /\ \A b \in Approvers \ {a} : approval'[b] = approval[b]
             /\ approval'[a].sc = approval[a].sc /\ approval'[a].pc = pc
  <2>1. approval' = [approval EXCEPT ![a] = [approval[a] EXCEPT !.pc = pc]]
    BY <1>5 DEF Proceeds
  <2>2. /\ [approval[a] EXCEPT !.pc = pc] \in Approvals
        /\ [approval[a] EXCEPT !.pc = pc].sc = approval[a].sc
        /\ [approval[a] EXCEPT !.pc = pc].pc = pc
    BY <1>1 DEF Approvals
  <2>3. QED
    BY <1>3, <2>1, <2>2
<1>6. CASE ApproveViews(a)
  <2>1. CASE AlreadyShipped
    BY <1>5, <1>6, <2>1 DEF ApproveViews, ApprovePcs, Doing
  <2>2. CASE ~AlreadyShipped /\ CheckShipGuards(a)
    <3>1. (IF approval[a].sc.bumped THEN "ci" ELSE "checkout") \in ApprovePcs
      BY DEF ApprovePcs
    <3>2. Proceeds(a, IF approval[a].sc.bumped THEN "ci" ELSE "checkout") /\ owner' = owner /\ Doing(a, "view")
      BY <1>6, <2>2 DEF ApproveViews
    <3>3. QED
      BY <1>5, <1>6, <2>2, <3>1, <3>2 DEF Doing
  <2>3. CASE ~AlreadyShipped /\ ~CheckShipGuards(a)
    BY <1>4, <1>6, <2>3 DEF ApproveViews, Doing
  <2>4. QED
    BY <2>1, <2>2, <2>3
<1>7. CASE ChecksOut(a)
  <2> DEFINE x == [approval[a] EXCEPT !.pc = "edit", !.orig = on]
  <2>1. approval' = [approval EXCEPT ![a] = x] /\ owner' = owner /\ Doing(a, "checkout")
    BY <1>7 DEF ChecksOut
  <2>2. x \in Approvals /\ x.sc = approval[a].sc /\ x.pc = "edit"
    BY <1>1 DEF Approvals, ApprovePcs, GateTypeOK
  <2> HIDE DEF x
  <2>3. QED
    BY <1>3, <1>7, <2>1, <2>2 DEF Doing
<1>8. CASE EditsManifests(a)
  <2>1. CASE Proceeds(a, "commit") /\ UNCHANGED owner
    BY <1>5, <1>8, <2>1 DEF EditsManifests, ApprovePcs, Doing
  <2>2. CASE Quits(a)
    BY <1>4, <1>8, <2>2 DEF EditsManifests, Doing
  <2>3. QED
    BY <1>8, <2>1, <2>2 DEF EditsManifests, GivesUp
<1>9. CASE CommitsBump(a)
  <2>1. CASE Proceeds(a, "push") /\ UNCHANGED owner /\ branch' = Append(branch, "bump")
    BY <1>5, <1>9, <2>1 DEF CommitsBump, ApprovePcs, Doing
  <2>2. CASE Quits(a)
    BY <1>4, <1>9, <2>2 DEF CommitsBump, Doing
  <2>3. QED
    BY <1>9, <2>1, <2>2 DEF CommitsBump, GivesUp
<1>10. CASE PushesBump(a)
  <2>1. CASE Proceeds(a, "restore") /\ UNCHANGED owner /\ remote' = branch /\ IsPrefix(remote, branch)
    <3>1. branch' = branch /\ Doing(a, "push")
      BY <1>10 DEF PushesBump
    <3>2. QED
      BY <1>5, <1>10, <2>1, <3>1 DEF ApprovePcs, Doing
  <2>2. CASE Quits(a)
    BY <1>4, <1>10, <2>2 DEF PushesBump, Doing
  <2>3. QED
    BY <1>10, <2>1, <2>2 DEF PushesBump, GivesUp, SetRemote
<1>11. CASE RestoresBranch(a)
  <2> DEFINE s == [there |-> TRUE, head |-> branch, bumped |-> TRUE]
             x == [approval[a] EXCEPT !.pc = "persist", !.sc = s]
  <2>1. approval' = [approval EXCEPT ![a] = x] /\ owner' = owner /\ Doing(a, "restore")
    BY <1>11 DEF RestoresBranch
  <2>2. s \in Sidecars
    BY DEF Sidecars, PrTypeOK
  <2>3. x \in Approvals /\ x.sc = s /\ x.pc = "persist"
    BY <1>1, <2>2 DEF Approvals, ApprovePcs
  <2> HIDE DEF x
  <2>4. QED
    BY <1>3, <1>11, <2>1, <2>3 DEF Doing
<1>12. CASE PersistsSidecar(a)
  BY <1>5, <1>12 DEF PersistsSidecar, ApprovePcs, Doing
<1>13. CASE ReadsCi(a)
  <2>1. CASE CiAllows(a)
    BY <1>5, <1>13, <2>1 DEF ReadsCi, ApprovePcs, Doing
  <2>2. CASE ~CiAllows(a)
    BY <1>4, <1>13, <2>2 DEF ReadsCi, Doing
  <2>3. QED
    BY <2>1, <2>2
<1>14. CASE MergesSquash(a)
  <2>1. CASE Proceeds(a, "complete") /\ UNCHANGED owner /\ Merges
    BY <1>5, <1>14, <2>1 DEF MergesSquash, ApprovePcs, Doing, Merges
  <2>2. CASE Quits(a)
    BY <1>4, <1>14, <2>2 DEF MergesSquash, Doing
  <2>3. QED
    BY <1>14, <2>1, <2>2 DEF MergesSquash
<1>15. CASE CompletesGate(a)
  <2>1. CASE Proceeds(a, "delete") /\ UNCHANGED owner /\ gate' = "done"
    BY <1>5, <1>15, <2>1 DEF CompletesGate, ApprovePcs, Doing
  <2>2. CASE Quits(a)
    BY <1>4, <1>15, <2>2 DEF CompletesGate, Doing
  <2>3. QED
    BY <1>15, <2>1, <2>2 DEF CompletesGate
<1>16. CASE DeletesSidecar(a)
  BY <1>4, <1>16 DEF DeletesSidecar, Doing
<1>17. CASE Dies(a)
  BY <1>4, <1>17 DEF Dies
<1>18. QED
  BY <1>6, <1>7, <1>8, <1>9, <1>10, <1>11, <1>12, <1>13, <1>14, <1>15, <1>16, <1>17 DEF ApproveStep

\* An approval begins with the lock and the sidecar of that moment.
LEMMA ApprovesMoves ==
  ASSUME GateTypeOK, NEW a \in Approvers, NEW force \in BOOLEAN, Approves(a, force)
  PROVE  /\ owner = None /\ owner' = a /\ sidecar.there
         /\ approval' \in [Approvers -> Approvals]
         /\ \A b \in Approvers \ {a} : approval'[b] = approval[b]
         /\ approval'[a].pc = "view" /\ approval'[a].sc = sidecar
<1> DEFINE x == [NoApproval EXCEPT !.pc = "view", !.sc = sidecar, !.force = force]
<1>1. approval' = [approval EXCEPT ![a] = x] /\ owner = None /\ owner' = a /\ sidecar.there
  BY DEF Approves
<1>2. x \in Approvals /\ x.pc = "view" /\ x.sc = sidecar
  BY DEF NoApproval, Approvals, ApprovePcs, GateTypeOK
<1>3. approval \in [Approvers -> Approvals]
  BY DEF GateTypeOK, Approvals
<1> HIDE DEF x
<1>4. QED
  BY <1>1, <1>2, <1>3

\* The sidecar is written by the tick when the run is ready, by an approval when it has bumped, and
\* deleted when the gate is done.
LEMMA SidecarMoves ==
  ASSUME GateNext
  PROVE  \/ sidecar' = sidecar /\ ready' = ready
         \/ /\ ~sidecar.there /\ gate = "blocked"
            /\ sidecar' = [there |-> TRUE, head |-> PrHead, bumped |-> FALSE] /\ ready' = PrHead
            /\ UNCHANGED <<prVars, gate, owner, approval, forced, local, mergedBy>>
         \/ \E a \in Approvers : PersistsSidecar(a) /\ sidecar' = approval[a].sc /\ ready' = ready
         \/ \E a \in Approvers : DeletesSidecar(a) /\ sidecar' = NoSidecar /\ ready' = ready
<1>1. CASE DetectsReady
  BY <1>1 DEF DetectsReady
<1>2. CASE \E a \in Approvers, force \in BOOLEAN : Approves(a, force)
  BY <1>2 DEF Approves
<1>3. CASE \E a \in Approvers : ApproveStep(a) \/ Dies(a)
  <2>1. PICK a \in Approvers : ApproveStep(a) \/ Dies(a)
    BY <1>3
  <2>2. CASE ApproveViews(a) \/ ChecksOut(a) \/ EditsManifests(a) \/ CommitsBump(a) \/ PushesBump(a)
             \/ RestoresBranch(a)
    BY <2>2 DEF ApproveViews, ChecksOut, EditsManifests, CommitsBump, PushesBump, RestoresBranch
  <2>3. CASE ReadsCi(a) \/ MergesSquash(a) \/ CompletesGate(a) \/ Dies(a)
    BY <2>3 DEF ReadsCi, MergesSquash, CompletesGate, Dies
  <2>4. CASE PersistsSidecar(a) \/ DeletesSidecar(a)
    BY <2>4 DEF PersistsSidecar, DeletesSidecar
  <2>5. QED
    BY <2>1, <2>2, <2>3, <2>4 DEF ApproveStep
<1>4. CASE GatePeople
  BY <1>4 DEF GatePeople, sVars, PersonMergesGated, PersonTouchesTree, PersonPulls, PersonCommits
<1>5. QED
  BY <1>1, <1>2, <1>3, <1>4, GateSteps

\* The rest: the gate is done once and for all, and who merged is said at the merge.
LEMMA GateMarks ==
  ASSUME GateNext
  PROVE  /\ gate' = gate \/ (gate' = "done" /\ \E a \in Approvers : CompletesGate(a))
         /\ \/ mergedBy' = mergedBy
            \/ mergedBy' = "person" /\ pr.state = "open"
            \/ mergedBy' = "gate" /\ \E a \in Approvers :
                 /\ MergesSquash(a) /\ pr.state = "open" /\ MatchesHead(a)
                 /\ pr' = [state |-> "merged", head |-> remote]
<1>1. CASE DetectsReady \/ \E a \in Approvers, force \in BOOLEAN : Approves(a, force)
  BY <1>1 DEF DetectsReady, Approves
<1>2. CASE \E a \in Approvers : ApproveStep(a) \/ Dies(a)
  <2>1. PICK a \in Approvers : ApproveStep(a) \/ Dies(a)
    BY <1>2
  <2>2. CASE ApproveViews(a) \/ ChecksOut(a) \/ EditsManifests(a) \/ CommitsBump(a)
    BY <2>2 DEF ApproveViews, ChecksOut, EditsManifests, CommitsBump
  <2>3. CASE PushesBump(a) \/ RestoresBranch(a) \/ PersistsSidecar(a) \/ ReadsCi(a)
    BY <2>3 DEF PushesBump, RestoresBranch, PersistsSidecar, ReadsCi
  <2>4. CASE DeletesSidecar(a) \/ Dies(a)
    BY <2>4 DEF DeletesSidecar, Dies
  <2>5. CASE MergesSquash(a)
    BY <2>5 DEF MergesSquash, Merges
  <2>6. CASE CompletesGate(a)
    BY <2>6 DEF CompletesGate
  <2>7. QED
    BY <2>1, <2>2, <2>3, <2>4, <2>5, <2>6 DEF ApproveStep
<1>3. CASE GatePeople
  BY <1>3 DEF GatePeople, sVars, PersonMergesGated, PersonTouchesTree, PersonPulls, PersonCommits
<1>4. QED
  BY <1>1, <1>2, <1>3, GateSteps

\* What was forced, or got onto the local branch, is not forgotten.
LEMMA GapsStay ==
  ASSUME GateTypeOK, GateNext
  PROVE  /\ forced' \in BOOLEAN /\ (forced => forced')
         /\ local' \in BOOLEAN /\ (local => local')
<1>1. forced \in BOOLEAN /\ local \in BOOLEAN
  BY DEF GateTypeOK
<1>2. CASE DetectsReady \/ \E a \in Approvers, force \in BOOLEAN : Approves(a, force)
  <2>1. forced' = forced /\ local' = local
    BY <1>2 DEF DetectsReady, Approves
  <2>2. QED
    BY <1>1, <2>1
<1>3. CASE \E a \in Approvers : ApproveStep(a) \/ Dies(a)
  <2>1. PICK a \in Approvers : ApproveStep(a) \/ Dies(a)
    BY <1>3
  <2>2. local' = local
    <3>1. CASE ApproveViews(a) \/ ChecksOut(a) \/ EditsManifests(a) \/ CommitsBump(a) \/ PushesBump(a)
      BY <3>1 DEF ApproveViews, ChecksOut, EditsManifests, CommitsBump, PushesBump
    <3>2. CASE RestoresBranch(a) \/ PersistsSidecar(a) \/ ReadsCi(a) \/ MergesSquash(a)
               \/ CompletesGate(a) \/ DeletesSidecar(a) \/ Dies(a)
      BY <3>2 DEF RestoresBranch, PersistsSidecar, ReadsCi, MergesSquash, CompletesGate, DeletesSidecar, Dies
    <3>3. QED
      BY <2>1, <3>1, <3>2 DEF ApproveStep
  <2>3. forced' = forced \/ ApproveViews(a)
    <3>1. CASE ChecksOut(a) \/ EditsManifests(a) \/ CommitsBump(a) \/ PushesBump(a)
      BY <3>1 DEF ChecksOut, EditsManifests, CommitsBump, PushesBump
    <3>2. CASE RestoresBranch(a) \/ PersistsSidecar(a) \/ ReadsCi(a) \/ MergesSquash(a)
               \/ CompletesGate(a) \/ DeletesSidecar(a) \/ Dies(a)
      BY <3>2 DEF RestoresBranch, PersistsSidecar, ReadsCi, MergesSquash, CompletesGate, DeletesSidecar, Dies
    <3>3. QED
      BY <2>1, <3>1, <3>2 DEF ApproveStep
  <2>4. CASE ApproveViews(a)
    <3>1. \/ forced' = forced
          \/ forced' = (forced \/ (approval[a].force /\ ~approval[a].sc.bumped /\ PrHead # approval[a].sc.head))
      BY <2>4 DEF ApproveViews
    <3>2. forced' \in BOOLEAN /\ (forced => forced')
      BY <1>1, <3>1, Zenon
    <3>3. QED
      BY <1>1, <2>2, <3>2
  <2>5. QED
    BY <1>1, <2>2, <2>3, <2>4
<1>4. CASE GatePeople
  <2>1. forced' = forced
    BY <1>4 DEF GatePeople, sVars, PersonMergesGated, PersonTouchesTree, PersonPulls, PersonCommits
  <2>2. local' = local \/ local' = TRUE \/ local' = (local \/ owner # None)
    BY <1>4 DEF GatePeople, sVars, PersonMergesGated, PersonTouchesTree, PersonPulls, PersonCommits
  <2>3. local' \in BOOLEAN /\ (local => local')
    BY <1>1, <2>2, Zenon
  <2>4. QED
    BY <1>1, <2>1, <2>3
<1>5. QED
  BY <1>2, <1>3, <1>4, GateSteps

\* The working tree and its branch.
LEMMA TreeMoves ==
  ASSUME GateTypeOK, GateNext
  PROVE  tree' \in {"clean", "dirty"} /\ on' \in {"base", "work"}
<1>1. tree \in {"clean", "dirty"} /\ on \in {"base", "work"}
  BY DEF GateTypeOK
<1>2. CASE DetectsReady \/ \E a \in Approvers, force \in BOOLEAN : Approves(a, force)
  BY <1>1, <1>2 DEF DetectsReady, Approves
<1>3. CASE \E a \in Approvers : ApproveStep(a) \/ Dies(a)
  <2>1. PICK a \in Approvers : ApproveStep(a) \/ Dies(a)
    BY <1>3
  <2>2. approval[a].orig \in {"base", "work"}
    BY DEF GateTypeOK
  <2>3. CASE ApproveViews(a) \/ ChecksOut(a) \/ EditsManifests(a) \/ CommitsBump(a)
    BY <1>1, <2>2, <2>3 DEF ApproveViews, ChecksOut, EditsManifests, CommitsBump, LeavesBranch, GivesUp
  <2>4. CASE PushesBump(a) \/ RestoresBranch(a) \/ PersistsSidecar(a) \/ ReadsCi(a)
    BY <1>1, <2>2, <2>4 DEF PushesBump, RestoresBranch, PersistsSidecar, ReadsCi, LeavesBranch, GivesUp
  <2>5. CASE MergesSquash(a) \/ CompletesGate(a) \/ DeletesSidecar(a) \/ Dies(a)
    BY <1>1, <2>5 DEF MergesSquash, CompletesGate, DeletesSidecar, Dies
  <2>6. QED
    BY <2>1, <2>3, <2>4, <2>5 DEF ApproveStep
<1>4. CASE GatePeople
  BY <1>1, <1>4 DEF GatePeople, sVars, PersonMergesGated, PersonTouchesTree, PersonPulls, PersonCommits
<1>5. QED
  BY <1>2, <1>3, <1>4, GateSteps

\* The gate's variables keep their types.
LEMMA GateKeepsTypes ==
  ASSUME TypeOK, OneApproves, GateNext
  PROVE  GateTypeOK'
<1>1. PrTypeOK /\ GateTypeOK
  BY DEF TypeOK
<1>2. /\ approval' \in [Approvers -> Approvals]
      /\ owner' \in Approvers \cup {None}
  <2>1. CASE DetectsReady \/ GatePeople
    <3>1. approval' = approval /\ owner' = owner
      BY <2>1 DEF DetectsReady, GatePeople, sVars, PersonMergesGated, PersonTouchesTree, PersonPulls,
           PersonCommits
    <3>2. QED
      BY <1>1, <3>1 DEF GateTypeOK, Approvals
  <2>2. CASE \E a \in Approvers, force \in BOOLEAN : Approves(a, force)
    BY <1>1, <2>2, ApprovesMoves
  <2>3. CASE \E a \in Approvers : ApproveStep(a) \/ Dies(a)
    <3>1. PICK a \in Approvers : ApproveStep(a) \/ Dies(a)
      BY <2>3
    <3>2. approval' \in [Approvers -> Approvals] /\ (owner' = None \/ owner' = owner)
      BY <1>1, <3>1, ApproveStepMoves
    <3>3. QED
      BY <1>1, <3>2 DEF GateTypeOK
  <2>4. QED
    BY <2>1, <2>2, <2>3, GateSteps
<1>3. PrHead \in Heads
  BY <1>1 DEF PrTypeOK, PrHead
<1>4. sidecar' \in Sidecars /\ ready' \in Heads
  <2>1. \A a \in Approvers : approval[a].sc \in Sidecars
    BY <1>1 DEF GateTypeOK
  <2>2. [there |-> TRUE, head |-> PrHead, bumped |-> FALSE] \in Sidecars
    BY <1>3 DEF Sidecars
  <2>3. sidecar \in Sidecars /\ ready \in Heads
    BY <1>1 DEF GateTypeOK
  <2>4. QED
    BY <1>3, <2>1, <2>2, <2>3, SidecarMoves, AtRest
<1>5. gate' \in {"none", "blocked", "done"} /\ mergedBy' \in {"none", "gate", "person"}
  BY <1>1, GateMarks DEF GateTypeOK
<1>6. forced' \in BOOLEAN /\ local' \in BOOLEAN /\ tree' \in {"clean", "dirty"} /\ on' \in {"base", "work"}
  BY <1>1, GapsStay, TreeMoves
<1>7. QED
  BY <1>2, <1>4, <1>5, <1>6 DEF GateTypeOK, Approvals

-----------------------------------------------------------------------------
(* The gate's invariant is inductive.                                      *)

\* People leave the approvals, the sidecar and the gate alone.
LEMMA PeopleLeaveApprovals ==
  ASSUME GatePeople
  PROVE  UNCHANGED <<approval, owner, sidecar, gate, ready, forced>>
BY DEF GatePeople, sVars, PersonMergesGated, PersonTouchesTree, PersonPulls, PersonCommits

\* At most one approval is under way, with the sidecar there is.
LEMMA OneApprovesKeeps ==
  ASSUME TypeOK, OneApproves, GateNext
  PROVE  OneApproves'
<1>1. PrTypeOK /\ GateTypeOK
  BY DEF TypeOK
<1>2. pr.state = "merged" => pr'.state = "merged"
  BY <1>1, GateKeepsPrTypes
<1>3. NoApproval.pc = "idle" /\ None \notin Approvers
  BY AtRest, ShipGateAssumption
<1>4. CASE DetectsReady
  <2>1. \A a \in Approvers : owner # a /\ approval[a] = NoApproval
    BY <1>4 DEF OneApproves, DetectsReady
  <2>2. approval' = approval /\ owner' = owner
    BY <1>4 DEF DetectsReady
  <2>3. QED
    BY <1>3, <2>1, <2>2 DEF OneApproves, Bumping
<1>5. CASE \E a \in Approvers, force \in BOOLEAN : Approves(a, force)
  <2>1. PICK a \in Approvers, force \in BOOLEAN : Approves(a, force)
    BY <1>5
  <2>2. /\ owner = None /\ owner' = a /\ sidecar.there /\ sidecar' = sidecar
        /\ \A b \in Approvers \ {a} : approval'[b] = approval[b]
        /\ approval'[a].pc = "view" /\ approval'[a].sc = sidecar
    BY <1>1, <2>1, ApprovesMoves DEF Approves
  <2>3. \A b \in Approvers \ {a} : approval'[b] = NoApproval
    BY <1>3, <2>2 DEF OneApproves
  <2>4. QED
    BY <1>3, <2>2, <2>3 DEF OneApproves, Bumping
<1>6. CASE \E a \in Approvers : ApproveStep(a) \/ Dies(a)
  <2>1. PICK a \in Approvers : ApproveStep(a) \/ Dies(a)
    BY <1>6
  <2>2. /\ ~Doing(a, "idle")
        /\ \A b \in Approvers \ {a} : approval'[b] = approval[b]
    BY <1>1, <2>1, ApproveStepMoves
  <2>3. /\ owner = a /\ sidecar.there
        /\ \A b \in Approvers \ {a} : approval'[b] = NoApproval
    BY <2>2, Alone
  <2>4. CASE owner' = None /\ approval'[a] = NoApproval
    BY <1>3, <2>3, <2>4 DEF OneApproves, Bumping
  <2>5. SUFFICES ASSUME ~(owner' = None /\ approval'[a] = NoApproval)
                 PROVE  /\ owner' = a /\ approval'[a].pc # "idle" /\ sidecar'.there
                        /\ approval'[a].pc \in Bumping => approval'[a].sc = sidecar' /\ ~sidecar'.bumped
                        /\ approval'[a].pc = "view" => approval'[a].sc = sidecar'
                        /\ approval'[a].pc \in {"restore", "persist"} => ~sidecar'.bumped
                        /\ approval'[a].pc \in {"persist", "ci", "merge"} => approval'[a].sc.there /\ approval'[a].sc.bumped
                        /\ approval'[a].pc \in {"complete", "delete"} => pr'.state = "merged"
                        /\ approval'[a].pc = "delete" => gate' = "done"
    BY <1>3, <2>3, <2>4 DEF OneApproves, Bumping
  <2>6. /\ approval[a].pc \in Bumping => approval[a].sc = sidecar /\ ~sidecar.bumped
        /\ approval[a].pc = "view" => approval[a].sc = sidecar
        /\ approval[a].pc \in {"restore", "persist"} => ~sidecar.bumped
        /\ approval[a].pc \in {"persist", "ci", "merge"} => approval[a].sc.there /\ approval[a].sc.bumped
        /\ approval[a].pc \in {"complete", "delete"} => pr.state = "merged"
        /\ approval[a].pc = "delete" => gate = "done"
    BY DEF OneApproves
  <2> DEFINE Same == owner' = a /\ approval'[a].sc = approval[a].sc
  <2>7. CASE Same /\ ApproveViews(a) /\ approval'[a].pc = "complete" /\ AlreadyShipped
    BY <1>2, <2>3, <2>6, <2>7 DEF ApproveViews, AlreadyShipped, Bumping
  <2>8. CASE Same /\ ApproveViews(a) /\ approval'[a].pc = (IF approval[a].sc.bumped THEN "ci" ELSE "checkout")
    BY <2>3, <2>6, <2>8 DEF ApproveViews, Doing, Bumping
  <2>9. CASE Same /\ ChecksOut(a) /\ approval'[a].pc = "edit"
    BY <2>3, <2>6, <2>9 DEF ChecksOut, Doing, Bumping
  <2>10. CASE Same /\ EditsManifests(a) /\ approval'[a].pc = "commit"
    BY <2>3, <2>6, <2>10 DEF EditsManifests, Doing, Bumping
  <2>11. CASE Same /\ CommitsBump(a) /\ approval'[a].pc = "push"
    BY <2>3, <2>6, <2>11 DEF CommitsBump, Doing, Bumping
  <2>12. CASE Same /\ PushesBump(a) /\ approval'[a].pc = "restore"
    BY <2>3, <2>6, <2>12 DEF PushesBump, Doing, Bumping
  <2>13. CASE owner' = a /\ RestoresBranch(a) /\ approval'[a].pc = "persist"
              /\ approval'[a].sc = [there |-> TRUE, head |-> branch, bumped |-> TRUE]
    BY <2>3, <2>6, <2>13 DEF RestoresBranch, Doing, Bumping
  <2>14. CASE Same /\ PersistsSidecar(a) /\ approval'[a].pc = "ci"
    <3>1. approval[a].sc.there /\ approval[a].sc.bumped /\ sidecar' = approval[a].sc
      BY <2>6, <2>14 DEF PersistsSidecar, Doing
    <3>2. QED
      BY <2>14, <3>1 DEF Bumping
  <2>15. CASE Same /\ ReadsCi(a) /\ approval'[a].pc = "merge"
    BY <2>3, <2>6, <2>15 DEF ReadsCi, Doing, Bumping
  <2>16. CASE Same /\ MergesSquash(a) /\ approval'[a].pc = "complete" /\ pr'.state = "merged"
    BY <2>3, <2>16 DEF MergesSquash, Bumping
  <2>17. CASE Same /\ CompletesGate(a) /\ approval'[a].pc = "delete" /\ gate' = "done"
    BY <1>2, <2>3, <2>6, <2>17 DEF CompletesGate, Doing, Bumping
  <2>18. \/ Same /\ ApproveViews(a) /\ approval'[a].pc = "complete" /\ AlreadyShipped
         \/ Same /\ ApproveViews(a) /\ approval'[a].pc = (IF approval[a].sc.bumped THEN "ci" ELSE "checkout")
         \/ Same /\ ChecksOut(a) /\ approval'[a].pc = "edit"
         \/ Same /\ EditsManifests(a) /\ approval'[a].pc = "commit"
         \/ Same /\ CommitsBump(a) /\ approval'[a].pc = "push"
         \/ Same /\ PushesBump(a) /\ approval'[a].pc = "restore"
         \/ owner' = a /\ RestoresBranch(a) /\ approval'[a].pc = "persist"
            /\ approval'[a].sc = [there |-> TRUE, head |-> branch, bumped |-> TRUE]
         \/ Same /\ PersistsSidecar(a) /\ approval'[a].pc = "ci"
         \/ Same /\ ReadsCi(a) /\ approval'[a].pc = "merge"
         \/ Same /\ MergesSquash(a) /\ approval'[a].pc = "complete" /\ pr'.state = "merged"
         \/ Same /\ CompletesGate(a) /\ approval'[a].pc = "delete" /\ gate' = "done"
    <3>1. \/ owner' = None /\ approval'[a] = NoApproval
          \/ /\ owner' = owner /\ approval'[a].sc = approval[a].sc
             /\ \/ /\ ApproveViews(a) /\ approval'[a].pc = "complete" /\ AlreadyShipped
                \/ /\ ApproveViews(a) /\ ~AlreadyShipped /\ CheckShipGuards(a)
                   /\ approval'[a].pc = (IF approval[a].sc.bumped THEN "ci" ELSE "checkout")
                \/ ChecksOut(a) /\ approval'[a].pc = "edit"
                \/ EditsManifests(a) /\ approval'[a].pc = "commit"
                \/ CommitsBump(a) /\ approval'[a].pc = "push" /\ branch' = Append(branch, "bump")
                \/ /\ PushesBump(a) /\ approval'[a].pc = "restore"
                   /\ remote' = branch /\ IsPrefix(remote, branch) /\ branch' = branch
                \/ PersistsSidecar(a) /\ approval'[a].pc = "ci"
                \/ ReadsCi(a) /\ CiAllows(a) /\ approval'[a].pc = "merge"
                \/ MergesSquash(a) /\ approval'[a].pc = "complete" /\ pr'.state = "merged"
                \/ CompletesGate(a) /\ approval'[a].pc = "delete" /\ gate' = "done"
          \/ /\ owner' = owner /\ RestoresBranch(a) /\ approval'[a].pc = "persist"
             /\ approval'[a].sc = [there |-> TRUE, head |-> branch, bumped |-> TRUE]
      BY <1>1, <2>1, ApproveStepMoves
    <3>2. owner = a
      BY <2>3
    <3>3. QED
      BY ONLY <2>5, <3>1, <3>2
  <2>19. QED
    BY ONLY <2>7, <2>8, <2>9, <2>10, <2>11, <2>12, <2>13, <2>14, <2>15, <2>16, <2>17, <2>18
<1>7. CASE GatePeople
  BY <1>2, <1>7, PeopleLeaveApprovals DEF OneApproves
<1>8. QED
  BY <1>4, <1>5, <1>6, <1>7, GateSteps

\* The sidecar outlives the merge until the gate is done.
LEMMA SidecarStandsKeeps ==
  ASSUME TypeOK, OneApproves, SidecarStands, GateNext
  PROVE  SidecarStands'
<1>1. PrTypeOK /\ GateTypeOK
  BY DEF TypeOK
<1>2. pr.state = "merged" => pr'.state = "merged"
  BY <1>1, GateKeepsPrTypes
<1>3. ~sidecar'.there => sidecar' = NoSidecar
  <2>1. ASSUME NEW a \in Approvers, PersistsSidecar(a) PROVE approval[a].sc.there
    BY <2>1 DEF OneApproves, PersistsSidecar, Doing
  <2>2. QED
    BY <2>1, SidecarMoves, AtRest DEF SidecarStands
<1>4. sidecar'.there /\ ~sidecar'.bumped => sidecar'.head = ready'
  <2>1. ASSUME NEW a \in Approvers, PersistsSidecar(a) PROVE approval[a].sc.bumped
    BY <2>1 DEF OneApproves, PersistsSidecar, Doing
  <2>2. QED
    BY <2>1, SidecarMoves, AtRest DEF SidecarStands
<1>5. mergedBy' = "gate" => pr'.state = "merged" /\ (sidecar'.there \/ gate' = "done")
  <2>1. CASE mergedBy = "gate"
    <3>1. pr'.state = "merged" /\ (sidecar.there \/ gate = "done")
      BY <1>2, <2>1 DEF SidecarStands
    <3>2. gate = "done" => gate' = "done"
      BY GateMarks
    <3>3. sidecar.there => sidecar'.there \/ gate = "done"
      <4>1. ASSUME NEW a \in Approvers, PersistsSidecar(a) PROVE approval[a].sc.there
        BY <4>1 DEF OneApproves, PersistsSidecar, Doing
      <4>2. ASSUME NEW a \in Approvers, DeletesSidecar(a) PROVE gate = "done"
        BY <4>2 DEF OneApproves, DeletesSidecar, Doing
      <4>3. QED
        BY <4>1, <4>2, SidecarMoves
    <3>4. QED
      BY <3>1, <3>2, <3>3
  <2>2. CASE mergedBy # "gate" /\ mergedBy' = "gate"
    <3>1. PICK a \in Approvers : MergesSquash(a) /\ pr' = [state |-> "merged", head |-> remote]
      BY <2>2, GateMarks
    <3>2. sidecar' = sidecar /\ ~Doing(a, "idle")
      BY <3>1 DEF MergesSquash, Doing
    <3>3. sidecar.there
      BY <3>2, Alone
    <3>4. QED
      BY <3>1, <3>2, <3>3
  <2>3. QED
    BY <2>1, <2>2
<1>6. QED
  BY <1>3, <1>4, <1>5 DEF SidecarStands

\* The local branch has nothing over origin but bumps, and origin only grows.
LEMMA BranchesKeep ==
  ASSUME TypeOK, OnlyBumpsAhead, OriginGrows, GateNext
  PROVE  OnlyBumpsAhead' /\ OriginGrows'
<1>1. PrTypeOK /\ GateTypeOK /\ branch \in Heads /\ remote \in Heads /\ pr.head \in Heads /\ "bump" \in Commits
  BY DEF TypeOK, PrTypeOK, Commits
<1>2. OnlyBumpsAhead'
  <2>1. SUFFICES ASSUME ~local', NEW i \in 1..Len(branch'), i > Len(remote')
                 PROVE  branch'[i] = "bump"
    BY DEF OnlyBumpsAhead
  <2>2. ~local
    BY <1>1, <2>1, GapsStay
  <2>3. Len(remote) <= Len(remote') /\ Len(remote) \in Nat /\ Len(remote') \in Nat /\ Len(branch) \in Nat
    BY <1>1, OriginExtends, GateMovesHeads, HeadIsSeq
  <2>4. \A j \in 1..Len(branch) : j > Len(remote) => branch[j] = "bump"
    BY <2>2 DEF OnlyBumpsAhead
  <2>5. CASE branch' = branch
    BY <2>1, <2>3, <2>4, <2>5
  <2>6. CASE Len(branch) < MaxCommits /\ branch' = Append(branch, "bump") /\ remote' = remote
    <3>1. /\ Len(Append(branch, "bump")) = Len(branch) + 1
          /\ \A k \in 1..Len(branch) : Append(branch, "bump")[k] = branch[k]
          /\ Append(branch, "bump")[Len(branch) + 1] = "bump"
      BY <1>1, AppendHead
    <3>2. QED
      BY <2>1, <2>3, <2>4, <2>6, <3>1
  <2>7. CASE PersonCommits
    BY <2>1, <2>7 DEF PersonCommits
  <2>8. CASE branch' = remote /\ remote' = remote
    BY <2>1, <2>3, <2>8
  <2>9. QED
    BY <1>1, <2>5, <2>6, <2>7, <2>8, GateMovesHeads
<1>3. OriginGrows'
  <2>1. CASE pr' = pr
    BY <1>1, <2>1, OriginExtends DEF OriginGrows
  <2>2. CASE pr' # pr
    <3>1. pr'.head = remote /\ remote' = remote
      BY <2>2, GateMovesPr
    <3>2. IsPrefix(remote, remote')
      BY <1>1, OriginExtends
    <3>3. QED
      BY <3>1, <3>2 DEF OriginGrows
  <2>3. QED
    BY <2>1, <2>2
<1>4. QED
  BY <1>2, <1>3

\* A sidecar that fits goes on to fit, as long as the ready head stays.
LEMMA BumpedFitsKeeps ==
  ASSUME TypeOK, GateNext, ready' = ready, NEW s \in Sidecars, BumpedFits(s)
  PROVE  s.bumped => /\ ~local' => IsPrefix(s.head, remote')
                     /\ ~local' /\ ~forced' /\ pr'.state = "open" => Others(s.head) = Others(ready')
<1>1. PrTypeOK /\ GateTypeOK /\ s.head \in Heads
  BY DEF TypeOK, Sidecars
<1>2. (~local' => ~local) /\ (~forced' => ~forced)
  BY <1>1, GapsStay
<1>3. pr'.state = "open" => pr.state = "open"
  BY GateMovesPr
<1>4. ~local /\ s.bumped => IsPrefix(s.head, remote')
  BY <1>1, OriginExtends DEF BumpedFits
<1>5. QED
  BY <1>2, <1>3, <1>4 DEF BumpedFits

\* An approval at rest fits.
LEMMA RestFits ==
  ASSUME NEW a \in Approvers, approval'[a] = NoApproval
  PROVE  ApprovalFits(a)'
BY AtRest DEF ApprovalFits, BumpedFits, Bumping

\* The sidecar fits when the tick writes it, when an approval does, and when it is deleted.
LEMMA SidecarFitsKeeps ==
  ASSUME TypeOK, HeadsFit, GateNext
  PROVE  BumpedFits(sidecar)'
<1>1. sidecar \in Sidecars /\ \A a \in Approvers : approval[a].sc \in Sidecars
  BY DEF TypeOK, GateTypeOK
<1>2. BumpedFits(sidecar) /\ \A a \in Approvers : BumpedFits(approval[a].sc)
  BY DEF HeadsFit, ApprovalFits
<1>3. CASE sidecar' = sidecar /\ ready' = ready
  BY <1>1, <1>2, <1>3, BumpedFitsKeeps DEF BumpedFits
<1>4. CASE sidecar' = [there |-> TRUE, head |-> PrHead, bumped |-> FALSE]
  BY <1>4 DEF BumpedFits
<1>5. CASE \E a \in Approvers : sidecar' = approval[a].sc /\ ready' = ready
  BY <1>1, <1>2, <1>5, BumpedFitsKeeps DEF BumpedFits
<1>6. CASE sidecar' = NoSidecar
  BY <1>6, AtRest DEF BumpedFits
<1>7. QED
  BY <1>3, <1>4, <1>5, <1>6, SidecarMoves

\* People who leave the local branch alone break nothing an approval relies on.
LEMMA PeopleKeepFits ==
  ASSUME TypeOK, OneApproves, HeadsFit, GateNext, GatePeople, NEW a \in Approvers
  PROVE  ApprovalFits(a)'
<1>1. PrTypeOK /\ GateTypeOK /\ branch \in Heads /\ remote \in Heads /\ remote' \in Heads /\ ready \in Heads
      /\ approval[a].sc \in Sidecars /\ approval[a].sc.head \in Heads
  BY GateMovesHeads DEF TypeOK, PrTypeOK, GateTypeOK, Sidecars
<1>2. approval' = approval /\ ready' = ready /\ owner' = owner /\ forced' = forced
  BY PeopleLeaveApprovals
<1>3. CASE approval[a] = NoApproval
  BY <1>2, <1>3, RestFits
<1>4. CASE approval[a] # NoApproval
  <2>1. owner # None
    BY <1>4, ShipGateAssumption DEF OneApproves
  <2>2. ~local' => branch' = branch
    BY <2>1 DEF GatePeople, CiReports, PushesElsewhere, ClosesPr, PersonMergesGated, PersonTouchesTree,
         PersonPulls, PersonCommits
  <2>3. ApprovalFits(a)
    BY DEF HeadsFit
  <2>4. (~local' => ~local) /\ (pr'.state = "open" => pr' = pr)
    BY <1>1, GapsStay, GateMovesPr
  <2>5. BumpedFits(approval[a].sc)'
    BY <1>1, <1>2, <2>3, BumpedFitsKeeps DEF ApprovalFits, BumpedFits
  <2>6. (approval[a].pc \in Bumping /\ ~forced /\ ~local /\ pr.state = "open" =>
           /\ IsPrefix(ready, remote)
           /\ \A i \in 1..Len(branch) : i > Len(ready) => branch[i] = "bump")'
    <3>1. IsPrefix(ready, remote) => IsPrefix(ready, remote')
      BY <1>1, OriginExtends
    <3>2. QED
      BY <1>2, <2>2, <2>3, <2>4, <3>1 DEF ApprovalFits
  <2>7. (approval[a].pc = "restore" /\ ~local =>
           /\ IsPrefix(branch, remote)
           /\ ~forced /\ pr.state = "open" => Others(branch) = Others(ready))'
    <3>1. IsPrefix(branch, remote) => IsPrefix(branch, remote')
      BY <1>1, OriginExtends
    <3>2. QED
      BY <1>2, <2>2, <2>3, <2>4, <3>1 DEF ApprovalFits
  <2>8. (approval[a].pc = "merge" /\ ~local /\ pr.state = "open" /\ remote = approval[a].sc.head => Passed)'
    <3>1. SUFFICES ASSUME approval[a].pc = "merge", ~local', pr'.state = "open", remote' = approval[a].sc.head
                   PROVE  Passed'
      BY <1>2
    <3>2. approval[a].sc.bumped
      BY <3>1 DEF OneApproves
    <3>3. IsPrefix(remote', remote)
      BY <2>3, <2>4, <3>1, <3>2 DEF ApprovalFits, BumpedFits
    <3>4. remote' = remote
      <4>1. Len(remote') <= Len(remote) /\ \A i \in 1..Len(remote') : remote'[i] = remote[i]
        BY <1>1, <3>3, PrefixIs
      <4>2. Len(remote) <= Len(remote') /\ Len(remote) \in Nat /\ Len(remote') \in Nat
        BY <1>1, OriginExtends, HeadIsSeq
      <4>3. QED
        BY <1>1, <4>1, <4>2, SameHead
    <3>5. Passed
      BY <2>3, <2>4, <3>1, <3>4 DEF ApprovalFits
    <3>6. ci' = ci
      BY <3>4, <3>5, GateMovesPr, PassedReportsNoMore
    <3>7. QED
      BY <3>5, <3>6 DEF Passed
  <2>9. QED
    BY <2>5, <2>6, <2>7, <2>8 DEF ApprovalFits
<1>5. QED
  BY <1>3, <1>4

\* A fast-forward from the ready head by bumps alone has the ready head's unreviewed commits.
LEMMA BumpsAddNoOthers ==
  ASSUME NEW r \in Heads, NEW k \in Heads, NEW h \in Heads, IsPrefix(r, k), IsPrefix(k, h),
         \A i \in 1..Len(h) : i > Len(r) => h[i] = "bump"
  PROVE  Others(h) = Others(r)
<1>1. Len(r) \in Nat /\ Len(h) \in Nat
  BY HeadIsSeq
<1>2. Len(r) <= Len(h) /\ \A i \in 1..Len(r) : r[i] = h[i]
  BY PrefixOfPrefix, PrefixIs
<1>3. \A i : i \in Others(h) => i \in Others(r)
  BY <1>1, <1>2 DEF Others
<1>4. \A i : i \in Others(r) => i \in Others(h)
  BY <1>1, <1>2 DEF Others
<1>5. QED
  BY <1>3, <1>4

\* What an approval does to itself fits.
LEMMA ApproveStepKeepsFits ==
  ASSUME TypeOK, OneApproves, SidecarStands, HeadsFit, GateNext,
         NEW a \in Approvers, ApproveStep(a) \/ Dies(a)
  PROVE  ApprovalFits(a)'
<1>1. /\ PrTypeOK /\ GateTypeOK /\ branch \in Heads /\ remote \in Heads /\ ready \in Heads
      /\ approval[a].sc \in Sidecars /\ approval[a].sc.head \in Heads
  BY DEF TypeOK, PrTypeOK, GateTypeOK, Sidecars
<1>2. /\ (~local' => ~local) /\ (~forced' => ~forced)
      /\ pr'.state = "open" => pr.state = "open"
  BY <1>1, GapsStay, GateMovesPr
<1>3. ApprovalFits(a) /\ BumpedFits(sidecar)
  BY DEF HeadsFit
<1>4. ~DetectsReady
  <2>1. owner = a /\ ~Doing(a, "idle")
    BY <1>1, ApproveStepMoves, Alone
  <2>2. sidecar.there
    BY <2>1, Alone
  <2>3. QED
    BY <2>2 DEF DetectsReady
<1>5. ready' = ready
  <2>1. sidecar.there
    BY <1>1, ApproveStepMoves, Alone
  <2>2. QED
    BY <2>1, SidecarMoves
<1> DEFINE Same == owner' = owner /\ approval'[a].sc = approval[a].sc
<1>6. CASE approval'[a] = NoApproval
  BY <1>6, RestFits
<1>7. ASSUME Same PROVE BumpedFits(approval[a].sc)'
  BY <1>1, <1>3, <1>5, <1>7, BumpedFitsKeeps DEF ApprovalFits, BumpedFits
<1>8. CASE Same /\ approval'[a].pc \in {"complete", "ci", "delete"}
  BY <1>7, <1>8 DEF ApprovalFits, Bumping
<1>9. CASE Same /\ ApproveViews(a) /\ ~AlreadyShipped /\ CheckShipGuards(a)
           /\ approval'[a].pc = (IF approval[a].sc.bumped THEN "ci" ELSE "checkout")
  <2>1. CASE approval[a].sc.bumped
    BY <1>8, <1>9, <2>1
  <2>2. CASE ~approval[a].sc.bumped
    <3>1. branch' = branch /\ remote' = remote /\ pr' = pr /\ Doing(a, "view")
      BY <1>9 DEF ApproveViews, prVars
    <3>2. approval[a].sc = sidecar /\ sidecar.there
      BY <3>1, Alone DEF OneApproves, Doing
    <3>3. sidecar.head = ready
      BY <2>2, <3>2 DEF SidecarStands
    <3>4. ~forced' => PrHead = ready
      <4>1. PrHead = approval[a].sc.head \/ approval[a].force
        BY <1>9, <2>2 DEF CheckShipGuards
      <4>2. forced' = (forced \/ (approval[a].force /\ ~approval[a].sc.bumped /\ PrHead # approval[a].sc.head))
        BY <1>9 DEF ApproveViews, Doing
      <4>3. PrHead # approval[a].sc.head => forced'
        BY <2>2, <4>1, <4>2
      <4>4. QED
        BY <3>2, <3>3, <4>3
    <3>5. ASSUME ~forced', ~local', pr'.state = "open"
          PROVE  IsPrefix(ready, remote) /\ \A i \in 1..Len(branch) : i > Len(ready) => branch[i] = "bump"
      <4>1. remote = ready
        BY <1>2, <3>4, <3>5 DEF PrHead
      <4>2. IsPrefix(ready, remote)
        BY <1>1, <4>1, PrefixIs, HeadIsSeq
      <4>3. QED
        BY <1>2, <3>5, <4>1, <4>2 DEF HeadsFit, OnlyBumpsAhead
    <3>6. QED
      BY <1>5, <1>7, <1>9, <2>2, <3>1, <3>5 DEF ApprovalFits, Bumping
  <2>3. QED
    BY <2>1, <2>2
<1>10. CASE Same /\ ((ChecksOut(a) /\ approval'[a].pc = "edit") \/ (EditsManifests(a) /\ approval'[a].pc = "commit"))
  <2>1. branch' = branch /\ remote' = remote /\ approval[a].pc \in Bumping /\ approval'[a].pc \in Bumping
    BY <1>10 DEF ChecksOut, EditsManifests, prVars, Doing, Bumping
  <2>2. approval'[a].pc \notin {"restore", "merge"}
    BY <1>10
  <2>3. QED
    BY <1>2, <1>3, <1>5, <1>7, <1>10, <2>1, <2>2 DEF ApprovalFits
<1>11. CASE Same /\ CommitsBump(a) /\ approval'[a].pc = "push" /\ branch' = Append(branch, "bump")
  <2>1. remote' = remote /\ approval[a].pc \in Bumping
    BY <1>11 DEF CommitsBump, Doing, Bumping
  <2>2. /\ Len(Append(branch, "bump")) = Len(branch) + 1 /\ Len(branch) \in Nat
        /\ \A k \in 1..Len(branch) : Append(branch, "bump")[k] = branch[k]
        /\ Append(branch, "bump")[Len(branch) + 1] = "bump"
    <3>1. "bump" \in Commits
      BY DEF Commits
    <3>2. QED
      BY <1>1, <3>1, AppendHead
  <2>3. ASSUME ~forced', ~local', pr'.state = "open"
        PROVE  IsPrefix(ready, remote) /\ \A i \in 1..Len(branch') : i > Len(ready) => branch'[i] = "bump"
    <3>1. IsPrefix(ready, remote) /\ \A i \in 1..Len(branch) : i > Len(ready) => branch[i] = "bump"
      BY <1>2, <1>3, <2>1, <2>3 DEF ApprovalFits
    <3>2. ASSUME NEW i \in 1..Len(branch'), i > Len(ready) PROVE branch'[i] = "bump"
      <4>1. i \in 1..Len(branch) \/ i = Len(branch) + 1
        BY <1>11, <2>2, <3>2
      <4>2. QED
        BY <1>11, <2>2, <3>1, <3>2, <4>1
    <3>3. QED
      BY <3>1, <3>2
  <2>4. QED
    BY <1>5, <1>7, <1>11, <2>1, <2>3 DEF ApprovalFits, Bumping
<1>12. CASE Same /\ PushesBump(a) /\ approval'[a].pc = "restore"
            /\ remote' = branch /\ IsPrefix(remote, branch) /\ branch' = branch
  <2>1. approval[a].pc \in Bumping
    BY <1>12 DEF PushesBump, Doing, Bumping
  <2>2. IsPrefix(branch, branch)
    BY <1>1, PrefixIs, HeadIsSeq
  <2>3. ASSUME ~forced', ~local', pr'.state = "open"
        PROVE  Others(branch) = Others(ready)
    <3>1. IsPrefix(ready, remote) /\ \A i \in 1..Len(branch) : i > Len(ready) => branch[i] = "bump"
      BY <1>2, <1>3, <2>1, <2>3 DEF ApprovalFits
    <3>2. QED
      BY <1>1, <1>12, <3>1, BumpsAddNoOthers
  <2>4. QED
    BY <1>5, <1>7, <1>12, <2>2, <2>3 DEF ApprovalFits, Bumping
<1>13. CASE RestoresBranch(a) /\ approval'[a].pc = "persist"
            /\ approval'[a].sc = [there |-> TRUE, head |-> branch, bumped |-> TRUE]
  <2>1. branch' = branch /\ remote' = remote /\ approval[a].pc = "restore"
    BY <1>13 DEF RestoresBranch, prVars, Doing
  <2>2. /\ ~local' => IsPrefix(branch, remote')
        /\ ~local' /\ ~forced' /\ pr'.state = "open" => Others(branch) = Others(ready')
    BY <1>2, <1>3, <1>5, <2>1 DEF ApprovalFits
  <2>3. BumpedFits(approval[a].sc)'
    BY <1>13, <2>2 DEF BumpedFits
  <2>4. QED
    BY <1>13, <2>3 DEF ApprovalFits, Bumping
<1>14. CASE Same /\ ReadsCi(a) /\ CiAllows(a) /\ approval'[a].pc = "merge"
  <2>1. ci' = ci
    BY <1>14 DEF ReadsCi, prVars
  <2>2. Passed
    BY <1>14, GreenPasses DEF CiAllows, CorroborateEmptyRollup
  <2>3. Passed'
    BY <2>1, <2>2 DEF Passed
  <2>4. QED
    BY <1>7, <1>14, <2>3 DEF ApprovalFits, Bumping
<1>15. \/ approval'[a] = NoApproval
       \/ Same /\ approval'[a].pc \in {"complete", "ci", "delete"}
       \/ Same /\ ApproveViews(a) /\ ~AlreadyShipped /\ CheckShipGuards(a)
           /\ approval'[a].pc = (IF approval[a].sc.bumped THEN "ci" ELSE "checkout")
       \/ Same /\ ((ChecksOut(a) /\ approval'[a].pc = "edit") \/ (EditsManifests(a) /\ approval'[a].pc = "commit"))
       \/ Same /\ CommitsBump(a) /\ approval'[a].pc = "push" /\ branch' = Append(branch, "bump")
       \/ Same /\ PushesBump(a) /\ approval'[a].pc = "restore"
            /\ remote' = branch /\ IsPrefix(remote, branch) /\ branch' = branch
       \/ RestoresBranch(a) /\ approval'[a].pc = "persist"
            /\ approval'[a].sc = [there |-> TRUE, head |-> branch, bumped |-> TRUE]
       \/ Same /\ ReadsCi(a) /\ CiAllows(a) /\ approval'[a].pc = "merge"
  <2>1. PrTypeOK /\ GateTypeOK
    BY <1>1
  <2>2. QED
    BY <2>1, ApproveStepMoves
<1>16. QED
  BY ONLY <1>6, <1>8, <1>9, <1>10, <1>11, <1>12, <1>13, <1>14, <1>15

\* What was read stands until it is acted on.
LEMMA HeadsFitKeeps ==
  ASSUME TypeOK, OneApproves, SidecarStands, HeadsFit, GateNext
  PROVE  HeadsFit'
<1>1. OnlyBumpsAhead' /\ OriginGrows' /\ BumpedFits(sidecar)'
  BY BranchesKeep, SidecarFitsKeeps DEF HeadsFit
<1>2. PrTypeOK /\ GateTypeOK
  BY DEF TypeOK
<1>3. ASSUME NEW b \in Approvers PROVE ApprovalFits(b)'
  <2>1. CASE DetectsReady
    <3>1. approval'[b] = NoApproval
      BY <2>1 DEF DetectsReady, OneApproves
    <3>2. QED
      BY <3>1, RestFits
  <2>2. CASE \E a \in Approvers, force \in BOOLEAN : Approves(a, force)
    <3>1. PICK a \in Approvers, force \in BOOLEAN : Approves(a, force)
      BY <2>2
    <3>2. CASE b = a
      <4>1. approval'[a].pc = "view" /\ approval'[a].sc = sidecar /\ sidecar' = sidecar
        BY <1>2, <3>1, ApprovesMoves DEF Approves
      <4>2. QED
        BY <1>1, <3>2, <4>1 DEF ApprovalFits, BumpedFits, Bumping
    <3>3. CASE b # a
      <4>1. approval'[b] = NoApproval
        BY <1>2, <3>1, <3>3, ApprovesMoves, ShipGateAssumption DEF OneApproves
      <4>2. QED
        BY <4>1, RestFits
    <3>4. QED
      BY <3>2, <3>3
  <2>3. CASE \E a \in Approvers : ApproveStep(a) \/ Dies(a)
    <3>1. PICK a \in Approvers : ApproveStep(a) \/ Dies(a)
      BY <2>3
    <3>2. CASE b = a
      BY <3>1, <3>2, ApproveStepKeepsFits
    <3>3. CASE b # a
      <4>1. approval'[b] = NoApproval
        BY <1>2, <3>1, <3>3, ApproveStepMoves, Alone
      <4>2. QED
        BY <4>1, RestFits
    <3>4. QED
      BY <3>2, <3>3
  <2>4. CASE GatePeople
    BY <2>4, PeopleKeepFits
  <2>5. QED
    BY <2>1, <2>2, <2>3, <2>4, GateSteps
<1>4. QED
  BY <1>1, <1>3 DEF HeadsFit

-----------------------------------------------------------------------------
(* Version bumps.                                                          *)

One(x) == IF x THEN 1 ELSE 0

\* What was paid stays paid when the heads stay, unless something is forgotten without a fault.
LEMMA PaidStays ==
  ASSUME PrTypeOK, BumpsArePaid, branch' = branch, remote' = remote,
         faults' = faults \/ faults' = faults + 1,
         pr'.state # "merged" => pr.state # "merged",
         (Remembered => Remembered') \/ faults' = faults + 1,
         (Committed => Committed') \/ faults' = faults + 1 \/ ~IsPrefix(remote, branch)
  PROVE  BumpsArePaid'
<1>1. branch \in Heads /\ remote \in Heads /\ faults \in Nat
  BY PullRequestAssumption DEF PrTypeOK
<1>2. CountOf("bump", remote) \in Nat /\ CountOf("bump", branch) \in Nat
  BY <1>1, CountIsNat
<1>3. SUFFICES ASSUME pr'.state # "merged"
               PROVE  /\ CountOf("bump", remote) <= faults' + One(Remembered')
                      /\ IsPrefix(remote, branch) => CountOf("bump", branch) <= faults' + One(Committed')
  BY DEF BumpsArePaid, One
<1>4. /\ CountOf("bump", remote) <= faults + One(Remembered)
      /\ IsPrefix(remote, branch) => CountOf("bump", branch) <= faults + One(Committed)
  BY <1>3 DEF BumpsArePaid, One
<1>5. faults + One(Remembered) <= faults' + One(Remembered')
  BY <1>1 DEF One
<1>6. IsPrefix(remote, branch) => faults + One(Committed) <= faults' + One(Committed')
  BY <1>1 DEF One
<1>7. One(Remembered) \in Nat /\ One(Remembered') \in Nat /\ One(Committed) \in Nat /\ One(Committed') \in Nat
      /\ faults' \in Nat
  BY <1>1 DEF One
<1> HIDE DEF One
<1>8. QED
  BY <1>1, <1>2, <1>4, <1>5, <1>6, <1>7

\* People bump nothing.
LEMMA PeoplePay ==
  ASSUME TypeOK, BumpsArePaid, GateNext, GatePeople
  PROVE  BumpsArePaid'
<1>1. PrTypeOK /\ branch \in Heads /\ remote \in Heads /\ branch' \in Heads /\ remote' \in Heads
      /\ "other" \in Commits
  BY GateMovesHeads DEF TypeOK, PrTypeOK, Commits
<1>2. approval' = approval /\ sidecar' = sidecar
  BY PeopleLeaveApprovals
<1>3. (Remembered' <=> Remembered) /\ (Committed' <=> Committed)
  BY <1>2 DEF Remembered, Committed
<1>4. /\ faults \in Nat /\ (faults' = faults \/ faults' = faults + 1)
      /\ pr'.state # "merged" => pr.state # "merged"
  BY <1>1, GateKeepsPrTypes
<1>5. CASE branch' = branch /\ remote' = remote
  BY <1>1, <1>3, <1>4, <1>5, PaidStays
<1>6. SUFFICES ASSUME pr'.state # "merged"
               PROVE  /\ CountOf("bump", remote') <= faults' + (IF Remembered' THEN 1 ELSE 0)
                      /\ IsPrefix(remote', branch') =>
                           CountOf("bump", branch') <= faults' + (IF Committed' THEN 1 ELSE 0)
  BY DEF BumpsArePaid
<1>7. /\ CountOf("bump", remote) <= faults + (IF Remembered THEN 1 ELSE 0)
      /\ IsPrefix(remote, branch) => CountOf("bump", branch) <= faults + (IF Committed THEN 1 ELSE 0)
  BY <1>4, <1>6 DEF BumpsArePaid
<1>8. CountOf("bump", remote) \in Nat /\ CountOf("bump", branch) \in Nat
  BY <1>1, CountIsNat
<1>9. CASE remote' = Append(remote, "other") /\ branch' = branch
  <2>1. CountOf("bump", remote') = CountOf("bump", remote)
    BY <1>1, <1>8, <1>9, CountAppend
  <2>2. IsPrefix(remote', branch') => IsPrefix(remote, branch)
    <3>1. IsPrefix(remote, remote')
      BY <1>1, <1>9, PrefixOfAppend
    <3>2. QED
      BY <1>1, <1>9, <3>1, PrefixOfPrefix
  <2>3. QED
    BY <1>3, <1>4, <1>7, <1>8, <1>9, <2>1, <2>2
<1>10. CASE branch' = Append(branch, "other") /\ remote' = remote
  <2>1. CountOf("bump", branch') = CountOf("bump", branch)
    BY <1>1, <1>8, <1>10, CountAppend
  <2>2. IsPrefix(remote, branch') /\ ~IsPrefix(remote, branch) => branch' = remote
    BY <1>1, <1>10, PrefixByAppend
  <2>3. Remembered => Committed
    BY DEF Committed
  <2>4. CASE IsPrefix(remote, branch)
    BY <1>3, <1>4, <1>7, <1>8, <1>10, <2>1, <2>4
  <2>5. CASE ~IsPrefix(remote, branch)
    <3>1. IsPrefix(remote', branch') => CountOf("bump", branch') = CountOf("bump", remote)
      BY <1>10, <2>2, <2>5
    <3>2. QED
      BY <1>3, <1>4, <1>7, <1>8, <1>10, <2>3, <3>1
  <2>6. QED
    BY <2>4, <2>5
<1>11. CASE branch' = remote /\ remote' = remote
  <2>1. Remembered => Committed
    BY DEF Committed
  <2>2. QED
    BY <1>3, <1>4, <1>7, <1>8, <1>11, <2>1
<1>12. \/ branch' = branch /\ remote' = remote
       \/ remote' = Append(remote, "other") /\ branch' = branch
       \/ branch' = Append(branch, "other") /\ remote' = remote
       \/ branch' = remote /\ remote' = remote
  BY DEF GatePeople, CiReports, PushesElsewhere, ClosesPr, PersonMergesGated, PersonTouchesTree,
         PersonPulls, PersonCommits, CommitsLocally, SetRemote
<1>13. CASE ~(branch' = branch /\ remote' = remote)
  BY <1>9, <1>10, <1>11, <1>12, <1>13
<1>14. QED
  BY <1>5, <1>6, <1>13 DEF BumpsArePaid

\* An approval pays for what it forgets, and remembers what it pushed.
LEMMA ApproveStepPays ==
  ASSUME TypeOK, OneApproves, BumpsArePaid, GateNext, NEW a \in Approvers, ApproveStep(a) \/ Dies(a)
  PROVE  BumpsArePaid'
<1>1. /\ PrTypeOK /\ GateTypeOK /\ branch \in Heads /\ remote \in Heads /\ branch' \in Heads
      /\ remote' \in Heads /\ "bump" \in Commits
  BY GateMovesHeads DEF TypeOK, PrTypeOK, Commits
<1>2. /\ faults \in Nat /\ (faults' = faults \/ faults' = faults + 1)
      /\ pr'.state # "merged" => pr.state # "merged"
  BY <1>1, GateKeepsPrTypes
<1>3. CountOf("bump", remote) \in Nat /\ CountOf("bump", branch) \in Nat
  BY <1>1, CountIsNat
<1>4. \A b \in Approvers \ {a} : approval[b] = NoApproval /\ approval'[b] = NoApproval
  BY <1>1, ApproveStepMoves, Alone
<1>5. /\ Remembered <=> sidecar.bumped \/ approval[a].pc \in {"restore", "persist"}
      /\ Committed <=> Remembered \/ approval[a].pc = "push"
  BY <1>4, AtRest DEF Remembered, Committed
<1>6. /\ Remembered' <=> sidecar'.bumped \/ approval'[a].pc \in {"restore", "persist"}
      /\ Committed' <=> Remembered' \/ approval'[a].pc = "push"
  BY <1>4, AtRest DEF Remembered, Committed
<1>7. /\ approval[a].pc \in Bumping => ~sidecar.bumped
      /\ approval[a].pc = "persist" => approval[a].sc.bumped
      /\ approval[a].pc \in {"complete", "delete"} => pr.state = "merged"
  BY DEF OneApproves
<1>8. CASE branch' = branch /\ remote' = remote /\ sidecar' = sidecar
           /\ approval[a].pc \notin {"restore", "persist", "push"}
  BY <1>1, <1>2, <1>5, <1>6, <1>8, PaidStays
<1>9. CASE branch' = branch /\ remote' = remote /\ faults' = faults + 1
  BY <1>1, <1>2, <1>9, PaidStays
<1>10. CASE branch' = branch /\ remote' = remote /\ pr.state = "merged"
  BY <1>2, <1>10 DEF BumpsArePaid
<1>11. CASE ApproveViews(a) \/ ChecksOut(a) \/ EditsManifests(a) \/ ReadsCi(a)
  BY <1>8, <1>11 DEF ApproveViews, ChecksOut, EditsManifests, ReadsCi, prVars, Doing
<1>12. CASE MergesSquash(a) \/ CompletesGate(a)
  BY <1>8, <1>12 DEF MergesSquash, CompletesGate, Doing
<1>13. CASE DeletesSidecar(a)
  BY <1>7, <1>10, <1>13 DEF DeletesSidecar, prVars, Doing
<1>14. CASE Dies(a)
  BY <1>9, <1>14 DEF Dies, Fails
<1>15. CASE RestoresBranch(a)
  <2>1. branch' = branch /\ remote' = remote /\ approval'[a].pc = "persist"
    <3>1. approval' = [approval EXCEPT ![a].pc = "persist",
                                  ![a].sc = [there |-> TRUE, head |-> branch, bumped |-> TRUE]]
      BY <1>15 DEF RestoresBranch
    <3>2. approval'[a].pc = "persist"
      BY <1>1, <3>1 DEF GateTypeOK
    <3>3. QED
      BY <1>15, <3>2 DEF RestoresBranch, prVars
  <2>2. Remembered' /\ Committed'
    BY <1>6, <2>1
  <2>3. QED
    BY <1>1, <1>2, <2>1, <2>2, PaidStays
<1>16. CASE PersistsSidecar(a)
  <2>1. branch' = branch /\ remote' = remote /\ sidecar'.bumped
    BY <1>7, <1>16 DEF PersistsSidecar, prVars, Doing
  <2>2. Remembered' /\ Committed'
    BY <1>6, <2>1
  <2>3. QED
    BY <1>1, <1>2, <2>1, <2>2, PaidStays
<1>17. CASE CommitsBump(a)
  <2>1. CASE branch' = branch
    <3>1. remote' = remote /\ sidecar' = sidecar /\ approval[a].pc = "commit"
      BY <1>17 DEF CommitsBump, Doing
    <3>2. QED
      BY <1>8, <2>1, <3>1
  <2>2. CASE branch' # branch
    <3>1. /\ branch' = Append(branch, "bump") /\ remote' = remote /\ faults' = faults
          /\ Proceeds(a, "push") /\ approval[a].pc = "commit"
      BY <1>17, <2>2 DEF CommitsBump, Doing
    <3>2. approval'[a].pc = "push"
      BY <1>1, <3>1 DEF Proceeds, GateTypeOK
    <3>3. ~Committed /\ ~Remembered /\ Committed'
      BY <1>5, <1>6, <1>7, <3>1, <3>2 DEF Bumping
    <3>4. CountOf("bump", branch') = CountOf("bump", branch) + 1
      BY <1>1, <3>1, CountAppend
    <3>5. IsPrefix(remote, branch') /\ ~IsPrefix(remote, branch) => branch' = remote
      BY <1>1, <3>1, PrefixByAppend
    <3>6. SUFFICES ASSUME pr'.state # "merged"
                   PROVE  /\ CountOf("bump", remote') <= faults'
                          /\ IsPrefix(remote', branch') => CountOf("bump", branch') <= faults' + 1
      <4>1. /\ faults' <= faults' + (IF Remembered' THEN 1 ELSE 0)
            /\ faults' + 1 = faults' + (IF Committed' THEN 1 ELSE 0)
        BY <1>2, <3>3
      <4>2. CountOf("bump", remote') <= faults' => CountOf("bump", remote') <= faults' + (IF Remembered' THEN 1 ELSE 0)
        BY <1>2, <1>3, <3>1
      <4>3. QED
        BY <4>1, <4>2 DEF BumpsArePaid
    <3>7. /\ CountOf("bump", remote) <= faults
          /\ IsPrefix(remote, branch) => CountOf("bump", branch) <= faults
      BY <1>2, <3>3, <3>6 DEF BumpsArePaid
    <3>8. IsPrefix(remote, branch') /\ ~IsPrefix(remote, branch) =>
            CountOf("bump", branch') = CountOf("bump", remote)
      BY <3>5
    <3>9. QED
      BY <1>2, <1>3, <3>1, <3>4, <3>7, <3>8
  <2>3. QED
    BY <2>1, <2>2
<1>18. CASE PushesBump(a)
  <2>1. branch' = branch /\ approval[a].pc = "push"
    BY <1>18 DEF PushesBump, Doing
  <2>2. CASE IsPrefix(remote, branch) /\ remote' = branch
    <3>1. Remembered' \/ faults' = faults + 1
      <4>1. CASE Proceeds(a, "restore")
        <5>1. approval'[a].pc = "restore"
          BY <1>1, <4>1 DEF Proceeds, GateTypeOK
        <5>2. QED
          BY <1>6, <5>1
      <4>2. CASE GivesUp(a)
        BY <4>2 DEF GivesUp, Fails
      <4>3. QED
        BY <1>18, <2>2, <4>1, <4>2 DEF PushesBump
    <3>2. pr'.state # "merged" => CountOf("bump", branch) <= faults + 1
      BY <1>2, <1>3, <2>2 DEF BumpsArePaid
    <3>3. pr'.state # "merged" =>
            /\ CountOf("bump", branch) <= faults' + (IF Remembered' THEN 1 ELSE 0)
            /\ CountOf("bump", branch) <= faults' + (IF Committed' THEN 1 ELSE 0)
      BY <1>2, <1>3, <1>6, <3>1, <3>2
    <3>4. QED
      BY <2>1, <2>2, <3>3 DEF BumpsArePaid
  <2>3. CASE ~(IsPrefix(remote, branch) /\ remote' = branch)
    <3>1. remote' = remote /\ (~IsPrefix(remote, branch) \/ faults' = faults + 1)
      BY <1>18, <2>3 DEF PushesBump, SetRemote, GivesUp, Fails
    <3>2. sidecar' = sidecar
      BY <1>18 DEF PushesBump
    <3>3. Remembered => Remembered'
      BY <1>5, <1>6, <2>1, <3>2
    <3>4. QED
      BY <1>1, <1>2, <2>1, <3>1, <3>3, PaidStays
  <2>4. QED
    BY <2>2, <2>3
<1>19. QED
  BY <1>11, <1>12, <1>13, <1>14, <1>15, <1>16, <1>17, <1>18 DEF ApproveStep

\* A bump is remembered or paid for.
LEMMA BumpsArePaidKeeps ==
  ASSUME TypeOK, OneApproves, SidecarStands, BumpsArePaid, GateNext
  PROVE  BumpsArePaid'
<1>1. PrTypeOK /\ GateTypeOK
  BY DEF TypeOK
<1>2. /\ faults \in Nat /\ (faults' = faults \/ faults' = faults + 1)
      /\ pr'.state # "merged" => pr.state # "merged"
  BY <1>1, GateKeepsPrTypes
<1>3. CASE DetectsReady
  <2>1. UNCHANGED <<branch, remote, approval>> /\ ~sidecar.bumped /\ ~sidecar'.bumped
    BY <1>3, AtRest DEF DetectsReady, SidecarStands, prVars
  <2>2. (Remembered' <=> Remembered) /\ (Committed' <=> Committed)
    BY <2>1 DEF Remembered, Committed
  <2>3. QED
    BY <1>1, <1>2, <2>1, <2>2, PaidStays
<1>4. CASE \E a \in Approvers, force \in BOOLEAN : Approves(a, force)
  <2>1. PICK a \in Approvers, force \in BOOLEAN : Approves(a, force)
    BY <1>4
  <2>2. /\ UNCHANGED <<branch, remote, sidecar>> /\ approval[a].pc = "idle"
        /\ \A b \in Approvers \ {a} : approval'[b] = approval[b]
    BY <1>1, <2>1, ApprovesMoves DEF Approves, prVars, Doing
  <2>3. (Remembered => Remembered') /\ (Committed => Committed')
    BY <2>2 DEF Remembered, Committed
  <2>4. QED
    BY <1>1, <1>2, <2>2, <2>3, PaidStays
<1>5. QED
  BY <1>3, <1>4, PeoplePay, ApproveStepPays, GateSteps

-----------------------------------------------------------------------------
(* The merge.                                                              *)

\* The gate merges a head that is what the tick found ready, was checked, and was bumped once but for
\* the faults; what it merged stays.
LEMMA MergeKeeps ==
  ASSUME TypeOK, GateInv, GateNext
  PROVE  GateMergesAccepted' /\ BumpsAreAccounted'
<1>1. /\ PrTypeOK /\ GateTypeOK
      /\ faults \in Nat /\ (faults' = faults \/ faults' = faults + 1)
  BY GateKeepsPrTypes DEF TypeOK
<1>2. (~local' => ~local) /\ (~forced' => ~forced)
  BY <1>1, GapsStay
<1>3. CASE mergedBy' # "gate"
  BY <1>3 DEF GateMergesAccepted, MergedPassed, MergedReviewed, BumpsAreAccounted
<1>4. CASE mergedBy = "gate"
  <2>1. pr' = pr /\ (Passed => Passed')
    BY <1>1, <1>4, GateKeepsPrTypes DEF GateInv, SidecarStands
  <2>2. ready' = ready
    <3>1. sidecar.there \/ gate = "done"
      BY <1>4 DEF GateInv, SidecarStands
    <3>2. QED
      BY <3>1, SidecarMoves
  <2>3. MergedPassed /\ MergedReviewed /\ BumpsAreAccounted
    BY DEF GateInv, GateMergesAccepted
  <2>4. MergedPassed'
    BY <1>2, <1>4, <2>1, <2>3 DEF MergedPassed, Passed
  <2>5. MergedReviewed'
    <3>1. CountOf("other", pr'.head) # CountOf("other", ready') => forced \/ local
      BY <1>4, <2>1, <2>2, <2>3 DEF MergedReviewed
    <3>2. QED
      BY <1>2, <3>1 DEF MergedReviewed
  <2>6. BumpsAreAccounted'
    <3>1. CountOf("bump", pr'.head) <= 1 + faults /\ CountOf("bump", pr'.head) \in Nat
      <4>1. pr.head \in Heads
        BY <1>1 DEF PrTypeOK
      <4>2. QED
        BY <1>4, <2>1, <2>3, <4>1, CountIsNat DEF BumpsAreAccounted
    <3>2. CountOf("bump", pr'.head) <= 1 + faults'
      BY <1>1, <3>1
    <3>3. QED
      BY <3>2 DEF BumpsAreAccounted
  <2>7. QED
    BY <2>4, <2>5, <2>6 DEF GateMergesAccepted
<1>5. CASE mergedBy # "gate" /\ mergedBy' = "gate"
  <2>1. PICK a \in Approvers : /\ MergesSquash(a) /\ pr.state = "open" /\ MatchesHead(a)
                               /\ pr' = [state |-> "merged", head |-> remote]
    BY <1>5, GateMarks
  <2>2. /\ approval[a].pc = "merge" /\ remote = approval[a].sc.head
        /\ UNCHANGED <<ci, local, forced, ready>>
    BY <2>1 DEF MergesSquash, MatchesHead, PrHead, Doing
  <2>3. ApprovalFits(a) /\ approval[a].sc.bumped
    BY <2>2 DEF GateInv, HeadsFit, OneApproves
  <2>4. ~local => Passed
    BY <2>1, <2>2, <2>3 DEF ApprovalFits
  <2>5. ~local /\ ~forced => Others(remote) = Others(ready)
    BY <2>1, <2>2, <2>3 DEF ApprovalFits, BumpedFits
  <2>6. MergedPassed'
    BY <2>2, <2>4 DEF MergedPassed, Passed
  <2>7. ~local /\ ~forced => CountOf("other", remote) = CountOf("other", ready)
    BY <2>5 DEF CountOf, Others
  <2>8. MergedReviewed'
    BY <2>1, <2>2, <2>7 DEF MergedReviewed
  <2>9. CountOf("bump", remote) <= 1 + faults
    <3>1. remote \in Heads
      BY <1>1 DEF PrTypeOK
    <3>2. CountOf("bump", remote) \in Nat
      BY <3>1, CountIsNat
    <3>3. CountOf("bump", remote) <= faults + (IF Remembered THEN 1 ELSE 0)
      BY <2>1 DEF GateInv, BumpsArePaid
    <3>4. QED
      BY <1>1, <3>2, <3>3
  <2>10. BumpsAreAccounted'
    <3>1. CountOf("bump", remote) \in Nat
      BY <1>1, CountIsNat DEF PrTypeOK
    <3>2. CountOf("bump", remote) <= 1 + faults'
      BY <1>1, <2>9, <3>1
    <3>3. QED
      BY <2>1, <3>2 DEF BumpsAreAccounted
  <2>11. QED
    BY <2>6, <2>8, <2>10 DEF GateMergesAccepted
<1>6. QED
  BY <1>3, <1>4, <1>5

\* A gated run's steps keep the invariant.
LEMMA GateKeeps ==
  ASSUME ReleaseInv, ~Pinned, GateNext, UNCHANGED dVars
  PROVE  ReleaseInv'
<1>1. TypeOK /\ NoDeliveryInit /\ GateInv
  BY DEF ReleaseInv
<1>2. OneApproves' /\ SidecarStands' /\ HeadsFit' /\ BumpsArePaid'
  BY <1>1, OneApprovesKeeps, SidecarStandsKeeps, HeadsFitKeeps, BumpsArePaidKeeps DEF GateInv
<1>3. GateInv'
  BY <1>1, <1>2, MergeKeeps DEF GateInv
<1>4. PrTypeOK' /\ GateTypeOK'
  BY <1>1, GateKeepsPrTypes, GateKeepsTypes DEF TypeOK, GateInv
<1>5. DeliveryTypeOK' /\ NoDeliveryInit'
  BY <1>1 DEF TypeOK, DeliveryTypeOK, NoDeliveryInit, dVars
<1>6. ~Pinned'
  BY GateMarks DEF Pinned
<1>7. QED
  BY <1>3, <1>4, <1>5, <1>6 DEF ReleaseInv, TypeOK

-----------------------------------------------------------------------------
(* The theorems.                                                           *)

\* It holds at the start, of either kind.
LEMMA InitEstablishes ==
  Init => ReleaseInv
<1> SUFFICES ASSUME Init PROVE ReleaseInv
  OBVIOUS
<1>1. /\ moves = 0 /\ faults = 0 /\ ci = Running
      /\ branch \in Heads /\ remote \in Heads /\ remote = branch
      /\ pr \in [state : PrStates, head : Heads] /\ pr.head = <<>>
  BY FirstHeads DEF Init, DeliveryInit, GateInit, PrStates
<1>2. PrTypeOK
  BY <1>1, RunningIsRollup, PullRequestAssumption DEF PrTypeOK
<1>3. NoDeliveryInit /\ GateAtRest
  BY DEF Init, DeliveryInit, GateInit, NoGateInit
<1>4. DeliveryTypeOK
  <2>1. claim \in [git : Heads, head : Heads, pr : Prs]
    BY <1>3, FirstHeads DEF NoDeliveryInit, NoClaim, Prs
  <2>2. comments \in [Markers -> 0..(1 + MaxFaults + MaxMoves)]
    BY <1>3, PullRequestAssumption DEF NoDeliveryInit
  <2>3. closer \in [Closers -> [pc : Pcs, pr : Prs, force : BOOLEAN, open : BOOLEAN, label : BOOLEAN]]
    BY <1>3, TwoClosers DEF NoDeliveryInit, Closes
  <2>4. QED
    BY <1>3, <2>1, <2>2, <2>3 DEF DeliveryTypeOK, NoDeliveryInit, Files, IssueStates
<1>5. GateTypeOK
  <2>1. gate \in {"none", "blocked", "done"}
    BY DEF Init, GateInit, NoGateInit
  <2>2. approval \in [Approvers -> Approvals]
    BY <1>3, AtRest DEF GateAtRest
  <2>3. QED
    BY <1>3, <2>1, <2>2, AtRest, FirstHeads DEF GateAtRest, GateTypeOK, Approvals
<1>6. DeliveryInv
  <2>1. Tick \in Closers /\ Operator \in Closers /\ Idle.pc = "idle"
    BY TwoClosers DEF Idle
  <2>2. closer[Tick] = Idle /\ closer[Operator] = Idle /\ files = {} /\ \A m \in Markers : comments[m] = 0
    BY <1>3, <2>1 DEF NoDeliveryInit
  <2>3. TickKnows
    BY <2>1, <2>2 DEF TickKnows, At, Closing
  <2>4. MarkersTell
    BY <2>2, MarkersDiffer DEF MarkersTell
  <2>5. Receipted
    BY <1>1, <2>1, <2>2, MarkersDiffer DEF Receipted, At
  <2>6. MovesPay
    BY <1>1, <2>1, <2>2, MarkersDiffer DEF MovesPay
  <2>7. QED
    BY <2>3, <2>4, <2>5, <2>6 DEF DeliveryInv
<1>7. CASE ~Pinned
  <2>1. branch = <<"finish">> /\ remote = <<"finish">> /\ pr.state = "open"
    BY <1>7 DEF Init, GateInit, NoGateInit, Pinned
  <2>2. /\ sidecar = NoSidecar /\ owner = None /\ mergedBy = "none"
        /\ \A a \in Approvers : approval[a] = NoApproval
    BY <1>3 DEF GateAtRest
  <2>3. OneApproves
    BY <2>2, AtRest, ShipGateAssumption DEF OneApproves, Bumping
  <2>4. SidecarStands
    BY <2>2, AtRest DEF SidecarStands
  <2>5. HeadsFit
    <3>1. OnlyBumpsAhead
      BY <2>1 DEF OnlyBumpsAhead
    <3>2. OriginGrows
      BY <2>1 DEF OriginGrows
    <3>3. BumpedFits(sidecar)
      BY <2>2, AtRest DEF BumpedFits
    <3>4. \A a \in Approvers : ApprovalFits(a)
      BY <2>2, AtRest DEF ApprovalFits, BumpedFits, Bumping
    <3>5. QED
      BY <3>1, <3>2, <3>3, <3>4 DEF HeadsFit
  <2>6. BumpsArePaid
    <3>1. CountOf("bump", <<>>) = 0
      <4>1. {i \in 1..Len(<<>>) : <<>>[i] = "bump"} = {}
        OBVIOUS
      <4>2. QED
        BY <4>1, FS_EmptySet DEF CountOf
    <3>2. branch = Append(<<>>, "finish") /\ remote = Append(<<>>, "finish")
      BY <2>1
    <3>3. CountOf("bump", branch) = 0 /\ CountOf("bump", remote) = 0
      <4>1. "finish" \in Commits
        BY DEF Commits
      <4>2. CountOf("bump", Append(<<>>, "finish")) = CountOf("bump", <<>>) + 0
        BY <4>1, FirstHeads, CountAppend
      <4>3. QED
        BY <3>1, <3>2, <4>2
    <3>5. 0 <= faults + (IF Remembered THEN 1 ELSE 0) /\ 0 <= faults + (IF Committed THEN 1 ELSE 0)
      BY <1>1
    <3>6. QED
      BY <3>3, <3>5 DEF BumpsArePaid
  <2>7. GateMergesAccepted /\ BumpsAreAccounted
    BY <2>2 DEF GateMergesAccepted, MergedPassed, MergedReviewed, BumpsAreAccounted
  <2>8. QED
    BY <1>2, <1>3, <1>4, <1>5, <1>7, <2>3, <2>4, <2>5, <2>6, <2>7 DEF ReleaseInv, TypeOK, GateInv
<1>8. CASE Pinned
  BY <1>2, <1>3, <1>4, <1>5, <1>6, <1>8 DEF ReleaseInv, TypeOK
<1>9. QED
  BY <1>7, <1>8

\* Every step of a run, of either kind, keeps it.
LEMMA StepKeeps ==
  ReleaseInv /\ [Next]_vars => ReleaseInv'
<1> SUFFICES ASSUME ReleaseInv, [Next]_vars PROVE ReleaseInv'
  OBVIOUS
<1>1. CASE Pinned /\ DeliveryNext /\ UNCHANGED sVars
  BY <1>1, DeliveryKeeps
<1>2. CASE ~Pinned /\ GateNext /\ UNCHANGED dVars
  BY <1>2, GateKeeps
<1>3. CASE UNCHANGED vars
  <2>1. UNCHANGED <<prVars, dVars, sVars>>
    BY <1>3 DEF vars
  <2>2. TypeOK' /\ (Pinned' <=> Pinned)
    BY <2>1 DEF ReleaseInv, TypeOK, PrTypeOK, DeliveryTypeOK, GateTypeOK, prVars, dVars, sVars, Pinned
  <2>3. DeliveryInv => DeliveryInv'
    BY <2>1 DEF DeliveryInv, TickKnows, MarkersTell, Receipted, MovesPay, Verified, Delivered, Passed, At,
         prVars, dVars
  <2>4. GateAtRest => GateAtRest'
    BY <2>1 DEF GateAtRest, sVars
  <2>5. NoDeliveryInit => NoDeliveryInit'
    BY <2>1 DEF NoDeliveryInit, dVars
  <2>6. OneApproves /\ SidecarStands => OneApproves' /\ SidecarStands'
    BY <2>1 DEF OneApproves, SidecarStands, prVars, sVars
  <2>7. HeadsFit => HeadsFit'
    BY <2>1 DEF HeadsFit, OnlyBumpsAhead, OriginGrows, BumpedFits, ApprovalFits, Passed, prVars, sVars
  <2>8. BumpsArePaid => BumpsArePaid'
    BY <2>1 DEF BumpsArePaid, Remembered, Committed, prVars, sVars
  <2>9. GateMergesAccepted /\ BumpsAreAccounted => GateMergesAccepted' /\ BumpsAreAccounted'
    BY <2>1 DEF GateMergesAccepted, MergedPassed, MergedReviewed, BumpsAreAccounted, prVars, sVars
  <2>10. QED
    BY <2>2, <2>3, <2>4, <2>5, <2>6, <2>7, <2>8, <2>9 DEF ReleaseInv, GateInv
<1>4. QED
  BY <1>1, <1>2, <1>3 DEF Next

\* The inductive invariant: what a delivery has established and left behind, and what an approval
\* relies on between its look at the pull request and the merge.
THEOREM ReleaseInvariantHolds == Spec => []ReleaseInv
BY InitEstablishes, StepKeeps, PTL DEF Spec

\* Every variable has its type; the counts of comments stay within what faults and moves pay for.
THEOREM TypesHold == Spec => []TypeOK
<1>1. ReleaseInv => TypeOK
  BY DEF ReleaseInv
<1>2. QED
  BY <1>1, ReleaseInvariantHolds, PTL

\* A run is marked delivered only for a pull request that was merged at the reported head, at most one
\* commit over the accepted one, with checks that passed.
THEOREM DeliveriesAreMergedReviewed == Spec => []DeliveredIsMergedReviewed
<1>1. ReleaseInv => DeliveredIsMergedReviewed
  <2> SUFFICES ASSUME ReleaseInv PROVE DeliveredIsMergedReviewed
    OBVIOUS
  <2>1. CASE Pinned
    BY <2>1 DEF ReleaseInv, DeliveryInv, MarkersTell, Delivered, Verified, Passed, DeliveredIsMergedReviewed
  <2>2. CASE ~Pinned
    BY <2>2 DEF ReleaseInv, NoDeliveryInit, DeliveredIsMergedReviewed
  <2>3. QED
    BY <2>1, <2>2
<1>2. QED
  BY <1>1, ReleaseInvariantHolds, PTL

\* A comment under the run's name announces a completion that happened, and more than one takes a
\* fault each.
THEOREM CommentsAreTruthful == Spec => []CommentsTellTheTruth
<1>1. ReleaseInv => CommentsTellTheTruth
  <2> SUFFICES ASSUME ReleaseInv PROVE CommentsTellTheTruth
    OBVIOUS
  <2>1. CASE Pinned
    BY <2>1 DEF ReleaseInv, DeliveryInv, MarkersTell, Receipted, Passed, CommentsTellTheTruth, CommentsAreTrue,
         CommentedOnce
  <2>2. CASE ~Pinned
    <3>1. comments[RunMarker] = 0
      BY <2>2, MarkersDiffer DEF ReleaseInv, NoDeliveryInit
    <3>2. faults \in Nat
      BY PullRequestAssumption DEF ReleaseInv, TypeOK, PrTypeOK
    <3>3. QED
      BY <3>1, <3>2 DEF CommentsTellTheTruth, CommentsAreTrue, CommentedOnce
  <2>3. QED
    BY <2>1, <2>2
<1>2. QED
  BY <1>1, ReleaseInvariantHolds, PTL

\* What the gate merges was checked and reviewed, but for a forced head and for commits on the local
\* branch.
THEOREM GateMergesOnlyAccepted == Spec => []GateMergesAccepted
<1>1. ReleaseInv => GateMergesAccepted
  <2> SUFFICES ASSUME ReleaseInv PROVE GateMergesAccepted
    OBVIOUS
  <2>1. CASE Pinned
    BY <2>1 DEF ReleaseInv, GateAtRest, GateMergesAccepted, MergedPassed, MergedReviewed
  <2>2. CASE ~Pinned
    BY <2>2 DEF ReleaseInv, GateInv
  <2>3. QED
    BY <2>1, <2>2
<1>2. QED
  BY <1>1, ReleaseInvariantHolds, PTL

\* A merged head has one version bump, and one more for each fault at most.
THEOREM BumpsAreCounted == Spec => []BumpsAreAccounted
<1>1. ReleaseInv => BumpsAreAccounted
  <2> SUFFICES ASSUME ReleaseInv PROVE BumpsAreAccounted
    OBVIOUS
  <2>1. CASE Pinned
    BY <2>1 DEF ReleaseInv, GateAtRest, BumpsAreAccounted
  <2>2. CASE ~Pinned
    BY <2>2 DEF ReleaseInv, GateInv
  <2>3. QED
    BY <2>1, <2>2
<1>2. QED
  BY <1>1, ReleaseInvariantHolds, PTL

=============================================================================
