-------------------------- MODULE ProjectTick_proofs --------------------------
(***************************************************************************)
(* Proofs about a project's tick and the durable registration it drives,   *)
(* for every number of ticks, phases, faults, crashes and issues.          *)
(*                                                                         *)
(* The inductive invariant says, tick by tick, what a marker, a barrier    *)
(* and an archived parent mean for the cards on the board (BoardFits),     *)
(* what the job under way has and has not done yet (JobFits), what each    *)
(* step of the tick knows (TickFits), and that only the tick the pointer   *)
(* names has work left (QuietFits).                                        *)
(***************************************************************************)
EXTENDS ProjectTick, TLAPS, WellFoundedInduction

-----------------------------------------------------------------------------
(* The inductive invariant.                                                *)

Chained(t) == kind[t] \in {"legacy", "pinned"}
Named(t) == marker[PlaceOf(t)].tick = t
Form(t) == marker[PlaceOf(t)].form
Upto(t) == marker[PlaceOf(t)].upto
Standing(t, p) == card[t][p] \in Live \cup {"late"}
Blank(t) == ~admitted[t] /\ \A p \in Positions : card[t][p] = "none" /\ ~active[t][p]
Fresh(t) == Blank(t) /\ ~Named(t)

\* What a completed barrier promises.
Decided(t) ==
  /\ \A q \in 1..Chain(t) : card[t][q] \notin {"none", "late"}
  /\ expected[PlaceOf(t)] # "none"

\* A marker names a tick that registers a chain there, and no card beyond it.
MarkersFit ==
  \A q \in Places :
    /\ marker[q].form = "none" <=> marker[q].tick = NoTick
    /\ \A t \in Ticks : marker[q].tick = t =>
         Chained(t) /\ q = PlaceOf(t) /\ marker[q].upto <= Chain(t)

CardsFit(t) ==
  /\ ~Chained(t) => Blank(t)
  /\ admitted[t] => kind[t] = "pinned"
  /\ \A p \in Positions :
       /\ p > Chain(t) => card[t][p] = "none"
       /\ card[t][p] = "late" => Named(t) /\ Form(t) = "create" /\ Upto(t) = p
       /\ active[t][p] => card[t][p] \in Live \cup {"archived"}
       /\ p > 0 /\ card[t][p] = "done" => ~active[t][p]

CommitsFit(t) == Barrier(t) = "done" \/ (Named(t) /\ Form(t) = "commit") => Decided(t)

\* A chain that is named stands below its marker's position; one that is not is released.
OrphansFit(t) ==
  ~admitted[t] =>
    \A p \in Positions : Standing(t, p) => IF Named(t) THEN p <= Upto(t) ELSE Barrier(t) = "done"

\* Children are archived before their parents, but for the chain of a marker no cancellation sees.
ChildrenFirst(t) ==
  \A p \in 1..NPhases :
    card[t][p - 1] = "archived" /\ Standing(t, p) => admitted[t] \/ (stopped /\ Unseen(t))

ClaimsFit(t) ==
  \A p \in 1..NPhases :
    Claimed(t, p) /\ ~admitted[t] /\ ~(Barrier(t) = "archived" /\ Unseen(t)) =>
      Barrier(t) \in {"done", "archived"} /\ Decided(t)

BoardFits(t) ==
  /\ CardsFit(t)
  /\ CommitsFit(t)
  /\ OrphansFit(t)
  /\ ChildrenFirst(t)
  /\ ClaimsFit(t)

Creating == {"intent", "create", "repeat", "record", "sentinel", "commit"}
Undoing == {"undo", "archive", "clear", "barrier"}
Cancelling == {"stop", "retire", "confirm"}

\* The cards up to the job's position are on the board and nobody took one; none is beyond it.
CreatedSoFar(t) ==
  /\ job.at <= Chain(t)
  /\ \A q \in Positions : q < job.at => card[t][q] = "todo"
  /\ \A q \in Positions : q > job.at => card[t][q] = "none"
  /\ job.pc \in {"intent", "create"} => card[t][job.at] = "none"
  /\ job.pc = "repeat" => card[t][job.at] \in {"none", "late", "todo"}
  /\ job.pc \in {"record", "sentinel", "commit"} => card[t][job.at] = "todo"
  /\ job.pc \in {"sentinel", "commit"} => job.at = Chain(t)
  /\ job.pc = "commit" => expected[PlaceOf(t)] # "none"

\* The marker is as far as the creation is.
MarkedSoFar(t) ==
  /\ job.pc = "intent" /\ job.at = 0 => ~Named(t)
  /\ job.pc = "intent" /\ job.at # 0 => Named(t) /\ Form(t) = "cleanup" /\ Upto(t) = job.at - 1
  /\ job.pc \in {"create", "repeat", "record"} => Named(t) /\ Form(t) = "create" /\ Upto(t) = job.at
  /\ job.pc \in {"sentinel", "commit"} => Named(t) /\ Form(t) = "cleanup" /\ Upto(t) = job.at

CreateFits(t) ==
  /\ Chained(t) /\ ~admitted[t] /\ job.place = PlaceOf(t)
  /\ tick.pc = "chain" /\ tick.id = t /\ current = t
  /\ job.pc \in Creating \cup Undoing
  /\ Barrier(t) # "done" => \A p \in 1..NPhases : ~Claimed(t, p)
  /\ job.pc \in {"undo", "archive"} => Barrier(t) # "done"
  /\ job.pc \in Creating => CreatedSoFar(t) /\ MarkedSoFar(t)

\* What a cleanup or a retried commit works on is named by the marker of its place.
UndoFits(t) ==
  /\ Chained(t) /\ ~admitted[t] /\ job.place = PlaceOf(t) /\ Named(t)
  /\ job.pc \in {"undo", "archive"} =>
       /\ job.at <= Upto(t)
       /\ \A q \in Positions : q > job.at => ~Standing(t, q)
  /\ job.pc = "undo" => \A q \in Positions : card[t][q] # "late"
  /\ job.pc = "archive" => Form(t) = "cleanup"
  /\ job.pc = "clear" =>
       \/ Form(t) = "cleanup" /\ \A q \in Positions : ~Standing(t, q)
       \/ Form(t) = "commit" /\ Barrier(t) = "done"
  /\ job.pc = "barrier" => Form(t) = "commit"

\* A cancellation leaves behind it only what a marker it does not see, or the schedule, put there.
CancelFits(t) ==
  /\ t = current /\ marker[Project].tick = NoTick
  /\ job.pc = "retire" =>
       \A q \in Positions : q > job.at /\ Standing(t, q) => Named(t) \/ admitted[t]

JobFits ==
  /\ job.mode = "none" <=> job.pc = "none"
  /\ job.pc \notin {"none", "look"} => job.tick \in Ticks
  /\ job.mode = "create" => CreateFits(job.tick)
  /\ job.mode = "reconcile" =>
       tick.pc = "marker" /\ job.place = Project /\ job.pc \in {"look"} \cup Undoing
  /\ job.mode = "cancel" =>
       /\ stopped /\ job.target = current /\ current # NoTick /\ job.place = Project
       /\ job.pc \in {"look"} \cup Undoing \cup Cancelling
  /\ job.pc \in Undoing => UndoFits(job.tick)
  /\ job.pc \in Cancelling => CancelFits(job.tick)

\* Nobody marks the project's own directory but the job of the tick.
ProjectClear ==
  /\ tick.pc = "marker" /\ Free /\ job.ok => marker[Project].tick = NoTick
  /\ tick.pc = "chain" /\ ~Free => marker[Project].tick \in {NoTick, tick.id}
  /\ tick.pc \notin {"idle", "marker", "chain", "claim"} => marker[Project].tick = NoTick

TickFits ==
  /\ stopped => tick.pc = "idle"
  /\ tick.pc \notin {"chain", "marker"} => job.mode \in {"none", "cancel"}
  /\ tick.pc # "idle" => job.mode # "cancel"
  /\ tick.pc \in {"register", "bind", "persist", "started"} =>
       /\ tick.id \in Ticks /\ Chained(tick.id) /\ Fresh(tick.id)
       /\ run[tick.id] \in {"none", "active"}
       /\ tick.pc = "register" => kind[tick.id] = "pinned"
       /\ tick.pc = "started" => current = tick.id
  /\ tick.pc = "chain" => tick.id \in Ticks /\ run[tick.id] # "abandoned"
  /\ tick.pc \in {"drift", "results", "delivery", "complete", "outcomes"} =>
       tick.prior = current /\ current \in Ticks
  /\ tick.pc \in {"drift", "results", "delivery"} => run[tick.prior] = "active"
  /\ tick.pc \in {"nopick", "nopersist"} => tick.id \in Ticks /\ kind[tick.id] = "idle"
  /\ tick.pc = "nopersist" => "picked_none" \in outcome[tick.id]

RunsFit ==
  /\ \A t \in Ticks : run[t] # "none" => kind[t] = "pinned"
  /\ \A t \in Ticks : run[t] = "abandoned" => Fresh(t)
  /\ \A t \in Ticks : "picked_none" \in outcome[t] => kind[t] = "idle"
  /\ current # NoTick => kind[current] # "unused"
  /\ PickedNoneIsEvident

CancelledFit ==
  /\ \A t \in cancelled : stopped /\ t = current /\ Free
  /\ CancelledMeansStopped

Quiet(t) == \A p \in 1..NPhases : card[t][p] \in {"none", "done", "archived"} /\ ~active[t][p]
Selection == {"history", "select", "nopick", "nopersist", "register", "bind", "persist"}
Through(t) == finish[t] \/ run[t] = "delivered" \/ (tick.pc = "delivery" /\ t = tick.prior)

\* Only the tick of the pointer has work left, and none once the next issue is being selected.
QuietFits ==
  /\ \A t \in Ticks : t # current => Quiet(t)
  /\ tick.pc \in Selection \cup {"outcomes"} /\ current # NoTick => Quiet(current)
  /\ \A t \in Ticks : ~stopped /\ Through(t) => card[t][1] = "done" /\ kind[t] = "pinned"

PTInv ==
  /\ TypeOK
  /\ MarkersFit
  /\ \A t \in Ticks : BoardFits(t)
  /\ JobFits
  /\ ProjectClear
  /\ TickFits
  /\ RunsFit
  /\ CancelledFit
  /\ QuietFits
-----------------------------------------------------------------------------
(* Facts about the constants and the helpers.                              *)

\* Positions, chains and places, for every number of phases and ticks.
LEMMA Basics ==
  /\ NPhases \in Nat /\ NPhases >= 1 /\ MaxTicks \in Nat /\ MaxTicks >= 1 /\ MaxFaults \in Nat
  /\ NoTick \notin Ticks /\ Project \notin Ticks /\ Ticks \subseteq Nat /\ Ticks \subseteq Places
  /\ Project \in Places /\ 0 \in Positions /\ NPhases \in Positions /\ Positions \subseteq Nat
  /\ 1 \in 1..NPhases /\ 1..NPhases \subseteq Positions
  /\ Threshold \in Nat /\ MaxCrashes \in Nat /\ MaxDrifts \in Nat /\ NoIssue \notin Issues
  BY MaxTicksAssumption, NPhasesAssumption, MaxFaultsAssumption, ThresholdAssumption,
     BoundsAssumption, IssuesAssumption DEF Ticks, NoTick, Project, Places, Positions

\* A chain has at least one worker card and no more than there are positions; its marker lies in
\* one directory.
LEMMA ChainsAndPlaces ==
  ASSUME NEW t \in Ticks
  PROVE  /\ Chain(t) \in 1..NPhases /\ Chain(t) \in Positions
         /\ PlaceOf(t) \in Places
         /\ PlaceOf(t) = Project <=> kind[t] # "pinned"
         /\ PlaceOf(t) # Project => PlaceOf(t) = t /\ Chain(t) = 1
  BY Basics DEF Chain, PlaceOf, Positions

\* What one step of a job does to one card, and to no other.
LEMMA SetsOne ==
  ASSUME card \in [Ticks -> [Positions -> CardStatus]],
         NEW T \in Ticks, NEW p \in Positions, NEW s, card' = [card EXCEPT ![T][p] = s]
  PROVE  /\ \A t \in Ticks : t # T => card'[t] = card[t]
         /\ \A q \in Positions : card'[T][q] = IF q = p THEN s ELSE card[T][q]
         /\ s \in CardStatus => card' \in [Ticks -> [Positions -> CardStatus]]
  <1>1. card[T] \in [Positions -> CardStatus]
    OBVIOUS
  <1>2. card' = [card EXCEPT ![T] = [card[T] EXCEPT ![p] = s]]
    OBVIOUS
  <1>3. card'[T] = [card[T] EXCEPT ![p] = s]
    BY <1>2
  <1>4. \A t \in Ticks : t # T => card'[t] = card[t]
    BY <1>2
  <1>5. \A q \in Positions : card'[T][q] = IF q = p THEN s ELSE card[T][q]
    BY <1>1, <1>3
  <1>6. s \in CardStatus => [card[T] EXCEPT ![p] = s] \in [Positions -> CardStatus]
    BY <1>1
  <1>7. s \in CardStatus => card' \in [Ticks -> [Positions -> CardStatus]]
    BY <1>2, <1>6
  <1> QED BY <1>4, <1>5, <1>7

\* A card that is set to what it is.
LEMMA SetsNothing ==
  ASSUME card \in [Ticks -> [Positions -> CardStatus]], NEW T \in Ticks, NEW p \in Positions
  PROVE  card = [card EXCEPT ![T][p] = card[T][p]]
  <1>1. card[T] = [card[T] EXCEPT ![p] = card[T][p]]
    OBVIOUS
  <1> QED BY <1>1

\* The same for the worker runs.
LEMMA SetsOneRun ==
  ASSUME active \in [Ticks -> [Positions -> BOOLEAN]],
         NEW T \in Ticks, NEW p \in Positions, NEW b \in BOOLEAN, active' = [active EXCEPT ![T][p] = b]
  PROVE  /\ \A t \in Ticks : t # T => active'[t] = active[t]
         /\ \A q \in Positions : active'[T][q] = IF q = p THEN b ELSE active[T][q]
         /\ active' \in [Ticks -> [Positions -> BOOLEAN]]
  <1>1. active[T] \in [Positions -> BOOLEAN]
    OBVIOUS
  <1>2. active' = [active EXCEPT ![T] = [active[T] EXCEPT ![p] = b]]
    OBVIOUS
  <1>3. active'[T] = [active[T] EXCEPT ![p] = b]
    BY <1>2
  <1>4. \A t \in Ticks : t # T => active'[t] = active[t]
    BY <1>2
  <1>5. \A q \in Positions : active'[T][q] = IF q = p THEN b ELSE active[T][q]
    BY <1>1, <1>3
  <1>6. [active[T] EXCEPT ![p] = b] \in [Positions -> BOOLEAN]
    BY <1>1
  <1>7. active' \in [Ticks -> [Positions -> BOOLEAN]]
    BY <1>2, <1>6
  <1> QED BY <1>4, <1>5, <1>7

\* A set of numbers that is not empty has a smallest one.
LEMMA LeastExists ==
  ASSUME NEW S, S \subseteq Nat, S # {}
  PROVE  \E x \in S : \A y \in S : x <= y
  <1>1. \E x \in S : \A y \in S : ~(<<y, x>> \in OpToRel(<, Nat))
    BY NatLessThanWellFounded, WFMin
  <1>2. \E x \in S : \A y \in S : ~(y < x)
    BY <1>1 DEF OpToRel
  <1>3. \A x, y \in S : x \in Nat /\ y \in Nat
    OBVIOUS
  <1> QED BY <1>2, <1>3

\* As long as a tick id is left, the next one is one of those.
LEMMA NextIdIsUnused ==
  ASSUME Unused # {}
  PROVE  NextId \in Ticks /\ kind[NextId] = "unused"
  <1>1. Unused \subseteq Nat
    BY Basics DEF Unused
  <1>2. \E t \in Unused : \A u \in Unused : t <= u
    BY <1>1, LeastExists
  <1>3. NextId \in Unused
    BY <1>2 DEF NextId
  <1> QED BY <1>3 DEF Unused

-----------------------------------------------------------------------------
(* Types.                                                                  *)

\* The types hold at the start.
LEMMA TypeInit == Init => TypeOK
  <1> SUFFICES ASSUME Init
               PROVE  TypeOK
    OBVIOUS
  <1>1. /\ kind \in [Ticks -> {"unused", "idle", "legacy", "pinned"}]
        /\ card \in [Ticks -> [Positions -> CardStatus]]
        /\ active \in [Ticks -> [Positions -> BOOLEAN]]
        /\ admitted \in [Ticks -> BOOLEAN]
        /\ expected \in [Places -> {"none", "legacy", "pinned"}]
        /\ cancelled \subseteq Ticks /\ faults \in 0..MaxFaults
    BY Basics DEF Init, RegInit, CardStatus
  <1>2. NoMarker \in MarkerType /\ NoJob \in JobType
    BY Basics DEF NoMarker, MarkerType, NoJob, JobType
  <1>3. marker \in [Places -> MarkerType] /\ job \in JobType
    BY <1>2 DEF Init, RegInit
  <1>4. tick \in [pc : TickPcs, prior : Ticks \cup {NoTick}, id : Ticks \cup {NoTick},
                  pick : Issues \cup {NoIssue}]
    BY DEF Init, Idle, TickPcs
  <1>5. current \in Ticks \cup {NoTick}
    BY DEF Init
  <1>6. /\ outcome \in [Ticks -> SUBSET {"tick_started", "picked_none", "complete", "failed"}]
        /\ run \in [Ticks -> {"none", "active", "abandoned", "delivered"}]
        /\ finish \in [Ticks -> BOOLEAN]
        /\ issueOf \in [Ticks -> Issues \cup {NoIssue}]
        /\ pr \in [Ticks -> {"none", "open", "merged", "closed"}]
    BY DEF Init
  <1>7. issue \in [Issues -> [open : BOOLEAN, ready : BOOLEAN, claimed : BOOLEAN, pinned : BOOLEAN]]
    BY DEF Init
  <1>8. stalls \in 0..Threshold /\ crashes \in 0..MaxCrashes /\ drifts \in 0..MaxDrifts
    BY Basics DEF Init
  <1>9. alerted \in BOOLEAN /\ stopped \in BOOLEAN
    BY DEF Init
  <1> QED BY <1>1, <1>3, <1>4, <1>5, <1>6, <1>7, <1>8, <1>9 DEF TypeOK, RegTypeOK

\* A job that ended, or begins, is a job.
LEMMA JobTypes ==
  ASSUME job \in JobType
  PROVE  /\ \A v \in BOOLEAN : Ends(v) => job' \in JobType
         /\ \A pc \in Creating \cup Undoing \cup Cancelling : Goto(pc) => job' \in JobType
         /\ \A pc \in Creating \cup Undoing \cup Cancelling : \A p \in Positions :
              GotoAt(pc, p) => job' \in JobType
         /\ Resolved => job' \in JobType
         /\ \A t \in Ticks : BeginCreate(t) => job' \in JobType
         /\ BeginReconcile => job' \in JobType
         /\ \A t \in Ticks : BeginCancel(t) => job' \in JobType
         /\ \A pc \in Undoing : \A t \in Ticks :
              job' = [job EXCEPT !.pc = pc, !.tick = t] => job' \in JobType
         /\ \A pc \in Undoing : \A t \in Ticks : \A p \in Positions :
              job' = [job EXCEPT !.pc = pc, !.tick = t, !.at = p] => job' \in JobType
  <1> DEFINE Pcs == {"none", "intent", "create", "repeat", "record", "sentinel", "commit",
                     "barrier", "clear", "undo", "archive", "look", "stop", "retire", "confirm"}
  <1>0. /\ job \in [mode : {"none", "create", "reconcile", "cancel"}, pc : Pcs, place : Places,
                    tick : Ticks \cup {NoTick}, at : Positions, target : Ticks \cup {NoTick},
                    ok : BOOLEAN]
        /\ Creating \cup Undoing \cup Cancelling \subseteq Pcs
        /\ JobType = [mode : {"none", "create", "reconcile", "cancel"}, pc : Pcs, place : Places,
                    tick : Ticks \cup {NoTick}, at : Positions, target : Ticks \cup {NoTick},
                    ok : BOOLEAN]
    BY DEF JobType, Creating, Undoing, Cancelling
  <1>1. \A v \in BOOLEAN : Ends(v) => job' \in JobType
    BY Basics DEF Ends, NoJob, JobType
  <1>2. \A pc \in Creating \cup Undoing \cup Cancelling : Goto(pc) => job' \in JobType
    <2> HIDE DEF Pcs
    <2> QED BY <1>0 DEF Goto
  <1>3. \A pc \in Creating \cup Undoing \cup Cancelling : \A p \in Positions :
          GotoAt(pc, p) => job' \in JobType
    <2> HIDE DEF Pcs
    <2> QED BY <1>0 DEF GotoAt
  <1>8. "look" \in Pcs /\ "intent" \in Pcs
    OBVIOUS
  <1>4. Resolved => job' \in JobType
    <2>1. job.mode = "cancel" /\ Resolved => job' \in JobType
      <3>1. "stop" \in Pcs
        OBVIOUS
      <3> HIDE DEF Pcs
      <3> QED BY <1>0, <3>1 DEF Resolved
    <2>2. job.mode # "cancel" /\ Resolved => job' \in JobType
      BY <1>1 DEF Resolved
    <2> QED BY <2>1, <2>2
  <1>5. \A t \in Ticks : BeginCreate(t) => job' \in JobType
    <2> SUFFICES ASSUME NEW t \in Ticks, BeginCreate(t)
                 PROVE  job' \in JobType
      OBVIOUS
    <2>1. job' = [mode |-> "create", pc |-> "intent", place |-> PlaceOf(t), tick |-> t, at |-> 0,
                  target |-> NoTick, ok |-> TRUE]
      BY DEF BeginCreate, NoJob
    <2>2. PlaceOf(t) \in Places
      BY ChainsAndPlaces
    <2> HIDE DEF Pcs
    <2> QED BY <1>0, <2>1, <2>2, <1>8, Basics
  <1>6. BeginReconcile => job' \in JobType
    BY Basics DEF BeginReconcile, NoJob, JobType
  <1>7. \A t \in Ticks : BeginCancel(t) => job' \in JobType
    <2> SUFFICES ASSUME NEW t \in Ticks, BeginCancel(t)
                 PROVE  job' \in JobType
      OBVIOUS
    <2>1. job' = [mode |-> "cancel", pc |-> "look", place |-> Project, tick |-> NoTick, at |-> 0,
                  target |-> t, ok |-> TRUE]
      BY DEF BeginCancel, NoJob
    <2> HIDE DEF Pcs
    <2> QED BY <1>0, <2>1, <1>8, Basics
  <1>9. \A pc \in Undoing : \A t \in Ticks :
          job' = [job EXCEPT !.pc = pc, !.tick = t] => job' \in JobType
    <2> HIDE DEF Pcs
    <2> QED BY <1>0
  <1>10. \A pc \in Undoing : \A t \in Ticks : \A p \in Positions :
          job' = [job EXCEPT !.pc = pc, !.tick = t, !.at = p] => job' \in JobType
    <2> HIDE DEF Pcs
    <2> QED BY <1>0
  <1> QED BY <1>1, <1>2, <1>3, <1>4, <1>5, <1>6, <1>7, <1>9, <1>10

TickRecord == [pc : TickPcs, prior : Ticks \cup {NoTick}, id : Ticks \cup {NoTick},
               pick : Issues \cup {NoIssue}]
IssueRecord == [open : BOOLEAN, ready : BOOLEAN, claimed : BOOLEAN, pinned : BOOLEAN]

\* Where a tick goes next, it is a tick.
LEMMA TickRecords ==
  ASSUME tick \in TickRecord
  PROVE  /\ \A pc \in TickPcs : To(pc) => tick' \in TickRecord
         /\ Returns => tick' \in TickRecord
         /\ Idle \in TickRecord
  <1>1. \A pc \in TickPcs : To(pc) => tick' \in TickRecord
    BY DEF To, TickRecord
  <1>2. Idle \in TickRecord
    BY DEF Idle, TickRecord, TickPcs
  <1> QED BY <1>1, <1>2 DEF Returns

\* The breaker counts up to its threshold.
LEMMA BreakerTypes ==
  ASSUME stalls \in 0..Threshold, alerted \in BOOLEAN,
         ObserveStall \/ ObserveProgress \/ ObserveNeutral
  PROVE  stalls' \in 0..Threshold /\ alerted' \in BOOLEAN
  <1>1. stalls' \in 0..Threshold
    BY Basics DEF ObserveStall, ObserveProgress, ObserveNeutral
  <1>2. alerted' \in BOOLEAN
    <2>1. CASE ObserveStall
      <3> DEFINE late == stalls + 1 >= Threshold
      <3>1. alerted' = (alerted \/ late)
        BY <2>1 DEF ObserveStall
      <3> HIDE DEF late
      <3> QED BY <3>1
    <2>2. CASE ObserveProgress
      BY <2>2 DEF ObserveProgress
    <2>3. CASE ObserveNeutral
      BY <2>3 DEF ObserveNeutral
    <2> QED BY <2>1, <2>2, <2>3
  <1> QED BY <1>1, <1>2

\* Faults stay within their bound.
LEMMA FaultTypes ==
  ASSUME faults \in 0..MaxFaults, Fails \/ UNCHANGED faults
  PROVE  faults' \in 0..MaxFaults
  BY Basics DEF Fails

\* Markers are written for ticks, up to positions.
LEMMA MarkTypes ==
  ASSUME marker \in [Places -> MarkerType], job.place \in Places
  PROVE  /\ \A form \in {"create", "cleanup", "commit"} : \A t \in Ticks : \A p \in Positions :
              Mark(form, t, p) =>
                /\ marker' \in [Places -> MarkerType]
                /\ marker'[job.place] = [form |-> form, tick |-> t, upto |-> p]
                /\ \A q \in Places : q # job.place => marker'[q] = marker[q]
         /\ Unmark =>
                /\ marker' \in [Places -> MarkerType]
                /\ marker'[job.place] = NoMarker
                /\ \A q \in Places : q # job.place => marker'[q] = marker[q]
  <1>1. ASSUME NEW form \in {"create", "cleanup", "commit"}, NEW t \in Ticks, NEW p \in Positions,
               Mark(form, t, p)
        PROVE  /\ marker' \in [Places -> MarkerType]
               /\ marker'[job.place] = [form |-> form, tick |-> t, upto |-> p]
               /\ \A q \in Places : q # job.place => marker'[q] = marker[q]
    <2>1. [form |-> form, tick |-> t, upto |-> p] \in MarkerType
      BY DEF MarkerType
    <2> QED BY <1>1, <2>1 DEF Mark
  <1>2. NoMarker \in MarkerType
    BY Basics DEF NoMarker, MarkerType
  <1> QED BY <1>1, <1>2 DEF Unmark

\* A job at work on a tick works on a tick that there is.
LEMMA JobsTick ==
  ASSUME JobFits, job \in JobType, job.pc \notin {"none", "look"}
  PROVE  /\ job.tick \in Ticks /\ job.at \in Positions /\ job.place \in Places
         /\ Chain(job.tick) \in Positions
         /\ card \in [Ticks -> [Positions -> CardStatus]] =>
              card[job.tick][job.at] \in CardStatus /\ card[job.tick][0] \in CardStatus
  <1>1. job.tick \in Ticks
    BY DEF JobFits
  <1>2. job.at \in Positions /\ job.place \in Places
    BY DEF JobType
  <1> QED BY <1>1, <1>2, ChainsAndPlaces, Basics

\* Whatever a lost create did, the card has one of the statuses.
LEMMA EffectTypes ==
  ASSUME card \in [Ticks -> [Positions -> CardStatus]], NEW t \in Ticks, NEW p \in Positions
  PROVE  /\ \A s \in CreateEffects(t, p) : s \in CardStatus
         /\ \A s \in CreateEffects(t, p) :
              IF card[t][p] \in Live THEN s = card[t][p] ELSE s \in {card[t][p], "late", "todo"}
         /\ (IF card[t][p] \in Live THEN card[t][p] ELSE "todo") \in CardStatus
  BY DEF CreateEffects, Live, CardStatus

\* What a reclaim does to the cards of its tick.
Reclaims(T) ==
  /\ card' = [card EXCEPT ![T] = [p \in Positions |-> IF p \in Running(T) THEN "todo" ELSE @[p]]]
  /\ active' = [active EXCEPT ![T] = [p \in Positions |-> @[p] /\ p \notin Running(T)]]

\* A reclaim puts the running cards of its tick back and ends their runs.
LEMMA ReclaimEffect ==
  ASSUME RegTypeOK, NEW T \in Ticks, Reclaims(T)
  PROVE  /\ card' \in [Ticks -> [Positions -> CardStatus]]
         /\ active' \in [Ticks -> [Positions -> BOOLEAN]]
         /\ \A t \in Ticks : t # T => card'[t] = card[t] /\ active'[t] = active[t]
         /\ \A p \in Positions :
              /\ card'[T][p] = IF card[T][p] = "running" THEN "todo" ELSE card[T][p]
              /\ active'[T][p] <=> active[T][p] /\ card[T][p] # "running"
  <1>1. card[T] \in [Positions -> CardStatus] /\ active[T] \in [Positions -> BOOLEAN]
    BY DEF RegTypeOK
  <1> DEFINE c == [p \in Positions |-> IF p \in Running(T) THEN "todo" ELSE card[T][p]]
             a == [p \in Positions |-> active[T][p] /\ p \notin Running(T)]
  <1>2. card' = [card EXCEPT ![T] = c] /\ active' = [active EXCEPT ![T] = a]
    BY DEF Reclaims
  <1>3. c \in [Positions -> CardStatus]
    BY <1>1 DEF CardStatus
  <1>4. a \in [Positions -> BOOLEAN]
    OBVIOUS
  <1>5. \A p \in Positions : c[p] = IF card[T][p] = "running" THEN "todo" ELSE card[T][p]
    BY DEF Running
  <1>6. \A p \in Positions : a[p] <=> active[T][p] /\ card[T][p] # "running"
    BY DEF Running
  <1> HIDE DEF c, a
  <1>7. card' \in [Ticks -> [Positions -> CardStatus]] /\ card'[T] = c
    BY <1>2, <1>3 DEF RegTypeOK
  <1>8. active' \in [Ticks -> [Positions -> BOOLEAN]] /\ active'[T] = a
    BY <1>2, <1>4 DEF RegTypeOK
  <1>9. \A t \in Ticks : t # T => card'[t] = card[t] /\ active'[t] = active[t]
    BY <1>2 DEF RegTypeOK
  <1> QED BY <1>5, <1>6, <1>7, <1>8, <1>9

\* Each step of a job leaves the registration well typed.
LEMMA JobStepTypes ==
  ASSUME RegTypeOK, MarkersFit, JobFits, JobStep
  PROVE  RegTypeOK'
  <1> USE DEF RegTypeOK
  <1>1. CASE PersistIntent
    <2>1. job.pc = "intent" /\ job.tick \in Ticks /\ job.at \in Positions /\ job.place \in Places
      BY <1>1, JobsTick DEF PersistIntent
    <2>2. marker' \in [Places -> MarkerType]
      BY <1>1, <2>1, MarkTypes DEF PersistIntent
    <2>3. GivesUpBefore(job.at) => job' \in JobType
      <3>1. job.at # 0 => job.at - 1 \in Positions
        BY <2>1, Basics DEF Positions
      <3> QED BY <3>1, JobTypes DEF GivesUpBefore, Undoing
    <2>4. job' \in JobType
      BY <1>1, <2>3, JobTypes DEF PersistIntent, Creating
    <2> QED BY <1>1, <2>2, <2>4, FaultTypes DEF PersistIntent
  <1>2. CASE CreateCard
    <2>1. job.pc = "create" /\ job.tick \in Ticks /\ job.at \in Positions /\ job.place \in Places
      BY <1>2, JobsTick DEF CreateCard
    <2>2. marker' \in [Places -> MarkerType]
      BY <1>2, <2>1, MarkTypes DEF CreateCard
    <2>3. GivesUpBefore(job.at) => job' \in JobType
      <3>1. job.at # 0 => job.at - 1 \in Positions
        BY <2>1, Basics DEF Positions
      <3> QED BY <3>1, JobTypes DEF GivesUpBefore, Undoing
    <2>4. job' \in JobType
      BY <1>2, <2>3, JobTypes DEF CreateCard, Creating
    <2>5. \/ UNCHANGED card
          \/ \E s \in CardStatus : card' = [card EXCEPT ![job.tick][job.at] = s]
      BY <1>2, <2>1, EffectTypes DEF CreateCard, Sets
    <2>6. card' \in [Ticks -> [Positions -> CardStatus]]
      BY <2>1, <2>5, SetsOne
    <2> QED BY <1>2, <2>2, <2>4, <2>6, FaultTypes DEF CreateCard
  <1>3. CASE RepeatCreate
    <2>1. job.pc = "repeat" /\ job.tick \in Ticks /\ job.at \in Positions /\ job.place \in Places
      BY <1>3, JobsTick DEF RepeatCreate
    <2>4. job' \in JobType
      BY <1>3, JobTypes DEF RepeatCreate, Undoing
    <2>5. \E s \in CardStatus : card' = [card EXCEPT ![job.tick][job.at] = s]
      BY <1>3, <2>1, EffectTypes DEF RepeatCreate, Sets
    <2>6. card' \in [Ticks -> [Positions -> CardStatus]]
      BY <2>1, <2>5, SetsOne
    <2> QED BY <1>3, <2>4, <2>6, FaultTypes DEF RepeatCreate
  <1>4. CASE RecordCreated
    <2>1. job.pc = "record" /\ job.tick \in Ticks /\ job.at \in Positions /\ job.place \in Places
      BY <1>4, JobsTick DEF RecordCreated
    <2>2. marker' \in [Places -> MarkerType]
      BY <1>4, <2>1, MarkTypes DEF RecordCreated
    <2>3. ~ChainStands(job.at) => job.at + 1 \in Positions
      <3>1. Chain(job.tick) \in Positions
        BY <2>1, ChainsAndPlaces
      <3> QED BY <2>1, <3>1, Basics DEF ChainStands, Positions
    <2>4. job' \in JobType
      BY <1>4, <2>3, JobTypes DEF RecordCreated, Creating
    <2> QED BY <1>4, <2>2, <2>4, FaultTypes DEF RecordCreated
  <1>5. CASE PersistExpectedPhases
    <2>1. job.pc = "sentinel" /\ job.tick \in Ticks /\ Chain(job.tick) \in Positions
      BY <1>5, JobsTick DEF PersistExpectedPhases
    <2>2. job' \in JobType
      BY <1>5, <2>1, JobTypes DEF PersistExpectedPhases, Creating, Undoing
    <2>3. kind[job.tick] \in {"none", "legacy", "pinned"}
      <3>1. job.mode = "create"
        BY <2>1 DEF JobFits, Undoing, Cancelling, JobType
      <3> QED BY <3>1 DEF JobFits, CreateFits, Chained
    <2>4. expected' \in [Places -> {"none", "legacy", "pinned"}]
      BY <1>5, <2>3 DEF PersistExpectedPhases
    <2> QED BY <1>5, <2>2, <2>4, FaultTypes DEF PersistExpectedPhases
  <1>6. CASE PersistCommit
    <2>1. /\ job.pc = "commit" /\ job.tick \in Ticks /\ Chain(job.tick) \in Positions
          /\ job.place \in Places
      BY <1>6, JobsTick DEF PersistCommit
    <2>2. job' \in JobType
      BY <1>6, <2>1, JobTypes DEF PersistCommit, Undoing
    <2>3. marker' \in [Places -> MarkerType]
      BY <1>6, <2>1, MarkTypes DEF PersistCommit
    <2> QED BY <1>6, <2>2, <2>3, FaultTypes DEF PersistCommit
  <1>7. CASE CompleteBarrier
    <2>1. job.pc = "barrier" /\ job.tick \in Ticks /\ card[job.tick][0] \in CardStatus
      BY <1>7, JobsTick DEF CompleteBarrier
    <2>2. job' \in JobType
      BY <1>7, JobTypes DEF CompleteBarrier, Undoing
    <2>3. \E s \in CardStatus : card' = [card EXCEPT ![job.tick][0] = s]
      BY <1>7, <2>1 DEF CompleteBarrier, Sets, CardStatus
    <2>4. card' \in [Ticks -> [Positions -> CardStatus]]
      BY <2>1, <2>3, SetsOne, Basics
    <2> QED BY <1>7, <2>2, <2>4, FaultTypes DEF CompleteBarrier
  <1>8. CASE ClearMarker
    <2>1. job.pc = "clear" /\ job.place \in Places
      BY <1>8, JobsTick DEF ClearMarker
    <2>2. job' \in JobType
      BY <1>8, JobTypes DEF ClearMarker
    <2>3. marker' \in [Places -> MarkerType]
      BY <1>8, <2>1, MarkTypes DEF ClearMarker
    <2> QED BY <1>8, <2>2, <2>3, FaultTypes DEF ClearMarker
  <1>9. CASE PersistCleanup
    <2>1. job.pc = "undo" /\ job.tick \in Ticks /\ job.at \in Positions /\ job.place \in Places
      BY <1>9, JobsTick DEF PersistCleanup
    <2>2. job' \in JobType
      BY <1>9, JobTypes DEF PersistCleanup, Undoing
    <2>3. marker' \in [Places -> MarkerType]
      BY <1>9, <2>1, MarkTypes DEF PersistCleanup
    <2> QED BY <1>9, <2>2, <2>3, FaultTypes DEF PersistCleanup
  <1>10. CASE ArchiveCard
    <2>1. /\ job.pc = "archive" /\ job.tick \in Ticks /\ job.at \in Positions
          /\ card[job.tick][job.at] \in CardStatus
      BY <1>10, JobsTick DEF ArchiveCard
    <2>2. job.at # 0 => job.at - 1 \in Positions
      BY <2>1, Basics DEF Positions
    <2>3. job' \in JobType
      BY <1>10, <2>2, JobTypes DEF ArchiveCard, ArchiveNext, Undoing
    <2>4. \E s \in CardStatus : card' = [card EXCEPT ![job.tick][job.at] = s]
      BY <1>10, <2>1 DEF ArchiveCard, ArchiveNext, Sets, CardStatus
    <2>5. card' \in [Ticks -> [Positions -> CardStatus]]
      BY <2>1, <2>4, SetsOne
    <2> QED BY <1>10, <2>3, <2>5, FaultTypes DEF ArchiveCard
  <1>11. CASE Reconcile
    <2>1. marker[Project] \in MarkerType
      BY Basics
    <2>2. marker[Project].upto \in Positions
      BY <2>1 DEF MarkerType
    <2>3. marker[Project].form # "none" => marker[Project].tick \in Ticks
      BY <2>1, Basics DEF MarkersFit, MarkerType
    <2>4. job' \in JobType
      <3>1. CASE LookAtNothing
        BY <3>1, JobTypes DEF LookAtNothing
      <3>2. CASE LookAtCommit
        BY <3>2, <2>2, <2>3, JobTypes DEF LookAtCommit, Undoing
      <3>3. CASE LookAtCleanup
        BY <3>3, <2>2, <2>3, JobTypes DEF LookAtCleanup, Undoing
      <3>4. CASE LookAtCreate
        BY <3>4, <2>2, <2>3, JobTypes DEF LookAtCreate, Undoing
      <3>5. CASE Ends(FALSE)
        BY <3>5, JobTypes
      <3> QED BY <1>11, <3>1, <3>2, <3>3, <3>4, <3>5 DEF Reconcile
    <2> QED BY <1>11, <2>4, FaultTypes DEF Reconcile
  <1>12. CASE ReclaimRunning
    <2>1. job.pc = "stop" /\ job.tick \in Ticks
      BY <1>12, JobsTick DEF ReclaimRunning
    <2>2. job' \in JobType
      BY <1>12, JobTypes, Basics DEF ReclaimRunning, Cancelling
    <2>3. card' \in [Ticks -> [Positions -> CardStatus]]
      BY <1>12, <2>1, ReclaimEffect DEF ReclaimRunning, Reclaims
    <2>4. active' \in [Ticks -> [Positions -> BOOLEAN]]
      BY <1>12, <2>1, ReclaimEffect DEF ReclaimRunning, Reclaims
    <2> QED BY <1>12, <2>2, <2>3, <2>4, FaultTypes DEF ReclaimRunning
  <1>13. CASE RetireCard
    <2>1. job.pc = "retire" /\ job.tick \in Ticks /\ job.at \in Positions
      BY <1>13, JobsTick DEF RetireCard
    <2>2. job.at # 0 => job.at - 1 \in Positions
      BY <2>1, Basics DEF Positions
    <2>3. job' \in JobType
      BY <1>13, <2>2, JobTypes DEF RetireCard, Cancelling
    <2>4. UNCHANGED card \/ card' = [card EXCEPT ![job.tick][job.at] = "archived"]
      BY <1>13 DEF RetireCard, Sets
    <2>5. card' \in [Ticks -> [Positions -> CardStatus]]
      BY <2>1, <2>4, SetsOne DEF CardStatus
    <2> QED BY <1>13, <2>3, <2>5, FaultTypes DEF RetireCard
  <1>14. CASE ConfirmCancelled
    <2>1. job.pc = "confirm" /\ job.tick \in Ticks
      BY <1>14, JobsTick DEF ConfirmCancelled
    <2>2. job' \in JobType
      BY <1>14, JobTypes DEF ConfirmCancelled
    <2> QED BY <1>14, <2>1, <2>2, FaultTypes DEF ConfirmCancelled
  <1> QED
    BY <1>1, <1>2, <1>3, <1>4, <1>5, <1>6, <1>7, <1>8, <1>9, <1>10, <1>11, <1>12, <1>13, <1>14
    DEF JobStep

\* The registration is well typed as long as a step leaves it alone, but for its faults.
LEMMA RegFrameTypes ==
  ASSUME RegTypeOK, UNCHANGED <<kind, card, active, admitted, marker, expected, job, cancelled>>,
         Fails \/ UNCHANGED faults
  PROVE  RegTypeOK'
  BY FaultTypes DEF RegTypeOK

\* A chain that is not looked at leaves the types of the issues alone.
LEMMA IssueTypes ==
  ASSUME issue \in [Issues -> IssueRecord], NEW i \in Issues \cup {NoIssue}
  PROVE  /\ issue' = [issue EXCEPT ![i].claimed = TRUE] => issue' \in [Issues -> IssueRecord]
         /\ issue' = [issue EXCEPT ![i].open = FALSE] => issue' \in [Issues -> IssueRecord]
         /\ issue' = [issue EXCEPT ![i].pinned = FALSE] => issue' \in [Issues -> IssueRecord]
         /\ issue' = [issue EXCEPT ![i].open = FALSE, ![i].claimed = FALSE]
              => issue' \in [Issues -> IssueRecord]
         /\ \A b \in {issue[i].ready, FALSE} :
              issue' = [issue EXCEPT ![i].ready = b] => issue' \in [Issues -> IssueRecord]
         /\ \A b \in {issue[i].open, FALSE} :
              issue' = [issue EXCEPT ![i].open = b] => issue' \in [Issues -> IssueRecord]
         /\ \A j \in Issues : [issue[j] EXCEPT !.open = FALSE, !.claimed = FALSE] \in IssueRecord
  <1>0. \A j \in Issues : [issue[j] EXCEPT !.open = FALSE, !.claimed = FALSE] \in IssueRecord
    <2> SUFFICES ASSUME NEW j \in Issues
                 PROVE  [issue[j] EXCEPT !.open = FALSE, !.claimed = FALSE] \in IssueRecord
      OBVIOUS
    <2>1. issue[j] \in IssueRecord
      OBVIOUS
    <2> QED BY <2>1 DEF IssueRecord
  <1>1. CASE i \in Issues
    <2>1. issue[i] \in IssueRecord
      BY <1>1
    <2>2. [issue[i] EXCEPT !.claimed = TRUE] \in IssueRecord
      BY <2>1 DEF IssueRecord
    <2>3. [issue[i] EXCEPT !.open = FALSE] \in IssueRecord
      BY <2>1 DEF IssueRecord
    <2>4. [issue[i] EXCEPT !.pinned = FALSE] \in IssueRecord
      BY <2>1 DEF IssueRecord
    <2>5. [issue[i] EXCEPT !.open = FALSE, !.claimed = FALSE] \in IssueRecord
      BY <2>1 DEF IssueRecord
    <2>6. \A b \in {issue[i].ready, FALSE} : [issue[i] EXCEPT !.ready = b] \in IssueRecord
      BY <2>1 DEF IssueRecord
    <2>7. \A b \in {issue[i].open, FALSE} : [issue[i] EXCEPT !.open = b] \in IssueRecord
      BY <2>1 DEF IssueRecord
    <2> QED BY <1>0, <1>1, <2>2, <2>3, <2>4, <2>5, <2>6, <2>7
  <1>2. CASE i \notin Issues
    BY <1>0, <1>2
  <1> QED BY <1>1, <1>2

\* Each step of a tick leaves everything well typed.
LEMMA TickStepTypes ==
  ASSUME TypeOK, TickFits, TickStep
  PROVE  TypeOK'
  <1> USE DEF TypeOK
  <1>0. /\ RegTypeOK /\ tick \in TickRecord /\ issue \in [Issues -> IssueRecord]
        /\ job \in JobType /\ faults \in 0..MaxFaults
        /\ TypeOK' <=> /\ RegTypeOK' /\ tick' \in TickRecord
                       /\ current' \in Ticks \cup {NoTick}
                       /\ outcome' \in [Ticks -> SUBSET {"tick_started", "picked_none", "complete", "failed"}]
                       /\ run' \in [Ticks -> {"none", "active", "abandoned", "delivered"}]
                       /\ finish' \in [Ticks -> BOOLEAN]
                       /\ issueOf' \in [Ticks -> Issues \cup {NoIssue}]
                       /\ issue' \in [Issues -> IssueRecord]
                       /\ pr' \in [Ticks -> {"none", "open", "merged", "closed"}]
                       /\ stalls' \in 0..Threshold
                       /\ alerted' \in BOOLEAN /\ stopped' \in BOOLEAN
                       /\ crashes' \in 0..MaxCrashes /\ drifts' \in 0..MaxDrifts
    BY DEF TickRecord, IssueRecord, RegTypeOK
  <1>00. /\ tick.prior \in Ticks \cup {NoTick} /\ tick.id \in Ticks \cup {NoTick}
         /\ tick.pick \in Issues \cup {NoIssue}
    BY DEF TickRecord
  <1>1. CASE MarkerChecked
    <2>1. RegTypeOK'
      <3>1. UNCHANGED <<kind, card, active, admitted, marker, expected, job, cancelled>>
        BY <1>1 DEF MarkerChecked, regVars
      <3>2. Fails \/ UNCHANGED faults
        BY <1>1 DEF MarkerChecked, regVars
      <3> QED BY <1>0, <3>1, <3>2, RegFrameTypes
    <2>2. tick' \in TickRecord
      <3>1. PriorTick \in Ticks \cup {NoTick}
        BY Basics DEF PriorTick
      <3>2. "history" \in TickPcs /\ "drift" \in TickPcs /\ "complete" \in TickPcs
        BY DEF TickPcs
      <3>3. \A p \in Ticks \cup {NoTick} : \A pc \in TickPcs :
              [tick EXCEPT !.prior = p, !.pc = pc] \in TickRecord
        BY <1>0 DEF TickRecord
      <3> HIDE DEF TypeOK
      <3>4. CASE job.ok
        <4>1. PICK pc \in TickPcs : tick' = [tick EXCEPT !.prior = PriorTick, !.pc = pc]
          BY <1>1, <3>2, <3>4 DEF MarkerChecked
        <4> QED BY <3>1, <3>3, <4>1
      <3>5. CASE ~job.ok
        BY <1>1, <1>0, <3>5, TickRecords DEF MarkerChecked
      <3> QED BY <3>4, <3>5
    <2>3. run' \in [Ticks -> {"none", "active", "abandoned", "delivered"}]
      <3>1. \/ UNCHANGED run
            \/ \E D \in SUBSET Ticks : run' = [t \in Ticks |-> IF t \in D THEN "delivered" ELSE run[t]]
        BY <1>1 DEF MarkerChecked, ActiveRuns
      <3> QED BY <3>1
    <2>4. issue' \in [Issues -> IssueRecord]
      <3>1. \A i \in Issues : [issue[i] EXCEPT !.open = FALSE, !.claimed = FALSE] \in IssueRecord
        BY <1>0, IssueTypes
      <3>2. \/ UNCHANGED issue
            \/ \E D \in SUBSET Ticks :
                 issue' = [i \in Issues |-> IF i \in {issueOf[t] : t \in D}
                                            THEN [issue[i] EXCEPT !.open = FALSE, !.claimed = FALSE]
                                            ELSE issue[i]]
        <4>1. CASE ~job.ok
          BY <1>1, <4>1 DEF MarkerChecked
        <4>2. CASE job.ok
          <5>1. PICK D \in SUBSET {t \in ActiveRuns \ {current} : finish[t] /\ pr[t] = "merged"} :
                 issue' = [i \in Issues |-> IF i \in {issueOf[t] : t \in D}
                                            THEN [issue[i] EXCEPT !.open = FALSE, !.claimed = FALSE]
                                            ELSE issue[i]]
            BY <1>1, <4>2 DEF MarkerChecked
          <5>2. D \in SUBSET Ticks
            BY DEF ActiveRuns
          <5> QED BY <5>1, <5>2
        <4> QED BY <4>1, <4>2
      <3> HIDE DEF TypeOK
      <3> QED BY <1>0, <3>1, <3>2
    <2>6. stalls' \in 0..Threshold /\ alerted' \in BOOLEAN
      <3>1. ObserveStall \/ ObserveProgress \/ ObserveNeutral
        BY <1>1 DEF MarkerChecked, Stalls, ObserveNeutral, breaker, JudgeOutcomes
      <3> QED BY <3>1, BreakerTypes
    <2> QED BY <1>1, <1>0, <2>1, <2>2, <2>3, <2>4, <2>6 DEF MarkerChecked
  <1>2. CASE CheckDrift
    <2>0. tick.prior \in Ticks /\ issueOf[tick.prior] \in Issues \cup {NoIssue}
      BY <1>2 DEF CheckDrift, TickFits, TickRecord
    <2>1. RegTypeOK'
      <3>1. UNCHANGED <<kind, card, active, admitted, marker, expected, job, cancelled>>
        BY <1>2 DEF CheckDrift, driftFrame, regVars
      <3>2. Fails \/ UNCHANGED faults
        BY <1>2 DEF CheckDrift, regVars
      <3> QED BY <1>0, <3>1, <3>2, RegFrameTypes
    <2>2. tick' \in TickRecord
      BY <1>2, <1>0, TickRecords DEF CheckDrift, Stalls, TickPcs
    <2>3. issue' \in [Issues -> IssueRecord]
      BY <1>2, <1>0, <2>0, IssueTypes DEF CheckDrift
    <2>6. stalls' \in 0..Threshold /\ alerted' \in BOOLEAN
      <3>1. ObserveStall \/ ObserveProgress \/ ObserveNeutral
        BY <1>2 DEF CheckDrift, driftFrame, Stalls, ObserveNeutral, breaker, JudgeOutcomes
      <3> QED BY <3>1, BreakerTypes
    <2> QED BY <1>2, <1>0, <2>1, <2>2, <2>3, <2>6 DEF CheckDrift, driftFrame
  <1>3. CASE BlockDrift
    <2>1. RegTypeOK'
      <3>1. UNCHANGED <<kind, card, active, admitted, marker, expected, job, cancelled>>
        BY <1>3 DEF BlockDrift, driftFrame, regVars
      <3>2. Fails \/ UNCHANGED faults
        BY <1>3 DEF BlockDrift, regVars
      <3> QED BY <1>0, <3>1, <3>2, RegFrameTypes
    <2>2. tick' \in TickRecord
      BY <1>3, <1>0, TickRecords DEF BlockDrift, Stalls, TickPcs
    <2>6. stalls' \in 0..Threshold /\ alerted' \in BOOLEAN
      <3>1. ObserveStall \/ ObserveProgress \/ ObserveNeutral
        BY <1>3 DEF BlockDrift, driftFrame, Stalls, ObserveNeutral, breaker, JudgeOutcomes
      <3> QED BY <3>1, BreakerTypes
    <2> QED BY <1>3, <1>0, <2>1, <2>2, <2>6 DEF BlockDrift, driftFrame
  <1>4. CASE AdmitWorker
    <2>0. tick.prior \in Ticks /\ 1 \in Positions
      BY <1>4, Basics DEF AdmitWorker, TickFits
    <2>1. RegTypeOK'
      <3>1. card' = [card EXCEPT ![tick.prior][1] = "todo"] /\ "todo" \in CardStatus
        BY <1>4 DEF AdmitWorker, Prior, CardStatus
      <3>2. card' \in [Ticks -> [Positions -> CardStatus]]
        BY <2>0, <3>1, SetsOne DEF RegTypeOK
      <3>3. admitted' \in [Ticks -> BOOLEAN]
        BY <1>4 DEF AdmitWorker, RegTypeOK
      <3> QED BY <1>4, <3>2, <3>3 DEF AdmitWorker, resultsFrame, RegTypeOK
    <2>2. tick' \in TickRecord
      BY <1>4, <1>0, TickRecords DEF AdmitWorker, Stalls, TickPcs
    <2>6. stalls' \in 0..Threshold /\ alerted' \in BOOLEAN
      <3>1. ObserveStall \/ ObserveProgress \/ ObserveNeutral
        BY <1>4 DEF AdmitWorker, resultsFrame, Stalls, ObserveNeutral, breaker, JudgeOutcomes
      <3> QED BY <3>1, BreakerTypes
    <2> QED BY <1>4, <1>0, <2>1, <2>2, <2>6 DEF AdmitWorker, resultsFrame
  <1>5. CASE AcceptResults
    <2>1. RegTypeOK'
      <3>1. UNCHANGED <<kind, card, active, admitted, marker, expected, job, cancelled>>
        BY <1>5 DEF AcceptResults, resultsFrame, regVars
      <3>2. Fails \/ UNCHANGED faults
        BY <1>5 DEF AcceptResults, regVars
      <3> QED BY <1>0, <3>1, <3>2, RegFrameTypes
    <2>2. tick' \in TickRecord
      BY <1>5, <1>0, TickRecords DEF AcceptResults, Stalls, TickPcs
    <2>6. stalls' \in 0..Threshold /\ alerted' \in BOOLEAN
      <3>1. ObserveStall \/ ObserveProgress \/ ObserveNeutral
        BY <1>5 DEF AcceptResults, resultsFrame, Stalls, ObserveNeutral, breaker, JudgeOutcomes
      <3> QED BY <3>1, BreakerTypes
    <2> QED BY <1>5, <1>0, <2>1, <2>2, <2>6 DEF AcceptResults, resultsFrame
  <1>6. CASE RejectResults
    <2>1. RegTypeOK'
      <3>1. UNCHANGED <<kind, card, active, admitted, marker, expected, job, cancelled>>
        BY <1>6 DEF RejectResults, resultsFrame, regVars
      <3>2. Fails \/ UNCHANGED faults
        BY <1>6 DEF RejectResults, regVars
      <3> QED BY <1>0, <3>1, <3>2, RegFrameTypes
    <2>2. tick' \in TickRecord
      BY <1>6, <1>0, TickRecords DEF RejectResults, Stalls, TickPcs
    <2>6. stalls' \in 0..Threshold /\ alerted' \in BOOLEAN
      <3>1. ObserveStall \/ ObserveProgress \/ ObserveNeutral
        BY <1>6 DEF RejectResults, resultsFrame, Stalls, ObserveNeutral, breaker, JudgeOutcomes
      <3> QED BY <3>1, BreakerTypes
    <2> QED BY <1>6, <1>0, <2>1, <2>2, <2>6 DEF RejectResults, resultsFrame
  <1>7. CASE ReconcileDelivery
    <2>0. tick.prior \in Ticks /\ issueOf[tick.prior] \in Issues \cup {NoIssue}
      BY <1>7 DEF ReconcileDelivery, TickFits, TickRecord
    <2>1. RegTypeOK'
      <3>1. UNCHANGED <<kind, card, active, admitted, marker, expected, job, cancelled>>
        BY <1>7 DEF ReconcileDelivery, regVars
      <3>2. Fails \/ UNCHANGED faults
        BY <1>7 DEF ReconcileDelivery, regVars
      <3> QED BY <1>0, <3>1, <3>2, RegFrameTypes
    <2>2. tick' \in TickRecord
      BY <1>7, <1>0, TickRecords DEF ReconcileDelivery, Stalls, TickPcs
    <2>3. issue' \in [Issues -> IssueRecord]
      BY <1>7, <1>0, <2>0, IssueTypes DEF ReconcileDelivery
    <2>4. /\ finish' \in [Ticks -> BOOLEAN]
          /\ run' \in [Ticks -> {"none", "active", "abandoned", "delivered"}]
      BY <1>7 DEF ReconcileDelivery
    <2>6. stalls' \in 0..Threshold /\ alerted' \in BOOLEAN
      <3>1. ObserveStall \/ ObserveProgress \/ ObserveNeutral
        BY <1>7 DEF ReconcileDelivery, Stalls, ObserveNeutral, breaker, JudgeOutcomes
      <3> QED BY <3>1, BreakerTypes
    <2> QED BY <1>7, <1>0, <2>1, <2>2, <2>3, <2>4, <2>6 DEF ReconcileDelivery
  <1>8. CASE CheckComplete
    <2>1. RegTypeOK'
      <3>1. UNCHANGED <<kind, card, active, admitted, marker, expected, job, cancelled>>
        BY <1>8 DEF CheckComplete, regVars
      <3>2. Fails \/ UNCHANGED faults
        BY <1>8 DEF CheckComplete, regVars
      <3> QED BY <1>0, <3>1, <3>2, RegFrameTypes
    <2>2. tick' \in TickRecord
      BY <1>8, <1>0, TickRecords DEF CheckComplete, Stalls, TickPcs
    <2>3. outcome' \in [Ticks -> SUBSET {"tick_started", "picked_none", "complete", "failed"}]
      BY <1>8 DEF CheckComplete, WriteOutcomes
    <2>6. stalls' \in 0..Threshold /\ alerted' \in BOOLEAN
      <3>1. ObserveStall \/ ObserveProgress \/ ObserveNeutral
        BY <1>8 DEF CheckComplete, Stalls, ObserveNeutral, breaker, JudgeOutcomes
      <3> QED BY <3>1, BreakerTypes
    <2> QED BY <1>8, <1>0, <2>1, <2>2, <2>3, <2>6 DEF CheckComplete
  <1>9. CASE ObserveOutcomes
    <2>1. RegTypeOK'
      <3>1. UNCHANGED <<kind, card, active, admitted, marker, expected, job, cancelled>>
        BY <1>9 DEF ObserveOutcomes, outcomesFrame, regVars
      <3>2. Fails \/ UNCHANGED faults
        BY <1>9 DEF ObserveOutcomes, regVars
      <3> QED BY <1>0, <3>1, <3>2, RegFrameTypes
    <2>2. tick' \in TickRecord
      BY <1>9, <1>0, TickRecords DEF ObserveOutcomes, Stalls, TickPcs
    <2>3. outcome' \in [Ticks -> SUBSET {"tick_started", "picked_none", "complete", "failed"}]
      BY <1>9 DEF ObserveOutcomes, WriteOutcomes
    <2>4. current' \in Ticks \cup {NoTick}
      BY <1>9 DEF ObserveOutcomes
    <2>6. stalls' \in 0..Threshold /\ alerted' \in BOOLEAN
      <3>1. ObserveStall \/ ObserveProgress \/ ObserveNeutral
        BY <1>9 DEF ObserveOutcomes, outcomesFrame, Stalls, ObserveNeutral, breaker, JudgeOutcomes
      <3> QED BY <3>1, BreakerTypes
    <2> QED BY <1>9, <1>0, <2>1, <2>2, <2>3, <2>4, <2>6 DEF ObserveOutcomes, outcomesFrame
  <1>10. CASE HandoffUnverified
    <2>1. RegTypeOK'
      <3>1. UNCHANGED <<kind, card, active, admitted, marker, expected, job, cancelled>>
        BY <1>10 DEF HandoffUnverified, outcomesFrame, regVars
      <3>2. Fails \/ UNCHANGED faults
        BY <1>10 DEF HandoffUnverified, regVars
      <3> QED BY <1>0, <3>1, <3>2, RegFrameTypes
    <2>2. tick' \in TickRecord
      BY <1>10, <1>0, TickRecords DEF HandoffUnverified, Stalls, TickPcs
    <2>3. outcome' \in [Ticks -> SUBSET {"tick_started", "picked_none", "complete", "failed"}]
      BY <1>10 DEF HandoffUnverified, WriteOutcomes
    <2>6. stalls' \in 0..Threshold /\ alerted' \in BOOLEAN
      <3>1. ObserveStall \/ ObserveProgress \/ ObserveNeutral
        BY <1>10 DEF HandoffUnverified, outcomesFrame, Stalls, ObserveNeutral, breaker, JudgeOutcomes
      <3> QED BY <3>1, BreakerTypes
    <2> QED BY <1>10, <1>0, <2>1, <2>2, <2>3, <2>6 DEF HandoffUnverified, outcomesFrame
  <1>11. CASE CheckHistory
    <2>1. RegTypeOK'
      <3>1. UNCHANGED <<kind, card, active, admitted, marker, expected, job, cancelled>>
        BY <1>11 DEF CheckHistory, regVars
      <3>2. Fails \/ UNCHANGED faults
        BY <1>11 DEF CheckHistory, regVars
      <3> QED BY <1>0, <3>1, <3>2, RegFrameTypes
    <2>2. tick' \in TickRecord
      BY <1>11, <1>0, TickRecords DEF CheckHistory, Stalls, TickPcs
    <2>6. stalls' \in 0..Threshold /\ alerted' \in BOOLEAN
      <3>1. ObserveStall \/ ObserveProgress \/ ObserveNeutral
        BY <1>11 DEF CheckHistory, Stalls, ObserveNeutral, breaker, JudgeOutcomes
      <3> QED BY <3>1, BreakerTypes
    <2> QED BY <1>11, <1>0, <2>1, <2>2, <2>6 DEF CheckHistory
  <1>12. CASE ContractInvalid
    <2>1. RegTypeOK'
      <3>1. UNCHANGED <<kind, card, active, admitted, marker, expected, job, cancelled>>
        BY <1>12 DEF ContractInvalid, selectFrame, regVars
      <3>2. Fails \/ UNCHANGED faults
        BY <1>12 DEF ContractInvalid, regVars
      <3> QED BY <1>0, <3>1, <3>2, RegFrameTypes
    <2>2. tick' \in TickRecord
      BY <1>12, <1>0, TickRecords DEF ContractInvalid, Stalls, TickPcs
    <2>6. stalls' \in 0..Threshold /\ alerted' \in BOOLEAN
      <3>1. ObserveStall \/ ObserveProgress \/ ObserveNeutral
        BY <1>12 DEF ContractInvalid, selectFrame, Stalls, ObserveNeutral, breaker, JudgeOutcomes
      <3> QED BY <3>1, BreakerTypes
    <2> QED BY <1>12, <1>0, <2>1, <2>2, <2>6 DEF ContractInvalid, selectFrame
  <1>13. CASE TrackerError
    <2>1. RegTypeOK'
      <3>1. UNCHANGED <<kind, card, active, admitted, marker, expected, job, cancelled>>
        BY <1>13 DEF TrackerError, selectFrame, regVars
      <3>2. Fails \/ UNCHANGED faults
        BY <1>13 DEF TrackerError, regVars
      <3> QED BY <1>0, <3>1, <3>2, RegFrameTypes
    <2>2. tick' \in TickRecord
      BY <1>13, <1>0, TickRecords DEF TrackerError, Stalls, TickPcs
    <2>6. stalls' \in 0..Threshold /\ alerted' \in BOOLEAN
      <3>1. ObserveStall \/ ObserveProgress \/ ObserveNeutral
        BY <1>13 DEF TrackerError, selectFrame, Stalls, ObserveNeutral, breaker, JudgeOutcomes
      <3> QED BY <3>1, BreakerTypes
    <2> QED BY <1>13, <1>0, <2>1, <2>2, <2>6 DEF TrackerError, selectFrame
  <1>14. CASE PickNone
    <2>0. NextId \in Ticks
      BY <1>14, NextIdIsUnused DEF PickNone, Selecting
    <2>1. RegTypeOK'
      <3>1. kind' \in [Ticks -> {"unused", "idle", "legacy", "pinned"}]
        BY <1>14 DEF PickNone, RegTypeOK
      <3> QED BY <1>14, <3>1 DEF PickNone, selectFrame, RegTypeOK
    <2>2. tick' \in TickRecord
      <3>1. "nopick" \in TickPcs
        BY DEF TickPcs
      <3> QED BY <1>14, <2>0, <3>1 DEF PickNone, TickRecord
    <2>6. stalls' \in 0..Threshold /\ alerted' \in BOOLEAN
      <3>1. ObserveStall \/ ObserveProgress \/ ObserveNeutral
        BY <1>14 DEF PickNone, selectFrame, Stalls, ObserveNeutral, breaker, JudgeOutcomes
      <3> QED BY <3>1, BreakerTypes
    <2> QED BY <1>14, <1>0, <2>1, <2>2, <2>6 DEF PickNone, selectFrame
  <1>15. CASE Pick
    <2>0. NextId \in Ticks
      BY <1>15, NextIdIsUnused DEF Pick, Selecting
    <2>1. RegTypeOK'
      <3>1. kind' \in [Ticks -> {"unused", "idle", "legacy", "pinned"}]
        BY <1>15, KindsAssumption DEF Pick, RegTypeOK
      <3>2. Fails \/ UNCHANGED faults
        BY <1>15 DEF Pick
      <3> QED BY <1>15, <3>1, <3>2, FaultTypes DEF Pick, selectFrame, RegTypeOK
    <2>2. tick' \in TickRecord
      <3>1. "register" \in TickPcs /\ "bind" \in TickPcs
        BY DEF TickPcs
      <3>2. \A i \in Issues : \A pc \in TickPcs :
              [tick EXCEPT !.pc = pc, !.id = NextId, !.pick = i] \in TickRecord
        BY <2>0 DEF TickRecord
      <3>3. PICK i \in Issues, k \in Kinds :
              tick' = [tick EXCEPT !.pc = IF k = "pinned" THEN "register" ELSE "bind",
                                   !.id = NextId, !.pick = i]
        BY <1>15 DEF Pick
      <3> HIDE DEF TypeOK
      <3> QED BY <3>1, <3>2, <3>3
    <2>3. issueOf' \in [Ticks -> Issues \cup {NoIssue}]
      BY <1>15 DEF Pick
    <2>6. stalls' \in 0..Threshold /\ alerted' \in BOOLEAN
      <3>1. ObserveStall \/ ObserveProgress \/ ObserveNeutral
        BY <1>15 DEF Pick, selectFrame, Stalls, ObserveNeutral, breaker, JudgeOutcomes
      <3> QED BY <3>1, BreakerTypes
    <2> QED BY <1>15, <1>0, <2>1, <2>2, <2>3, <2>6 DEF Pick, selectFrame
  <1>16. CASE RecordPickedNone
    <2>1. RegTypeOK'
      <3>1. UNCHANGED <<kind, card, active, admitted, marker, expected, job, cancelled>>
        BY <1>16 DEF RecordPickedNone, regVars
      <3>2. Fails \/ UNCHANGED faults
        BY <1>16 DEF RecordPickedNone, regVars
      <3> QED BY <1>0, <3>1, <3>2, RegFrameTypes
    <2>2. tick' \in TickRecord
      BY <1>16, <1>0, TickRecords DEF RecordPickedNone, Stalls, TickPcs
    <2>3. outcome' \in [Ticks -> SUBSET {"tick_started", "picked_none", "complete", "failed"}]
      BY <1>16 DEF RecordPickedNone
    <2>6. stalls' \in 0..Threshold /\ alerted' \in BOOLEAN
      <3>1. ObserveStall \/ ObserveProgress \/ ObserveNeutral
        BY <1>16 DEF RecordPickedNone, Stalls, ObserveNeutral, breaker, JudgeOutcomes
      <3> QED BY <3>1, BreakerTypes
    <2> QED BY <1>16, <1>0, <2>1, <2>2, <2>3, <2>6 DEF RecordPickedNone
  <1>17. CASE PersistPickedNone
    <2>1. RegTypeOK'
      <3>1. UNCHANGED <<kind, card, active, admitted, marker, expected, job, cancelled>>
        BY <1>17 DEF PersistPickedNone, regVars
      <3>2. Fails \/ UNCHANGED faults
        BY <1>17 DEF PersistPickedNone, regVars
      <3> QED BY <1>0, <3>1, <3>2, RegFrameTypes
    <2>2. tick' \in TickRecord
      BY <1>17, <1>0, TickRecords DEF PersistPickedNone, Stalls, TickPcs
    <2>3. current' \in Ticks \cup {NoTick}
      BY <1>17 DEF PersistPickedNone, TickRecord
    <2>6. stalls' \in 0..Threshold /\ alerted' \in BOOLEAN
      <3>1. ObserveStall \/ ObserveProgress \/ ObserveNeutral
        BY <1>17 DEF PersistPickedNone, Stalls, ObserveNeutral, breaker, JudgeOutcomes
      <3> QED BY <3>1, BreakerTypes
    <2> QED BY <1>17, <1>0, <2>1, <2>2, <2>3, <2>6 DEF PersistPickedNone
  <1>18. CASE RegisterRun
    <2>1. RegTypeOK'
      <3>1. UNCHANGED <<kind, card, active, admitted, marker, expected, job, cancelled>>
        BY <1>18 DEF RegisterRun, registerFrame, regVars
      <3>2. Fails \/ UNCHANGED faults
        BY <1>18 DEF RegisterRun, regVars
      <3> QED BY <1>0, <3>1, <3>2, RegFrameTypes
    <2>2. tick' \in TickRecord
      BY <1>18, <1>0, TickRecords DEF RegisterRun, Stalls, TickPcs
    <2>3. run' \in [Ticks -> {"none", "active", "abandoned", "delivered"}]
      BY <1>18 DEF RegisterRun
    <2>6. stalls' \in 0..Threshold /\ alerted' \in BOOLEAN
      <3>1. ObserveStall \/ ObserveProgress \/ ObserveNeutral
        BY <1>18 DEF RegisterRun, registerFrame, Stalls, ObserveNeutral, breaker, JudgeOutcomes
      <3> QED BY <3>1, BreakerTypes
    <2> QED BY <1>18, <1>0, <2>1, <2>2, <2>3, <2>6 DEF RegisterRun, registerFrame
  <1>19. CASE RegistrationFails
    <2>1. RegTypeOK'
      <3>1. UNCHANGED <<kind, card, active, admitted, marker, expected, job, cancelled>>
        BY <1>19 DEF RegistrationFails, registerFrame, regVars
      <3>2. Fails \/ UNCHANGED faults
        BY <1>19 DEF RegistrationFails, regVars
      <3> QED BY <1>0, <3>1, <3>2, RegFrameTypes
    <2>2. tick' \in TickRecord
      BY <1>19, <1>0, TickRecords DEF RegistrationFails, Stalls, TickPcs
    <2>3. run' \in [Ticks -> {"none", "active", "abandoned", "delivered"}]
      BY <1>19 DEF RegistrationFails
    <2>4. issue' \in [Issues -> IssueRecord]
      BY <1>19, <1>0, <1>00, IssueTypes DEF RegistrationFails
    <2>6. stalls' \in 0..Threshold /\ alerted' \in BOOLEAN
      <3>1. ObserveStall \/ ObserveProgress \/ ObserveNeutral
        BY <1>19 DEF RegistrationFails, registerFrame, Stalls, ObserveNeutral, breaker, JudgeOutcomes
      <3> QED BY <3>1, BreakerTypes
    <2> QED BY <1>19, <1>0, <2>1, <2>2, <2>3, <2>4, <2>6 DEF RegistrationFails, registerFrame
  <1>20. CASE BindExecutions
    <2>1. RegTypeOK'
      <3>1. UNCHANGED <<kind, card, active, admitted, marker, expected, job, cancelled>>
        BY <1>20 DEF BindExecutions, regVars
      <3>2. Fails \/ UNCHANGED faults
        BY <1>20 DEF BindExecutions, regVars
      <3> QED BY <1>0, <3>1, <3>2, RegFrameTypes
    <2>2. tick' \in TickRecord
      BY <1>20, <1>0, TickRecords DEF BindExecutions, Stalls, TickPcs
    <2>3. run' \in [Ticks -> {"none", "active", "abandoned", "delivered"}]
      BY <1>20 DEF BindExecutions
    <2>6. stalls' \in 0..Threshold /\ alerted' \in BOOLEAN
      <3>1. ObserveStall \/ ObserveProgress \/ ObserveNeutral
        BY <1>20 DEF BindExecutions, Stalls, ObserveNeutral, breaker, JudgeOutcomes
      <3> QED BY <3>1, BreakerTypes
    <2> QED BY <1>20, <1>0, <2>1, <2>2, <2>3, <2>6 DEF BindExecutions
  <1>21. CASE PersistTickId
    <2>1. RegTypeOK'
      <3>1. UNCHANGED <<kind, card, active, admitted, marker, expected, job, cancelled>>
        BY <1>21 DEF PersistTickId, regVars
      <3>2. Fails \/ UNCHANGED faults
        BY <1>21 DEF PersistTickId, regVars
      <3> QED BY <1>0, <3>1, <3>2, RegFrameTypes
    <2>2. tick' \in TickRecord
      BY <1>21, <1>0, TickRecords DEF PersistTickId, Stalls, TickPcs
    <2>3. current' \in Ticks \cup {NoTick}
      BY <1>21 DEF PersistTickId, TickRecord
    <2>6. stalls' \in 0..Threshold /\ alerted' \in BOOLEAN
      <3>1. ObserveStall \/ ObserveProgress \/ ObserveNeutral
        BY <1>21 DEF PersistTickId, Stalls, ObserveNeutral, breaker, JudgeOutcomes
      <3> QED BY <3>1, BreakerTypes
    <2> QED BY <1>21, <1>0, <2>1, <2>2, <2>3, <2>6 DEF PersistTickId
  <1>22. CASE BeginChain
    <2>0. tick.id \in Ticks
      BY <1>22 DEF BeginChain, TickFits
    <2>1. RegTypeOK'
      <3>1. job' \in JobType
        BY <1>22, <2>0, JobTypes DEF BeginChain, RegTypeOK
      <3>2. Fails \/ UNCHANGED faults
        BY <1>22 DEF BeginChain
      <3> QED BY <1>22, <3>1, <3>2, FaultTypes DEF BeginChain, RegTypeOK
    <2>2. tick' \in TickRecord
      BY <1>22, <1>0, TickRecords DEF BeginChain, Stalls, TickPcs
    <2>3. outcome' \in [Ticks -> SUBSET {"tick_started", "picked_none", "complete", "failed"}]
      BY <1>22 DEF BeginChain
    <2>6. stalls' \in 0..Threshold /\ alerted' \in BOOLEAN
      <3>1. ObserveStall \/ ObserveProgress \/ ObserveNeutral
        BY <1>22 DEF BeginChain, Stalls, ObserveNeutral, breaker, JudgeOutcomes
      <3> QED BY <3>1, BreakerTypes
    <2> QED BY <1>22, <1>0, <2>1, <2>2, <2>3, <2>6 DEF BeginChain
  <1>23. CASE ChainCreated
    <2>1. RegTypeOK'
      <3>1. UNCHANGED <<kind, card, active, admitted, marker, expected, job, cancelled>>
        BY <1>23 DEF ChainCreated, regVars
      <3>2. Fails \/ UNCHANGED faults
        BY <1>23 DEF ChainCreated, regVars
      <3> QED BY <1>0, <3>1, <3>2, RegFrameTypes
    <2>2. tick' \in TickRecord
      BY <1>23, <1>0, TickRecords DEF ChainCreated, Stalls, TickPcs
    <2>6. stalls' \in 0..Threshold /\ alerted' \in BOOLEAN
      <3>1. ObserveStall \/ ObserveProgress \/ ObserveNeutral
        BY <1>23 DEF ChainCreated, Stalls, ObserveNeutral, breaker, JudgeOutcomes
      <3> QED BY <3>1, BreakerTypes
    <2> QED BY <1>23, <1>0, <2>1, <2>2, <2>6 DEF ChainCreated
  <1>24. CASE ClaimIssue
    <2>1. RegTypeOK'
      <3>1. UNCHANGED <<kind, card, active, admitted, marker, expected, job, cancelled>>
        BY <1>24 DEF ClaimIssue, regVars
      <3>2. Fails \/ UNCHANGED faults
        BY <1>24 DEF ClaimIssue, regVars
      <3> QED BY <1>0, <3>1, <3>2, RegFrameTypes
    <2>2. tick' \in TickRecord
      BY <1>24, <1>0, TickRecords DEF ClaimIssue, Stalls, TickPcs
    <2>3. issue' \in [Issues -> IssueRecord]
      BY <1>24, <1>0, <1>00, IssueTypes DEF ClaimIssue
    <2>6. stalls' \in 0..Threshold /\ alerted' \in BOOLEAN
      <3>1. ObserveStall \/ ObserveProgress \/ ObserveNeutral
        BY <1>24 DEF ClaimIssue, Stalls, ObserveNeutral, breaker, JudgeOutcomes
      <3> QED BY <3>1, BreakerTypes
    <2> QED BY <1>24, <1>0, <2>1, <2>2, <2>3, <2>6 DEF ClaimIssue
  <1> QED
    BY <1>1, <1>2, <1>3, <1>4, <1>5, <1>6, <1>7, <1>8, <1>9, <1>10, <1>11, <1>12, <1>13, <1>14, <1>15, <1>16, <1>17, <1>18, <1>19, <1>20, <1>21, <1>22, <1>23, <1>24
    DEF TickStep

\* Whatever the board, the people and the harness do, everything stays well typed.
LEMMA TypeNext ==
  ASSUME PTInv, [Next]_vars
  PROVE  TypeOK'
  <1>0. /\ TypeOK /\ RegTypeOK /\ MarkersFit /\ JobFits /\ TickFits
        /\ tick \in TickRecord /\ issue \in [Issues -> IssueRecord] /\ job \in JobType
        /\ pr \in [Ticks -> {"none", "open", "merged", "closed"}]
        /\ current \in Ticks \cup {NoTick}
        /\ card \in [Ticks -> [Positions -> CardStatus]]
        /\ active \in [Ticks -> [Positions -> BOOLEAN]]
    BY DEF PTInv, TypeOK, RegTypeOK, TickRecord, IssueRecord
  <1>00. TypeOK' <=> /\ RegTypeOK' /\ tick' \in TickRecord
                     /\ current' \in Ticks \cup {NoTick}
                     /\ outcome' \in [Ticks -> SUBSET {"tick_started", "picked_none", "complete", "failed"}]
                     /\ run' \in [Ticks -> {"none", "active", "abandoned", "delivered"}]
                     /\ finish' \in [Ticks -> BOOLEAN]
                     /\ issueOf' \in [Ticks -> Issues \cup {NoIssue}]
                     /\ issue' \in [Issues -> IssueRecord]
                     /\ pr' \in [Ticks -> {"none", "open", "merged", "closed"}]
                     /\ stalls' \in 0..Threshold
                     /\ alerted' \in BOOLEAN /\ stopped' \in BOOLEAN
                     /\ crashes' \in 0..MaxCrashes /\ drifts' \in 0..MaxDrifts
    BY DEF TypeOK, TickRecord, IssueRecord
  <1>1. CASE TickBegins
    <2>1. job' \in JobType
      BY <1>0, <1>1, JobTypes DEF TickBegins
    <2>2. RegTypeOK'
      BY <1>0, <1>1, <2>1 DEF TickBegins, RegTypeOK
    <2>3. tick' \in TickRecord
      BY <1>0, <1>1 DEF TickBegins, Idle, TickRecord, TickPcs
    <2> QED BY <1>0, <1>00, <1>1, <2>2, <2>3 DEF TickBegins, TypeOK, breaker
  <1>2. CASE TickStep
    BY <1>0, <1>2, TickStepTypes
  <1>3. CASE TickDies
    <2>1. NoJob \in JobType
      BY Basics DEF NoJob, JobType
    <2>2. RegTypeOK'
      BY <1>0, <1>3, <2>1 DEF TickDies, RegTypeOK
    <2>3. tick' \in TickRecord
      BY <1>0, <1>3, TickRecords DEF TickDies
    <2>4. crashes' \in 0..MaxCrashes
      BY <1>0, <1>3, Basics DEF TickDies, TypeOK
    <2> QED BY <1>0, <1>00, <1>3, <2>2, <2>3, <2>4 DEF TickDies, TypeOK, breaker
  <1>4. CASE JobStep /\ UNCHANGED tickVars
    BY <1>0, <1>00, <1>4, JobStepTypes DEF tickVars, TypeOK
  <1>5. ASSUME NEW t \in Ticks, NEW p \in Positions, CardMoves(t, p), UNCHANGED tickVars
        PROVE  TypeOK'
    <2>1. UNCHANGED active \/ \E b \in BOOLEAN : active' = [active EXCEPT ![t][p] = b]
      BY <1>5 DEF CardMoves, LateCardShows, Claim, WorkerEnds, Unblock
    <2>2. active' \in [Ticks -> [Positions -> BOOLEAN]]
      BY <1>0, <2>1, SetsOneRun
    <2>3. \E s \in CardStatus : card' = [card EXCEPT ![t][p] = s]
      <3>1. card[t][p] \in CardStatus
        BY <1>0
      <3>2. CASE WorkerEnds(t, p)
        <4>1. PICK status \in {"done", "blocked"} :
                card' = [card EXCEPT ![t][p] = IF card[t][p] = "running" THEN status ELSE card[t][p]]
          BY <1>0, <3>2 DEF WorkerEnds
        <4> QED BY <3>1, <4>1 DEF CardStatus
      <3> QED BY <1>5, <3>2 DEF CardMoves, LateCardShows, Claim, Unblock, CardStatus
    <2>4. card' \in [Ticks -> [Positions -> CardStatus]]
      BY <1>0, <2>3, SetsOne
    <2>5. UNCHANGED <<kind, admitted, marker, expected, job, faults, cancelled>>
      BY <1>5 DEF CardMoves, LateCardShows, Claim, WorkerEnds, Unblock
    <2>6. RegTypeOK'
      BY <1>0, <2>2, <2>4, <2>5 DEF RegTypeOK
    <2> QED BY <1>0, <1>00, <1>5, <2>6 DEF tickVars, TypeOK
  <1>6. ASSUME NEW t \in Ticks, OpenPullRequest(t) \/ ResolvePullRequest(t)
        PROVE  TypeOK'
    <2>1. RegTypeOK'
      BY <1>0, <1>6 DEF OpenPullRequest, ResolvePullRequest, regVars, RegTypeOK
    <2>2. pr' \in [Ticks -> {"none", "open", "merged", "closed"}]
      BY <1>0, <1>6 DEF OpenPullRequest, ResolvePullRequest
    <2>3. issueOf[t] \in Issues \cup {NoIssue}
      BY <1>0 DEF TypeOK
    <2>4. issue' \in [Issues -> IssueRecord]
      BY <1>0, <1>6, <2>3, IssueTypes DEF OpenPullRequest, ResolvePullRequest
    <2>5. UNCHANGED <<tick, current, outcome, run, finish, issueOf, stalls, alerted, stopped, crashes, drifts>>
      BY <1>6 DEF OpenPullRequest, ResolvePullRequest, breaker
    <2> QED BY <1>0, <1>00, <2>1, <2>2, <2>4, <2>5 DEF TypeOK
  <1>7. ASSUME NEW i \in Issues, IssueChanges(i)
        PROVE  TypeOK'
    <2>1. RegTypeOK'
      BY <1>0, <1>7 DEF IssueChanges, regVars, RegTypeOK
    <2>2. issue' \in [Issues -> IssueRecord]
      BY <1>0, <1>7, IssueTypes DEF IssueChanges
    <2>3. drifts' \in 0..MaxDrifts
      BY <1>0, <1>7, Basics DEF IssueChanges, TypeOK
    <2>4. UNCHANGED <<tick, current, outcome, run, finish, issueOf, pr, stalls, alerted, stopped, crashes>>
      BY <1>7 DEF IssueChanges, breaker
    <2> QED BY <1>0, <1>00, <2>1, <2>2, <2>3, <2>4 DEF TypeOK
  <1>8. CASE HarnessStops
    <2>1. RegTypeOK'
      BY <1>0, <1>8 DEF HarnessStops, regVars, RegTypeOK
    <2>2. stopped' \in BOOLEAN
      BY <1>8 DEF HarnessStops
    <2>3. UNCHANGED <<tick, current, outcome, run, finish, issueOf, issue, pr, stalls, alerted, crashes, drifts>>
      BY <1>8 DEF HarnessStops, breaker
    <2> QED BY <1>0, <1>00, <2>1, <2>2, <2>3 DEF TypeOK
  <1>9. CASE HarnessCancels
    <2>1. current \in Ticks
      BY <1>0, <1>9 DEF HarnessCancels
    <2>2. job' \in JobType
      BY <1>0, <1>9, <2>1, JobTypes DEF HarnessCancels
    <2>3. RegTypeOK'
      BY <1>0, <1>9, <2>2 DEF HarnessCancels, RegTypeOK
    <2> QED BY <1>0, <1>00, <1>9, <2>3 DEF HarnessCancels, tickVars, TypeOK
  <1>10. CASE UNCHANGED vars
    BY <1>0, <1>00, <1>10 DEF vars, regVars, tickVars, TypeOK, RegTypeOK
  <1>11. ASSUME NEW t \in Ticks, LateCardShows(t, 0), UNCHANGED tickVars
         PROVE  TypeOK'
    BY <1>5, <1>11, Basics DEF CardMoves
  <1> QED BY <1>1, <1>2, <1>3, <1>4, <1>5, <1>6, <1>7, <1>8, <1>9, <1>10, <1>11 DEF Next

-----------------------------------------------------------------------------
(* The board of one tick.                                                  *)

\* A step that is about another tick.
SameBoard(t) ==
  /\ kind'[t] = kind[t] /\ card'[t] = card[t] /\ active'[t] = active[t]
  /\ admitted'[t] = admitted[t]
  /\ \/ marker'[PlaceOf(t)] = marker[PlaceOf(t)]
     \/ ~Named(t) /\ marker'[PlaceOf(t)].tick # t
  /\ expected[PlaceOf(t)] # "none" => expected'[PlaceOf(t)] # "none"

\* The registration of a tick whose kind is settled is found where it was.
LEMMA SamePlace ==
  ASSUME NEW t \in Ticks, kind'[t] = kind[t]
  PROVE  /\ PlaceOf(t)' = PlaceOf(t) /\ Chain(t)' = Chain(t) /\ (Chained(t)' <=> Chained(t))
         /\ Named(t)' <=> marker'[PlaceOf(t)].tick = t
         /\ Form(t)' = marker'[PlaceOf(t)].form /\ Upto(t)' = marker'[PlaceOf(t)].upto
         /\ (Unseen(t)' <=> PlaceOf(t) # Project /\ Named(t)')
         /\ (Unseen(t) <=> PlaceOf(t) # Project /\ Named(t))
  BY DEF PlaceOf, Chain, Chained, Named, Form, Upto, Unseen

\* A step about another tick keeps what holds of this one.
LEMMA SameBoardKeeps ==
  ASSUME NEW t \in Ticks, SameBoard(t), stopped => stopped'
  PROVE  /\ BoardFits(t) => BoardFits(t)'
         /\ Fresh(t) => Fresh(t)'
         /\ Quiet(t) => Quiet(t)'
         /\ Named(t)' <=> Named(t)
  <1>1. /\ PlaceOf(t)' = PlaceOf(t) /\ Chain(t)' = Chain(t) /\ (Chained(t)' <=> Chained(t))
        /\ (Named(t)' <=> Named(t))
        /\ Named(t) => Form(t)' = Form(t) /\ Upto(t)' = Upto(t)
        /\ (Unseen(t)' <=> Unseen(t))
    BY SamePlace DEF SameBoard, Named, Form, Upto
  <1>2. /\ Decided(t) => Decided(t)'
        /\ Barrier(t)' = Barrier(t)
        /\ \A p \in Positions : (Standing(t, p)' <=> Standing(t, p))
        /\ \A p : (Claimed(t, p)' <=> Claimed(t, p))
        /\ (Blank(t)' <=> Blank(t))
    BY <1>1 DEF SameBoard, Decided, Barrier, Standing, Claimed, Blank
  <1>3. CardsFit(t) => CardsFit(t)'
    BY <1>1, <1>2 DEF CardsFit, SameBoard
  <1>4. CommitsFit(t) => CommitsFit(t)'
    BY <1>1, <1>2 DEF CommitsFit
  <1>5. OrphansFit(t) => OrphansFit(t)'
    BY <1>1, <1>2 DEF OrphansFit, SameBoard
  <1>6. ChildrenFirst(t) => ChildrenFirst(t)'
    BY <1>1, <1>2, Basics DEF ChildrenFirst, SameBoard
  <1>7. ClaimsFit(t) => ClaimsFit(t)'
    BY <1>1, <1>2 DEF ClaimsFit, SameBoard
  <1>8. Quiet(t) => Quiet(t)'
    BY DEF Quiet, SameBoard
  <1> QED BY <1>1, <1>2, <1>3, <1>4, <1>5, <1>6, <1>7, <1>8 DEF BoardFits, Fresh

\* A marker is written: it names what stands, where a create may show up, and a decided commit.
LEMMA MarkingKeeps ==
  ASSUME NEW T \in Ticks, NEW form, NEW u \in Positions, BoardFits(T), Chained(T),
         kind'[T] = kind[T], card'[T] = card[T], active'[T] = active[T],
         admitted'[T] = admitted[T], expected'[PlaceOf(T)] = expected[PlaceOf(T)],
         stopped' = stopped,
         marker'[PlaceOf(T)] = [form |-> form, tick |-> T, upto |-> u],
         \A p \in Positions : card[T][p] = "late" => form = "create" /\ p = u,
         form = "commit" => Decided(T),
         \A p \in Positions : Standing(T, p) => p <= u
  PROVE  BoardFits(T)'
  <1>1. /\ PlaceOf(T)' = PlaceOf(T) /\ Chain(T)' = Chain(T) /\ Chained(T)'
        /\ Named(T)' /\ Form(T)' = form /\ Upto(T)' = u
        /\ Unseen(T) => Unseen(T)'
    BY SamePlace
  <1>2. /\ Decided(T)' <=> Decided(T)
        /\ Barrier(T)' = Barrier(T)
        /\ \A p \in Positions : (Standing(T, p)' <=> Standing(T, p))
        /\ \A p : (Claimed(T, p)' <=> Claimed(T, p))
    BY <1>1 DEF Decided, Barrier, Standing, Claimed
  <1>3. CardsFit(T)'
    BY <1>1, <1>2 DEF CardsFit, BoardFits
  <1>4. CommitsFit(T)'
    BY <1>1, <1>2 DEF CommitsFit, BoardFits
  <1>5. OrphansFit(T)'
    BY <1>1, <1>2 DEF OrphansFit
  <1>6. ChildrenFirst(T)'
    BY <1>1, <1>2, Basics DEF ChildrenFirst, BoardFits
  <1>7. ClaimsFit(T)'
    BY <1>1, <1>2 DEF ClaimsFit, BoardFits
  <1> QED BY <1>3, <1>4, <1>5, <1>6, <1>7 DEF BoardFits

\* A marker is removed: nothing stands, or the barrier is done.
LEMMA UnmarkingKeeps ==
  ASSUME NEW T \in Ticks, BoardFits(T), Chained(T), ~admitted[T],
         kind'[T] = kind[T], card'[T] = card[T], active'[T] = active[T],
         admitted'[T] = admitted[T], expected'[PlaceOf(T)] = expected[PlaceOf(T)],
         stopped' = stopped, marker'[PlaceOf(T)].tick # T,
         \A p \in Positions : card[T][p] # "late",
         (\A p \in Positions : ~Standing(T, p)) \/ Barrier(T) = "done",
         Barrier(T) = "archived" /\ Unseen(T) => \A p \in 1..NPhases : ~Claimed(T, p),
         Unseen(T) => ~stopped
  PROVE  BoardFits(T)'
  <1>1. /\ PlaceOf(T)' = PlaceOf(T) /\ Chain(T)' = Chain(T) /\ Chained(T)' /\ ~Named(T)'
        /\ ~Unseen(T)'
    BY SamePlace
  <1>2. /\ Decided(T)' <=> Decided(T)
        /\ Barrier(T)' = Barrier(T)
        /\ \A p \in Positions : (Standing(T, p)' <=> Standing(T, p))
        /\ \A p : (Claimed(T, p)' <=> Claimed(T, p))
    BY <1>1 DEF Decided, Barrier, Standing, Claimed
  <1>3. CardsFit(T)'
    BY <1>1, <1>2 DEF CardsFit, BoardFits
  <1>4. CommitsFit(T)'
    BY <1>1, <1>2 DEF CommitsFit, BoardFits
  <1>5. OrphansFit(T)'
    BY <1>1, <1>2 DEF OrphansFit
  <1>6. ChildrenFirst(T)'
    BY <1>1, <1>2, Basics DEF ChildrenFirst, BoardFits
  <1>7. ClaimsFit(T)'
    BY <1>1, <1>2 DEF ClaimsFit, BoardFits
  <1> QED BY <1>3, <1>4, <1>5, <1>6, <1>7 DEF BoardFits

\* The markers fit after one of them was written or removed.
LEMMA MarkersKept ==
  ASSUME MarkersFit, NEW q0 \in Places, UNCHANGED kind,
         \A q \in Places : q # q0 => marker'[q] = marker[q],
         \/ marker'[q0] = marker[q0]
         \/ marker'[q0] = NoMarker
         \/ \E T \in Ticks : \E form \in {"create", "cleanup", "commit"} : \E u \in Positions :
              /\ marker'[q0] = [form |-> form, tick |-> T, upto |-> u]
              /\ Chained(T) /\ q0 = PlaceOf(T) /\ u <= Chain(T)
  PROVE  MarkersFit'
  <1>1. \A t \in Ticks : /\ (Chained(t)' <=> Chained(t)) /\ PlaceOf(t)' = PlaceOf(t)
                         /\ Chain(t)' = Chain(t)
    BY SamePlace
  <1>2. ASSUME NEW q \in Places
        PROVE  /\ marker'[q].form = "none" <=> marker'[q].tick = NoTick
               /\ \A t \in Ticks : marker'[q].tick = t =>
                    Chained(t) /\ q = PlaceOf(t) /\ marker'[q].upto <= Chain(t)
    <2>1. CASE marker'[q] = marker[q]
      BY <2>1 DEF MarkersFit
    <2>2. CASE q = q0 /\ marker'[q0] = NoMarker
      BY <2>2, Basics DEF NoMarker
    <2>3. ASSUME NEW T \in Ticks, NEW form \in {"create", "cleanup", "commit"}, NEW u \in Positions,
                 q = q0, marker'[q0] = [form |-> form, tick |-> T, upto |-> u],
                 Chained(T), q0 = PlaceOf(T), u <= Chain(T)
          PROVE  /\ marker'[q].form = "none" <=> marker'[q].tick = NoTick
                 /\ \A t \in Ticks : marker'[q].tick = t =>
                      Chained(t) /\ q = PlaceOf(t) /\ marker'[q].upto <= Chain(t)
      BY <2>3, Basics
    <2> QED BY <2>1, <2>2, <2>3
  <1> QED BY <1>1, <1>2 DEF MarkersFit

\* The rest of a tick's registration stands while one of its cards changes.
OnlyCards(T) ==
  /\ kind'[T] = kind[T] /\ admitted'[T] = admitted[T] /\ stopped' = stopped
  /\ marker'[PlaceOf(T)] = marker[PlaceOf(T)]
  /\ expected'[PlaceOf(T)] = expected[PlaceOf(T)]

CardBecomes(T, a, s) ==
  /\ OnlyCards(T) /\ active'[T] = active[T]
  /\ \A q \in Positions : card'[T][q] = IF q = a THEN s ELSE card[T][q]

\* What does not depend on the cards.
LEMMA OnlyCardsSame ==
  ASSUME NEW T \in Ticks, OnlyCards(T)
  PROVE  /\ PlaceOf(T)' = PlaceOf(T) /\ Chain(T)' = Chain(T) /\ (Chained(T)' <=> Chained(T))
         /\ (Named(T)' <=> Named(T)) /\ Form(T)' = Form(T) /\ Upto(T)' = Upto(T)
         /\ (Unseen(T)' <=> Unseen(T))
  BY SamePlace DEF OnlyCards, Named, Form, Upto

\* A card that is being created, or whose create timed out, comes or goes.
LEMMA AppearingKeeps ==
  ASSUME NEW T \in Ticks, NEW a \in Positions, NEW s \in {"none", "late", "todo"},
         BoardFits(T), Chained(T), CardBecomes(T, a, s),
         card[T][a] \in {"none", "late", "todo"}, card[T][a] = "todo" => s = "todo",
         Named(T), Form(T) = "create", Upto(T) = a, a <= Chain(T),
         a # 0 /\ card[T][a] = "none" /\ s # "none" => card[T][a - 1] # "archived"
  PROVE  BoardFits(T)'
  <1>1. /\ PlaceOf(T)' = PlaceOf(T) /\ Chain(T)' = Chain(T) /\ Chained(T)'
        /\ Named(T)' /\ Form(T)' = "create" /\ Upto(T)' = a
        /\ (Unseen(T)' <=> Unseen(T))
        /\ admitted'[T] = admitted[T] /\ stopped' = stopped /\ active'[T] = active[T]
        /\ \A q \in Positions : card'[T][q] = IF q = a THEN s ELSE card[T][q]
        /\ kind'[T] = kind[T]
    BY OnlyCardsSame DEF CardBecomes, OnlyCards
  <1>2. /\ Chain(T) \in 1..NPhases /\ Chain(T) \in Positions
        /\ Positions \subseteq Nat /\ 0 \in Positions /\ 1..NPhases \subseteq Positions
        /\ 1..Chain(T) \subseteq Positions
    BY ChainsAndPlaces, Basics DEF Positions
  <1>3. /\ CardsFit(T) /\ CommitsFit(T) /\ OrphansFit(T) /\ ChildrenFirst(T) /\ ClaimsFit(T)
    BY DEF BoardFits
  <1>4. ~active[T][a] \/ s = "todo"
    BY <1>3 DEF CardsFit, Live
  <1>5. CardsFit(T)'
    BY <1>1, <1>2, <1>3, <1>4 DEF CardsFit, Live
  <1>6. Barrier(T)' = "done" => Barrier(T) = "done"
    BY <1>1, <1>2 DEF Barrier
  <1>7. Decided(T) => Decided(T)'
    <2>1. ASSUME Decided(T), NEW q \in 1..Chain(T)
          PROVE  card'[T][q] \notin {"none", "late"}
      <3>1. card[T][q] \notin {"none", "late"}
        BY <2>1 DEF Decided
      <3> QED BY <1>1, <1>2, <3>1
    <2>2. expected'[PlaceOf(T)] = expected[PlaceOf(T)]
      BY DEF CardBecomes, OnlyCards
    <2> QED BY <1>1, <2>1, <2>2 DEF Decided
  <1>8. CommitsFit(T)'
    BY <1>1, <1>3, <1>6, <1>7 DEF CommitsFit
  <1>9. OrphansFit(T)'
    BY <1>1, <1>2, <1>3 DEF OrphansFit, Standing
  <1>10. ChildrenFirst(T)'
    <2> SUFFICES ASSUME NEW p \in 1..NPhases, card'[T][p - 1] = "archived", Standing(T, p)'
                 PROVE  admitted'[T] \/ (stopped' /\ Unseen(T)')
      BY DEF ChildrenFirst
    <2>1. p \in Positions /\ p - 1 \in Positions /\ p # 0
      BY <1>2, Basics DEF Positions
    <2>2. card[T][p - 1] = "archived"
      BY <1>1, <2>1
    <2>3. Standing(T, p)
      BY <1>1, <2>1, <2>2 DEF Standing, Live
    <2> QED BY <1>1, <1>3, <2>2, <2>3 DEF ChildrenFirst
  <1>11. ClaimsFit(T)'
    <2> SUFFICES ASSUME NEW p \in 1..NPhases, Claimed(T, p)', ~admitted'[T],
                        ~(Barrier(T)' = "archived" /\ Unseen(T)')
                 PROVE  Barrier(T)' \in {"done", "archived"} /\ Decided(T)'
      BY DEF ClaimsFit
    <2>1. Claimed(T, p)
      BY <1>1, <1>2 DEF Claimed
    <2>2. ~(Barrier(T) = "archived" /\ Unseen(T))
      BY <1>1, <1>2 DEF Barrier
    <2>3. Barrier(T) \in {"done", "archived"} /\ Decided(T)
      BY <1>1, <1>3, <2>1, <2>2 DEF ClaimsFit
    <2>4. Barrier(T)' = Barrier(T)
      BY <1>1, <1>2, <2>3 DEF Barrier
    <2> QED BY <1>7, <2>3, <2>4
  <1> QED BY <1>5, <1>8, <1>9, <1>10, <1>11 DEF BoardFits

\* The barrier of a decided chain is completed.
LEMMA ReleasingKeeps ==
  ASSUME NEW T \in Ticks, BoardFits(T), CardBecomes(T, 0, "done"), Decided(T), Named(T), Chained(T),
         Upto(T) \in Positions
  PROVE  BoardFits(T)'
  <1>1. /\ PlaceOf(T)' = PlaceOf(T) /\ Chain(T)' = Chain(T) /\ Chained(T)'
        /\ Named(T)' /\ Form(T)' = Form(T) /\ Upto(T)' = Upto(T)
        /\ (Unseen(T)' <=> Unseen(T))
        /\ admitted'[T] = admitted[T] /\ stopped' = stopped /\ active'[T] = active[T]
        /\ \A q \in Positions : card'[T][q] = IF q = 0 THEN "done" ELSE card[T][q]
        /\ kind'[T] = kind[T] /\ expected'[PlaceOf(T)] = expected[PlaceOf(T)]
    BY OnlyCardsSame DEF CardBecomes, OnlyCards
  <1>2. /\ Chain(T) \in 1..NPhases /\ Chain(T) \in Positions
        /\ Positions \subseteq Nat /\ 0 \in Positions /\ 1..NPhases \subseteq Positions
        /\ 1..Chain(T) \subseteq Positions
    BY ChainsAndPlaces, Basics DEF Positions
  <1>3. /\ CardsFit(T) /\ CommitsFit(T) /\ OrphansFit(T) /\ ChildrenFirst(T) /\ ClaimsFit(T)
    BY DEF BoardFits
  <1>4. Decided(T)'
    <2>1. \A q \in 1..Chain(T) : card'[T][q] = card[T][q]
      BY <1>1, <1>2
    <2> QED BY <1>1, <2>1 DEF Decided
  <1>5. CardsFit(T)'
    <2>1. ASSUME NEW p \in Positions, p # 0
          PROVE  /\ p > Chain(T)' => card'[T][p] = "none"
                 /\ card'[T][p] = "late" => Named(T)' /\ Form(T)' = "create" /\ Upto(T)' = p
                 /\ active'[T][p] => card'[T][p] \in Live \cup {"archived"}
                 /\ p > 0 /\ card'[T][p] = "done" => ~active'[T][p]
      BY <1>1, <1>3, <2>1 DEF CardsFit
    <2>2. card'[T][0] = "done" /\ ~(0 > 0) /\ ~(0 > Chain(T)')
      BY <1>1, <1>2
    <2>3. Chained(T)' /\ (admitted'[T] => kind'[T] = "pinned")
      BY <1>1, <1>3 DEF CardsFit
    <2> QED BY <2>1, <2>2, <2>3 DEF CardsFit, Live
  <1>6. CommitsFit(T)'
    BY <1>4 DEF CommitsFit
  <1>7. OrphansFit(T)'
    <2> SUFFICES ASSUME ~admitted[T], NEW p \in Positions, Standing(T, p)'
                 PROVE  p <= Upto(T)
      BY <1>1 DEF OrphansFit
    <2>1. CASE p = 0
      <3>1. \A n \in Positions : 0 <= n
        BY Basics DEF Positions
      <3> QED BY <2>1, <3>1
    <2>2. CASE p # 0
      BY <1>1, <1>3, <2>2 DEF OrphansFit, Standing
    <2> QED BY <2>1, <2>2
  <1>8. ChildrenFirst(T)'
    <2> SUFFICES ASSUME NEW p \in 1..NPhases, card'[T][p - 1] = "archived", Standing(T, p)'
                 PROVE  admitted'[T] \/ (stopped' /\ Unseen(T)')
      BY DEF ChildrenFirst
    <2>1. p \in Positions /\ p - 1 \in Positions /\ p # 0
      BY <1>2, Basics DEF Positions
    <2>2. card[T][p - 1] = "archived"
      BY <1>1, <2>1
    <2>3. Standing(T, p)
      BY <1>1, <2>1, <2>2 DEF Standing
    <2> QED BY <1>1, <1>3, <2>2, <2>3 DEF ChildrenFirst
  <1>9. ClaimsFit(T)'
    BY <1>1, <1>2, <1>4 DEF ClaimsFit, Barrier
  <1> QED BY <1>5, <1>6, <1>7, <1>8, <1>9 DEF BoardFits

\* A card whose children do not stand any more, or are admitted or unseen, is archived.
LEMMA ArchivingKeeps ==
  ASSUME NEW T \in Ticks, NEW a \in Positions, BoardFits(T), CardBecomes(T, a, "archived"), Chained(T),
         a <= Chain(T) \/ card[T][a] # "none",
         \A q \in Positions : q > a /\ Standing(T, q) => admitted[T] \/ (stopped /\ Unseen(T))
  PROVE  BoardFits(T)'
  <1>1. /\ PlaceOf(T)' = PlaceOf(T) /\ Chain(T)' = Chain(T) /\ Chained(T)'
        /\ (Named(T)' <=> Named(T)) /\ Form(T)' = Form(T) /\ Upto(T)' = Upto(T)
        /\ (Unseen(T)' <=> Unseen(T)) /\ (Unseen(T) => Named(T))
        /\ admitted'[T] = admitted[T] /\ stopped' = stopped /\ active'[T] = active[T]
        /\ \A q \in Positions : card'[T][q] = IF q = a THEN "archived" ELSE card[T][q]
        /\ kind'[T] = kind[T] /\ expected'[PlaceOf(T)] = expected[PlaceOf(T)]
    BY OnlyCardsSame DEF CardBecomes, OnlyCards, Unseen, Named
  <1>2. /\ Chain(T) \in 1..NPhases /\ Chain(T) \in Positions
        /\ Positions \subseteq Nat /\ 0 \in Positions /\ 1..NPhases \subseteq Positions
        /\ 1..Chain(T) \subseteq Positions
    BY ChainsAndPlaces, Basics DEF Positions
  <1>3. /\ CardsFit(T) /\ CommitsFit(T) /\ OrphansFit(T) /\ ChildrenFirst(T) /\ ClaimsFit(T)
    BY DEF BoardFits
  <1>4. Decided(T) => Decided(T)'
    <2>1. ASSUME Decided(T), NEW q \in 1..Chain(T)
          PROVE  card'[T][q] \notin {"none", "late"}
      <3>1. card[T][q] \notin {"none", "late"}
        BY <2>1 DEF Decided
      <3> QED BY <1>1, <1>2, <3>1
    <2> QED BY <1>1, <2>1 DEF Decided
  <1>5. CardsFit(T)'
    BY <1>1, <1>2, <1>3 DEF CardsFit, Live
  <1>6. CommitsFit(T)'
    <2>1. Barrier(T)' = "done" => Barrier(T) = "done"
      BY <1>1, <1>2 DEF Barrier
    <2> QED BY <1>1, <1>3, <1>4, <2>1 DEF CommitsFit
  <1>7. OrphansFit(T)'
    <2> SUFFICES ASSUME ~admitted[T], NEW p \in Positions, Standing(T, p)'
                 PROVE  IF Named(T) THEN p <= Upto(T) ELSE Barrier(T)' = "done"
      BY <1>1 DEF OrphansFit
    <2>1. p # a /\ Standing(T, p)
      BY <1>1 DEF Standing, Live
    <2>2. IF Named(T) THEN p <= Upto(T) ELSE Barrier(T) = "done"
      BY <1>3, <2>1 DEF OrphansFit
    <2>3. CASE a = 0
      <3>1. p > a
        BY <1>2, <2>1, <2>3
      <3> QED BY <1>1, <2>1, <2>2, <3>1
    <2>4. CASE a # 0
      BY <1>1, <1>2, <2>2, <2>4 DEF Barrier
    <2> QED BY <2>3, <2>4
  <1>8. ChildrenFirst(T)'
    <2> SUFFICES ASSUME NEW p \in 1..NPhases, card'[T][p - 1] = "archived", Standing(T, p)'
                 PROVE  admitted'[T] \/ (stopped' /\ Unseen(T)')
      BY DEF ChildrenFirst
    <2>1. p \in Positions /\ p - 1 \in Positions /\ p # 0 /\ p > p - 1
      BY <1>2, Basics DEF Positions
    <2>2. Standing(T, p)
      BY <1>1, <2>1 DEF Standing, Live
    <2>3. CASE p - 1 = a
      BY <1>1, <2>1, <2>2, <2>3
    <2>4. CASE p - 1 # a
      BY <1>1, <1>3, <2>1, <2>2, <2>4 DEF ChildrenFirst
    <2> QED BY <2>3, <2>4
  <1>9. ClaimsFit(T)'
    <2> SUFFICES ASSUME NEW p \in 1..NPhases, Claimed(T, p)', ~admitted'[T],
                        ~(Barrier(T)' = "archived" /\ Unseen(T)')
                 PROVE  Barrier(T)' \in {"done", "archived"} /\ Decided(T)'
      BY DEF ClaimsFit
    <2>1. Claimed(T, p)
      BY <1>1, <1>2 DEF Claimed
    <2>2. Barrier(T)' = Barrier(T) \/ Barrier(T)' = "archived"
      BY <1>1, <1>2 DEF Barrier
    <2>3. Barrier(T) \in {"done", "archived"} /\ Decided(T)
      BY <1>1, <1>3, <2>1, <2>2 DEF ClaimsFit
    <2> QED BY <1>4, <2>2, <2>3
  <1> QED BY <1>5, <1>6, <1>7, <1>8, <1>9 DEF BoardFits

\* A worker card is claimed, ends or is unblocked: a card that stands, and a claim only where the
\* parent or the schedule released it.
LEMMA WorkingKeeps ==
  ASSUME NEW T \in Ticks, NEW p \in 1..NPhases, NEW s \in CardStatus, NEW b \in BOOLEAN,
         BoardFits(T), OnlyCards(T),
         \A q \in Positions : card'[T][q] = IF q = p THEN s ELSE card[T][q],
         \A q \in Positions : active'[T][q] = IF q = p THEN b ELSE active[T][q],
         s \notin {"none", "late"}, card[T][p] \in CardStatus \ {"none", "late"},
         s = "archived" <=> card[T][p] = "archived",
         s = "done" => ~b,
         s \in {"running", "done", "blocked"} \/ b =>
           Claimed(T, p) \/ (card[T][p] = "todo" /\ Released(T, p))
  PROVE  BoardFits(T)'
  <1>1. /\ PlaceOf(T)' = PlaceOf(T) /\ Chain(T)' = Chain(T) /\ (Chained(T)' <=> Chained(T))
        /\ (Named(T)' <=> Named(T)) /\ Form(T)' = Form(T) /\ Upto(T)' = Upto(T)
        /\ (Unseen(T)' <=> Unseen(T))
        /\ admitted'[T] = admitted[T] /\ stopped' = stopped
        /\ kind'[T] = kind[T] /\ expected'[PlaceOf(T)] = expected[PlaceOf(T)]
    BY OnlyCardsSame DEF OnlyCards
  <1>2. /\ Chain(T) \in 1..NPhases /\ Chain(T) \in Positions
        /\ Positions \subseteq Nat /\ 0 \in Positions /\ 1..NPhases \subseteq Positions
        /\ 1..Chain(T) \subseteq Positions
        /\ p \in Positions /\ p # 0 /\ p - 1 \in Positions /\ p - 1 # p
    BY ChainsAndPlaces, Basics DEF Positions
  <1>3. /\ CardsFit(T) /\ CommitsFit(T) /\ OrphansFit(T) /\ ChildrenFirst(T) /\ ClaimsFit(T)
    BY DEF BoardFits
  <1>4. /\ Barrier(T)' = Barrier(T)
        /\ \A q \in Positions : Standing(T, q)' => Standing(T, q)
        /\ card'[T][p] = s /\ active'[T][p] = b
        /\ \A q \in Positions : q # p => card'[T][q] = card[T][q] /\ active'[T][q] = active[T][q]
        /\ \A q \in Positions : card'[T][q] = "archived" <=> card[T][q] = "archived"
    BY <1>2 DEF Barrier, Standing, Live, CardStatus
  <1>5. p <= Chain(T) /\ Chained(T) /\ (Standing(T, p) \/ card[T][p] = "archived")
    BY <1>2, <1>3, <1>4 DEF CardsFit, Standing, Blank, Live, CardStatus
  <1>6. Chained(T) /\ p <= Chain(T)
    BY <1>2, <1>3 DEF CardsFit, Blank
  <1>7. Decided(T) => Decided(T)'
    <2>1. ASSUME Decided(T), NEW q \in 1..Chain(T)
          PROVE  card'[T][q] \notin {"none", "late"}
      <3>1. card[T][q] \notin {"none", "late"}
        BY <2>1 DEF Decided
      <3> QED BY <1>2, <1>4, <3>1
    <2> QED BY <1>1, <2>1 DEF Decided
  <1>8. CardsFit(T)'
    <2>1. \A q \in Positions :
            /\ q > Chain(T) => card'[T][q] = "none"
            /\ card'[T][q] = "late" => Named(T) /\ Form(T) = "create" /\ Upto(T) = q
            /\ active'[T][q] => card'[T][q] \in Live \cup {"archived"}
            /\ q > 0 /\ card'[T][q] = "done" => ~active'[T][q]
      <3> SUFFICES ASSUME NEW q \in Positions
                   PROVE  /\ q > Chain(T) => card'[T][q] = "none"
                          /\ card'[T][q] = "late" => Named(T) /\ Form(T) = "create" /\ Upto(T) = q
                          /\ active'[T][q] => card'[T][q] \in Live \cup {"archived"}
                          /\ q > 0 /\ card'[T][q] = "done" => ~active'[T][q]
        OBVIOUS
      <3>1. CASE q = p
        BY <1>2, <1>4, <1>6, <3>1 DEF Live, CardStatus
      <3>2. CASE q # p
        BY <1>3, <1>4, <3>2 DEF CardsFit
      <3> QED BY <3>1, <3>2
    <2> QED BY <1>1, <1>3, <1>6, <2>1 DEF CardsFit
  <1>9. CommitsFit(T)'
    BY <1>1, <1>3, <1>4, <1>7 DEF CommitsFit
  <1>10. OrphansFit(T)'
    BY <1>1, <1>3, <1>4 DEF OrphansFit
  <1>11. ChildrenFirst(T)'
    <2> SUFFICES ASSUME NEW r \in 1..NPhases, card'[T][r - 1] = "archived", Standing(T, r)'
                 PROVE  admitted'[T] \/ (stopped' /\ Unseen(T)')
      BY DEF ChildrenFirst
    <2>1. r \in Positions /\ r - 1 \in Positions
      BY Basics DEF Positions
    <2> QED BY <1>1, <1>3, <1>4, <2>1 DEF ChildrenFirst
  <1>12. ClaimsFit(T)'
    <2> SUFFICES ASSUME NEW r \in 1..NPhases, Claimed(T, r)', ~admitted[T],
                        ~(Barrier(T) = "archived" /\ Unseen(T))
                 PROVE  Barrier(T) \in {"done", "archived"} /\ Decided(T)
      BY <1>1, <1>4, <1>7 DEF ClaimsFit
    <2>1. CASE Claimed(T, r)
      BY <1>3, <2>1 DEF ClaimsFit
    <2>2. CASE ~Claimed(T, r)
      <3>1. r = p
        BY <1>2, <1>4, <2>2 DEF Claimed
      <3>2. card[T][p] = "todo" /\ Released(T, p)
        BY <1>4, <2>2, <3>1 DEF Claimed
      <3>3. card[T][p - 1] \in {"done", "archived"} /\ Standing(T, p)
        BY <3>2 DEF Released, Standing, Live
      <3>4. CASE card[T][p - 1] = "archived"
        <4>1. Unseen(T)
          BY <1>3, <3>3, <3>4 DEF ChildrenFirst
        <4>2. p <= 1
          BY <1>6, <4>1, ChainsAndPlaces DEF Unseen
        <4>3. p - 1 = 0
          BY <1>2, <4>2
        <4> QED BY <3>4, <4>1, <4>3 DEF Barrier
      <3>5. CASE card[T][p - 1] = "done"
        <4>1. CASE p = 1
          <5>1. Barrier(T) = "done"
            BY <3>5, <4>1 DEF Barrier
          <5> QED BY <1>3, <5>1 DEF CommitsFit
        <4>2. CASE p # 1
          <5>1. p - 1 \in 1..NPhases
            BY <4>2, Basics
          <5>2. Claimed(T, p - 1)
            BY <3>5 DEF Claimed
          <5> QED BY <1>3, <5>1, <5>2 DEF ClaimsFit
        <4> QED BY <4>1, <4>2
      <3> QED BY <3>3, <3>4, <3>5
    <2> QED BY <2>1, <2>2
  <1> QED BY <1>8, <1>9, <1>10, <1>11, <1>12 DEF BoardFits

\* A reclaim takes cards from their workers and gives none.
LEMMA ReclaimingKeeps ==
  ASSUME NEW T \in Ticks, BoardFits(T), OnlyCards(T), TypeOK,
         \A p \in Positions :
              /\ card'[T][p] = IF card[T][p] = "running" THEN "todo" ELSE card[T][p]
              /\ active'[T][p] <=> active[T][p] /\ card[T][p] # "running"
  PROVE  BoardFits(T)'
  <1>1. /\ PlaceOf(T)' = PlaceOf(T) /\ Chain(T)' = Chain(T) /\ (Chained(T)' <=> Chained(T))
        /\ (Named(T)' <=> Named(T)) /\ Form(T)' = Form(T) /\ Upto(T)' = Upto(T)
        /\ (Unseen(T)' <=> Unseen(T))
        /\ admitted'[T] = admitted[T] /\ stopped' = stopped
        /\ kind'[T] = kind[T] /\ expected'[PlaceOf(T)] = expected[PlaceOf(T)]
    BY OnlyCardsSame DEF OnlyCards
  <1>2. /\ Chain(T) \in 1..NPhases /\ Positions \subseteq Nat /\ 0 \in Positions
        /\ 1..NPhases \subseteq Positions /\ 1..Chain(T) \subseteq Positions
    BY ChainsAndPlaces, Basics DEF Positions
  <1>3. /\ CardsFit(T) /\ CommitsFit(T) /\ OrphansFit(T) /\ ChildrenFirst(T) /\ ClaimsFit(T)
    BY DEF BoardFits
  <1>4. /\ \A s \in {"none", "late", "done", "blocked", "archived"} : \A p \in Positions :
             card'[T][p] = s <=> card[T][p] = s
        /\ \A p \in Positions : Standing(T, p)' <=> Standing(T, p)
        /\ \A p \in Positions : Claimed(T, p)' => Claimed(T, p)
    BY DEF Standing, Live, Claimed
  <1>5. Decided(T) => Decided(T)'
    BY <1>1, <1>2, <1>4 DEF Decided
  <1>6. CardsFit(T)'
    <2>1. Blank(T) => Blank(T)'
      BY <1>1, <1>4 DEF Blank
    <2>2. \A p \in Positions : active'[T][p] => card'[T][p] \in Live \cup {"archived"}
      BY <1>3 DEF CardsFit, Live
    <2> QED BY <1>1, <1>3, <1>4, <2>1, <2>2 DEF CardsFit
  <1>7. CommitsFit(T)'
    BY <1>1, <1>2, <1>3, <1>4, <1>5 DEF CommitsFit, Barrier
  <1>8. OrphansFit(T)'
    BY <1>1, <1>2, <1>3, <1>4 DEF OrphansFit, Barrier
  <1>9. ChildrenFirst(T)'
    <2> SUFFICES ASSUME NEW r \in 1..NPhases, card'[T][r - 1] = "archived", Standing(T, r)'
                 PROVE  admitted'[T] \/ (stopped' /\ Unseen(T)')
      BY DEF ChildrenFirst
    <2>1. r \in Positions /\ r - 1 \in Positions
      BY Basics DEF Positions
    <2> QED BY <1>1, <1>3, <1>4, <2>1 DEF ChildrenFirst
  <1>10. ClaimsFit(T)'
    BY <1>1, <1>2, <1>3, <1>4, <1>5 DEF ClaimsFit, Barrier
  <1> QED BY <1>6, <1>7, <1>8, <1>9, <1>10 DEF BoardFits

\* The schedule admits the first worker card of a pinned run.
LEMMA AdmittingKeeps ==
  ASSUME NEW T \in Ticks, BoardFits(T), kind[T] = "pinned",
         card[T][1] \in {"none", "archived", "late"},
         kind'[T] = kind[T] /\ active'[T] = active[T] /\ stopped' = stopped,
         marker'[PlaceOf(T)] = marker[PlaceOf(T)], expected'[PlaceOf(T)] = expected[PlaceOf(T)],
         \A q \in Positions : card'[T][q] = IF q = 1 THEN "todo" ELSE card[T][q],
         admitted'[T] = (admitted[T] \/ card[T][1] # "late"), admitted[T] \in BOOLEAN
  PROVE  BoardFits(T)'
  <1>0. 1 \in Positions /\ 0 \in Positions /\ Chain(T) = 1 /\ Positions \subseteq Nat /\ Chained(T)
        /\ 1..NPhases \subseteq Positions
    BY Basics, ChainsAndPlaces DEF Chained, Chain
  <1>1. CASE card[T][1] = "late" /\ ~admitted[T]
    <2>1. admitted'[T] = admitted[T]
      BY <1>1
    <2>2. CardBecomes(T, 1, "todo")
      BY <2>1 DEF CardBecomes, OnlyCards
    <2>3. Named(T) /\ Form(T) = "create" /\ Upto(T) = 1
      BY <1>0, <1>1 DEF BoardFits, CardsFit
    <2> QED BY <1>0, <1>1, <2>2, <2>3, AppearingKeeps
  <1>2. CASE ~(card[T][1] = "late" /\ ~admitted[T])
    <2>1. admitted'[T]
      BY <1>2
    <2>2. /\ PlaceOf(T)' = PlaceOf(T) /\ Chain(T)' = 1 /\ Chained(T)'
          /\ (Named(T)' <=> Named(T)) /\ Form(T)' = Form(T) /\ Upto(T)' = Upto(T)
      BY <1>0, SamePlace DEF Named, Form, Upto
    <2>3. Barrier(T)' = Barrier(T)
      BY <1>0 DEF Barrier
    <2>4. Decided(T) => Decided(T)'
      BY <1>0, <2>2 DEF Decided
    <2>5. CommitsFit(T)'
      BY <2>2, <2>3, <2>4 DEF CommitsFit, BoardFits
    <2>6. \A q \in Positions :
            /\ q > 1 => card'[T][q] = "none"
            /\ card'[T][q] = "late" => Named(T) /\ Form(T) = "create" /\ Upto(T) = q
            /\ active'[T][q] => card'[T][q] \in Live \cup {"archived"}
            /\ q > 0 /\ card'[T][q] = "done" => ~active'[T][q]
      BY <1>0 DEF BoardFits, CardsFit, Live
    <2>7. CardsFit(T)'
      BY <2>2, <2>6 DEF CardsFit
    <2> QED BY <2>1, <2>5, <2>7 DEF BoardFits, OrphansFit, ChildrenFirst, ClaimsFit
  <1> QED BY <1>1, <1>2

-----------------------------------------------------------------------------
(* The steps of a job.                                                     *)

\* Where a step of a job leaves the job.
LEMMA JobFields ==
  ASSUME job \in JobType
  PROVE  /\ \A v : Ends(v) => job'.mode = "none" /\ job'.pc = "none" /\ job'.ok = v
         /\ \A pc : Goto(pc) => /\ job'.mode = job.mode /\ job'.pc = pc /\ job'.place = job.place
                                /\ job'.tick = job.tick /\ job'.at = job.at /\ job'.target = job.target
         /\ \A pc, p : GotoAt(pc, p) => /\ job'.mode = job.mode /\ job'.pc = pc
                                        /\ job'.place = job.place /\ job'.tick = job.tick
                                        /\ job'.at = p /\ job'.target = job.target
         /\ Resolved => IF job.mode = "cancel"
                        THEN /\ job'.mode = "cancel" /\ job'.pc = "stop" /\ job'.place = job.place
                             /\ job'.tick = job.target /\ job'.target = job.target
                        ELSE /\ job'.mode = "none" /\ job'.pc = "none"
                             /\ job'.ok = (job.mode = "reconcile")
  <1>1. \A v : Ends(v) => job'.mode = "none" /\ job'.pc = "none" /\ job'.ok = v
    BY DEF Ends, NoJob
  <1>2. \A pc : Goto(pc) => /\ job'.mode = job.mode /\ job'.pc = pc /\ job'.place = job.place
                            /\ job'.tick = job.tick /\ job'.at = job.at /\ job'.target = job.target
    BY DEF Goto, JobType
  <1>3. \A pc, p : GotoAt(pc, p) => /\ job'.mode = job.mode /\ job'.pc = pc
                                    /\ job'.place = job.place /\ job'.tick = job.tick
                                    /\ job'.at = p /\ job'.target = job.target
    BY DEF GotoAt, JobType
  <1>4. Resolved => IF job.mode = "cancel"
                    THEN /\ job'.mode = "cancel" /\ job'.pc = "stop" /\ job'.place = job.place
                         /\ job'.tick = job.target /\ job'.target = job.target
                    ELSE /\ job'.mode = "none" /\ job'.pc = "none"
                         /\ job'.ok = (job.mode = "reconcile")
    BY <1>1 DEF Resolved, JobType
  <1> QED BY <1>1, <1>2, <1>3, <1>4

\* A job that ended fits.
LEMMA EndedFits ==
  ASSUME job'.mode = "none", job'.pc = "none"
  PROVE  JobFits'
  BY DEF JobFits, Creating, Undoing, Cancelling

\* Only a creation writes cards that were not there.
LEMMA CreatingIsCreate ==
  ASSUME JobFits, job \in JobType, job.pc \in Creating
  PROVE  job.mode = "create"
  BY DEF JobFits, Creating, Undoing, Cancelling, JobType

\* A job that creates or undoes owns the marker of its place.
LEMMA MarkerIsTheJobs ==
  ASSUME PTInv, job.pc \in Creating \cup Undoing
  PROVE  LET T == job.tick IN
         /\ T \in Ticks /\ job.at \in Positions /\ Chained(T) /\ ~admitted[T]
         /\ job.place = PlaceOf(T) /\ job.place \in Places /\ BoardFits(T)
         /\ job.mode \in {"create", "reconcile", "cancel"}
         /\ job.mode # "create" => job.place = Project /\ job.pc \in Undoing
         /\ job.mode = "create" => CreateFits(T) /\ ~stopped
         /\ job.pc \in Undoing => UndoFits(T)
         /\ marker[job.place].tick \in {NoTick, T}
         /\ Upto(T) \in Positions /\ (Named(T) => Upto(T) <= Chain(T))
         /\ stopped \in BOOLEAN
  <1> DEFINE T == job.tick
  <1>0. TypeOK /\ RegTypeOK /\ MarkersFit /\ JobFits /\ ProjectClear /\ TickFits /\ job \in JobType
    BY DEF PTInv, TypeOK, RegTypeOK
  <1>1. T \in Ticks /\ job.at \in Positions /\ job.place \in Places
    BY <1>0, JobsTick DEF Creating, Undoing
  <1>2. job.mode \in {"create", "reconcile", "cancel"}
    BY <1>0 DEF JobFits, Creating, Undoing, JobType
  <1>3. job.mode # "create" => job.place = Project /\ job.pc \in Undoing
    BY <1>0, <1>2, CreatingIsCreate DEF JobFits
  <1>4. job.mode = "create" => CreateFits(T) /\ ~stopped
    BY <1>0 DEF JobFits, CreateFits, TickFits
  <1>5. job.pc \in Undoing => UndoFits(T)
    BY <1>0 DEF JobFits
  <1>6. Chained(T) /\ ~admitted[T] /\ job.place = PlaceOf(T)
    BY <1>3, <1>4, <1>5 DEF CreateFits, UndoFits
  <1>7. marker[job.place] \in MarkerType
    BY <1>0, <1>1 DEF RegTypeOK
  <1>8. marker[job.place].tick \in {NoTick, T}
    <2>1. CASE job.pc \in Undoing
      BY <1>5, <1>6, <2>1 DEF UndoFits, Named
    <2>2. CASE job.pc \notin Undoing
      <3>1. tick.pc = "chain" /\ tick.id = T /\ ~Free
        BY <1>3, <1>4, <2>2 DEF CreateFits, Free
      <3>2. CASE job.place = Project
        BY <1>0, <3>1, <3>2 DEF ProjectClear
      <3>3. CASE job.place # Project
        <4>1. job.place = T
          BY <1>1, <1>6, <3>3, ChainsAndPlaces
        <4>2. \A u \in Ticks : marker[job.place].tick = u => job.place = PlaceOf(u)
          BY <1>0, <1>1 DEF MarkersFit
        <4>3. \A u \in Ticks : T = PlaceOf(u) => u = T
          BY <1>1, ChainsAndPlaces, Basics
        <4> QED BY <1>7, <4>1, <4>2, <4>3 DEF MarkerType
      <3> QED BY <3>2, <3>3
    <2> QED BY <2>1, <2>2
  <1>9. Upto(T) \in Positions
    BY <1>6, <1>7 DEF Upto, MarkerType
  <1>10. Named(T) => Upto(T) <= Chain(T)
    BY <1>0, <1>1, <1>6 DEF MarkersFit, Named, Upto
  <1>11. BoardFits(T) /\ stopped \in BOOLEAN
    BY <1>0, <1>1 DEF PTInv, TypeOK
  <1> QED BY <1>1, <1>2, <1>3, <1>4, <1>5, <1>6, <1>8, <1>9, <1>10, <1>11

\* What every step of a job leaves: the markers, the boards and the job fit.
JobKeeps ==
  /\ MarkersFit'
  /\ \A t \in Ticks : t # job.tick => SameBoard(t)
  /\ \A t \in Ticks : BoardFits(t)'
  /\ JobFits'

\* It is enough to look at the job's own tick.
LEMMA JobKeepsAll ==
  ASSUME PTInv, UNCHANGED tickVars, NEW T \in Ticks, T = job.tick,
         MarkersFit', \A t \in Ticks : t # T => SameBoard(t), BoardFits(T)', JobFits'
  PROVE  JobKeeps
  <1>1. stopped' = stopped
    BY DEF tickVars
  <1>2. ASSUME NEW t \in Ticks, t # T
        PROVE  BoardFits(t)'
    <2>1. BoardFits(t) /\ SameBoard(t)
      BY <1>2 DEF PTInv
    <2> QED BY <1>1, <2>1, SameBoardKeeps
  <1> QED BY <1>2 DEF JobKeeps

\* Others do not notice a marker that the job's tick owns.
LEMMA OthersUnmarked ==
  ASSUME PTInv, job.pc \in Creating \cup Undoing,
         UNCHANGED <<kind, admitted, active, expected>>,
         \A t \in Ticks : t # job.tick => card'[t] = card[t],
         \A q \in Places : q # job.place => marker'[q] = marker[q],
         marker'[job.place] = marker[job.place] \/ marker'[job.place].tick \in {NoTick, job.tick}
  PROVE  \A t \in Ticks : t # job.tick => SameBoard(t)
  <1>1. marker[job.place].tick \in {NoTick, job.tick}
    BY MarkerIsTheJobs
  <1>2. \A t \in Ticks : PlaceOf(t) \in Places /\ t # NoTick
    BY ChainsAndPlaces, Basics
  <1> QED BY <1>1, <1>2 DEF SameBoard, Named

\* A creation goes on with its own tick.
LEMMA CreationGoesOn ==
  ASSUME PTInv, NEW T \in Ticks, job.tick = T, job.mode = "create", UNCHANGED <<kind, admitted, tickVars>>,
         job'.mode = "create", job'.tick = T, job'.place = job.place,
         job'.pc \in Creating \cup Undoing,
         Barrier(T)' # "done" => \A p \in 1..NPhases : ~Claimed(T, p)',
         job'.pc \in {"undo", "archive"} => Barrier(T)' # "done",
         job'.pc \in Creating => CreatedSoFar(T)' /\ MarkedSoFar(T)',
         job'.pc \in Undoing => UndoFits(T)'
  PROVE  JobFits'
  <1>1. CreateFits(T)
    BY DEF PTInv, JobFits
  <1>2. Chained(T)' /\ ~admitted'[T] /\ PlaceOf(T)' = PlaceOf(T)
    BY <1>1, SamePlace DEF CreateFits
  <1>3. tick' = tick /\ current' = current
    BY DEF tickVars
  <1>4. CreateFits(T)'
    BY <1>1, <1>2, <1>3 DEF CreateFits
  <1> QED BY <1>4 DEF JobFits, Creating, Undoing, Cancelling

\* What a creation knows before each of its steps.
LEMMA CreatingKnows ==
  ASSUME PTInv, NEW T \in Ticks, job.tick = T, job.pc \in Creating
  PROVE  /\ job.mode = "create" /\ Chained(T) /\ ~admitted[T] /\ job.place = PlaceOf(T)
         /\ CreatedSoFar(T) /\ MarkedSoFar(T) /\ BoardFits(T)
         /\ \A p \in 1..NPhases : Barrier(T) # "done" => ~Claimed(T, p)
         /\ Barrier(T) # "done"
         /\ job.at \in Positions /\ job.at \in Nat /\ Chain(T) \in Positions /\ Chain(T) \in Nat
         /\ Positions \subseteq Nat /\ 0 \in Positions /\ job.place \in Places
         /\ ~stopped /\ stopped \in BOOLEAN
         /\ \A p \in Positions : card[T][p] \in CardStatus
  <1>1. job \in JobType /\ JobFits /\ card \in [Ticks -> [Positions -> CardStatus]]
    BY DEF PTInv, TypeOK, RegTypeOK
  <1>2. job.mode = "create"
    BY <1>1, CreatingIsCreate
  <1>3. CreateFits(T) /\ CreatedSoFar(T) /\ MarkedSoFar(T)
    BY <1>1, <1>2 DEF JobFits, CreateFits
  <1>4. job.at \in Positions /\ job.at \in Nat
    BY <1>1, Basics DEF JobType
  <1>5. Barrier(T) # "done"
    BY <1>3, <1>4, Basics DEF CreatedSoFar, Barrier, Creating
  <1>6. Chain(T) \in Positions /\ Chain(T) \in Nat
    BY ChainsAndPlaces, Basics
  <1> QED BY <1>1, <1>2, <1>3, <1>4, <1>5, <1>6, MarkerIsTheJobs, Basics DEF CreateFits

\* Before a create, its intent is written.
LEMMA PersistIntentKeeps ==
  ASSUME PTInv, PersistIntent, UNCHANGED tickVars
  PROVE  JobKeeps
  <1>1. PICK T \in Ticks : T = job.tick
    BY MarkerIsTheJobs DEF PersistIntent, Creating
  <1>2. PICK a \in Positions : a = job.at
    BY MarkerIsTheJobs DEF PersistIntent, Creating
  <1>3. /\ job.mode = "create" /\ Chained(T) /\ ~admitted[T] /\ job.place = PlaceOf(T)
        /\ CreatedSoFar(T) /\ MarkedSoFar(T) /\ BoardFits(T) /\ job.pc = "intent"
        /\ \A p \in 1..NPhases : ~Claimed(T, p)
        /\ Barrier(T) # "done" /\ a \in Nat /\ Chain(T) \in Positions
        /\ Positions \subseteq Nat /\ 0 \in Positions /\ job.place \in Places
        /\ job \in JobType /\ marker \in [Places -> MarkerType] /\ MarkersFit
    BY <1>1, <1>2, CreatingKnows DEF PersistIntent, Creating, PTInv, TypeOK, RegTypeOK
  <1>4. /\ a <= Chain(T) /\ card[T][a] = "none"
        /\ \A q \in Positions : q < a => card[T][q] = "todo"
        /\ \A q \in Positions : q > a => card[T][q] = "none"
        /\ a = 0 => ~Named(T)
        /\ a # 0 => Named(T) /\ Form(T) = "cleanup" /\ Upto(T) = a - 1
    BY <1>2, <1>3 DEF CreatedSoFar, MarkedSoFar
  <1>5. UNCHANGED <<kind, card, active, admitted, expected, stopped>>
    BY DEF PersistIntent, tickVars
  <1>6. \A q \in Positions : Standing(T, q) => q < a
    BY <1>3, <1>4 DEF Standing, Live
  <1>7. Barrier(T)' # "done" /\ \A p \in 1..NPhases : ~Claimed(T, p)'
    BY <1>3, <1>5 DEF Barrier, Claimed
  <1>8. CASE Mark("create", job.tick, job.at) /\ Goto("create")
    <2>1. /\ marker'[PlaceOf(T)] = [form |-> "create", tick |-> T, upto |-> a]
          /\ \A q \in Places : q # job.place => marker'[q] = marker[q]
      BY <1>1, <1>2, <1>3, <1>8, MarkTypes
    <2>2. MarkersFit'
      BY <1>3, <1>4, <1>5, <2>1, MarkersKept
    <2>3. \A t \in Ticks : t # job.tick => SameBoard(t)
      BY <1>1, <1>3, <1>5, <2>1, OthersUnmarked DEF Creating
    <2>4. BoardFits(T)'
      <3>1. \A p \in Positions : card[T][p] # "late"
        BY <1>3, <1>4
      <3>2. \A p \in Positions : Standing(T, p) => p <= a
        BY <1>3, <1>6
      <3> QED BY <1>3, <1>5, <2>1, <3>1, <3>2, MarkingKeeps
    <2>5. /\ job'.mode = "create" /\ job'.pc = "create" /\ job'.place = job.place
          /\ job'.tick = T /\ job'.at = a
      BY <1>1, <1>2, <1>3, <1>8, JobFields
    <2>6. MarkedSoFar(T)'
      BY <1>5, <2>1, <2>5, SamePlace DEF MarkedSoFar
    <2>7. CreatedSoFar(T)'
      BY <1>4, <1>5, <2>5, SamePlace DEF CreatedSoFar
    <2>8. JobFits'
      BY <1>1, <1>3, <1>5, <1>7, <2>5, <2>6, <2>7, CreationGoesOn DEF Creating, Undoing
    <2> QED BY <1>1, <2>2, <2>3, <2>4, <2>8, JobKeepsAll
  <1>9. CASE UNCHANGED marker /\ GivesUpBefore(job.at)
    <2>1. MarkersFit' /\ \A t \in Ticks : SameBoard(t)
      BY <1>3, <1>5, <1>9, MarkersKept DEF SameBoard
    <2>2. BoardFits(T)'
      BY <1>3, <1>5, <2>1, SameBoardKeeps
    <2>3. CASE a = 0
      <3>1. JobFits'
        <4>1. Ends(FALSE)
          BY <1>9, <1>2, <2>3 DEF GivesUpBefore
        <4>2. job'.mode = "none" /\ job'.pc = "none"
          BY <1>3, <4>1, JobFields
        <4> QED BY <4>2, EndedFits
      <3> QED BY <1>1, <2>1, <2>2, <3>1, JobKeepsAll
    <2>4. CASE a # 0
      <3>1. /\ job'.mode = "create" /\ job'.pc = "undo" /\ job'.place = job.place
            /\ job'.tick = T /\ job'.at = a - 1
        <4>1. GotoAt("undo", a - 1)
          BY <1>9, <1>2, <2>4 DEF GivesUpBefore
        <4> QED BY <1>1, <1>2, <1>3, <4>1, JobFields
      <3>2. UndoFits(T)'
        <4>1. Named(T)' /\ Upto(T)' = a - 1 /\ Chained(T)' /\ PlaceOf(T)' = PlaceOf(T)
          BY <1>3, <1>4, <1>5, <1>9, <2>4, SamePlace DEF Named, Upto
        <4>0. \A q \in Positions : card'[T][q] = IF q > a - 1 THEN "none" ELSE "todo"
          <5>1. \A q \in Positions : /\ q \in Nat /\ (q < a \/ q = a \/ q > a)
                                     /\ q < a => ~(q > a - 1)
                                     /\ q >= a => q > a - 1
            BY <1>3
          <5>2. card' = card
            BY <1>5
          <5>3. \A q \in Positions : card[T][q] = IF q > a - 1 THEN "none" ELSE "todo"
            BY <1>3, <1>4, <5>1
          <5> QED BY <5>2, <5>3
        <4>2. \A q \in Positions : q > a - 1 => ~Standing(T, q)'
          BY <4>0 DEF Standing, Live
        <4>3. \A q \in Positions : card'[T][q] # "late"
          BY <4>0
        <4> QED BY <1>3, <1>5, <3>1, <4>1, <4>2, <4>3 DEF UndoFits
      <3>3. JobFits'
        BY <1>1, <1>3, <1>5, <1>7, <3>1, <3>2, CreationGoesOn DEF Creating, Undoing
      <3> QED BY <1>1, <2>1, <2>2, <3>3, JobKeepsAll
    <2> QED BY <2>3, <2>4
  <1> QED BY <1>8, <1>9 DEF PersistIntent

\* The cards of a creation, position by position.
LEMMA CreatedCards ==
  ASSUME PTInv, NEW T \in Ticks, job.tick = T, NEW a \in Positions, job.at = a, job.pc \in Creating
  PROVE  /\ job.mode = "create" /\ Chained(T) /\ ~admitted[T] /\ job.place = PlaceOf(T)
         /\ BoardFits(T) /\ Barrier(T) # "done"
         /\ \A p \in 1..NPhases : ~Claimed(T, p)
         /\ a \in Nat /\ Chain(T) \in Positions /\ Chain(T) \in Nat /\ a <= Chain(T)
         /\ Positions \subseteq Nat /\ 0 \in Positions /\ job.place \in Places
         /\ job \in JobType /\ marker \in [Places -> MarkerType] /\ MarkersFit
         /\ card \in [Ticks -> [Positions -> CardStatus]]
         /\ \A q \in Positions : q < a => card[T][q] = "todo"
         /\ \A q \in Positions : q > a => card[T][q] = "none"
         /\ ~stopped
  BY CreatingKnows DEF CreatedSoFar, PTInv, TypeOK, RegTypeOK

\* What a step of a creation leaves alone.
CreationFrame == UNCHANGED <<kind, active, admitted>> /\ UNCHANGED tickVars

\* A creation that gives up undoes the cards below its position.
LEMMA GivingUpFits ==
  ASSUME PTInv, NEW T \in Ticks, job.tick = T, NEW a \in Positions, job.at = a,
         job.mode = "create", Chained(T), ~admitted[T], job.place = PlaceOf(T),
         CreationFrame,
         NEW b \in Positions, job'.mode = "create", job'.pc = "undo", job'.place = job.place,
         job'.tick = T, job'.at = b,
         \A p \in 1..NPhases : ~Claimed(T, p)',
         Barrier(T)' # "done", Named(T)', b <= Upto(T)',
         \A q \in Positions : card'[T][q] # "late",
         \A q \in Positions : q > b => card'[T][q] = "none"
  PROVE  JobFits'
  <1>1. Chained(T)' /\ PlaceOf(T)' = PlaceOf(T) /\ ~admitted'[T]
    BY SamePlace DEF CreationFrame
  <1>2. \A q \in Positions : q > b => ~Standing(T, q)'
    BY DEF Standing, Live
  <1>3. UndoFits(T)'
    BY <1>1, <1>2 DEF UndoFits
  <1> QED BY <1>3, CreationGoesOn DEF Creating, Undoing, CreationFrame

\* A create is sent.
LEMMA CreateCardKeeps ==
  ASSUME PTInv, CreateCard, UNCHANGED tickVars
  PROVE  JobKeeps
  <1>1. PICK T \in Ticks : T = job.tick
    BY MarkerIsTheJobs DEF CreateCard, Creating
  <1>2. PICK a \in Positions : a = job.at
    BY MarkerIsTheJobs DEF CreateCard, Creating
  <1>3. /\ job.mode = "create" /\ Chained(T) /\ ~admitted[T] /\ job.place = PlaceOf(T)
        /\ BoardFits(T) /\ Barrier(T) # "done"
        /\ \A p \in 1..NPhases : ~Claimed(T, p)
        /\ a \in Nat /\ Chain(T) \in Positions /\ a <= Chain(T)
        /\ Positions \subseteq Nat /\ 0 \in Positions /\ job.place \in Places
        /\ job \in JobType /\ marker \in [Places -> MarkerType] /\ MarkersFit
        /\ card \in [Ticks -> [Positions -> CardStatus]]
        /\ \A q \in Positions : q < a => card[T][q] = "todo"
        /\ \A q \in Positions : q > a => card[T][q] = "none"
        /\ ~stopped
    BY <1>1, <1>2, CreatedCards DEF CreateCard, Creating
  <1>4. /\ card[T][a] = "none" /\ job.pc = "create"
        /\ Named(T) /\ Form(T) = "create" /\ Upto(T) = a
    BY <1>1, <1>2, CreatingKnows DEF CreatedSoFar, MarkedSoFar, CreateCard, Creating
  <1>5. /\ UNCHANGED <<kind, active, admitted, expected, stopped>>
        /\ CreationFrame
    BY DEF CreateCard, tickVars, CreationFrame
  <1>6. a # 0 => card[T][a - 1] = "todo" /\ a - 1 \in Positions
    <2>1. a # 0 => a - 1 \in Positions /\ a - 1 < a
      BY Basics DEF Positions
    <2> QED BY <1>3, <2>1
  <1>7. ASSUME NEW s \in {"none", "late", "todo"}, card' = [card EXCEPT ![T][a] = s], UNCHANGED marker
        PROVE  /\ MarkersFit' /\ BoardFits(T)' /\ \A t \in Ticks : t # T => SameBoard(t)
               /\ \A q \in Positions : card'[T][q] = IF q = a THEN s ELSE card[T][q]
               /\ Barrier(T)' # "done" /\ \A p \in 1..NPhases : ~Claimed(T, p)'
    <2>1. /\ \A t \in Ticks : t # T => card'[t] = card[t]
          /\ \A q \in Positions : card'[T][q] = IF q = a THEN s ELSE card[T][q]
      BY <1>3, <1>7, SetsOne
    <2>2. MarkersFit'
      BY <1>3, <1>5, <1>7, MarkersKept
    <2>3. \A t \in Ticks : t # T => SameBoard(t)
      BY <1>5, <1>7, <2>1 DEF SameBoard
    <2>4. CardBecomes(T, a, s)
      BY <1>5, <1>7, <2>1 DEF CardBecomes, OnlyCards
    <2>5. a # 0 /\ card[T][a] = "none" /\ s # "none" => card[T][a - 1] # "archived"
      BY <1>6
    <2>6. BoardFits(T)'
      BY <1>3, <1>4, <2>4, <2>5, AppearingKeeps
    <2>7. Barrier(T)' # "done"
      BY <1>3, <2>1 DEF Barrier
    <2>8. \A p \in 1..NPhases : ~Claimed(T, p)'
      BY <1>3, <1>5, <2>1, Basics DEF Claimed
    <2> QED BY <2>1, <2>2, <2>3, <2>6, <2>7, <2>8
  <1>8. CASE /\ Sets(job.at, IF card[job.tick][job.at] \in Live THEN card[job.tick][job.at] ELSE "todo")
             /\ Goto("record") /\ UNCHANGED marker
    <2>1. card' = [card EXCEPT ![T][a] = "todo"]
      BY <1>1, <1>2, <1>4, <1>8 DEF Sets, Live
    <2>2. /\ job'.mode = "create" /\ job'.pc = "record" /\ job'.place = job.place
          /\ job'.tick = T /\ job'.at = a
      BY <1>1, <1>2, <1>3, <1>8, JobFields
    <2>3. \A q \in Positions : card'[T][q] = IF q = a THEN "todo" ELSE card[T][q]
      BY <1>7, <1>8, <2>1
    <2>4. CreatedSoFar(T)'
      BY <1>3, <1>5, <2>2, <2>3, SamePlace DEF CreatedSoFar
    <2>5. MarkedSoFar(T)'
      BY <1>4, <1>5, <1>8, <2>2, SamePlace DEF MarkedSoFar, Named, Form, Upto
    <2>6. JobFits'
      BY <1>1, <1>3, <1>5, <1>7, <1>8, <2>1, <2>2, <2>4, <2>5, CreationGoesOn DEF Creating, Undoing
    <2> QED BY <1>1, <1>7, <1>8, <2>1, <2>6, JobKeepsAll
  <1>9. CASE /\ \E status \in CreateEffects(job.tick, job.at) : Sets(job.at, status)
             /\ Goto("repeat") /\ UNCHANGED marker
    <2>1. PICK s \in {"none", "late", "todo"} : card' = [card EXCEPT ![T][a] = s]
      <3>1. \A s \in CreateEffects(T, a) : s \in {"none", "late", "todo"}
        BY <1>3, <1>4, EffectTypes DEF Live
      <3>2. \E s \in CreateEffects(T, a) : card' = [card EXCEPT ![T][a] = s]
        BY <1>1, <1>2, <1>9 DEF Sets
      <3> QED BY <3>1, <3>2
    <2>2. /\ job'.mode = "create" /\ job'.pc = "repeat" /\ job'.place = job.place
          /\ job'.tick = T /\ job'.at = a
      BY <1>1, <1>2, <1>3, <1>9, JobFields
    <2>3. \A q \in Positions : card'[T][q] = IF q = a THEN s ELSE card[T][q]
      BY <1>7, <1>9, <2>1
    <2>4. CreatedSoFar(T)'
      BY <1>3, <1>5, <2>2, <2>3, SamePlace DEF CreatedSoFar
    <2>5. MarkedSoFar(T)'
      BY <1>4, <1>5, <1>9, <2>2, SamePlace DEF MarkedSoFar, Named, Form, Upto
    <2>6. JobFits'
      BY <1>1, <1>3, <1>5, <1>7, <1>9, <2>1, <2>2, <2>4, <2>5, CreationGoesOn DEF Creating, Undoing
    <2> QED BY <1>1, <1>7, <1>9, <2>1, <2>6, JobKeepsAll
  <1>10. CASE GivesUpBefore(job.at) /\ job.at # 0 /\ UNCHANGED <<marker, card>>
    <2>1. card' = [card EXCEPT ![T][a] = "none"]
      BY <1>3, <1>4, <1>10, SetsNothing
    <2>2. /\ job'.mode = "create" /\ job'.pc = "undo" /\ job'.place = job.place
          /\ job'.tick = T /\ job'.at = a - 1
      BY <1>1, <1>2, <1>3, <1>10, JobFields DEF GivesUpBefore
    <2>3. a - 1 \in Positions /\ a - 1 <= a /\ \A q \in Positions : q > a - 1 => q = a \/ q > a
      BY <1>2, <1>10, Basics DEF Positions
    <2>4. Named(T)' /\ Upto(T)' = a
      BY <1>4, <1>5, <1>10, SamePlace DEF Named, Upto
    <2>5. /\ \A q \in Positions : q > a - 1 => card'[T][q] = "none"
          /\ \A q \in Positions : card'[T][q] # "late"
      BY <1>3, <1>4, <1>10, <2>3
    <2>6. JobFits'
      BY <1>1, <1>2, <1>3, <1>5, <1>7, <1>10, <2>1, <2>2, <2>3, <2>4, <2>5, GivingUpFits
    <2> QED BY <1>1, <1>7, <1>10, <2>1, <2>6, JobKeepsAll
  <1>11. CASE GivesUpBefore(job.at) /\ job.at = 0 /\ Unmark /\ UNCHANGED card
    <2>1. JobFits'
      BY <1>3, <1>11, JobFields, EndedFits DEF GivesUpBefore
    <2>2. /\ marker'[PlaceOf(T)] = NoMarker
          /\ \A q \in Places : q # job.place => marker'[q] = marker[q]
      BY <1>3, <1>11, MarkTypes
    <2>3. MarkersFit'
      BY <1>3, <1>5, <2>2, MarkersKept
    <2>4. \A t \in Ticks : t # job.tick => SameBoard(t)
      <3>1. marker'[job.place].tick \in {NoTick, job.tick}
        BY <1>3, <2>2 DEF NoMarker
      <3> QED BY <1>4, <1>5, <1>11, <2>2, <3>1, OthersUnmarked DEF Creating
    <2>5. \A q \in Positions : card[T][q] = "none"
      <3>1. \A q \in Positions : q = a \/ q > a
        BY <1>2, <1>11, Basics DEF Positions
      <3> QED BY <1>3, <1>4, <3>1
    <2>6. BoardFits(T)'
      <3>1. /\ \A p \in Positions : card[T][p] # "late"
            /\ \A p \in Positions : ~Standing(T, p)
            /\ Barrier(T) # "archived"
        BY <1>3, <2>5 DEF Standing, Live, Barrier
      <3>2. marker'[PlaceOf(T)].tick # T
        BY <2>2, Basics DEF NoMarker
      <3> QED BY <1>3, <1>5, <1>11, <3>1, <3>2, UnmarkingKeeps
    <2> QED BY <1>1, <2>1, <2>3, <2>4, <2>6, JobKeepsAll
  <1> QED BY <1>8, <1>9, <1>10, <1>11 DEF CreateCard

\* A create that was not answered is repeated once.
LEMMA RepeatCreateKeeps ==
  ASSUME PTInv, RepeatCreate, UNCHANGED tickVars
  PROVE  JobKeeps
  <1>1. PICK T \in Ticks : T = job.tick
    BY MarkerIsTheJobs DEF RepeatCreate, Creating
  <1>2. PICK a \in Positions : a = job.at
    BY MarkerIsTheJobs DEF RepeatCreate, Creating
  <1>3. /\ job.mode = "create" /\ Chained(T) /\ ~admitted[T] /\ job.place = PlaceOf(T)
        /\ BoardFits(T) /\ Barrier(T) # "done"
        /\ \A p \in 1..NPhases : ~Claimed(T, p)
        /\ a \in Nat /\ Chain(T) \in Positions /\ a <= Chain(T)
        /\ Positions \subseteq Nat /\ 0 \in Positions /\ job.place \in Places
        /\ job \in JobType /\ marker \in [Places -> MarkerType] /\ MarkersFit
        /\ card \in [Ticks -> [Positions -> CardStatus]]
        /\ \A q \in Positions : q < a => card[T][q] = "todo"
        /\ \A q \in Positions : q > a => card[T][q] = "none"
        /\ ~stopped
    BY <1>1, <1>2, CreatedCards DEF RepeatCreate, Creating
  <1>4. /\ card[T][a] \in {"none", "late", "todo"} /\ job.pc = "repeat"
        /\ Named(T) /\ Form(T) = "create" /\ Upto(T) = a
    BY <1>1, <1>2, CreatingKnows DEF CreatedSoFar, MarkedSoFar, RepeatCreate, Creating
  <1>5. /\ UNCHANGED <<kind, active, admitted, expected, marker, stopped>>
        /\ CreationFrame
    BY DEF RepeatCreate, tickVars, CreationFrame
  <1>6. a # 0 => card[T][a - 1] = "todo" /\ a - 1 \in Positions
    <2>1. a # 0 => a - 1 \in Positions /\ a - 1 < a
      BY Basics DEF Positions
    <2> QED BY <1>3, <2>1
  <1>7. ASSUME NEW s \in {"none", "late", "todo"}, card' = [card EXCEPT ![T][a] = s],
               card[T][a] = "todo" => s = "todo"
        PROVE  /\ MarkersFit' /\ BoardFits(T)' /\ \A t \in Ticks : t # T => SameBoard(t)
               /\ \A q \in Positions : card'[T][q] = IF q = a THEN s ELSE card[T][q]
               /\ Barrier(T)' # "done" /\ \A p \in 1..NPhases : ~Claimed(T, p)'
    <2>1. /\ \A t \in Ticks : t # T => card'[t] = card[t]
          /\ \A q \in Positions : card'[T][q] = IF q = a THEN s ELSE card[T][q]
      BY <1>3, <1>7, SetsOne
    <2>2. MarkersFit'
      BY <1>3, <1>5, <1>7, MarkersKept
    <2>3. \A t \in Ticks : t # T => SameBoard(t)
      BY <1>5, <1>7, <2>1 DEF SameBoard
    <2>4. CardBecomes(T, a, s)
      BY <1>5, <1>7, <2>1 DEF CardBecomes, OnlyCards
    <2>5. a # 0 /\ card[T][a] = "none" /\ s # "none" => card[T][a - 1] # "archived"
      BY <1>6
    <2>6. BoardFits(T)'
      BY <1>3, <1>4, <1>7, <2>4, <2>5, AppearingKeeps
    <2>7. Barrier(T)' # "done"
      BY <1>3, <2>1 DEF Barrier
    <2>8. \A p \in 1..NPhases : ~Claimed(T, p)'
      BY <1>3, <1>5, <2>1, Basics DEF Claimed
    <2> QED BY <2>1, <2>2, <2>3, <2>6, <2>7, <2>8
  <1>8. CASE /\ Sets(job.at, IF card[job.tick][job.at] \in Live THEN card[job.tick][job.at] ELSE "todo")
             /\ Goto("undo")
    <2>1. card' = [card EXCEPT ![T][a] = "todo"]
      BY <1>1, <1>2, <1>4, <1>8 DEF Sets, Live
    <2>2. /\ job'.mode = "create" /\ job'.pc = "undo" /\ job'.place = job.place
          /\ job'.tick = T /\ job'.at = a
      BY <1>1, <1>2, <1>3, <1>8, JobFields
    <2>3. \A q \in Positions : card'[T][q] = IF q = a THEN "todo" ELSE card[T][q]
      BY <1>7, <1>8, <2>1
    <2>4. Named(T)' /\ Upto(T)' = a
      BY <1>4, <1>5, SamePlace DEF Named, Upto
    <2>5. /\ \A q \in Positions : q > a => card'[T][q] = "none"
          /\ \A q \in Positions : card'[T][q] # "late"
      BY <1>3, <2>3
    <2>6. JobFits'
      BY <1>1, <1>2, <1>3, <1>5, <1>7, <2>1, <2>2, <2>4, <2>5, GivingUpFits
    <2> QED BY <1>1, <1>7, <2>1, <2>6, JobKeepsAll
  <1>9. CASE /\ \E status \in CreateEffects(job.tick, job.at) : Sets(job.at, status)
             /\ Ends(FALSE)
    <2>1. PICK s \in {"none", "late", "todo"} :
            card' = [card EXCEPT ![T][a] = s] /\ (card[T][a] = "todo" => s = "todo")
      <3>1. \A s \in CreateEffects(T, a) :
              s \in {"none", "late", "todo"} /\ (card[T][a] = "todo" => s = "todo")
        BY <1>3, <1>4, EffectTypes DEF Live
      <3>2. \E s \in CreateEffects(T, a) : card' = [card EXCEPT ![T][a] = s]
        BY <1>1, <1>2, <1>9 DEF Sets
      <3> QED BY <3>1, <3>2
    <2>2. JobFits'
      BY <1>3, <1>9, JobFields, EndedFits
    <2> QED BY <1>1, <1>7, <2>1, <2>2, JobKeepsAll
  <1> QED BY <1>8, <1>9 DEF RepeatCreate

\* A card that was created is recorded.
LEMMA RecordCreatedKeeps ==
  ASSUME PTInv, RecordCreated, UNCHANGED tickVars
  PROVE  JobKeeps
  <1>1. PICK T \in Ticks : T = job.tick
    BY MarkerIsTheJobs DEF RecordCreated, Creating
  <1>2. PICK a \in Positions : a = job.at
    BY MarkerIsTheJobs DEF RecordCreated, Creating
  <1>3. /\ job.mode = "create" /\ Chained(T) /\ ~admitted[T] /\ job.place = PlaceOf(T)
        /\ BoardFits(T) /\ Barrier(T) # "done"
        /\ \A p \in 1..NPhases : ~Claimed(T, p)
        /\ a \in Nat /\ Chain(T) \in Positions /\ Chain(T) \in Nat /\ a <= Chain(T)
        /\ Positions \subseteq Nat /\ 0 \in Positions /\ job.place \in Places
        /\ job \in JobType /\ marker \in [Places -> MarkerType] /\ MarkersFit
        /\ \A q \in Positions : q < a => card[T][q] = "todo"
        /\ \A q \in Positions : q > a => card[T][q] = "none"
        /\ ~stopped
    BY <1>1, <1>2, CreatedCards DEF RecordCreated, Creating
  <1>4. card[T][a] = "todo" /\ job.pc = "record"
    BY <1>1, <1>2, CreatingKnows DEF CreatedSoFar, RecordCreated, Creating
  <1>5. /\ UNCHANGED <<kind, card, active, admitted, expected, stopped>>
        /\ CreationFrame
    BY DEF RecordCreated, tickVars, CreationFrame
  <1>8. \A q \in Positions : /\ card[T][q] = IF q <= a THEN "todo" ELSE "none"
                             /\ q < a + 1 <=> q <= a
    <2> SUFFICES ASSUME NEW q \in Positions
                 PROVE  card[T][q] = (IF q <= a THEN "todo" ELSE "none") /\ (q < a + 1 <=> q <= a)
      OBVIOUS
    <2>1. q \in Nat /\ a \in Nat
      BY <1>3
    <2>2. (q <= a <=> q < a \/ q = a) /\ (~(q <= a) <=> q > a) /\ (q < a + 1 <=> q <= a)
      BY <2>1
    <2> QED BY <1>3, <1>4, <2>2
  <1>6. CASE /\ Mark("cleanup", job.tick, job.at)
             /\ IF ChainStands(job.at) THEN Goto("sentinel") ELSE GotoAt("intent", job.at + 1)
    <2>1. /\ marker'[PlaceOf(T)] = [form |-> "cleanup", tick |-> T, upto |-> a]
          /\ \A q \in Places : q # job.place => marker'[q] = marker[q]
      BY <1>1, <1>2, <1>3, <1>6, MarkTypes
    <2>2. MarkersFit'
      BY <1>3, <1>5, <2>1, MarkersKept
    <2>3. \A t \in Ticks : t # job.tick => SameBoard(t)
      BY <1>1, <1>4, <1>3, <1>5, <2>1, OthersUnmarked DEF Creating
    <2>4. BoardFits(T)'
      <3>1. \A q \in Positions : card[T][q] = IF q <= a THEN "todo" ELSE "none"
        BY <1>8
      <3>2. /\ \A p \in Positions : card[T][p] # "late"
            /\ \A p \in Positions : Standing(T, p) => p <= a
        BY <3>1 DEF Standing, Live
      <3> QED BY <1>3, <1>5, <2>1, <3>2, MarkingKeeps
    <2>5. /\ PlaceOf(T)' = PlaceOf(T) /\ Chain(T)' = Chain(T)
          /\ Named(T)' /\ Form(T)' = "cleanup" /\ Upto(T)' = a
      BY <1>5, <2>1, SamePlace
    <2>6. Barrier(T)' # "done" /\ \A p \in 1..NPhases : ~Claimed(T, p)'
      BY <1>3, <1>5 DEF Barrier, Claimed
    <2>7. CASE a >= Chain(T)
      <3>1. /\ job'.mode = "create" /\ job'.pc = "sentinel" /\ job'.place = job.place
            /\ job'.tick = T /\ job'.at = a
        BY <1>1, <1>2, <1>3, <1>6, <2>7, JobFields DEF ChainStands
      <3>2. CreatedSoFar(T)' /\ MarkedSoFar(T)'
        BY <1>3, <1>4, <1>5, <2>5, <2>7, <3>1 DEF CreatedSoFar, MarkedSoFar
      <3> QED
        BY <1>1, <1>3, <1>5, <2>2, <2>3, <2>4, <2>6, <3>1, <3>2, CreationGoesOn, JobKeepsAll
        DEF Creating, Undoing
    <2>8. CASE ~(a >= Chain(T))
      <3>1. /\ job'.mode = "create" /\ job'.pc = "intent" /\ job'.place = job.place
            /\ job'.tick = T /\ job'.at = a + 1
        BY <1>1, <1>2, <1>3, <1>6, <2>8, JobFields DEF ChainStands
      <3>2. a + 1 \in Positions /\ a + 1 <= Chain(T) /\ a + 1 # 0 /\ (a + 1) - 1 = a
        BY <1>3, <2>8, Basics DEF Positions
      <3>3. /\ \A q \in Positions : q < a + 1 => card'[T][q] = "todo"
            /\ \A q \in Positions : q > a + 1 => card'[T][q] = "none"
            /\ card'[T][a + 1] = "none"
        <4>1. \A q \in Positions : q > a + 1 => ~(q <= a)
          BY <1>3
        <4>2. ~(a + 1 <= a)
          BY <1>3
        <4> QED BY <1>5, <1>8, <3>2, <4>1, <4>2
      <3>4. CreatedSoFar(T)'
        BY <2>5, <3>1, <3>2, <3>3 DEF CreatedSoFar
      <3>5. MarkedSoFar(T)'
        BY <2>5, <3>1, <3>2 DEF MarkedSoFar
      <3> QED
        BY <1>1, <1>3, <1>5, <2>2, <2>3, <2>4, <2>6, <3>1, <3>4, <3>5, CreationGoesOn, JobKeepsAll
        DEF Creating, Undoing
    <2> QED BY <2>7, <2>8
  <1>7. CASE Ends(FALSE) /\ UNCHANGED marker
    <2>1. MarkersFit' /\ \A t \in Ticks : SameBoard(t)
      BY <1>3, <1>5, <1>7, MarkersKept DEF SameBoard
    <2>2. BoardFits(T)'
      BY <1>3, <1>5, <2>1, SameBoardKeeps
    <2>3. JobFits'
      BY <1>3, <1>7, JobFields, EndedFits
    <2> QED BY <1>1, <2>1, <2>2, <2>3, JobKeepsAll
  <1> QED BY <1>6, <1>7 DEF RecordCreated

\* The expected phases are recorded.
LEMMA PersistExpectedPhasesKeeps ==
  ASSUME PTInv, PersistExpectedPhases, UNCHANGED tickVars
  PROVE  JobKeeps
  <1>1. PICK T \in Ticks : T = job.tick
    BY MarkerIsTheJobs DEF PersistExpectedPhases, Creating
  <1>2. PICK a \in Positions : a = job.at
    BY MarkerIsTheJobs DEF PersistExpectedPhases, Creating
  <1>3. /\ job.mode = "create" /\ Chained(T) /\ ~admitted[T] /\ job.place = PlaceOf(T)
        /\ BoardFits(T) /\ Barrier(T) # "done"
        /\ \A p \in 1..NPhases : ~Claimed(T, p)
        /\ a \in Nat /\ Chain(T) \in Positions /\ Chain(T) \in Nat /\ a <= Chain(T)
        /\ Positions \subseteq Nat /\ 0 \in Positions /\ job.place \in Places
        /\ job \in JobType /\ marker \in [Places -> MarkerType] /\ MarkersFit
        /\ \A q \in Positions : q < a => card[T][q] = "todo"
        /\ \A q \in Positions : q > a => card[T][q] = "none"
        /\ ~stopped
    BY <1>1, <1>2, CreatedCards DEF PersistExpectedPhases, Creating
  <1>4. /\ card[T][a] = "todo" /\ job.pc = "sentinel" /\ a = Chain(T)
        /\ Named(T) /\ Form(T) = "cleanup" /\ Upto(T) = a
    BY <1>1, <1>2, CreatingKnows DEF CreatedSoFar, MarkedSoFar, PersistExpectedPhases, Creating
  <1>5. /\ UNCHANGED <<kind, card, active, admitted, marker, stopped>>
        /\ CreationFrame
    BY DEF PersistExpectedPhases, tickVars, CreationFrame
  <1>6. MarkersFit'
    BY <1>3, <1>5, MarkersKept
  <1>7. /\ PlaceOf(T)' = PlaceOf(T) /\ Chain(T)' = Chain(T)
        /\ Named(T)' /\ Form(T)' = "cleanup" /\ Upto(T)' = a
    BY <1>4, <1>5, SamePlace DEF Named, Form, Upto
  <1>8. Barrier(T)' # "done" /\ \A p \in 1..NPhases : ~Claimed(T, p)'
    BY <1>3, <1>5 DEF Barrier, Claimed
  <1>9. CASE expected' = [expected EXCEPT ![job.place] = kind[job.tick]] /\ Goto("commit")
    <2>1. /\ expected'[PlaceOf(T)] = kind[T] /\ kind[T] # "none"
          /\ \A q \in Places : q # PlaceOf(T) => expected'[q] = expected[q]
      BY <1>1, <1>3, <1>9 DEF PTInv, TypeOK, RegTypeOK, Chained
    <2>2. \A t \in Ticks : SameBoard(t)
      BY <1>5, <2>1, ChainsAndPlaces DEF SameBoard
    <2>3. BoardFits(T)'
      BY <1>3, <1>5, <2>2, SameBoardKeeps
    <2>4. /\ job'.mode = "create" /\ job'.pc = "commit" /\ job'.place = job.place
          /\ job'.tick = T /\ job'.at = a
      BY <1>1, <1>2, <1>3, <1>9, JobFields
    <2>5. CreatedSoFar(T)' /\ MarkedSoFar(T)'
      BY <1>3, <1>4, <1>5, <1>7, <2>1, <2>4 DEF CreatedSoFar, MarkedSoFar
    <2>6. JobFits'
      BY <1>1, <1>3, <1>5, <1>8, <2>4, <2>5, CreationGoesOn DEF Creating, Undoing
    <2> QED BY <1>1, <1>6, <2>2, <2>3, <2>6, JobKeepsAll
  <1>10. CASE GotoAt("undo", Chain(job.tick)) /\ UNCHANGED expected
    <2>1. \A t \in Ticks : SameBoard(t)
      BY <1>5, <1>10 DEF SameBoard
    <2>2. BoardFits(T)'
      BY <1>3, <1>5, <2>1, SameBoardKeeps
    <2>3. /\ job'.mode = "create" /\ job'.pc = "undo" /\ job'.place = job.place
          /\ job'.tick = T /\ job'.at = a
      BY <1>1, <1>3, <1>4, <1>10, JobFields
    <2>4. /\ \A q \in Positions : q > a => card'[T][q] = "none"
          /\ \A q \in Positions : card'[T][q] # "late"
      BY <1>3, <1>4, <1>5
    <2>5. JobFits'
      BY <1>1, <1>2, <1>3, <1>5, <1>7, <1>8, <2>3, <2>4, GivingUpFits
    <2> QED BY <1>1, <1>6, <2>1, <2>2, <2>5, JobKeepsAll
  <1> QED BY <1>9, <1>10 DEF PersistExpectedPhases

\* The commit is decided.
LEMMA PersistCommitKeeps ==
  ASSUME PTInv, PersistCommit, UNCHANGED tickVars
  PROVE  JobKeeps
  <1>1. PICK T \in Ticks : T = job.tick
    BY MarkerIsTheJobs DEF PersistCommit, Creating
  <1>2. PICK a \in Positions : a = job.at
    BY MarkerIsTheJobs DEF PersistCommit, Creating
  <1>3. /\ job.mode = "create" /\ Chained(T) /\ ~admitted[T] /\ job.place = PlaceOf(T)
        /\ BoardFits(T) /\ Barrier(T) # "done"
        /\ \A p \in 1..NPhases : ~Claimed(T, p)
        /\ a \in Nat /\ Chain(T) \in Positions /\ Chain(T) \in Nat /\ a <= Chain(T)
        /\ Positions \subseteq Nat /\ 0 \in Positions /\ job.place \in Places
        /\ job \in JobType /\ marker \in [Places -> MarkerType] /\ MarkersFit
        /\ \A q \in Positions : q < a => card[T][q] = "todo"
        /\ \A q \in Positions : q > a => card[T][q] = "none"
        /\ ~stopped
    BY <1>1, <1>2, CreatedCards DEF PersistCommit, Creating
  <1>4. /\ card[T][a] = "todo" /\ job.pc = "commit" /\ a = Chain(T)
        /\ Named(T) /\ Form(T) = "cleanup" /\ Upto(T) = a /\ expected[PlaceOf(T)] # "none"
    BY <1>1, <1>2, CreatingKnows DEF CreatedSoFar, MarkedSoFar, PersistCommit, Creating
  <1>5. /\ UNCHANGED <<kind, card, active, admitted, expected, stopped>>
        /\ CreationFrame
    BY DEF PersistCommit, tickVars, CreationFrame
  <1>6. /\ \A q \in Positions : q <= a => card[T][q] = "todo"
        /\ \A q \in Positions : (q <= a /\ card[T][q] = "todo") \/ card[T][q] = "none"
    <2>1. \A q \in Positions : (q <= a /\ (q < a \/ q = a)) \/ (~(q <= a) /\ q > a)
      BY <1>3
    <2> QED BY <1>3, <1>4, <2>1
  <1>7. Barrier(T)' # "done" /\ \A p \in 1..NPhases : ~Claimed(T, p)'
    BY <1>3, <1>5 DEF Barrier, Claimed
  <1>8. CASE Mark("commit", job.tick, Chain(job.tick)) /\ Goto("barrier")
    <2>1. /\ marker'[PlaceOf(T)] = [form |-> "commit", tick |-> T, upto |-> a]
          /\ \A q \in Places : q # job.place => marker'[q] = marker[q]
      BY <1>1, <1>2, <1>3, <1>4, <1>8, MarkTypes
    <2>2. MarkersFit'
      BY <1>3, <1>5, <2>1, MarkersKept
    <2>3. \A t \in Ticks : t # job.tick => SameBoard(t)
      BY <1>1, <1>4, <1>3, <1>5, <2>1, OthersUnmarked DEF Creating
    <2>4. BoardFits(T)'
      <3>1. /\ \A p \in Positions : card[T][p] # "late"
            /\ \A p \in Positions : Standing(T, p) => p <= a
        BY <1>6 DEF Standing, Live
      <3>2. Decided(T)
        <4>1. 1..Chain(T) \subseteq Positions /\ \A q \in 1..Chain(T) : q <= a
          BY <1>4, ChainsAndPlaces, Basics DEF Positions
        <4> QED BY <1>4, <1>6, <4>1 DEF Decided
      <3> QED BY <1>3, <1>5, <2>1, <3>1, <3>2, MarkingKeeps
    <2>5. /\ job'.mode = "create" /\ job'.pc = "barrier" /\ job'.place = job.place
          /\ job'.tick = T /\ job'.at = a
      BY <1>1, <1>2, <1>3, <1>8, JobFields
    <2>6. UndoFits(T)'
      <3>1. PlaceOf(T)' = PlaceOf(T) /\ Chained(T)' /\ Named(T)' /\ Form(T)' = "commit"
        BY <1>3, <1>5, <2>1, SamePlace
      <3> QED BY <1>3, <1>5, <2>5, <3>1 DEF UndoFits
    <2>7. JobFits'
      BY <1>1, <1>3, <1>5, <1>7, <2>5, <2>6, CreationGoesOn DEF Creating, Undoing
    <2> QED BY <1>1, <2>2, <2>3, <2>4, <2>7, JobKeepsAll
  <1>9. CASE GotoAt("undo", Chain(job.tick)) /\ UNCHANGED marker
    <2>1. MarkersFit' /\ \A t \in Ticks : SameBoard(t)
      BY <1>3, <1>5, <1>9, MarkersKept DEF SameBoard
    <2>2. BoardFits(T)'
      BY <1>3, <1>5, <2>1, SameBoardKeeps
    <2>3. /\ job'.mode = "create" /\ job'.pc = "undo" /\ job'.place = job.place
          /\ job'.tick = T /\ job'.at = a
      BY <1>1, <1>3, <1>4, <1>9, JobFields
    <2>4. /\ \A q \in Positions : q > a => card'[T][q] = "none"
          /\ \A q \in Positions : card'[T][q] # "late"
      BY <1>3, <1>5, <1>6
    <2>5. Named(T)' /\ Upto(T)' = a
      BY <1>4, <1>5, <1>9, SamePlace DEF Named, Upto
    <2>6. JobFits'
      BY <1>1, <1>2, <1>3, <1>5, <1>7, <2>3, <2>4, <2>5, GivingUpFits
    <2> QED BY <1>1, <2>1, <2>2, <2>6, JobKeepsAll
  <1> QED BY <1>8, <1>9 DEF PersistCommit

\* A reconciliation or a cancellation goes on.
LEMMA SweepGoesOn ==
  ASSUME PTInv, UNCHANGED tickVars, NEW T \in Ticks, job.mode \in {"reconcile", "cancel"},
         job'.mode = job.mode, job'.place = job.place, job'.target = job.target, job'.tick = T,
         \/ job'.pc \in Undoing /\ UndoFits(T)'
         \/ job.mode = "cancel" /\ job'.pc \in Cancelling /\ CancelFits(T)'
  PROVE  JobFits'
  <1>1. JobFits
    BY DEF PTInv
  <1>2. tick' = tick /\ current' = current /\ stopped' = stopped
    BY DEF tickVars
  <1>3. job'.pc \in Undoing \cup Cancelling /\ job'.pc \notin {"none", "look"}
        /\ (job'.pc \in Undoing => UndoFits(T)')
        /\ (job'.pc \in Cancelling => CancelFits(T)' /\ job.mode = "cancel")
    BY DEF Undoing, Cancelling
  <1>4. job.mode = "reconcile" => job'.pc \in Undoing
    BY <1>3
  <1> QED BY <1>1, <1>2, <1>3, <1>4 DEF JobFits

\* What a job that undoes, or completes a commit, knows.
LEMMA UndoingKnows ==
  ASSUME PTInv, NEW T \in Ticks, job.tick = T, job.pc \in Undoing
  PROVE  /\ Chained(T) /\ ~admitted[T] /\ job.place = PlaceOf(T) /\ job.place \in Places
         /\ BoardFits(T) /\ UndoFits(T) /\ Named(T)
         /\ job.at \in Positions
         /\ job.mode \in {"create", "reconcile", "cancel"}
         /\ job.mode # "create" => job.place = Project /\ ~Unseen(T)
         /\ job.mode = "create" => CreateFits(T) /\ ~stopped
         /\ Upto(T) \in Positions /\ Upto(T) <= Chain(T)
         /\ job \in JobType /\ marker \in [Places -> MarkerType] /\ MarkersFit
         /\ card \in [Ticks -> [Positions -> CardStatus]] /\ Positions \subseteq Nat
         /\ 0 \in Positions /\ Chain(T) \in Positions
  <1>1. /\ job \in JobType /\ marker \in [Places -> MarkerType] /\ MarkersFit
        /\ card \in [Ticks -> [Positions -> CardStatus]]
    BY DEF PTInv, TypeOK, RegTypeOK
  <1>2. UndoFits(T)
    BY MarkerIsTheJobs
  <1> QED BY <1>1, <1>2, MarkerIsTheJobs, ChainsAndPlaces, Basics DEF UndoFits, Unseen

\* The steps that undo or complete go on in the same mode.
LEMMA UndoingGoesOn ==
  ASSUME PTInv, NEW T \in Ticks, job.tick = T, job.pc \in Undoing, CreationFrame,
         job'.mode = job.mode, job'.place = job.place, job'.target = job.target, job'.tick = T,
         job'.pc \in Undoing, UndoFits(T)',
         Barrier(T)' # "done" /\ job.mode = "create" => \A p \in 1..NPhases : ~Claimed(T, p)',
         job'.pc \in {"undo", "archive"} /\ job.mode = "create" => Barrier(T)' # "done"
  PROVE  JobFits'
  <1>1. job.mode \in {"create", "reconcile", "cancel"}
    BY UndoingKnows
  <1>2. CASE job.mode = "create"
    <2>1. job'.pc \notin Creating
      BY DEF Undoing, Creating
    <2> QED BY <1>2, <2>1, CreationGoesOn DEF CreationFrame
  <1>3. CASE job.mode # "create"
    BY <1>1, <1>3, SweepGoesOn DEF CreationFrame
  <1> QED BY <1>2, <1>3

\* The barrier is completed.
LEMMA CompleteBarrierKeeps ==
  ASSUME PTInv, CompleteBarrier, UNCHANGED tickVars
  PROVE  JobKeeps
  <1>1. PICK T \in Ticks : T = job.tick
    BY MarkerIsTheJobs DEF CompleteBarrier, Undoing
  <1>2. job.pc = "barrier" /\ job.pc \in Undoing
    BY DEF CompleteBarrier, Undoing
  <1>3. /\ Chained(T) /\ ~admitted[T] /\ job.place = PlaceOf(T) /\ job.place \in Places
        /\ BoardFits(T) /\ UndoFits(T) /\ Named(T)
        /\ Upto(T) \in Positions /\ 0 \in Positions
        /\ job \in JobType /\ MarkersFit
        /\ card \in [Ticks -> [Positions -> CardStatus]]
    BY <1>1, <1>2, UndoingKnows
  <1>4. Form(T) = "commit" /\ Decided(T)
    BY <1>2, <1>3 DEF UndoFits, BoardFits, CommitsFit
  <1>5. UNCHANGED <<kind, active, admitted, marker, expected, stopped>> /\ CreationFrame
    BY DEF CompleteBarrier, tickVars, CreationFrame
  <1>6. MarkersFit'
    BY <1>3, <1>5, MarkersKept
  <1>7. ASSUME card' = [card EXCEPT ![T][0] = "done"]
        PROVE  /\ BoardFits(T)' /\ \A t \in Ticks : t # T => SameBoard(t)
               /\ Barrier(T)' = "done"
    <2>1. /\ \A t \in Ticks : t # T => card'[t] = card[t]
          /\ \A q \in Positions : card'[T][q] = IF q = 0 THEN "done" ELSE card[T][q]
      BY <1>3, <1>7, SetsOne
    <2>2. CardBecomes(T, 0, "done")
      BY <1>5, <2>1 DEF CardBecomes, OnlyCards
    <2> QED BY <1>3, <1>4, <1>5, <2>1, <2>2, ReleasingKeeps DEF SameBoard, Barrier
  <1>8. CASE Sets(0, "done") /\ Goto("clear")
    <2>1. card' = [card EXCEPT ![T][0] = "done"]
      BY <1>1, <1>8 DEF Sets
    <2>2. /\ job'.mode = job.mode /\ job'.pc = "clear" /\ job'.place = job.place
          /\ job'.tick = T /\ job'.target = job.target
      BY <1>1, <1>3, <1>8, JobFields
    <2>3. UndoFits(T)'
      <3>1. /\ PlaceOf(T)' = PlaceOf(T) /\ Chained(T)' /\ Named(T)' /\ Form(T)' = "commit"
            /\ Barrier(T)' = "done"
        BY <1>3, <1>4, <1>5, <1>7, <2>1, SamePlace DEF Named, Form
      <3> QED BY <1>3, <1>5, <2>2, <3>1 DEF UndoFits
    <2>4. JobFits'
      BY <1>1, <1>2, <1>5, <1>7, <2>1, <2>2, <2>3, UndoingGoesOn DEF Undoing
    <2> QED BY <1>1, <1>6, <1>7, <2>1, <2>4, JobKeepsAll
  <1>9. CASE /\ \E status \in {card[job.tick][0], "done"} : Sets(0, status)
             /\ Ends(FALSE)
    <2>1. JobFits'
      BY <1>3, <1>9, JobFields, EndedFits
    <2>2. CASE card' = [card EXCEPT ![T][0] = "done"]
      BY <1>1, <1>6, <1>7, <2>1, <2>2, JobKeepsAll
    <2>3. CASE card' = [card EXCEPT ![T][0] = card[T][0]]
      <3>1. UNCHANGED card
        BY <1>3, <2>3, SetsNothing
      <3>2. \A t \in Ticks : SameBoard(t)
        BY <1>5, <3>1 DEF SameBoard
      <3>3. BoardFits(T)'
        BY <1>3, <1>5, <3>2, SameBoardKeeps
      <3> QED BY <1>1, <1>6, <2>1, <3>2, <3>3, JobKeepsAll
    <2> QED BY <1>1, <1>9, <2>2, <2>3 DEF Sets
  <1> QED BY <1>8, <1>9 DEF CompleteBarrier

\* The marker of what was completed, or undone, is removed.
LEMMA ClearMarkerKeeps ==
  ASSUME PTInv, ClearMarker, UNCHANGED tickVars
  PROVE  JobKeeps
  <1>1. PICK T \in Ticks : T = job.tick
    BY MarkerIsTheJobs DEF ClearMarker, Undoing
  <1>2. job.pc = "clear" /\ job.pc \in Undoing
    BY DEF ClearMarker, Undoing
  <1>3. /\ Chained(T) /\ ~admitted[T] /\ job.place = PlaceOf(T) /\ job.place \in Places
        /\ BoardFits(T) /\ UndoFits(T) /\ Named(T)
        /\ job.mode \in {"create", "reconcile", "cancel"}
        /\ job.mode # "create" => job.place = Project /\ ~Unseen(T)
        /\ job.mode = "create" => CreateFits(T) /\ ~stopped
        /\ job \in JobType /\ marker \in [Places -> MarkerType] /\ MarkersFit
        /\ 0 \in Positions
    BY <1>1, <1>2, UndoingKnows
  <1>4. UNCHANGED <<kind, card, active, admitted, expected, stopped, current>> /\ CreationFrame
    BY DEF ClearMarker, tickVars, CreationFrame
  <1>5. \/ Form(T) = "cleanup" /\ \A q \in Positions : ~Standing(T, q)
        \/ Form(T) = "commit" /\ Barrier(T) = "done"
    BY <1>2, <1>3 DEF UndoFits
  <1>6. CASE /\ Unmark
             /\ IF job.mode = "create" THEN Ends(marker[job.place].form = "commit") ELSE Resolved
    <2>1. /\ marker'[job.place] = NoMarker
          /\ \A q \in Places : q # job.place => marker'[q] = marker[q]
      BY <1>3, <1>6, MarkTypes
    <2>2. MarkersFit'
      BY <1>3, <1>4, <2>1, MarkersKept
    <2>3. \A t \in Ticks : t # job.tick => SameBoard(t)
      <3>1. marker'[job.place].tick \in {NoTick, job.tick}
        BY <2>1 DEF NoMarker
      <3> QED BY <1>2, <1>4, <2>1, <3>1, OthersUnmarked
    <2>4. BoardFits(T)'
      <3>1. \A p \in Positions : card[T][p] # "late"
        BY <1>3, <1>5 DEF BoardFits, CardsFit
      <3>2. Barrier(T) = "archived" /\ Unseen(T) => \A p \in 1..NPhases : ~Claimed(T, p)
        BY <1>3 DEF CreateFits
      <3>3. Unseen(T) => ~stopped
        BY <1>3
      <3>4. marker'[PlaceOf(T)].tick # T
        BY <1>3, <2>1, Basics DEF NoMarker
      <3> QED BY <1>3, <1>4, <1>5, <3>1, <3>2, <3>3, <3>4, UnmarkingKeeps
    <2>5. CASE job.mode # "cancel"
      <3>1. job'.mode = "none" /\ job'.pc = "none"
        BY <1>3, <1>6, <2>5, JobFields
      <3> QED BY <1>1, <2>2, <2>3, <2>4, <3>1, EndedFits, JobKeepsAll
    <2>6. CASE job.mode = "cancel"
      <3>1. /\ job'.mode = job.mode /\ job'.pc = "stop" /\ job'.place = job.place
            /\ job'.tick = job.target /\ job'.target = job.target
        BY <1>3, <1>6, <2>6, JobFields
      <3>2. job.target = current /\ current \in Ticks
        BY <2>6 DEF PTInv, JobFits, TypeOK
      <3>3. PICK C \in Ticks : C = current
        BY <3>2
      <3>4. CancelFits(C)'
        BY <1>3, <1>4, <2>1, <2>6, <3>1, <3>3 DEF CancelFits, NoMarker
      <3>5. JobFits'
        BY <1>3, <2>6, <3>1, <3>2, <3>3, <3>4, SweepGoesOn DEF Cancelling
      <3> QED BY <1>1, <2>2, <2>3, <2>4, <3>5, JobKeepsAll
    <2> QED BY <2>5, <2>6
  <1>7. CASE Ends(FALSE) /\ UNCHANGED marker
    <2>1. MarkersFit' /\ \A t \in Ticks : SameBoard(t)
      BY <1>3, <1>4, <1>7, MarkersKept DEF SameBoard
    <2>2. BoardFits(T)'
      BY <1>3, <1>4, <2>1, SameBoardKeeps
    <2>3. JobFits'
      BY <1>3, <1>7, JobFields, EndedFits
    <2> QED BY <1>1, <2>1, <2>2, <2>3, JobKeepsAll
  <1> QED BY <1>6, <1>7 DEF ClearMarker

\* The cleanup is written down before anything is archived.
LEMMA PersistCleanupKeeps ==
  ASSUME PTInv, PersistCleanup, UNCHANGED tickVars
  PROVE  JobKeeps
  <1>1. PICK T \in Ticks : T = job.tick
    BY MarkerIsTheJobs DEF PersistCleanup, Undoing
  <1>2. job.pc = "undo" /\ job.pc \in Undoing
    BY DEF PersistCleanup, Undoing
  <1>3. /\ Chained(T) /\ ~admitted[T] /\ job.place = PlaceOf(T) /\ job.place \in Places
        /\ BoardFits(T) /\ UndoFits(T) /\ Named(T) /\ job.at \in Positions
        /\ job.mode = "create" => CreateFits(T) /\ ~stopped
        /\ Upto(T) \in Positions /\ Upto(T) <= Chain(T) /\ Chain(T) \in Positions
        /\ job \in JobType /\ marker \in [Places -> MarkerType] /\ MarkersFit
        /\ Positions \subseteq Nat
    BY <1>1, <1>2, UndoingKnows
  <1>4. PICK a \in Positions : a = job.at
    BY <1>3
  <1>5. UNCHANGED <<kind, card, active, admitted, expected, stopped>> /\ CreationFrame
    BY DEF PersistCleanup, tickVars, CreationFrame
  <1>6. /\ a <= Upto(T) /\ a <= Chain(T)
        /\ \A q \in Positions : q > a => ~Standing(T, q)
        /\ \A q \in Positions : card[T][q] # "late"
    BY <1>2, <1>3, <1>4 DEF UndoFits
  <1>7. CASE Mark("cleanup", job.tick, job.at) /\ Goto("archive")
    <2>1. /\ marker'[PlaceOf(T)] = [form |-> "cleanup", tick |-> T, upto |-> a]
          /\ \A q \in Places : q # job.place => marker'[q] = marker[q]
      BY <1>1, <1>3, <1>4, <1>7, MarkTypes
    <2>2. MarkersFit'
      BY <1>3, <1>5, <1>6, <2>1, MarkersKept
    <2>3. \A t \in Ticks : t # job.tick => SameBoard(t)
      BY <1>1, <1>2, <1>3, <1>5, <2>1, OthersUnmarked
    <2>4. BoardFits(T)'
      <3>1. \A p \in Positions : Standing(T, p) => p <= a
        BY <1>3, <1>6
      <3> QED BY <1>3, <1>5, <1>6, <2>1, <3>1, MarkingKeeps
    <2>5. /\ job'.mode = job.mode /\ job'.pc = "archive" /\ job'.place = job.place
          /\ job'.tick = T /\ job'.at = a /\ job'.target = job.target
      BY <1>1, <1>3, <1>4, <1>7, JobFields
    <2>6. UndoFits(T)'
      <3>1. /\ PlaceOf(T)' = PlaceOf(T) /\ Chained(T)' /\ Named(T)' /\ Form(T)' = "cleanup"
            /\ Upto(T)' = a /\ a <= a
        BY <1>3, <1>5, <2>1, SamePlace
      <3>2. \A q \in Positions : q > a => ~Standing(T, q)'
        BY <1>5, <1>6 DEF Standing
      <3> QED BY <1>3, <1>5, <2>5, <3>1, <3>2 DEF UndoFits
    <2>7. job.mode = "create" => Barrier(T)' # "done" /\ \A p \in 1..NPhases : ~Claimed(T, p)'
      BY <1>2, <1>3, <1>5 DEF CreateFits, Barrier, Claimed
    <2>8. JobFits'
      BY <1>1, <1>2, <1>5, <2>5, <2>6, <2>7, UndoingGoesOn DEF Undoing
    <2> QED BY <1>1, <2>2, <2>3, <2>4, <2>8, JobKeepsAll
  <1>8. CASE Ends(FALSE) /\ UNCHANGED marker
    <2>1. MarkersFit' /\ \A t \in Ticks : SameBoard(t)
      BY <1>3, <1>5, <1>8, MarkersKept DEF SameBoard
    <2>2. BoardFits(T)'
      BY <1>3, <1>5, <2>1, SameBoardKeeps
    <2>3. JobFits'
      BY <1>3, <1>8, JobFields, EndedFits
    <2> QED BY <1>1, <2>1, <2>2, <2>3, JobKeepsAll
  <1> QED BY <1>7, <1>8 DEF PersistCleanup

\* A card is archived, after its children.
LEMMA ArchiveCardKeeps ==
  ASSUME PTInv, ArchiveCard, UNCHANGED tickVars
  PROVE  JobKeeps
  <1>1. PICK T \in Ticks : T = job.tick
    BY MarkerIsTheJobs DEF ArchiveCard, Undoing
  <1>2. job.pc = "archive" /\ job.pc \in Undoing
    BY DEF ArchiveCard, Undoing
  <1>3. /\ Chained(T) /\ ~admitted[T] /\ job.place = PlaceOf(T) /\ job.place \in Places
        /\ BoardFits(T) /\ UndoFits(T) /\ Named(T) /\ job.at \in Positions
        /\ job.mode = "create" => CreateFits(T) /\ ~stopped
        /\ Upto(T) \in Positions /\ Upto(T) <= Chain(T) /\ Chain(T) \in Positions
        /\ job \in JobType /\ marker \in [Places -> MarkerType] /\ MarkersFit
        /\ card \in [Ticks -> [Positions -> CardStatus]]
        /\ Positions \subseteq Nat /\ 0 \in Positions
    BY <1>1, <1>2, UndoingKnows
  <1>4. PICK a \in Positions : a = job.at
    BY <1>3
  <1>5. UNCHANGED <<kind, active, admitted, marker, expected, stopped>> /\ CreationFrame
    BY DEF ArchiveCard, tickVars, CreationFrame
  <1>6. /\ a <= Upto(T) /\ a <= Chain(T)
        /\ \A q \in Positions : q > a => ~Standing(T, q)
        /\ Form(T) = "cleanup"
    BY <1>2, <1>3, <1>4 DEF UndoFits
  <1>7. MarkersFit'
    BY <1>3, <1>5, MarkersKept
  <1>8. ASSUME card' = [card EXCEPT ![T][a] = "archived"]
        PROVE  /\ BoardFits(T)' /\ \A t \in Ticks : t # T => SameBoard(t)
               /\ \A q \in Positions : card'[T][q] = IF q = a THEN "archived" ELSE card[T][q]
    <2>1. /\ \A t \in Ticks : t # T => card'[t] = card[t]
          /\ \A q \in Positions : card'[T][q] = IF q = a THEN "archived" ELSE card[T][q]
      BY <1>3, <1>8, SetsOne
    <2>2. CardBecomes(T, a, "archived")
      BY <1>5, <2>1 DEF CardBecomes, OnlyCards
    <2> QED BY <1>3, <1>5, <1>6, <2>1, <2>2, ArchivingKeeps DEF SameBoard
  <1>9. CASE ArchiveNext
    <2>1. card' = [card EXCEPT ![T][a] = "archived"]
      BY <1>1, <1>4, <1>9 DEF ArchiveNext, Sets
    <2>2. \A q \in Positions : card'[T][q] = IF q = a THEN "archived" ELSE card[T][q]
      BY <1>8, <2>1
    <2>3. /\ job'.mode = job.mode /\ job'.place = job.place
          /\ job'.tick = T /\ job'.target = job.target
          /\ IF a = 0 THEN job'.pc = "clear" ELSE job'.pc = "archive" /\ job'.at = a - 1
      BY <1>1, <1>3, <1>4, <1>9, JobFields DEF ArchiveNext
    <2>4. \A q \in Positions : ~(q < a) => ~Standing(T, q)'
      <3>1. \A q \in Positions : ~(q < a) => q = a \/ q > a
        BY <1>3
      <3>2. ~Standing(T, a)'
        BY <2>2 DEF Standing, Live
      <3>3. \A q \in Positions : q > a => ~Standing(T, q)'
        BY <1>3, <1>6, <2>2 DEF Standing
      <3> QED BY <3>1, <3>2, <3>3
    <2>5. /\ PlaceOf(T)' = PlaceOf(T) /\ Chained(T)' /\ Named(T)' /\ Form(T)' = "cleanup"
          /\ Upto(T)' = Upto(T) /\ ~admitted'[T]
      BY <1>3, <1>5, <1>6, SamePlace DEF Named, Form, Upto
    <2>6. UndoFits(T)'
      <3>1. CASE a = 0
        <4>1. \A q \in Positions : ~Standing(T, q)'
          BY <1>3, <2>4, <3>1
        <4>2. job'.place = PlaceOf(T)' /\ job'.pc = "clear"
          BY <1>3, <2>3, <2>5, <3>1
        <4> QED BY <2>5, <4>1, <4>2 DEF UndoFits
      <3>2. CASE a # 0
        <4>0. a \in Nat /\ Upto(T) \in Nat /\ a <= Upto(T) /\ Positions \subseteq Nat
          BY <1>3, <1>6
        <4>1. a - 1 <= Upto(T) /\ \A q \in Positions : q > a - 1 => ~(q < a)
          BY <3>2, <4>0
        <4>2. \A q \in Positions : q > a - 1 => ~Standing(T, q)'
          BY <2>4, <4>1
        <4> QED BY <1>3, <2>3, <2>5, <3>2, <4>1, <4>2 DEF UndoFits
      <3> QED BY <3>1, <3>2
    <2>7. job.mode = "create" => Barrier(T)' # "done" /\ \A p \in 1..NPhases : ~Claimed(T, p)'
      <3>1. ASSUME job.mode = "create"
            PROVE  Barrier(T) # "done" /\ \A p \in 1..NPhases : ~Claimed(T, p)
        BY <1>2, <1>3, <3>1 DEF CreateFits
      <3>2. Barrier(T)' = "done" => Barrier(T) = "done"
        BY <1>3, <2>2 DEF Barrier
      <3>3. \A p \in 1..NPhases : Claimed(T, p)' => Claimed(T, p)
        BY <1>5, <2>2, Basics DEF Claimed
      <3> QED BY <3>1, <3>2, <3>3
    <2>8. job'.pc \in Undoing
      BY <2>3 DEF Undoing
    <2>9. JobFits'
      BY <1>1, <1>2, <1>5, <2>3, <2>6, <2>7, <2>8, UndoingGoesOn
    <2> QED BY <1>1, <1>7, <1>8, <2>1, <2>9, JobKeepsAll
  <1>10. CASE /\ \E status \in {card[job.tick][job.at], "archived"} : Sets(job.at, status)
              /\ Ends(FALSE)
    <2>1. JobFits'
      BY <1>3, <1>10, JobFields, EndedFits
    <2>2. CASE card' = [card EXCEPT ![T][a] = "archived"]
      BY <1>1, <1>7, <1>8, <2>1, <2>2, JobKeepsAll
    <2>3. CASE card' = [card EXCEPT ![T][a] = card[T][a]]
      <3>1. UNCHANGED card
        BY <1>3, <2>3, SetsNothing
      <3>2. \A t \in Ticks : SameBoard(t)
        BY <1>5, <3>1 DEF SameBoard
      <3>3. BoardFits(T)'
        BY <1>3, <1>5, <3>2, SameBoardKeeps
      <3> QED BY <1>1, <1>7, <2>1, <3>2, <3>3, JobKeepsAll
    <2> QED BY <1>1, <1>4, <1>10, <2>2, <2>3 DEF Sets
  <1> QED BY <1>9, <1>10 DEF ArchiveCard

\* A step that changes neither a board nor a marker.
LEMMA NothingMoves ==
  ASSUME MarkersFit, \A t \in Ticks : BoardFits(t),
         UNCHANGED <<kind, card, active, admitted, marker, expected>>, stopped => stopped'
  PROVE  /\ MarkersFit'
         /\ \A t \in Ticks : SameBoard(t) /\ BoardFits(t)'
  <1>1. \A t \in Ticks : SameBoard(t)
    BY DEF SameBoard
  <1>2. MarkersFit'
    BY Basics, MarkersKept
  <1> QED BY <1>1, <1>2, SameBoardKeeps

\* What a look at the project's marker finds.
LEMMA LookingKnows ==
  ASSUME PTInv, job.pc = "look"
  PROVE  /\ job.mode \in {"reconcile", "cancel"} /\ job.place = Project
         /\ job.mode = "cancel" => job.target = current /\ current \in Ticks
         /\ marker[Project].form = "none" => marker[Project].tick = NoTick
         /\ marker[Project].form # "none" =>
              \E T \in Ticks :
                /\ T = marker[Project].tick /\ Chained(T) /\ ~admitted[T] /\ PlaceOf(T) = Project
                /\ Named(T) /\ Upto(T) \in Positions /\ Upto(T) <= Chain(T)
                /\ Form(T) = marker[Project].form /\ Upto(T) = marker[Project].upto
                /\ CardsFit(T)
                /\ \A q \in Positions : q > Upto(T) => ~Standing(T, q)
  <1>1. /\ TypeOK /\ RegTypeOK /\ MarkersFit /\ JobFits /\ job \in JobType
        /\ marker[Project] \in MarkerType
    BY Basics DEF PTInv, TypeOK, RegTypeOK
  <1>2. job.mode \in {"reconcile", "cancel"} /\ job.place = Project
    <2>1. job.mode \notin {"none", "create"}
      BY <1>1 DEF JobFits, CreateFits, Creating, Undoing
    <2> QED BY <1>1, <2>1 DEF JobFits, JobType
  <1>3. job.mode = "cancel" => job.target = current /\ current \in Ticks
    BY <1>1 DEF JobFits, TypeOK
  <1>4. marker[Project].form = "none" <=> marker[Project].tick = NoTick
    BY <1>1, Basics DEF MarkersFit
  <1>5. ASSUME marker[Project].form # "none"
        PROVE  \E T \in Ticks :
                 /\ T = marker[Project].tick /\ Chained(T) /\ ~admitted[T] /\ PlaceOf(T) = Project
                 /\ Named(T) /\ Upto(T) \in Positions /\ Upto(T) <= Chain(T)
                 /\ Form(T) = marker[Project].form /\ Upto(T) = marker[Project].upto
                 /\ CardsFit(T)
                 /\ \A q \in Positions : q > Upto(T) => ~Standing(T, q)
    <2>1. PICK T \in Ticks : T = marker[Project].tick
      BY <1>1, <1>4, <1>5 DEF MarkerType
    <2>2. Chained(T) /\ PlaceOf(T) = Project /\ Upto(T) <= Chain(T) /\ Named(T)
          /\ Form(T) = marker[Project].form /\ Upto(T) = marker[Project].upto
      BY <1>1, <2>1, Basics DEF MarkersFit, Named, Form, Upto
    <2>3. CardsFit(T) /\ OrphansFit(T)
      BY DEF PTInv, BoardFits
    <2>4. ~admitted[T]
      BY <2>2, <2>3, ChainsAndPlaces DEF CardsFit
    <2>5. Upto(T) \in Positions
      BY <1>1, <2>2 DEF MarkerType
    <2>6. \A q \in Positions : Standing(T, q) => q <= Upto(T)
      BY <2>2, <2>3, <2>4 DEF OrphansFit
    <2>7. \A q \in Positions : q > Upto(T) => ~(q <= Upto(T))
      <3>1. Upto(T) \in Nat /\ Positions \subseteq Nat
        BY <2>5, Basics
      <3> QED BY <3>1
    <2> QED BY <2>1, <2>2, <2>3, <2>4, <2>5, <2>6, <2>7
  <1> QED BY <1>2, <1>3, <1>4, <1>5

\* The project's marker is looked at.
LEMMA ReconcileKeeps ==
  ASSUME PTInv, Reconcile, UNCHANGED tickVars
  PROVE  JobKeeps
  <1>1. job.pc = "look" /\ UNCHANGED <<kind, card, active, admitted, marker, expected, stopped, current>>
    BY DEF Reconcile, tickVars
  <1>2. job \in JobType
    BY DEF PTInv, TypeOK, RegTypeOK
  <1>3. MarkersFit' /\ \A t \in Ticks : SameBoard(t) /\ BoardFits(t)'
    BY <1>1, NothingMoves DEF PTInv
  <1>4. SUFFICES JobFits'
    BY <1>3 DEF JobKeeps
  <1>5. ASSUME Ends(FALSE) PROVE JobFits'
    BY <1>2, <1>5, JobFields, EndedFits
  <1>6. CASE LookAtNothing
    <2>1. marker'[Project].tick = NoTick /\ job.mode \in {"reconcile", "cancel"}
      BY <1>1, <1>6, LookingKnows DEF LookAtNothing
    <2>2. CASE job.mode = "reconcile"
      <3>1. job'.mode = "none" /\ job'.pc = "none"
        BY <1>2, <1>6, <2>2, JobFields DEF LookAtNothing
      <3> QED BY <3>1, EndedFits
    <2>3. CASE job.mode = "cancel"
      <3>1. PICK C \in Ticks : C = current /\ job.target = C
        BY <1>1, <2>3, LookingKnows
      <3>2. /\ job'.mode = job.mode /\ job'.pc = "stop" /\ job'.place = job.place
            /\ job'.tick = C /\ job'.target = job.target
        BY <1>2, <1>6, <2>3, <3>1, JobFields DEF LookAtNothing
      <3>3. CancelFits(C)'
        BY <1>1, <2>1, <3>1, <3>2 DEF CancelFits
      <3> QED BY <2>3, <3>2, <3>3, SweepGoesOn DEF Cancelling
    <2> QED BY <2>1, <2>2, <2>3
  <1>7. CASE LookAtCommit \/ LookAtCleanup \/ LookAtCreate
    <2>1. marker[Project].form \in {"commit", "cleanup", "create"}
      BY <1>7 DEF LookAtCommit, LookAtCleanup, LookAtCreate
    <2>2. PICK T \in Ticks :
            /\ T = marker[Project].tick /\ Chained(T) /\ ~admitted[T] /\ PlaceOf(T) = Project
            /\ Named(T) /\ Upto(T) \in Positions /\ Upto(T) <= Chain(T)
            /\ Form(T) = marker[Project].form /\ Upto(T) = marker[Project].upto
            /\ CardsFit(T)
            /\ \A q \in Positions : q > Upto(T) => ~Standing(T, q)
      BY <1>1, <2>1, LookingKnows
    <2>3. /\ PlaceOf(T)' = PlaceOf(T) /\ Chained(T)' /\ Named(T)' /\ Form(T)' = Form(T)
          /\ Upto(T)' = Upto(T) /\ ~admitted'[T] /\ Barrier(T)' = Barrier(T)
          /\ \A q \in Positions : Standing(T, q)' <=> Standing(T, q)
      BY <1>1, <2>2, SamePlace DEF Named, Form, Upto, Barrier, Standing
    <2>4. job.mode \in {"reconcile", "cancel"} /\ job.place = Project
      BY <1>1, LookingKnows
    <2>5. \A q \in Positions : card[T][q] = "late" => Form(T) = "create" /\ q = Upto(T)
      BY <2>2 DEF CardsFit
    <2>6. ASSUME job'.mode = job.mode, job'.place = job.place, job'.target = job.target,
                 job'.tick = T, job'.pc \in Undoing, UndoFits(T)'
          PROVE  JobFits'
      BY <2>4, <2>6, SweepGoesOn
    <2>7. Upto(T)' <= Upto(T)' /\ \A q \in Positions : q > Upto(T)' => ~Standing(T, q)'
      <3>1. Upto(T)' \in Nat /\ Upto(T)' = Upto(T)
        BY <2>2, <2>3, Basics
      <3> QED BY <2>2, <2>3, <3>1
    <2>8. ASSUME job' = [job EXCEPT !.pc = "undo", !.tick = T, !.at = Upto(T)],
                 \A q \in Positions : card[T][q] # "late"
          PROVE  JobFits'
      <3>1. /\ job'.mode = job.mode /\ job'.pc = "undo" /\ job'.place = job.place
            /\ job'.tick = T /\ job'.target = job.target /\ job'.at = Upto(T)
        BY <1>2, <2>8 DEF JobType
      <3>2. UndoFits(T)'
        BY <1>1, <2>2, <2>3, <2>4, <2>7, <2>8, <3>1 DEF UndoFits
      <3> QED BY <2>6, <3>1, <3>2 DEF Undoing
    <2>9. CASE LookAtCommit
      <3>1. Form(T) = "commit"
        BY <2>2, <2>9 DEF LookAtCommit
      <3>2. CASE job.mode = "cancel" \/ Barrier(T) = "archived"
        <4>1. job' = [job EXCEPT !.pc = "undo", !.tick = T, !.at = Upto(T)]
          BY <2>2, <2>9, <3>2 DEF LookAtCommit
        <4> QED BY <2>5, <2>8, <3>1, <4>1
      <3>3. CASE ~(job.mode = "cancel" \/ Barrier(T) = "archived")
        <4>1. job' = [job EXCEPT !.pc = IF Barrier(T) = "done" THEN "clear" ELSE "barrier", !.tick = T]
          BY <2>2, <2>9, <3>3 DEF LookAtCommit
        <4>2. /\ job'.mode = job.mode /\ job'.place = job.place
              /\ job'.tick = T /\ job'.target = job.target
              /\ job'.pc = IF Barrier(T) = "done" THEN "clear" ELSE "barrier"
          BY <1>2, <4>1 DEF JobType
        <4>3. UndoFits(T)'
          BY <2>2, <2>3, <2>4, <3>1, <4>2 DEF UndoFits
        <4> QED BY <2>6, <4>2, <4>3 DEF Undoing
      <3> QED BY <3>2, <3>3
    <2>10. CASE LookAtCleanup
      <3>1. Form(T) = "cleanup" /\ job' = [job EXCEPT !.pc = "archive", !.tick = T, !.at = Upto(T)]
        BY <2>2, <2>10 DEF LookAtCleanup
      <3>2. /\ job'.mode = job.mode /\ job'.pc = "archive" /\ job'.place = job.place
            /\ job'.tick = T /\ job'.target = job.target /\ job'.at = Upto(T)
        BY <1>2, <3>1 DEF JobType
      <3>3. UndoFits(T)'
        BY <2>2, <2>3, <2>4, <2>7, <3>1, <3>2 DEF UndoFits
      <3> QED BY <2>6, <3>2, <3>3 DEF Undoing
    <2>11. CASE LookAtCreate
      <3>1. CASE card[T][Upto(T)] \in Live
        <4>1. job' = [job EXCEPT !.pc = "undo", !.tick = T, !.at = Upto(T)]
          BY <2>2, <2>11, <3>1 DEF LookAtCreate
        <4>2. \A q \in Positions : card[T][q] # "late"
          BY <2>5, <3>1 DEF Live
        <4> QED BY <2>8, <4>1, <4>2
      <3>2. CASE card[T][Upto(T)] \notin Live
        BY <1>5, <2>2, <2>11, <3>2 DEF LookAtCreate
      <3> QED BY <3>1, <3>2
    <2> QED BY <1>7, <2>9, <2>10, <2>11
  <1> QED BY <1>5, <1>6, <1>7 DEF Reconcile

\* What a cancellation at work knows.
LEMMA CancellingKnows ==
  ASSUME PTInv, job.pc \in Cancelling
  PROVE  /\ job.mode = "cancel" /\ stopped /\ job.tick \in Ticks /\ job.at \in Positions
         /\ job \in JobType /\ CancelFits(job.tick) /\ MarkersFit /\ BoardFits(job.tick)
         /\ card \in [Ticks -> [Positions -> CardStatus]]
         /\ \A q \in Positions : card[job.tick][q] \notin {"none"} => Chained(job.tick)
  <1>1. /\ TypeOK /\ RegTypeOK /\ MarkersFit /\ JobFits /\ job \in JobType
        /\ card \in [Ticks -> [Positions -> CardStatus]]
    BY DEF PTInv, TypeOK, RegTypeOK
  <1>2. job.tick \in Ticks /\ CancelFits(job.tick)
    BY <1>1 DEF JobFits, Cancelling
  <1>3. job.mode = "cancel"
    BY <1>1 DEF JobFits, CreateFits, Creating, Undoing, Cancelling, JobType
  <1>4. stopped /\ job.at \in Positions
    BY <1>1, <1>3 DEF JobFits, JobType
  <1>5. BoardFits(job.tick)
    BY <1>2 DEF PTInv
  <1>6. \A q \in Positions : card[job.tick][q] \notin {"none"} => Chained(job.tick)
    BY <1>5 DEF BoardFits, CardsFit, Blank
  <1> QED BY <1>1, <1>2, <1>3, <1>4, <1>5, <1>6

\* What runs is reclaimed.
LEMMA ReclaimRunningKeeps ==
  ASSUME PTInv, ReclaimRunning, UNCHANGED tickVars
  PROVE  JobKeeps
  <1>1. job.pc \in Cancelling
    BY DEF ReclaimRunning, Cancelling
  <1>2. PICK T \in Ticks : T = job.tick
    BY <1>1, CancellingKnows
  <1>3. /\ job.mode = "cancel" /\ job \in JobType /\ CancelFits(T) /\ MarkersFit /\ BoardFits(T)
    BY <1>1, <1>2, CancellingKnows
  <1>4. UNCHANGED <<kind, admitted, marker, expected, stopped, current>>
    BY DEF ReclaimRunning, tickVars
  <1>5. CASE Reclaims(T) /\ GotoAt("retire", NPhases)
    <2>1. /\ \A t \in Ticks : t # T => card'[t] = card[t] /\ active'[t] = active[t]
          /\ \A p \in Positions :
               /\ card'[T][p] = IF card[T][p] = "running" THEN "todo" ELSE card[T][p]
               /\ active'[T][p] <=> active[T][p] /\ card[T][p] # "running"
      BY <1>5, ReclaimEffect DEF PTInv, TypeOK
    <2>2. \A t \in Ticks : t # T => SameBoard(t)
      BY <1>4, <2>1 DEF SameBoard
    <2>3. OnlyCards(T) /\ TypeOK
      BY <1>4 DEF OnlyCards, PTInv
    <2>4. BoardFits(T)'
      BY <1>3, <2>1, <2>3, ReclaimingKeeps
    <2>5. MarkersFit'
      BY <1>3, <1>4, Basics, MarkersKept
    <2>6. /\ job'.mode = job.mode /\ job'.pc = "retire" /\ job'.place = job.place
          /\ job'.tick = T /\ job'.at = NPhases /\ job'.target = job.target
      BY <1>2, <1>3, <1>5, JobFields
    <2>7. \A q \in Positions : ~(q > NPhases)
      BY Basics DEF Positions
    <2>8. CancelFits(T)'
      BY <1>3, <1>4, <2>6, <2>7 DEF CancelFits
    <2>9. JobFits'
      BY <1>3, <2>6, <2>8, SweepGoesOn DEF Cancelling
    <2> QED BY <1>2, <2>2, <2>4, <2>5, <2>9, JobKeepsAll
  <1>6. CASE Ends(FALSE) /\ UNCHANGED <<card, active>>
    <2>1. MarkersFit' /\ \A t \in Ticks : SameBoard(t) /\ BoardFits(t)'
      BY <1>4, <1>6, NothingMoves DEF PTInv
    <2>2. JobFits'
      BY <1>3, <1>6, JobFields, EndedFits
    <2> QED BY <2>1, <2>2 DEF JobKeeps
  <1> QED BY <1>2, <1>5, <1>6 DEF ReclaimRunning, Reclaims

\* A card of the cancelled tick is archived, if it is on the board.
LEMMA RetireCardKeeps ==
  ASSUME PTInv, RetireCard, UNCHANGED tickVars
  PROVE  JobKeeps
  <1>1. job.pc \in Cancelling /\ job.pc = "retire"
    BY DEF RetireCard, Cancelling
  <1>2. PICK T \in Ticks : T = job.tick
    BY <1>1, CancellingKnows
  <1>3. PICK a \in Positions : a = job.at
    BY <1>1, CancellingKnows
  <1>4. /\ job.mode = "cancel" /\ job \in JobType /\ CancelFits(T) /\ MarkersFit /\ BoardFits(T)
        /\ card \in [Ticks -> [Positions -> CardStatus]] /\ stopped
        /\ \A q \in Positions : card[T][q] \notin {"none"} => Chained(T)
    BY <1>1, <1>2, CancellingKnows
  <1>5. UNCHANGED <<kind, active, admitted, marker, expected, stopped, current>>
    BY DEF RetireCard, tickVars
  <1>6. MarkersFit'
    BY <1>4, <1>5, Basics, MarkersKept
  <1>7. Named(T)' <=> Named(T)
    BY <1>5, SamePlace DEF Named
  <1>8. \A q \in Positions : q > a /\ Standing(T, q) => Named(T) \/ admitted[T]
    BY <1>1, <1>3, <1>4 DEF CancelFits
  <1>9. ASSUME UNCHANGED card
        PROVE  \A t \in Ticks : SameBoard(t) /\ BoardFits(t)'
    BY <1>5, <1>9, NothingMoves DEF PTInv
  <1>10. CASE /\ IF job.at \in OnBoard(job.tick) THEN Sets(job.at, "archived") ELSE UNCHANGED card
              /\ IF job.at = 0 THEN Goto("confirm") ELSE GotoAt("retire", job.at - 1)
    <2>1. /\ BoardFits(T)' /\ \A t \in Ticks : t # T => SameBoard(t)
          /\ \A q \in Positions : ~(q < a) /\ Standing(T, q)' => Named(T) \/ admitted[T]
      <3>1. CASE a \in OnBoard(T)
        <4>1. card' = [card EXCEPT ![T][a] = "archived"]
          BY <1>2, <1>3, <1>10, <3>1 DEF Sets
        <4>2. /\ \A t \in Ticks : t # T => card'[t] = card[t]
              /\ \A q \in Positions : card'[T][q] = IF q = a THEN "archived" ELSE card[T][q]
          BY <1>4, <4>1, SetsOne
        <4>3. CardBecomes(T, a, "archived")
          BY <1>5, <4>2 DEF CardBecomes, OnlyCards
        <4>4. card[T][a] # "none" /\ Chained(T)
          BY <1>4, <3>1 DEF OnBoard, Live
        <4>5. Named(T) => Unseen(T)
          BY <1>4, Basics DEF CancelFits, Named, Unseen
        <4>6. BoardFits(T)'
          BY <1>4, <1>8, <4>3, <4>4, <4>5, ArchivingKeeps
        <4>7. \A q \in Positions : ~(q < a) /\ Standing(T, q)' => q > a /\ Standing(T, q)
          <5>1. \A q \in Positions : ~(q < a) => q = a \/ q > a
            BY Basics
          <5>2. ~Standing(T, a)'
            BY <4>2 DEF Standing, Live
          <5>3. \A q \in Positions : q # a /\ Standing(T, q)' => Standing(T, q)
            BY <4>2 DEF Standing
          <5> QED BY <5>1, <5>2, <5>3
        <4> QED BY <1>5, <1>8, <4>2, <4>6, <4>7 DEF SameBoard
      <3>2. CASE a \notin OnBoard(T)
        <4>1. UNCHANGED card
          BY <1>2, <1>3, <1>10, <3>2
        <4>2. Standing(T, a) => Named(T)
          BY <1>4, <3>2 DEF BoardFits, CardsFit, Standing, OnBoard
        <4>3. \A q \in Positions : Standing(T, q)' <=> Standing(T, q)
          BY <4>1 DEF Standing
        <4>4. \A q \in Positions : ~(q < a) => q = a \/ q > a
          BY Basics
        <4> QED BY <1>8, <1>9, <4>1, <4>2, <4>3, <4>4
      <3> QED BY <3>1, <3>2
    <2>2. /\ job'.mode = job.mode /\ job'.place = job.place
          /\ job'.tick = T /\ job'.target = job.target
          /\ IF a = 0 THEN job'.pc = "confirm" ELSE job'.pc = "retire" /\ job'.at = a - 1
      BY <1>2, <1>3, <1>4, <1>10, JobFields
    <2>3. CancelFits(T)'
      <3>1. T = current' /\ marker'[Project].tick = NoTick
        BY <1>4, <1>5 DEF CancelFits
      <3>2. CASE a = 0
        BY <2>2, <3>1, <3>2 DEF CancelFits
      <3>3. CASE a # 0
        <4>1. \A q \in Positions : q > a - 1 => ~(q < a)
          BY <3>3, Basics
        <4>2. \A q \in Positions : q > a - 1 /\ Standing(T, q)' => Named(T)' \/ admitted'[T]
          BY <1>5, <1>7, <2>1, <4>1
        <4> QED BY <2>2, <3>1, <3>3, <4>2 DEF CancelFits
      <3> QED BY <3>2, <3>3
    <2>4. JobFits'
      BY <1>4, <2>2, <2>3, SweepGoesOn DEF Cancelling
    <2> QED BY <1>2, <1>6, <2>1, <2>4, JobKeepsAll
  <1>11. CASE Ends(FALSE) /\ UNCHANGED card
    <2>1. JobFits'
      BY <1>4, <1>11, JobFields, EndedFits
    <2> QED BY <1>6, <1>9, <1>11, <2>1 DEF JobKeeps
  <1> QED BY <1>10, <1>11 DEF RetireCard

\* The cancellation is confirmed, or is not.
LEMMA ConfirmCancelledKeeps ==
  ASSUME PTInv, ConfirmCancelled, UNCHANGED tickVars
  PROVE  JobKeeps
  <1>1. UNCHANGED <<kind, card, active, admitted, marker, expected, stopped>>
    BY DEF ConfirmCancelled, tickVars
  <1>2. MarkersFit' /\ \A t \in Ticks : SameBoard(t) /\ BoardFits(t)'
    BY <1>1, NothingMoves DEF PTInv
  <1>3. Ends(TRUE) \/ Ends(FALSE)
    BY DEF ConfirmCancelled
  <1>4. JobFits'
    BY <1>3, JobFields, EndedFits DEF PTInv, TypeOK, RegTypeOK
  <1> QED BY <1>2, <1>4 DEF JobKeeps

\* Every step of a job keeps the markers, the boards and the job in order.
LEMMA JobStepKeeps ==
  ASSUME PTInv, JobStep, UNCHANGED tickVars
  PROVE  JobKeeps
  BY PersistIntentKeeps, CreateCardKeeps, RepeatCreateKeeps, RecordCreatedKeeps,
     PersistExpectedPhasesKeeps, PersistCommitKeeps, CompleteBarrierKeeps, ClearMarkerKeeps,
     PersistCleanupKeeps, ArchiveCardKeeps, ReconcileKeeps, ReclaimRunningKeeps, RetireCardKeeps,
     ConfirmCancelledKeeps DEF JobStep

\* A step of a job, by what the job is at.
LEMMA JobStepKinds ==
  ASSUME PTInv, JobStep
  PROVE  /\ job.mode \in {"create", "reconcile", "cancel"} /\ job \in JobType
         /\ job.pc \in {"look"} \cup Creating \cup Undoing \cup Cancelling
         /\ job'.mode \in {job.mode, "none"}
         /\ UNCHANGED <<kind, admitted>>
         /\ job.pc # "confirm" => UNCHANGED cancelled
         /\ tick.pc \in {"idle", "marker", "chain"}
         /\ job.mode = "create" => tick.pc = "chain"
         /\ job.mode = "reconcile" => tick.pc = "marker"
         /\ job.mode = "cancel" => tick.pc = "idle"
  <1>1. /\ job \in JobType /\ JobFits /\ TickFits /\ TypeOK
    BY DEF PTInv, TypeOK, RegTypeOK
  <1>2. job.pc \in {"look"} \cup Creating \cup Undoing \cup Cancelling
    BY DEF JobStep, PersistIntent, CreateCard, RepeatCreate, RecordCreated, PersistExpectedPhases,
           PersistCommit, CompleteBarrier, ClearMarker, PersistCleanup, ArchiveCard, Reconcile,
           ReclaimRunning, RetireCard, ConfirmCancelled, Creating, Undoing, Cancelling
  <1>3. job.mode \in {"create", "reconcile", "cancel"}
    BY <1>1, <1>2 DEF JobFits, JobType, Creating, Undoing, Cancelling
  <1>4. UNCHANGED <<kind, admitted>> /\ (job.pc # "confirm" => UNCHANGED cancelled)
    BY DEF JobStep, PersistIntent, CreateCard, RepeatCreate, RecordCreated, PersistExpectedPhases,
           PersistCommit, CompleteBarrier, ClearMarker, PersistCleanup, ArchiveCard, Reconcile,
           ReclaimRunning, RetireCard, ConfirmCancelled
  <1>5. job.mode = "create" => tick.pc = "chain"
    BY <1>1 DEF JobFits, CreateFits
  <1>6. job.mode = "reconcile" => tick.pc = "marker"
    BY <1>1 DEF JobFits
  <1>7. job.mode = "cancel" => tick.pc = "idle"
    BY <1>1 DEF TickFits
  <1>8. tick.pc \in {"idle", "marker", "chain"}
    BY <1>3, <1>5, <1>6, <1>7
  <1>9. job'.mode \in {job.mode, "none"}
    <2>1. /\ \A v : Ends(v) => job'.mode = "none"
          /\ \A pc : Goto(pc) => job'.mode = job.mode
          /\ \A pc, p : GotoAt(pc, p) => job'.mode = job.mode
          /\ Resolved => job'.mode \in {job.mode, "none"}
      BY <1>1, JobFields
    <2>2. \A p : GivesUpBefore(p) => job'.mode \in {job.mode, "none"}
      BY <2>1 DEF GivesUpBefore
    <2>3. LookAtNothing \/ LookAtCommit \/ LookAtCleanup \/ LookAtCreate =>
            job'.mode \in {job.mode, "none"}
      BY <1>1, <2>1 DEF LookAtNothing, LookAtCommit, LookAtCleanup, LookAtCreate, JobType
    <2>4. CASE PersistIntent \/ CreateCard \/ RepeatCreate \/ RecordCreated
      BY <2>1, <2>2, <2>4 DEF PersistIntent, CreateCard, RepeatCreate, RecordCreated
    <2>5. CASE PersistExpectedPhases \/ PersistCommit \/ CompleteBarrier \/ ClearMarker \/ PersistCleanup
      BY <2>1, <2>5 DEF PersistExpectedPhases, PersistCommit, CompleteBarrier, ClearMarker,
                        PersistCleanup
    <2>6. CASE ArchiveCard \/ Reconcile \/ ReclaimRunning \/ RetireCard \/ ConfirmCancelled
      BY <2>1, <2>3, <2>6 DEF ArchiveCard, ArchiveNext, Reconcile, ReclaimRunning, RetireCard,
                              ConfirmCancelled
    <2> QED BY <2>4, <2>5, <2>6 DEF JobStep
  <1> QED BY <1>1, <1>2, <1>3, <1>4, <1>5, <1>6, <1>7, <1>8, <1>9

\* What a look leaves alone.
LEMMA LookingEffect ==
  ASSUME JobStep, job.pc = "look"
  PROVE  UNCHANGED <<kind, card, active, admitted, marker, expected, cancelled>>
  BY DEF JobStep, PersistIntent, CreateCard, RepeatCreate, RecordCreated, PersistExpectedPhases,
         PersistCommit, CompleteBarrier, ClearMarker, PersistCleanup, ArchiveCard, Reconcile,
         ReclaimRunning, RetireCard, ConfirmCancelled

\* What undoing and completing do to the worker cards.
LEMMA UndoingEffect ==
  ASSUME PTInv, JobStep, job.pc \in Undoing
  PROVE  /\ UNCHANGED active
         /\ \A p \in 1..NPhases : card'[job.tick][p] \in {card[job.tick][p], "archived"}
         /\ job.pc \in {"clear", "barrier"} =>
              \A p \in 1..NPhases : card'[job.tick][p] = card[job.tick][p]
  <1>1. PICK T \in Ticks : T = job.tick
    BY MarkerIsTheJobs
  <1>2. PICK a \in Positions : a = job.at
    BY MarkerIsTheJobs
  <1>3. card \in [Ticks -> [Positions -> CardStatus]]
    BY DEF PTInv, TypeOK, RegTypeOK
  <1>4. CompleteBarrier \/ ClearMarker \/ PersistCleanup \/ ArchiveCard
    BY DEF JobStep, PersistIntent, CreateCard, RepeatCreate, RecordCreated, PersistExpectedPhases,
           PersistCommit, Reconcile, ReclaimRunning, RetireCard, ConfirmCancelled, Undoing
  <1>5. UNCHANGED active
    BY <1>4 DEF CompleteBarrier, ClearMarker, PersistCleanup, ArchiveCard
  <1>6. CASE ClearMarker \/ PersistCleanup
    BY <1>5, <1>6 DEF ClearMarker, PersistCleanup
  <1>7. CASE CompleteBarrier
    <2>1. PICK s : card' = [card EXCEPT ![T][0] = s]
      BY <1>1, <1>7 DEF CompleteBarrier, Sets
    <2>2. \A q \in Positions : card'[T][q] = IF q = 0 THEN s ELSE card[T][q]
      BY <1>3, <2>1, Basics, SetsOne
    <2>3. \A q \in 1..NPhases : q \in Positions /\ q # 0
      BY Basics DEF Positions
    <2> QED BY <1>1, <1>5, <2>2, <2>3
  <1>8. CASE ArchiveCard
    <2>1. PICK s \in {card[T][a], "archived"} : card' = [card EXCEPT ![T][a] = s]
      BY <1>1, <1>2, <1>8 DEF ArchiveCard, ArchiveNext, Sets
    <2>2. \A q \in Positions : card'[T][q] = IF q = a THEN s ELSE card[T][q]
      BY <1>3, <2>1, SetsOne
    <2>3. job.pc = "archive"
      BY <1>8 DEF ArchiveCard
    <2> QED BY <1>1, <1>5, <2>2, <2>3, Basics
  <1> QED BY <1>4, <1>6, <1>7, <1>8

\* What a cancellation does to the cards: none comes, and no worker either.
LEMMA CancellingEffect ==
  ASSUME PTInv, JobStep, job.pc \in Cancelling
  PROVE  /\ UNCHANGED marker
         /\ \A p \in Positions : /\ card[job.tick][p] = "none" => card'[job.tick][p] = "none"
                                 /\ active'[job.tick][p] => active[job.tick][p]
  <1>1. PICK T \in Ticks : T = job.tick
    BY CancellingKnows
  <1>2. PICK a \in Positions : a = job.at
    BY CancellingKnows
  <1>3. card \in [Ticks -> [Positions -> CardStatus]]
    BY DEF PTInv, TypeOK, RegTypeOK
  <1>4. ReclaimRunning \/ RetireCard \/ ConfirmCancelled
    BY DEF JobStep, PersistIntent, CreateCard, RepeatCreate, RecordCreated, PersistExpectedPhases,
           PersistCommit, Reconcile, CompleteBarrier, ClearMarker, PersistCleanup, ArchiveCard,
           Cancelling
  <1>5. UNCHANGED marker
    BY <1>4 DEF ReclaimRunning, RetireCard, ConfirmCancelled
  <1>6. CASE ReclaimRunning
    <2>1. CASE UNCHANGED <<card, active>>
      BY <1>5, <2>1
    <2>2. CASE Reclaims(T)
      <3>1. \A p \in Positions :
              /\ card'[T][p] = IF card[T][p] = "running" THEN "todo" ELSE card[T][p]
              /\ active'[T][p] <=> active[T][p] /\ card[T][p] # "running"
        BY <2>2, ReclaimEffect DEF PTInv, TypeOK
      <3> QED BY <1>1, <1>5, <3>1
    <2> QED BY <1>1, <1>6, <2>1, <2>2 DEF ReclaimRunning, Reclaims
  <1>7. CASE RetireCard
    <2>1. UNCHANGED active
      BY <1>7 DEF RetireCard
    <2>2. CASE UNCHANGED card
      BY <1>5, <2>1, <2>2
    <2>3. CASE a \in OnBoard(T) /\ card' = [card EXCEPT ![T][a] = "archived"]
      <3>1. \A q \in Positions : card'[T][q] = IF q = a THEN "archived" ELSE card[T][q]
        BY <1>3, <2>3, SetsOne
      <3>2. card[T][a] # "none"
        BY <2>3 DEF OnBoard, Live
      <3> QED BY <1>1, <1>5, <2>1, <3>1, <3>2
    <2> QED BY <1>1, <1>2, <1>7, <2>2, <2>3 DEF RetireCard, Sets
  <1>8. CASE ConfirmCancelled
    BY <1>5, <1>8 DEF ConfirmCancelled
  <1> QED BY <1>4, <1>6, <1>7, <1>8

\* What a step of a job writes into the project's marker.
LEMMA MarkerEffect ==
  ASSUME PTInv, JobStep
  PROVE  marker'[Project] = marker[Project] \/ marker'[Project].tick \in {NoTick, job.tick}
  <1>1. job.pc \in {"look"} \cup Cancelling \cup Creating \cup Undoing
    BY JobStepKinds
  <1>2. CASE job.pc \in {"look"} \cup Cancelling
    BY <1>2, LookingEffect, CancellingEffect
  <1>3. CASE job.pc \in Creating \cup Undoing
    <2>1. job.place \in Places /\ job.tick \in Ticks
      BY <1>3, MarkerIsTheJobs
    <2>2. \/ UNCHANGED marker
          \/ Unmark
          \/ \E form, p : Mark(form, job.tick, p)
      BY <1>3 DEF JobStep, PersistIntent, CreateCard, RepeatCreate, RecordCreated,
           PersistExpectedPhases, PersistCommit, CompleteBarrier, ClearMarker, PersistCleanup,
           ArchiveCard, Reconcile, ReclaimRunning, RetireCard, ConfirmCancelled
    <2>3. marker \in [Places -> MarkerType]
      BY DEF PTInv, TypeOK, RegTypeOK
    <2>4. CASE Unmark
      BY <2>1, <2>3, <2>4, Basics DEF Unmark, NoMarker
    <2>5. ASSUME NEW form, NEW p, Mark(form, job.tick, p)
          PROVE  marker'[Project] = marker[Project] \/ marker'[Project].tick \in {NoTick, job.tick}
      <3>1. marker'[job.place] = [form |-> form, tick |-> job.tick, upto |-> p]
            /\ \A q \in Places : q # job.place => marker'[q] = marker[q]
        BY <2>1, <2>3, <2>5 DEF Mark
      <3> QED BY <3>1, Basics
    <2> QED BY <2>2, <2>4, <2>5
  <1> QED BY <1>1, <1>2, <1>3

\* A reconciliation that says it resolved the marker removed it.
LEMMA ReconciledEffect ==
  ASSUME PTInv, JobStep, job.mode = "reconcile", job'.mode = "none", job'.ok
  PROVE  marker'[Project].tick = NoTick
  <1>1. /\ job \in JobType /\ job.pc \in {"look"} \cup Undoing /\ job.place = Project
        /\ marker \in [Places -> MarkerType] /\ MarkersFit
    BY DEF PTInv, JobFits, TypeOK, RegTypeOK
  <1>2. /\ ~Ends(FALSE)
        /\ \A pc : ~Goto(pc)
        /\ \A pc, p : ~GotoAt(pc, p)
    BY <1>1, JobFields
  <1>3. ~LookAtCommit /\ ~LookAtCleanup /\ ~LookAtCreate
    BY <1>1, <1>2 DEF LookAtCommit, LookAtCleanup, LookAtCreate, JobType
  <1>4. CompleteBarrier \/ ClearMarker \/ PersistCleanup \/ ArchiveCard \/ Reconcile
    BY <1>1 DEF JobStep, PersistIntent, CreateCard, RepeatCreate, RecordCreated, PersistExpectedPhases,
           PersistCommit, ReclaimRunning, RetireCard, ConfirmCancelled, Undoing
  <1>5. ~CompleteBarrier /\ ~PersistCleanup /\ ~ArchiveCard
    BY <1>2 DEF CompleteBarrier, PersistCleanup, ArchiveCard, ArchiveNext
  <1>6. CASE ClearMarker
    <2>1. Unmark
      BY <1>2, <1>6 DEF ClearMarker
    <2> QED BY <1>1, <2>1, Basics DEF Unmark, NoMarker
  <1>7. CASE Reconcile
    <2>1. LookAtNothing /\ UNCHANGED marker
      BY <1>2, <1>3, <1>7 DEF Reconcile
    <2> QED BY <1>1, <2>1, Basics DEF LookAtNothing, MarkersFit
  <1> QED BY <1>4, <1>5, <1>6, <1>7

\* Nobody but the job of the tick marks the project's directory.
LEMMA JobProjectClear ==
  ASSUME PTInv, JobStep, UNCHANGED tickVars
  PROVE  ProjectClear'
  <1>1. /\ job.mode \in {"create", "reconcile", "cancel"} /\ tick' = tick
        /\ tick.pc \in {"idle", "marker", "chain"}
        /\ job.mode = "create" => tick.pc = "chain"
        /\ job.mode = "reconcile" => tick.pc = "marker"
        /\ job.mode = "cancel" => tick.pc = "idle"
    BY JobStepKinds DEF tickVars
  <1>2. ASSUME tick.pc = "marker", Free', job'.ok
        PROVE  marker'[Project].tick = NoTick
    BY <1>1, <1>2, ReconciledEffect DEF Free
  <1>3. ASSUME tick.pc = "chain"
        PROVE  marker'[Project].tick \in {NoTick, tick.id}
    <2>1. job.mode = "create"
      BY <1>1, <1>3
    <2>2. job.tick = tick.id
      BY <2>1 DEF PTInv, JobFits, CreateFits
    <2>3. marker[Project].tick \in {NoTick, tick.id}
      BY <1>3, <2>1 DEF PTInv, ProjectClear, Free
    <2> QED BY <2>2, <2>3, MarkerEffect
  <1> QED BY <1>1, <1>2, <1>3 DEF ProjectClear

\* The tick waits for its job.
LEMMA JobTickFits ==
  ASSUME PTInv, JobStep, UNCHANGED tickVars
  PROVE  TickFits'
  <1>1. /\ job'.mode \in {job.mode, "none"} /\ tick.pc \in {"idle", "marker", "chain"}
        /\ UNCHANGED <<tick, stopped, run, outcome, current>>
    BY JobStepKinds DEF tickVars
  <1>2. TickFits
    BY DEF PTInv
  <1>3. /\ stopped' => tick'.pc = "idle"
        /\ tick'.pc \notin {"chain", "marker"} => job'.mode \in {"none", "cancel"}
        /\ tick'.pc # "idle" => job'.mode # "cancel"
    BY <1>1, <1>2 DEF TickFits
  <1>4. tick'.pc = "chain" => tick'.id \in Ticks /\ run'[tick'.id] # "abandoned"
    BY <1>1, <1>2 DEF TickFits
  <1> QED BY <1>1, <1>3, <1>4 DEF TickFits

\* What is abandoned stays untouched.
LEMMA JobRunsFit ==
  ASSUME PTInv, JobStep, UNCHANGED tickVars, JobKeeps
  PROVE  RunsFit'
  <1>1. /\ job.pc \in {"look"} \cup Creating \cup Undoing \cup Cancelling
        /\ UNCHANGED <<kind, admitted>> /\ UNCHANGED <<tick, stopped, run, outcome, current>>
    BY JobStepKinds DEF tickVars
  <1>2. RunsFit /\ TickFits /\ JobFits
    BY DEF PTInv
  <1>3. ASSUME NEW t \in Ticks, run[t] = "abandoned"
        PROVE  Fresh(t)'
    <2>1. Fresh(t)
      BY <1>2, <1>3 DEF RunsFit
    <2>2. CASE SameBoard(t)
      BY <1>1, <2>1, <2>2, SameBoardKeeps
    <2>3. CASE job.pc = "look"
      <3>1. SameBoard(t)
        BY <2>3, LookingEffect DEF SameBoard
      <3> QED BY <2>2, <3>1
    <2>4. CASE t = job.tick /\ job.pc \in Creating
      <3>1. tick.id = t /\ tick.pc = "chain"
        BY <2>4, CreatingIsCreate DEF PTInv, TypeOK, RegTypeOK, JobFits, CreateFits
      <3> QED BY <1>2, <1>3, <3>1 DEF TickFits
    <2>5. CASE t = job.tick /\ job.pc \in Undoing
      BY <1>2, <2>1, <2>5 DEF JobFits, UndoFits, Fresh
    <2>6. CASE t = job.tick /\ job.pc \in Cancelling
      <3>1. /\ UNCHANGED marker
            /\ \A p \in Positions : /\ card[t][p] = "none" => card'[t][p] = "none"
                                    /\ active'[t][p] => active[t][p]
        BY <2>6, CancellingEffect
      <3>2. ~Named(t)'
        BY <1>1, <2>1, <3>1, SamePlace DEF Fresh, Named
      <3>3. Blank(t)'
        BY <1>1, <2>1, <3>1 DEF Fresh, Blank
      <3> QED BY <3>2, <3>3 DEF Fresh
    <2> QED BY <1>1, <2>2, <2>3, <2>4, <2>5, <2>6 DEF JobKeeps
  <1> QED BY <1>1, <1>2, <1>3 DEF RunsFit, PickedNoneIsEvident

\* Nothing is confirmed while a job is under way, but by its last step.
LEMMA JobCancelledFit ==
  ASSUME PTInv, JobStep, UNCHANGED tickVars, JobKeeps
  PROVE  CancelledFit'
  <1>1. /\ job.mode # "none"
        /\ job.pc # "confirm" => UNCHANGED cancelled
        /\ UNCHANGED <<stopped, current>>
    BY JobStepKinds DEF tickVars
  <1>2. cancelled = {}
    BY <1>1 DEF PTInv, CancelledFit, TypeOK, RegTypeOK, Free
  <1>3. CASE UNCHANGED cancelled
    BY <1>2, <1>3 DEF CancelledFit, CancelledMeansStopped
  <1>4. CASE ~UNCHANGED cancelled
    <2>1. job.pc = "confirm" /\ job.pc \in Cancelling
      BY <1>1, <1>4 DEF Cancelling
    <2>2. ConfirmCancelled
      BY <2>1 DEF JobStep, PersistIntent, CreateCard, RepeatCreate, RecordCreated, PersistExpectedPhases,
           PersistCommit, CompleteBarrier, ClearMarker, PersistCleanup, ArchiveCard, Reconcile,
           ReclaimRunning, RetireCard
    <2>3. PICK T \in Ticks : T = job.tick
      BY <2>1, CancellingKnows
    <2>4. /\ Stopped(T) /\ cancelled' = {T} /\ Ends(TRUE) /\ UNCHANGED <<card, active>>
      BY <1>2, <1>4, <2>2, <2>3 DEF ConfirmCancelled
    <2>5. stopped /\ T = current /\ CardsFit(T)
      BY <2>1, <2>3, CancellingKnows DEF CancelFits, BoardFits
    <2>6. Free'
      BY <2>4, JobFields DEF Free, PTInv, TypeOK, RegTypeOK
    <2>7. \A p \in Positions : card[T][p] \notin Live /\ ~active[T][p]
      <3>1. \A p \in Positions : card[T][p] \in Live \cup {"archived"} =>
                                   card[T][p] = "archived" /\ ~active[T][p]
        BY <2>4 DEF Stopped, OnBoard
      <3>2. \A p \in Positions : active[T][p] => card[T][p] \in Live \cup {"archived"}
        BY <2>5 DEF CardsFit
      <3> QED BY <3>1, <3>2 DEF Live
    <2> QED BY <1>1, <2>4, <2>5, <2>6, <2>7 DEF CancelledFit, CancelledMeansStopped
  <1> QED BY <1>3, <1>4

\* Other ticks stay quiet, and what a delivery was built on stays done.
LEMMA JobQuietFits ==
  ASSUME PTInv, JobStep, UNCHANGED tickVars, JobKeeps
  PROVE  QuietFits'
  <1>1. /\ job.pc \in {"look"} \cup Creating \cup Undoing \cup Cancelling
        /\ job.mode \in {"create", "reconcile", "cancel"}
        /\ UNCHANGED kind /\ UNCHANGED <<tick, stopped, run, current, finish>>
        /\ tick.pc \in {"idle", "marker", "chain"}
    BY JobStepKinds DEF tickVars
  <1>2. QuietFits /\ JobFits
    BY DEF PTInv
  <1>3. \A t \in Ticks : t # job.tick \/ job.pc = "look" => SameBoard(t)
    <2>1. job.pc = "look" => \A t \in Ticks : SameBoard(t)
      BY LookingEffect DEF SameBoard
    <2> QED BY <2>1 DEF JobKeeps
  <1>4. job.pc \in Creating \cup Cancelling => job.tick = current
    <2>1. job.pc \in Creating => job.tick = current
      BY <1>2, CreatingIsCreate DEF PTInv, TypeOK, RegTypeOK, JobFits, CreateFits
    <2> QED BY <1>2, <2>1 DEF JobFits, CancelFits
  <1>5. ASSUME NEW t \in Ticks, t # current
        PROVE  Quiet(t)'
    <2>1. Quiet(t)
      BY <1>2, <1>5 DEF QuietFits
    <2>2. CASE t # job.tick \/ job.pc = "look"
      BY <1>1, <1>3, <2>1, <2>2, SameBoardKeeps
    <2>3. CASE t = job.tick /\ job.pc \in Undoing
      <3>1. /\ UNCHANGED active
            /\ \A p \in 1..NPhases : card'[t][p] \in {card[t][p], "archived"}
        BY <2>3, UndoingEffect
      <3> QED BY <2>1, <3>1 DEF Quiet
    <2> QED BY <1>1, <1>4, <1>5, <2>2, <2>3
  <1>6. ASSUME NEW t \in Ticks, ~stopped, Through(t)'
        PROVE  card'[t][1] = "done" /\ kind[t] = "pinned"
    <2>1. card[t][1] = "done" /\ kind[t] = "pinned"
      BY <1>1, <1>2, <1>6 DEF QuietFits, Through
    <2>2. CASE t # job.tick \/ job.pc = "look"
      BY <1>3, <2>1, <2>2 DEF SameBoard
    <2>3. CASE t = job.tick /\ job.pc \in Cancelling
      BY <1>6, <2>3, CancellingKnows
    <2>4. CASE t = job.tick /\ job.pc \in Creating
      <3>1. \A p \in 1..NPhases : ~Claimed(t, p)
        <4>1. job.at \in Positions
          BY <2>4, MarkerIsTheJobs
        <4> QED BY <2>4, <4>1, CreatedCards
      <3> QED BY <2>1, <3>1, Basics DEF Claimed
    <2>5. CASE t = job.tick /\ job.pc \in Undoing
      <3>1. job.mode = "create" /\ CreateFits(t)
        BY <2>1, <2>5, UndoingKnows, ChainsAndPlaces
      <3>2. Claimed(t, 1)
        BY <2>1 DEF Claimed
      <3>3. job.pc \notin {"undo", "archive"}
        BY <3>1, <3>2, Basics DEF CreateFits
      <3>4. card'[t][1] = card[t][1]
        BY <2>5, <3>3, UndoingEffect, Basics DEF Undoing
      <3> QED BY <2>1, <3>4
    <2> QED BY <1>1, <2>2, <2>3, <2>4, <2>5
  <1>7. tick'.pc \notin Selection \cup {"outcomes"}
    BY <1>1 DEF Selection
  <1> QED BY <1>1, <1>5, <1>6, <1>7 DEF QuietFits

\* A step of a job keeps the invariant.
LEMMA JobStepInv ==
  ASSUME PTInv, JobStep, UNCHANGED tickVars
  PROVE  PTInv'
  <1>1. TypeOK'
    BY TypeNext DEF Next
  <1>2. JobKeeps
    BY JobStepKeeps
  <1> QED BY <1>1, <1>2, JobProjectClear, JobTickFits, JobRunsFit, JobCancelledFit, JobQuietFits
          DEF PTInv, JobKeeps

-----------------------------------------------------------------------------
(* The board moves on its own.                                             *)

\* What a move of the board does to one card.
Moves(T, p, s, b) ==
  /\ UNCHANGED <<kind, admitted, marker, expected, job, faults, cancelled>>
  /\ UNCHANGED tickVars
  /\ \A t \in Ticks : t # T => card'[t] = card[t] /\ active'[t] = active[t]
  /\ \A q \in Positions : card'[T][q] = IF q = p THEN s ELSE card[T][q]
  /\ \A q \in Positions : active'[T][q] = IF q = p THEN b ELSE active[T][q]
  /\ \/ /\ card[T][p] = "late" /\ s \in {"todo", "none"} /\ b = active[T][p]
     \/ /\ p # 0 /\ card[T][p] = "todo" /\ Released(T, p) /\ s = "running" /\ b = TRUE
     \/ /\ p # 0 /\ active[T][p] /\ b = FALSE
        /\ (s = card[T][p] /\ s # "running") \/ (card[T][p] = "running" /\ s \in {"done", "blocked"})
     \/ /\ p # 0 /\ card[T][p] = "blocked" /\ s = "todo" /\ b = active[T][p]

\* Each move of the board is one of them.
LEMMA EachMoves ==
  ASSUME TypeOK, UNCHANGED tickVars, NEW T \in Ticks, NEW p \in Positions,
         LateCardShows(T, p) \/ (p # 0 /\ CardMoves(T, p))
  PROVE  \E s \in CardStatus : \E b \in BOOLEAN : Moves(T, p, s, b)
  <1>1. /\ card \in [Ticks -> [Positions -> CardStatus]]
        /\ active \in [Ticks -> [Positions -> BOOLEAN]]
        /\ card[T][p] \in CardStatus /\ active[T][p] \in BOOLEAN
    BY DEF TypeOK, RegTypeOK
  <1>2. CASE LateCardShows(T, p)
    <2>1. PICK s \in {"todo", "none"} : card' = [card EXCEPT ![T][p] = s]
      BY <1>2 DEF LateCardShows
    <2>2. /\ \A t \in Ticks : t # T => card'[t] = card[t]
          /\ \A q \in Positions : card'[T][q] = IF q = p THEN s ELSE card[T][q]
      BY <1>1, <2>1, SetsOne
    <2>3. UNCHANGED active /\ card[T][p] = "late"
      BY <1>2 DEF LateCardShows
    <2>4. \A q \in Positions : active'[T][q] = IF q = p THEN active[T][p] ELSE active[T][q]
      BY <2>3
    <2>5. Moves(T, p, s, active[T][p])
      BY <1>2, <2>2, <2>3, <2>4 DEF Moves, LateCardShows
    <2> QED BY <1>1, <2>5 DEF CardStatus
  <1>3. CASE p # 0 /\ Claim(T, p)
    <2>1. /\ \A t \in Ticks : t # T => card'[t] = card[t]
          /\ \A q \in Positions : card'[T][q] = IF q = p THEN "running" ELSE card[T][q]
      BY <1>1, <1>3, SetsOne DEF Claim
    <2>2. /\ \A t \in Ticks : t # T => active'[t] = active[t]
          /\ \A q \in Positions : active'[T][q] = IF q = p THEN TRUE ELSE active[T][q]
      <3>1. active' = [active EXCEPT ![T][p] = TRUE]
        BY <1>3 DEF Claim
      <3> QED BY <1>1, <3>1, SetsOneRun
    <2>3. Moves(T, p, "running", TRUE)
      BY <1>3, <2>1, <2>2 DEF Moves, Claim
    <2> QED BY <2>3 DEF CardStatus
  <1>4. CASE p # 0 /\ WorkerEnds(T, p)
    <2>1. PICK e \in {"done", "blocked"} :
            card' = [card EXCEPT ![T][p] = IF @ = "running" THEN e ELSE @]
      BY <1>4 DEF WorkerEnds
    <2> DEFINE s == IF card[T][p] = "running" THEN e ELSE card[T][p]
    <2>2. card' = [card EXCEPT ![T][p] = s]
      BY <2>1
    <2>3. s \in CardStatus /\ ((s = card[T][p] /\ s # "running") \/ (card[T][p] = "running" /\ s \in {"done", "blocked"}))
      BY <1>1 DEF CardStatus
    <2> HIDE DEF s
    <2>4. /\ \A t \in Ticks : t # T => card'[t] = card[t]
          /\ \A q \in Positions : card'[T][q] = IF q = p THEN s ELSE card[T][q]
      BY <1>1, <2>2, SetsOne
    <2>5. /\ \A t \in Ticks : t # T => active'[t] = active[t]
          /\ \A q \in Positions : active'[T][q] = IF q = p THEN FALSE ELSE active[T][q]
      <3>1. active' = [active EXCEPT ![T][p] = FALSE]
        BY <1>4 DEF WorkerEnds
      <3> QED BY <1>1, <3>1, SetsOneRun
    <2>6. Moves(T, p, s, FALSE)
      BY <1>4, <2>3, <2>4, <2>5 DEF Moves, WorkerEnds
    <2> QED BY <2>3, <2>6
  <1>5. CASE p # 0 /\ Unblock(T, p)
    <2>1. /\ \A t \in Ticks : t # T => card'[t] = card[t]
          /\ \A q \in Positions : card'[T][q] = IF q = p THEN "todo" ELSE card[T][q]
      BY <1>1, <1>5, SetsOne DEF Unblock
    <2>2. UNCHANGED active
      BY <1>5 DEF Unblock
    <2>3. \A q \in Positions : active'[T][q] = IF q = p THEN active[T][p] ELSE active[T][q]
      BY <2>2
    <2>4. Moves(T, p, "todo", active[T][p])
      BY <1>5, <2>1, <2>2, <2>3 DEF Moves, Unblock
    <2> QED BY <1>1, <2>4 DEF CardStatus
  <1> QED BY <1>2, <1>3, <1>4, <1>5 DEF CardMoves

\* What a move of the board leaves true of every card.
LEMMA MovesEffect ==
  ASSUME NEW T \in Ticks, NEW p \in Positions, NEW s \in CardStatus, NEW b \in BOOLEAN,
         Moves(T, p, s, b)
  PROVE  /\ \A q \in Positions : Standing(T, q)' => Standing(T, q)
         /\ \A q \in Positions : card'[T][q] = "late" => card[T][q] = "late"
         /\ Barrier(T)' = "done" <=> Barrier(T) = "done"
         /\ \A t \in Ticks : t # T => SameBoard(t)
         /\ OnlyCards(T)
         /\ p = 0 => \A q \in Positions : q # 0 => card'[T][q] = card[T][q] /\ active'[T][q] = active[T][q]
         /\ card[T][p] # "none" \/ active[T][p]
  <1>1. \A t \in Ticks : t # T => SameBoard(t)
    BY DEF Moves, SameBoard
  <1>2. OnlyCards(T)
    BY DEF Moves, OnlyCards, tickVars
  <1>3. Standing(T, p)' => Standing(T, p)
    BY DEF Standing, Live, Moves
  <1>4. \A q \in Positions : q # p => card'[T][q] = card[T][q] /\ active'[T][q] = active[T][q]
    BY DEF Moves
  <1>5. \A q \in Positions : Standing(T, q)' => Standing(T, q)
    BY <1>3, <1>4 DEF Standing
  <1>6. \A q \in Positions : card'[T][q] = "late" => card[T][q] = "late"
    BY <1>4 DEF Moves
  <1>7. Barrier(T)' = "done" <=> Barrier(T) = "done"
    BY Basics DEF Barrier, Moves
  <1>8. card[T][p] # "none" \/ active[T][p]
    BY DEF Moves
  <1> QED BY <1>1, <1>2, <1>4, <1>5, <1>6, <1>7, <1>8

\* A move of the board keeps the boards.
LEMMA MovingKeeps ==
  ASSUME PTInv, TypeOK', NEW T \in Ticks, NEW p \in Positions, NEW s \in CardStatus, NEW b \in BOOLEAN,
         Moves(T, p, s, b)
  PROVE  MarkersFit' /\ \A t \in Ticks : BoardFits(t)'
  <1>1. MarkersFit /\ \A t \in Ticks : BoardFits(t)
    BY DEF PTInv
  <1>2. MarkersFit'
    BY <1>1, Basics, MarkersKept DEF Moves
  <1>3. OnlyCards(T) /\ \A t \in Ticks : t # T => SameBoard(t)
    BY MovesEffect
  <1>4. CardsFit(T)
    BY <1>1 DEF BoardFits
  <1>5. CASE card[T][p] = "late"
    <2>1. Named(T) /\ Form(T) = "create" /\ Upto(T) = p /\ Chained(T)
      BY <1>4, <1>5 DEF CardsFit, Blank
    <2>2. p <= Chain(T)
      BY <1>1, <2>1, ChainsAndPlaces DEF MarkersFit, Named, Upto
    <2>3. ~active[T][p]
      BY <1>4, <1>5 DEF CardsFit, Live
    <2>4. s \in {"none", "todo"} /\ b = active[T][p]
      BY <1>5, <2>3 DEF Moves
    <2>5. active'[T] = active[T]
      <3>1. \A q \in Positions : active'[T][q] = active[T][q]
        BY <2>4 DEF Moves
      <3>2. active[T] \in [Positions -> BOOLEAN]
        BY DEF PTInv, TypeOK, RegTypeOK
      <3>3. active'[T] \in [Positions -> BOOLEAN]
        BY DEF TypeOK, RegTypeOK
      <3> QED BY <3>1, <3>2, <3>3
    <2>6. CardBecomes(T, p, s)
      BY <1>3, <2>5 DEF CardBecomes, Moves
    <2>7. BoardFits(T)'
      BY <1>1, <1>5, <2>1, <2>2, <2>4, <2>6, AppearingKeeps
    <2> QED BY <1>1, <1>2, <1>3, <2>7, SameBoardKeeps DEF Moves, tickVars
  <1>6. CASE card[T][p] # "late"
    <2>1. p # 0 /\ p \in 1..NPhases
      BY <1>6, Basics DEF Moves, Positions
    <2>2. active[T][p] => card[T][p] \in Live \cup {"archived"}
      BY <1>4 DEF CardsFit
    <2>3. card[T][p] \in CardStatus
      BY DEF PTInv, TypeOK, RegTypeOK
    <2>4. /\ s \notin {"none", "late"} /\ card[T][p] \in CardStatus \ {"none", "late"}
          /\ s = "archived" <=> card[T][p] = "archived"
      BY <1>6, <2>2, <2>3 DEF Moves, Live, CardStatus
    <2>5. s = "done" => ~b
      BY <1>6, <2>2 DEF Moves, Live
    <2>6. s \in {"running", "done", "blocked"} \/ b =>
            Claimed(T, p) \/ (card[T][p] = "todo" /\ Released(T, p))
      BY <1>6 DEF Moves, Claimed
    <2>7. BoardFits(T)'
      BY <1>1, <1>3, <2>1, <2>4, <2>5, <2>6, WorkingKeeps DEF Moves
    <2> QED BY <1>1, <1>2, <1>3, <2>7, SameBoardKeeps DEF Moves, tickVars
  <1> QED BY <1>5, <1>6

\* Nobody takes a card of a chain that is being created: its parents are not released.
LEMMA OnlyLateCards ==
  ASSUME PTInv, NEW T \in Ticks, job.mode = "create", job.tick = T, Barrier(T) # "done",
         NEW p \in Positions, NEW s \in CardStatus, NEW b \in BOOLEAN, Moves(T, p, s, b)
  PROVE  card[T][p] = "late" /\ s \in {"none", "todo"} /\ b = active[T][p]
  <1>1. /\ ~admitted[T] /\ ~stopped /\ \A q \in 1..NPhases : ~Claimed(T, q)
    BY DEF PTInv, JobFits, CreateFits, TickFits
  <1>2. ChildrenFirst(T) /\ CardsFit(T)
    BY DEF PTInv, BoardFits
  <1>4. card[T][p] = "late"
    <2> SUFFICES ASSUME card[T][p] # "late"
                 PROVE  FALSE
      OBVIOUS
    <2>1. p # 0 /\ p \in 1..NPhases
      BY Basics DEF Moves, Positions
    <2>2. ~Claimed(T, p)
      BY <1>1, <2>1
    <2>3. card[T][p] = "todo" /\ Released(T, p)
      BY <2>2 DEF Moves, Claimed
    <2>4. card[T][p - 1] \in {"done", "archived"} /\ Standing(T, p)
      BY <1>1, <2>3 DEF Released, Standing, Live
    <2>5. card[T][p - 1] # "archived"
      BY <1>1, <1>2, <2>1, <2>4 DEF ChildrenFirst
    <2>6. CASE p = 1
      <3>1. p - 1 = 0
        BY <2>6
      <3> QED BY <2>4, <2>5, <3>1 DEF Barrier
    <2>7. CASE p # 1
      <3>1. p - 1 \in 1..NPhases
        BY <2>1, <2>7, Basics
      <3> QED BY <1>1, <2>4, <2>5, <3>1 DEF Claimed
    <2> QED BY <2>6, <2>7
  <1>5. ~active[T][p]
    BY <1>2, <1>4 DEF CardsFit, Live
  <1> QED BY <1>4, <1>5 DEF Moves

\* A move of the board keeps what the job under way knows.
LEMMA MovingJobFits ==
  ASSUME PTInv, NEW T \in Ticks, NEW p \in Positions, NEW s \in CardStatus, NEW b \in BOOLEAN,
         Moves(T, p, s, b)
  PROVE  JobFits'
  <1>1. UNCHANGED <<kind, admitted, marker, expected, job, tick, current, stopped>>
    BY DEF Moves, tickVars
  <1>2. /\ \A q \in Positions : Standing(T, q)' => Standing(T, q)
        /\ \A q \in Positions : card'[T][q] = "late" => card[T][q] = "late"
        /\ Barrier(T)' = "done" <=> Barrier(T) = "done"
    BY MovesEffect
  <1>3. JobFits /\ job \in JobType
    BY DEF PTInv, TypeOK, RegTypeOK
  <1>4. ASSUME NEW t \in Ticks
        PROVE  /\ PlaceOf(t)' = PlaceOf(t) /\ Chain(t)' = Chain(t) /\ (Chained(t)' <=> Chained(t))
               /\ (Named(t)' <=> Named(t)) /\ Form(t)' = Form(t) /\ Upto(t)' = Upto(t)
    BY <1>1, SamePlace DEF Named, Form, Upto
  <1>5. ASSUME NEW t \in Ticks, t # T
        PROVE  /\ \A q : card'[t][q] = card[t][q] /\ active'[t][q] = active[t][q]
               /\ \A q : Standing(t, q)' <=> Standing(t, q)
               /\ \A q : Claimed(t, q)' <=> Claimed(t, q)
               /\ Barrier(t)' = Barrier(t)
    BY <1>5 DEF Moves, Standing, Claimed, Barrier
  <1>6. ASSUME NEW t \in Ticks, UndoFits(t)
        PROVE  UndoFits(t)'
    <2>1. /\ \A q \in Positions : Standing(t, q)' => Standing(t, q)
          /\ \A q \in Positions : card'[t][q] = "late" => card[t][q] = "late"
          /\ Barrier(t) = "done" => Barrier(t)' = "done"
      BY <1>2, <1>5
    <2> QED BY <1>1, <1>4, <1>6, <2>1 DEF UndoFits
  <1>7. ASSUME NEW t \in Ticks, CancelFits(t)
        PROVE  CancelFits(t)'
    <2>1. \A q \in Positions : Standing(t, q)' => Standing(t, q)
      BY <1>2, <1>5
    <2> QED BY <1>1, <1>4, <1>7, <2>1 DEF CancelFits
  <1>8. ASSUME NEW t \in Ticks, CreateFits(t), job.mode = "create", job.tick = t
        PROVE  CreateFits(t)'
    <2>1. CASE t # T
      <3>1. CreatedSoFar(t) => CreatedSoFar(t)'
        BY <1>1, <1>4, <1>5, <2>1 DEF CreatedSoFar
      <3>2. MarkedSoFar(t) => MarkedSoFar(t)'
        BY <1>1, <1>4 DEF MarkedSoFar
      <3> QED BY <1>1, <1>4, <1>5, <1>8, <2>1, <3>1, <3>2 DEF CreateFits
    <2>2. CASE t = T
      <3>1. /\ \A q \in Positions : card'[T][q] = IF q = p THEN s ELSE card[T][q]
            /\ \A q \in Positions : active'[T][q] = IF q = p THEN b ELSE active[T][q]
        BY DEF Moves
      <3>2. Barrier(T) # "done" => \A q \in 1..NPhases : ~Claimed(T, q)'
        <4> SUFFICES ASSUME Barrier(T) # "done", NEW q \in 1..NPhases
                     PROVE  ~Claimed(T, q)'
          OBVIOUS
        <4>1. ~Claimed(T, q) /\ q \in Positions
          BY <1>8, <2>2, Basics DEF CreateFits
        <4>2. s \in {"none", "todo"} /\ b = active[T][p]
          BY <1>8, <2>2, OnlyLateCards
        <4> QED BY <3>1, <4>1, <4>2 DEF Claimed
      <3>3. ASSUME job.pc \in Creating
            PROVE  CreatedSoFar(T)'
        <4>1. CreatedSoFar(T) /\ Barrier(T) # "done" /\ job.at \in Positions
          BY <1>8, <2>2, <3>3, CreatingKnows
        <4>2. card[T][p] = "late" /\ s \in {"none", "todo"}
          BY <1>8, <2>2, <4>1, OnlyLateCards
        <4>3. ~(p < job.at) /\ ~(p > job.at)
          BY <4>1, <4>2 DEF CreatedSoFar
        <4>4. p = job.at
          <5>1. p \in Nat /\ job.at \in Nat
            BY <4>1, Basics
          <5> QED BY <4>3, <5>1
        <4>5. job.pc = "repeat"
          BY <3>3, <4>1, <4>2, <4>4 DEF CreatedSoFar, Creating
        <4>6. /\ \A q \in Positions : q < job.at => card'[T][q] = "todo"
              /\ \A q \in Positions : q > job.at => card'[T][q] = "none"
          BY <3>1, <4>1, <4>3 DEF CreatedSoFar
        <4>7. card'[T][job.at] \in {"none", "late", "todo"}
          BY <3>1, <4>1, <4>2, <4>4
        <4> QED BY <1>1, <1>4, <4>1, <4>5, <4>6, <4>7 DEF CreatedSoFar
      <3>4. MarkedSoFar(T) => MarkedSoFar(T)'
        BY <1>1, <1>4 DEF MarkedSoFar
      <3>5. CreateFits(T)
        BY <1>8, <2>2
      <3>6. /\ PlaceOf(T)' = PlaceOf(T) /\ (Chained(T)' <=> Chained(T))
            /\ job' = job /\ tick' = tick /\ current' = current /\ admitted' = admitted
        BY <1>1, <1>4
      <3>7. CreateFits(T)'
        BY <1>2, <3>2, <3>3, <3>4, <3>5, <3>6 DEF CreateFits
      <3> QED BY <2>2, <3>7 DEF CreateFits
    <2> QED BY <2>1, <2>2
  <1>9. job' = job /\ tick' = tick /\ current' = current /\ stopped' = stopped
    BY <1>1
  <1>10. CASE job.tick \in Ticks
    <2>1. PICK J \in Ticks : J = job.tick
      BY <1>10
    <2>2. job.mode = "create" => CreateFits(J)'
      BY <1>3, <1>8, <2>1 DEF JobFits
    <2>3. job.pc \in Undoing => UndoFits(J)'
      BY <1>3, <1>6, <2>1 DEF JobFits
    <2>4. job.pc \in Cancelling => CancelFits(J)'
      BY <1>3, <1>7, <2>1 DEF JobFits
    <2>5. job'.tick = J
      BY <1>9, <2>1
    <2> QED BY <1>3, <1>9, <2>2, <2>3, <2>4, <2>5 DEF JobFits
  <1>11. CASE job.tick \notin Ticks
    <2>1. job.pc \in {"none", "look"}
      BY <1>3, <1>11 DEF JobFits
    <2>2. job.pc \notin Creating \cup Undoing \cup Cancelling
      BY <2>1 DEF Creating, Undoing, Cancelling
    <2>3. job.mode # "create"
      BY <1>3, <2>2 DEF JobFits, CreateFits
    <2> QED BY <1>3, <1>9, <1>11, <2>1, <2>2, <2>3 DEF JobFits
  <1> QED BY <1>10, <1>11

\* A move of the board keeps the rest: it is about a card that is there, of the pointer's tick.
LEMMA MovingInv ==
  ASSUME PTInv, TypeOK', NEW T \in Ticks, NEW p \in Positions, NEW s \in CardStatus, NEW b \in BOOLEAN,
         Moves(T, p, s, b)
  PROVE  PTInv'
  <1>1. UNCHANGED <<kind, admitted, marker, expected, job, cancelled, tick, current, stopped,
                    run, outcome, finish>>
    BY DEF Moves, tickVars
  <1>2. /\ ProjectClear /\ TickFits /\ RunsFit /\ CancelledFit /\ QuietFits /\ CardsFit(T)
    BY DEF PTInv, BoardFits
  <1>3. /\ \A t \in Ticks : t # T => SameBoard(t)
        /\ card[T][p] # "none" \/ active[T][p]
        /\ p = 0 => \A q \in Positions : q # 0 => card'[T][q] = card[T][q] /\ active'[T][q] = active[T][q]
    BY MovesEffect
  <1>4. ASSUME NEW t \in Ticks, Fresh(t)
        PROVE  Fresh(t)'
    <2>1. t # T
      BY <1>3, <1>4 DEF Fresh, Blank
    <2> QED BY <1>1, <1>3, <1>4, <2>1, SameBoardKeeps
  <1>5. ProjectClear'
    BY <1>1, <1>2 DEF ProjectClear, Free
  <1>6. TickFits'
    <2>1. ASSUME tick.pc \in {"register", "bind", "persist", "started"}
          PROVE  Fresh(tick.id)'
      <3>1. PICK t \in Ticks : t = tick.id /\ Fresh(t)
        BY <1>2, <2>1 DEF TickFits
      <3>2. Fresh(t)' /\ tick'.id = t
        BY <1>1, <1>4, <3>1
      <3> QED BY <3>2
    <2>2. \A t \in Ticks : Chained(t)' <=> Chained(t)
      BY <1>1 DEF Chained
    <2> QED BY <1>1, <1>2, <2>1, <2>2 DEF TickFits
  <1>7. RunsFit'
    BY <1>1, <1>2, <1>4 DEF RunsFit, PickedNoneIsEvident
  <1>8. CancelledFit'
    <2>1. ASSUME NEW u \in cancelled, marker[PlaceOf(u)].tick # u
          PROVE  \A q \in Positions : card'[u][q] \notin Live /\ ~active'[u][q]
      <3>1. u \in Ticks
        BY DEF PTInv, TypeOK, RegTypeOK
      <3>2. \A q \in Positions : card[u][q] \notin Live /\ ~active[u][q]
        BY <1>2, <2>1 DEF CancelledFit, CancelledMeansStopped
      <3>3. u # T
        <4> SUFFICES ASSUME u = T
                     PROVE  FALSE
          OBVIOUS
        <4>1. card[T][p] \notin Live /\ ~active[T][p]
          BY <3>2
        <4>2. card[T][p] # "late"
          BY <1>2, <2>1 DEF CardsFit, Named
        <4> QED BY <4>1, <4>2 DEF Moves, Live
      <3> QED BY <3>1, <3>2, <3>3 DEF Moves
    <2>2. \A u \in Ticks : PlaceOf(u)' = PlaceOf(u)
      BY <1>1 DEF PlaceOf
    <2>3. cancelled \subseteq Ticks
      BY DEF PTInv, TypeOK, RegTypeOK
    <2>4. CancelledMeansStopped'
      BY <1>1, <2>1, <2>2, <2>3 DEF CancelledMeansStopped
    <2> QED BY <1>1, <1>2, <2>4 DEF CancelledFit, Free
  <1>9. Quiet(T) => Quiet(T)'
    <2> SUFFICES ASSUME Quiet(T)
                 PROVE  Quiet(T)'
      OBVIOUS
    <2>1. p = 0
      <3> SUFFICES ASSUME p # 0
                   PROVE  FALSE
        OBVIOUS
      <3>1. p \in 1..NPhases
        BY Basics DEF Positions
      <3>2. card[T][p] \in {"none", "done", "archived"} /\ ~active[T][p]
        BY <3>1 DEF Quiet
      <3> QED BY <3>2 DEF Moves
    <2>2. \A q \in 1..NPhases : q \in Positions /\ q # 0
      BY Basics DEF Positions
    <2> QED BY <1>3, <2>1, <2>2 DEF Quiet
  <1>10. \A t \in Ticks : Quiet(t) => Quiet(t)'
    BY <1>1, <1>3, <1>9, SameBoardKeeps
  <1>11. ASSUME NEW t \in Ticks, ~stopped, Through(t)
         PROVE  card'[t][1] = "done" /\ kind'[t] = "pinned"
    <2>1. card[t][1] = "done" /\ kind[t] = "pinned"
      BY <1>2, <1>11 DEF QuietFits
    <2>2. CASE t = T /\ p = 1
      <3>1. card[T][1] = "done" /\ 1 \in Positions /\ 1 > 0
        BY <2>1, <2>2, Basics
      <3>2. ~active[T][1]
        BY <1>2, <3>1 DEF CardsFit
      <3> QED BY <2>2, <3>1, <3>2 DEF Moves
    <2>3. CASE ~(t = T /\ p = 1)
      BY <1>1, <2>1, <2>3, Basics DEF Moves
    <2> QED BY <2>2, <2>3
  <1>12. QuietFits'
    <2>1. \A t \in Ticks : Through(t)' <=> Through(t)
      BY <1>1 DEF Through
    <2>2. current \in Ticks \cup {NoTick}
      BY DEF PTInv, TypeOK
    <2> QED BY <1>1, <1>2, <1>10, <1>11, <2>1, <2>2 DEF QuietFits
  <1>13. JobFits' /\ MarkersFit' /\ \A t \in Ticks : BoardFits(t)'
    BY MovingJobFits, MovingKeeps
  <1> QED BY <1>5, <1>6, <1>7, <1>8, <1>12, <1>13 DEF PTInv

\* Whatever the board does on its own keeps the invariant.
LEMMA BoardStepInv ==
  ASSUME PTInv, UNCHANGED tickVars,
         \/ \E t \in Ticks, p \in Positions : p > 0 /\ CardMoves(t, p)
         \/ \E t \in Ticks : LateCardShows(t, 0)
  PROVE  PTInv'
  <1>1. TypeOK' /\ TypeOK
    BY TypeNext DEF Next, PTInv
  <1>2. \E T \in Ticks : \E p \in Positions : LateCardShows(T, p) \/ (p # 0 /\ CardMoves(T, p))
    BY Basics
  <1>3. PICK T \in Ticks, p \in Positions : LateCardShows(T, p) \/ (p # 0 /\ CardMoves(T, p))
    BY <1>2
  <1>4. PICK s \in CardStatus, b \in BOOLEAN : Moves(T, p, s, b)
    BY <1>1, <1>3, EachMoves
  <1> QED BY <1>1, <1>4, MovingInv

-----------------------------------------------------------------------------
(* The steps of the tick.                                                  *)

\* A step that leaves the boards, the markers and the kinds alone keeps the invariant when it
\* keeps what the tick, the runs and the pointer say.
LEMMA FramedInv ==
  ASSUME PTInv, TypeOK', UNCHANGED <<kind, card, active, admitted, marker, expected, cancelled>>,
         cancelled = {}, stopped => stopped',
         JobFits', ProjectClear', TickFits',
         \A t \in Ticks : run'[t] # "none" => kind[t] = "pinned",
         \A t \in Ticks : run'[t] = "abandoned" => Fresh(t),
         \A t \in Ticks : "picked_none" \in outcome'[t] => kind[t] = "idle",
         current' # NoTick => kind[current'] # "unused",
         PickedNoneIsEvident',
         \A t \in Ticks : t # current' => Quiet(t),
         tick'.pc \in Selection \cup {"outcomes"} /\ current' # NoTick => Quiet(current'),
         \A t \in Ticks : ~stopped' /\ Through(t)' => card[t][1] = "done" /\ kind[t] = "pinned"
  PROVE  PTInv'
  <1>1. MarkersFit' /\ \A t \in Ticks : SameBoard(t) /\ BoardFits(t)'
    BY NothingMoves DEF PTInv
  <1>2. \A t \in Ticks : (Fresh(t) => Fresh(t)') /\ (Quiet(t) => Quiet(t)')
    BY <1>1, SameBoardKeeps
  <1>3. RunsFit'
    BY <1>2 DEF RunsFit
  <1>4. CancelledFit'
    BY DEF CancelledFit, CancelledMeansStopped
  <1>5. current' \in Ticks \cup {NoTick}
    BY DEF TypeOK
  <1>6. tick'.pc \in Selection \cup {"outcomes"} /\ current' # NoTick => Quiet(current)'
    <2> SUFFICES ASSUME tick'.pc \in Selection \cup {"outcomes"}, current' # NoTick
                 PROVE  Quiet(current)'
      OBVIOUS
    <2>1. PICK c \in Ticks : c = current'
      BY <1>5
    <2>2. Quiet(c)'
      BY <1>2, <2>1
    <2> QED BY <2>1, <2>2
  <1>7. QuietFits'
    BY <1>2, <1>6 DEF QuietFits
  <1> QED BY <1>1, <1>3, <1>4, <1>7 DEF PTInv

\* What the invariant says is not about the issues, the pull requests and the breaker.
LEMMA StillInv ==
  ASSUME PTInv, TypeOK', UNCHANGED <<regVars, tick, current, outcome, run, finish, stopped>>
  PROVE  PTInv'
  <1>1. UNCHANGED <<kind, card, active, admitted, marker, expected, job, cancelled>>
    BY DEF regVars
  <1>2. MarkersFit' /\ \A t \in Ticks : SameBoard(t) /\ BoardFits(t)'
    BY <1>1, NothingMoves DEF PTInv
  <1>4. JobFits'
    BY <1>1 DEF PTInv, JobFits, CreateFits, UndoFits, CancelFits, CreatedSoFar, MarkedSoFar, Chained,
                PlaceOf, Chain, Barrier, Claimed, Named, Form, Upto, Standing
  <1>5. ProjectClear'
    BY <1>1 DEF PTInv, ProjectClear, Free
  <1>6. TickFits'
    BY <1>1 DEF PTInv, TickFits, Fresh, Blank, Named, PlaceOf, Chained
  <1>7. RunsFit'
    BY <1>1 DEF PTInv, RunsFit, Fresh, Blank, Named, PlaceOf, PickedNoneIsEvident
  <1>8. CancelledFit'
    BY <1>1 DEF PTInv, CancelledFit, CancelledMeansStopped, Free, PlaceOf
  <1>9. QuietFits'
    BY <1>1 DEF PTInv, QuietFits, Quiet, Through
  <1> QED BY <1>2, <1>4, <1>5, <1>6, <1>7, <1>8, <1>9 DEF PTInv

\* A tick that is not told to wait has no job under way, and nothing was cancelled.
LEMMA TickAlone ==
  ASSUME PTInv, tick.pc # "idle"
  PROVE  /\ ~stopped /\ cancelled = {}
         /\ tick.pc \notin {"marker", "chain"} => job.mode = "none"
         /\ tick \in [pc : TickPcs, prior : Ticks \cup {NoTick}, id : Ticks \cup {NoTick},
                      pick : Issues \cup {NoIssue}]
         /\ current \in Ticks \cup {NoTick}
  <1>1. TypeOK /\ RegTypeOK /\ TickFits /\ CancelledFit
    BY DEF PTInv, TypeOK
  <1>2. ~stopped /\ (tick.pc \notin {"marker", "chain"} => job.mode = "none")
    BY <1>1 DEF TickFits
  <1>3. cancelled = {}
    BY <1>1, <1>2 DEF CancelledFit, RegTypeOK
  <1> QED BY <1>1, <1>2, <1>3 DEF TypeOK

\* A tick begins with the look at the project's marker.
LEMMA TickBeginsInv ==
  ASSUME PTInv, TypeOK', TickBegins
  PROVE  PTInv'
  <1>1. /\ tick.pc = "idle" /\ ~stopped /\ job.mode = "none"
        /\ tick'.pc = "marker"
        /\ UNCHANGED <<kind, card, active, admitted, marker, expected, cancelled, current, outcome,
                       run, finish, stopped>>
        /\ job' = [NoJob EXCEPT !.mode = "reconcile", !.pc = "look"]
    BY DEF TickBegins, Free, BeginReconcile, Idle
  <1>2. job'.mode = "reconcile" /\ job'.pc = "look" /\ job'.place = Project
    BY <1>1 DEF NoJob
  <1>3. JobFits'
    BY <1>1, <1>2 DEF JobFits, Creating, Undoing, Cancelling
  <1>4. ProjectClear'
    BY <1>1, <1>2 DEF ProjectClear, Free
  <1>5. TickFits'
    BY <1>1, <1>2 DEF TickFits
  <1>6. cancelled = {} /\ RunsFit /\ QuietFits
    BY <1>1 DEF PTInv, CancelledFit, TypeOK, RegTypeOK
  <1>7. \A t \in Ticks : Through(t)' => Through(t)
    BY <1>1 DEF Through
  <1>8. tick'.pc \notin Selection \cup {"outcomes"}
    BY <1>1 DEF Selection
  <1> QED BY <1>1, <1>3, <1>4, <1>5, <1>6, <1>7, <1>8, FramedInv
          DEF RunsFit, QuietFits, PickedNoneIsEvident

\* A tick that dies takes its job with it.
LEMMA TickDiesInv ==
  ASSUME PTInv, TypeOK', TickDies
  PROVE  PTInv'
  <1>1. /\ tick.pc # "idle" /\ tick'.pc = "idle" /\ job' = NoJob
        /\ UNCHANGED <<kind, card, active, admitted, marker, expected, cancelled, current, outcome,
                       run, finish, stopped>>
    BY DEF TickDies, Idle
  <1>2. job'.mode = "none" /\ job'.pc = "none"
    BY <1>1 DEF NoJob
  <1>3. JobFits'
    BY <1>2, EndedFits
  <1>4. ProjectClear'
    BY <1>1 DEF ProjectClear
  <1>5. ~stopped /\ cancelled = {} /\ RunsFit /\ QuietFits
    BY <1>1, TickAlone DEF PTInv
  <1>6. TickFits'
    BY <1>1, <1>2 DEF TickFits
  <1>7. \A t \in Ticks : Through(t)' => Through(t)
    BY <1>1 DEF Through
  <1>8. tick'.pc \notin Selection \cup {"outcomes"}
    BY <1>1 DEF Selection
  <1> QED BY <1>1, <1>3, <1>4, <1>5, <1>6, <1>7, <1>8, FramedInv
          DEF RunsFit, QuietFits, PickedNoneIsEvident

\* The harness stops between two ticks.
LEMMA HarnessStopsInv ==
  ASSUME PTInv, TypeOK', HarnessStops
  PROVE  PTInv'
  <1>1. /\ ~stopped /\ stopped' /\ tick.pc = "idle" /\ job.mode = "none"
        /\ UNCHANGED <<kind, card, active, admitted, marker, expected, job, cancelled, tick, current,
                       outcome, run, finish>>
    BY DEF HarnessStops, Free, regVars
  <1>2. JobFits /\ RunsFit /\ QuietFits /\ cancelled = {}
    BY <1>1 DEF PTInv, CancelledFit, TypeOK, RegTypeOK
  <1>3. JobFits'
    <2>1. job'.mode = "none" /\ job'.pc = "none"
      BY <1>1, <1>2 DEF JobFits
    <2> QED BY <2>1, EndedFits
  <1>4. ProjectClear'
    BY <1>1 DEF ProjectClear
  <1>5. TickFits'
    BY <1>1 DEF TickFits
  <1>6. tick'.pc \notin Selection \cup {"outcomes"}
    BY <1>1 DEF Selection
  <1> QED BY <1>1, <1>2, <1>3, <1>4, <1>5, <1>6, FramedInv
          DEF RunsFit, QuietFits, PickedNoneIsEvident

\* The harness cancels the tick of the pointer.
LEMMA HarnessCancelsInv ==
  ASSUME PTInv, TypeOK', HarnessCancels
  PROVE  PTInv'
  <1>1. /\ stopped /\ job.mode = "none" /\ current # NoTick /\ current \notin cancelled
        /\ UNCHANGED <<kind, card, active, admitted, marker, expected, cancelled, tick, current,
                       outcome, run, finish, stopped>>
        /\ job' = [NoJob EXCEPT !.mode = "cancel", !.pc = "look", !.target = current]
    BY DEF HarnessCancels, Free, BeginCancel, tickVars
  <1>2. job'.mode = "cancel" /\ job'.pc = "look" /\ job'.place = Project /\ job'.target = current
    BY <1>1 DEF NoJob
  <1>3. TickFits /\ RunsFit /\ QuietFits /\ cancelled = {} /\ tick.pc = "idle"
    BY <1>1 DEF PTInv, CancelledFit, TypeOK, RegTypeOK, TickFits
  <1>4. JobFits'
    BY <1>1, <1>2 DEF JobFits, Creating, Undoing, Cancelling
  <1>5. ProjectClear'
    BY <1>1, <1>3 DEF ProjectClear
  <1>6. TickFits'
    BY <1>1, <1>2, <1>3 DEF TickFits
  <1>7. tick'.pc \notin Selection \cup {"outcomes"}
    BY <1>1, <1>3 DEF Selection
  <1>8. \A t \in Ticks : ~stopped' /\ Through(t)' => card[t][1] = "done" /\ kind[t] = "pinned"
    BY <1>1
  <1> QED BY <1>1, <1>3, <1>4, <1>5, <1>6, <1>7, <1>8, FramedInv
          DEF RunsFit, QuietFits, PickedNoneIsEvident

\* A step of the tick that leaves its job, the boards and the markers alone.
LEMMA SteppedInv ==
  ASSUME PTInv, TypeOK', tick.pc # "idle", job.mode = "none",
         UNCHANGED <<kind, card, active, admitted, marker, expected, job, cancelled, stopped>>,
         tick'.pc # "marker",
         tick'.pc \notin {"idle", "marker", "chain", "claim"} => marker[Project].tick = NoTick,
         TickFits',
         \A t \in Ticks : run'[t] # "none" => kind[t] = "pinned",
         \A t \in Ticks : run'[t] = "abandoned" => Fresh(t),
         \A t \in Ticks : "picked_none" \in outcome'[t] => kind[t] = "idle",
         current' # NoTick => kind[current'] # "unused",
         PickedNoneIsEvident',
         \A t \in Ticks : t # current' => Quiet(t),
         tick'.pc \in Selection \cup {"outcomes"} /\ current' # NoTick => Quiet(current'),
         \A t \in Ticks : Through(t)' => card[t][1] = "done" /\ kind[t] = "pinned"
  PROVE  PTInv'
  <1>1. ~stopped /\ cancelled = {}
    BY TickAlone
  <1>2. job'.mode = "none" /\ job'.pc = "none"
    BY DEF PTInv, JobFits
  <1>3. JobFits'
    BY <1>2, EndedFits
  <1>4. ProjectClear'
    BY <1>2 DEF ProjectClear, Free
  <1> QED BY <1>1, <1>3, <1>4, FramedInv

\* A step of the tick that changes neither runs, outcomes, deliveries nor the pointer.
LEMMA StepsInv ==
  ASSUME PTInv, TypeOK', tick.pc # "idle", job.mode = "none",
         UNCHANGED <<kind, card, active, admitted, marker, expected, job, cancelled, stopped>>,
         UNCHANGED <<run, outcome, finish, current>>,
         tick'.pc # "marker",
         tick'.pc \notin {"idle", "marker", "chain", "claim"} => marker[Project].tick = NoTick,
         TickFits',
         tick'.pc \in Selection \cup {"outcomes"} /\ current # NoTick => Quiet(current),
         tick'.pc = "delivery" => card[tick'.prior][1] = "done" /\ kind[tick'.prior] = "pinned"
  PROVE  PTInv'
  <1>1. RunsFit /\ QuietFits /\ ~stopped
    BY TickAlone DEF PTInv
  <1>2. \A t \in Ticks : Through(t)' => card[t][1] = "done" /\ kind[t] = "pinned"
    BY <1>1 DEF Through, QuietFits
  <1>3. /\ \A t \in Ticks : run'[t] # "none" => kind[t] = "pinned"
        /\ \A t \in Ticks : run'[t] = "abandoned" => Fresh(t)
        /\ \A t \in Ticks : "picked_none" \in outcome'[t] => kind[t] = "idle"
        /\ current' # NoTick => kind[current'] # "unused"
        /\ PickedNoneIsEvident'
    BY <1>1 DEF RunsFit, PickedNoneIsEvident
  <1>4. /\ \A t \in Ticks : t # current' => Quiet(t)
        /\ tick'.pc \in Selection \cup {"outcomes"} /\ current' # NoTick => Quiet(current')
    BY <1>1 DEF QuietFits
  <1> QED BY <1>2, <1>3, <1>4, SteppedInv

\* A step with which the tick returns, and the runs and the outcomes say no more than they did.
LEMMA ReturnsInv ==
  ASSUME PTInv, TypeOK', tick.pc # "idle", job.mode = "none", Returns,
         UNCHANGED <<kind, card, active, admitted, marker, expected, job, cancelled, stopped, current>>,
         \A t \in Ticks : run'[t] # run[t] => kind[t] = "pinned" /\ (run'[t] = "abandoned" => Fresh(t)),
         \A t \in Ticks : run'[t] = "delivered" \/ finish'[t] => Through(t),
         \A t \in Ticks : "picked_none" \in outcome'[t] <=> "picked_none" \in outcome[t]
  PROVE  PTInv'
  <1>1. RunsFit /\ QuietFits /\ ~stopped /\ current \in Ticks \cup {NoTick}
    BY TickAlone DEF PTInv
  <1>2. tick'.pc = "idle"
    BY DEF Returns, Idle
  <1>3. \A t \in Ticks : Through(t)' => card[t][1] = "done" /\ kind[t] = "pinned"
    BY <1>1, <1>2 DEF Through, QuietFits
  <1>4. TickFits'
    BY <1>2 DEF TickFits
  <1>5. /\ \A t \in Ticks : run'[t] # "none" => kind[t] = "pinned"
        /\ \A t \in Ticks : run'[t] = "abandoned" => Fresh(t)
        /\ \A t \in Ticks : "picked_none" \in outcome'[t] => kind[t] = "idle"
        /\ current' # NoTick => kind[current'] # "unused"
    BY <1>1 DEF RunsFit
  <1>6. PickedNoneIsEvident'
    BY <1>1, Basics DEF RunsFit, PickedNoneIsEvident
  <1>7. /\ \A t \in Ticks : t # current' => Quiet(t)
        /\ tick'.pc \in Selection \cup {"outcomes"} /\ current' # NoTick => Quiet(current')
    BY <1>1, <1>2 DEF QuietFits, Selection
  <1> QED BY <1>2, <1>3, <1>4, <1>5, <1>6, <1>7, SteppedInv

\* Outcomes that are written do not say that nothing was picked.
LEMMA WritesNoPick ==
  ASSUME NEW T \in Ticks, NEW o \in {"complete", "failed"}, WriteOutcomes(T, o), TypeOK
  PROVE  \A t \in Ticks : "picked_none" \in outcome'[t] <=> "picked_none" \in outcome[t]
  <1>1. outcome \in [Ticks -> SUBSET {"tick_started", "picked_none", "complete", "failed"}]
    BY DEF TypeOK
  <1>2. outcome' = [outcome EXCEPT ![T] = IF StatusMap(T) = {} THEN outcome[T] ELSE outcome[T] \cup {o}]
    BY DEF WriteOutcomes
  <1> QED BY <1>1, <1>2

\* What the steps on the prior run know.
LEMMA PriorKnows ==
  ASSUME PTInv, tick.pc \in {"drift", "results", "delivery", "complete", "outcomes"}
  PROVE  /\ Prior = current /\ current \in Ticks /\ marker[Project].tick = NoTick /\ job.mode = "none"
         /\ tick.pc \in {"drift", "results", "delivery"} =>
              /\ run[Prior] = "active" /\ kind[Prior] = "pinned" /\ Chained(Prior)
         /\ tick.prior = Prior
  BY TickAlone DEF PTInv, TickFits, RunsFit, ProjectClear, Prior, Chained

\* A run that was delivered, abandoned or never there leaves nobody at work.
LEMMA SettledIsQuiet ==
  ASSUME PTInv, NEW t \in Ticks, ~stopped, Through(t) \/ run[t] = "abandoned"
  PROVE  Quiet(t)
  <1>1. RunsFit /\ QuietFits /\ CardsFit(t) /\ 1 \in Positions
    BY Basics DEF PTInv, BoardFits
  <1>2. CASE run[t] = "abandoned"
    <2>1. Blank(t)
      BY <1>1, <1>2 DEF RunsFit, Fresh
    <2> QED BY <2>1, Basics DEF Blank, Quiet
  <1>3. CASE Through(t)
    <2>1. card[t][1] = "done" /\ kind[t] = "pinned"
      BY <1>1, <1>3 DEF QuietFits
    <2>2. Chain(t) = 1
      BY <2>1 DEF Chain
    <2>3. ASSUME NEW p \in 1..NPhases
          PROVE  card[t][p] \in {"none", "done", "archived"} /\ ~active[t][p]
      <3>1. p \in Positions /\ p > 0 /\ (p # 1 => p > 1)
        BY Basics
      <3>2. CASE p = 1
        BY <1>1, <2>1, <3>1, <3>2 DEF CardsFit
      <3>3. CASE p # 1
        <4>1. card[t][p] = "none"
          BY <1>1, <2>2, <3>1, <3>3 DEF CardsFit
        <4>2. card[t][p] \notin Live \cup {"archived"}
          BY <4>1 DEF Live
        <4> QED BY <1>1, <3>1, <4>1, <4>2 DEF CardsFit
      <3> QED BY <3>2, <3>3
    <2> QED BY <2>3 DEF Quiet
  <1> QED BY <1>2, <1>3

\* The marker was looked at: the tick is over, or goes on with its prior run or with the history.
LEMMA MarkerCheckedInv ==
  ASSUME PTInv, TypeOK', MarkerChecked
  PROVE  PTInv'
  <1>1. /\ tick.pc = "marker" /\ job.mode = "none"
        /\ UNCHANGED <<kind, card, active, admitted, marker, expected, job, cancelled, current, outcome,
                       finish, stopped>>
    BY DEF MarkerChecked, Free, regVars
  <1>2. RunsFit /\ QuietFits /\ ~stopped /\ current \in Ticks \cup {NoTick} /\ TypeOK
    BY <1>1, TickAlone DEF PTInv
  <1>3. CASE ~job.ok /\ Returns /\ UNCHANGED <<run, issue>>
    <2>1. \A t \in Ticks : run'[t] = "delivered" \/ finish'[t] => Through(t)
      BY <1>1, <1>3 DEF Through
    <2> QED BY <1>1, <1>3, <2>1, ReturnsInv
  <1>4. CASE job.ok
    <2>1. PICK D \in SUBSET {t \in ActiveRuns \ {current} : finish[t] /\ pr[t] = "merged"} :
            run' = [t \in Ticks |-> IF t \in D THEN "delivered" ELSE run[t]]
      BY <1>4 DEF MarkerChecked
    <2>2. tick' = [tick EXCEPT !.prior = PriorTick,
                               !.pc = IF PriorTick = NoTick THEN "history"
                                      ELSE IF run[PriorTick] = "active" THEN "drift"
                                      ELSE "complete"]
      BY <1>4 DEF MarkerChecked
    <2>3. tick'.prior = PriorTick /\ tick'.pc \in {"history", "drift", "complete"}
          /\ (tick'.pc = "history" <=> PriorTick = NoTick)
          /\ (tick'.pc = "drift" => run[PriorTick] = "active")
      BY <1>2, <2>2 DEF TypeOK
    <2>4. marker[Project].tick = NoTick
      BY <1>1, <1>4 DEF PTInv, ProjectClear, Free
    <2>5. /\ PriorTick # NoTick => PriorTick = current /\ current \in Ticks
          /\ PriorTick = NoTick /\ current # NoTick => run[current] \notin {"none", "active"}
      BY <1>2 DEF PriorTick
    <2>6. /\ \A t \in Ticks : run'[t] = IF t \in D THEN "delivered" ELSE run[t]
          /\ \A t \in D : t \in Ticks /\ t # current /\ run[t] = "active" /\ finish[t]
      BY <2>1 DEF ActiveRuns
    <2>7. TickFits'
      <3>1. tick'.pc = "drift" => run'[current] = "active"
        BY <2>3, <2>5, <2>6
      <3> QED BY <1>1, <1>2, <2>3, <2>5, <3>1 DEF TickFits
    <2>8. \A t \in Ticks : Through(t)' => card[t][1] = "done" /\ kind[t] = "pinned"
      <3>1. \A t \in Ticks : Through(t)' => Through(t)
        BY <1>1, <2>3, <2>6 DEF Through
      <3> QED BY <1>2, <3>1 DEF QuietFits
    <2>9. /\ \A t \in Ticks : run'[t] # "none" => kind[t] = "pinned"
          /\ \A t \in Ticks : run'[t] = "abandoned" => Fresh(t)
          /\ \A t \in Ticks : "picked_none" \in outcome'[t] => kind[t] = "idle"
          /\ current' # NoTick => kind[current'] # "unused"
          /\ PickedNoneIsEvident'
      BY <1>1, <1>2, <2>6 DEF RunsFit, PickedNoneIsEvident
    <2>10. \A t \in Ticks : t # current' => Quiet(t)
      BY <1>1, <1>2 DEF QuietFits
    <2>11. ASSUME tick'.pc \in Selection \cup {"outcomes"}, current' # NoTick
           PROVE  Quiet(current')
      <3>1. tick'.pc = "history"
        BY <2>3, <2>11 DEF Selection
      <3>2. PICK c \in Ticks : c = current /\ c = current'
        BY <1>1, <1>2, <2>11
      <3>3. run[c] \in {"abandoned", "delivered"}
        BY <1>2, <2>3, <2>5, <3>1, <3>2, Basics DEF TypeOK
      <3>4. Through(c) \/ run[c] = "abandoned"
        BY <3>3 DEF Through
      <3> QED BY <1>2, <3>2, <3>4, SettledIsQuiet
    <2> QED BY <1>1, <2>3, <2>4, <2>7, <2>8, <2>9, <2>10, <2>11, SteppedInv
  <1> QED BY <1>3, <1>4 DEF MarkerChecked

\* The pinned issue was read: the run goes on.
LEMMA CheckDriftInv ==
  ASSUME PTInv, TypeOK', CheckDrift
  PROVE  PTInv'
  <1>1. /\ tick.pc = "drift"
        /\ UNCHANGED <<kind, card, active, admitted, marker, expected, job, cancelled, current, outcome,
                       run, finish, stopped>>
        /\ To("results") \/ (finish[Prior] /\ To("delivery"))
    BY DEF CheckDrift, driftFrame
  <1>2. /\ Prior = current /\ current \in Ticks /\ marker[Project].tick = NoTick /\ job.mode = "none"
        /\ run[Prior] = "active" /\ kind[Prior] = "pinned" /\ tick.prior = Prior
    BY <1>1, PriorKnows
  <1>3. tick'.prior = Prior /\ tick'.pc \in {"results", "delivery"} /\ (tick'.pc = "delivery" => finish[Prior])
    BY <1>1, <1>2, TickAlone DEF To
  <1>4. ~stopped
    BY <1>1, TickAlone
  <1>5. TickFits'
    BY <1>1, <1>2, <1>3, <1>4 DEF TickFits
  <1>6. tick'.pc = "delivery" => card[tick'.prior][1] = "done" /\ kind[tick'.prior] = "pinned"
    BY <1>2, <1>3, <1>4 DEF PTInv, QuietFits, Through
  <1>7. tick'.pc \notin Selection \cup {"outcomes"}
    BY <1>3 DEF Selection
  <1> QED BY <1>1, <1>2, <1>3, <1>5, <1>6, <1>7, StepsInv

\* A drifted issue, a rejected result and a deferred handoff end the tick.
LEMMA StallingInv ==
  ASSUME PTInv, TypeOK', BlockDrift \/ RejectResults \/ HandoffUnverified
  PROVE  PTInv'
  <1>1. /\ tick.pc \in {"drift", "results", "outcomes"} /\ Returns
        /\ UNCHANGED <<kind, card, active, admitted, marker, expected, job, cancelled, current,
                       run, finish, stopped>>
        /\ UNCHANGED outcome \/ WriteOutcomes(Prior, "complete")
    BY DEF BlockDrift, RejectResults, HandoffUnverified, Stalls, driftFrame, resultsFrame, outcomesFrame
  <1>2. Prior \in Ticks /\ job.mode = "none" /\ TypeOK
    BY <1>1, PriorKnows DEF PTInv
  <1>3. \A t \in Ticks : "picked_none" \in outcome'[t] <=> "picked_none" \in outcome[t]
    BY <1>1, <1>2, WritesNoPick
  <1>4. \A t \in Ticks : run'[t] = "delivered" \/ finish'[t] => Through(t)
    BY <1>1 DEF Through
  <1> QED BY <1>1, <1>2, <1>3, <1>4, ReturnsInv

\* Accepted results lead to the delivery; until then the tick looks at the board.
LEMMA AcceptResultsInv ==
  ASSUME PTInv, TypeOK', AcceptResults
  PROVE  PTInv'
  <1>1. /\ tick.pc = "results"
        /\ UNCHANGED <<kind, card, active, admitted, marker, expected, job, cancelled, current, outcome,
                       run, finish, stopped>>
        /\ To(IF card[Prior][1] = "done" THEN "delivery" ELSE "complete")
    BY DEF AcceptResults, resultsFrame
  <1>2. /\ Prior = current /\ current \in Ticks /\ marker[Project].tick = NoTick /\ job.mode = "none"
        /\ run[Prior] = "active" /\ kind[Prior] = "pinned" /\ tick.prior = Prior
    BY <1>1, PriorKnows
  <1>3. /\ tick'.prior = Prior /\ tick'.pc \in {"delivery", "complete"}
        /\ (tick'.pc = "delivery" => card[Prior][1] = "done")
    BY <1>1, <1>2, TickAlone DEF To
  <1>4. ~stopped
    BY <1>1, TickAlone
  <1>5. TickFits'
    BY <1>1, <1>2, <1>3, <1>4 DEF TickFits
  <1>6. tick'.pc = "delivery" => card[tick'.prior][1] = "done" /\ kind[tick'.prior] = "pinned"
    BY <1>2, <1>3
  <1>7. tick'.pc \notin Selection \cup {"outcomes"}
    BY <1>3 DEF Selection
  <1> QED BY <1>1, <1>2, <1>3, <1>5, <1>6, <1>7, StepsInv

\* The schedule admits the worker of the prior run.
LEMMA AdmitWorkerInv ==
  ASSUME PTInv, TypeOK', AdmitWorker
  PROVE  PTInv'
  <1>1. /\ tick.pc = "results" /\ To("complete")
        /\ UNCHANGED <<kind, active, marker, expected, job, cancelled, current, outcome,
                       run, finish, stopped>>
    BY DEF AdmitWorker, resultsFrame
  <1>2. /\ Prior = current /\ current \in Ticks /\ marker[Project].tick = NoTick /\ job.mode = "none"
        /\ run[Prior] = "active" /\ kind[Prior] = "pinned" /\ tick.prior = Prior
    BY <1>1, PriorKnows
  <1>3. PICK T \in Ticks : T = Prior
    BY <1>2
  <1>4. /\ TypeOK /\ MarkersFit /\ BoardFits(T) /\ RunsFit /\ QuietFits /\ JobFits
        /\ ~stopped /\ cancelled = {} /\ 1 \in Positions
        /\ card \in [Ticks -> [Positions -> CardStatus]] /\ admitted \in [Ticks -> BOOLEAN]
    BY <1>1, TickAlone, Basics DEF PTInv, TypeOK, RegTypeOK
  <1>5. /\ card[T][1] \in {"none", "archived", "late"}
        /\ card' = [card EXCEPT ![T][1] = "todo"]
        /\ admitted' = [admitted EXCEPT ![T] = admitted[T] \/ card[T][1] # "late"]
    BY <1>3 DEF AdmitWorker
  <1>6. /\ \A t \in Ticks : t # T => card'[t] = card[t] /\ admitted'[t] = admitted[t]
        /\ \A q \in Positions : card'[T][q] = IF q = 1 THEN "todo" ELSE card[T][q]
        /\ admitted'[T] = (admitted[T] \/ card[T][1] # "late")
    BY <1>4, <1>5, SetsOne
  <1>7. \A t \in Ticks : t # T => SameBoard(t)
    BY <1>1, <1>6 DEF SameBoard
  <1>8. BoardFits(T)'
    BY <1>1, <1>2, <1>3, <1>4, <1>5, <1>6, AdmittingKeeps
  <1>9. MarkersFit' /\ \A t \in Ticks : BoardFits(t)'
    BY <1>1, <1>4, <1>7, <1>8, Basics, MarkersKept, SameBoardKeeps DEF PTInv
  <1>10. tick'.prior = T /\ tick'.pc = "complete"
    BY <1>1, <1>2, <1>3, TickAlone DEF To
  <1>11. JobFits'
    <2>1. job'.mode = "none" /\ job'.pc = "none"
      BY <1>1, <1>2, <1>4 DEF JobFits
    <2> QED BY <2>1, EndedFits
  <1>12. ProjectClear'
    BY <1>1, <1>2, <1>10 DEF ProjectClear
  <1>13. TickFits'
    BY <1>1, <1>2, <1>3, <1>4, <1>10 DEF TickFits
  <1>14. RunsFit'
    <2>1. \A t \in Ticks : run[t] = "abandoned" => Fresh(t)'
      BY <1>1, <1>2, <1>3, <1>4, <1>7, SameBoardKeeps DEF RunsFit
    <2> QED BY <1>1, <1>4, <2>1 DEF RunsFit, PickedNoneIsEvident
  <1>15. CancelledFit'
    BY <1>1, <1>4 DEF CancelledFit, CancelledMeansStopped
  <1>16. QuietFits'
    <2>1. \A t \in Ticks : t # current => Quiet(t)'
      BY <1>1, <1>2, <1>3, <1>4, <1>7, SameBoardKeeps DEF QuietFits
    <2>2. ASSUME NEW t \in Ticks, Through(t)'
          PROVE  card'[t][1] = "done" /\ kind'[t] = "pinned"
      <3>1. card[t][1] = "done" /\ kind[t] = "pinned"
        BY <1>1, <1>4, <1>10, <2>2 DEF QuietFits, Through
      <3>2. t # T
        BY <1>5, <3>1
      <3> QED BY <1>1, <1>6, <3>1, <3>2
    <2>3. tick'.pc \notin Selection \cup {"outcomes"}
      BY <1>10 DEF Selection
    <2> QED BY <1>1, <2>1, <2>2, <2>3 DEF QuietFits
  <1> QED BY <1>9, <1>11, <1>12, <1>13, <1>14, <1>15, <1>16 DEF PTInv

\* The delivery is verified, and the issue closed after the merge.
LEMMA ReconcileDeliveryInv ==
  ASSUME PTInv, TypeOK', ReconcileDelivery
  PROVE  PTInv'
  <1>1. /\ tick.pc = "delivery"
        /\ UNCHANGED <<kind, card, active, admitted, marker, expected, job, cancelled, current, outcome,
                       stopped>>
        /\ Returns \/ To("complete")
        /\ UNCHANGED finish \/ finish' = [finish EXCEPT ![Prior] = TRUE]
        /\ UNCHANGED run \/ run' = [run EXCEPT ![Prior] = "delivered"]
    BY DEF ReconcileDelivery, Stalls
  <1>2. /\ Prior = current /\ current \in Ticks /\ marker[Project].tick = NoTick /\ job.mode = "none"
        /\ run[Prior] = "active" /\ kind[Prior] = "pinned" /\ tick.prior = Prior
    BY <1>1, PriorKnows
  <1>3. TypeOK /\ RunsFit /\ QuietFits /\ ~stopped
    BY <1>1, TickAlone DEF PTInv
  <1>4. \A t \in Ticks : /\ t # Prior => run'[t] = run[t] /\ finish'[t] = finish[t]
                         /\ run'[t] \in {run[t], "delivered"}
    BY <1>1, <1>3 DEF TypeOK
  <1>5. \A t \in Ticks : run'[t] = "delivered" \/ finish'[t] => Through(t)
    BY <1>1, <1>2, <1>4 DEF Through
  <1>6. \A t \in Ticks : run'[t] # run[t] => kind[t] = "pinned" /\ (run'[t] = "abandoned" => Fresh(t))
    BY <1>2, <1>4
  <1>7. CASE Returns
    BY <1>1, <1>2, <1>5, <1>6, <1>7, ReturnsInv
  <1>8. CASE To("complete")
    <2>1. tick'.prior = Prior /\ tick'.pc = "complete"
      BY <1>1, <1>2, <1>8, TickAlone DEF To
    <2>2. TickFits'
      BY <1>1, <1>2, <1>3, <2>1 DEF TickFits
    <2>3. \A t \in Ticks : Through(t)' => card[t][1] = "done" /\ kind[t] = "pinned"
      <3>1. \A t \in Ticks : Through(t)' => Through(t)
        BY <1>5, <2>1 DEF Through
      <3> QED BY <1>3, <3>1 DEF QuietFits
    <2>4. /\ \A t \in Ticks : run'[t] # "none" => kind[t] = "pinned"
          /\ \A t \in Ticks : run'[t] = "abandoned" => Fresh(t)
          /\ \A t \in Ticks : "picked_none" \in outcome'[t] => kind[t] = "idle"
          /\ current' # NoTick => kind[current'] # "unused"
          /\ PickedNoneIsEvident'
      BY <1>1, <1>3, <1>6 DEF RunsFit, PickedNoneIsEvident
    <2>5. \A t \in Ticks : t # current' => Quiet(t)
      BY <1>1, <1>3 DEF QuietFits
    <2>6. tick'.pc \notin Selection \cup {"outcomes"}
      BY <2>1 DEF Selection
    <2> QED BY <1>1, <1>2, <2>1, <2>2, <2>3, <2>4, <2>5, <2>6, SteppedInv
  <1> QED BY <1>1, <1>7, <1>8

\* A run whose phases are all complete leaves nobody at work.
LEMMA CompleteIsQuiet ==
  ASSUME PTInv, NEW t \in Ticks, marker[Project].tick = NoTick, AllPhasesComplete(t)
  PROVE  Quiet(t)
  <1>1. RunsFit /\ CardsFit(t) /\ ClaimsFit(t) /\ TypeOK /\ RegTypeOK
    BY DEF PTInv, BoardFits, TypeOK
  <1>2. CASE ~Chained(t)
    <2>1. Blank(t)
      BY <1>1, <1>2 DEF CardsFit
    <2> QED BY <2>1, Basics DEF Blank, Quiet
  <1>3. CASE Chained(t)
    <2>1. kind[t] # "idle"
      BY <1>3 DEF Chained
    <2>2. /\ \A p \in StatusMap(t) : card[t][p] = "done"
          /\ kind[t] = "pinned" => ChainDone(t)
          /\ Expected(t)
      BY <1>1, <2>1 DEF AllPhasesComplete, RunsFit
    <2>3. \A p \in 1..NPhases : p \in Positions /\ p > 0 /\ (p > Chain(t) \/ p \in 1..Chain(t))
      <3>1. Chain(t) \in Nat
        BY ChainsAndPlaces, Basics
      <3> QED BY <3>1, Basics
    <2>4. \A p \in 1..NPhases : p > Chain(t) => card[t][p] = "none" /\ ~active[t][p]
      BY <1>1, <2>3 DEF CardsFit, Live
    <2>5. \A p \in 1..NPhases : card[t][p] = "done" => ~active[t][p]
      BY <1>1, <2>3 DEF CardsFit
    <2>6. CASE ChainDone(t)
      BY <2>3, <2>4, <2>5, <2>6 DEF ChainDone, Quiet
    <2>7. CASE ~ChainDone(t)
      <3>1. kind[t] = "legacy" /\ Chain(t) = NPhases /\ PlaceOf(t) = Project /\ ~admitted[t] /\ ~Named(t)
        BY <1>1, <1>3, <2>2, <2>7, Basics DEF Chained, Chain, PlaceOf, CardsFit, Named
      <3>2. expected[Project] \in {"none", "legacy"}
        BY <2>2, <2>7 DEF Expected
      <3>3. expected[Project] = "none"
        <4> SUFFICES ASSUME expected[Project] = "legacy"
                     PROVE  FALSE
          BY <3>2
        <4>1. StatusMap(t) = 0..NPhases
          BY <2>2 DEF Expected
        <4>2. \A p \in 1..Chain(t) : p \in StatusMap(t)
          BY <3>1, <4>1, Basics
        <4> QED BY <2>2, <2>7, <4>2 DEF ChainDone
      <3>4. ~Decided(t) /\ ~Unseen(t)
        BY <3>1, <3>3 DEF Decided, Unseen
      <3>5. \A p \in 1..NPhases : ~Claimed(t, p)
        BY <1>1, <3>1, <3>4 DEF ClaimsFit
      <3>6. \A p \in 1..NPhases : card[t][p] \in {"none", "late", "todo", "archived"} /\ ~active[t][p]
        BY <1>1, <2>3, <3>5 DEF Claimed, RegTypeOK, CardStatus
      <3>7. \A p \in 1..NPhases : card[t][p] # "late"
        BY <1>1, <2>3, <3>1 DEF CardsFit
      <3>8. \A p \in 1..NPhases : card[t][p] # "todo"
        <4> SUFFICES ASSUME NEW p \in 1..NPhases, card[t][p] = "todo"
                     PROVE  FALSE
          OBVIOUS
        <4>1. p \in 0..Chain(t)
          BY <3>1, Basics
        <4>2. p \in StatusMap(t)
          BY <4>1 DEF StatusMap, Live
        <4> QED BY <2>2, <4>2
      <3> QED BY <3>6, <3>7, <3>8 DEF Quiet
    <2> QED BY <2>6, <2>7
  <1> QED BY <1>2, <1>3

\* The prior run is complete, or the tick ends.
LEMMA CheckCompleteInv ==
  ASSUME PTInv, TypeOK', CheckComplete
  PROVE  PTInv'
  <1>1. /\ tick.pc = "complete"
        /\ UNCHANGED <<kind, card, active, admitted, marker, expected, job, cancelled, current, run,
                       finish, stopped>>
        /\ \/ AllPhasesComplete(Prior) /\ To("outcomes") /\ UNCHANGED outcome
           \/ Returns /\ (UNCHANGED outcome \/ WriteOutcomes(Prior, "failed"))
    BY DEF CheckComplete, Stalls
  <1>2. /\ Prior = current /\ current \in Ticks /\ marker[Project].tick = NoTick /\ job.mode = "none"
        /\ tick.prior = Prior /\ TypeOK /\ ~stopped
    BY <1>1, PriorKnows, TickAlone DEF PTInv
  <1>3. CASE AllPhasesComplete(Prior) /\ To("outcomes") /\ UNCHANGED outcome
    <2>1. Quiet(current)
      BY <1>2, <1>3, CompleteIsQuiet
    <2>2. tick'.prior = Prior /\ tick'.pc = "outcomes"
      BY <1>1, <1>2, <1>3, TickAlone DEF To
    <2>3. TickFits'
      BY <1>1, <1>2, <2>2 DEF TickFits
    <2> QED BY <1>1, <1>2, <1>3, <2>1, <2>2, <2>3, StepsInv
  <1>4. CASE Returns /\ (UNCHANGED outcome \/ WriteOutcomes(Prior, "failed"))
    <2>1. \A t \in Ticks : "picked_none" \in outcome'[t] <=> "picked_none" \in outcome[t]
      BY <1>2, <1>4, WritesNoPick
    <2>2. \A t \in Ticks : run'[t] = "delivered" \/ finish'[t] => Through(t)
      BY <1>1 DEF Through
    <2> QED BY <1>1, <1>2, <1>4, <2>1, <2>2, ReturnsInv
  <1> QED BY <1>1, <1>3, <1>4

\* The outcomes are written and the pull request is awaited.
LEMMA ObserveOutcomesInv ==
  ASSUME PTInv, TypeOK', ObserveOutcomes
  PROVE  PTInv'
  <1>1. /\ tick.pc = "outcomes" /\ WriteOutcomes(Prior, "complete")
        /\ UNCHANGED <<kind, card, active, admitted, marker, expected, job, cancelled, run,
                       finish, stopped>>
        /\ \/ current' \in {current, NoTick} /\ To("history")
           \/ Returns /\ UNCHANGED current
    BY DEF ObserveOutcomes, Stalls, outcomesFrame
  <1>2. /\ Prior = current /\ current \in Ticks /\ marker[Project].tick = NoTick /\ job.mode = "none"
        /\ tick.prior = Prior /\ TypeOK /\ ~stopped /\ RunsFit /\ QuietFits
    BY <1>1, PriorKnows, TickAlone DEF PTInv
  <1>3. \A t \in Ticks : "picked_none" \in outcome'[t] <=> "picked_none" \in outcome[t]
    BY <1>1, <1>2, WritesNoPick
  <1>4. \A t \in Ticks : run'[t] = "delivered" \/ finish'[t] => Through(t)
    BY <1>1 DEF Through
  <1>5. CASE Returns /\ UNCHANGED current
    BY <1>1, <1>2, <1>3, <1>4, <1>5, ReturnsInv
  <1>6. CASE current' \in {current, NoTick} /\ To("history")
    <2>1. tick'.pc = "history"
      BY <1>1, <1>6, TickAlone DEF To
    <2>2. \A t \in Ticks : Quiet(t)
      BY <1>1, <1>2, Basics DEF QuietFits
    <2>3. TickFits'
      BY <1>1, <1>2, <2>1 DEF TickFits
    <2>4. \A t \in Ticks : Through(t)' => card[t][1] = "done" /\ kind[t] = "pinned"
      BY <1>2, <1>4, <2>1 DEF Through, QuietFits
    <2>5. /\ \A t \in Ticks : run'[t] # "none" => kind[t] = "pinned"
          /\ \A t \in Ticks : run'[t] = "abandoned" => Fresh(t)
          /\ \A t \in Ticks : "picked_none" \in outcome'[t] => kind[t] = "idle"
          /\ current' # NoTick => kind[current'] # "unused"
          /\ PickedNoneIsEvident'
      BY <1>1, <1>2, <1>3, <1>6 DEF RunsFit, PickedNoneIsEvident
    <2>6. current' # NoTick => Quiet(current')
      BY <1>2, <1>6, <2>2
    <2> QED BY <1>1, <1>2, <2>1, <2>2, <2>3, <2>4, <2>5, <2>6, SteppedInv
  <1> QED BY <1>1, <1>5, <1>6

\* The history of runs is looked at.
LEMMA CheckHistoryInv ==
  ASSUME PTInv, TypeOK', CheckHistory
  PROVE  PTInv'
  <1>1. /\ tick.pc = "history" /\ (Returns \/ To("select"))
        /\ UNCHANGED <<kind, card, active, admitted, marker, expected, job, cancelled, current, outcome,
                       run, finish, stopped>>
    BY DEF CheckHistory, Stalls, regVars
  <1>2. job.mode = "none" /\ ~stopped /\ QuietFits /\ marker[Project].tick = NoTick
    BY <1>1, TickAlone DEF PTInv, ProjectClear
  <1>3. tick'.pc \in {"idle", "select"}
    BY <1>1, TickAlone DEF To, Returns, Idle
  <1>4. TickFits'
    BY <1>1, <1>2, <1>3 DEF TickFits
  <1>5. current # NoTick => Quiet(current)
    BY <1>1, <1>2 DEF QuietFits, Selection
  <1> QED BY <1>1, <1>2, <1>3, <1>4, <1>5, StepsInv

\* A contract that does not hold, a tracker that fails and the claim of the issue end the tick.
LEMMA EndingInv ==
  ASSUME PTInv, TypeOK', ContractInvalid \/ TrackerError \/ ClaimIssue
  PROVE  PTInv'
  <1>1. /\ tick.pc \in {"select", "claim"} /\ Returns
        /\ UNCHANGED <<kind, card, active, admitted, marker, expected, job, cancelled, current, outcome,
                       run, finish, stopped>>
    BY DEF ContractInvalid, TrackerError, ClaimIssue, Selecting, selectFrame
  <1>2. job.mode = "none"
    BY <1>1, TickAlone
  <1>3. \A t \in Ticks : run'[t] = "delivered" \/ finish'[t] => Through(t)
    BY <1>1 DEF Through
  <1> QED BY <1>1, <1>2, <1>3, ReturnsInv

\* A tick id is spent: nothing was under it.
LEMMA SpendingKeeps ==
  ASSUME PTInv, NEW N \in Ticks, kind[N] = "unused", NEW k \in {"idle", "legacy", "pinned"},
         kind' = [kind EXCEPT ![N] = k],
         UNCHANGED <<card, active, admitted, marker, expected, stopped>>
  PROVE  /\ MarkersFit' /\ \A t \in Ticks : BoardFits(t)'
         /\ \A t \in Ticks : t # N => kind'[t] = kind[t]
         /\ kind'[N] = k
         /\ \A t \in Ticks : (Fresh(t) => Fresh(t)') /\ (Quiet(t) => Quiet(t)')
         /\ Fresh(N)' /\ run[N] = "none" /\ current # N /\ "picked_none" \notin outcome[N]
  <1>1. kind \in [Ticks -> {"unused", "idle", "legacy", "pinned"}] /\ MarkersFit /\ CardsFit(N) /\ TypeOK
        /\ marker \in [Places -> MarkerType] /\ RunsFit
    BY DEF PTInv, TypeOK, RegTypeOK, BoardFits
  <1>2. kind'[N] = k /\ \A t \in Ticks : t # N => kind'[t] = kind[t]
    BY <1>1
  <1>3. \A t \in Ticks : t # N => SameBoard(t)
    BY <1>2 DEF SameBoard
  <1>4. ~Chained(N) /\ Blank(N) /\ \A q \in Places : marker[q].tick # N
    BY <1>1 DEF Chained, CardsFit, MarkersFit
  <1>5. MarkersFit'
    <2>1. \A t \in Ticks : t # N => /\ (Chained(t)' <=> Chained(t)) /\ PlaceOf(t)' = PlaceOf(t)
                                    /\ Chain(t)' = Chain(t)
      BY <1>2, SamePlace
    <2> QED BY <1>1, <1>4, <2>1 DEF MarkersFit
  <1>6. Blank(N)' /\ ~Named(N)'
    <2>1. PlaceOf(N)' \in Places
      BY Basics DEF PlaceOf
    <2> QED BY <1>4, <2>1 DEF Blank, Named
  <1>7. BoardFits(N)'
    <2>1. CardsFit(N)'
      BY <1>6, Basics DEF CardsFit, Blank
    <2>2. CommitsFit(N)'
      BY <1>6, Basics DEF CommitsFit, Blank, Barrier
    <2>3. OrphansFit(N)'
      BY <1>6 DEF OrphansFit, Standing, Blank, Live
    <2>4. ChildrenFirst(N)'
      BY <1>6, Basics DEF ChildrenFirst, Standing, Blank, Live
    <2>5. ClaimsFit(N)'
      BY <1>6, Basics DEF ClaimsFit, Claimed, Blank
    <2> QED BY <2>1, <2>2, <2>3, <2>4, <2>5 DEF BoardFits
  <1>8. \A t \in Ticks : BoardFits(t)'
    BY <1>3, <1>7, SameBoardKeeps DEF PTInv
  <1>9. \A t \in Ticks : (Fresh(t) => Fresh(t)') /\ (Quiet(t) => Quiet(t)')
    BY <1>3, <1>6, SameBoardKeeps DEF Fresh, Quiet
  <1>10. run[N] = "none" /\ current # N /\ "picked_none" \notin outcome[N]
    BY <1>1, Basics DEF RunsFit
  <1> QED BY <1>2, <1>5, <1>6, <1>8, <1>9, <1>10 DEF Fresh

\* An issue is picked, or none is.
LEMMA PickingInv ==
  ASSUME PTInv, TypeOK', PickNone \/ Pick
  PROVE  PTInv'
  <1>1. /\ tick.pc = "select" /\ Unused # {}
        /\ UNCHANGED <<card, active, admitted, marker, expected, job, cancelled, current, outcome,
                       run, finish, stopped>>
    BY DEF PickNone, Pick, Selecting, selectFrame
  <1>2. PICK k \in {"idle", "legacy", "pinned"} :
          /\ kind' = [kind EXCEPT ![NextId] = k]
          /\ IF k = "idle" THEN tick'.pc = "nopick"
             ELSE tick'.pc = IF k = "pinned" THEN "register" ELSE "bind"
          /\ tick'.id = NextId
    BY <1>1, TickAlone, KindsAssumption DEF PickNone, Pick
  <1>3. PICK N \in Ticks : N = NextId /\ kind[N] = "unused"
    BY <1>1, NextIdIsUnused DEF Unused
  <1>4. /\ job.mode = "none" /\ ~stopped /\ cancelled = {} /\ marker[Project].tick = NoTick
        /\ RunsFit /\ QuietFits /\ JobFits /\ TypeOK
    BY <1>1, TickAlone DEF PTInv, ProjectClear
  <1>5. /\ MarkersFit' /\ \A t \in Ticks : BoardFits(t)'
        /\ \A t \in Ticks : t # N => kind'[t] = kind[t]
        /\ kind'[N] = k
        /\ \A t \in Ticks : (Fresh(t) => Fresh(t)') /\ (Quiet(t) => Quiet(t)')
        /\ Fresh(N)' /\ run[N] = "none" /\ current # N /\ "picked_none" \notin outcome[N]
    BY <1>1, <1>2, <1>3, SpendingKeeps
  <1>6. tick'.id = N /\ tick'.pc \in {"nopick", "register", "bind"}
        /\ (tick'.pc = "nopick" <=> k = "idle") /\ (tick'.pc = "register" => k = "pinned")
    BY <1>2, <1>3
  <1>7. JobFits'
    <2>1. job'.mode = "none" /\ job'.pc = "none"
      BY <1>1, <1>4 DEF JobFits
    <2> QED BY <2>1, EndedFits
  <1>8. ProjectClear'
    BY <1>1, <1>4, <1>6 DEF ProjectClear
  <1>9. TickFits'
    <2>1. k # "idle" => Chained(N)'
      BY <1>5 DEF Chained
    <2> QED BY <1>1, <1>4, <1>5, <1>6, <2>1 DEF TickFits
  <1>10. RunsFit'
    <2>1. \A t \in Ticks : run'[t] # "none" => kind'[t] = "pinned"
      BY <1>1, <1>4, <1>5 DEF RunsFit
    <2>2. \A t \in Ticks : run'[t] = "abandoned" => Fresh(t)'
      BY <1>1, <1>4, <1>5 DEF RunsFit
    <2>3. \A t \in Ticks : "picked_none" \in outcome'[t] => kind'[t] = "idle"
      BY <1>1, <1>4, <1>5 DEF RunsFit
    <2>4. current' # NoTick => kind'[current'] = kind[current]
      BY <1>1, <1>4, <1>5 DEF TypeOK
    <2>5. (current' # NoTick => kind'[current'] # "unused") /\ PickedNoneIsEvident'
      BY <1>1, <1>4, <2>4 DEF RunsFit, PickedNoneIsEvident
    <2> QED BY <2>1, <2>2, <2>3, <2>5 DEF RunsFit
  <1>11. CancelledFit'
    BY <1>1, <1>4 DEF CancelledFit, CancelledMeansStopped
  <1>12. QuietFits'
    <2>1. \A t \in Ticks : Through(t)' => Through(t)
      BY <1>1, <1>6 DEF Through
    <2>2. current # NoTick => Quiet(current)'
      BY <1>1, <1>4, <1>5 DEF QuietFits, Selection, TypeOK
    <2>3. \A t \in Ticks : Through(t)' => card'[t][1] = "done" /\ kind'[t] = "pinned"
      BY <1>1, <1>3, <1>4, <1>5, <2>1 DEF QuietFits
    <2> QED BY <1>1, <1>4, <1>5, <2>2, <2>3 DEF QuietFits
  <1> QED BY <1>5, <1>7, <1>8, <1>9, <1>10, <1>11, <1>12 DEF PTInv

\* Nothing is picked: the evidence is written, then the pointer.
LEMMA RecordPickedNoneInv ==
  ASSUME PTInv, TypeOK', RecordPickedNone
  PROVE  PTInv'
  <1>1. /\ tick.pc = "nopick"
        /\ UNCHANGED <<kind, card, active, admitted, marker, expected, job, cancelled, current,
                       run, finish, stopped>>
        /\ \/ outcome' = [outcome EXCEPT ![tick.id] = {"picked_none"}] /\ To("nopersist")
           \/ Returns /\ UNCHANGED outcome
    BY DEF RecordPickedNone
  <1>2. /\ job.mode = "none" /\ ~stopped /\ marker[Project].tick = NoTick /\ TypeOK
        /\ RunsFit /\ QuietFits /\ TickFits
    BY <1>1, TickAlone DEF PTInv, ProjectClear
  <1>3. tick.id \in Ticks /\ kind[tick.id] = "idle"
    BY <1>1, <1>2 DEF TickFits
  <1>4. CASE Returns /\ UNCHANGED outcome
    <2>1. \A t \in Ticks : run'[t] = "delivered" \/ finish'[t] => Through(t)
      BY <1>1 DEF Through
    <2> QED BY <1>1, <1>2, <1>4, <2>1, ReturnsInv
  <1>5. CASE outcome' = [outcome EXCEPT ![tick.id] = {"picked_none"}] /\ To("nopersist")
    <2>1. tick'.pc = "nopersist" /\ tick'.id = tick.id
      BY <1>1, <1>5, TickAlone DEF To
    <2>2. /\ \A t \in Ticks : t # tick.id => outcome'[t] = outcome[t]
          /\ "picked_none" \in outcome'[tick.id]
      BY <1>2, <1>3, <1>5 DEF TypeOK
    <2>3. TickFits'
      BY <1>1, <1>2, <1>3, <2>1, <2>2 DEF TickFits
    <2>4. /\ \A t \in Ticks : run'[t] # "none" => kind[t] = "pinned"
          /\ \A t \in Ticks : run'[t] = "abandoned" => Fresh(t)
          /\ \A t \in Ticks : "picked_none" \in outcome'[t] => kind[t] = "idle"
          /\ current' # NoTick => kind[current'] # "unused"
      BY <1>1, <1>2, <1>3, <2>2 DEF RunsFit
    <2>5. PickedNoneIsEvident'
      <3>1. current \in Ticks \cup {NoTick}
        BY <1>2 DEF TypeOK
      <3> QED BY <1>1, <1>2, <2>2, <3>1 DEF RunsFit, PickedNoneIsEvident
    <2>6. /\ \A t \in Ticks : t # current' => Quiet(t)
          /\ tick'.pc \in Selection \cup {"outcomes"} /\ current' # NoTick => Quiet(current')
      BY <1>1, <1>2 DEF QuietFits, Selection
    <2>7. \A t \in Ticks : Through(t)' => card[t][1] = "done" /\ kind[t] = "pinned"
      BY <1>1, <1>2, <2>1 DEF Through, QuietFits
    <2> QED BY <1>1, <1>2, <2>1, <2>3, <2>4, <2>5, <2>6, <2>7, SteppedInv
  <1> QED BY <1>1, <1>4, <1>5

\* While the next issue is selected, nobody is at work.
LEMMA SelectingIsQuiet ==
  ASSUME PTInv, tick.pc \in Selection
  PROVE  \A t \in Ticks : Quiet(t)
  <1>1. QuietFits
    BY DEF PTInv
  <1>2. ASSUME NEW t \in Ticks, t = current
        PROVE  Quiet(t)
    <2>1. current # NoTick
      BY <1>2, Basics
    <2> QED BY <1>1, <1>2, <2>1 DEF QuietFits
  <1> QED BY <1>1, <1>2 DEF QuietFits

\* The pointer names the tick that picked none.
LEMMA PersistPickedNoneInv ==
  ASSUME PTInv, TypeOK', PersistPickedNone
  PROVE  PTInv'
  <1>1. /\ tick.pc = "nopersist" /\ Returns /\ current' = tick.id
        /\ UNCHANGED <<kind, card, active, admitted, marker, expected, job, cancelled, outcome,
                       run, finish, stopped>>
    BY DEF PersistPickedNone, regVars
  <1>2. job.mode = "none" /\ ~stopped /\ RunsFit /\ QuietFits /\ TickFits
    BY <1>1, TickAlone DEF PTInv
  <1>3. tick.id \in Ticks /\ kind[tick.id] = "idle" /\ "picked_none" \in outcome[tick.id]
    BY <1>1, <1>2 DEF TickFits
  <1>4. \A t \in Ticks : Quiet(t)
    BY <1>1, SelectingIsQuiet DEF Selection
  <1>5. tick'.pc = "idle"
    BY <1>1 DEF Returns, Idle
  <1>6. TickFits'
    BY <1>1, <1>2, <1>5 DEF TickFits
  <1>7. /\ \A t \in Ticks : run'[t] # "none" => kind[t] = "pinned"
        /\ \A t \in Ticks : run'[t] = "abandoned" => Fresh(t)
        /\ \A t \in Ticks : "picked_none" \in outcome'[t] => kind[t] = "idle"
        /\ current' # NoTick => kind[current'] # "unused"
        /\ PickedNoneIsEvident'
    BY <1>1, <1>2, <1>3 DEF RunsFit, PickedNoneIsEvident
  <1>8. \A t \in Ticks : Through(t)' => card[t][1] = "done" /\ kind[t] = "pinned"
    BY <1>1, <1>2, <1>5 DEF Through, QuietFits
  <1>9. tick'.pc \notin Selection \cup {"outcomes"}
    BY <1>5 DEF Selection
  <1> QED BY <1>1, <1>2, <1>4, <1>5, <1>6, <1>7, <1>8, <1>9, SteppedInv

\* What the steps of a registration know.
LEMMA RegisteringKnows ==
  ASSUME PTInv, tick.pc \in {"register", "bind", "persist", "started"}
  PROVE  /\ tick.id \in Ticks /\ Chained(tick.id) /\ Fresh(tick.id)
         /\ run[tick.id] \in {"none", "active"} /\ kind[tick.id] \notin {"unused", "idle"}
         /\ tick.pc = "register" => kind[tick.id] = "pinned"
         /\ tick.pc = "started" => current = tick.id
         /\ run[tick.id] = "active" => kind[tick.id] = "pinned"
         /\ marker[Project].tick = NoTick /\ job.mode = "none" /\ ~stopped
         /\ RunsFit /\ QuietFits /\ TypeOK
  BY TickAlone DEF PTInv, TickFits, ProjectClear, RunsFit, Chained

\* registration.json is there: the executions are bound next.
LEMMA RegisterRunInv ==
  ASSUME PTInv, TypeOK', RegisterRun
  PROVE  PTInv'
  <1>1. /\ tick.pc = "register" /\ run' = [run EXCEPT ![tick.id] = "active"] /\ To("bind")
        /\ UNCHANGED <<kind, card, active, admitted, marker, expected, job, cancelled, current,
                       outcome, finish, stopped>>
    BY DEF RegisterRun, registerFrame
  <1>2. /\ tick.id \in Ticks /\ Chained(tick.id) /\ Fresh(tick.id) /\ kind[tick.id] = "pinned"
        /\ marker[Project].tick = NoTick /\ job.mode = "none" /\ ~stopped
        /\ RunsFit /\ QuietFits /\ TypeOK
    BY <1>1, RegisteringKnows
  <1>3. \A t \in Ticks : run'[t] = IF t = tick.id THEN "active" ELSE run[t]
    BY <1>1, <1>2 DEF TypeOK
  <1>4. tick'.pc = "bind" /\ tick'.id = tick.id
    BY <1>1, TickAlone DEF To
  <1>5. PICK T \in Ticks : T = tick.id
    BY <1>2
  <1>6. TickFits'
    <2>1. Fresh(T)' /\ Chained(T)'
      BY <1>1, <1>2, <1>5 DEF Fresh, Blank, Named, PlaceOf, Chained
    <2> QED BY <1>1, <1>2, <1>3, <1>4, <1>5, <2>1 DEF TickFits
  <1>7. /\ \A t \in Ticks : run'[t] # "none" => kind[t] = "pinned"
        /\ \A t \in Ticks : run'[t] = "abandoned" => Fresh(t)
        /\ \A t \in Ticks : "picked_none" \in outcome'[t] => kind[t] = "idle"
        /\ current' # NoTick => kind[current'] # "unused"
        /\ PickedNoneIsEvident'
    BY <1>1, <1>2, <1>3 DEF RunsFit, PickedNoneIsEvident
  <1>8. \A t \in Ticks : Through(t)' => card[t][1] = "done" /\ kind[t] = "pinned"
    BY <1>1, <1>2, <1>3, <1>4 DEF Through, QuietFits
  <1>9. /\ \A t \in Ticks : t # current' => Quiet(t)
        /\ tick'.pc \in Selection \cup {"outcomes"} /\ current' # NoTick => Quiet(current')
    BY <1>1, <1>2 DEF QuietFits, Selection
  <1> QED BY <1>1, <1>2, <1>4, <1>6, <1>7, <1>8, <1>9, SteppedInv

\* A registration that fails leaves no card and no marker, whatever it says of the run.
LEMMA RegistrationFailsInv ==
  ASSUME PTInv, TypeOK', RegistrationFails
  PROVE  PTInv'
  <1>1. /\ tick.pc = "register" /\ Returns
        /\ UNCHANGED <<kind, card, active, admitted, marker, expected, job, cancelled, current,
                       outcome, finish, stopped>>
        /\ \E state \in {"none", "active", "abandoned"} : run' = [run EXCEPT ![tick.id] = state]
    BY DEF RegistrationFails, registerFrame, Stalls
  <1>2. /\ tick.id \in Ticks /\ Fresh(tick.id) /\ kind[tick.id] = "pinned" /\ job.mode = "none" /\ TypeOK
    BY <1>1, RegisteringKnows
  <1>3. PICK state \in {"none", "active", "abandoned"} : run' = [run EXCEPT ![tick.id] = state]
    BY <1>1
  <1>4. \A t \in Ticks : run'[t] = IF t = tick.id THEN state ELSE run[t]
    BY <1>2, <1>3 DEF TypeOK
  <1>5. \A t \in Ticks : run'[t] = "delivered" \/ finish'[t] => Through(t)
    BY <1>1, <1>3, <1>4 DEF Through
  <1>6. \A t \in Ticks : run'[t] # run[t] => kind[t] = "pinned" /\ (run'[t] = "abandoned" => Fresh(t))
    BY <1>2, <1>4
  <1> QED BY <1>1, <1>2, <1>5, <1>6, ReturnsInv

\* The executions are bound, or the run is abandoned.
LEMMA BindExecutionsInv ==
  ASSUME PTInv, TypeOK', BindExecutions
  PROVE  PTInv'
  <1>1. /\ tick.pc = "bind"
        /\ UNCHANGED <<kind, card, active, admitted, marker, expected, job, cancelled, current,
                       outcome, finish, stopped>>
        /\ \/ To("persist") /\ UNCHANGED run
           \/ /\ Returns
              /\ run' = [run EXCEPT ![tick.id] = IF run[tick.id] = "active" THEN "abandoned"
                                                 ELSE run[tick.id]]
    BY DEF BindExecutions, Stalls
  <1>2. /\ tick.id \in Ticks /\ Chained(tick.id) /\ Fresh(tick.id)
        /\ run[tick.id] \in {"none", "active"} /\ (run[tick.id] = "active" => kind[tick.id] = "pinned")
        /\ marker[Project].tick = NoTick /\ job.mode = "none" /\ ~stopped
        /\ RunsFit /\ QuietFits /\ TypeOK
    BY <1>1, RegisteringKnows
  <1>3. CASE To("persist") /\ UNCHANGED run
    <2>1. tick'.pc = "persist" /\ tick'.id = tick.id
      BY <1>1, <1>3, TickAlone DEF To
    <2>2. PICK T \in Ticks : T = tick.id
      BY <1>2
    <2>3. TickFits'
      <3>1. Fresh(T)' /\ Chained(T)'
        BY <1>1, <1>2, <2>2 DEF Fresh, Blank, Named, PlaceOf, Chained
      <3> QED BY <1>1, <1>2, <1>3, <2>1, <2>2, <3>1 DEF TickFits
    <2>4. current # NoTick => Quiet(current)
      BY <1>1, <1>2 DEF QuietFits, Selection
    <2> QED BY <1>1, <1>2, <1>3, <2>1, <2>3, <2>4, StepsInv
  <1>4. CASE /\ Returns
             /\ run' = [run EXCEPT ![tick.id] = IF run[tick.id] = "active" THEN "abandoned"
                                                ELSE run[tick.id]]
    <2>1. \A t \in Ticks : run'[t] = IF t = tick.id /\ run[t] = "active" THEN "abandoned" ELSE run[t]
      BY <1>2, <1>4 DEF TypeOK
    <2>2. \A t \in Ticks : run'[t] = "delivered" \/ finish'[t] => Through(t)
      BY <1>1, <2>1 DEF Through
    <2>3. \A t \in Ticks : run'[t] # run[t] => kind[t] = "pinned" /\ (run'[t] = "abandoned" => Fresh(t))
      BY <1>2, <2>1
    <2> QED BY <1>1, <1>2, <1>4, <2>2, <2>3, ReturnsInv
  <1> QED BY <1>1, <1>3, <1>4

\* The pointer names the tick whose chain is about to be created.
LEMMA PersistTickIdInv ==
  ASSUME PTInv, TypeOK', PersistTickId
  PROVE  PTInv'
  <1>1. /\ tick.pc = "persist"
        /\ UNCHANGED <<kind, card, active, admitted, marker, expected, job, cancelled, outcome,
                       run, finish, stopped>>
        /\ \/ current' = tick.id /\ To("started")
           \/ Returns /\ UNCHANGED current
    BY DEF PersistTickId
  <1>2. /\ tick.id \in Ticks /\ Chained(tick.id) /\ Fresh(tick.id)
        /\ run[tick.id] \in {"none", "active"} /\ kind[tick.id] \notin {"unused", "idle"}
        /\ marker[Project].tick = NoTick /\ job.mode = "none" /\ ~stopped
        /\ RunsFit /\ QuietFits /\ TypeOK
    BY <1>1, RegisteringKnows
  <1>3. CASE Returns /\ UNCHANGED current
    <2>1. \A t \in Ticks : run'[t] = "delivered" \/ finish'[t] => Through(t)
      BY <1>1 DEF Through
    <2> QED BY <1>1, <1>2, <1>3, <2>1, ReturnsInv
  <1>4. CASE current' = tick.id /\ To("started")
    <2>1. tick'.pc = "started" /\ tick'.id = tick.id
      BY <1>1, <1>4, TickAlone DEF To
    <2>2. PICK T \in Ticks : T = tick.id
      BY <1>2
    <2>3. TickFits'
      <3>1. Fresh(T)' /\ Chained(T)'
        BY <1>1, <1>2, <2>2 DEF Fresh, Blank, Named, PlaceOf, Chained
      <3> QED BY <1>1, <1>2, <1>4, <2>1, <2>2, <3>1 DEF TickFits
    <2>4. /\ \A t \in Ticks : run'[t] # "none" => kind[t] = "pinned"
          /\ \A t \in Ticks : run'[t] = "abandoned" => Fresh(t)
          /\ \A t \in Ticks : "picked_none" \in outcome'[t] => kind[t] = "idle"
          /\ current' # NoTick => kind[current'] # "unused"
          /\ PickedNoneIsEvident'
      BY <1>1, <1>2, <1>4 DEF RunsFit, PickedNoneIsEvident
    <2>5. \A t \in Ticks : Quiet(t)
      BY <1>1, SelectingIsQuiet DEF Selection
    <2>6. \A t \in Ticks : Through(t)' => card[t][1] = "done" /\ kind[t] = "pinned"
      BY <1>1, <1>2, <2>1 DEF Through, QuietFits
    <2>7. tick'.pc \notin Selection \cup {"outcomes"}
      BY <2>1 DEF Selection
    <2> QED BY <1>1, <1>2, <2>1, <2>3, <2>4, <2>5, <2>6, <2>7, SteppedInv
  <1> QED BY <1>1, <1>3, <1>4

\* The creation of the chain begins: nothing of it is there.
LEMMA BeginChainInv ==
  ASSUME PTInv, TypeOK', BeginChain
  PROVE  PTInv'
  <1>1. /\ tick.pc = "started" /\ To("chain")
        /\ UNCHANGED <<kind, card, active, admitted, marker, expected, cancelled, current,
                       run, finish, stopped>>
        /\ UNCHANGED outcome \/ outcome' = [outcome EXCEPT ![tick.id] = outcome[tick.id] \cup {"tick_started"}]
        /\ job' = [NoJob EXCEPT !.mode = "create", !.pc = "intent", !.place = PlaceOf(tick.id),
                                !.tick = tick.id]
    BY DEF BeginChain, BeginCreate
  <1>2. /\ tick.id \in Ticks /\ Chained(tick.id) /\ Fresh(tick.id)
        /\ run[tick.id] \in {"none", "active"} /\ current = tick.id
        /\ marker[Project].tick = NoTick /\ job.mode = "none" /\ ~stopped
        /\ RunsFit /\ QuietFits /\ TypeOK
    BY <1>1, RegisteringKnows
  <1>3. PICK T \in Ticks : T = tick.id
    BY <1>2
  <1>4. /\ job'.mode = "create" /\ job'.pc = "intent" /\ job'.place = PlaceOf(T) /\ job'.tick = T
        /\ job'.at = 0
    BY <1>1, <1>3 DEF NoJob
  <1>5. tick'.pc = "chain" /\ tick'.id = T
    BY <1>1, <1>3, TickAlone DEF To
  <1>6. Blank(T) /\ ~Named(T) /\ Chained(T) /\ ~admitted[T] /\ current = T
    BY <1>2, <1>3 DEF Fresh, Blank
  <1>7. CreateFits(T)'
    <2>1. (Chained(T) /\ ~admitted[T] /\ job.place = PlaceOf(T))'
      BY <1>1, <1>4, <1>6 DEF Chained, PlaceOf
    <2>2. (tick.pc = "chain" /\ tick.id = T /\ current = T)'
      BY <1>1, <1>5, <1>6
    <2>3. \A p \in 1..NPhases : ~Claimed(T, p)'
      BY <1>1, <1>6, Basics DEF Claimed, Blank
    <2>4. CreatedSoFar(T)'
      <3>1. Chain(T)' >= 0
        BY <1>1, <1>3, SamePlace, ChainsAndPlaces, Basics
      <3>2. \A q \in Positions : q \in Nat
        BY Basics
      <3>3. \A q \in Positions : card'[T][q] = "none" /\ ~(q < 0)
        BY <1>1, <1>6, <3>2 DEF Blank
      <3>4. card'[T][0] = "none"
        BY <3>3, Basics
      <3> QED BY <1>4, <3>1, <3>3, <3>4 DEF CreatedSoFar
    <2>5. MarkedSoFar(T)'
      <3>1. ~Named(T)'
        BY <1>1, <1>6 DEF Named, PlaceOf
      <3> QED BY <1>4, <3>1 DEF MarkedSoFar
    <2>6. (job.pc \in Creating \cup Undoing /\ job.pc \notin {"undo", "archive"})'
      BY <1>4 DEF Creating
    <2> QED BY <2>1, <2>2, <2>3, <2>4, <2>5, <2>6 DEF CreateFits
  <1>8. JobFits'
    <2>1. job'.pc \notin {"none", "look"} \cup Undoing \cup Cancelling
      BY <1>4 DEF Undoing, Cancelling
    <2> QED BY <1>3, <1>4, <1>7, <2>1 DEF JobFits
  <1>9. ProjectClear'
    BY <1>1, <1>2, <1>5 DEF ProjectClear
  <1>10. TickFits'
    BY <1>1, <1>2, <1>3, <1>4, <1>5 DEF TickFits
  <1>11. \A t \in Ticks : "picked_none" \in outcome'[t] <=> "picked_none" \in outcome[t]
    BY <1>1, <1>2 DEF TypeOK
  <1>12. /\ \A t \in Ticks : run'[t] # "none" => kind[t] = "pinned"
         /\ \A t \in Ticks : run'[t] = "abandoned" => Fresh(t)
         /\ \A t \in Ticks : "picked_none" \in outcome'[t] => kind[t] = "idle"
         /\ current' # NoTick => kind[current'] # "unused"
    BY <1>1, <1>2, <1>11 DEF RunsFit
  <1>13. PickedNoneIsEvident'
    BY <1>1, <1>2, <1>11 DEF RunsFit, PickedNoneIsEvident
  <1>14. \A t \in Ticks : Through(t)' => card[t][1] = "done" /\ kind[t] = "pinned"
    BY <1>1, <1>2, <1>5 DEF Through, QuietFits
  <1>15. \A t \in Ticks : t # current' => Quiet(t)
    BY <1>1, <1>2 DEF QuietFits
  <1>16. tick'.pc \notin Selection \cup {"outcomes"}
    BY <1>5 DEF Selection
  <1>17. cancelled = {}
    BY <1>1, TickAlone
  <1> QED BY <1>1, <1>8, <1>9, <1>10, <1>12, <1>13, <1>14, <1>15, <1>16, <1>17, FramedInv

\* The creation of the chain is over.
LEMMA ChainCreatedInv ==
  ASSUME PTInv, TypeOK', ChainCreated
  PROVE  PTInv'
  <1>1. /\ tick.pc = "chain" /\ job.mode = "none" /\ (Returns \/ To("claim"))
        /\ UNCHANGED <<kind, card, active, admitted, marker, expected, job, cancelled, current, outcome,
                       run, finish, stopped>>
    BY DEF ChainCreated, Free, regVars
  <1>2. tick'.pc \in {"idle", "claim"} /\ ~stopped
    BY <1>1, TickAlone DEF To, Returns, Idle
  <1>3. TickFits'
    BY <1>1, <1>2 DEF TickFits
  <1>4. tick'.pc \notin Selection \cup {"outcomes"}
    BY <1>2 DEF Selection
  <1> QED BY <1>1, <1>2, <1>3, <1>4, StepsInv

\* Every step of the tick keeps the invariant.
LEMMA TickStepInv ==
  ASSUME PTInv, TypeOK', TickStep
  PROVE  PTInv'
  <1>1. MarkerChecked => PTInv'
    BY MarkerCheckedInv
  <1>2. CheckDrift \/ AdmitWorker \/ AcceptResults => PTInv'
    BY CheckDriftInv, AdmitWorkerInv, AcceptResultsInv
  <1>3. BlockDrift \/ RejectResults \/ HandoffUnverified => PTInv'
    BY StallingInv
  <1>4. ReconcileDelivery \/ CheckComplete \/ ObserveOutcomes => PTInv'
    BY ReconcileDeliveryInv, CheckCompleteInv, ObserveOutcomesInv
  <1>5. CheckHistory => PTInv'
    BY CheckHistoryInv
  <1>6. ContractInvalid \/ TrackerError \/ ClaimIssue => PTInv'
    BY EndingInv
  <1>7. PickNone \/ Pick => PTInv'
    BY PickingInv
  <1>8. RecordPickedNone \/ PersistPickedNone => PTInv'
    BY RecordPickedNoneInv, PersistPickedNoneInv
  <1>9. RegisterRun \/ RegistrationFails \/ BindExecutions \/ PersistTickId => PTInv'
    BY RegisterRunInv, RegistrationFailsInv, BindExecutionsInv, PersistTickIdInv
  <1>10. BeginChain \/ ChainCreated => PTInv'
    BY BeginChainInv, ChainCreatedInv
  <1> QED BY <1>1, <1>2, <1>3, <1>4, <1>5, <1>6, <1>7, <1>8, <1>9, <1>10 DEF TickStep

-----------------------------------------------------------------------------
(* The invariant and what follows from it.                                 *)

\* The invariant holds at the start.
LEMMA PTInit == Init => PTInv
  <1> SUFFICES ASSUME Init
               PROVE  PTInv
    OBVIOUS
  <1>1. TypeOK
    BY TypeInit
  <1>2. /\ \A t \in Ticks : kind[t] = "unused" /\ ~admitted[t] /\ run[t] = "none" /\ ~finish[t]
                            /\ outcome[t] = {}
        /\ \A t \in Ticks : \A p \in Positions : card[t][p] = "none" /\ ~active[t][p]
        /\ \A q \in Places : marker[q] = NoMarker
        /\ job = NoJob /\ cancelled = {} /\ tick = Idle /\ current = NoTick /\ ~stopped
    BY DEF Init, RegInit
  <1>3. job.mode = "none" /\ job.pc = "none" /\ tick.pc = "idle"
    BY <1>2 DEF NoJob, Idle
  <1>4. \A q \in Places : marker[q].tick = NoTick /\ marker[q].form = "none"
    BY <1>2 DEF NoMarker
  <1>5. MarkersFit
    BY <1>4, Basics DEF MarkersFit
  <1>6. ASSUME NEW t \in Ticks
        PROVE  BoardFits(t) /\ Quiet(t) /\ Fresh(t)
    <2>1. Blank(t) /\ ~Chained(t) /\ ~Named(t)
      <3>1. PlaceOf(t) \in Places /\ t # NoTick
        BY ChainsAndPlaces, Basics
      <3> QED BY <1>2, <1>4, <3>1 DEF Blank, Chained, Named
    <2>2. \A p \in Positions : card[t][p] = "none" /\ ~active[t][p]
      BY <1>2
    <2>3. 0 \in Positions /\ 1..NPhases \subseteq Positions /\ ~admitted[t]
      BY <1>2, Basics
    <2>4. CardsFit(t)
      BY <2>1, <2>2, <2>3 DEF CardsFit
    <2>5. CommitsFit(t)
      BY <2>1, <2>2, <2>3 DEF CommitsFit, Barrier
    <2>6. OrphansFit(t)
      BY <2>2 DEF OrphansFit, Standing, Live
    <2>7. ChildrenFirst(t)
      BY <2>2, <2>3 DEF ChildrenFirst, Standing, Live
    <2>8. ClaimsFit(t)
      BY <2>2, <2>3 DEF ClaimsFit, Claimed
    <2>9. Quiet(t)
      BY <2>2, <2>3 DEF Quiet
    <2> QED BY <2>1, <2>4, <2>5, <2>6, <2>7, <2>8, <2>9 DEF BoardFits, Fresh
  <1>7. JobFits
    BY <1>3 DEF JobFits, Creating, Undoing, Cancelling
  <1>8. ProjectClear
    BY <1>3 DEF ProjectClear
  <1>9. TickFits
    BY <1>2, <1>3 DEF TickFits
  <1>10. RunsFit
    BY <1>2 DEF RunsFit, PickedNoneIsEvident
  <1>11. CancelledFit
    BY <1>2 DEF CancelledFit, CancelledMeansStopped
  <1>12. QuietFits
    BY <1>2, <1>3, <1>6 DEF QuietFits, Through
  <1> QED BY <1>1, <1>5, <1>6, <1>7, <1>8, <1>9, <1>10, <1>11, <1>12 DEF PTInv

\* Every step keeps the invariant.
LEMMA PTNext == PTInv /\ [Next]_vars => PTInv'
  <1> SUFFICES ASSUME PTInv, [Next]_vars
               PROVE  PTInv'
    OBVIOUS
  <1>1. TypeOK'
    BY TypeNext
  <1>2. CASE TickBegins
    BY <1>1, <1>2, TickBeginsInv
  <1>3. CASE TickStep
    BY <1>1, <1>3, TickStepInv
  <1>4. CASE TickDies
    BY <1>1, <1>4, TickDiesInv
  <1>5. CASE JobStep /\ UNCHANGED tickVars
    BY <1>5, JobStepInv
  <1>6. CASE \E t \in Ticks, p \in Positions : p > 0 /\ CardMoves(t, p) /\ UNCHANGED tickVars
    BY <1>6, BoardStepInv
  <1>7. CASE \E t \in Ticks : LateCardShows(t, 0) /\ UNCHANGED tickVars
    BY <1>7, BoardStepInv
  <1>8. CASE \E t \in Ticks : OpenPullRequest(t) \/ ResolvePullRequest(t)
    BY <1>1, <1>8, StillInv DEF OpenPullRequest, ResolvePullRequest
  <1>9. CASE \E i \in Issues : IssueChanges(i)
    BY <1>1, <1>9, StillInv DEF IssueChanges
  <1>10. CASE HarnessStops
    BY <1>1, <1>10, HarnessStopsInv
  <1>11. CASE HarnessCancels
    BY <1>1, <1>11, HarnessCancelsInv
  <1>12. CASE UNCHANGED vars
    BY <1>1, <1>12, StillInv DEF vars, tickVars
  <1> QED BY <1>2, <1>3, <1>4, <1>5, <1>6, <1>7, <1>8, <1>9, <1>10, <1>11, <1>12 DEF Next

\* The inductive invariant holds of every tick, job, board and cancellation.
THEOREM ProjectTickInvariantHolds == Spec => []PTInv
  BY PTInit, PTNext, PTL DEF Spec

\* Every variable keeps its type, the counted faults, crashes and stalls within their bounds.
THEOREM TypesHold == Spec => []TypeOK
  <1>1. PTInv => TypeOK
    BY DEF PTInv
  <1> QED BY <1>1, ProjectTickInvariantHolds, PTL

\* A worker card is claimed only on a chain whose creation was committed, or that the schedule
\* admitted (kanban_tasks.py, create_prepared_todo_phases).
THEOREM ReleasesAreCommitted == Spec => []ReleasedMeansCommitted
  <1>1. PTInv => ReleasedMeansCommitted
    BY DEF PTInv, BoardFits, ClaimsFit, Decided, ReleasedMeansCommitted
  <1> QED BY <1>1, ProjectTickInvariantHolds, PTL

\* Whatever a dead or failed creation left on the board is named by a marker, or is a chain that
\* was released (kanban_tasks.py, reconcile_pending_task_create).
THEOREM OrphansStayNamed == Spec => []OrphansAreNamed
  <1>1. PTInv => OrphansAreNamed
    BY DEF PTInv, BoardFits, OrphansFit, CardsFit, Named, Upto, Form, Standing, OrphansAreNamed
  <1> QED BY <1>1, ProjectTickInvariantHolds, PTL

\* A tick that was reported cancelled has nothing left that a dispatcher could run
\* (kanban_tasks.py, cancel_tick_tasks).
THEOREM CancellationStops == Spec => []CancelledMeansStopped
  <1>1. PTInv => CancelledMeansStopped
    BY DEF PTInv, CancelledFit
  <1> QED BY <1>1, ProjectTickInvariantHolds, PTL

\* No two ticks have a worker that runs or waits for an operator (cli.py, _tick_project).
THEOREM OneRunWorks == Spec => []OneRunAtATime
  <1>1. PTInv => OneRunAtATime
    <2> SUFFICES ASSUME PTInv, NEW t \in Ticks, NEW u \in Ticks, Unfinished(t), Unfinished(u)
                 PROVE  t = u
      BY DEF OneRunAtATime
    <2>1. \A v \in Ticks : Unfinished(v) => ~Quiet(v)
      BY DEF Unfinished, Quiet
    <2> QED BY <2>1 DEF PTInv, QuietFits
  <1> QED BY <1>1, ProjectTickInvariantHolds, PTL

\* The pointer never names a tick that picked none without the evidence of it
\* (cli.py, _tick_project).
THEOREM NoneIsPickedOnEvidence == Spec => []PickedNoneIsEvident
  <1>1. PTInv => PickedNoneIsEvident
    BY DEF PTInv, RunsFit
  <1> QED BY <1>1, ProjectTickInvariantHolds, PTL
=============================================================================
