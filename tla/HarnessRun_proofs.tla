-------------------------- MODULE HarnessRun_proofs --------------------------
(***************************************************************************)
(* Proofs about HarnessRun: what a harness run destroys, what it leaves    *)
(* behind and what it reports, for any number of tick ids, cards and acts  *)
(* of people and unruly workers.                                           *)
(***************************************************************************)
EXTENDS HarnessRun, FiniteSetTheorems, TLAPS

-----------------------------------------------------------------------------
(* The inductive invariant.                                                *)

Early == {"prepare", "create", "anchor"}
Driving == {"tick", "poll", "settled", "verify"}
Destroying == {"list", "discover", "close", "prs", "branches"}
Shutting == {"shutdown", "cancel", "quiesce", "decide", "report"} \cup Destroying

\* Tick t has left something that runs, or may yet run.
Busy(t) == Created(t) # {} \/ ticks[t].late # 0

\* Ids are given out in order, and a tick whose id was not given out did nothing.
IdsInOrder ==
  /\ h.tick <= used /\ current <= used
  /\ \A t \in Ids : t > used => ~Busy(t) /\ ~ticks[t].spawnFailed
  /\ \A t \in Ids : ticks[t].orphan => Created(t) # {}
  /\ \A t \in Ids : Busy(t) => ticks[t].sentinel = "started"
  /\ h.tick # 0 => ticks[h.tick].sentinel = "started"

\* What the drive knows of the tick it drives.
DriveKnows ==
  /\ h.pc \in Early => used = 0 /\ h.tick = 0
  /\ h.pc \in Early \cup {"tick"} => h.run < Budget
  /\ h.pc = "tick" /\ h.tick = 0 => used = 0
  /\ h.pc = "recover" /\ h.tick = 0 => used <= 1
  /\ h.pc \in {"poll", "settled", "verify"} => h.tick # 0
  /\ h.pc \in Early \cup Driving \cup {"recover"} => h.errTick = 0 /\ ~h.unaccounted
  /\ h.pc = "recover" => h.run # 0
  /\ h.pc \in {"cancel", "quiesce", "decide"} \cup Destroying => ShutdownTick # 0

\* A tick that left work behind is the one that the drive follows, the one the pointer names
\* until it has been looked at, or the one that shutdown cancels, unless the harness knows that it
\* cannot name it, or has forgotten that a tick ran.
WorkIsNamed ==
  \A t \in Ids : Busy(t) =>
    /\ h.pc \in Driving => t = h.tick
    /\ h.pc = "recover" => t \in {h.tick, current}
    /\ h.pc \in Shutting => t = ShutdownTick \/ h.unaccounted \/ TickForgotten

NamesFit == IdsInOrder /\ DriveKnows /\ WorkIsNamed

Mine == {"own", "stray"}
Open(b) == pr[b] \in {"open", "sideways"}

\* Workers push, nobody else starts a branch of the run; a pull request has its branch until
\* branches are deleted; only people bring in what does not descend from the anchor.
PushesFit ==
  /\ (\A t \in Ids : Created(t) = {}) => \A b \in Mine : tip[b] = 0 /\ ~Open(b)
  /\ h.pc \notin {"branches", "report", "end"} => \A b \in Mine : Open(b) => tip[b] # 0
  /\ foreign \subseteq pushed \cup {"old"}

\* Nobody pushes, nor will anybody start to, but for the create of a pinned run that slipped.
Quiet ==
  /\ SomeoneMayPush => slipped
  /\ \A t \in Ids : ticks[t].late # 0 => kind = "pinned"

\* The harness destroys in quiet only.
QuietFits ==
  /\ h.pc = "quiesce" => /\ ~ticks[ShutdownTick].orphan
                         /\ (ticks[ShutdownTick].late # 0 => kind = "pinned")
  /\ h.pc \in {"decide", "report"} /\ h.quiescent /\ ~h.unaccounted /\ ~TickForgotten => Quiet
  /\ h.pc \in Destroying => Quiet /\ ~h.unaccounted /\ ~h.keep
  /\ \A b \in Heads : deleted[b] # 0 => Quiet /\ h.pc \in {"branches", "report", "end"}

\* What people took over, or a create that slipped may have touched.
Spared(b) == merged \/ b \in pushed \/ slipped

\* What discovery recorded of the run's branches and pull requests is what is there, until each
\* is cleaned or the harness knows that it is not.
FoundFits ==
  \A b \in Mine : ~Spared(b) =>
    /\ h.pc \in {"discover", "close"} => artifacts.tips[b] = tip[b]
    /\ h.pc \in {"prs", "branches"} /\ h.ok => artifacts.tips[b] = tip[b]
    /\ (h.pc = "close" \/ (h.pc = "prs" /\ h.ok)) /\ Open(b) => b \in artifacts.prs
    /\ h.pc = "branches" /\ h.ok => ~Open(b)
    /\ h.pc = "report" /\ h.ok /\ ~h.keep /\ ~TickForgotten => tip[b] = 0 /\ ~Open(b)

\* A branch that was listed only grows, and whoever pushes to it moves its tip; one that discovery
\* judged the run's own had no foreign commit then, and is deleted once.
JudgedFits ==
  /\ moved # {} => Listed \/ h.pc \in {"report", "end"}
  /\ \A b \in Heads :
       /\ Listed /\ artifacts.tips[b] # 0 =>
            /\ artifacts.tips[b] <= tip[b]
            /\ b \in moved => artifacts.tips[b] < tip[b]
       /\ Listed /\ h.pc # "discover" /\ artifacts.tips[b] # 0 /\ b \in foreign => artifacts.tips[b] < tip[b]
       /\ h.pc = "branches" /\ deleted[b] # 0 => artifacts.tips[b] = 0

\* The issue is closed, or the harness knows that it may not be.
IssueFits ==
  /\ h.pc = "prepare" => issue = "none" /\ ~h.incomplete
  /\ h.pc = "create" => h.incomplete
  /\ h.pc \in {"prs", "branches"} /\ h.ok => issue = "closed"
  /\ h.pc = "report" /\ h.ok /\ ~h.keep => issue = "closed" /\ ~h.unaccounted
  /\ h.pc = "report" /\ h.ok => h.quiescent

Implemented ==
  \E b \in Heads : /\ tip[b] > Anchor \/ deleted[b] > Anchor
                   /\ kind = "pinned" => b = "own"

\* Success is a board seen done, and from the verification on a branch that has the work.
SuccessFits ==
  h.success =>
    /\ h.pc \in {"verify"} \cup Shutting
    /\ \A k \in Keys : h.board[k] = "done"
    /\ h.pc # "verify" /\ ~h.failed /\ h.pending = "none" => Implemented

\* The process is gone exactly at the end, and nothing moves then.
EndFits ==
  /\ exit = "running" <=> h.pc # "end"
  /\ workspace = "removed" => h.pc = "end"

HarnessInv ==
  /\ TypeOK
  /\ NamesFit
  /\ PushesFit
  /\ QuietFits
  /\ FoundFits
  /\ JudgedFits
  /\ IssueFits
  /\ SuccessFits
  /\ EndFits

-----------------------------------------------------------------------------
(* Types.                                                                  *)

HRecords ==
  [pc : Pcs, keep : BOOLEAN, tick : 0..MaxIds, run : 0..Budget, same : 0..MAX_IDENTICAL,
   last : Boards, board : Boards, observed : SUBSET Keys,
   err : {"none", "observed", "partial"}, errTick : 0..MaxIds, unaccounted : BOOLEAN,
   success : BOOLEAN, timedOut : BOOLEAN, failed : BOOLEAN,
   pending : {"none", "poll", "other"}, incomplete : BOOLEAN, quiescent : BOOLEAN, ok : BOOLEAN]

\* What a harness step that touches the harness alone must show.
LEMMA HarnessRecordType ==
  ASSUME TypeOK
  PROVE  h \in HRecords
BY DEF TypeOK, HRecords

LEMMA FreshType ==
  ASSUME NEW keep \in BOOLEAN
  PROVE  Fresh(keep) \in HRecords /\ Fresh(keep).pc = "prepare" /\ Fresh(keep).keep = keep
BY SandboxAssumption DEF Fresh, HRecords, Pcs, Boards, NoBoard, Statuses, Budget, MAX_IDENTICAL

\* The end of the process keeps what it saw of the board and nothing else.
LEMMA EndsEffect ==
  ASSUME NEW e, NEW g \in HRecords, Ends(e, g)
  PROVE  /\ h' \in HRecords
         /\ h'.pc = "end" /\ h'.board = g.board /\ ~h'.success /\ h'.tick = 0
         /\ exit' = e
         /\ workspace' = IF ~g.keep /\ g.quiescent /\ ~g.incomplete THEN "removed" ELSE workspace
<1>1. g.keep \in BOOLEAN /\ g.board \in Boards
  BY DEF HRecords
<1>2. Fresh(g.keep) \in HRecords /\ ~Fresh(g.keep).success /\ Fresh(g.keep).tick = 0
  BY <1>1, FreshType DEF Fresh
<1>3. h' = [Fresh(g.keep) EXCEPT !.pc = "end", !.board = g.board]
  BY DEF Ends
<1>4. PICK f \in HRecords : f = Fresh(g.keep) /\ ~f.success /\ f.tick = 0
  BY <1>2
<1>5. h' = [f EXCEPT !.pc = "end", !.board = g.board]
  BY <1>3, <1>4
<1>6. h' \in HRecords
  BY <1>1, <1>5 DEF HRecords, Pcs
<1>7. h'.pc = "end" /\ h'.board = g.board /\ ~h'.success /\ h'.tick = 0
  BY <1>4, <1>5 DEF HRecords
<1>8. QED
  BY <1>6, <1>7 DEF Ends

LEMMA CreatedFinite ==
  ASSUME NEW t
  PROVE  Cardinality(Created(t)) \in Nat
<1>1. IsFiniteSet(Keys)
  BY FS_Interval, SandboxAssumption DEF Keys
<1>2. IsFiniteSet(Created(t))
  BY <1>1, FS_Subset DEF Created
<1>3. QED
  BY <1>2, FS_CardinalityType

\* What the cards of a tick are after a create, a late one among them.
LEMMA LeavesType ==
  ASSUME NEW t \in TickStates, NEW n \in Nat, NEW pending \in BOOLEAN
  PROVE  /\ Leaves(t, n, pending) \in TickStates
         /\ Leaves(t, n, pending).sentinel = t.sentinel
         /\ Leaves(t, n, pending).spawnFailed = t.spawnFailed
         /\ Leaves(t, n, pending).orphan = t.orphan
         /\ Leaves(t, n, pending).late # 0 => pending
         /\ \A k \in Keys : t.cards[k] # "absent" => Leaves(t, n, pending).cards[k] = t.cards[k]
<1> DEFINE C == [k \in Keys |-> IF t.cards[k] = "absent" /\ k <= n THEN "live" ELSE t.cards[k]]
           L == IF pending /\ n < NKeys THEN n + 1 ELSE 0
<1>1. C \in [Keys -> Statuses] /\ \A k \in Keys : t.cards[k] # "absent" => C[k] = t.cards[k]
  BY DEF TickStates, Statuses
<1>2. L \in 0..NKeys /\ (L # 0 => pending)
  BY SandboxAssumption
<1>3. Leaves(t, n, pending) = [t EXCEPT !.cards = C, !.late = L]
  BY DEF Leaves
<1> HIDE DEF C, L
<1>4. QED
  BY <1>1, <1>2, <1>3 DEF TickStates

LEMMA NoTickType ==
  /\ NoTick \in TickStates
  /\ NoTick.late = 0 /\ ~NoTick.orphan /\ \A k \in Keys : NoTick.cards[k] = "absent"
BY SandboxAssumption DEF NoTick, TickStates, Statuses

\* The tick that registers: the next id, and nothing of any other tick.
TickBegins(t) ==
  /\ t = used + 1 /\ used' = t
  /\ current' \in {current, t}
  /\ \A u \in Ids : u # t => ticks'[u] = ticks[u]
  /\ current' # t => ~Busy(t)'
  /\ ~ticks'[t].orphan
  /\ Busy(t)' => ticks'[t].sentinel = "started"

\* The tick that admits the next card of the run it follows.
TickGoesOn(t) ==
  /\ UNCHANGED <<current, used>>
  /\ \A u \in Ids : u # t => ticks'[u] = ticks[u]
  /\ t \in Ids => /\ ticks'[t].sentinel = ticks[t].sentinel
                  /\ ticks'[t].spawnFailed = ticks[t].spawnFailed
                  /\ ticks'[t].orphan = ticks[t].orphan
                  /\ \A k \in Keys : ticks[t].cards[k] # "absent" => ticks'[t].cards[k] # "absent"

LEMMA RegistersEffect ==
  ASSUME SandboxTypeOK, NEW t \in Ids, NEW n \in 0..FirstCards, NEW pending \in BOOLEAN,
         NEW spawnFailed \in BOOLEAN, NEW valid \in BOOLEAN, Registers(t, n, pending, spawnFailed, valid)
  PROVE  /\ ticks' \in [Ids -> TickStates]
         /\ current' = t
         /\ \A u \in Ids : u # t => ticks'[u] = ticks[u]
         /\ ticks'[t].sentinel = "started" /\ ~ticks'[t].orphan
<1> DEFINE L == Leaves(NoTick, n, pending)
           R == [L EXCEPT !.sentinel = "started", !.spawnFailed = spawnFailed, !.valid = valid,
                          !.expected = (n = FirstCards)]
<1>1. n \in Nat
  BY SandboxAssumption DEF FirstCards
<1>2. L \in TickStates /\ L.orphan = NoTick.orphan
  BY <1>1, LeavesType, NoTickType
<1>3. ticks' = [ticks EXCEPT ![t] = R] /\ current' = t
  BY DEF Registers
<1> HIDE DEF L
<1>4. R \in TickStates /\ R.sentinel = "started" /\ ~R.orphan
  BY <1>2, NoTickType DEF TickStates
<1> HIDE DEF R
<1>5. QED
  BY <1>3, <1>4 DEF SandboxTypeOK

LEMMA TickRegistersEffect ==
  ASSUME SandboxTypeOK, IdsInOrder, TickRegisters
  PROVE  ticks' \in [Ids -> TickStates] /\ \E t \in Ids : TickBegins(t)
<1>0. used + 1 \in Ids
  BY SandboxAssumption DEF SandboxTypeOK, TickRegisters, Ids
<1> PICK t \in Ids : t = used + 1
  BY <1>0
<1>1. used' = t /\ current < t /\ current \in Nat /\ used < t
  BY SandboxAssumption DEF SandboxTypeOK, IdsInOrder, TickRegisters, Ids
<1>2. ~Busy(t) /\ ~ticks[t].orphan /\ ticks[t] \in TickStates
  BY <1>1 DEF SandboxTypeOK, IdsInOrder, Busy, Ids
<1>3. CASE \E n \in 0..FirstCards, pending, spawnFailed, valid \in BOOLEAN :
             Registers(t, n, pending, spawnFailed, valid)
  <2>1. PICK n \in 0..FirstCards, pending \in BOOLEAN, spawnFailed \in BOOLEAN, valid \in BOOLEAN :
             Registers(t, n, pending, spawnFailed, valid)
    BY <1>3
  <2>2. /\ ticks' \in [Ids -> TickStates]
        /\ current' = t
        /\ \A u \in Ids : u # t => ticks'[u] = ticks[u]
        /\ ticks'[t].sentinel = "started" /\ ~ticks'[t].orphan
    BY <1>1, <2>1, RegistersEffect
  <2>3. QED
    BY <1>1, <2>2 DEF TickBegins
<1>4. CASE current' = t /\ \E s \in {"none", "picked_none"} : ticks' = [ticks EXCEPT ![t].sentinel = s]
  <2>1. PICK s \in {"none", "picked_none"} : ticks' = [ticks EXCEPT ![t].sentinel = s]
    BY <1>4
  <2>2. /\ ticks' \in [Ids -> TickStates]
        /\ \A u \in Ids : u # t => ticks'[u] = ticks[u]
        /\ ticks'[t].cards = ticks[t].cards /\ ticks'[t].late = ticks[t].late
        /\ ticks'[t].orphan = ticks[t].orphan
    BY <1>1, <1>2, <2>1 DEF SandboxTypeOK, TickStates
  <2>3. ~Busy(t)'
    BY <1>1, <1>2, <2>2 DEF Busy, Created
  <2>4. QED
    BY <1>1, <1>2, <1>4, <2>2, <2>3 DEF TickBegins
<1>5. CASE ticks' = [ticks EXCEPT ![t].spawnFailed = TRUE] /\ UNCHANGED current
  <2>1. /\ ticks' \in [Ids -> TickStates]
        /\ \A u \in Ids : u # t => ticks'[u] = ticks[u]
        /\ ticks'[t].cards = ticks[t].cards /\ ticks'[t].late = ticks[t].late
        /\ ticks'[t].orphan = ticks[t].orphan
    BY <1>1, <1>2, <1>5 DEF SandboxTypeOK, TickStates
  <2>2. ~Busy(t)'
    BY <1>1, <1>2, <2>1 DEF Busy, Created
  <2>3. QED
    BY <1>1, <1>2, <1>5, <2>1, <2>2 DEF TickBegins
<1>6. QED
  BY <1>3, <1>4, <1>5 DEF TickRegisters

LEMMA TickReconcilesEffect ==
  ASSUME SandboxTypeOK, NEW t \in Ids, TickReconciles(t)
  PROVE  ticks' \in [Ids -> TickStates] /\ TickGoesOn(t) /\ current = t
<1> DEFINE next == Cardinality(Created(t)) + 1
<1>1. next \in Nat /\ next - 1 \in Nat
  BY CreatedFinite
<1>2. PICK pending \in BOOLEAN :
        ticks' = [ticks EXCEPT ![t] = Leaves(@, IF pending THEN next - 1 ELSE next, pending)]
  BY DEF TickReconciles
<1> DEFINE L == Leaves(ticks[t], IF pending THEN next - 1 ELSE next, pending)
<1>3. ticks[t] \in TickStates
  BY DEF SandboxTypeOK
<1>4. (IF pending THEN next - 1 ELSE next) \in Nat
  BY <1>1
<1> HIDE DEF next
<1>5. /\ L \in TickStates /\ L.sentinel = ticks[t].sentinel
      /\ L.spawnFailed = ticks[t].spawnFailed /\ L.orphan = ticks[t].orphan
      /\ \A k \in Keys : ticks[t].cards[k] # "absent" => L.cards[k] = ticks[t].cards[k]
  BY <1>3, <1>4, LeavesType
<1>6. ticks' = [ticks EXCEPT ![t] = L]
  BY <1>2
<1> HIDE DEF L
<1>7. /\ ticks' \in [Ids -> TickStates] /\ ticks'[t] = L
      /\ \A u \in Ids : u # t => ticks'[u] = ticks[u]
  BY <1>5, <1>6 DEF SandboxTypeOK
<1>8. UNCHANGED <<current, used>> /\ current = t
  BY DEF TickReconciles
<1>9. QED
  BY <1>5, <1>7, <1>8 DEF TickGoesOn

\* What a production tick does to the sandbox, as the harness may rely on it.
LEMMA TickRunsEffect ==
  ASSUME SandboxTypeOK, IdsInOrder, NEW r \in 0..MaxIds, TickRuns(r)
  PROVE  /\ SandboxTypeOK'
         /\ UNCHANGED <<kind, issue, tip, foreign, pushed, merged, pr>>
         /\ \/ UNCHANGED <<current, used, ticks>>
            \/ \E t \in Ids : TickBegins(t)
            \/ r \in Ids /\ TickGoesOn(r) /\ current = r
<1>1. UNCHANGED <<kind, issue, tip, foreign, pushed, merged, pr>>
  BY DEF TickRuns
<1>2. acts' \in 0..MaxActs
  BY SandboxAssumption DEF TickRuns, Acts, SandboxTypeOK
<1>3. CASE UNCHANGED <<current, used, ticks, acts>>
  BY <1>1, <1>2, <1>3 DEF SandboxTypeOK
<1>4. CASE TickRegisters
  <2>1. ticks' \in [Ids -> TickStates] /\ \E t \in Ids : TickBegins(t)
    BY <1>4, TickRegistersEffect
  <2>2. used' \in 0..MaxIds /\ current' \in 0..MaxIds
    BY <2>1 DEF TickBegins, SandboxTypeOK, Ids
  <2>3. QED
    BY <1>1, <1>2, <2>1, <2>2 DEF SandboxTypeOK
<1>5. CASE r # 0 /\ TickReconciles(r)
  <2>1. r \in Ids
    BY <1>5 DEF Ids
  <2>2. ticks' \in [Ids -> TickStates] /\ TickGoesOn(r) /\ current = r
    BY <1>5, <2>1, TickReconcilesEffect
  <2>3. QED
    BY <1>1, <1>2, <2>1, <2>2 DEF SandboxTypeOK, TickGoesOn
<1>6. QED
  BY <1>3, <1>4, <1>5 DEF TickRuns

-----------------------------------------------------------------------------
(* What the rest of the world may do while the harness runs.               *)

\* Workers end: no card appears, and no card becomes live again.
BoardKept ==
  /\ UNCHANGED <<kind, current, used, issue>>
  /\ \A t \in Ids : /\ ticks'[t].sentinel = ticks[t].sentinel
                    /\ ticks'[t].spawnFailed = ticks[t].spawnFailed
                    /\ ticks'[t].late = ticks[t].late
                    /\ ticks'[t].orphan = ticks[t].orphan
                    /\ \A k \in Keys : /\ ticks'[t].cards[k] = "absent" <=> ticks[t].cards[k] = "absent"
                                       /\ ticks'[t].cards[k] = "live" => ticks[t].cards[k] = "live"

\* Branches grow; a branch of the run is started, and its pull request opened, by workers.
BranchesGrow ==
  /\ pushed \subseteq pushed' /\ foreign \subseteq foreign' /\ (merged => merged')
  /\ foreign' \subseteq foreign \cup pushed'
  /\ \A b \in Heads : /\ tip'[b] \in {tip[b], tip[b] + 1}
                      /\ b \in foreign' => b \in foreign \/ tip'[b] = tip[b] + 1
  /\ \A b \in Mine : /\ tip'[b] # tip[b] => SomeoneMayPush \/ (tip[b] # 0 /\ b \in pushed')
                     /\ Open(b)' => Open(b) \/ (SomeoneMayPush /\ tip[b] # 0)

LEMMA WorkersEffect ==
  ASSUME SandboxTypeOK, NEW t \in Ids, WorkerTampers(t) \/ \E k \in Keys : WorkerEnds(t, k)
  PROVE  SandboxTypeOK' /\ BoardKept /\ UNCHANGED <<tip, foreign, pushed, merged, pr>>
<1>1. ticks[t] \in TickStates
  BY DEF SandboxTypeOK
<1>2. CASE WorkerTampers(t)
  <2>1. UNCHANGED <<kind, current, used, issue, tip, foreign, pushed, merged, pr>> /\ acts' \in 0..MaxActs
    BY <1>2, SandboxAssumption DEF WorkerTampers, Acts, SandboxTypeOK
  <2>2. CASE ticks' = [ticks EXCEPT ![t].valid = FALSE]
    <3>1. ticks' \in [Ids -> TickStates]
      BY <1>1, <2>2 DEF SandboxTypeOK, TickStates
    <3>2. BoardKept
      BY <1>1, <2>1, <2>2 DEF SandboxTypeOK, TickStates, BoardKept
    <3>3. QED
      BY <2>1, <3>1, <3>2 DEF SandboxTypeOK
  <2>3. CASE ticks' = [ticks EXCEPT ![t].expected = FALSE]
    <3>1. ticks' \in [Ids -> TickStates]
      BY <1>1, <2>3 DEF SandboxTypeOK, TickStates
    <3>2. BoardKept
      BY <1>1, <2>1, <2>3 DEF SandboxTypeOK, TickStates, BoardKept
    <3>3. QED
      BY <2>1, <3>1, <3>2 DEF SandboxTypeOK
  <2>4. QED
    BY <1>2, <2>2, <2>3 DEF WorkerTampers
<1>3. CASE \E k \in Keys : WorkerEnds(t, k)
  <2>1. PICK k \in Keys : WorkerEnds(t, k)
    BY <1>3
  <2>2. PICK s \in {"done", "failed", "blocked"} : ticks' = [ticks EXCEPT ![t].cards[k] = s]
    BY <2>1 DEF WorkerEnds
  <2>3. ticks' \in [Ids -> TickStates]
    BY <1>1, <2>2 DEF SandboxTypeOK, TickStates, Statuses
  <2>4. /\ ticks[t].cards[k] = "live"
        /\ UNCHANGED <<kind, current, used, issue, tip, foreign, pushed, merged, pr, acts>>
    BY <2>1 DEF WorkerEnds
  <2>5. BoardKept
    BY <1>1, <2>2, <2>4 DEF SandboxTypeOK, TickStates, BoardKept
  <2>6. QED
    BY <2>3, <2>4, <2>5 DEF SandboxTypeOK
<1>4. QED
  BY <1>2, <1>3

LEMMA PushersEffect ==
  ASSUME SandboxTypeOK,
         \/ \E b \in Mine : WorkerPushes(b) \/ WorkerOpensPr(b)
         \/ \E b \in Heads \ {"old"} : PersonPushes(b) \/ PersonMovesPr(b)
  PROVE  SandboxTypeOK' /\ BranchesGrow /\ UNCHANGED <<kind, current, used, ticks, issue>>
<1>1. CASE \E b \in Mine : WorkerPushes(b)
  <2>1. PICK b \in Mine : WorkerPushes(b)
    BY <1>1
  <2>2. /\ SomeoneMayPush /\ tip[b] < MaxTip /\ tip' = [tip EXCEPT ![b] = @ + 1]
        /\ UNCHANGED <<kind, current, used, ticks, issue, foreign, pushed, merged, pr>>
        /\ acts' \in 0..MaxActs
    BY <2>1, SandboxAssumption DEF WorkerPushes, Acts, SandboxTypeOK
  <2>3. SandboxTypeOK'
    BY <2>2 DEF SandboxTypeOK, Mine, Heads, MaxTip
  <2>4. QED
    BY <2>2, <2>3 DEF SandboxTypeOK, BranchesGrow, Mine, Heads, Open
<1>2. CASE \E b \in Mine : WorkerOpensPr(b)
  <2>1. PICK b \in Mine : WorkerOpensPr(b)
    BY <1>2
  <2>2. /\ SomeoneMayPush /\ tip[b] # 0
        /\ pr' \in {[pr EXCEPT ![b] = "open"], [pr EXCEPT ![b] = "sideways"]}
        /\ UNCHANGED <<kind, current, used, ticks, issue, tip, foreign, pushed, merged>>
        /\ acts' \in 0..MaxActs
    BY <2>1, SandboxAssumption DEF WorkerOpensPr, Acts, SandboxTypeOK
  <2>3. SandboxTypeOK'
    BY <2>2 DEF SandboxTypeOK, Mine, Heads
  <2>4. \A c \in Mine : Open(c)' => Open(c) \/ (SomeoneMayPush /\ tip[c] # 0)
    BY <2>2 DEF SandboxTypeOK, Mine, Heads, Open
  <2>5. QED
    BY <2>2, <2>3, <2>4 DEF BranchesGrow
<1>3. CASE \E b \in Heads \ {"old"} : PersonPushes(b)
  <2>1. PICK b \in Heads \ {"old"} : PersonPushes(b)
    BY <1>3
  <2>2. /\ b = "alien" \/ tip[b] # 0
        /\ tip[b] < MaxTip /\ tip' = [tip EXCEPT ![b] = @ + 1]
        /\ foreign' \in {foreign, foreign \cup {b}} /\ pushed' = pushed \cup {b}
        /\ UNCHANGED <<kind, current, used, ticks, issue, merged, pr>>
        /\ acts' \in 0..MaxActs
    BY <2>1, SandboxAssumption DEF PersonPushes, Acts, SandboxTypeOK
  <2>3. SandboxTypeOK'
    BY <2>2 DEF SandboxTypeOK, Heads, MaxTip
  <2>4. \A c \in Heads : /\ tip'[c] \in {tip[c], tip[c] + 1}
                         /\ c \in foreign' => c \in foreign \/ tip'[c] = tip[c] + 1
    BY <2>2 DEF SandboxTypeOK
  <2>5. \A c \in Mine : /\ tip'[c] # tip[c] => (tip[c] # 0 /\ c \in pushed')
                        /\ Open(c)' => Open(c)
    BY <2>2 DEF SandboxTypeOK, Mine, Heads, Open
  <2>6. QED
    BY <2>2, <2>3, <2>4, <2>5 DEF BranchesGrow
<1>4. CASE \E b \in Heads \ {"old"} : PersonMovesPr(b)
  <2>1. PICK b \in Heads \ {"old"} : PersonMovesPr(b)
    BY <1>4
  <2>2. /\ UNCHANGED <<kind, current, used, ticks, issue, tip, foreign, pushed>>
        /\ acts' \in 0..MaxActs
    BY <2>1, SandboxAssumption DEF PersonMovesPr, Acts, SandboxTypeOK
  <2>3. pr' \in [Heads -> {"none", "open", "sideways", "closed", "merged"}]
    BY <2>1 DEF PersonMovesPr, SandboxTypeOK
  <2>3a. merged \in BOOLEAN /\ merged' \in BOOLEAN /\ (merged => merged')
    <3>1. merged' = merged \/ merged' = (merged \/ b \in {"own", "stray"})
      BY <2>1 DEF PersonMovesPr
    <3>2. merged \in BOOLEAN
      BY DEF SandboxTypeOK
    <3>3. CASE merged' = merged
      BY <3>2, <3>3
    <3>4. CASE merged' = (merged \/ b \in {"own", "stray"})
      <4>1. (merged \/ b \in {"own", "stray"}) \in BOOLEAN
        OBVIOUS
      <4>2. merged => (merged \/ b \in {"own", "stray"})
        OBVIOUS
      <4>3. QED
        BY <3>2, <3>4, <4>1, <4>2, Zenon
    <3>5. QED
      BY <3>1, <3>3, <3>4
  <2>4. \A c \in Mine : Open(c)' => Open(c)
    BY <2>1 DEF PersonMovesPr, SandboxTypeOK, Mine, Open, Heads
  <2>5. SandboxTypeOK'
    BY <2>2, <2>3, <2>3a DEF SandboxTypeOK
  <2>6. QED
    BY <2>2, <2>4, <2>5, <2>3a DEF BranchesGrow
<1>5. QED
  BY <1>1, <1>2, <1>3, <1>4

LEMMA WorldEffect ==
  ASSUME SandboxTypeOK, World
  PROVE  SandboxTypeOK' /\ BoardKept /\ BranchesGrow
<1>1. CASE \E t \in Ids : \/ WorkerTampers(t)
                          \/ \E k \in Keys : WorkerEnds(t, k)
  <2>1. SandboxTypeOK' /\ BoardKept /\ UNCHANGED <<tip, foreign, pushed, merged, pr>>
    BY <1>1, WorkersEffect
  <2>2. BranchesGrow
    BY <2>1 DEF BranchesGrow, Open
  <2>3. QED
    BY <2>1, <2>2
<1>2. CASE ~\E t \in Ids : \/ WorkerTampers(t)
                           \/ \E k \in Keys : WorkerEnds(t, k)
  <2>1. SandboxTypeOK' /\ BranchesGrow /\ UNCHANGED <<kind, current, used, ticks, issue>>
    BY <1>2, PushersEffect DEF World, Mine
  <2>2. BoardKept
    BY <2>1 DEF BoardKept
  <2>3. QED
    BY <2>1, <2>2
<1>3. QED
  BY <1>1, <1>2

\* A create lands that outlived the tick that gave it.
LEMMA LateLandsEffect ==
  ASSUME SandboxTypeOK, NEW t \in Ids, LateLands(t)
  PROVE  /\ SandboxTypeOK'
         /\ UNCHANGED <<kind, current, used, issue, tip, foreign, pushed, merged, pr>>
         /\ \A u \in Ids : u # t => ticks'[u] = ticks[u]
         /\ ticks[t].late # 0 /\ ticks'[t].late = 0
         /\ ticks'[t].sentinel = ticks[t].sentinel
         /\ ticks'[t].spawnFailed = ticks[t].spawnFailed
         /\ ticks'[t].orphan = ticks[t].orphan
         /\ \A k \in Keys : ticks[t].cards[k] # "absent" => ticks'[t].cards[k] # "absent"
<1> DEFINE n == ticks[t].late
<1>1. ticks[t] \in TickStates /\ n # 0 /\ n \in Keys
  BY DEF SandboxTypeOK, TickStates, LateLands, Keys
<1>2. ticks' = [ticks EXCEPT ![t].cards[n] = "live", ![t].late = 0]
  BY DEF LateLands
<1>3. UNCHANGED <<kind, current, used, issue, tip, foreign, pushed, merged, pr, acts>>
  BY DEF LateLands
<1> HIDE DEF n
<1>4. ticks' \in [Ids -> TickStates]
  <2> DEFINE C == [ticks[t].cards EXCEPT ![n] = "live"]
             R == [ticks[t] EXCEPT !.cards = C, !.late = 0]
  <2>1. C \in [Keys -> Statuses]
    BY <1>1 DEF TickStates, Statuses
  <2>2. ticks' = [ticks EXCEPT ![t] = R]
    BY <1>1, <1>2 DEF SandboxTypeOK, TickStates
  <2> HIDE DEF C
  <2>3. 0 \in 0..NKeys /\ ticks[t] \in TickStates
    BY <1>1, SandboxAssumption
  <2>3a. R \in TickStates
    BY <2>1, <2>3 DEF TickStates
  <2> HIDE DEF R
  <2>4. QED
    BY <2>2, <2>3a DEF SandboxTypeOK
<1>5. /\ \A u \in Ids : u # t => ticks'[u] = ticks[u]
      /\ ticks'[t].late = 0
      /\ ticks'[t].sentinel = ticks[t].sentinel
      /\ ticks'[t].spawnFailed = ticks[t].spawnFailed
      /\ ticks'[t].orphan = ticks[t].orphan
  BY <1>1, <1>2 DEF SandboxTypeOK, TickStates
<1>6. \A k \in Keys : ticks[t].cards[k] # "absent" => ticks'[t].cards[k] # "absent"
  BY <1>1, <1>2 DEF SandboxTypeOK, TickStates
<1>7. QED
  BY <1>1, <1>3, <1>4, <1>5, <1>6 DEF SandboxTypeOK, n

\* Who may push has a card.
LEMMA PushersHaveCards ==
  ASSUME IdsInOrder, SomeoneMayPush
  PROVE  \E t \in Ids : Created(t) # {}
BY DEF IdsInOrder, SomeoneMayPush, MayPush, Created

LEMMA QuietIfNothingIsBusy ==
  ASSUME IdsInOrder, \A t \in Ids : ~Busy(t)
  PROVE  Quiet
<1>1. ~SomeoneMayPush
  BY PushersHaveCards DEF Busy
<1>2. \A t \in Ids : ticks[t].late = 0
  BY DEF Busy
<1>3. QED
  BY <1>1, <1>2 DEF Quiet

LEMMA BoardKeptEffect ==
  ASSUME BoardKept
  PROVE  /\ \A t \in Ids : Created(t)' = Created(t) /\ (Busy(t)' <=> Busy(t))
         /\ SomeoneMayPush' => SomeoneMayPush
         /\ UNCHANGED <<kind, current, used, issue>>
<1>1. \A t \in Ids : Created(t)' = Created(t)
  BY DEF BoardKept, Created
<1>2. \A t \in Ids : Busy(t)' <=> Busy(t)
  BY <1>1 DEF Busy, BoardKept
<1>3. \A t \in Ids : MayPush(t)' => MayPush(t)
  BY DEF MayPush, BoardKept
<1>4. SomeoneMayPush' => SomeoneMayPush
  BY <1>3 DEF SomeoneMayPush
<1>5. QED
  BY <1>1, <1>2, <1>4 DEF BoardKept

\* While the harness is quiet, what it has found of the run stays as it found it, but for people.
LEMMA QuietKeepsBranches ==
  ASSUME BranchesGrow, Quiet, NEW b \in Mine, ~Spared(b)'
  PROVE  ~slipped' /\ ~slipped => ~Spared(b) /\ tip'[b] = tip[b] /\ (Open(b)' => Open(b))
BY DEF BranchesGrow, Quiet, Spared

LEMMA WorldKeeps ==
  ASSUME HarnessInv, World, exit = "running",
         moved' = IF Listed THEN moved \cup {b \in Heads : tip'[b] # tip[b]} ELSE moved,
         UNCHANGED <<h, artifacts, deleted, workspace, exit, slipped>>
  PROVE  HarnessInv'
<1>1. SandboxTypeOK' /\ BoardKept /\ BranchesGrow
  BY WorldEffect DEF HarnessInv, TypeOK
<1>2. /\ \A t \in Ids : Created(t)' = Created(t) /\ (Busy(t)' <=> Busy(t))
      /\ SomeoneMayPush' => SomeoneMayPush
      /\ UNCHANGED <<kind, current, used, issue>>
  BY <1>1, BoardKeptEffect
<1>3. h.pc # "end" /\ moved' \subseteq Heads /\ UNCHANGED <<h, artifacts, deleted, workspace, exit, slipped>>
  BY DEF HarnessInv, EndFits, TypeOK
<1>3a. TickForgotten' <=> TickForgotten
  BY <1>2, <1>3 DEF TickForgotten, ShutdownTick
<1>4. TypeOK'
  BY <1>1, <1>3 DEF HarnessInv, TypeOK
<1>5. NamesFit'
  <2>1. IdsInOrder'
    <3>1. h.tick # 0 => h.tick \in Ids
      BY DEF HarnessInv, TypeOK, Ids
    <3>2. QED
      BY <1>1, <1>2, <1>3, <3>1 DEF HarnessInv, NamesFit, IdsInOrder, BoardKept
  <2>2. DriveKnows'
    BY <1>2, <1>3 DEF HarnessInv, NamesFit, DriveKnows, ShutdownTick
  <2>3. WorkIsNamed'
    BY <1>2, <1>3, <1>3a DEF HarnessInv, NamesFit, WorkIsNamed, ShutdownTick
  <2>4. QED
    BY <2>1, <2>2, <2>3 DEF NamesFit
<1>6. Quiet => Quiet'
  BY <1>1, <1>2, <1>3 DEF Quiet, BoardKept
<1>7. \A b \in Heads : tip[b] \in Nat /\ tip'[b] \in Nat /\ tip[b] <= tip'[b]
  <2>1. tip \in [Heads -> 0..MaxTip] /\ tip' \in [Heads -> 0..MaxTip]
    BY <1>1 DEF HarnessInv, TypeOK, SandboxTypeOK
  <2>2. QED
    BY <1>1, <2>1 DEF BranchesGrow, MaxTip
<1>8. PushesFit'
  <2>1. (\A t \in Ids : Created(t) = {}) => ~SomeoneMayPush
    BY PushersHaveCards DEF HarnessInv, NamesFit
  <2>2. (\A t \in Ids : Created(t)' = {}) => \A b \in Mine : tip'[b] = 0 /\ ~Open(b)'
    BY <1>1, <1>2, <2>1 DEF HarnessInv, PushesFit, BranchesGrow
  <2>3. \A b \in Mine : Open(b)' => Open(b) \/ tip[b] # 0
    BY <1>1 DEF BranchesGrow
  <2>4. h.pc \notin {"branches", "report", "end"} => \A b \in Mine : Open(b)' => tip'[b] # 0
    BY <1>7, <2>3 DEF HarnessInv, PushesFit, Mine, Heads
  <2>5. foreign' \subseteq pushed' \cup {"old"}
    BY <1>1 DEF HarnessInv, PushesFit, BranchesGrow
  <2>6. QED
    BY <1>3, <2>2, <2>4, <2>5 DEF PushesFit
<1>9. QuietFits'
  <2>1. h.pc = "quiesce" => ShutdownTick \in Ids
    BY DEF HarnessInv, TypeOK, NamesFit, DriveKnows, ShutdownTick, Ids
  <2>2. h.pc = "quiesce" => /\ ~ticks'[ShutdownTick].orphan
                            /\ (ticks'[ShutdownTick].late # 0 => kind = "pinned")
    BY <1>1, <2>1 DEF BoardKept, HarnessInv, QuietFits
  <2>3. QED
    BY <1>2, <1>3, <1>3a, <1>6, <2>2 DEF HarnessInv, QuietFits, ShutdownTick
<1>10. FoundFits'
  <2> SUFFICES ASSUME NEW b \in Mine, ~Spared(b)'
               PROVE  /\ h.pc \in {"discover", "close"} => artifacts.tips[b] = tip'[b]
                      /\ h.pc \in {"prs", "branches"} /\ h.ok => artifacts.tips[b] = tip'[b]
                      /\ (h.pc = "close" \/ (h.pc = "prs" /\ h.ok)) /\ Open(b)' => b \in artifacts.prs
                      /\ h.pc = "branches" /\ h.ok => ~Open(b)'
                      /\ h.pc = "report" /\ h.ok /\ ~h.keep /\ ~TickForgotten => tip'[b] = 0 /\ ~Open(b)'
    BY <1>3, <1>3a DEF FoundFits
  <2>1. Quiet => ~Spared(b) /\ tip'[b] = tip[b] /\ (Open(b)' => Open(b))
    BY <1>1, <1>3, QuietKeepsBranches DEF Spared
  <2>2. h.pc \in {"discover", "close", "prs", "branches"} => Quiet
    BY DEF HarnessInv, QuietFits, Destroying
  <2>3. h.pc = "report" /\ h.ok /\ ~h.keep /\ ~TickForgotten => Quiet
    BY DEF HarnessInv, QuietFits, IssueFits
  <2>4. QED
    BY <2>1, <2>2, <2>3 DEF HarnessInv, FoundFits
<1>11. JudgedFits'
  <2>1. \A b \in Heads : artifacts.tips[b] \in Nat
    BY DEF HarnessInv, TypeOK, MaxTip
  <2>2. \A b \in Heads : b \in foreign' => b \in foreign \/ tip'[b] = tip[b] + 1
    BY <1>1 DEF BranchesGrow
  <2>3. (~Listed => moved' = moved) /\ \A b \in Heads : b \in moved' => b \in moved \/ tip'[b] # tip[b]
    BY <1>3
  <2>4. \A b \in Heads : tip'[b] # tip[b] => tip[b] < tip'[b]
    BY <1>7
  <2>5. QED
    BY <1>3, <1>7, <2>1, <2>2, <2>3, <2>4 DEF HarnessInv, JudgedFits, Listed
<1>12. IssueFits'
  BY <1>2, <1>3 DEF HarnessInv, IssueFits
<1>13. SuccessFits'
  <2>1. Implemented => Implemented'
    BY <1>2, <1>3, <1>7 DEF Implemented, Anchor
  <2>2. QED
    BY <1>3, <2>1 DEF HarnessInv, SuccessFits
<1>14. EndFits'
  BY <1>3 DEF HarnessInv, EndFits
<1>15. QED
  BY <1>4, <1>5, <1>8, <1>9, <1>10, <1>11, <1>12, <1>13, <1>14 DEF HarnessInv

LEMMA LateLandsKeeps ==
  ASSUME HarnessInv, NEW t \in Ids, LateLands(t), exit = "running",
         slipped' = (slipped \/ (kind = "pinned" /\ PastQuiescence)),
         UNCHANGED <<h, artifacts, deleted, workspace, exit, moved>>
  PROVE  HarnessInv'
<1>1. /\ SandboxTypeOK'
      /\ UNCHANGED <<kind, current, used, issue, tip, foreign, pushed, merged, pr>>
      /\ \A u \in Ids : u # t => ticks'[u] = ticks[u]
      /\ ticks[t].late # 0 /\ ticks'[t].late = 0
      /\ ticks'[t].sentinel = ticks[t].sentinel
      /\ ticks'[t].spawnFailed = ticks[t].spawnFailed
      /\ ticks'[t].orphan = ticks[t].orphan
      /\ \A k \in Keys : ticks[t].cards[k] # "absent" => ticks'[t].cards[k] # "absent"
  BY LateLandsEffect DEF HarnessInv, TypeOK
<1>2. h.pc # "end" /\ workspace # "removed" /\ h' = h
  BY DEF HarnessInv, EndFits
<1>3. slipped' \in BOOLEAN /\ (slipped => slipped')
  <2>1. (slipped \/ (kind = "pinned" /\ PastQuiescence)) \in BOOLEAN
    OBVIOUS
  <2>2. slipped => (slipped \/ (kind = "pinned" /\ PastQuiescence))
    OBVIOUS
  <2>3. QED
    BY <2>1, <2>2, Zenon
<1>3a. TickForgotten' <=> TickForgotten
  BY <1>1, <1>2 DEF TickForgotten, ShutdownTick
<1>4. TypeOK'
  BY <1>1, <1>3 DEF HarnessInv, TypeOK
<1>5. Busy(t) /\ \A u \in Ids : Busy(u)' => Busy(u)
  BY <1>1 DEF Busy, Created
<1>6. \A u \in Ids : Created(u) # {} => Created(u)' # {}
  BY <1>1 DEF Created
<1>7. NamesFit'
  <2>1. IdsInOrder'
    <3>1. h.tick # 0 => h.tick \in Ids
      BY DEF HarnessInv, TypeOK, Ids
    <3>2. \A u \in Ids : ticks'[u].sentinel = ticks[u].sentinel /\ ticks'[u].spawnFailed = ticks[u].spawnFailed
                          /\ ticks'[u].orphan = ticks[u].orphan
      BY <1>1
    <3>3. QED
      BY <1>1, <1>2, <1>5, <1>6, <3>1, <3>2 DEF HarnessInv, NamesFit, IdsInOrder
  <2>2. DriveKnows'
    BY <1>1, <1>2 DEF HarnessInv, NamesFit, DriveKnows, ShutdownTick
  <2>3. WorkIsNamed'
    BY <1>1, <1>2, <1>3a, <1>5 DEF HarnessInv, NamesFit, WorkIsNamed, ShutdownTick
  <2>4. QED
    BY <2>1, <2>2, <2>3 DEF NamesFit
<1>8. Quiet /\ PastQuiescence => Quiet'
  <2>1. Quiet => kind = "pinned"
    BY <1>1 DEF Quiet
  <2>2. kind = "pinned" /\ PastQuiescence => slipped'
    BY Zenon
  <2>3. Quiet => \A u \in Ids : ticks'[u].late # 0 => kind' = "pinned"
    BY <1>1 DEF Quiet
  <2>4. QED
    BY <2>1, <2>2, <2>3 DEF Quiet
<1>9. PushesFit'
  <2>1. (\A u \in Ids : Created(u)' = {}) => \A u \in Ids : Created(u) = {}
    BY <1>6
  <2>2. \A b \in Mine : Open(b)' <=> Open(b)
    BY <1>1 DEF Open
  <2>3. QED
    BY <1>1, <1>2, <2>1, <2>2 DEF HarnessInv, PushesFit
<1>10. QuietFits'
  <2>1. h.pc = "quiesce" => ShutdownTick \in Ids
    BY DEF HarnessInv, TypeOK, NamesFit, DriveKnows, ShutdownTick, Ids
  <2>2. h.pc = "quiesce" => /\ ~ticks'[ShutdownTick].orphan
                            /\ (ticks'[ShutdownTick].late # 0 => kind = "pinned")
    BY <1>1, <2>1 DEF HarnessInv, QuietFits
  <2>3. h.pc \in {"decide", "report", "branches"} \cup Destroying => PastQuiescence
    BY DEF PastQuiescence, Destroying
  <2>4. ShutdownTick' = ShutdownTick /\ kind' = kind /\ deleted' = deleted
    BY <1>1, <1>2 DEF ShutdownTick
  <2>5. h.pc \in {"decide", "report"} /\ h.quiescent /\ ~h.unaccounted /\ ~TickForgotten => Quiet'
    BY <1>8, <2>3 DEF HarnessInv, QuietFits
  <2>6. h.pc \in Destroying => Quiet' /\ ~h.unaccounted /\ ~h.keep
    BY <1>8, <2>3 DEF HarnessInv, QuietFits
  <2>7. \A b \in Heads : deleted[b] # 0 => Quiet' /\ h.pc \in {"branches", "report", "end"}
    BY <1>2, <1>8, <2>3 DEF HarnessInv, QuietFits
  <2>8. QED
    BY <1>2, <1>3a, <2>2, <2>4, <2>5, <2>6, <2>7 DEF QuietFits
<1>11. FoundFits'
  <2>1. \A b \in Mine : (Spared(b) => Spared(b)') /\ (Open(b)' <=> Open(b))
    BY <1>1, <1>3 DEF Spared, Open
  <2>2. QED
    BY <1>1, <1>2, <1>3a, <2>1 DEF HarnessInv, FoundFits
<1>12. JudgedFits'
  BY <1>1, <1>2 DEF HarnessInv, JudgedFits, Listed
<1>13. IssueFits'
  BY <1>1, <1>2 DEF HarnessInv, IssueFits
<1>14. SuccessFits'
  BY <1>1, <1>2 DEF HarnessInv, SuccessFits, Implemented
<1>15. EndFits'
  BY <1>2 DEF HarnessInv, EndFits
<1>16. QED
  BY <1>4, <1>7, <1>9, <1>10, <1>11, <1>12, <1>13, <1>14, <1>15 DEF HarnessInv

-----------------------------------------------------------------------------
(* The drive.                                                              *)

DrivePcs == {"tick", "recover", "poll", "settled", "verify"}

\* A step of the drive keeps the invariant if it keeps the names and claims no success early:
\* nothing has been discovered or destroyed yet.
LEMMA DriveKeeps ==
  ASSUME HarnessInv, h.pc \in Early \cup DrivePcs, h.pc \notin {"prepare", "create"},
         UNCHANGED <<kind, tip, foreign, pushed, merged, pr, artifacts, deleted, slipped, moved, workspace, exit>>,
         SandboxTypeOK', h' \in HRecords, h'.pc \in DrivePcs \cup {"shutdown"},
         \A t \in Ids : Created(t) # {} => Created(t)' # {},
         NamesFit', SuccessFits'
  PROVE  HarnessInv'
<1>1. TypeOK'
  BY DEF HarnessInv, TypeOK, HRecords
<1>2. PushesFit'
  <2>1. (\A t \in Ids : Created(t)' = {}) => \A t \in Ids : Created(t) = {}
    OBVIOUS
  <2>2. \A b \in Mine : Open(b)' <=> Open(b)
    BY DEF Open
  <2>3. h.pc \notin {"branches", "report", "end"}
    BY DEF Early, DrivePcs
  <2>4. QED
    BY <2>1, <2>2, <2>3 DEF HarnessInv, PushesFit
<1>3. QuietFits'
  <2>1. \A b \in Heads : deleted[b] = 0
    BY DEF HarnessInv, QuietFits, Early, DrivePcs
  <2>2. QED
    BY <2>1 DEF QuietFits, Destroying, DrivePcs
<1>4. FoundFits' /\ JudgedFits' /\ IssueFits'
  <2>1. h.pc \notin {"discover", "close", "prs", "branches", "report", "end"}
    BY DEF Early, DrivePcs
  <2>2. moved' = {}
    BY <2>1 DEF HarnessInv, JudgedFits, Listed
  <2>3. QED
    BY <2>2 DEF FoundFits, JudgedFits, IssueFits, DrivePcs, Listed
<1>5. EndFits'
  <2>1. h.pc # "end" /\ h'.pc # "end"
    BY DEF Early, DrivePcs
  <2>2. exit = "running" /\ workspace # "removed" /\ exit' = exit /\ workspace' = workspace
    BY <2>1 DEF HarnessInv, EndFits
  <2>3. QED
    BY <2>1, <2>2 DEF EndFits
<1>6. QED
  BY <1>1, <1>2, <1>3, <1>4, <1>5 DEF HarnessInv

\* The drive succeeds only when it judges.
LEMMA NoSuccessBeforeJudgement ==
  ASSUME HarnessInv, h.pc \in Early \cup DrivePcs, h.pc # "verify"
  PROVE  ~h.success
BY DEF HarnessInv, SuccessFits, Early, DrivePcs, Shutting, Destroying

LEMMA ErrsEffect ==
  ASSUME h \in HRecords, NEW class \in {"none", "observed", "partial"}, NEW t \in 0..MaxIds,
         NEW unaccounted \in BOOLEAN, Errs(class, t, unaccounted)
  PROVE  /\ h' \in HRecords /\ h'.pc = "shutdown" /\ h'.tick = h.tick /\ h'.errTick = t
         /\ h'.unaccounted = unaccounted /\ h'.success = h.success
BY DEF Errs, HRecords, Pcs

LEMMA TimesOutEffect ==
  ASSUME h \in HRecords, TimesOut
  PROVE  /\ h' \in HRecords /\ h'.pc = "shutdown" /\ h'.tick = h.tick /\ h'.errTick = h.errTick
         /\ h'.unaccounted = h.unaccounted /\ h'.success = h.success
BY DEF TimesOut, HRecords, Pcs

LEMMA GoesEffect ==
  ASSUME h \in HRecords, NEW pc \in Pcs, Goes(pc)
  PROVE  /\ h' \in HRecords /\ h'.pc = pc /\ h'.tick = h.tick /\ h'.errTick = h.errTick
         /\ h'.unaccounted = h.unaccounted /\ h'.success = h.success /\ h'.run = h.run
         /\ h'.keep = h.keep /\ h'.ok = h.ok /\ h'.quiescent = h.quiescent
         /\ h'.board = h.board /\ h'.failed = h.failed /\ h'.pending = h.pending
         /\ h'.incomplete = h.incomplete
BY DEF Goes, HRecords, Pcs

\* What the sandbox's stillness keeps.
LEMMA StillSandbox ==
  ASSUME UNCHANGED sandbox
  PROVE  /\ UNCHANGED <<kind, current, used, ticks, issue, tip, foreign, pushed, merged, pr>>
         /\ SandboxTypeOK => SandboxTypeOK'
         /\ \A t \in Ids : Created(t)' = Created(t) /\ (Busy(t)' <=> Busy(t))
         /\ SomeoneMayPush' <=> SomeoneMayPush
<1>1. UNCHANGED <<kind, current, used, ticks, issue, tip, foreign, pushed, merged, pr, acts>>
  BY DEF sandbox
<1>2. QED
  BY <1>1 DEF SandboxTypeOK, Created, Busy, SomeoneMayPush, MayPush

LEMMA StillIds ==
  ASSUME NamesFit, UNCHANGED sandbox,
         h'.tick = h.tick \/ (h'.tick = current /\ ticks[current].sentinel = "started")
  PROVE  IdsInOrder'
<1>1. /\ UNCHANGED <<current, used, ticks>>
      /\ \A t \in Ids : Created(t)' = Created(t) /\ (Busy(t)' <=> Busy(t))
  BY StillSandbox
<1>2. QED
  BY <1>1 DEF NamesFit, IdsInOrder

\* Whoever ends the drive names the tick that left work, or knows that it cannot.
LEMMA ShutdownNames ==
  ASSUME IdsInOrder', h'.pc = "shutdown",
         \A t \in Ids : Busy(t)' => t = ShutdownTick' \/ h'.unaccounted \/ TickForgotten'
  PROVE  NamesFit'
BY DEF NamesFit, DriveKnows, WorkIsNamed, Early, Driving, Destroying

\* A step of the drive that looks and decides, and touches nothing outside the harness.
LEMMA LookingKeeps ==
  ASSUME HarnessInv, h.pc \in DrivePcs \cup {"anchor"}, UNCHANGED sandbox,
         UNCHANGED <<artifacts, deleted, slipped, moved, workspace, exit>>,
         h' \in HRecords, h'.pc \in DrivePcs \cup {"shutdown"}, NamesFit', SuccessFits'
  PROVE  HarnessInv'
<1>1. /\ UNCHANGED <<kind, tip, foreign, pushed, merged, pr>> /\ SandboxTypeOK'
      /\ \A t \in Ids : Created(t)' = Created(t)
  BY StillSandbox DEF HarnessInv, TypeOK
<1>2. h.pc \in Early \cup DrivePcs /\ h.pc \notin {"prepare", "create"}
  BY DEF Early, DrivePcs
<1>3. QED
  BY <1>1, <1>2, DriveKeeps

\* Before the drive nothing is busy; during it, only the tick it drives.
LEMMA DrivenIsNamed ==
  ASSUME HarnessInv, h.pc \in Early \cup Driving, UNCHANGED sandbox,
         h'.pc = "shutdown", h'.tick = h.tick, h'.errTick \in {0, h.tick}
  PROVE  NamesFit'
<1>1. \A t \in Ids : Busy(t)' <=> Busy(t)
  BY StillSandbox
<1>2. IdsInOrder'
  BY StillIds DEF HarnessInv
<1>3. \A t \in Ids : Busy(t) => t = h.tick
  <2>1. h.pc \in Early => \A t \in Ids : ~Busy(t)
    BY SandboxAssumption DEF HarnessInv, NamesFit, DriveKnows, IdsInOrder, Ids
  <2>2. QED
    BY <2>1 DEF HarnessInv, NamesFit, WorkIsNamed
<1>4. ShutdownTick' = h.tick
  BY DEF ShutdownTick
<1>5. QED
  BY <1>1, <1>2, <1>3, <1>4, ShutdownNames

\* A pointer that moved is reported as what it is: a tick that picked nothing left no work.
LEMMA MovedIsReported ==
  ASSUME HarnessInv, h.pc \in DrivePcs, h.tick # 0, ErrsUnchanged, UNCHANGED sandbox,
         \A t \in Ids : Busy(t) => t \in {h.tick, current}
  PROVE  h' \in HRecords /\ h'.pc = "shutdown" /\ h'.success = h.success /\ NamesFit'
<1>1. h \in HRecords /\ h.tick \in 0..MaxIds
  BY HarnessRecordType DEF HarnessInv, HRecords
<1>2. /\ CheckUnchanged.class \in {"none", "observed", "partial"}
      /\ CheckUnchanged.unaccounted \in BOOLEAN
      /\ current \notin {0, h.tick} /\ ~CheckUnchanged.unaccounted => ticks[current].sentinel = "picked_none"
  BY DEF CheckUnchanged
<1>3. /\ h' \in HRecords /\ h'.pc = "shutdown" /\ h'.tick = h.tick /\ h'.errTick = h.tick
      /\ h'.unaccounted = CheckUnchanged.unaccounted /\ h'.success = h.success
  BY <1>1, <1>2, ErrsEffect DEF ErrsUnchanged
<1>4. IdsInOrder'
  BY <1>3, StillIds DEF HarnessInv
<1>5. \A t \in Ids : Busy(t)' => t = ShutdownTick' \/ h'.unaccounted
  <2>1. \A t \in Ids : (Busy(t)' <=> Busy(t)) /\ (Busy(t) => ticks[t].sentinel = "started")
    BY StillSandbox DEF HarnessInv, NamesFit, IdsInOrder
  <2>2. \A t \in Ids : Busy(t) /\ t # h.tick => CheckUnchanged.unaccounted
    BY <1>2, <2>1 DEF Ids
  <2>3. ShutdownTick' = h.tick
    BY <1>3 DEF ShutdownTick
  <2>4. QED
    BY <1>3, <2>1, <2>2, <2>3
<1>6. QED
  BY <1>3, <1>4, <1>5, ShutdownNames

LEMMA CreatesAnchorKeeps ==
  ASSUME HarnessInv, CreatesAnchor
  PROVE  HarnessInv'
<1>1. /\ h.pc = "anchor" /\ h \in HRecords
      /\ UNCHANGED sandbox /\ UNCHANGED <<artifacts, deleted, slipped, moved, workspace, exit>>
  BY HarnessRecordType DEF CreatesAnchor, At, HarnessInv
<1>2. ~h.success /\ h.run < Budget /\ h.errTick = 0 /\ ~h.unaccounted /\ h.tick = 0 /\ used = 0
  BY <1>1, NoSuccessBeforeJudgement DEF HarnessInv, NamesFit, DriveKnows, Early
<1>3. CASE Goes("tick")
  <2>1. /\ h' \in HRecords /\ h'.pc = "tick" /\ h'.tick = h.tick /\ h'.errTick = h.errTick
        /\ h'.unaccounted = h.unaccounted /\ ~h'.success /\ h'.run = h.run
    BY <1>1, <1>2, <1>3, GoesEffect DEF Pcs
  <2>2. IdsInOrder' /\ used' = used
    BY <1>1, <2>1, StillIds, StillSandbox DEF HarnessInv
  <2>3. \A t \in Ids : ~Busy(t)'
    BY <1>2, <2>2, SandboxAssumption DEF IdsInOrder, Ids
  <2>4. NamesFit'
    BY <1>2, <2>1, <2>2, <2>3 DEF NamesFit, DriveKnows, WorkIsNamed, Early, Driving, Destroying, Shutting, Budget
  <2>5. QED
    BY <1>1, <2>1, <2>4, LookingKeeps DEF DrivePcs, SuccessFits
<1>4. CASE \E doubt \in BOOLEAN :
             h' = [h EXCEPT !.pc = "shutdown", !.pending = "other", !.incomplete = doubt]
  <2>1. /\ h' \in HRecords /\ h'.pc = "shutdown" /\ h'.tick = h.tick /\ h'.errTick = 0 /\ ~h'.success
    BY <1>1, <1>2, <1>4 DEF HRecords, Pcs
  <2>2. NamesFit'
    BY <1>1, <2>1, DrivenIsNamed DEF Early
  <2>3. QED
    BY <1>1, <2>1, <2>2, LookingKeeps DEF SuccessFits
<1>5. QED
  BY <1>3, <1>4 DEF CreatesAnchor

\* The first tick is one id: a failed spawn can only be its.
LEMMA FailedSpawnIsFirst ==
  ASSUME HarnessInv, used <= 1, FailedSpawns # {}
  PROVE  Max(FailedSpawns) = 1
<1>1. FailedSpawns = {1}
  BY DEF HarnessInv, NamesFit, IdsInOrder, FailedSpawns, Ids, TypeOK, SandboxTypeOK
<1>2. \A x \in {1} : \A y \in {1} : x >= y
  OBVIOUS
<1>3. Max({1}) = 1
  BY <1>2 DEF Max
<1>4. QED
  BY <1>1, <1>3

LEMMA RecoversKeeps ==
  ASSUME HarnessInv, Recovers
  PROVE  HarnessInv'
<1>1. /\ h.pc = "recover" /\ h.tick = 0 /\ h \in HRecords
      /\ UNCHANGED sandbox /\ UNCHANGED <<artifacts, deleted, slipped, moved, workspace, exit>>
  BY HarnessRecordType DEF Recovers, At, HarnessInv
<1>2. ~h.success /\ h.errTick = 0 /\ ~h.unaccounted /\ used <= 1 /\ current \in 0..MaxIds
  BY <1>1, NoSuccessBeforeJudgement
     DEF HarnessInv, NamesFit, DriveKnows, DrivePcs, TypeOK, SandboxTypeOK
<1>3. \A t \in Ids : Busy(t) => t = current /\ ticks[t].sentinel = "started"
  BY <1>1 DEF HarnessInv, NamesFit, WorkIsNamed, IdsInOrder, Ids
<1>4. \A t \in Ids : Busy(t)' <=> Busy(t)
  BY <1>1, StillSandbox
<1>5. ASSUME NEW t \in 0..MaxIds, Errs("partial", t, FALSE), \A u \in Ids : Busy(u) => u = t
      PROVE  HarnessInv'
  <2>1. /\ h' \in HRecords /\ h'.pc = "shutdown" /\ h'.tick = h.tick /\ h'.errTick = t /\ ~h'.success
    BY <1>1, <1>2, <1>5, ErrsEffect
  <2>2. IdsInOrder'
    BY <1>1, <2>1, StillIds DEF HarnessInv
  <2>3. \A u \in Ids : Busy(u)' => u = ShutdownTick'
    BY <1>1, <1>4, <1>5, <2>1 DEF ShutdownTick, Ids
  <2>4. NamesFit'
    BY <2>1, <2>2, <2>3, ShutdownNames
  <2>5. QED
    BY <1>1, <2>1, <2>4, LookingKeeps DEF DrivePcs, SuccessFits
<1>6. CASE current = 0 /\ Errs("partial", IF FailedSpawns = {} THEN 0 ELSE Max(FailedSpawns), FALSE)
  <2>1. (IF FailedSpawns = {} THEN 0 ELSE Max(FailedSpawns)) \in 0..MaxIds
    BY <1>2, FailedSpawnIsFirst, SandboxAssumption
  <2>2. \A u \in Ids : ~Busy(u)
    BY <1>3, <1>6 DEF Ids
  <2>3. QED
    BY <1>5, <1>6, <2>1, <2>2
<1>7. CASE current # 0 /\ ticks[current].sentinel = "picked_none" /\ Errs("partial", 0, FALSE)
  <2>1. 0 \in 0..MaxIds /\ \A u \in Ids : ~Busy(u)
    BY <1>3, <1>7, SandboxAssumption
  <2>2. QED
    BY <1>5, <1>7, <2>1
<1>8. CASE current # 0 /\ Errs("partial", current, FALSE)
  BY <1>2, <1>3, <1>5, <1>8
<1>9. CASE current # 0 /\ Registered(ticks[current]) /\ h' = [h EXCEPT !.pc = "poll", !.tick = current]
  <2>1. /\ h' \in HRecords /\ h'.pc = "poll" /\ h'.tick = current /\ h'.errTick = 0
        /\ ~h'.unaccounted /\ ~h'.success
    BY <1>1, <1>2, <1>9 DEF HRecords, Pcs
  <2>2. IdsInOrder'
    BY <1>1, <1>9, <2>1, StillIds DEF HarnessInv, Registered
  <2>3. NamesFit'
    BY <1>3, <1>4, <1>9, <2>1, <2>2 DEF NamesFit, DriveKnows, WorkIsNamed, Early, Shutting, Destroying
  <2>4. QED
    BY <1>1, <2>1, <2>3, LookingKeeps DEF DrivePcs, SuccessFits
<1>10. QED
  BY <1>6, <1>7, <1>8, <1>9 DEF Recovers

LEMMA ReassertsKeeps ==
  ASSUME HarnessInv, Reasserts
  PROVE  HarnessInv'
<1>1. /\ h.pc = "recover" /\ h.tick # 0 /\ h \in HRecords
      /\ UNCHANGED sandbox /\ UNCHANGED <<artifacts, deleted, slipped, moved, workspace, exit>>
  BY HarnessRecordType DEF Reasserts, At, HarnessInv
<1>2. ~h.success /\ h.errTick = 0 /\ ~h.unaccounted
  BY <1>1, NoSuccessBeforeJudgement DEF HarnessInv, NamesFit, DriveKnows, DrivePcs
<1>3. \A t \in Ids : Busy(t) => t \in {h.tick, current}
  BY <1>1 DEF HarnessInv, NamesFit, WorkIsNamed
<1>4. CASE Unchanged /\ Goes("poll")
  <2>1. current = h.tick
    BY <1>1, <1>4 DEF Unchanged, CheckUnchanged
  <2>2. /\ h' \in HRecords /\ h'.pc = "poll" /\ h'.tick = h.tick /\ h'.errTick = 0
        /\ ~h'.unaccounted /\ ~h'.success
    BY <1>1, <1>2, <1>4, GoesEffect DEF Pcs
  <2>3. IdsInOrder' /\ \A t \in Ids : Busy(t)' <=> Busy(t)
    BY <1>1, <2>2, StillIds, StillSandbox DEF HarnessInv
  <2>4. NamesFit'
    BY <1>1, <1>3, <2>1, <2>2, <2>3 DEF NamesFit, DriveKnows, WorkIsNamed, Early, Shutting, Destroying
  <2>5. QED
    BY <1>1, <2>2, <2>4, LookingKeeps DEF DrivePcs, SuccessFits
<1>5. CASE ~Unchanged /\ ErrsUnchanged
  <2>1. h' \in HRecords /\ h'.pc = "shutdown" /\ ~h'.success /\ NamesFit'
    BY <1>1, <1>2, <1>3, <1>5, MovedIsReported DEF DrivePcs
  <2>2. QED
    BY <1>1, <2>1, LookingKeeps DEF DrivePcs, SuccessFits
<1>6. QED
  BY <1>4, <1>5 DEF Reasserts

\* An error of another class leaves the work of a first tick under no name, as shutdown is told;
\* but the single drive forgets to.
LEMMA BreaksKeeps ==
  ASSUME HarnessInv, Breaks
  PROVE  HarnessInv'
<1>1. /\ h.pc \in {"tick", "recover", "settled"} /\ h \in HRecords /\ (h.tick # 0 => current = h.tick)
      /\ UNCHANGED sandbox /\ UNCHANGED <<artifacts, deleted, slipped, moved, workspace, exit>>
  BY HarnessRecordType DEF Breaks, At, HarnessInv
<1>2. ~h.success /\ h.errTick = 0 /\ (h.pc = "recover" => h.run # 0) /\ kind \in {"pinned", "single"}
  BY <1>1, NoSuccessBeforeJudgement
     DEF HarnessInv, NamesFit, DriveKnows, Driving, DrivePcs, TypeOK, SandboxTypeOK
<1> DEFINE u == kind = "pinned" /\ h.tick = 0
<1>3. u \in BOOLEAN /\ h' = [h EXCEPT !.pc = "shutdown", !.pending = "other", !.unaccounted = u]
  BY DEF Breaks
<1>4. kind = "pinned" /\ h.tick = 0 => u
  OBVIOUS
<1> HIDE DEF u
<1>5. /\ h' \in HRecords /\ h'.pc = "shutdown" /\ h'.tick = h.tick /\ h'.errTick = 0 /\ h'.unaccounted = u
      /\ ~h'.success /\ h'.pending = "other" /\ h'.run = h.run
  BY <1>1, <1>2, <1>3 DEF HRecords, Pcs
<1>6. IdsInOrder' /\ kind' = kind /\ \A t \in Ids : Busy(t)' <=> Busy(t)
  BY <1>1, <1>5, StillIds, StillSandbox DEF HarnessInv
<1>7. \A t \in Ids : Busy(t) => t = h.tick \/ (h.pc = "recover" /\ h.tick = 0)
  BY <1>1 DEF HarnessInv, NamesFit, WorkIsNamed, Driving
<1>8. ShutdownTick' = h.tick
  BY <1>5 DEF ShutdownTick
<1>9. h.pc = "recover" /\ h.tick = 0 => u \/ TickForgotten'
  <2>1. h.pc = "recover" /\ h.tick = 0 /\ kind = "single" => TickForgotten'
    BY <1>2, <1>5, <1>6, <1>8 DEF TickForgotten
  <2>2. QED
    BY <1>2, <1>4, <2>1
<1>10. \A t \in Ids : Busy(t)' => t = ShutdownTick' \/ h'.unaccounted \/ TickForgotten'
  BY <1>5, <1>6, <1>7, <1>8, <1>9
<1>11. NamesFit'
  BY <1>5, <1>6, <1>10, ShutdownNames
<1>12. QED
  BY <1>1, <1>5, <1>11, LookingKeeps DEF DrivePcs, SuccessFits

\* What holds at a step after the registration was recovered.
LEMMA DriveFollows ==
  ASSUME HarnessInv, h.pc \in {"poll", "settled", "verify"}
  PROVE  /\ h \in HRecords /\ h.tick \in Ids /\ h.errTick = 0 /\ ~h.unaccounted
         /\ \A t \in Ids : Busy(t) => t = h.tick
<1>1. h \in HRecords
  BY HarnessRecordType DEF HarnessInv
<1>2. h.tick \in Ids
  BY <1>1 DEF HarnessInv, NamesFit, DriveKnows, HRecords, Ids
<1>3. QED
  BY <1>1, <1>2 DEF HarnessInv, NamesFit, DriveKnows, WorkIsNamed, Driving

\* A step on to a later part of the drive.
LEMMA DriveGoesOn ==
  ASSUME HarnessInv, h.pc \in {"poll", "settled"}, UNCHANGED sandbox, h' \in HRecords,
         h'.pc \in {"tick", "settled", "verify"}, h'.tick = h.tick, h'.errTick = h.errTick,
         h'.unaccounted = h.unaccounted, h'.pc = "tick" => h'.run < Budget
  PROVE  NamesFit'
<1>1. /\ h.tick \in Ids /\ h.errTick = 0 /\ ~h.unaccounted
      /\ \A t \in Ids : Busy(t) => t = h.tick
  BY DriveFollows
<1>2. IdsInOrder' /\ \A t \in Ids : Busy(t)' <=> Busy(t)
  BY StillIds, StillSandbox DEF HarnessInv
<1>3. h.tick # 0
  BY <1>1 DEF Ids
<1>4. QED
  BY <1>1, <1>2, <1>3 DEF NamesFit, DriveKnows, WorkIsNamed, Early, Shutting, Destroying

LEMMA PollsKeeps ==
  ASSUME HarnessInv, Polls
  PROVE  HarnessInv'
<1>1. /\ h.pc = "poll" /\ h \in HRecords /\ h.tick \in Ids /\ h.errTick = 0 /\ ~h.unaccounted
      /\ UNCHANGED sandbox /\ UNCHANGED <<artifacts, deleted, slipped, moved, workspace, exit>>
  BY DriveFollows DEF Polls, At
<1>2. ~h.success
  BY <1>1, NoSuccessBeforeJudgement DEF DrivePcs
<1>3. CASE h' = [h EXCEPT !.pc = "settled", !.board = Board,
                          !.observed = IF kind = "pinned" THEN @ \cup KeysOn(Board) ELSE @]
  <2>1. Board \in Boards /\ KeysOn(Board) \in SUBSET Keys
    BY <1>1 DEF Board, Boards, KeysOn, HarnessInv, TypeOK, SandboxTypeOK, TickStates
  <2> DEFINE seen == IF kind = "pinned" THEN h.observed \cup KeysOn(Board) ELSE h.observed
  <2>1a. seen \in SUBSET Keys
    BY <1>1, <2>1 DEF HRecords
  <2>1b. h' = [h EXCEPT !.pc = "settled", !.board = Board, !.observed = seen]
    BY <1>1, <1>3 DEF HRecords
  <2> HIDE DEF seen
  <2>2. /\ h' \in HRecords /\ h'.pc = "settled" /\ h'.tick = h.tick /\ h'.errTick = h.errTick
        /\ h'.unaccounted = h.unaccounted /\ ~h'.success
    BY <1>1, <1>2, <2>1, <2>1a, <2>1b DEF HRecords, Pcs
  <2>3. NamesFit'
    BY <1>1, <2>2, DriveGoesOn
  <2>4. QED
    BY <1>1, <2>2, <2>3, LookingKeeps DEF DrivePcs, SuccessFits
<1>4. CASE TimesOut
  <2>1. /\ h' \in HRecords /\ h'.pc = "shutdown" /\ h'.tick = h.tick /\ h'.errTick = 0 /\ ~h'.success
    BY <1>1, <1>2, <1>4, TimesOutEffect
  <2>2. NamesFit'
    BY <1>1, <2>1, DrivenIsNamed DEF Driving
  <2>3. QED
    BY <1>1, <2>1, <2>2, LookingKeeps DEF DrivePcs, SuccessFits
<1>5. CASE \E p \in {"poll", "other"} : h' = [h EXCEPT !.pc = "shutdown", !.pending = p]
  <2>1. /\ h' \in HRecords /\ h'.pc = "shutdown" /\ h'.tick = h.tick /\ h'.errTick = 0 /\ ~h'.success
    BY <1>1, <1>2, <1>5 DEF HRecords, Pcs
  <2>2. NamesFit'
    BY <1>1, <2>1, DrivenIsNamed DEF Driving
  <2>3. QED
    BY <1>1, <2>1, <2>2, LookingKeeps DEF DrivePcs, SuccessFits
<1>6. QED
  BY <1>3, <1>4, <1>5 DEF Polls

LEMMA JudgesSingleKeeps ==
  ASSUME HarnessInv, JudgesSingle
  PROVE  HarnessInv'
<1> DEFINE done == \A k \in Keys : h.board[k] = "done"
<1>1. /\ h.pc = "settled" /\ h \in HRecords /\ h.tick \in Ids /\ h.errTick = 0 /\ ~h.unaccounted
      /\ UNCHANGED sandbox /\ UNCHANGED <<artifacts, deleted, slipped, moved, workspace, exit>>
  BY DriveFollows DEF JudgesSingle, At
<1>2. h' = [h EXCEPT !.pc = IF done THEN "verify" ELSE "shutdown", !.success = done]
  BY DEF JudgesSingle
<1>3. CASE done
  <2>1. h' = [h EXCEPT !.pc = "verify", !.success = TRUE]
    BY <1>2, <1>3
  <2>2. /\ h' \in HRecords /\ h'.pc = "verify" /\ h'.tick = h.tick /\ h'.errTick = h.errTick
        /\ h'.unaccounted = h.unaccounted /\ h'.board = h.board
    BY <1>1, <2>1 DEF HRecords, Pcs
  <2>3. NamesFit'
    BY <1>1, <2>2, DriveGoesOn
  <2>4. SuccessFits'
    BY <1>3, <2>2 DEF SuccessFits
  <2>5. QED
    BY <1>1, <2>2, <2>3, <2>4, LookingKeeps DEF DrivePcs
<1>4. CASE ~done
  <2>1. h' = [h EXCEPT !.pc = "shutdown", !.success = FALSE]
    BY <1>2, <1>4
  <2>2. /\ h' \in HRecords /\ h'.pc = "shutdown" /\ h'.tick = h.tick /\ h'.errTick = 0 /\ ~h'.success
    BY <1>1, <2>1 DEF HRecords, Pcs
  <2>3. NamesFit'
    BY <1>1, <2>2, DrivenIsNamed DEF Driving
  <2>4. QED
    BY <1>1, <2>2, <2>3, LookingKeeps DEF DrivePcs, SuccessFits
<1>5. QED
  BY <1>3, <1>4

LEMMA JudgesPinnedKeeps ==
  ASSUME HarnessInv, JudgesPinned
  PROVE  HarnessInv'
<1> DEFINE verdict == ClassifyPinnedRun(h.board)
<1>1. /\ h.pc = "settled" /\ h \in HRecords /\ h.tick \in Ids /\ h.errTick = 0 /\ ~h.unaccounted
      /\ UNCHANGED sandbox /\ UNCHANGED <<artifacts, deleted, slipped, moved, workspace, exit>>
      /\ \A t \in Ids : Busy(t) => t = h.tick
  BY DriveFollows DEF JudgesPinned, At
<1>2. ~h.success /\ h.tick # 0 /\ h.tick \in 0..MaxIds
  BY <1>1, NoSuccessBeforeJudgement DEF DrivePcs, Ids
<1>3. CASE ~Unchanged /\ ErrsUnchanged
  <2>1. h' \in HRecords /\ h'.pc = "shutdown" /\ ~h'.success /\ NamesFit'
    BY <1>1, <1>2, <1>3, MovedIsReported DEF DrivePcs
  <2>2. QED
    BY <1>1, <2>1, LookingKeeps DEF DrivePcs, SuccessFits
<1>4. CASE Goes("shutdown")
  <2>1. /\ h' \in HRecords /\ h'.pc = "shutdown" /\ h'.tick = h.tick /\ h'.errTick = 0 /\ ~h'.success
    BY <1>1, <1>2, <1>4, GoesEffect DEF Pcs
  <2>2. NamesFit'
    BY <1>1, <2>1, DrivenIsNamed DEF Driving
  <2>3. QED
    BY <1>1, <2>1, <2>2, LookingKeeps DEF DrivePcs, SuccessFits
<1>5. CASE verdict = "delivered" /\ h' = [h EXCEPT !.pc = "verify", !.success = TRUE]
  <2>1. \A k \in Keys : h.board[k] = "done"
    BY <1>5 DEF ClassifyPinnedRun
  <2>2. /\ h' \in HRecords /\ h'.pc = "verify" /\ h'.tick = h.tick /\ h'.errTick = h.errTick
        /\ h'.unaccounted = h.unaccounted /\ h'.board = h.board
    BY <1>1, <1>5 DEF HRecords, Pcs
  <2>3. NamesFit'
    BY <1>1, <2>2, DriveGoesOn
  <2>4. SuccessFits'
    BY <2>1, <2>2 DEF SuccessFits
  <2>5. QED
    BY <1>1, <2>2, <2>3, <2>4, LookingKeeps DEF DrivePcs
<1>6. CASE Errs("observed", h.tick, FALSE)
  <2>1. /\ h' \in HRecords /\ h'.pc = "shutdown" /\ h'.tick = h.tick /\ h'.errTick = h.tick /\ ~h'.success
    BY <1>1, <1>2, <1>6, ErrsEffect
  <2>2. NamesFit'
    BY <1>1, <2>1, DrivenIsNamed DEF Driving
  <2>3. QED
    BY <1>1, <2>1, <2>2, LookingKeeps DEF DrivePcs, SuccessFits
<1>7. CASE /\ ~(Identical(h.board) >= MAX_IDENTICAL \/ h.run >= Budget)
           /\ h' = [h EXCEPT !.pc = "tick", !.last = h.board, !.same = Identical(h.board)]
  <2>1. Identical(h.board) \in 0..MAX_IDENTICAL /\ h.run < Budget /\ h.board \in Boards
    BY <1>1, <1>7, SandboxAssumption DEF HRecords, Identical, MAX_IDENTICAL, Budget
  <2>2. /\ h' \in HRecords /\ h'.pc = "tick" /\ h'.tick = h.tick /\ h'.errTick = h.errTick
        /\ h'.unaccounted = h.unaccounted /\ ~h'.success /\ h'.run = h.run
    BY <1>1, <1>2, <1>7, <2>1 DEF HRecords, Pcs
  <2>3. NamesFit'
    BY <1>1, <2>1, <2>2, DriveGoesOn DEF Budget
  <2>4. QED
    BY <1>1, <2>2, <2>3, LookingKeeps DEF DrivePcs, SuccessFits
<1>8. QED
  BY <1>3, <1>4, <1>5, <1>6, <1>7 DEF JudgesPinned

\* A verified pull request has commits of the run on top of its anchor.
LEMMA VerifiedIsImplemented ==
  ASSUME SandboxTypeOK, VerifyPullRequest
  PROVE  Implemented
<1>1. PICK b \in Heads : /\ Discovered.prs = {b}
                         /\ kind = "pinned" => b = "own"
                         /\ tip[b] # Anchor
  BY DEF VerifyPullRequest
<1>2. IsAttributablePr(b)
  BY <1>1 DEF Discovered
<1>3. tip[b] > Anchor
  BY <1>1, <1>2 DEF IsAttributablePr, Provenance, Anchor, SandboxTypeOK, MaxTip
<1>4. QED
  BY <1>1, <1>3 DEF Implemented

LEMMA VerifiesKeeps ==
  ASSUME HarnessInv, Verifies
  PROVE  HarnessInv'
<1>1. /\ h.pc = "verify" /\ h \in HRecords /\ h.tick \in Ids /\ h.errTick = 0 /\ ~h.unaccounted
      /\ UNCHANGED sandbox /\ UNCHANGED <<artifacts, deleted, slipped, moved, workspace, exit>>
  BY DriveFollows DEF Verifies, At
<1>2. /\ h' \in HRecords /\ h'.pc = "shutdown" /\ h'.tick = h.tick /\ h'.errTick = 0
      /\ h'.success = h.success /\ h'.board = h.board
  <2>1. CASE h' = [h EXCEPT !.pc = "shutdown", !.failed = (@ \/ ~VerifyPullRequest)]
    <3> DEFINE failed == h.failed \/ ~VerifyPullRequest
    <3>1. failed \in BOOLEAN
      OBVIOUS
    <3>2. h' = [h EXCEPT !.pc = "shutdown", !.failed = failed]
      BY <2>1
    <3> HIDE DEF failed
    <3>3. QED
      BY <1>1, <3>1, <3>2 DEF HRecords, Pcs
  <2>2. CASE h' = [h EXCEPT !.pc = "shutdown", !.failed = TRUE]
    BY <1>1, <2>2 DEF HRecords, Pcs
  <2>3. CASE h' = [h EXCEPT !.pc = "shutdown", !.pending = "other"]
    BY <1>1, <2>3 DEF HRecords, Pcs
  <2>4. QED
    BY <2>1, <2>2, <2>3 DEF Verifies
<1>3. ~h'.failed /\ h'.pending = "none" => Implemented
  <2>1. CASE h' = [h EXCEPT !.pc = "shutdown", !.failed = (@ \/ ~VerifyPullRequest)]
    <3>1. h'.failed = (h.failed \/ ~VerifyPullRequest)
      BY <1>1, <2>1 DEF HRecords
    <3>2. ~h'.failed => VerifyPullRequest
      BY <3>1, Zenon
    <3>3. QED
      BY <3>2, VerifiedIsImplemented DEF HarnessInv, TypeOK
  <2>2. CASE h' = [h EXCEPT !.pc = "shutdown", !.failed = TRUE]
    BY <1>1, <2>2 DEF HRecords
  <2>3. CASE h' = [h EXCEPT !.pc = "shutdown", !.pending = "other"]
    BY <1>1, <2>3 DEF HRecords
  <2>4. QED
    BY <2>1, <2>2, <2>3 DEF Verifies
<1>4. NamesFit'
  BY <1>1, <1>2, DrivenIsNamed DEF Driving
<1>5. SuccessFits'
  <2>1. Implemented' <=> Implemented
    BY <1>1, StillSandbox DEF Implemented
  <2>2. QED
    BY <1>2, <1>3, <2>1 DEF HarnessInv, SuccessFits, Shutting
<1>6. QED
  BY <1>1, <1>2, <1>4, <1>5, LookingKeeps DEF DrivePcs

\* The tick that the harness runs leaves its work under the run's id, or under the one that the
\* pointer names from now on.
LEMMA TickLeavesNames ==
  ASSUME HarnessInv, h.pc = "tick", TickRuns(h.tick), h'.tick = h.tick
  PROVE  /\ SandboxTypeOK' /\ IdsInOrder'
         /\ UNCHANGED <<kind, issue, tip, foreign, pushed, merged, pr>>
         /\ h.tick = 0 => used' <= 1
         /\ \A t \in Ids : Created(t) # {} => Created(t)' # {}
         /\ \A t \in Ids : Busy(t)' => t \in {h.tick, current'}
<1>1. h \in HRecords /\ h.tick \in 0..MaxIds /\ SandboxTypeOK /\ IdsInOrder
  BY HarnessRecordType DEF HRecords, HarnessInv, TypeOK, NamesFit
<1>2. /\ SandboxTypeOK'
      /\ UNCHANGED <<kind, issue, tip, foreign, pushed, merged, pr>>
      /\ \/ UNCHANGED <<current, used, ticks>>
         \/ \E t \in Ids : TickBegins(t)
         \/ h.tick \in Ids /\ TickGoesOn(h.tick) /\ current = h.tick
  BY <1>1, TickRunsEffect
<1>3. (h.tick = 0 => used = 0) /\ \A t \in Ids : Busy(t) => t = h.tick
  BY DEF HarnessInv, NamesFit, DriveKnows, WorkIsNamed, Driving
<1>4. current \in 0..MaxIds /\ used \in 0..MaxIds
  BY <1>1 DEF SandboxTypeOK
<1>5. CASE UNCHANGED <<current, used, ticks>>
  <2>1. \A t \in Ids : Created(t)' = Created(t) /\ (Busy(t)' <=> Busy(t))
    BY <1>5 DEF Created, Busy
  <2>2. IdsInOrder'
    BY <1>1, <1>5, <2>1 DEF IdsInOrder
  <2>3. QED
    BY <1>2, <1>3, <1>4, <1>5, <2>1, <2>2
<1>6. CASE \E t \in Ids : TickBegins(t)
  <2>1. PICK t \in Ids : TickBegins(t)
    BY <1>6
  <2>2. /\ t = used + 1 /\ used' = t /\ current' \in {current, t}
        /\ \A u \in Ids : u # t => ticks'[u] = ticks[u]
        /\ current' # t => ~Busy(t)'
        /\ ~ticks'[t].orphan
        /\ Busy(t)' => ticks'[t].sentinel = "started"
    BY <2>1 DEF TickBegins
  <2>3. \A u \in Ids : u # t => Created(u)' = Created(u) /\ (Busy(u)' <=> Busy(u))
    BY <2>2 DEF Created, Busy
  <2>4. ~Busy(t) /\ Created(t) = {}
    BY <1>1, <1>4, <2>2 DEF IdsInOrder, Busy
  <2>5. IdsInOrder'
    <3>1. h'.tick <= used' /\ current' <= used'
      BY <1>1, <1>4, <2>2 DEF IdsInOrder
    <3>2. \A u \in Ids : u > used' => ~Busy(u)' /\ ~ticks'[u].spawnFailed
      BY <1>1, <1>4, <2>2, <2>3 DEF IdsInOrder, Ids
    <3>3. \A u \in Ids : ticks'[u].orphan => Created(u)' # {}
      BY <1>1, <2>2, <2>3 DEF IdsInOrder
    <3>4. \A u \in Ids : Busy(u)' => ticks'[u].sentinel = "started"
      BY <1>1, <2>2, <2>3 DEF IdsInOrder
    <3>5. h'.tick # 0 => ticks'[h'.tick].sentinel = "started"
      BY <1>1, <1>4, <2>2 DEF IdsInOrder, Ids
    <3>6. QED
      BY <3>1, <3>2, <3>3, <3>4, <3>5 DEF IdsInOrder
  <2>6. QED
    BY <1>2, <1>3, <1>4, <2>2, <2>3, <2>4, <2>5
<1>7. CASE h.tick \in Ids /\ TickGoesOn(h.tick) /\ current = h.tick
  <2> DEFINE t == h.tick
  <2>1. /\ UNCHANGED <<current, used>>
        /\ \A u \in Ids : u # t => ticks'[u] = ticks[u]
        /\ ticks'[t].sentinel = ticks[t].sentinel
        /\ ticks'[t].spawnFailed = ticks[t].spawnFailed
        /\ ticks'[t].orphan = ticks[t].orphan
        /\ \A k \in Keys : ticks[t].cards[k] # "absent" => ticks'[t].cards[k] # "absent"
    BY <1>7 DEF TickGoesOn
  <2>2. \A u \in Ids : u # t => Created(u)' = Created(u) /\ (Busy(u)' <=> Busy(u))
    BY <2>1 DEF Created, Busy
  <2>3. \A u \in Ids : Created(u) # {} => Created(u)' # {}
    BY <2>1 DEF Created
  <2>4. t \in Ids /\ t <= used /\ t # 0 /\ ticks[t].sentinel = "started"
    BY <1>1, <1>7 DEF IdsInOrder, Ids
  <2>5. IdsInOrder'
    <3>1. h'.tick <= used' /\ current' <= used'
      BY <1>1, <2>1 DEF IdsInOrder
    <3>2. \A u \in Ids : u > used' => ~Busy(u)' /\ ~ticks'[u].spawnFailed
      BY <1>1, <1>4, <2>1, <2>2, <2>4 DEF IdsInOrder, Ids
    <3>3. \A u \in Ids : ticks'[u].orphan => Created(u)' # {}
      BY <1>1, <2>1, <2>3 DEF IdsInOrder
    <3>4. \A u \in Ids : Busy(u)' => ticks'[u].sentinel = "started"
      BY <1>1, <2>1, <2>2, <2>4 DEF IdsInOrder
    <3>5. h'.tick # 0 => ticks'[h'.tick].sentinel = "started"
      BY <2>1, <2>4
    <3>6. QED
      BY <3>1, <3>2, <3>3, <3>4, <3>5 DEF IdsInOrder
  <2>6. \A u \in Ids : Busy(u)' => u = t
    BY <1>3, <2>2
  <2>7. QED
    BY <1>2, <2>3, <2>4, <2>5, <2>6
<1>8. QED
  BY <1>2, <1>5, <1>6, <1>7

LEMMA TickFailsEffect ==
  ASSUME h \in HRecords, h.run + 1 \in 0..Budget, NEW class \in {"observed", "partial"},
         NEW e \in 0..MaxIds, NEW u \in BOOLEAN,
         h' = [h EXCEPT !.pc = "shutdown", !.run = @ + 1, !.err = class, !.failed = TRUE,
                        !.errTick = e, !.unaccounted = u]
  PROVE  /\ h' \in HRecords /\ h'.pc = "shutdown" /\ h'.tick = h.tick /\ h'.errTick = e
         /\ h'.unaccounted = u /\ h'.success = h.success
BY DEF HRecords, Pcs

LEMMA TickReturnsEffect ==
  ASSUME h \in HRecords, h.run + 1 \in 0..Budget, h' = [h EXCEPT !.pc = "recover", !.run = @ + 1]
  PROVE  /\ h' \in HRecords /\ h'.pc = "recover" /\ h'.tick = h.tick /\ h'.errTick = h.errTick
         /\ h'.unaccounted = h.unaccounted /\ h'.success = h.success /\ h'.run # 0
<1>1. h' \in HRecords
  BY DEF HRecords, Pcs
<1>2. h.run \in Nat /\ h'.run = h.run + 1
  BY SandboxAssumption DEF HRecords, Budget
<1>3. QED
  BY <1>1, <1>2 DEF HRecords

LEMMA RunsTickKeeps ==
  ASSUME HarnessInv, RunsTick
  PROVE  HarnessInv'
<1>1. /\ h.pc = "tick" /\ h \in HRecords /\ h.tick \in 0..MaxIds
      /\ UNCHANGED <<artifacts, deleted, slipped, moved, workspace, exit>>
  BY HarnessRecordType DEF RunsTick, At, HarnessInv, HRecords
<1>2. /\ ~h.success /\ h.run < Budget /\ h.errTick = 0 /\ ~h.unaccounted
      /\ \A t \in Ids : Busy(t) => t = h.tick
  BY <1>1, NoSuccessBeforeJudgement
     DEF HarnessInv, NamesFit, DriveKnows, WorkIsNamed, Driving, DrivePcs
<1>3. CASE TimesOut /\ UNCHANGED sandbox
  <2>1. /\ h' \in HRecords /\ h'.pc = "shutdown" /\ h'.tick = h.tick /\ h'.errTick = 0 /\ ~h'.success
    BY <1>1, <1>2, <1>3, TimesOutEffect
  <2>2. NamesFit'
    BY <1>1, <1>3, <2>1, DrivenIsNamed DEF Driving
  <2>3. QED
    BY <1>1, <1>3, <2>1, <2>2, LookingKeeps DEF DrivePcs, SuccessFits
<1>4. CASE ~Unchanged /\ ErrsUnchanged /\ UNCHANGED sandbox
  <2>1. h.tick # 0
    BY <1>4 DEF Unchanged
  <2>2. h' \in HRecords /\ h'.pc = "shutdown" /\ ~h'.success /\ NamesFit'
    BY <1>1, <1>2, <1>4, <2>1, MovedIsReported DEF DrivePcs
  <2>3. QED
    BY <1>1, <1>4, <2>2, LookingKeeps DEF DrivePcs, SuccessFits
<1>5. h.run + 1 \in 0..Budget
  BY <1>1, <1>2, SandboxAssumption DEF HRecords, Budget
<1>6. CASE TickRuns(h.tick) /\ h' = [h EXCEPT !.pc = "recover", !.run = @ + 1]
  <2>1. /\ h' \in HRecords /\ h'.pc = "recover" /\ h'.tick = h.tick /\ h'.errTick = 0
        /\ ~h'.unaccounted /\ ~h'.success /\ h'.run # 0
    BY <1>1, <1>2, <1>5, <1>6, TickReturnsEffect
  <2>2. /\ SandboxTypeOK' /\ IdsInOrder'
        /\ UNCHANGED <<kind, issue, tip, foreign, pushed, merged, pr>>
        /\ h.tick = 0 => used' <= 1
        /\ \A t \in Ids : Created(t) # {} => Created(t)' # {}
        /\ \A t \in Ids : Busy(t)' => t \in {h.tick, current'}
    BY <1>1, <1>6, <2>1, TickLeavesNames
  <2>3. NamesFit'
    BY <2>1, <2>2 DEF NamesFit, DriveKnows, WorkIsNamed, Early, Driving, Shutting, Destroying
  <2>4. SuccessFits'
    BY <2>1 DEF SuccessFits
  <2>5. QED
    BY <1>1, <2>1, <2>2, <2>3, <2>4, DriveKeeps DEF DrivePcs, Early
<1>7. CASE TickFails
  <2>1. TickRuns(h.tick)
    BY <1>7 DEF TickFails
  <2> DEFINE e == IF h.tick # 0 THEN h.tick ELSE current'
             u == UnaccountedAfter(h.tick, current', ticks')
  <2>2. PICK class \in {"observed", "partial"} :
          h' = [h EXCEPT !.pc = "shutdown", !.run = @ + 1, !.err = class, !.failed = TRUE,
                         !.errTick = e, !.unaccounted = u]
    BY <1>7 DEF TickFails
  <2>3. SandboxTypeOK'
    BY <1>1, <2>1, TickRunsEffect DEF HarnessInv, TypeOK, NamesFit
  <2>4. e \in 0..MaxIds /\ u \in BOOLEAN
    BY <1>1, <2>3 DEF SandboxTypeOK, UnaccountedAfter
  <2>5. h.tick # 0 => u = (current' \notin {0, h.tick} /\ ticks'[current'].sentinel # "picked_none")
    BY DEF UnaccountedAfter
  <2>6. (h.tick # 0 => e = h.tick) /\ (h.tick = 0 => e = current')
    OBVIOUS
  <2> HIDE DEF e, u
  <2>7. /\ h' \in HRecords /\ h'.pc = "shutdown" /\ h'.tick = h.tick /\ h'.errTick = e
        /\ h'.unaccounted = u /\ ~h'.success
    BY <1>1, <1>2, <1>5, <2>2, <2>4, TickFailsEffect
  <2>8. /\ SandboxTypeOK' /\ IdsInOrder'
        /\ UNCHANGED <<kind, issue, tip, foreign, pushed, merged, pr>>
        /\ \A t \in Ids : Created(t) # {} => Created(t)' # {}
        /\ \A t \in Ids : Busy(t)' => t \in {h.tick, current'}
    BY <1>1, <2>1, <2>7, TickLeavesNames
  <2>9. \A t \in Ids : Busy(t)' => t = ShutdownTick' \/ h'.unaccounted
    <3>1. \A t \in Ids : Busy(t)' => ticks'[t].sentinel = "started" /\ t # 0
      BY <2>8 DEF IdsInOrder, Ids
    <3>2. CASE h.tick = 0
      BY <2>6, <2>7, <2>8, <3>1, <3>2 DEF ShutdownTick
    <3>3. CASE h.tick # 0
      <4>1. \A t \in Ids : Busy(t)' /\ t # h.tick => u
        BY <2>5, <2>8, <3>1, <3>3
      <4>2. ShutdownTick' = h.tick
        BY <2>6, <2>7, <3>3 DEF ShutdownTick
      <4>3. QED
        BY <2>7, <4>1, <4>2
    <3>4. QED
      BY <3>2, <3>3
  <2>10. NamesFit'
    BY <2>7, <2>8, <2>9, ShutdownNames
  <2>11. SuccessFits'
    BY <2>7 DEF SuccessFits
  <2>12. QED
    BY <1>1, <2>7, <2>8, <2>10, <2>11, DriveKeeps DEF DrivePcs, Early
<1>8. QED
  BY <1>3, <1>4, <1>6, <1>7 DEF RunsTick

-----------------------------------------------------------------------------
(* The process begins and ends.                                            *)

LEMMA NothingBusyYet ==
  ASSUME HarnessInv, h.pc \in Early
  PROVE  Quiet /\ \A b \in Mine : tip[b] = 0 /\ ~Open(b)
<1>1. \A t \in Ids : ~Busy(t)
  BY SandboxAssumption DEF HarnessInv, NamesFit, DriveKnows, IdsInOrder, Ids
<1>2. Quiet
  BY <1>1, QuietIfNothingIsBusy DEF HarnessInv, NamesFit
<1>3. \A t \in Ids : Created(t) = {}
  BY <1>1 DEF Busy
<1>4. QED
  BY <1>2, <1>3 DEF HarnessInv, PushesFit

LEMMA QuietKept ==
  ASSUME UNCHANGED <<ticks, slipped, kind>>
  PROVE  Quiet' <=> Quiet
<1>1. SomeoneMayPush' <=> SomeoneMayPush
  BY DEF SomeoneMayPush, MayPush
<1>2. QED
  BY <1>1 DEF Quiet

LEMMA StillTicks ==
  ASSUME UNCHANGED ticks
  PROVE  \A t \in Ids : Created(t)' = Created(t) /\ (Busy(t)' <=> Busy(t))
BY DEF Created, Busy

\* The end keeps the invariant, whatever it does to the workspace and whatever it says.
LEMMA EndsKeeps ==
  ASSUME HarnessInv, exit = "running", NEW e \in {"zero", "one", "raised", "interrupted"},
         NEW g \in HRecords, Ends(e, g), SandboxTypeOK',
         UNCHANGED <<kind, current, used, ticks, tip, foreign, pushed, merged, pr>>,
         UNCHANGED <<artifacts, deleted, slipped, moved>>
  PROVE  HarnessInv'
<1>1. /\ h' \in HRecords /\ h'.pc = "end" /\ h'.board = g.board /\ ~h'.success /\ h'.tick = 0
      /\ exit' = e
      /\ workspace' = IF ~g.keep /\ g.quiescent /\ ~g.incomplete THEN "removed" ELSE workspace
  BY EndsEffect
<1>2. workspace' \in {"there", "removed"}
  BY <1>1 DEF HarnessInv, TypeOK
<1>3. TypeOK'
  BY <1>1, <1>2 DEF HarnessInv, TypeOK, HRecords
<1>4. NamesFit'
  <2>1. \A t \in Ids : Created(t)' = Created(t) /\ (Busy(t)' <=> Busy(t))
    BY StillTicks
  <2>2. IdsInOrder'
    BY <1>1, <2>1 DEF HarnessInv, NamesFit, IdsInOrder, TypeOK, SandboxTypeOK
  <2>3. QED
    BY <1>1, <2>2 DEF NamesFit, DriveKnows, WorkIsNamed, Early, Driving, Shutting, Destroying
<1>5. PushesFit'
  <2>1. \A t \in Ids : Created(t)' = Created(t)
    BY StillTicks
  <2>2. QED
    BY <1>1, <2>1 DEF HarnessInv, PushesFit, Open
<1>6. QuietFits'
  BY <1>1, QuietKept DEF HarnessInv, QuietFits, Destroying
<1>7. FoundFits' /\ JudgedFits' /\ IssueFits' /\ SuccessFits'
  BY <1>1 DEF FoundFits, JudgedFits, IssueFits, SuccessFits, Listed
<1>8. EndFits'
  BY <1>1 DEF EndFits
<1>9. QED
  BY <1>3, <1>4, <1>5, <1>6, <1>7, <1>8 DEF HarnessInv

\* An interrupt removes the workspace before there is an issue, where nothing keeps it, or when the
\* report does not.
LEMMA InterruptedEnds ==
  ASSUME HarnessInv, Interrupted
  PROVE  /\ exit = "running" /\ UNCHANGED sandbox /\ UNCHANGED <<artifacts, deleted, slipped, moved>>
         /\ \E g \in HRecords :
              /\ Ends("interrupted", g)
              /\ ~g.keep /\ g.quiescent /\ ~g.incomplete =>
                   h.pc \in {"prepare", "anchor", "shutdown"} \/ (h.pc = "report" /\ ~h.keep)
<1>1. exit = "running" /\ UNCHANGED sandbox /\ UNCHANGED <<artifacts, deleted, slipped, moved>>
  BY DEF Interrupted
<1>2. h \in HRecords
  BY HarnessRecordType DEF HarnessInv
<1>3. CASE Ends("interrupted", [h EXCEPT !.quiescent = FALSE])
  <2>1. PICK g : g = [h EXCEPT !.quiescent = FALSE]
    OBVIOUS
  <2>2. g \in HRecords /\ ~g.quiescent
    BY <1>2, <2>1 DEF HRecords
  <2>3. QED
    BY <1>1, <1>3, <2>1, <2>2
<1>4. CASE h.pc \in {"prepare", "create", "anchor", "shutdown"} /\ Ends("interrupted", h)
  <2>1. h.pc = "create" => h.incomplete
    BY DEF HarnessInv, IssueFits
  <2>2. QED
    BY <1>1, <1>2, <1>4, <2>1
<1>5. CASE h.pc = "report" /\ \E g \in {[Reported(h) EXCEPT !.incomplete = h.incomplete], Reported(h)} :
             Ends("interrupted", g)
  <2>1. PICK g \in {[Reported(h) EXCEPT !.incomplete = h.incomplete], Reported(h)} : Ends("interrupted", g)
    BY <1>5
  <2> DEFINE q == h.quiescent /\ h.pending # "poll"
             i == h.incomplete \/ ~h.ok
  <2>2. q \in BOOLEAN /\ i \in BOOLEAN
    OBVIOUS
  <2>3. Reported(h) = [h EXCEPT !.quiescent = q, !.incomplete = i]
    BY <1>2 DEF Reported, HRecords
  <2> HIDE DEF q, i
  <2>4. g \in HRecords /\ g.keep = h.keep
    <3>1. PICK r : r = Reported(h)
      OBVIOUS
    <3>2. r \in HRecords /\ r.keep = h.keep
      BY <1>2, <2>2, <2>3, <3>1 DEF HRecords
    <3>3. h.incomplete \in BOOLEAN
      BY <1>2 DEF HRecords
    <3>4. CASE g = [r EXCEPT !.incomplete = h.incomplete]
      BY <3>2, <3>3, <3>4 DEF HRecords
    <3>5. CASE g = r
      BY <3>2, <3>5
    <3>6. QED
      BY <2>1, <3>1, <3>4, <3>5
  <2>5. QED
    BY <1>1, <1>5, <2>1, <2>4
<1>6. QED
  BY <1>3, <1>4, <1>5 DEF Interrupted

LEMMA InterruptedKeeps ==
  ASSUME HarnessInv, Interrupted
  PROVE  HarnessInv'
<1>1. exit = "running" /\ UNCHANGED sandbox /\ UNCHANGED <<artifacts, deleted, slipped, moved>>
  BY InterruptedEnds
<1>2. PICK g \in HRecords : Ends("interrupted", g)
  BY InterruptedEnds
<1>3. /\ UNCHANGED <<kind, current, used, ticks, issue, tip, foreign, pushed, merged, pr>>
      /\ SandboxTypeOK'
  BY <1>1, StillSandbox DEF HarnessInv, TypeOK
<1>4. QED
  BY <1>1, <1>2, <1>3, EndsKeeps

LEMMA PreparesKeeps ==
  ASSUME HarnessInv, Prepares
  PROVE  HarnessInv'
<1>1. /\ h.pc = "prepare" /\ exit = "running" /\ h \in HRecords
      /\ UNCHANGED sandbox /\ UNCHANGED <<artifacts, deleted, slipped, moved>>
  BY HarnessRecordType DEF Prepares, At, HarnessInv
<1>2. /\ UNCHANGED <<kind, current, used, ticks, issue, tip, foreign, pushed, merged, pr>>
      /\ SandboxTypeOK' /\ \A t \in Ids : Created(t)' = Created(t) /\ (Busy(t)' <=> Busy(t))
  BY <1>1, StillSandbox DEF HarnessInv, TypeOK
<1>3. issue = "none" /\ ~h.success /\ h.tick = 0
  BY <1>1, NoSuccessBeforeJudgement DEF HarnessInv, IssueFits, Early, NamesFit, DriveKnows
<1>4. CASE /\ h' = [h EXCEPT !.pc = "create", !.incomplete = TRUE]
           /\ UNCHANGED <<workspace, exit>>
  <2>1. /\ h' \in HRecords /\ h'.pc = "create" /\ h'.incomplete /\ ~h'.success
        /\ h'.tick = h.tick /\ h'.errTick = h.errTick /\ h'.unaccounted = h.unaccounted
        /\ h'.run = h.run
    BY <1>1, <1>3, <1>4 DEF HRecords, Pcs
  <2>2. TypeOK'
    BY <1>1, <1>2, <1>4, <2>1 DEF HarnessInv, TypeOK, HRecords
  <2>3. IdsInOrder'
    BY <1>1, <2>1, StillIds DEF HarnessInv
  <2>4. NamesFit'
    BY <1>1, <1>2, <2>1, <2>3
       DEF HarnessInv, NamesFit, DriveKnows, WorkIsNamed, Early, Driving, Shutting, Destroying, Budget
  <2>5. PushesFit'
    BY <1>1, <1>2, <2>1 DEF HarnessInv, PushesFit, Open
  <2>6. QuietFits'
    BY <1>1, <2>1 DEF HarnessInv, QuietFits, Destroying
  <2>7. FoundFits' /\ JudgedFits' /\ IssueFits' /\ SuccessFits'
    <3>1. moved' = {}
      BY <1>1 DEF HarnessInv, JudgedFits, Listed
    <3>2. QED
      BY <2>1, <3>1 DEF FoundFits, JudgedFits, IssueFits, SuccessFits, Listed
  <2>8. EndFits'
    BY <1>1, <1>4, <2>1
       DEF HarnessInv, EndFits
  <2>9. QED
    BY <2>2, <2>4, <2>5, <2>6, <2>7, <2>8 DEF HarnessInv
<1>5. CASE Ends("raised", h)
  BY <1>1, <1>2, <1>5, EndsKeeps
<1>6. QED
  BY <1>4, <1>5 DEF Prepares

LEMMA CreatesIssueKeeps ==
  ASSUME HarnessInv, CreatesIssue
  PROVE  HarnessInv'
<1>1. /\ h.pc = "create" /\ exit = "running" /\ h \in HRecords /\ h.incomplete
      /\ UNCHANGED <<kind, current, used, ticks, tip, foreign, pushed, merged, pr, acts>>
      /\ UNCHANGED <<artifacts, deleted, slipped, moved>>
      /\ issue' \in {"none", "open"}
  BY HarnessRecordType DEF CreatesIssue, At, HarnessInv, IssueFits
<1>2. SandboxTypeOK'
  BY <1>1 DEF HarnessInv, TypeOK, SandboxTypeOK
<1>3. \A t \in Ids : Created(t)' = Created(t) /\ (Busy(t)' <=> Busy(t))
  BY <1>1, StillTicks
<1>4. ~h.success
  BY <1>1, NoSuccessBeforeJudgement DEF Early
<1>5. CASE /\ h' = [h EXCEPT !.pc = "anchor", !.incomplete = FALSE]
           /\ UNCHANGED <<workspace, exit>>
  <2>1. /\ h' \in HRecords /\ h'.pc = "anchor" /\ ~h'.success
        /\ h'.tick = h.tick /\ h'.errTick = h.errTick /\ h'.unaccounted = h.unaccounted
        /\ h'.run = h.run
    BY <1>1, <1>4, <1>5 DEF HRecords, Pcs
  <2>2. TypeOK'
    BY <1>1, <1>2, <1>5, <2>1 DEF HarnessInv, TypeOK, HRecords
  <2>3. IdsInOrder'
    BY <1>1, <1>3, <2>1 DEF HarnessInv, NamesFit, IdsInOrder
  <2>4. NamesFit'
    BY <1>1, <1>3, <2>1, <2>3
       DEF HarnessInv, NamesFit, DriveKnows, WorkIsNamed, Early, Driving, Shutting, Destroying, Budget
  <2>5. PushesFit'
    BY <1>1, <1>3, <2>1 DEF HarnessInv, PushesFit, Open
  <2>6. QuietFits'
    BY <1>1, <2>1 DEF HarnessInv, QuietFits, Destroying
  <2>7. FoundFits' /\ JudgedFits' /\ IssueFits' /\ SuccessFits'
    <3>1. moved' = {}
      BY <1>1 DEF HarnessInv, JudgedFits, Listed
    <3>2. QED
      BY <2>1, <3>1 DEF FoundFits, JudgedFits, IssueFits, SuccessFits, Listed
  <2>8. EndFits'
    BY <1>1, <1>5, <2>1
       DEF HarnessInv, EndFits
  <2>9. QED
    BY <2>2, <2>4, <2>5, <2>6, <2>7, <2>8 DEF HarnessInv
<1>6. CASE \E e \in {"raised", "interrupted"} : Ends(e, h)
  BY <1>1, <1>2, <1>6, EndsKeeps
<1>7. QED
  BY <1>5, <1>6 DEF CreatesIssue

\* The report ends the run with success only if it has seen it, and removes the workspace only if all
\* went well.
LEMMA FinishesEnds ==
  ASSUME HarnessInv, Finishes
  PROVE  /\ h.pc = "report" /\ exit = "running"
         /\ UNCHANGED sandbox /\ UNCHANGED <<artifacts, deleted, slipped, moved>>
         /\ \E e \in {"zero", "one", "raised"}, g \in HRecords :
              /\ Ends(e, g) /\ g.board = h.board
              /\ ~g.keep /\ g.quiescent /\ ~g.incomplete => ~h.keep /\ h.ok
              /\ e = "zero" => h.success /\ ~h.failed /\ h.pending = "none"
<1> DEFINE raised == h.pending # "none" \/ ~h.quiescent \/ ~h.ok
           q == h.quiescent /\ h.pending # "poll"
           i == h.incomplete \/ ~h.ok
<1>1. /\ h.pc = "report" /\ exit = "running" /\ h \in HRecords
      /\ UNCHANGED sandbox /\ UNCHANGED <<artifacts, deleted, slipped, moved>>
  BY HarnessRecordType DEF Finishes, At, HarnessInv
<1>2. PICK e \in IF raised THEN {"raised"} ELSE {"raised", ExitCode(h)} : Ends(e, Reported(h))
  BY DEF Finishes
<1>3. e \in {"zero", "one", "raised"} /\ (e = "zero" => h.success /\ ~h.failed /\ h.pending = "none")
  BY <1>2 DEF ExitCode
<1>4. q \in BOOLEAN /\ i \in BOOLEAN /\ (~i => h.ok)
  OBVIOUS
<1>5. PICK g : g = Reported(h)
  OBVIOUS
<1>6. g = [h EXCEPT !.quiescent = q, !.incomplete = i]
  BY <1>1, <1>5 DEF Reported, HRecords
<1> HIDE DEF raised, q, i
<1>7. g \in HRecords /\ g.keep = h.keep /\ g.board = h.board /\ g.incomplete = i
  BY <1>1, <1>4, <1>6 DEF HRecords
<1>8. ~g.keep /\ g.quiescent /\ ~g.incomplete => ~h.keep /\ h.ok
  BY <1>4, <1>7, Zenon
<1>9. QED
  BY <1>1, <1>2, <1>3, <1>5, <1>7, <1>8

LEMMA FinishesKeeps ==
  ASSUME HarnessInv, Finishes
  PROVE  HarnessInv'
<1>1. /\ exit = "running" /\ UNCHANGED sandbox /\ UNCHANGED <<artifacts, deleted, slipped, moved>>
  BY FinishesEnds
<1>2. PICK e \in {"zero", "one", "raised"}, g \in HRecords : Ends(e, g)
  BY FinishesEnds
<1>3. /\ UNCHANGED <<kind, current, used, ticks, issue, tip, foreign, pushed, merged, pr>>
      /\ SandboxTypeOK'
  BY <1>1, StillSandbox DEF HarnessInv, TypeOK
<1>4. QED
  BY <1>1, <1>2, <1>3, EndsKeeps

-----------------------------------------------------------------------------
(* Shutdown.                                                               *)

\* What no step of shutdown changes in the harness's record.
Settlement ==
  <<h.tick, h.errTick, h.unaccounted, h.keep, h.run, h.success, h.failed, h.pending, h.board>>

LEMMA ReportsEffect ==
  ASSUME h \in HRecords, NEW q \in BOOLEAN, NEW ok \in BOOLEAN, Reports(q, ok)
  PROVE  h' \in HRecords /\ h'.pc = "report" /\ h'.quiescent = q /\ h'.ok = ok /\ UNCHANGED Settlement
BY DEF Reports, HRecords, Pcs, Settlement

LEMMA ClosesIssueEffect ==
  ASSUME h \in HRecords, NEW q \in BOOLEAN, NEW okIfClosed \in BOOLEAN, ClosesIssue(q, okIfClosed),
         issue \in {"none", "open", "closed"}
  PROVE  /\ h' \in HRecords /\ h'.pc = "report" /\ h'.quiescent = q /\ UNCHANGED Settlement
         /\ issue' \in {"none", "open", "closed"}
         /\ h'.ok => okIfClosed /\ issue' = "closed"
<1>1. CASE issue' = "closed" /\ Reports(q, okIfClosed)
  <2>1. /\ h' \in HRecords /\ h'.pc = "report" /\ h'.quiescent = q /\ h'.ok = okIfClosed
        /\ UNCHANGED Settlement
    BY <1>1, ReportsEffect
  <2>2. QED
    BY <1>1, <2>1
<1>2. CASE issue' \in {issue, "closed"} /\ Reports(q, FALSE)
  <2>1. /\ h' \in HRecords /\ h'.pc = "report" /\ h'.quiescent = q /\ h'.ok = FALSE
        /\ UNCHANGED Settlement
    BY <1>2, ReportsEffect
  <2>2. QED
    BY <1>2, <2>1
<1>3. QED
  BY <1>1, <1>2 DEF ClosesIssue

LEMMA ShutdownGoesEffect ==
  ASSUME h \in HRecords, NEW pc \in Pcs, Goes(pc)
  PROVE  /\ h' \in HRecords /\ h'.pc = pc /\ h'.ok = h.ok /\ h'.quiescent = h.quiescent
         /\ UNCHANGED Settlement
BY DEF Goes, HRecords, Settlement

\* It follows one tick, or none.
LEMMA SettlementKeepsTick ==
  ASSUME UNCHANGED Settlement, UNCHANGED kind
  PROVE  ShutdownTick' = ShutdownTick /\ (TickForgotten' <=> TickForgotten)
BY DEF Settlement, ShutdownTick, TickForgotten

LEMMA ShutdownHasTick ==
  ASSUME HarnessInv, h.pc \in {"cancel", "quiesce", "decide"} \cup Destroying
  PROVE  ShutdownTick # 0 /\ ~TickForgotten
BY DEF HarnessInv, NamesFit, DriveKnows, TickForgotten

\* A step of shutdown keeps names, success and end; what is left to show of it is what it does to
\* the branches, the issue and the quiet.
LEMMA ShuttingKeeps ==
  ASSUME HarnessInv, h.pc \in Shutting, h' \in HRecords, h'.pc \in Shutting, UNCHANGED Settlement,
         UNCHANGED <<kind, current, used, ticks, workspace, exit, slipped, moved>>,
         SandboxTypeOK', artifacts' \in [tips : [Heads -> 0..MaxTip], prs : SUBSET Heads],
         deleted' \in [Heads -> 0..MaxTip],
         h'.pc \in {"cancel", "quiesce", "decide"} \cup Destroying => ShutdownTick # 0,
         PushesFit', QuietFits', FoundFits', JudgedFits', IssueFits', Implemented => Implemented'
  PROVE  HarnessInv'
<1>1. /\ ShutdownTick' = ShutdownTick /\ (TickForgotten' <=> TickForgotten)
      /\ h'.tick = h.tick /\ h'.unaccounted = h.unaccounted
  BY SettlementKeepsTick DEF Settlement
<1>2. TypeOK'
  BY DEF HarnessInv, TypeOK, HRecords
<1>3. \A t \in Ids : Created(t)' = Created(t) /\ (Busy(t)' <=> Busy(t))
  BY StillTicks
<1>4. NamesFit'
  <2>1. IdsInOrder'
    BY <1>1, <1>3 DEF HarnessInv, NamesFit, IdsInOrder
  <2>2. DriveKnows'
    BY <1>1 DEF DriveKnows, Early, Driving, Shutting, Destroying
  <2>3. WorkIsNamed'
    BY <1>1, <1>3 DEF HarnessInv, NamesFit, WorkIsNamed, Driving, Shutting, Destroying
  <2>4. QED
    BY <2>1, <2>2, <2>3 DEF NamesFit
<1>5. SuccessFits'
  BY DEF HarnessInv, SuccessFits, Settlement, Shutting, Destroying
<1>6. EndFits'
  <2>1. h.pc # "end" /\ h'.pc # "end"
    BY DEF Shutting, Destroying
  <2>2. exit = "running" /\ workspace # "removed" /\ exit' = exit /\ workspace' = workspace
    BY <2>1 DEF HarnessInv, EndFits
  <2>3. QED
    BY <2>1, <2>2 DEF EndFits
<1>7. QED
  BY <1>2, <1>4, <1>5, <1>6 DEF HarnessInv

\* A step to the report keeps the invariant if an untroubled report is true.
LEMMA ReportKeeps ==
  ASSUME HarnessInv, h.pc \in Shutting, h' \in HRecords, h'.pc = "report", UNCHANGED Settlement,
         UNCHANGED <<kind, current, used, ticks, tip, foreign, pushed, merged, pr, acts>>,
         UNCHANGED <<deleted, workspace, exit, slipped, moved>>,
         issue' \in {"none", "open", "closed"},
         artifacts' \in [tips : [Heads -> 0..MaxTip], prs : SUBSET Heads],
         h'.quiescent /\ ~h.unaccounted /\ ~TickForgotten => Quiet,
         h'.ok => h'.quiescent,
         h'.ok /\ ~h.keep => issue' = "closed" /\ ~h.unaccounted,
         h'.ok /\ ~h.keep /\ ~TickForgotten => \A b \in Mine : ~Spared(b) => tip[b] = 0 /\ ~Open(b)
  PROVE  HarnessInv'
<1>1. h'.unaccounted = h.unaccounted /\ h'.keep = h.keep /\ (TickForgotten' <=> TickForgotten)
  BY SettlementKeepsTick DEF Settlement
<1>2. SandboxTypeOK' /\ deleted' \in [Heads -> 0..MaxTip]
  BY DEF HarnessInv, TypeOK, SandboxTypeOK
<1>3. \A b \in Mine : (Open(b)' <=> Open(b)) /\ (Spared(b)' <=> Spared(b))
  BY DEF Open, Spared
<1>4. PushesFit'
  BY <1>3, StillTicks DEF HarnessInv, PushesFit
<1>5. QuietFits'
  BY <1>1, QuietKept DEF HarnessInv, QuietFits, Destroying
<1>6. FoundFits'
  BY <1>1, <1>3 DEF FoundFits
<1>7. JudgedFits' /\ IssueFits'
  BY <1>1 DEF JudgedFits, IssueFits, Listed
<1>8. Implemented => Implemented'
  BY DEF Implemented
<1>9. h'.pc \in Shutting /\ h'.pc \notin {"cancel", "quiesce", "decide"} \cup Destroying
  BY DEF Shutting, Destroying
<1>10. QED
  BY <1>2, <1>4, <1>5, <1>6, <1>7, <1>8, <1>9, ShuttingKeeps

\* A step of shutdown before anything is discovered or destroyed, the issue aside.
LEMMA QuietStepKeeps ==
  ASSUME HarnessInv, h.pc \in {"shutdown", "cancel", "quiesce", "decide"},
         h' \in HRecords, h'.pc \in {"cancel", "decide", "list"}, UNCHANGED Settlement,
         UNCHANGED sandbox, UNCHANGED <<artifacts, deleted, workspace, exit, slipped, moved>>,
         ShutdownTick # 0,
         h'.pc = "decide" /\ h'.quiescent /\ ~h.unaccounted => Quiet,
         h'.pc = "list" => Quiet /\ ~h.unaccounted /\ ~h.keep
  PROVE  HarnessInv'
<1>1. /\ UNCHANGED <<kind, current, used, ticks, issue, tip, foreign, pushed, merged, pr>>
      /\ SandboxTypeOK'
  BY StillSandbox DEF HarnessInv, TypeOK
<1>2. h'.unaccounted = h.unaccounted /\ h'.keep = h.keep
  BY DEF Settlement
<1>3. PushesFit'
  BY <1>1, StillTicks DEF HarnessInv, PushesFit, Open
<1>4. \A b \in Heads : deleted[b] = 0
  BY DEF HarnessInv, QuietFits
<1>5. QuietFits'
  BY <1>1, <1>2, <1>4, QuietKept DEF QuietFits, Destroying
<1>6. FoundFits' /\ JudgedFits' /\ IssueFits' /\ (Implemented => Implemented')
  <2>1. moved' = {}
    BY DEF HarnessInv, JudgedFits, Listed
  <2>2. QED
    BY <1>1, <2>1 DEF FoundFits, JudgedFits, IssueFits, Implemented, Listed
<1>7. h.pc \in Shutting /\ h'.pc \in Shutting /\ h'.pc # "quiesce"
  BY DEF Shutting, Destroying
<1>8. /\ artifacts' \in [tips : [Heads -> 0..MaxTip], prs : SUBSET Heads]
      /\ deleted' \in [Heads -> 0..MaxTip]
  BY DEF HarnessInv, TypeOK
<1>9. QED
  BY <1>1, <1>3, <1>5, <1>6, <1>7, <1>8, ShuttingKeeps

\* Without a tick that can be named, nobody works unless the harness knows that it cannot name one.
LEMMA NoTickIsQuiet ==
  ASSUME HarnessInv, h.pc \in Shutting, ShutdownTick = 0, ~h.unaccounted, ~TickForgotten
  PROVE  Quiet /\ \A b \in Mine : tip[b] = 0 /\ ~Open(b)
<1>1. \A t \in Ids : ~Busy(t)
  BY DEF HarnessInv, NamesFit, WorkIsNamed, Ids
<1>2. Quiet
  BY <1>1, QuietIfNothingIsBusy DEF HarnessInv, NamesFit
<1>3. \A t \in Ids : Created(t) = {}
  BY <1>1 DEF Busy
<1>4. QED
  BY <1>2, <1>3 DEF HarnessInv, PushesFit

\* What a step of shutdown finds.
LEMMA ShuttingTypes ==
  ASSUME HarnessInv
  PROVE  /\ h \in HRecords /\ issue \in {"none", "open", "closed"}
         /\ h.unaccounted \in BOOLEAN /\ h.keep \in BOOLEAN /\ h.quiescent \in BOOLEAN /\ h.ok \in BOOLEAN
         /\ artifacts \in [tips : [Heads -> 0..MaxTip], prs : SUBSET Heads]
         /\ deleted \in [Heads -> 0..MaxTip] /\ tip \in [Heads -> 0..MaxTip]
<1>1. h \in HRecords
  BY HarnessRecordType DEF HarnessInv
<1>2. QED
  BY <1>1 DEF HarnessInv, TypeOK, SandboxTypeOK, HRecords

LEMMA ShutsDownKeeps ==
  ASSUME HarnessInv, ShutsDown
  PROVE  HarnessInv'
<1>1. /\ h.pc = "shutdown" /\ h \in HRecords /\ h.pc \in Shutting
      /\ UNCHANGED <<kind, current, used, ticks, tip, foreign, pushed, merged, pr, acts>>
      /\ UNCHANGED <<artifacts, deleted, workspace, exit, slipped, moved>>
      /\ issue \in {"none", "open", "closed"}
      /\ artifacts' \in [tips : [Heads -> 0..MaxTip], prs : SUBSET Heads]
  BY ShuttingTypes DEF ShutsDown, At, Shutting
<1>2. (~h.unaccounted) \in BOOLEAN
  OBVIOUS
<1>3. ShutdownTick = 0 /\ ~h.unaccounted /\ ~TickForgotten => Quiet /\ \A b \in Mine : tip[b] = 0 /\ ~Open(b)
  BY <1>1, NoTickIsQuiet
<1>4. CASE ShutdownTick = 0 /\ h.keep /\ Reports(~h.unaccounted, ~h.unaccounted) /\ UNCHANGED issue
  <2>1. /\ h' \in HRecords /\ h'.pc = "report" /\ h'.quiescent = ~h.unaccounted
        /\ h'.ok = ~h.unaccounted /\ UNCHANGED Settlement
    BY <1>1, <1>2, <1>4, ReportsEffect
  <2>2. (h'.quiescent /\ ~h.unaccounted /\ ~TickForgotten => Quiet) /\ (h'.ok => h'.quiescent)
    BY <1>3, <1>4, <2>1, Zenon
  <2>3. QED
    BY <1>1, <1>4, <2>1, <2>2, ReportKeeps
<1>5. CASE ShutdownTick = 0 /\ ~h.keep /\ ClosesIssue(~h.unaccounted, ~h.unaccounted)
  <2>1. /\ h' \in HRecords /\ h'.pc = "report" /\ h'.quiescent = ~h.unaccounted /\ UNCHANGED Settlement
        /\ issue' \in {"none", "open", "closed"}
        /\ h'.ok => ~h.unaccounted /\ issue' = "closed"
    BY <1>1, <1>2, <1>5, ClosesIssueEffect
  <2>2. (h'.quiescent /\ ~h.unaccounted /\ ~TickForgotten => Quiet) /\ (h'.ok => h'.quiescent)
    BY <1>3, <1>5, <2>1, Zenon
  <2>3. h'.ok => /\ issue' = "closed" /\ ~h.unaccounted
                 /\ ~TickForgotten => \A b \in Mine : tip[b] = 0 /\ ~Open(b)
    BY <1>3, <1>5, <2>1
  <2>4. QED
    BY <1>1, <2>1, <2>2, <2>3, ReportKeeps
<1>6. CASE ShutdownTick # 0 /\ Goes("cancel") /\ UNCHANGED issue
  <2>1. h' \in HRecords /\ h'.pc = "cancel" /\ UNCHANGED Settlement
    BY <1>1, <1>6, ShutdownGoesEffect DEF Pcs
  <2>2. UNCHANGED sandbox
    BY <1>1, <1>6 DEF sandbox
  <2>3. QED
    BY <1>1, <1>6, <2>1, <2>2, QuietStepKeeps
<1>7. QED
  BY <1>4, <1>5, <1>6 DEF ShutsDown

LEMMA QuiescesKeeps ==
  ASSUME HarnessInv, Quiesces
  PROVE  HarnessInv'
<1>1. /\ h.pc = "quiesce" /\ h \in HRecords /\ UNCHANGED sandbox
      /\ UNCHANGED <<artifacts, deleted, workspace, exit, slipped, moved>>
  BY ShuttingTypes DEF Quiesces, At
<1>2. PICK q \in BOOLEAN : h' = [h EXCEPT !.pc = "decide", !.quiescent = q] /\ (q => Quiescent)
  BY DEF Quiesces
<1>3. h' \in HRecords /\ h'.pc = "decide" /\ h'.quiescent = q /\ UNCHANGED Settlement
  BY <1>1, <1>2 DEF HRecords, Pcs, Settlement
<1>3a. ShutdownTick # 0 /\ ~TickForgotten
  BY <1>1, ShutdownHasTick
<1>4. ASSUME Quiescent, ~h.unaccounted
      PROVE  Quiet
  <2>1. /\ \A t \in Ids : Busy(t) => t = ShutdownTick
        /\ ~ticks[ShutdownTick].orphan
        /\ ticks[ShutdownTick].late # 0 => kind = "pinned"
        /\ \A t \in Ids : ticks[t].orphan => Created(t) # {}
    BY <1>1, <1>3a, <1>4 DEF HarnessInv, NamesFit, WorkIsNamed, QuietFits, IdsInOrder, Shutting
  <2>2. \A k \in Keys : ticks[ShutdownTick].cards[k] # "live"
    BY <1>4 DEF Quiescent, Created, TERMINAL_STATUSES
  <2>3. \A t \in Ids : ~MayPush(t)
    BY <2>1, <2>2 DEF MayPush, Busy, Created
  <2>4. \A t \in Ids : ticks[t].late # 0 => kind = "pinned"
    BY <2>1 DEF Busy
  <2>5. QED
    BY <2>3, <2>4 DEF Quiet, SomeoneMayPush
<1>5. QED
  BY <1>1, <1>2, <1>3, <1>3a, <1>4, QuietStepKeeps

LEMMA DecidesKeeps ==
  ASSUME HarnessInv, Decides
  PROVE  HarnessInv'
<1>1. /\ h.pc = "decide" /\ h \in HRecords /\ h.pc \in Shutting
      /\ UNCHANGED <<kind, current, used, ticks, tip, foreign, pushed, merged, pr, acts>>
      /\ UNCHANGED <<artifacts, deleted, workspace, exit, slipped, moved>>
      /\ issue \in {"none", "open", "closed"}
      /\ artifacts' \in [tips : [Heads -> 0..MaxTip], prs : SUBSET Heads]
      /\ h.quiescent \in BOOLEAN
  BY ShuttingTypes DEF Decides, At, Shutting
<1>2. ShutdownTick # 0 /\ (h.quiescent /\ ~h.unaccounted => Quiet)
  BY <1>1, ShutdownHasTick DEF HarnessInv, QuietFits
<1>3. CASE h.keep /\ Reports(h.quiescent, h.quiescent) /\ UNCHANGED issue
  <2>1. /\ h' \in HRecords /\ h'.pc = "report" /\ h'.quiescent = h.quiescent
        /\ h'.ok = h.quiescent /\ UNCHANGED Settlement
    BY <1>1, <1>3, ReportsEffect
  <2>2. QED
    BY <1>1, <1>2, <1>3, <2>1, ReportKeeps
<1>4. CASE ~h.keep /\ ~MayDestroy /\ ClosesIssue(h.quiescent, FALSE)
  <2>1. /\ h' \in HRecords /\ h'.pc = "report" /\ h'.quiescent = h.quiescent /\ UNCHANGED Settlement
        /\ issue' \in {"none", "open", "closed"} /\ ~h'.ok
    BY <1>1, <1>4, ClosesIssueEffect
  <2>2. QED
    BY <1>1, <1>2, <2>1, ReportKeeps
<1>5. CASE ~h.keep /\ MayDestroy /\ Goes("list") /\ UNCHANGED issue
  <2>1. h' \in HRecords /\ h'.pc = "list" /\ UNCHANGED Settlement
    BY <1>1, <1>5, ShutdownGoesEffect DEF Pcs
  <2>2. UNCHANGED sandbox
    BY <1>1, <1>5 DEF sandbox
  <2>3. QED
    BY <1>1, <1>2, <1>5, <2>1, <2>2, QuietStepKeeps DEF MayDestroy
<1>6. QED
  BY <1>3, <1>4, <1>5 DEF Decides

\* Cancelling makes no card and gives none back; a confirmed one leaves no worker behind.
LEMMA CancelEffect ==
  ASSUME HarnessInv, Cancels
  PROVE  /\ h.pc = "cancel" /\ h' \in HRecords /\ UNCHANGED Settlement /\ ShutdownTick \in Ids
         /\ ticks' \in [Ids -> TickStates]
         /\ \A t \in Ids : /\ ticks'[t].sentinel = ticks[t].sentinel
                           /\ ticks'[t].spawnFailed = ticks[t].spawnFailed
                           /\ ticks'[t].late = ticks[t].late
                           /\ Created(t)' = Created(t)
                           /\ ticks'[t].orphan => ticks[t].orphan \/ Created(t) # {}
         /\ \/ h'.pc = "quiesce" /\ ~ticks'[ShutdownTick].orphan
               /\ (ticks'[ShutdownTick].late # 0 => kind = "pinned")
            \/ h'.pc = "decide" /\ ~h'.quiescent
<1>1. h.pc = "cancel" /\ h \in HRecords
  BY ShuttingTypes DEF Cancels, At
<1>2. ShutdownTick \in Ids /\ ticks \in [Ids -> TickStates] /\ kind \in {"pinned", "single"}
  BY <1>1 DEF HarnessInv, TypeOK, SandboxTypeOK, NamesFit, DriveKnows, ShutdownTick, Ids, HRecords
<1>3. PICK t \in Ids : t = ShutdownTick
  BY <1>2
<1>4. ticks[t] \in TickStates
  BY <1>2
<1>5. CASE CancelConfirms
  <2> DEFINE C == [k \in Keys |-> IF ticks[t].cards[k] = "absent" THEN "absent" ELSE "archived"]
             R == [ticks[t] EXCEPT !.orphan = FALSE, !.cards = C]
  <2>1. C \in [Keys -> Statuses] /\ \A k \in Keys : C[k] = "absent" <=> ticks[t].cards[k] = "absent"
    BY DEF Statuses
  <2>2. ticks' = [ticks EXCEPT ![t] = R]
    BY <1>2, <1>3, <1>4, <1>5 DEF CancelConfirms, TickStates
  <2> HIDE DEF C
  <2>3. /\ R \in TickStates /\ R.sentinel = ticks[t].sentinel /\ R.spawnFailed = ticks[t].spawnFailed
        /\ R.late = ticks[t].late /\ R.cards = C /\ ~R.orphan
    BY <1>4, <2>1 DEF TickStates
  <2> HIDE DEF R
  <2>4. ticks' \in [Ids -> TickStates] /\ ticks'[t] = R /\ \A u \in Ids : u # t => ticks'[u] = ticks[u]
    BY <1>2, <2>2, <2>3
  <2>5. \A u \in Ids : Created(u)' = Created(u)
    BY <2>1, <2>3, <2>4 DEF Created
  <2>6. kind = "single" => ticks[t].late = 0
    BY <1>3, <1>5 DEF CancelConfirms
  <2>7. h' \in HRecords /\ h'.pc = "quiesce" /\ UNCHANGED Settlement
    BY <1>1, <1>5, ShutdownGoesEffect DEF CancelConfirms, Pcs
  <2>8. QED
    BY <1>1, <1>2, <1>3, <2>3, <2>4, <2>5, <2>6, <2>7
<1>6. CASE CancelFails
  <2>1. PICK archived \in SUBSET Created(ShutdownTick) :
          ticks' = [ticks EXCEPT
            ![ShutdownTick].cards = [k \in Keys |-> IF k \in archived THEN "archived" ELSE @[k]],
            ![ShutdownTick].orphan =
              (@ \/ \E k \in archived : ticks[ShutdownTick].cards[k] = "live")]
    BY <1>6 DEF CancelFails
  <2> DEFINE C == [k \in Keys |-> IF k \in archived THEN "archived" ELSE ticks[t].cards[k]]
             O == ticks[t].orphan \/ \E k \in archived : ticks[t].cards[k] = "live"
             R == [ticks[t] EXCEPT !.cards = C, !.orphan = O]
  <2>2. C \in [Keys -> Statuses] /\ \A k \in Keys : C[k] = "absent" <=> ticks[t].cards[k] = "absent"
    BY <1>3, <1>4, <2>1 DEF Statuses, TickStates, Created
  <2>3. ticks' = [ticks EXCEPT ![t] = R]
    BY <1>2, <1>3, <1>4, <2>1 DEF TickStates
  <2>4. O \in BOOLEAN /\ (O => ticks[t].orphan \/ Created(t) # {})
    BY <1>3, <2>1
  <2> HIDE DEF C, O
  <2>5. /\ R \in TickStates /\ R.sentinel = ticks[t].sentinel /\ R.spawnFailed = ticks[t].spawnFailed
        /\ R.late = ticks[t].late /\ R.cards = C /\ R.orphan = O
    BY <1>4, <2>2, <2>4 DEF TickStates
  <2> HIDE DEF R
  <2>6. ticks' \in [Ids -> TickStates] /\ ticks'[t] = R /\ \A u \in Ids : u # t => ticks'[u] = ticks[u]
    BY <1>2, <2>3, <2>5
  <2>7. \A u \in Ids : Created(u)' = Created(u)
    BY <2>2, <2>5, <2>6 DEF Created
  <2>8. h' = [h EXCEPT !.pc = "decide", !.quiescent = FALSE]
    BY <1>6 DEF CancelFails
  <2>9. h' \in HRecords /\ h'.pc = "decide" /\ ~h'.quiescent /\ UNCHANGED Settlement
    BY <1>1, <2>8 DEF HRecords, Pcs, Settlement
  <2>10. \A u \in Ids : ticks'[u].orphan => ticks[u].orphan \/ Created(u) # {}
    BY <2>4, <2>5, <2>6
  <2>11. QED
    BY <1>1, <1>2, <2>5, <2>6, <2>7, <2>9, <2>10
<1>7. QED
  BY <1>5, <1>6 DEF Cancels

LEMMA CancelsKeeps ==
  ASSUME HarnessInv, Cancels
  PROVE  HarnessInv'
<1>1. /\ h.pc = "cancel" /\ h' \in HRecords /\ UNCHANGED Settlement /\ ShutdownTick \in Ids
      /\ ticks' \in [Ids -> TickStates]
      /\ \A t \in Ids : /\ ticks'[t].sentinel = ticks[t].sentinel
                        /\ ticks'[t].spawnFailed = ticks[t].spawnFailed
                        /\ ticks'[t].late = ticks[t].late
                        /\ Created(t)' = Created(t)
                        /\ ticks'[t].orphan => ticks[t].orphan \/ Created(t) # {}
      /\ \/ h'.pc = "quiesce" /\ ~ticks'[ShutdownTick].orphan
            /\ (ticks'[ShutdownTick].late # 0 => kind = "pinned")
         \/ h'.pc = "decide" /\ ~h'.quiescent
  BY CancelEffect
<1>2. /\ UNCHANGED <<kind, current, used, issue, tip, foreign, pushed, merged, pr, acts>>
      /\ UNCHANGED <<artifacts, deleted, workspace, exit, slipped, moved>>
  BY DEF Cancels
<1>3. /\ ShutdownTick' = ShutdownTick /\ (TickForgotten' <=> TickForgotten)
      /\ h'.tick = h.tick /\ h'.unaccounted = h.unaccounted
  BY <1>1, <1>2, SettlementKeepsTick DEF Settlement
<1>4. TypeOK'
  BY <1>1, <1>2 DEF HarnessInv, TypeOK, SandboxTypeOK, HRecords
<1>5. \A t \in Ids : Busy(t)' <=> Busy(t)
  BY <1>1 DEF Busy
<1>6. NamesFit'
  <2>1. h.tick # 0 => h.tick \in Ids
    BY DEF HarnessInv, TypeOK, Ids
  <2>2. IdsInOrder'
    BY <1>1, <1>2, <1>3, <1>5, <2>1 DEF HarnessInv, NamesFit, IdsInOrder
  <2>3. DriveKnows'
    BY <1>1, <1>3 DEF DriveKnows, Early, Driving, Destroying, Ids
  <2>4. WorkIsNamed'
    BY <1>1, <1>3, <1>5 DEF HarnessInv, NamesFit, WorkIsNamed, Driving, Shutting, Destroying
  <2>5. QED
    BY <2>2, <2>3, <2>4 DEF NamesFit
<1>7. PushesFit'
  BY <1>1, <1>2 DEF HarnessInv, PushesFit, Open
<1>8. QuietFits'
  BY <1>1, <1>2, <1>3 DEF HarnessInv, QuietFits, Destroying
<1>9. FoundFits' /\ JudgedFits' /\ IssueFits'
  <2>1. moved' = {}
    BY <1>1, <1>2 DEF HarnessInv, JudgedFits, Listed
  <2>2. QED
    BY <1>1, <2>1 DEF FoundFits, JudgedFits, IssueFits, Listed
<1>10. SuccessFits'
  BY <1>1, <1>2 DEF HarnessInv, SuccessFits, Settlement, Shutting, Implemented
<1>11. EndFits'
  <2>1. exit = "running" /\ workspace # "removed" /\ exit' = exit /\ workspace' = workspace
    BY <1>1, <1>2 DEF HarnessInv, EndFits
  <2>2. QED
    BY <1>1, <2>1 DEF EndFits
<1>12. QED
  BY <1>4, <1>6, <1>7, <1>8, <1>9, <1>10, <1>11 DEF HarnessInv

-----------------------------------------------------------------------------
(* What the harness destroys.                                              *)

LEMMA ListsHeadsKeeps ==
  ASSUME HarnessInv, ListsHeads
  PROVE  HarnessInv'
<1>1. /\ h.pc = "list" /\ h \in HRecords /\ h.pc \in Shutting
      /\ UNCHANGED <<kind, current, used, ticks, tip, foreign, pushed, merged, pr, acts>>
      /\ UNCHANGED <<deleted, workspace, exit, slipped, moved>>
      /\ issue \in {"none", "open", "closed"}
      /\ artifacts \in [tips : [Heads -> 0..MaxTip], prs : SUBSET Heads]
      /\ deleted \in [Heads -> 0..MaxTip] /\ tip \in [Heads -> 0..MaxTip]
  BY ShuttingTypes DEF ListsHeads, At, Shutting, Destroying
<1>2. Quiet /\ ~h.unaccounted /\ ~h.keep /\ \A b \in Heads : deleted[b] = 0
  BY <1>1 DEF HarnessInv, QuietFits, Destroying
<1>3. CASE artifacts' = [artifacts EXCEPT !.tips = tip] /\ Goes("discover") /\ UNCHANGED issue
  <2>1. h' \in HRecords /\ h'.pc = "discover" /\ UNCHANGED Settlement
    BY <1>1, <1>3, ShutdownGoesEffect DEF Pcs
  <2>2. artifacts' \in [tips : [Heads -> 0..MaxTip], prs : SUBSET Heads] /\ artifacts'.tips = tip
    BY <1>1, <1>3
  <2>3. SandboxTypeOK'
    BY <1>1, <1>3 DEF HarnessInv, TypeOK, SandboxTypeOK
  <2>4. PushesFit'
    BY <1>1, <2>1, StillTicks DEF HarnessInv, PushesFit, Open
  <2>5. QuietFits'
    BY <1>1, <1>2, <2>1, QuietKept DEF QuietFits, Destroying, Settlement
  <2>6. FoundFits'
    BY <1>1, <2>1, <2>2 DEF FoundFits
  <2>7. JudgedFits' /\ IssueFits' /\ (Implemented => Implemented')
    <3>1. moved' = {} /\ \A b \in Heads : tip[b] <= tip[b]
      BY <1>1 DEF HarnessInv, JudgedFits, Listed, MaxTip
    <3>2. QED
      BY <1>1, <2>1, <2>2, <3>1 DEF JudgedFits, IssueFits, Implemented, Listed
  <2>8. h'.pc \in Shutting /\ ShutdownTick # 0
    BY <1>1, <2>1, ShutdownHasTick DEF Shutting, Destroying
  <2>9. QED
    BY <1>1, <2>1, <2>2, <2>3, <2>4, <2>5, <2>6, <2>7, <2>8, ShuttingKeeps
<1>4. CASE ClosesIssue(TRUE, FALSE) /\ UNCHANGED artifacts
  <2>1. /\ h' \in HRecords /\ h'.pc = "report" /\ h'.quiescent = TRUE /\ UNCHANGED Settlement
        /\ issue' \in {"none", "open", "closed"} /\ ~h'.ok
    BY <1>1, <1>4, ClosesIssueEffect
  <2>2. QED
    BY <1>1, <1>2, <1>4, <2>1, ReportKeeps
<1>5. QED
  BY <1>3, <1>4 DEF ListsHeads

LEMMA DiscoversKeeps ==
  ASSUME HarnessInv, Discovers
  PROVE  HarnessInv'
<1>1. /\ h.pc = "discover" /\ h \in HRecords /\ h.pc \in Shutting
      /\ UNCHANGED <<kind, current, used, ticks, tip, foreign, pushed, merged, pr, acts>>
      /\ UNCHANGED <<deleted, workspace, exit, slipped, moved>>
      /\ issue \in {"none", "open", "closed"}
      /\ artifacts \in [tips : [Heads -> 0..MaxTip], prs : SUBSET Heads]
      /\ deleted \in [Heads -> 0..MaxTip] /\ tip \in [Heads -> 0..MaxTip]
  BY ShuttingTypes DEF Discovers, At, Shutting, Destroying
<1>2. Quiet /\ ~h.unaccounted /\ ~h.keep /\ \A b \in Heads : deleted[b] = 0
  BY <1>1 DEF HarnessInv, QuietFits, Destroying
<1>3. CASE /\ artifacts' = [tips |-> [b \in Heads |-> Judged(b)],
                            prs |-> {b \in Discovered.prs : artifacts.tips[b] = tip[b]}]
           /\ Goes("close") /\ UNCHANGED issue
  <2>1. h' \in HRecords /\ h'.pc = "close" /\ UNCHANGED Settlement
    BY <1>1, <1>3, ShutdownGoesEffect DEF Pcs
  <2>2. \A b \in Heads : /\ Judged(b) \in 0..MaxTip
                         /\ Judged(b) # 0 => Judged(b) = tip[b] /\ b \notin foreign
    BY <1>1 DEF Judged, IsDeletableBranch, Provenance, MaxTip
  <2>3. /\ artifacts' \in [tips : [Heads -> 0..MaxTip], prs : SUBSET Heads]
        /\ \A b \in Heads : artifacts'.tips[b] = Judged(b)
        /\ artifacts'.prs = {b \in Discovered.prs : artifacts.tips[b] = tip[b]}
    BY <1>3, <2>2 DEF Discovered
  <2>4. SandboxTypeOK'
    BY <1>1, <1>3 DEF HarnessInv, TypeOK, SandboxTypeOK
  <2>5. PushesFit'
    BY <1>1, <2>1, StillTicks DEF HarnessInv, PushesFit, Open
  <2>6. QuietFits'
    BY <1>1, <1>2, <2>1, QuietKept DEF QuietFits, Destroying, Settlement
  <2>7. FoundFits'
    <3> SUFFICES ASSUME NEW b \in Mine, ~Spared(b)
                 PROVE  /\ artifacts'.tips[b] = tip[b]
                        /\ Open(b) => b \in artifacts'.prs
      BY <1>1, <2>1 DEF FoundFits, Open, Spared
    <3>1. artifacts.tips[b] = tip[b] /\ b \in Heads /\ b # "old" /\ ~merged
      BY <1>1 DEF HarnessInv, FoundFits, Mine, Heads, Spared
    <3>2. b \notin foreign
      BY <3>1 DEF HarnessInv, PushesFit, Spared
    <3>3. tip[b] # 0 => Provenance(b)
      BY <1>1, <3>1, <3>2 DEF Provenance, Anchor, MaxTip
    <3>4. Judged(b) = tip[b]
      BY <3>1, <3>3 DEF Judged, IsDeletableBranch
    <3>5. Open(b) => IsAttributablePr(b)
      BY <1>1, <3>1, <3>3 DEF HarnessInv, PushesFit, Open, IsAttributablePr
    <3>6. QED
      BY <2>3, <3>1, <3>4, <3>5 DEF Discovered
  <2>8. JudgedFits'
    <3>1. \A b \in Heads : Judged(b) # 0 => artifacts.tips[b] = tip[b] /\ tip[b] # 0 /\ tip[b] \in Nat
      BY <1>1 DEF Judged, MaxTip
    <3>2. \A b \in Heads : Judged(b) # 0 => b \notin moved
      BY <1>1, <3>1 DEF HarnessInv, JudgedFits, Listed
    <3>3. \A b \in Heads : Judged(b) # 0 => Judged(b) <= tip[b]
      BY <2>2, <3>1
    <3>4. QED
      BY <1>1, <2>1, <2>2, <2>3, <3>2, <3>3 DEF JudgedFits, Listed
  <2>9. IssueFits' /\ (Implemented => Implemented')
    BY <1>1, <2>1 DEF IssueFits, Implemented
  <2>10. h'.pc \in Shutting /\ ShutdownTick # 0
    BY <1>1, <2>1, ShutdownHasTick DEF Shutting, Destroying
  <2>11. QED
    BY <1>1, <2>1, <2>3, <2>4, <2>5, <2>6, <2>7, <2>8, <2>9, <2>10, ShuttingKeeps
<1>4. CASE ClosesIssue(TRUE, FALSE) /\ artifacts' = NoArtifacts
  <2>1. /\ h' \in HRecords /\ h'.pc = "report" /\ h'.quiescent = TRUE /\ UNCHANGED Settlement
        /\ issue' \in {"none", "open", "closed"} /\ ~h'.ok
    BY <1>1, <1>4, ClosesIssueEffect
  <2>2. artifacts' \in [tips : [Heads -> 0..MaxTip], prs : SUBSET Heads]
    BY <1>4 DEF NoArtifacts, MaxTip
  <2>3. QED
    BY <1>1, <1>2, <2>1, <2>2, ReportKeeps
<1>5. QED
  BY <1>3, <1>4 DEF Discovers

LEMMA CleansIssueKeeps ==
  ASSUME HarnessInv, CleansIssue
  PROVE  HarnessInv'
<1>1. /\ h.pc = "close" /\ h \in HRecords /\ h.pc \in Shutting
      /\ UNCHANGED <<kind, current, used, ticks, tip, foreign, pushed, merged, pr, acts>>
      /\ UNCHANGED <<deleted, workspace, exit, slipped, moved>>
      /\ issue \in {"none", "open", "closed"}
      /\ artifacts \in [tips : [Heads -> 0..MaxTip], prs : SUBSET Heads]
      /\ deleted \in [Heads -> 0..MaxTip] /\ tip \in [Heads -> 0..MaxTip]
      /\ artifacts' = [artifacts EXCEPT !.prs = {b \in @ : pr[b] \in {"open", "sideways"}}]
  BY ShuttingTypes DEF CleansIssue, At, Shutting, Destroying
<1>2. Quiet /\ ~h.unaccounted /\ ~h.keep /\ \A b \in Heads : deleted[b] = 0
  BY <1>1 DEF HarnessInv, QuietFits, Destroying
<1>3. /\ h' \in HRecords /\ h'.pc = "prs" /\ UNCHANGED Settlement
      /\ issue' \in {"none", "open", "closed"} /\ (h'.ok => issue' = "closed")
  <2>1. CASE issue' = "closed" /\ Goes("prs")
    BY <1>1, <2>1, ShutdownGoesEffect DEF Pcs
  <2>2. CASE issue' \in {issue, "closed"} /\ h' = [h EXCEPT !.pc = "prs", !.ok = FALSE]
    BY <1>1, <2>2 DEF HRecords, Pcs, Settlement
  <2>3. QED
    BY <2>1, <2>2 DEF CleansIssue
<1>4. /\ artifacts' \in [tips : [Heads -> 0..MaxTip], prs : SUBSET Heads]
      /\ artifacts'.tips = artifacts.tips
      /\ artifacts'.prs = {b \in artifacts.prs : Open(b)}
  BY <1>1 DEF Open
<1>5. SandboxTypeOK'
  BY <1>1, <1>3 DEF HarnessInv, TypeOK, SandboxTypeOK
<1>6. PushesFit'
  BY <1>1, <1>3, StillTicks DEF HarnessInv, PushesFit, Open
<1>7. QuietFits'
  BY <1>1, <1>2, <1>3, QuietKept DEF QuietFits, Destroying, Settlement
<1>8. FoundFits'
  <2>1. \A b \in Mine : (Open(b)' <=> Open(b)) /\ (Spared(b)' <=> Spared(b))
    BY <1>1 DEF Open, Spared
  <2>2. \A b \in Mine : ~Spared(b) => artifacts.tips[b] = tip[b] /\ (Open(b) => b \in artifacts.prs)
    BY <1>1 DEF HarnessInv, FoundFits
  <2>3. QED
    BY <1>1, <1>3, <1>4, <2>1, <2>2 DEF FoundFits
<1>9. JudgedFits'
  BY <1>1, <1>2, <1>3, <1>4 DEF HarnessInv, JudgedFits, Listed
<1>10. IssueFits' /\ (Implemented => Implemented')
  BY <1>1, <1>3 DEF IssueFits, Implemented
<1>11. h'.pc \in Shutting /\ ShutdownTick # 0
  BY <1>1, <1>3, ShutdownHasTick DEF Shutting, Destroying
<1>12. QED
  BY <1>1, <1>3, <1>4, <1>5, <1>6, <1>7, <1>8, <1>9, <1>10, <1>11, ShuttingKeeps

LEMMA CleansPrKeeps ==
  ASSUME HarnessInv, CleansPr
  PROVE  HarnessInv'
<1>1. /\ h.pc = "prs" /\ h \in HRecords /\ h.pc \in Shutting
      /\ UNCHANGED <<kind, current, used, ticks, issue, tip, foreign, pushed, merged, acts>>
      /\ UNCHANGED <<deleted, workspace, exit, slipped, moved>>
      /\ artifacts \in [tips : [Heads -> 0..MaxTip], prs : SUBSET Heads]
      /\ deleted \in [Heads -> 0..MaxTip] /\ tip \in [Heads -> 0..MaxTip]
  BY ShuttingTypes DEF CleansPr, At, Shutting, Destroying
<1>2. Quiet /\ ~h.unaccounted /\ ~h.keep /\ \A b \in Heads : deleted[b] = 0
  BY <1>1 DEF HarnessInv, QuietFits, Destroying
<1>3. \A b \in Mine : (Spared(b)' <=> Spared(b)) /\ b \in Heads
  BY <1>1 DEF Spared, Mine, Heads
<1>4. \A b \in Mine : ~Spared(b) /\ h.ok => artifacts.tips[b] = tip[b] /\ (Open(b) => b \in artifacts.prs)
  BY <1>1 DEF HarnessInv, FoundFits
<1>5. ASSUME /\ h' \in HRecords /\ h'.pc \in {"prs", "branches"} /\ UNCHANGED Settlement
             /\ h'.ok => h.ok
             /\ artifacts' \in [tips : [Heads -> 0..MaxTip], prs : SUBSET Heads]
             /\ artifacts'.tips = artifacts.tips
             /\ pr' \in [Heads -> {"none", "open", "sideways", "closed", "merged"}],
             \A b \in Mine : Open(b)' => Open(b),
             \A b \in Mine : h'.ok /\ Open(b)' /\ b \in artifacts.prs => b \in artifacts'.prs,
             h'.pc = "branches" => artifacts.prs = {}
      PROVE  HarnessInv'
  <2>1. SandboxTypeOK'
    BY <1>1, <1>5 DEF HarnessInv, TypeOK, SandboxTypeOK
  <2>2. PushesFit'
    <3>1. (\A t \in Ids : Created(t)' = {}) => \A t \in Ids : Created(t) = {}
      BY <1>1, StillTicks
    <3>2. QED
      BY <1>1, <1>5, <3>1 DEF HarnessInv, PushesFit
  <2>3. QuietFits'
    BY <1>1, <1>2, <1>5, QuietKept DEF QuietFits, Destroying, Settlement
  <2>4. FoundFits'
    <3> SUFFICES ASSUME NEW b \in Mine, ~Spared(b), h'.ok
                 PROVE  /\ artifacts'.tips[b] = tip[b]
                        /\ h'.pc = "prs" /\ Open(b)' => b \in artifacts'.prs
                        /\ h'.pc = "branches" => ~Open(b)'
      BY <1>1, <1>3, <1>5 DEF FoundFits
    <3>1. artifacts.tips[b] = tip[b] /\ (Open(b) => b \in artifacts.prs)
      BY <1>4, <1>5
    <3>2. QED
      BY <1>5, <3>1
  <2>5. JudgedFits'
    BY <1>1, <1>2, <1>5 DEF HarnessInv, JudgedFits, Listed
  <2>6. IssueFits' /\ (Implemented => Implemented')
    BY <1>1, <1>5 DEF HarnessInv, IssueFits, Implemented
  <2>7. h'.pc \in Shutting /\ ShutdownTick # 0
    BY <1>1, <1>5, ShutdownHasTick DEF Shutting, Destroying
  <2>8. QED
    BY <1>1, <1>5, <2>1, <2>2, <2>3, <2>4, <2>5, <2>6, <2>7, ShuttingKeeps
<1>6. CASE artifacts.prs = {} /\ Goes("branches") /\ UNCHANGED <<pr, artifacts>>
  <2>1. h' \in HRecords /\ h'.pc = "branches" /\ h'.ok = h.ok /\ UNCHANGED Settlement
    BY <1>1, <1>6, ShutdownGoesEffect DEF Pcs
  <2>2. pr' \in [Heads -> {"none", "open", "sideways", "closed", "merged"}]
    BY <1>6 DEF HarnessInv, TypeOK, SandboxTypeOK
  <2>3. \A b \in Mine : Open(b)' => Open(b)
    BY <1>6 DEF Open
  <2>4. QED
    BY <1>1, <1>5, <1>6, <2>1, <2>2, <2>3
<1>7. CASE artifacts.prs # {}
  <2>1. PICK b \in artifacts.prs :
          /\ artifacts' = [artifacts EXCEPT !.prs = @ \ {b}]
          /\ LET closed == [pr EXCEPT ![b] = IF @ = "merged" THEN @ ELSE "closed"]
             IN \/ pr[b] # "merged" /\ pr' = closed /\ UNCHANGED h
                \/ pr' \in {pr, closed} /\ h' = [h EXCEPT !.ok = FALSE]
    BY <1>7 DEF CleansPr
  <2> DEFINE closed == [pr EXCEPT ![b] = IF @ = "merged" THEN @ ELSE "closed"]
  <2>2. b \in Heads /\ pr \in [Heads -> {"none", "open", "sideways", "closed", "merged"}]
    BY <1>1 DEF HarnessInv, TypeOK, SandboxTypeOK
  <2>3. /\ closed \in [Heads -> {"none", "open", "sideways", "closed", "merged"}]
        /\ closed[b] \in {"closed", "merged"}
        /\ \A c \in Heads : c # b => closed[c] = pr[c]
    BY <2>2
  <2>4. \/ pr' = closed /\ h' = h
        \/ pr' \in {pr, closed} /\ h' = [h EXCEPT !.ok = FALSE]
    BY <2>1
  <2> HIDE DEF closed
  <2>5. /\ artifacts' \in [tips : [Heads -> 0..MaxTip], prs : SUBSET Heads]
        /\ artifacts'.tips = artifacts.tips /\ artifacts'.prs = artifacts.prs \ {b}
    BY <1>1, <2>1
  <2>6. /\ h' \in HRecords /\ h'.pc = "prs" /\ UNCHANGED Settlement
        /\ (h'.ok => h.ok /\ pr' = closed)
    <3>1. CASE pr' = closed /\ h' = h
      BY <1>1, <3>1 DEF Settlement
    <3>2. CASE h' = [h EXCEPT !.ok = FALSE]
      BY <1>1, <3>2 DEF HRecords, Settlement
    <3>3. QED
      BY <2>4, <3>1, <3>2
  <2>7. \A c \in Mine : Open(c)' => Open(c)
    BY <1>3, <2>3, <2>4 DEF Open
  <2>8. \A c \in Mine : h'.ok /\ Open(c)' /\ c \in artifacts.prs => c \in artifacts'.prs
    BY <2>3, <2>5, <2>6 DEF Open
  <2>9. pr' \in [Heads -> {"none", "open", "sideways", "closed", "merged"}]
    BY <2>2, <2>3, <2>4
  <2>10. QED
    BY <1>5, <2>5, <2>6, <2>7, <2>8, <2>9
<1>8. QED
  BY <1>6, <1>7 DEF CleansPr

\* A branch is deleted by its lease: nobody has pushed to it since discovery judged it.
LEMMA LeaseIsOwn ==
  ASSUME HarnessInv, h.pc = "branches", NEW b \in Heads, artifacts.tips[b] # 0, LeaseHolds(b)
  PROVE  b \notin foreign \cup moved /\ deleted[b] = 0 /\ tip[b] # 0
<1>1. artifacts.tips[b] \in Nat /\ tip[b] = artifacts.tips[b]
  BY ShuttingTypes DEF LeaseHolds, MaxTip
<1>2. /\ b \in foreign \cup moved => artifacts.tips[b] < tip[b]
      /\ deleted[b] # 0 => artifacts.tips[b] = 0
  BY DEF HarnessInv, JudgedFits, Listed
<1>3. QED
  BY <1>1, <1>2

\* Deleting a branch, or finding that it cannot be deleted.
Cleans(b) ==
  /\ b \in Heads /\ artifacts.tips[b] # 0
  /\ artifacts' = [artifacts EXCEPT !.tips[b] = 0]
  /\ h' \in {h, [h EXCEPT !.ok = FALSE]}
  /\ \/ LeaseHolds(b) /\ tip' = [tip EXCEPT ![b] = 0] /\ foreign' = foreign \ {b}
        /\ deleted' = [deleted EXCEPT ![b] = tip[b]]
     \/ UNCHANGED <<tip, foreign, deleted>> /\ (h' = [h EXCEPT !.ok = FALSE] \/ tip[b] = 0)

LEMMA CleansBranchEffect ==
  ASSUME CleansBranch
  PROVE  \/ /\ \A b \in Heads : artifacts.tips[b] = 0
            /\ Reports(TRUE, h.ok) /\ UNCHANGED <<tip, foreign, artifacts, deleted>>
         \/ \E b \in Heads : Cleans(b)
<1> DEFINE left == {b \in Heads : artifacts.tips[b] # 0}
<1>1. CASE left = {}
  BY <1>1 DEF CleansBranch
<1>2. CASE left # {}
  <2>1. PICK b \in left :
          /\ artifacts' = [artifacts EXCEPT !.tips[b] = 0]
          /\ \/ /\ LeaseHolds(b)
                /\ tip' = [tip EXCEPT ![b] = 0]
                /\ foreign' = foreign \ {b}
                /\ deleted' = [deleted EXCEPT ![b] = tip[b]]
                /\ h' \in {h, [h EXCEPT !.ok = FALSE]}
             \/ /\ h' = IF tip[b] = 0 THEN h ELSE [h EXCEPT !.ok = FALSE]
                /\ UNCHANGED <<tip, foreign, deleted>>
             \/ /\ h' = [h EXCEPT !.ok = FALSE]
                /\ UNCHANGED <<tip, foreign, deleted>>
    BY <1>2 DEF CleansBranch
  <2>2. Cleans(b)
    BY <2>1 DEF Cleans
  <2>3. QED
    BY <2>2
<1>3. QED
  BY <1>1, <1>2

LEMMA CleansKeeps ==
  ASSUME HarnessInv, h.pc = "branches", NEW b \in Heads, Cleans(b),
         UNCHANGED <<kind, current, used, ticks, issue, pushed, merged, pr, acts>>,
         UNCHANGED <<workspace, exit, slipped, moved>>
  PROVE  HarnessInv'
<1>1. /\ h \in HRecords /\ h.pc \in Shutting
      /\ artifacts \in [tips : [Heads -> 0..MaxTip], prs : SUBSET Heads]
      /\ deleted \in [Heads -> 0..MaxTip] /\ tip \in [Heads -> 0..MaxTip]
  BY ShuttingTypes DEF Shutting, Destroying
<1>2. Quiet /\ ~h.unaccounted /\ ~h.keep
  BY DEF HarnessInv, QuietFits, Destroying
<1>3. /\ h' \in HRecords /\ h'.pc = "branches" /\ UNCHANGED Settlement /\ (h'.ok => h.ok)
      /\ h' = [h EXCEPT !.ok = FALSE] => ~h'.ok
  BY <1>1 DEF Cleans, HRecords, Settlement
<1>4. /\ artifacts' \in [tips : [Heads -> 0..MaxTip], prs : SUBSET Heads]
      /\ artifacts'.tips[b] = 0
      /\ \A c \in Heads : c # b => artifacts'.tips[c] = artifacts.tips[c]
  <2>1. artifacts' = [artifacts EXCEPT !.tips = [artifacts.tips EXCEPT ![b] = 0]]
    BY <1>1 DEF Cleans
  <2>2. [artifacts.tips EXCEPT ![b] = 0] \in [Heads -> 0..MaxTip]
    BY <1>1 DEF MaxTip
  <2>3. QED
    BY <1>1, <2>1, <2>2
<1>5. /\ tip' \in [Heads -> 0..MaxTip] /\ deleted' \in [Heads -> 0..MaxTip]
      /\ foreign' \subseteq foreign
      /\ \A c \in Heads : tip'[c] \in {tip[c], 0}
      /\ \A c \in Heads : c # b => tip'[c] = tip[c] /\ deleted'[c] = deleted[c] /\ (c \in foreign' <=> c \in foreign)
      /\ h'.ok => tip'[b] = 0
  BY <1>1, <1>3 DEF Cleans, MaxTip
<1>6. SandboxTypeOK'
  BY <1>5 DEF HarnessInv, TypeOK, SandboxTypeOK
<1>7. \A c \in Mine : c \in Heads /\ (Open(c)' <=> Open(c)) /\ (Spared(c)' <=> Spared(c))
  BY DEF Open, Spared, Mine, Heads
<1>8. PushesFit'
  <2>1. (\A t \in Ids : Created(t)' = {}) => \A t \in Ids : Created(t) = {}
    BY StillTicks
  <2>2. QED
    BY <1>3, <1>5, <1>7, <2>1 DEF HarnessInv, PushesFit
<1>9. QuietFits'
  BY <1>2, <1>3, QuietKept DEF QuietFits, Destroying, Settlement
<1>10. FoundFits'
  <2>1. \A c \in Mine : ~Spared(c) /\ h.ok => artifacts.tips[c] = tip[c] /\ ~Open(c)
    BY DEF HarnessInv, FoundFits
  <2>2. \A c \in Mine : ~Spared(c) /\ h'.ok => artifacts'.tips[c] = tip'[c] /\ ~Open(c)
    BY <1>3, <1>4, <1>5, <1>7, <2>1
  <2>3. QED
    BY <1>3, <1>7, <2>2 DEF FoundFits
<1>11. JudgedFits'
  BY <1>3, <1>4, <1>5 DEF HarnessInv, JudgedFits, Listed
<1>12. IssueFits'
  BY <1>3 DEF HarnessInv, IssueFits
<1>13. Implemented => Implemented'
  <2>1. CASE UNCHANGED <<tip, deleted>>
    BY <2>1 DEF Implemented
  <2>2. CASE LeaseHolds(b) /\ tip' = [tip EXCEPT ![b] = 0] /\ deleted' = [deleted EXCEPT ![b] = tip[b]]
    <3>1. deleted[b] = 0
      BY <2>2, LeaseIsOwn DEF Cleans
    <3>2. deleted'[b] = tip[b]
      BY <1>1, <2>2
    <3>3. QED
      BY <1>5, <3>1, <3>2 DEF Implemented, Anchor
  <2>3. QED
    BY <2>1, <2>2 DEF Cleans
<1>14. h'.pc \in Shutting /\ ShutdownTick # 0
  BY <1>3, ShutdownHasTick DEF Shutting, Destroying
<1>15. QED
  BY <1>1, <1>3, <1>4, <1>5, <1>6, <1>8, <1>9, <1>10, <1>11, <1>12, <1>13, <1>14, ShuttingKeeps

LEMMA CleansBranchKeeps ==
  ASSUME HarnessInv, CleansBranch
  PROVE  HarnessInv'
<1>1. /\ h.pc = "branches" /\ h \in HRecords /\ h.pc \in Shutting
      /\ UNCHANGED <<kind, current, used, ticks, issue, pushed, merged, pr, acts>>
      /\ UNCHANGED <<workspace, exit, slipped, moved>>
      /\ h.ok \in BOOLEAN /\ issue \in {"none", "open", "closed"}
      /\ artifacts \in [tips : [Heads -> 0..MaxTip], prs : SUBSET Heads]
  BY ShuttingTypes DEF CleansBranch, At, Shutting, Destroying
<1>2. CASE /\ \A b \in Heads : artifacts.tips[b] = 0
           /\ Reports(TRUE, h.ok) /\ UNCHANGED <<tip, foreign, artifacts, deleted>>
  <2>1. h' \in HRecords /\ h'.pc = "report" /\ h'.quiescent = TRUE /\ h'.ok = h.ok /\ UNCHANGED Settlement
    BY <1>1, <1>2, ReportsEffect
  <2>2. Quiet /\ ~h.unaccounted
    BY <1>1 DEF HarnessInv, QuietFits, Destroying
  <2>3. h.ok => issue = "closed" /\ \A b \in Mine : ~Spared(b) => tip[b] = 0 /\ ~Open(b)
    BY <1>1, <1>2 DEF HarnessInv, IssueFits, FoundFits, Mine, Heads
  <2>4. QED
    BY <1>1, <1>2, <2>1, <2>2, <2>3, ReportKeeps
<1>3. CASE \E b \in Heads : Cleans(b)
  BY <1>1, <1>3, CleansKeeps
<1>4. QED
  BY <1>2, <1>3, CleansBranchEffect

-----------------------------------------------------------------------------
(* The theorems.                                                           *)

LEMMA InitEstablishes ==
  ASSUME Init
  PROVE  HarnessInv
<1>1. PICK keep \in Keep : h = Fresh(keep)
  BY DEF Init
<1>2. h \in HRecords /\ h.pc = "prepare"
  BY <1>1, FreshType, HarnessAssumption
<1>3. /\ h.tick = 0 /\ h.errTick = 0 /\ h.run = 0 /\ ~h.unaccounted /\ ~h.success /\ ~h.incomplete
  BY <1>1 DEF Fresh
<1>4. /\ artifacts = NoArtifacts /\ deleted = [b \in Heads |-> 0]
      /\ workspace = "there" /\ exit = "running" /\ slipped = FALSE /\ moved = {}
  BY DEF Init
<1>5. /\ kind \in {"pinned", "single"} /\ current = 0 /\ used = 0 /\ ticks = [t \in Ids |-> NoTick]
      /\ issue = "none" /\ tip = [b \in Heads |-> IF b = "old" THEN Anchor ELSE 0]
      /\ foreign = {"old"} /\ pushed = {} /\ merged = FALSE /\ pr = [b \in Heads |-> "none"] /\ acts = 0
  BY DEF Init, SandboxInit
<1>6. SandboxTypeOK
  <2>1. ticks \in [Ids -> TickStates]
    BY <1>5, NoTickType
  <2>2. tip \in [Heads -> 0..MaxTip] /\ pr \in [Heads -> {"none", "open", "sideways", "closed", "merged"}]
    BY <1>5 DEF MaxTip, Anchor
  <2>3. 0 \in 0..MaxIds /\ 0 \in 0..MaxActs
    BY SandboxAssumption
  <2>4. foreign \subseteq Heads /\ pushed \subseteq Heads /\ merged \in BOOLEAN
    BY <1>5 DEF Heads
  <2>5. QED
    BY <1>5, <2>1, <2>2, <2>3, <2>4 DEF SandboxTypeOK
<1>7. TypeOK
  <2>1. artifacts \in [tips : [Heads -> 0..MaxTip], prs : SUBSET Heads] /\ deleted \in [Heads -> 0..MaxTip]
    BY <1>4 DEF NoArtifacts, MaxTip
  <2>2. QED
    BY <1>2, <1>4, <1>6, <2>1 DEF TypeOK, HRecords
<1>8. \A t \in Ids : ~Busy(t) /\ ~ticks[t].spawnFailed /\ ~ticks[t].orphan
  <2>1. \A t \in Ids : ticks[t] = NoTick
    BY <1>5
  <2>2. QED
    BY <2>1, NoTickType DEF Busy, Created, NoTick
<1>9. NamesFit
  <2>1. IdsInOrder
    BY <1>3, <1>5, <1>8 DEF IdsInOrder
  <2>2. DriveKnows
    BY <1>2, <1>3, <1>5, SandboxAssumption DEF DriveKnows, Budget, Early, Destroying
  <2>3. WorkIsNamed
    BY <1>8 DEF WorkIsNamed
  <2>4. QED
    BY <2>1, <2>2, <2>3 DEF NamesFit
<1>10. PushesFit
  BY <1>5 DEF PushesFit, Mine, Heads, Open
<1>11. QuietFits /\ FoundFits /\ JudgedFits /\ SuccessFits
  BY <1>2, <1>3, <1>4 DEF QuietFits, FoundFits, JudgedFits, SuccessFits, Destroying, Listed
<1>12. IssueFits
  BY <1>2, <1>3, <1>5 DEF IssueFits
<1>13. EndFits
  BY <1>2, <1>4 DEF EndFits
<1>14. QED
  BY <1>7, <1>9, <1>10, <1>11, <1>12, <1>13 DEF HarnessInv

LEMMA NothingMovesAlone ==
  ASSUME HarnessInv, UNCHANGED vars
  PROVE  HarnessInv'
<1>1. /\ UNCHANGED <<kind, current, used, ticks, issue, tip, foreign, pushed, merged, pr, acts>>
      /\ UNCHANGED <<h, artifacts, deleted, workspace, exit, slipped, moved>>
  BY DEF vars, sandbox, hVars
<1>2. \A t \in Ids : Created(t)' = Created(t) /\ (Busy(t)' <=> Busy(t))
  BY <1>1, StillTicks
<1>3. Quiet' <=> Quiet
  BY <1>1, QuietKept
<1>4. ShutdownTick' = ShutdownTick /\ (TickForgotten' <=> TickForgotten)
  BY <1>1 DEF ShutdownTick, TickForgotten
<1>5. TypeOK'
  BY <1>1 DEF HarnessInv, TypeOK, SandboxTypeOK
<1>6. NamesFit'
  BY <1>1, <1>2, <1>4 DEF HarnessInv, NamesFit, IdsInOrder, DriveKnows, WorkIsNamed
<1>7. PushesFit'
  BY <1>1, <1>2 DEF HarnessInv, PushesFit, Open
<1>8. QuietFits'
  BY <1>1, <1>3, <1>4 DEF HarnessInv, QuietFits
<1>9. FoundFits' /\ JudgedFits' /\ IssueFits'
  BY <1>1, <1>4 DEF HarnessInv, FoundFits, JudgedFits, IssueFits, Open, Spared, Listed
<1>10. SuccessFits'
  BY <1>1 DEF HarnessInv, SuccessFits, Implemented
<1>11. EndFits'
  BY <1>1 DEF HarnessInv, EndFits
<1>12. QED
  BY <1>5, <1>6, <1>7, <1>8, <1>9, <1>10, <1>11 DEF HarnessInv

LEMMA StepKeeps ==
  ASSUME HarnessInv, [Next]_vars
  PROVE  HarnessInv'
<1>1. CASE UNCHANGED vars
  BY <1>1, NothingMovesAlone
<1>2. CASE HarnessStep
  BY <1>2, PreparesKeeps, CreatesIssueKeeps, CreatesAnchorKeeps, RunsTickKeeps, RecoversKeeps,
     ReassertsKeeps, BreaksKeeps, PollsKeeps, JudgesSingleKeeps, JudgesPinnedKeeps, VerifiesKeeps, ShutsDownKeeps,
     CancelsKeeps, QuiescesKeeps, DecidesKeeps, ListsHeadsKeeps, DiscoversKeeps, CleansIssueKeeps,
     CleansPrKeeps, CleansBranchKeeps, FinishesKeeps DEF HarnessStep
<1>3. CASE Interrupted
  BY <1>3, InterruptedKeeps
<1>4. CASE Environment
  <2>1. exit = "running"
    BY <1>4 DEF Environment
  <2>2. CASE /\ World
             /\ moved' = IF Listed THEN moved \cup {b \in Heads : tip'[b] # tip[b]} ELSE moved
             /\ UNCHANGED <<h, artifacts, deleted, workspace, exit, slipped>>
    BY <2>1, <2>2, WorldKeeps
  <2>3. CASE \E t \in Ids : /\ LateLands(t)
                            /\ slipped' = (slipped \/ (kind = "pinned" /\ PastQuiescence))
                            /\ UNCHANGED <<h, artifacts, deleted, workspace, exit, moved>>
    BY <2>1, <2>3, LateLandsKeeps
  <2>4. QED
    BY <1>4, <2>2, <2>3 DEF Environment
<1>5. QED
  BY <1>1, <1>2, <1>3, <1>4 DEF Next

\* The inductive invariant of a harness run: what it can name of the work it started, what it found
\* of it on GitHub, and what of that it has still to clean.
THEOREM HarnessInvariantHolds == Spec => []HarnessInv
BY InitEstablishes, StepKeeps, PTL DEF Spec

\* Every variable keeps its type, the drive its budget of ticks.
THEOREM TypesHold == Spec => []TypeOK
<1>1. HarnessInv => TypeOK
  BY DEF HarnessInv
<1>2. QED
  BY <1>1, HarnessInvariantHolds, PTL

\* While the harness closes pull requests and deletes branches, nobody of the run may push, but for
\* the create of a pinned run that no marker it reads could show.
THEOREM CleanupIsQuiet == Spec => []NothingRunsDuringCleanup
<1>1. HarnessInv => NothingRunsDuringCleanup
  BY DEF HarnessInv, QuietFits, Quiet, NothingRunsDuringCleanup, Destroys, Destroying
<1>2. QED
  BY <1>1, HarnessInvariantHolds, PTL

-----------------------------------------------------------------------------
(* The end of the run.                                                     *)

\* Quiet, with the issue closed and nothing of the run's left but what people took over, is nothing
\* left.
LEMMA QuietIsNothingLeft ==
  ASSUME Quiet, issue # "open", \A b \in Mine : ~Spared(b) => tip[b] = 0 /\ ~Open(b)
  PROVE  NothingLeft
BY DEF Quiet, NothingLeft, Mine, Open, Spared

\* A report without trouble is true, but for a tick that was forgotten.
LEMMA ReportIsTrue ==
  ASSUME HarnessInv, h.pc = "report", h.ok, ~h.keep
  PROVE  issue # "open" /\ (NothingLeft \/ TickForgotten)
<1>1. issue # "open" /\ h.quiescent /\ ~h.unaccounted
  BY DEF HarnessInv, IssueFits
<1>2. ~TickForgotten => Quiet /\ \A b \in Mine : ~Spared(b) => tip[b] = 0 /\ ~Open(b)
  BY <1>1 DEF HarnessInv, QuietFits, FoundFits
<1>3. QED
  BY <1>1, <1>2, QuietIsNothingLeft

\* What is left does not change while only the harness ends.
LEMMA LeftKept ==
  ASSUME UNCHANGED sandbox, UNCHANGED slipped
  PROVE  (NothingLeft' <=> NothingLeft) /\ issue' = issue
<1>1. UNCHANGED <<kind, ticks, issue, tip, pushed, merged, pr>> /\ (SomeoneMayPush' <=> SomeoneMayPush)
  BY StillSandbox DEF sandbox
<1>2. QED
  BY <1>1 DEF NothingLeft

LEMMA BeginningsTellTheTruth ==
  ASSUME HarnessInv, Prepares \/ CreatesIssue
  PROVE  RemovedMeansNothingLeft /\ exit' # "zero"
<1>1. exit = "running" /\ h \in HRecords
  BY HarnessRecordType DEF HarnessInv, Prepares, CreatesIssue, At
<1>2. CASE UNCHANGED <<workspace, exit>>
  BY <1>1, <1>2 DEF RemovedMeansNothingLeft
<1>3. CASE Prepares /\ Ends("raised", h)
  <2>1. /\ h.pc = "prepare" /\ UNCHANGED sandbox /\ UNCHANGED slipped
    BY <1>3 DEF Prepares, At
  <2>2. Quiet /\ issue # "open" /\ \A b \in Mine : tip[b] = 0 /\ ~Open(b)
    BY <2>1, NothingBusyYet DEF HarnessInv, IssueFits, Early
  <2>3. NothingLeft'
    BY <2>1, <2>2, QuietIsNothingLeft, LeftKept
  <2>4. QED
    BY <1>3, <2>3 DEF RemovedMeansNothingLeft, Ends
<1>4. CASE CreatesIssue /\ \E e \in {"raised", "interrupted"} : Ends(e, h)
  <2>1. h.incomplete
    BY <1>4 DEF CreatesIssue, At, HarnessInv, IssueFits
  <2>2. workspace' = workspace /\ exit' \in {"raised", "interrupted"}
    BY <1>4, <2>1 DEF Ends
  <2>3. QED
    BY <2>2 DEF RemovedMeansNothingLeft
<1>5. QED
  BY <1>2, <1>3, <1>4 DEF Prepares, CreatesIssue

LEMMA InterruptTellsTheTruth ==
  ASSUME HarnessInv, Interrupted
  PROVE  RemovedMeansNothingLeft /\ exit' # "zero"
<1>1. exit = "running" /\ UNCHANGED sandbox /\ UNCHANGED slipped
  BY InterruptedEnds
<1>2. PICK g \in HRecords :
        /\ Ends("interrupted", g)
        /\ ~g.keep /\ g.quiescent /\ ~g.incomplete =>
             h.pc \in {"prepare", "anchor", "shutdown"} \/ (h.pc = "report" /\ ~h.keep)
  BY InterruptedEnds
<1>3. /\ exit' = "interrupted"
      /\ workspace' # workspace =>
           h.pc \in {"prepare", "anchor", "shutdown"} \/ (h.pc = "report" /\ ~h.keep)
  BY <1>2 DEF Ends
<1>4. (NothingLeft' <=> NothingLeft) /\ issue' = issue
  BY <1>1, LeftKept
<1>5. CASE h.pc = "prepare"
  <2>1. Quiet /\ issue # "open" /\ \A b \in Mine : tip[b] = 0 /\ ~Open(b)
    BY <1>5, NothingBusyYet DEF HarnessInv, IssueFits, Early
  <2>2. NothingLeft'
    BY <1>4, <2>1, QuietIsNothingLeft
  <2>3. QED
    BY <1>3, <2>2 DEF RemovedMeansNothingLeft
<1>6. CASE h.pc \in {"anchor", "shutdown"} \/ (h.pc = "report" /\ ~h.ok)
  BY <1>3, <1>6 DEF RemovedMeansNothingLeft, Unguarded
<1>7. CASE h.pc = "report" /\ ~h.keep /\ h.ok
  BY <1>3, <1>4, <1>7, ReportIsTrue DEF RemovedMeansNothingLeft
<1>8. CASE workspace' = workspace
  BY <1>3, <1>8 DEF RemovedMeansNothingLeft
<1>9. QED
  BY <1>3, <1>5, <1>6, <1>7, <1>8

LEMMA FinishTellsTheTruth ==
  ASSUME HarnessInv, Finishes
  PROVE  RemovedMeansNothingLeft /\ ZeroMeansDelivered'
<1>1. h.pc = "report" /\ UNCHANGED sandbox /\ UNCHANGED <<deleted, slipped>>
  BY FinishesEnds
<1>2. PICK e \in {"zero", "one", "raised"}, g \in HRecords :
        /\ Ends(e, g) /\ g.board = h.board
        /\ ~g.keep /\ g.quiescent /\ ~g.incomplete => ~h.keep /\ h.ok
        /\ e = "zero" => h.success /\ ~h.failed /\ h.pending = "none"
  BY FinishesEnds
<1>3. /\ exit' = e /\ h'.board = h.board
      /\ workspace' # workspace => ~h.keep /\ h.ok
  BY <1>2, EndsEffect
<1>4. (NothingLeft' <=> NothingLeft) /\ issue' = issue
  BY <1>1, LeftKept
<1>5. RemovedMeansNothingLeft
  BY <1>1, <1>3, <1>4, ReportIsTrue DEF RemovedMeansNothingLeft
<1>6. exit' = "zero" => Implemented /\ \A k \in Keys : h.board[k] = "done"
  BY <1>1, <1>2, <1>3 DEF HarnessInv, SuccessFits
<1>7. Implemented' <=> Implemented
  BY <1>1 DEF sandbox, Implemented
<1>8. ZeroMeansDelivered'
  BY <1>3, <1>6, <1>7 DEF ZeroMeansDelivered, Implemented
<1>9. QED
  BY <1>5, <1>8

\* Every other step leaves the process running, and its workspace there.
LEMMA OthersDoNotEnd ==
  ASSUME Next, ~Prepares, ~CreatesIssue, ~Finishes, ~Interrupted
  PROVE  UNCHANGED <<workspace, exit>> /\ exit = "running"
<1>1. CASE HarnessStep
  BY <1>1 DEF HarnessStep, At, CreatesAnchor, RunsTick, Recovers, Reasserts, Breaks,
     Polls, JudgesSingle, JudgesPinned, Verifies, ShutsDown, Cancels, Quiesces, Decides,
     ListsHeads, Discovers, CleansIssue, CleansPr, CleansBranch
<1>2. CASE Environment
  BY <1>2 DEF Environment
<1>3. QED
  BY <1>1, <1>2 DEF Next

\* The workspace goes only when it is no longer the only record of something, whichever step failed:
\* NothingLeft says of what, and spares what people took over and what a card that slipped did.
\* Excepted are an interrupt that no guard of the run catches, and the tick that a single drive
\* forgot.  And exit code zero means that the run delivered.
THEOREM EndIsTruthful == Spec => EndTellsTheTruth
<1>1. ASSUME HarnessInv, [Next]_vars
      PROVE  [RemovedMeansNothingLeft /\ ZeroMeansDelivered']_vars
  <2>1. CASE UNCHANGED vars
    BY <2>1
  <2>2. CASE Prepares \/ CreatesIssue
    BY <1>1, <2>2, BeginningsTellTheTruth DEF ZeroMeansDelivered
  <2>3. CASE Interrupted
    BY <1>1, <2>3, InterruptTellsTheTruth DEF ZeroMeansDelivered
  <2>4. CASE Finishes
    BY <1>1, <2>4, FinishTellsTheTruth
  <2>5. CASE Next /\ ~Prepares /\ ~CreatesIssue /\ ~Finishes /\ ~Interrupted
    BY <2>5, OthersDoNotEnd DEF RemovedMeansNothingLeft, ZeroMeansDelivered
  <2>6. QED
    BY <1>1, <2>1, <2>2, <2>3, <2>4, <2>5
<1>2. QED
  BY <1>1, HarnessInvariantHolds, PTL DEF Spec, EndTellsTheTruth

\* A branch is deleted only as it was judged, by its lease: it has no commit outside the run's
\* history, and nobody has pushed to it since the heads were listed.
THEOREM OnlyJudgedWorkIsDeleted == Spec => DeletesWhatWasJudged
<1>1. ASSUME HarnessInv, [Next]_vars
      PROVE  [\A b \in Heads : deleted'[b] # deleted[b] => b \notin foreign \cup moved]_vars
  <2>1. CASE deleted' = deleted
    BY <2>1
  <2>2. CASE CleansBranch
    <3>1. h.pc = "branches" /\ deleted \in [Heads -> 0..MaxTip]
      BY <2>2, ShuttingTypes, <1>1 DEF CleansBranch, At
    <3>2. CASE UNCHANGED <<tip, foreign, artifacts, deleted>>
      BY <3>2
    <3>3. CASE \E b \in Heads : Cleans(b)
      <4>1. PICK b \in Heads : Cleans(b)
        BY <3>3
      <4>2. CASE LeaseHolds(b) /\ deleted' = [deleted EXCEPT ![b] = tip[b]]
        <5>1. b \notin foreign \cup moved
          BY <1>1, <3>1, <4>1, <4>2, LeaseIsOwn DEF Cleans
        <5>2. QED
          BY <3>1, <4>2, <5>1
      <4>3. QED
        BY <4>1, <4>2 DEF Cleans
    <3>4. QED
      BY <2>2, <3>2, <3>3, CleansBranchEffect
  <2>3. deleted' = deleted \/ CleansBranch
    <3>1. CASE HarnessStep
      BY <3>1 DEF HarnessStep, Prepares, CreatesIssue, CreatesAnchor, RunsTick, Recovers, Reasserts,
         Breaks, Polls, JudgesSingle, JudgesPinned, Verifies, ShutsDown, Cancels, Quiesces, Decides,
         ListsHeads, Discovers, CleansIssue, CleansPr, Finishes
    <3>2. CASE Interrupted \/ Environment \/ UNCHANGED vars
      BY <3>2 DEF Interrupted, Environment, hVars, vars
    <3>3. QED
      BY <1>1, <3>1, <3>2 DEF Next
  <2>4. QED
    BY <2>1, <2>2, <2>3
<1>2. QED
  BY <1>1, HarnessInvariantHolds, PTL DEF Spec, DeletesWhatWasJudged
=============================================================================
