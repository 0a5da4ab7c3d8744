------------------------ MODULE PhaseRecovery_proofs ------------------------
(***************************************************************************)
(* Theorems of PhaseRecovery, for every set of executions, daemons and     *)
(* worktree states and every value of the limits.                          *)
(***************************************************************************)
EXTENDS PhaseRecovery, AgentSupervisor_proofs, WellFoundedInduction

-----------------------------------------------------------------------------
(* The board *)

(* A nonempty set of generations has a greatest one.                       *)
LEMMA NewestExists ==
  ASSUME NEW S \in SUBSET Generations, S # {}
  PROVE  Max(S) \in S
  <1> DEFINE T == {MaxGenerations - g : g \in S}
  <1>1. MaxGenerations \in Nat
    BY BoundsAssumption
  <1>2. T \subseteq Nat /\ T # {}
    <2>1. \A g \in S : MaxGenerations - g \in Nat
      BY <1>1 DEF Generations
    <2>2. \E g : g \in S
      OBVIOUS
    <2> QED BY <2>1, <2>2
  <1>3. \E x \in T : \A y \in T : ~(<<y, x>> \in OpToRel(<, Nat))
    <2> HIDE DEF T
    <2> QED BY <1>2, NatLessThanWellFounded, WFMin
  <1>4. \E x \in T : \A y \in T : ~(y < x)
    BY <1>2, <1>3 DEF OpToRel
  <1>5. \E g \in S : \A h \in S : h <= g
    BY <1>1, <1>4 DEF Generations
  <1>6. \E g \in S : \A h \in S : g >= h
    BY <1>5 DEF Generations
  <1> QED BY <1>6 DEF Max

-----------------------------------------------------------------------------
(* What a step of the phase does to the worktree lock and the store *)

(* The lock moves between the tick and nobody without touching a daemon.   *)
LEMMA LockChangesHands ==
  ASSUME SupervisorInv, crashes' \in Nat,
         UNCHANGED <<storeVars, intent, nextEvent, work, live, marker, promoted, daemon>>,
         wtLock \in {NoDaemon, Tick}, wtLock' \in {NoDaemon, Tick}
  PROVE  SupervisorInv'
  <1>1. TypeOK'
    BY DEF SupervisorInv, TypeOK, storeVars
  <1>2. OneUnsettledAttempt'
    BY DEF SupervisorInv, OneUnsettledAttempt, AllSettled, Settled, storeVars
  <1>3. \A f \in Executions : Accounts(f)'
    BY DEF SupervisorInv, Accounts, Agree, Last, Settled, storeVars
  <1>4. ASSUME NEW d \in Daemons PROVE DaemonRelies(d)'
    <2>1. wtLock # d
      BY TickAssumption, NoDaemonAssumption
    <2>2. daemon[d].pc \notin Holding /\ daemon'[d].pc \notin Holding
      BY <2>1 DEF SupervisorInv, DaemonRelies
    <2> QED BY <2>2, OwnersHold DEF DaemonRelies
  <1> QED BY <1>1, <1>2, <1>3, <1>4 DEF SupervisorInv

(* A pass holds the lock from its first command to its last.               *)
LEMMA PassHoldsLock ==
  ASSUME PhaseTypeOK, TickRelies, TickStep \/ TickDies
  PROVE  /\ wtLock \in {NoDaemon, Tick} /\ wtLock' \in {NoDaemon, Tick}
         /\ tick'.pc # "idle" <=> wtLock' = Tick
  <1>0. /\ tick \in Ticks /\ Tick # NoDaemon
        /\ tick.pc # "idle" <=> wtLock = Tick
    BY TickAssumption DEF PhaseTypeOK, TickRelies
  <1>1. ASSUME Unlock
        PROVE  wtLock' = NoDaemon /\ tick'.pc = "idle"
    BY <1>1 DEF Unlock, IdleTick
  <1>2. ASSUME NEW pc, TickTo(pc)
        PROVE  wtLock' = wtLock /\ tick'.pc = pc
    BY <1>0, <1>2 DEF TickTo, Ticks
  <1>3. ASSUME NEW stale, Retiring(stale)
        PROVE  wtLock' = wtLock /\ tick'.pc # "idle"
    BY <1>0, <1>3 DEF Retiring, Ticks
  <1>4. CASE TickReads
    BY <1>0, <1>4 DEF TickReads, IdleTick
  <1>5. CASE TickLeaves \/ RouteWaits \/ RouteStalled
    <2>1. tick.pc # "idle"
      BY <1>5 DEF TickLeaves, RouteWaits, RouteStalled, TickAt
    <2>2. Unlock \/ TickTo("unblock")
      BY <1>5 DEF TickLeaves, RouteWaits, RouteStalled, Park
    <2> QED BY <1>0, <1>1, <1>2, <2>1, <2>2
  <1>12. CASE RouteProceeds
    <2>1. tick.pc # "idle"
      BY <1>12 DEF RouteProceeds, TickAt
    <2>2. Unlock \/ (wtLock' = wtLock /\ tick' = [tick EXCEPT !.pc = "create", !.next = 1])
      BY <1>12 DEF RouteProceeds
    <2> QED BY <1>0, <1>1, <2>1, <2>2 DEF Ticks
  <1>6. CASE RouteAsks
    <2>1. UNCHANGED wtLock
      BY <1>6 DEF RouteAsks, Asks, AutoApprove, vars
    <2> QED BY <1>0, <1>6, <2>1 DEF RouteAsks, TickAt, Ticks
  <1>7. CASE UnblockConfirmed \/ UnblockFails \/ UnblockRecorded
    BY <1>0, <1>1, <1>2, <1>7 DEF UnblockConfirmed, UnblockFails, UnblockRecorded, TickAt
  <1>8. CASE RetireReads \/ RetireUnreadable
    BY <1>0, <1>1, <1>3, <1>8 DEF RetireReads, RetireUnreadable, Park, TickAt
  <1>9. ASSUME NEW g \in Generations, ArchiveConfirmed(g) \/ ArchiveUnconfirmed(g)
        PROVE  wtLock \in {NoDaemon, Tick} /\ wtLock' \in {NoDaemon, Tick}
               /\ (tick'.pc # "idle" <=> wtLock' = Tick)
    BY <1>0, <1>1, <1>3, <1>9 DEF ArchiveConfirmed, ArchiveUnconfirmed, Park, TickAt
  <1>10. CASE Abandons \/ CreateConfirmed \/ CreateUncertain
    BY <1>0, <1>1, <1>10 DEF Abandons, CreateConfirmed, CreateUncertain, Park, TickAt
  <1>11. CASE TickDies
    BY <1>0, <1>11 DEF TickDies, TickAt, IdleTick
  <1> QED BY <1>4, <1>5, <1>6, <1>7, <1>8, <1>9, <1>10, <1>11, <1>12 DEF TickStep

(* The pass writes no attempt, and leaves the daemons what they rely on.   *)
LEMMA PassInv ==
  ASSUME SupervisorInv, PhaseTypeOK, TickRelies, TickStep \/ TickDies
  PROVE  SupervisorInv' /\ attempts' = attempts
  <1>1. CASE RouteAsks
    <2>1. CASE UNCHANGED vars
      BY <2>1, NextInv DEF vars
    <2>2. CASE AutoApprove(Phase)
      BY <2>2, PhaseAssumption, RequestInv DEF AutoApprove, storeVars
    <2> QED BY <1>1, <2>1, <2>2 DEF RouteAsks, Asks
  <1>2. CASE ~RouteAsks
    <2>1. /\ UNCHANGED <<storeVars, intent, nextEvent, work, live, marker, promoted, daemon>>
          /\ crashes' \in {crashes, crashes + 1}
      BY <1>2 DEF TickStep, TickDies, TickReads, TickLeaves, RouteProceeds, RouteWaits,
           RouteStalled, UnblockConfirmed, UnblockFails, UnblockRecorded, RetireReads,
           RetireUnreadable, ArchiveConfirmed, ArchiveUnconfirmed, Abandons,
           CreateConfirmed, CreateUncertain, superVars
    <2>2. crashes' \in Nat
      BY <2>1 DEF SupervisorInv, TypeOK
    <2> QED BY <2>1, <2>2, PassHoldsLock, LockChangesHands DEF storeVars
  <1> QED BY <1>1, <1>2

(* A daemon takes or drops the lock, but never the tick's.                 *)
LEMMA DaemonLeavesTicksLock ==
  ASSUME NEW d \in Daemons, DaemonStep(d) \/ DaemonDies(d)
  PROVE  wtLock' = Tick <=> wtLock = Tick
  <1>0. Tick # NoDaemon /\ Tick # d
    BY TickAssumption
  <1>1. ASSUME Exit(d) PROVE wtLock' = Tick <=> wtLock = Tick
    BY <1>0, <1>1 DEF Exit
  <1>2. CASE AdmissionStep(d)
    <2>1. CASE TakeWorktree(d)
      BY <1>0, <1>1, <2>1 DEF TakeWorktree
    <2>2. CASE ~TakeWorktree(d)
      BY <1>1, <1>2, <2>2 DEF AdmissionStep, AdmissionTimesOut, Consume, ConsumeInvalidates,
                              Refuse, Authorize, Admit
    <2> QED BY <2>1, <2>2
  <1>3. CASE ClientStep(d)
    BY <1>1, <1>3 DEF ClientStep, RecordSupervisor, LaunchFails, Launch, RecordLaunch,
                      OwnershipLost, ObserveExit, ExitObserved, Conclude
  <1>4. CASE CollectStep(d)
    BY <1>1, <1>4 DEF CollectStep, MarkCheck, DoubtCleanup, CheckNotLaunched, LaunchCheck,
                      RecordCheck, ClearMarker, RecordCheckExit, SettleCheck, CheckLost,
                      Promote, FinishCollection, Conclude
  <1>5. CASE DaemonDies(d)
    BY <1>1, <1>5 DEF DaemonDies
  <1> QED BY <1>2, <1>3, <1>4, <1>5 DEF DaemonStep

(* Everybody but the tick takes a step of AgentSupervisor, or none of it,  *)
(* and leaves the pass and its lock alone.                                 *)
OthersStep ==
  \/ SupervisorStep \/ OperatorRecovers
  \/ \E g \in Generations : Dispatch(g) \/ OperatorUnblocks(g) \/ WorkerStep(g)

LEMMA OthersSupervise ==
  ASSUME OthersStep
  PROVE  [Next]_vars /\ (wtLock' = Tick <=> wtLock = Tick) /\ UNCHANGED <<tick, abandoned, unblocked, parked>>
  <1>1. CASE SupervisorStep
    <2>1. UNCHANGED <<tick, abandoned, unblocked, parked>>
      BY <1>1 DEF SupervisorStep, boardVars
    <2>2. Next
      BY <1>1 DEF SupervisorStep, Next, Environment
    <2>3. CASE \E d \in Daemons : DaemonStep(d) \/ DaemonDies(d)
      BY <2>1, <2>2, <2>3, DaemonLeavesTicksLock
    <2>4. CASE ~\E d \in Daemons : DaemonStep(d) \/ DaemonDies(d)
      <3>1. UNCHANGED wtLock
        BY <1>1, <2>4 DEF SupervisorStep, Recover, RecoverConfirmed, RecoverUnconfirmed, ProcessEnds, Edit
      <3> QED BY <2>1, <2>2, <3>1
    <2> QED BY <2>3, <2>4
  <1>2. CASE OperatorRecovers
    <2>1. Request(Phase) /\ UNCHANGED wtLock
      BY <1>2 DEF OperatorRecovers, Request, Prepare, Approve, AttachRecovery
    <2> QED BY <1>2, <2>1, PhaseAssumption DEF OperatorRecovers, boardVars, Next
  <1>3. ASSUME NEW g \in Generations, Dispatch(g) \/ OperatorUnblocks(g)
        PROVE  UNCHANGED vars /\ UNCHANGED <<tick, abandoned, unblocked, parked>>
    BY <1>3 DEF Dispatch, OperatorUnblocks
  <1>4. ASSUME NEW g \in Generations, WorkerStep(g)
        PROVE  /\ UNCHANGED vars \/ (Request(Phase) /\ UNCHANGED wtLock)
               /\ UNCHANGED <<tick, abandoned, unblocked, parked>>
    <2>1. CASE \/ \E d \in Daemons : AttachStarts(g, d) \/ AttachResumes(g, d)
               \/ AttachFindsChange(g)
      BY <2>1 DEF AttachStarts, AttachResumes, AttachFindsChange, Request,
                  AttachFresh, AttachRecovery, AttachInvalidates
    <2>2. CASE \/ AttachJoins(g) \/ AttachReports(g) \/ AttachFails(g)
               \/ WorkerSeesOutcome(g) \/ WorkerSeesInvalidated(g) \/ WorkerSeesStall(g)
               \/ WorkerReconnects(g) \/ WorkerReports(g) \/ WorkerGivesUp(g)
      BY <2>2 DEF AttachJoins, AttachReports, AttachFails, WorkerSeesOutcome,
                  WorkerSeesInvalidated, WorkerSeesStall, WorkerReconnects, WorkerReports, WorkerGivesUp
    <2> QED BY <1>4, <2>1, <2>2 DEF WorkerStep
  <1>5. UNCHANGED vars => UNCHANGED wtLock
    BY DEF vars
  <1>6. Request(Phase) => Next
    BY PhaseAssumption DEF Next
  <1> QED BY <1>1, <1>2, <1>3, <1>4, <1>5, <1>6 DEF OthersStep

-----------------------------------------------------------------------------
(* What is settled stays, and with it what a later card is created on *)

(* What is appended to a history leaves its earlier entries alone.         *)
LEMMA AppendKeeps ==
  ASSUME NEW S, NEW s \in Seq(S), NEW x \in S, NEW k \in 1..Len(s)
  PROVE  Len(Append(s, x)) >= k /\ Append(s, x)[k] = s[k]
  OBVIOUS

(* The attempt before generation g stays settled, whoever moves.           *)
LEMMA SettledStays ==
  ASSUME SupervisorInv, [Next]_vars \/ attempts' = attempts,
         NEW g \in Nat, g > 1, FollowsSettled(g)
  PROVE  FollowsSettled(g)'
  <1> DEFINE n == Len(LedgerOf[Phase])
  <1>1. /\ Phase \in Executions /\ n \in Nat /\ n = Generation(Phase)
        /\ LedgerOf[Phase] \in Seq(Ledger!Entries)
        /\ LedgerOf[Phase] = [i \in 1..n |-> Entry(attempts[Phase][i])]
    BY PhaseAssumption, LedgerReads DEF SupervisorInv, TypeOK, Generation
  <1>2. n >= g - 1 /\ LedgerOf[Phase][g-1] = "settled"
    BY <1>1 DEF FollowsSettled, Settled, Entry
  <1>3. Len(LedgerOf'[Phase]) >= g - 1 /\ LedgerOf'[Phase][g-1] = "settled"
    <2>1. CASE LedgerOf' = LedgerOf
      BY <1>2, <2>1
    <2>2. ASSUME NEW e \in Executions, Ledger!Admit(e)
          PROVE  Len(LedgerOf'[Phase]) >= g - 1 /\ LedgerOf'[Phase][g-1] = "settled"
      <3>1. LedgerOf' = [LedgerOf EXCEPT ![e] = Append(@, "open")]
        BY <2>2 DEF Ledger!Admit, LedgerOf
      <3>2. LedgerOf'[Phase] = LedgerOf[Phase] \/ LedgerOf'[Phase] = Append(LedgerOf[Phase], "open")
        BY <1>1, <3>1 DEF LedgerOf
      <3>3. "open" \in Ledger!Entries
        BY DEF Ledger!Entries
      <3>4. CASE LedgerOf'[Phase] = LedgerOf[Phase]
        BY <1>2, <3>4
      <3> HIDE DEF n
      <3>5. CASE LedgerOf'[Phase] = Append(LedgerOf[Phase], "open")
        <4> DEFINE s == LedgerOf[Phase]
        <4>1. s \in Seq(Ledger!Entries) /\ g - 1 \in 1..Len(s) /\ s[g-1] = "settled"
          BY <1>1, <1>2 DEF n
        <4> HIDE DEF s
        <4>2. Len(Append(s, "open")) >= g - 1 /\ Append(s, "open")[g-1] = "settled"
          BY <3>3, <4>1, AppendKeeps
        <4> QED BY <3>5, <4>2 DEF s
      <3> QED BY <3>2, <3>4, <3>5
    <2>3. ASSUME NEW e \in Executions, NEW from, NEW to, Ledger!Become(e, from, to), "settled" \notin from
          PROVE  Len(LedgerOf'[Phase]) >= g - 1 /\ LedgerOf'[Phase][g-1] = "settled"
      <3>1. /\ LedgerOf' = [LedgerOf EXCEPT ![e][Len(LedgerOf[e])] = to]
            /\ LedgerOf[e][Len(LedgerOf[e])] \in from
        BY <2>3 DEF Ledger!Become, LedgerOf
      <3>2. \/ LedgerOf'[Phase] = LedgerOf[Phase]
            \/ e = Phase /\ LedgerOf'[Phase] = [LedgerOf[Phase] EXCEPT ![n] = to]
        BY <1>1, <3>1 DEF LedgerOf
      <3>3. e = Phase => n # g - 1
        BY <1>2, <2>3, <3>1
      <3> HIDE DEF n
      <3> QED BY <1>1, <1>2, <3>2, <3>3
    <2>4. CASE Ledger!Next
      BY <2>2, <2>3, <2>4 DEF Ledger!Next, Ledger!Close, Ledger!Settle
    <2>5. Ledger!Next \/ LedgerOf' = LedgerOf
      BY NextInLedger, LedgerIdle
    <2> QED BY <2>1, <2>4, <2>5
  <1>4. /\ Len(LedgerOf'[Phase]) = Generation(Phase)' /\ Generation(Phase)' \in Nat
        /\ LedgerOf'[Phase] = [i \in 1..Generation(Phase)' |-> Entry(attempts'[Phase][i])]
    <2>1. attempts' \in [Executions -> Seq(Attempts)]
      <3>1. CASE [Next]_vars
        BY <3>1, NextType DEF SupervisorInv, TypeOK
      <3> QED BY <3>1 DEF SupervisorInv, TypeOK
    <2>2. Generation(Phase)' \in Nat
      BY <1>1, <2>1 DEF Generation
    <2>3. LedgerOf'[Phase] = [i \in 1..Generation(Phase)' |-> Entry(attempts'[Phase][i])]
      BY <1>1 DEF LedgerOf, Generation, Entry
    <2> QED BY <2>2, <2>3
  <1>5. Entry(attempts'[Phase][g-1]) = "settled"
    BY <1>3, <1>4
  <1> QED BY <1>3, <1>4, <1>5 DEF FollowsSettled, Entry, Settled

-----------------------------------------------------------------------------
(* Type correctness *)

(* What is done to a card gives a card.                                    *)
LEMMA CardTypes ==
  /\ NoCard \in Cards /\ NewCard \in Cards /\ Retired \in Cards
  /\ \A c \in Cards : Blocked(c) \in Cards
  /\ \A c \in Cards, s \in CardStatus : [c EXCEPT !.status = s] \in Cards
  BY DEF Cards, NoCard, NewCard, Retired, Blocked, CardStatus

(* Hermes, the workers and the operator write only values of the types.    *)
LEMMA OthersType ==
  ASSUME SupervisorInv, PhaseTypeOK, OthersStep
  PROVE  PhaseTypeOK'
  <1>0. UNCHANGED <<tick, abandoned, unblocked, parked>>
    BY OthersSupervise
  <1>1. SUFFICES card' \in [Generations -> Cards] /\ worker' \in [Generations -> Workers]
    BY <1>0 DEF PhaseTypeOK
  <1>2. card \in [Generations -> Cards] /\ worker \in [Generations -> Workers]
    BY DEF PhaseTypeOK
  <1>3. /\ Phase \in Executions /\ Generation(Phase) \in Nat
        /\ intent[Phase].event \in Events \cup {NoEvent}
    BY PhaseAssumption DEF SupervisorInv, TypeOK, Generation, Intents
  <1>4. NoWorker \in Workers /\ [NoWorker EXCEPT !.pc = "attach"] \in Workers
    BY DEF NoWorker, Workers
  <1>5. ASSUME NEW g \in Generations,
               NEW pc \in {"none", "attach", "wait", "report"}, NEW expected \in Nat,
               NEW event \in Events \cup {NoEvent},
               NEW report \in {"none", "completed", "failed", "invalidated", "stalled"},
               Settings(g, pc, expected, event, report)
        PROVE  worker' \in [Generations -> Workers]
    <2>1. [pc |-> pc, expected |-> expected, event |-> event, report |-> report] \in Workers
      BY DEF Workers
    <2> QED BY <1>2, <1>5, <2>1 DEF Settings
  <1>6. CASE SupervisorStep \/ OperatorRecovers
    BY <1>2, <1>6 DEF SupervisorStep, OperatorRecovers, boardVars
  <1>7. ASSUME NEW g \in Generations, NEW s \in CardStatus, SetCard(g, s)
        PROVE  card' \in [Generations -> Cards]
    BY <1>2, <1>7, CardTypes DEF SetCard
  <1>8. ASSUME NEW g \in Generations, Dispatch(g) \/ OperatorUnblocks(g)
        PROVE  card' \in [Generations -> Cards] /\ worker' \in [Generations -> Workers]
    <2>1. {"running", "ready"} \subseteq CardStatus
      BY DEF CardStatus
    <2> QED BY <1>2, <1>4, <1>7, <1>8, <2>1 DEF Dispatch, OperatorUnblocks
  <1>9. ASSUME NEW g \in Generations, WorkerStep(g)
        PROVE  card' \in [Generations -> Cards] /\ worker' \in [Generations -> Workers]
    <2>0. worker[g].expected \in Nat /\ worker[g].event \in Events \cup {NoEvent}
      BY <1>2 DEF Workers
    <2>1. NoEvent \in Events \cup {NoEvent} /\ Generation(Phase) + 1 \in Nat
      BY <1>3
    <2>2. CASE \E d \in Daemons : AttachStarts(g, d) \/ AttachResumes(g, d)
      BY <1>2, <1>3, <1>5, <2>1, <2>2 DEF AttachStarts, AttachResumes, Waits
    <2>3. CASE AttachJoins(g) \/ AttachFindsChange(g)
      BY <1>2, <1>3, <1>5, <2>1, <2>3 DEF AttachJoins, AttachFindsChange, Waits
    <2>4. CASE AttachReports(g) \/ AttachFails(g) \/ WorkerSeesOutcome(g)
               \/ WorkerSeesInvalidated(g) \/ WorkerSeesStall(g)
      <3>1. \E r \in {"completed", "failed", "invalidated", "stalled"} : Reports(g, r)
        BY <2>4 DEF AttachReports, AttachFails, WorkerSeesOutcome, WorkerSeesInvalidated,
                    WorkerSeesStall, OutcomeReports
      <3>2. card' = card
        BY <2>4 DEF AttachReports, AttachFails, WorkerSeesOutcome, WorkerSeesInvalidated,
                    WorkerSeesStall
      <3> QED BY <1>2, <1>5, <2>0, <3>1, <3>2 DEF Reports
    <2>5. CASE WorkerReconnects(g)
      BY <1>2, <1>4, <2>5 DEF WorkerReconnects
    <2>6. CASE WorkerReports(g) \/ WorkerGivesUp(g)
      <3>1. worker' \in [Generations -> Workers]
        BY <1>2, <1>4, <2>6 DEF WorkerReports, WorkerGivesUp
      <3>2. \E c \in {card[g], [card[g] EXCEPT !.status = "done"], Blocked(card[g])} :
              card' = [card EXCEPT ![g] = c]
        BY <2>6 DEF WorkerReports, WorkerGivesUp
      <3>3. {card[g], [card[g] EXCEPT !.status = "done"], Blocked(card[g])} \subseteq Cards
        <4>1. card[g] \in Cards /\ "done" \in CardStatus
          BY <1>2 DEF CardStatus
        <4> QED BY <4>1, CardTypes
      <3> QED BY <1>2, <3>1, <3>2, <3>3
    <2> QED BY <1>9, <2>2, <2>3, <2>4, <2>5, <2>6 DEF WorkerStep
  <1> QED BY <1>6, <1>8, <1>9 DEF OthersStep

(* So does the tick.                                                       *)
LEMMA PassType ==
  ASSUME SupervisorInv, PhaseTypeOK, TickRelies, TickStep \/ TickDies
  PROVE  PhaseTypeOK'
  <1>0. /\ card \in [Generations -> Cards] /\ worker \in [Generations -> Workers]
        /\ tick \in Ticks /\ unblocked \subseteq Generations
        /\ parked \in BOOLEAN /\ abandoned \in BOOLEAN
        /\ MaxGenerations \in Nat /\ MaxGenerations > 0 /\ Generation(Phase) \in Nat
    BY PhaseAssumption, BoundsAssumption DEF PhaseTypeOK, SupervisorInv, TypeOK, Generation
  <1>1. IdleTick \in Ticks
    BY <1>0 DEF IdleTick, Ticks, CardStatus
  <1>2. ASSUME NEW pc \in {"idle", "route", "unblock", "unblocked", "retire", "archive",
                           "abandon", "create", "leave"}
        PROVE  /\ [tick EXCEPT !.pc = pc] \in Ticks
               /\ \A next \in 0..MaxGenerations : [tick EXCEPT !.pc = pc, !.next = next] \in Ticks
               /\ \A stale \in SUBSET Generations : [tick EXCEPT !.stale = stale, !.pc = pc] \in Ticks
    BY <1>0, ZenonT(60) DEF Ticks
  <1>3. ASSUME NEW stale \in SUBSET Generations, Retiring(stale) PROVE tick' \in Ticks
    BY <1>2, <1>3 DEF Retiring
  <1>4. Unlock => tick' \in Ticks
    BY <1>1 DEF Unlock
  <1>5. CASE TickReads
    <2>1. PICK seen \in {0, Newest} :
            tick' = [IdleTick EXCEPT !.pc = "route", !.seen = seen,
                       !.status = IF seen = 0 THEN "none" ELSE card[seen].status]
      BY <1>5 DEF TickReads
    <2>2. seen = 0 \/ seen \in Generations
      <3>1. ListedCards \in SUBSET Generations
        BY DEF ListedCards
      <3> QED BY <3>1, NewestExists DEF Newest
    <2>3. seen \in 0..MaxGenerations /\ (IF seen = 0 THEN "none" ELSE card[seen].status) \in CardStatus
      BY <1>0, <2>2 DEF Generations, Cards, CardStatus
    <2>4. \A status \in CardStatus :
            [IdleTick EXCEPT !.pc = "route", !.seen = seen, !.status = status] \in Ticks
      BY <1>1, <2>3 DEF Ticks
    <2>5. tick' \in Ticks
      BY <2>1, <2>3, <2>4
    <2> QED BY <1>0, <1>5, <2>5 DEF TickReads, PhaseTypeOK
  <1>6. CASE TickLeaves \/ RouteWaits \/ RouteStalled
    <2>1. tick' \in Ticks
      BY <1>2, <1>4, <1>6 DEF TickLeaves, RouteWaits, RouteStalled, Park, TickTo
    <2> QED BY <1>0, <1>6, <2>1 DEF TickLeaves, RouteWaits, RouteStalled, Park, PhaseTypeOK
  <1>7. CASE RouteProceeds
    <2>1. tick' = [tick EXCEPT !.pc = "create", !.next = 1] \/ Unlock
      BY <1>7 DEF RouteProceeds
    <2>2. parked' \in BOOLEAN
      BY <1>0, <1>7 DEF RouteProceeds
    <2>3. tick' \in Ticks
      <3>1. 1 \in 0..MaxGenerations
        BY <1>0
      <3>2. [tick EXCEPT !.pc = "create", !.next = 1] \in Ticks
        BY <1>2, <3>1
      <3> QED BY <1>4, <2>1, <3>2
    <2> QED BY <1>0, <1>7, <2>2, <2>3 DEF RouteProceeds, PhaseTypeOK
  <1>8. CASE RouteAsks
    <2>1. Verdict = "approved" => Generation(Phase) < MaxGenerations
      BY <1>0 DEF Verdict
    <2>2. (IF Verdict = "approved" THEN Generation(Phase) + 1 ELSE 0) \in 0..MaxGenerations
      BY <1>0, <2>1, SMTT(60)
    <2>3. tick' \in Ticks
      BY <1>2, <1>8, <2>2 DEF RouteAsks
    <2>4. parked' \in BOOLEAN
      BY <1>0, <1>8, Zenon DEF RouteAsks
    <2> QED BY <1>0, <1>8, <2>3, <2>4 DEF RouteAsks, PhaseTypeOK
  <1>9. CASE UnblockConfirmed \/ UnblockFails \/ UnblockRecorded
    <2>1. tick' \in Ticks
      BY <1>2, <1>4, <1>9 DEF UnblockConfirmed, UnblockFails, UnblockRecorded, TickTo
    <2>2. card' \in [Generations -> Cards]
      <3>1. "ready" \in CardStatus
        BY DEF CardStatus
      <3>2. card' = card \/ card' = [card EXCEPT ![tick.seen] = [@ EXCEPT !.status = "ready"]]
        BY <1>9 DEF UnblockConfirmed, UnblockFails, UnblockRecorded, SetCard
      <3> QED BY <1>0, <3>1, <3>2, CardTypes
    <2>3. unblocked' \subseteq Generations
      <3>1. tick.pc = "unblocked" => tick.seen \in Generations
        BY <1>0 DEF TickRelies, Ticks, Generations
      <3> QED BY <1>0, <1>9, <3>1 DEF UnblockConfirmed, UnblockFails, UnblockRecorded, TickAt
    <2>4. parked' \in BOOLEAN
      BY <1>0, <1>9, Zenon DEF UnblockConfirmed, UnblockFails, UnblockRecorded
    <2> QED BY <1>0, <1>9, <2>1, <2>2, <2>3, <2>4, SMTT(60)
            DEF UnblockConfirmed, UnblockFails, UnblockRecorded, PhaseTypeOK
  <1>10. CASE RetireReads \/ RetireUnreadable
    <2>1. tick' \in Ticks
      <3>1. ListedCards \in SUBSET Generations
        BY DEF ListedCards
      <3> QED BY <1>3, <1>4, <1>10, <3>1 DEF RetireReads, RetireUnreadable, Park
    <2> QED BY <1>0, <1>10, <2>1 DEF RetireReads, RetireUnreadable, Park, PhaseTypeOK
  <1>11. ASSUME NEW g \in Generations, ArchiveConfirmed(g) \/ ArchiveUnconfirmed(g)
         PROVE  PhaseTypeOK'
    <2>1. tick' \in Ticks
      <3>1. tick.stale \ {g} \in SUBSET Generations
        BY <1>0 DEF Ticks
      <3> QED BY <1>3, <1>4, <1>11, <3>1 DEF ArchiveConfirmed, ArchiveUnconfirmed, Park
    <2>2. card' \in [Generations -> Cards]
      BY <1>0, <1>11, CardTypes DEF ArchiveConfirmed, ArchiveUnconfirmed, Archive
    <2> QED BY <1>0, <1>11, <2>1, <2>2 DEF ArchiveConfirmed, ArchiveUnconfirmed, Park, PhaseTypeOK
  <1>12. CASE Abandons \/ TickDies
    BY <1>0, <1>1, <1>12 DEF Abandons, Park, Unlock, TickDies, PhaseTypeOK
  <1>13. CASE CreateConfirmed \/ CreateUncertain
    <2>1. card' \in [Generations -> Cards]
      BY <1>0, <1>13, CardTypes DEF CreateConfirmed, CreateUncertain, Created
    <2>2. parked' \in BOOLEAN
      BY <1>0, <1>13, Zenon DEF CreateConfirmed, CreateUncertain
    <2> QED BY <1>0, <1>4, <1>13, <2>1, <2>2 DEF CreateConfirmed, CreateUncertain, PhaseTypeOK
  <1> QED BY <1>5, <1>6, <1>7, <1>8, <1>9, <1>10, <1>11, <1>12, <1>13 DEF TickStep

-----------------------------------------------------------------------------
(* The board and the pass *)

(* Only the tick creates or archives a card: the others change the status  *)
(* of a card that is listed, to one that is listed.                        *)
LEMMA OthersKeepBoard ==
  ASSUME PhaseTypeOK, OthersStep
  PROVE  /\ ListedCards' = ListedCards
         /\ \A g \in Generations : card'[g].status # "none" => card[g].status # "none"
  <1>0. card \in [Generations -> Cards]
    BY DEF PhaseTypeOK
  <1>1. ASSUME NEW g \in Generations, card[g].status \in Listed,
               NEW c, c.status \in Listed, card' = [card EXCEPT ![g] = c]
        PROVE  /\ ListedCards' = ListedCards
               /\ \A h \in Generations : card'[h].status # "none" => card[h].status # "none"
    <2>1. \A h \in Generations : card'[h] = IF h = g THEN c ELSE card[h]
      BY <1>0, <1>1
    <2> QED BY <1>1, <2>1 DEF ListedCards, Listed
  <1>2. CASE card' = card
    BY <1>2 DEF ListedCards
  <1>3. ASSUME NEW g \in Generations, Dispatch(g) \/ OperatorUnblocks(g)
        PROVE  /\ ListedCards' = ListedCards
               /\ \A h \in Generations : card'[h].status # "none" => card[h].status # "none"
    <2>1. \E s \in {"running", "ready"} : card' = [card EXCEPT ![g] = [card[g] EXCEPT !.status = s]]
      BY <1>3 DEF Dispatch, OperatorUnblocks, SetCard
    <2>2. \A s \in {"running", "ready"} : [card[g] EXCEPT !.status = s].status \in Listed
      BY <1>0 DEF Cards, Listed, CardStatus
    <2>3. card[g].status \in Listed
      BY <1>3 DEF Dispatch, OperatorUnblocks, GaveUp, Listed, CardStatus
    <2> QED BY <1>1, <2>1, <2>2, <2>3
  <1>4. ASSUME NEW g \in Generations, WorkerStep(g)
        PROVE  /\ ListedCards' = ListedCards
               /\ \A h \in Generations : card'[h].status # "none" => card[h].status # "none"
    <2>1. CASE ~WorkerReports(g) /\ ~WorkerGivesUp(g)
      <3>1. card' = card
        BY <1>4, <2>1 DEF WorkerStep, AttachStarts, AttachResumes, AttachJoins, AttachFindsChange,
             AttachReports, AttachFails, WorkerSeesOutcome, WorkerSeesInvalidated,
             WorkerSeesStall, WorkerReconnects
      <3> QED BY <1>2, <3>1
    <2>2. CASE WorkerReports(g) \/ WorkerGivesUp(g)
      <3>1. CASE card[g].status = "running"
        <4>1. \E c \in {[card[g] EXCEPT !.status = "done"], Blocked(card[g])} :
                card' = [card EXCEPT ![g] = c]
          BY <2>2, <3>1 DEF WorkerReports, WorkerGivesUp
        <4>2. \A c \in {[card[g] EXCEPT !.status = "done"], Blocked(card[g])} : c.status \in Listed
          BY <1>0 DEF Blocked, Cards, Listed, CardStatus
        <4>3. card[g].status \in Listed
          BY <3>1 DEF Listed, CardStatus
        <4> QED BY <1>1, <4>1, <4>2, <4>3
      <3>2. CASE card[g].status # "running"
        <4>1. card' = card
          BY <1>0, <2>2, <3>2 DEF WorkerReports, WorkerGivesUp
        <4> QED BY <1>2, <4>1
      <3> QED BY <3>1, <3>2
    <2> QED BY <2>1, <2>2
  <1> QED BY <1>2, <1>3, <1>4 DEF OthersStep, SupervisorStep, OperatorRecovers, boardVars

(* What a pass has in hand, after each of its steps.                       *)
LEMMA PassKeepsHand ==
  ASSUME SupervisorInv, PhaseTypeOK, TickRelies, TickStep \/ TickDies
  PROVE  /\ tick'.pc \in {"archive", "abandon"} => ListedCards' = tick'.stale
         /\ tick'.pc = "abandon" => tick'.stale = {}
         /\ tick'.next > 1 => FollowsSettled(tick'.next)
         /\ tick'.seen = 0 => tick'.status = "none"
         /\ tick'.pc \in {"unblock", "unblocked"} => tick'.seen # 0
  <1> DEFINE Hand ==
         /\ tick'.pc \in {"archive", "abandon"} => ListedCards' = tick'.stale
         /\ tick'.pc = "abandon" => tick'.stale = {}
         /\ tick'.next > 1 => FollowsSettled(tick'.next)
         /\ tick'.seen = 0 => tick'.status = "none"
         /\ tick'.pc \in {"unblock", "unblocked"} => tick'.seen # 0
  <1>0. /\ tick \in Ticks /\ card \in [Generations -> Cards]
        /\ tick.next > 1 => FollowsSettled(tick.next)
        /\ tick.seen = 0 => tick.status = "none"
    BY DEF PhaseTypeOK, TickRelies
  <1>1. CASE tick' = IdleTick
    BY <1>1 DEF IdleTick
  <1>2. Unlock => tick' = IdleTick
    BY DEF Unlock
  <1>3. CASE TickReads
    <2>1. PICK seen : tick' = [IdleTick EXCEPT !.pc = "route", !.seen = seen,
                                 !.status = IF seen = 0 THEN "none" ELSE card[seen].status]
      BY <1>3 DEF TickReads
    <2> QED BY <2>1 DEF IdleTick
  <1>4. CASE RouteProceeds
    <2>1. tick' = IdleTick \/ tick' = [tick EXCEPT !.pc = "create", !.next = 1]
      BY <1>2, <1>4 DEF RouteProceeds
    <2>2. CASE tick' = [tick EXCEPT !.pc = "create", !.next = 1]
      BY <1>0, <2>2 DEF Ticks
    <2> QED BY <1>1, <2>1, <2>2
  <1>5. CASE RouteWaits \/ RouteStalled
    <2>1. tick' = IdleTick \/ (tick' = [tick EXCEPT !.pc = "unblock"] /\ MayUnblock)
      BY <1>2, <1>5 DEF RouteWaits, RouteStalled, Park, TickTo
    <2>2. CASE tick' = [tick EXCEPT !.pc = "unblock"] /\ MayUnblock
      BY <1>0, <2>2 DEF Ticks, MayUnblock
    <2> QED BY <1>1, <2>1, <2>2
  <1>6. CASE RouteAsks
    <2>1. PICK pc \in {"retire", "leave"}, next \in {0, Generation(Phase) + 1} :
            /\ tick' = [tick EXCEPT !.pc = pc, !.next = next]
            /\ next # 0 => Verdict = "approved"
      BY <1>6 DEF RouteAsks
    <2>2. Generation(Phase) \in Nat
      BY PhaseAssumption DEF SupervisorInv, TypeOK, Generation
    <2>3. Verdict = "approved" => FollowsSettled(Generation(Phase) + 1)
      <3>1. CASE Verdict = "approved"
        <4>1. ResumableOutcome(Last(Phase)) /\ Last(Phase).cleanup = "confirmed"
          BY <3>1 DEF Verdict
        <4>2. Settled(attempts[Phase][Generation(Phase)])
          BY <4>1 DEF ResumableOutcome, Settled, Terminal, Last, Generation
        <4> QED BY <2>2, <4>2 DEF FollowsSettled
      <3> QED BY <3>1
    <2>4. /\ tick'.pc = pc /\ tick'.next = next
          /\ tick'.seen = tick.seen /\ tick'.status = tick.status
      BY <1>0, <2>1 DEF Ticks
    <2>5. tick'.next > 1 => FollowsSettled(tick'.next)
      BY <2>1, <2>2, <2>3, <2>4
    <2> QED BY <1>0, <2>4, <2>5
  <1>7. CASE UnblockConfirmed
    BY <1>0, <1>7 DEF UnblockConfirmed, TickTo, TickAt, TickRelies, Ticks
  <1>8. ASSUME NEW stale, Retiring(stale), ListedCards' = stale
        PROVE  Hand
    <2>1. /\ tick'.stale = stale /\ tick'.next = tick.next
          /\ tick'.seen = tick.seen /\ tick'.status = tick.status
          /\ tick'.pc \in {"archive", "abandon", "create"}
          /\ tick'.pc = "abandon" => stale = {}
      BY <1>0, <1>8 DEF Retiring, Ticks
    <2> QED BY <1>0, <1>8, <2>1
  <1>9. CASE RetireReads
    <2>1. tick' = IdleTick \/ Retiring(ListedCards)
      BY <1>2, <1>9 DEF RetireReads
    <2>2. ListedCards' = ListedCards
      BY <1>9 DEF RetireReads, ListedCards
    <2> QED BY <1>1, <1>8, <2>1, <2>2
  <1>10. ASSUME NEW g \in Generations, ArchiveConfirmed(g)
         PROVE  Hand
    <2>1. ListedCards = tick.stale
      BY <1>10 DEF ArchiveConfirmed, TickAt, TickRelies
    <2>2. ListedCards' = ListedCards \ {g}
      BY <1>0, <1>10 DEF ArchiveConfirmed, Archive, ListedCards, Retired, Listed
    <2> QED BY <1>8, <1>10, <2>1, <2>2 DEF ArchiveConfirmed
  <1>11. CASE TickLeaves \/ UnblockFails \/ UnblockRecorded \/ RetireUnreadable
               \/ Abandons \/ CreateConfirmed \/ CreateUncertain \/ TickDies
    BY <1>1, <1>2, <1>11 DEF TickLeaves, UnblockFails, UnblockRecorded, RetireUnreadable,
       Abandons, CreateConfirmed, CreateUncertain, TickDies, Park
  <1>12. ASSUME NEW g \in Generations, ArchiveUnconfirmed(g)
         PROVE  Hand
    BY <1>1, <1>2, <1>12 DEF ArchiveUnconfirmed, Park
  <1> QED BY <1>3, <1>4, <1>5, <1>6, <1>7, <1>9, <1>10, <1>11, <1>12 DEF TickStep

(* A pass creates a card only behind a settled attempt, and never runs in  *)
(* an abandoned run, which it abandons only with an empty board.           *)
LEMMA PassCards ==
  ASSUME SupervisorInv, PhaseTypeOK, TickRelies, TickStep \/ TickDies
  PROVE  /\ \A g \in Generations \ {1} :
              card'[g].status # "none" => card[g].status # "none" \/ FollowsSettled(g)
         /\ abandoned' => tick'.pc = "idle" /\ ListedCards' = {}
  <1>0. /\ tick \in Ticks /\ card \in [Generations -> Cards]
        /\ tick.next > 1 => FollowsSettled(tick.next)
    BY DEF PhaseTypeOK, TickRelies
  <1>1. ASSUME NEW g \in Generations \ {1}, card'[g].status # "none"
        PROVE  card[g].status # "none" \/ FollowsSettled(g)
    <2>1. CASE CreateConfirmed \/ CreateUncertain
      <3>1. card' = card \/ card' = [card EXCEPT ![tick.next] = NewCard]
        BY <2>1 DEF CreateConfirmed, CreateUncertain, Created
      <3>2. g = tick.next => tick.next > 1
        BY BoundsAssumption DEF Generations
      <3> QED BY <1>0, <1>1, <3>1, <3>2
    <2>2. CASE UnblockConfirmed \/ UnblockFails
      <3>1. card' = card \/ (card[tick.seen].status = "blocked" /\ SetCard(tick.seen, "ready"))
        BY <2>2 DEF UnblockConfirmed, UnblockFails
      <3>2. g = tick.seen => card' = card \/ card[g].status = "blocked"
        BY <3>1
      <3>3. g # tick.seen => card'[g] = card[g]
        BY <1>0, <3>1 DEF SetCard
      <3> QED BY <1>1, <3>2, <3>3
    <2>3. ASSUME NEW h \in Generations, ArchiveConfirmed(h) \/ ArchiveUnconfirmed(h)
          PROVE  card[g].status # "none" \/ FollowsSettled(g)
      <3>1. card' = card \/ (h \in ListedCards /\ Archive(h))
        BY <2>3 DEF ArchiveConfirmed, ArchiveUnconfirmed, TickAt, TickRelies
      <3> QED BY <1>0, <1>1, <3>1 DEF Archive, ListedCards, Listed
    <2>4. CASE \/ TickReads \/ TickLeaves \/ RouteProceeds \/ RouteWaits \/ RouteStalled
               \/ RouteAsks \/ UnblockRecorded \/ RetireReads \/ RetireUnreadable
               \/ Abandons \/ TickDies
      <3>1. card' = card
        BY <2>4 DEF TickReads, TickLeaves, RouteProceeds, RouteWaits, RouteStalled, RouteAsks,
           UnblockRecorded, RetireReads, RetireUnreadable, Abandons, TickDies
      <3> QED BY <1>1, <3>1
    <2> QED BY <2>1, <2>2, <2>3, <2>4 DEF TickStep
  <1>2. ASSUME abandoned' PROVE tick'.pc = "idle" /\ ListedCards' = {}
    <2>1. ~abandoned
      <3>1. CASE tick.pc = "idle"
        BY <3>1 DEF TickStep, TickDies, TickReads, TickLeaves, RouteProceeds, RouteWaits,
           RouteStalled, RouteAsks, UnblockConfirmed, UnblockFails, UnblockRecorded,
           RetireReads, RetireUnreadable, ArchiveConfirmed, ArchiveUnconfirmed, Abandons,
           CreateConfirmed, CreateUncertain, TickAt
      <3> QED BY <3>1 DEF TickRelies
    <2>2. Abandons
      BY <1>2, <2>1 DEF TickStep, TickDies, TickReads, TickLeaves, RouteProceeds, RouteWaits,
           RouteStalled, RouteAsks, UnblockConfirmed, UnblockFails, UnblockRecorded,
           RetireReads, RetireUnreadable, ArchiveConfirmed, ArchiveUnconfirmed,
           CreateConfirmed, CreateUncertain
    <2>3. ListedCards = {} /\ ListedCards' = ListedCards
      BY <2>2 DEF Abandons, TickAt, TickRelies, ListedCards
    <2> QED BY <2>2, <2>3 DEF Abandons, Park, Unlock, IdleTick
  <1> QED BY <1>1, <1>2

-----------------------------------------------------------------------------
(* The invariant *)

(* A phase nobody has worked on satisfies the invariant.                   *)
LEMMA PhaseInitInv == PhaseInit => PhaseInv
  <1> SUFFICES ASSUME PhaseInit PROVE PhaseInv
    OBVIOUS
  <1>1. SupervisorInv
    BY InitInv DEF PhaseInit
  <1>2. IdleTick \in Ticks /\ NoWorker \in Workers
    BY BoundsAssumption DEF IdleTick, Ticks, CardStatus, NoWorker, Workers
  <1>3. PhaseTypeOK
    BY <1>2, CardTypes DEF PhaseInit, PhaseTypeOK
  <1>4. TickRelies
    <2>1. tick.pc = "idle" /\ wtLock # Tick
      BY TickAssumption DEF PhaseInit, Init, IdleTick
    <2> QED BY <2>1 DEF PhaseInit, IdleTick, TickRelies
  <1>5. NextCardMeansSettled /\ AbandonedLeavesNoCard
    BY DEF PhaseInit, NextCardMeansSettled, AbandonedLeavesNoCard, NoCard
  <1> QED BY <1>1, <1>3, <1>4, <1>5 DEF PhaseInv

(* The cards of later generations stay behind settled attempts, if new     *)
(* ones are only created there.                                            *)
LEMMA NextCardKept ==
  ASSUME PhaseInv, [Next]_vars \/ attempts' = attempts,
         \A g \in Generations \ {1} :
           card'[g].status # "none" => card[g].status # "none" \/ FollowsSettled(g)
  PROVE  NextCardMeansSettled'
  <1>1. ASSUME NEW g \in Generations \ {1}, card'[g].status # "none"
        PROVE  FollowsSettled(g)'
    <2>1. g \in Nat /\ g > 1
      BY BoundsAssumption DEF Generations
    <2>2. FollowsSettled(g)
      BY <1>1 DEF PhaseInv, NextCardMeansSettled, FollowsSettled, Settled
    <2> QED BY <2>1, <2>2, SettledStays DEF PhaseInv
  <1> QED BY <1>1 DEF NextCardMeansSettled, FollowsSettled, Settled

(* The tick's pass preserves the invariant.                                *)
LEMMA PassKeepsInv ==
  ASSUME PhaseInv, TickStep \/ TickDies
  PROVE  PhaseInv'
  <1>0. SupervisorInv /\ PhaseTypeOK /\ TickRelies
    BY DEF PhaseInv
  <1>1. SupervisorInv' /\ attempts' = attempts
    BY <1>0, PassInv
  <1>2. PhaseTypeOK'
    BY <1>0, PassType
  <1>3. (tick.next > 1 => FollowsSettled(tick.next))'
    <2>1. tick'.next > 1 => FollowsSettled(tick'.next)
      BY <1>0, PassKeepsHand
    <2> QED BY <1>1, <2>1 DEF FollowsSettled, Generation
  <1>4. TickRelies'
    BY <1>0, <1>3, PassHoldsLock, PassKeepsHand, PassCards DEF TickRelies
  <1>5. NextCardMeansSettled' /\ AbandonedLeavesNoCard'
    BY <1>0, <1>1, PassCards, NextCardKept DEF AbandonedLeavesNoCard
  <1> QED BY <1>1, <1>2, <1>4, <1>5 DEF PhaseInv

(* So do Hermes, the workers, the operator and the daemons.                *)
LEMMA OthersKeepInv ==
  ASSUME PhaseInv, OthersStep
  PROVE  PhaseInv'
  <1>0. SupervisorInv /\ PhaseTypeOK /\ TickRelies
    BY DEF PhaseInv
  <1>1. /\ [Next]_vars
        /\ wtLock' = Tick <=> wtLock = Tick
        /\ UNCHANGED <<tick, abandoned>>
    BY OthersSupervise
  <1>2. SupervisorInv'
    BY <1>0, <1>1, NextInv
  <1>3. PhaseTypeOK'
    BY <1>0, OthersType
  <1>4. tick.next > 1 => FollowsSettled(tick.next)'
    <2>1. tick.next \in Nat
      BY <1>0, BoundsAssumption DEF PhaseTypeOK, Ticks
    <2> QED BY <1>0, <1>1, <2>1, SettledStays DEF TickRelies
  <1>5. TickRelies'
    BY <1>0, <1>1, <1>4, OthersKeepBoard DEF TickRelies
  <1>6. NextCardMeansSettled' /\ AbandonedLeavesNoCard'
    BY <1>0, <1>1, OthersKeepBoard, NextCardKept DEF PhaseInv, AbandonedLeavesNoCard
  <1> QED BY <1>2, <1>3, <1>5, <1>6 DEF PhaseInv

(* Every step keeps the invariant.                                         *)
LEMMA PhaseNextInv == PhaseInv /\ [PhaseNext]_phaseVars => PhaseInv'
  <1> SUFFICES ASSUME PhaseInv, [PhaseNext]_phaseVars PROVE PhaseInv'
    OBVIOUS
  <1>1. CASE TickStep \/ TickDies
    BY <1>1, PassKeepsInv
  <1>2. CASE OthersStep
    BY <1>2, OthersKeepInv
  <1>3. CASE UNCHANGED phaseVars
    <2>1. SupervisorInv'
      BY <1>3, NextInv DEF phaseVars, PhaseInv
    <2>2. UNCHANGED <<attempts, wtLock, card, worker, tick, unblocked, parked, abandoned>>
      BY <1>3 DEF phaseVars, vars, boardVars
    <2>3. PhaseTypeOK' /\ NextCardMeansSettled' /\ AbandonedLeavesNoCard' /\ TickRelies'
      BY <2>2 DEF PhaseInv, PhaseTypeOK, NextCardMeansSettled, AbandonedLeavesNoCard,
                  TickRelies, ListedCards, FollowsSettled, Generation
    <2> QED BY <2>1, <2>3 DEF PhaseInv
  <1> QED BY <1>1, <1>2, <1>3 DEF PhaseNext, OthersStep

(* The invariant of the phase holds in every reachable state, for any      *)
(* number of generations, daemons, ticks that die and operators.           *)
THEOREM PhaseInvariantHolds == PhaseSpec => []PhaseInv
  <1> QED BY PhaseInitInv, PhaseNextInv, PTL DEF PhaseSpec

(* The invariant of the supervisor also holds where Hermes, the workers    *)
(* and the tick drive it.                                                  *)
THEOREM SupervisorHoldsInPhase == PhaseSpec => []SupervisorInv
  <1>1. PhaseInv => SupervisorInv
    BY DEF PhaseInv
  <1> QED BY <1>1, PhaseInvariantHolds, PTL

(* A card for a later generation is on the board only if the attempt       *)
(* before it is settled, however long ago the tick looked: route_recovery  *)
(* and _create_task under the worktree lock.                               *)
THEOREM NextCardFollowsSettled == PhaseSpec => []NextCardMeansSettled
  <1>1. PhaseInv => NextCardMeansSettled
    BY DEF PhaseInv
  <1> QED BY <1>1, PhaseInvariantHolds, PTL

(* An abandoned run has no card that could be started again, although      *)
(* archiving goes one command at a time and each of them can fail.         *)
THEOREM AbandonedIsCleared == PhaseSpec => []AbandonedLeavesNoCard
  <1>1. PhaseInv => AbandonedLeavesNoCard
    BY DEF PhaseInv
  <1> QED BY <1>1, PhaseInvariantHolds, PTL

(* The store implements its ledger also where the tick keeps the worktree  *)
(* lock over several commands and dies between them.                       *)
THEOREM PhaseImplementsLedger == PhaseSpec => LedgerSpec
  <1>1. PhaseInit => Ledger!Init
    BY LedgerInit DEF PhaseInit
  <1>2. PhaseInv /\ [PhaseNext]_phaseVars => [Ledger!Next]_LedgerOf
    <2> SUFFICES ASSUME PhaseInv, [PhaseNext]_phaseVars PROVE [Ledger!Next]_LedgerOf
      OBVIOUS
    <2>1. SupervisorInv /\ PhaseTypeOK /\ TickRelies
      BY DEF PhaseInv
    <2>2. CASE TickStep \/ TickDies
      BY <2>1, <2>2, PassInv, LedgerIdle
    <2>3. CASE OthersStep
      BY <2>1, <2>3, OthersSupervise, NextInLedger
    <2>4. CASE UNCHANGED phaseVars
      BY <2>4, LedgerIdle DEF phaseVars, vars
    <2> QED BY <2>2, <2>3, <2>4 DEF PhaseNext, OthersStep
  <1> QED BY <1>1, <1>2, PhaseInvariantHolds, PTL DEF PhaseSpec, LedgerSpec, Ledger!Spec, LedgerOf

-----------------------------------------------------------------------------
(* What recovery_invalidated says *)

(* Event ev of execution e was issued and admits nothing any more: no      *)
(* attempt has used it, nobody may consume it, and no daemon that consumed *)
(* it can still admit.                                                     *)
Dead(e, ev) ==
  /\ ev \in Events
  /\ ev.id <= nextEvent
  /\ ~EventUsed(e, ev)
  /\ intent[e].event = ev => intent[e].status \notin {"prepared", "approved"}
  /\ \A d \in Daemons : Exec(d) = e /\ daemon[d].event = ev =>
       daemon[d].pc \notin {"consumed", "authorized"}

(* What a step must not do to an event that is dead.                       *)
LEMMA DeadKept ==
  ASSUME nextEvent \in Nat, nextEvent' \in {nextEvent, nextEvent + 1},
         NEW e \in Executions, NEW ev, Dead(e, ev),
         EventUsed(e, ev)' => EventUsed(e, ev),
         intent'[e].event = ev /\ intent'[e].status \in {"prepared", "approved"} =>
           intent[e].event = ev /\ intent[e].status \in {"prepared", "approved"},
         \A d \in Daemons :
           Exec(d)' = e /\ daemon'[d].event = ev /\ daemon'[d].pc \in {"consumed", "authorized"} =>
             Exec(d) = e /\ daemon[d].event = ev /\ daemon[d].pc \in {"consumed", "authorized"}
  PROVE  Dead(e, ev)'
  <1>1. ev.id \in Nat
    BY DEF Dead, Events
  <1>2. ev.id <= nextEvent'
    BY <1>1 DEF Dead
  <1> QED BY <1>2 DEF Dead

(* Quiet steps revive no event.                                            *)
LEMMA QuietKeepsDead ==
  ASSUME TypeOK, QuietStep, NEW e \in Executions, NEW ev, Dead(e, ev)
  PROVE  Dead(e, ev)'
  <1>1. UNCHANGED <<intent, nextEvent>> /\ nextEvent \in Nat
    BY EventTypes DEF QuietStep
  <1>2. EventUsed(e, ev)' => EventUsed(e, ev)
    BY KeptReads DEF QuietStep
  <1>3. ASSUME NEW d \in Daemons, Exec(d)' = e, daemon'[d].event = ev,
               daemon'[d].pc \in {"consumed", "authorized"}
        PROVE  Exec(d) = e /\ daemon[d].event = ev /\ daemon[d].pc \in {"consumed", "authorized"}
    <2>1. daemon'[d] # Gone /\ DaemonKept(d)
      BY <1>3, NoEventIsNone DEF QuietStep
    <2> QED BY <1>3, <2>1 DEF DaemonKept, Exec
  <1> QED BY <1>1, <1>2, <1>3, DeadKept

(* Neither does a write of an intent: a new one carries a new event.       *)
LEMMA IntentKeepsDead ==
  ASSUME TypeOK, UNCHANGED <<attempts, daemon>>,
         NEW e \in Executions, NEW ev, Dead(e, ev), NEW f \in Executions,
         \/ \E approver, status, reissues : NewIntent(f, approver, status, reissues)
         \/ UNCHANGED nextEvent /\ intent[f].status = "prepared"
            /\ SetIntent(f, [intent[f] EXCEPT !.status = "approved"])
         \/ UNCHANGED nextEvent /\ Invalidate(f)
         \/ UNCHANGED <<intent, nextEvent>>
  PROVE  Dead(e, ev)'
  <1>1. nextEvent \in Nat /\ intent \in [Executions -> Intents] /\ ev.id \in Nat /\ ev.id <= nextEvent
    BY EventTypes DEF Dead, Events
  <1>2. nextEvent' \in {nextEvent, nextEvent + 1}
    BY DEF NewIntent
  <1>3. ASSUME intent'[e].event = ev, intent'[e].status \in {"prepared", "approved"}
        PROVE  intent[e].event = ev /\ intent[e].status \in {"prepared", "approved"}
    <2>1. CASE \E approver, status, reissues : NewIntent(f, approver, status, reissues)
      <3>1. f = e => intent'[e].event.id = nextEvent + 1
        BY <1>1, <2>1 DEF NewIntent, SetIntent
      <3>2. f # e => intent'[e] = intent[e]
        BY <1>1, <2>1 DEF NewIntent, SetIntent
      <3> QED BY <1>1, <1>3, <3>1, <3>2
    <2>2. CASE intent[f].status = "prepared" /\ SetIntent(f, [intent[f] EXCEPT !.status = "approved"])
      BY <1>1, <1>3, <2>2 DEF SetIntent, Intents
    <2>3. CASE Invalidate(f)
      BY <1>1, <1>3, <2>3 DEF Invalidate, SetIntent, Intents
    <2> QED BY <1>3, <2>1, <2>2, <2>3
  <1>4. EventUsed(e, ev)' => EventUsed(e, ev)
    BY DEF EventUsed
  <1> QED BY <1>1, <1>2, <1>3, <1>4, DeadKept DEF Exec

(* The tick's approval leaves dead events dead.                            *)
LEMMA ApprovalKeepsDead ==
  ASSUME TypeOK, NEW e \in Executions, NEW ev, Dead(e, ev), NEW f \in Executions, AutoApprove(f)
  PROVE  Dead(e, ev)'
  <1>1. UNCHANGED <<attempts, daemon>>
    BY DEF AutoApprove, storeVars
  <1>2. \/ NewIntent(f, "tick", "approved", Reissues(f))
        \/ UNCHANGED nextEvent /\ Invalidate(f)
    BY DEF AutoApprove
  <1> QED BY <1>1, <1>2, IntentKeepsDead

(* So do the requests: a daemon is spawned, it consumes later.             *)
LEMMA RequestKeepsDead ==
  ASSUME TypeOK, NEW e \in Executions, NEW ev, Dead(e, ev), NEW f \in Executions, Request(f)
  PROVE  Dead(e, ev)'
  <1>1. CASE Prepare(f)
    BY <1>1, IntentKeepsDead DEF Prepare, storeVars
  <1>2. CASE Approve(f)
    BY <1>2, IntentKeepsDead DEF Approve, storeVars
  <1>3. CASE AttachInvalidates(f)
    <2>1. UNCHANGED <<attempts, daemon, nextEvent>> /\ (Invalidate(f) \/ UNCHANGED intent)
      BY <1>3, EventTypes, InvalidateMoves DEF AttachInvalidates, storeVars
    <2> QED BY <2>1, IntentKeepsDead
  <1>4. ASSUME NEW d \in Daemons, NEW v, Spawn(f, d, v),
               UNCHANGED <<attempts, intent, nextEvent>>
        PROVE  Dead(e, ev)'
    <2>1. daemon'[d].pc = "spawned" /\ \A c \in Daemons : c # d => daemon'[c] = daemon[c]
      BY <1>4, EventTypes DEF Spawn, DaemonStates
    <2>2. \A c \in Daemons : daemon'[c].pc \in {"consumed", "authorized"} => daemon'[c] = daemon[c]
      BY <2>1
    <2>3. EventUsed(e, ev)' => EventUsed(e, ev)
      BY <1>4 DEF EventUsed
    <2> QED BY <1>4, <2>2, <2>3, EventTypes, DeadKept DEF Exec
  <1> QED BY <1>1, <1>2, <1>3, <1>4 DEF Request, AttachFresh, AttachRecovery, storeVars

(* So does admission, which needs an approval or an authorised daemon.     *)
LEMMA AdmissionKeepsDead ==
  ASSUME SupervisorInv, EventsInv, NEW e \in Executions, NEW ev, Dead(e, ev),
         NEW d \in Daemons, AdmissionStep(d)
  PROVE  Dead(e, ev)'
  <1>0. TypeOK /\ Exec(d) \in Executions /\ daemon \in [Daemons -> DaemonStates]
    BY EventTypes DEF SupervisorInv
  <1>1. CASE TakeWorktree(d) \/ AdmissionTimesOut(d) \/ Refuse(d)
    BY <1>0, <1>1, WaitQuiet, QuietKeepsDead
  <1>2. ASSUME NEW pc, Goto(d, pc)
        PROVE  /\ Exec(d)' = Exec(d) /\ daemon'[d].event = daemon[d].event
               /\ \A c \in Daemons : c # d => daemon'[c] = daemon[c]
    BY <1>0, <1>2 DEF Goto, DaemonStates, Exec
  <1>3. CASE Consume(d)
    <2>1. /\ UNCHANGED <<attempts, nextEvent>> /\ Goto(d, "consumed")
          /\ intent' = [intent EXCEPT ![Exec(d)] = [intent[Exec(d)] EXCEPT !.status = "consumed"]]
      BY <1>3 DEF Consume, SetIntent, storeVars
    <2>2. intent[Exec(d)].status = "approved" /\ intent[Exec(d)].event = daemon[d].event
      BY <1>3 DEF Consume, ApprovedFor
    <2>3. ~(Exec(d) = e /\ daemon[d].event = ev)
      BY <2>2 DEF Dead
    <2>4. EventUsed(e, ev)' => EventUsed(e, ev)
      BY <2>1 DEF EventUsed
    <2>5. intent'[e] = intent[e] \/ intent'[e].status = "consumed"
      BY <1>0, <2>1, EventTypes DEF Intents
    <2>6. ASSUME NEW c \in Daemons, Exec(c)' = e, daemon'[c].event = ev PROVE daemon'[c] = daemon[c]
      BY <1>2, <2>1, <2>3, <2>6
    <2>7. intent'[e].event = ev /\ intent'[e].status \in {"prepared", "approved"} =>
            intent[e].event = ev /\ intent[e].status \in {"prepared", "approved"}
      BY <2>5
    <2>8. \A c \in Daemons :
            Exec(c)' = e /\ daemon'[c].event = ev /\ daemon'[c].pc \in {"consumed", "authorized"} =>
              Exec(c) = e /\ daemon[c].event = ev /\ daemon[c].pc \in {"consumed", "authorized"}
      BY <2>6 DEF Exec
    <2>9. nextEvent \in Nat /\ nextEvent' = nextEvent
      BY <1>0, <2>1, EventTypes
    <2> QED BY <2>4, <2>7, <2>8, <2>9, DeadKept
  <1>4. CASE ConsumeInvalidates(d)
    <2>1. UNCHANGED <<attempts, nextEvent>> /\ Exit(d)
          /\ (intent' = intent \/ Invalidate(Exec(d)))
      BY <1>0, <1>4, EventTypes, InvalidateMoves DEF ConsumeInvalidates, storeVars
    <2>2. EventUsed(e, ev)' => EventUsed(e, ev)
      BY <2>1 DEF EventUsed
    <2>3. intent'[e] = intent[e] \/ intent'[e].status = "invalidated"
      BY <1>0, <2>1, EventTypes DEF Invalidate, SetIntent, Intents
    <2>4. \A c \in Daemons : daemon'[c] = daemon[c] \/ daemon'[c] = Gone
      BY <1>0, <2>1 DEF Exit
    <2> QED BY <1>0, <2>1, <2>2, <2>3, <2>4, NoEventIsNone, EventTypes, DeadKept DEF Exec
  <1>5. CASE Authorize(d)
    <2>1. UNCHANGED <<attempts, intent, nextEvent>> /\ Goto(d, "authorized") /\ daemon[d].pc = "consumed"
      BY <1>5 DEF Authorize, AuthorizeRetry, At
    <2>2. EventUsed(e, ev)' => EventUsed(e, ev)
      BY <2>1 DEF EventUsed
    <2>3. ASSUME NEW c \in Daemons, Exec(c)' = e, daemon'[c].event = ev,
                 daemon'[c].pc \in {"consumed", "authorized"}
          PROVE  Exec(c) = e /\ daemon[c].event = ev /\ daemon[c].pc \in {"consumed", "authorized"}
      BY <1>2, <2>1, <2>3 DEF Exec
    <2> QED BY <1>0, <2>1, <2>2, <2>3, EventTypes, DeadKept
  <1>6. CASE Admit(d)
    <2>1. /\ UNCHANGED <<intent, nextEvent>> /\ Goto(d, "admitted")
          /\ AdmitAttempt(Exec(d), daemon[d].event) /\ daemon[d].pc = AdmitFrom(d)
      BY <1>6 DEF Admit, At
    <2>2. ~(Exec(d) = e /\ daemon[d].event = ev)
      BY <2>1, NoEventIsNone DEF Dead, AdmitFrom
    <2>3. EventUsed(e, ev)' => EventUsed(e, ev)
      <3>1. CASE Exec(d) # e
        <4>1. attempts'[e] = attempts[e]
          BY <1>0, <2>1, <3>1, AdmitEffect, EventTypes
        <4> QED BY <4>1 DEF EventUsed
      <3>2. CASE Exec(d) = e
        <4>0. PICK v : v = daemon[d].event
          OBVIOUS
        <4>1. /\ Len(attempts'[e]) = Len(attempts[e]) + 1 /\ Len(attempts[e]) \in Nat
              /\ Last(e)' = FreshAttempt(v)
              /\ \A i \in 1..Len(attempts[e]) : attempts'[e][i] = attempts[e][i]
          BY <1>0, <2>1, <3>2, <4>0, AdmitEffect, EventTypes
        <4>2. attempts'[e][Len(attempts[e]) + 1].event = v /\ v # ev
          BY <2>2, <3>2, <4>0, <4>1 DEF Last, FreshAttempt
        <4>3. ASSUME NEW i \in 1..Len(attempts'[e]), attempts'[e][i].event = ev
              PROVE  i \in 1..Len(attempts[e]) /\ attempts[e][i].event = ev
          BY <4>1, <4>2, <4>3
        <4> QED BY <4>3 DEF EventUsed
      <3> QED BY <3>1, <3>2
    <2>4. ASSUME NEW c \in Daemons, daemon'[c].pc \in {"consumed", "authorized"}
          PROVE  daemon'[c] = daemon[c]
      BY <1>0, <2>1, <2>4 DEF Goto, DaemonStates
    <2> QED BY <1>0, <2>1, <2>3, <2>4, EventTypes, DeadKept DEF Exec
  <1> QED BY <1>1, <1>3, <1>4, <1>5, <1>6 DEF AdmissionStep

(* An event that is dead admits nothing, then or later.                    *)
LEMMA DeadStays ==
  ASSUME SupervisorInv, EventsInv, [Next]_vars, NEW e \in Executions, NEW ev, Dead(e, ev)
  PROVE  Dead(e, ev)'
  <1>1. TypeOK
    BY DEF SupervisorInv
  <1>2. ASSUME NEW d \in Daemons, DaemonStep(d) PROVE Dead(e, ev)'
    BY <1>1, <1>2, AdmissionKeepsDead, ClientQuiet, CollectQuiet, QuietKeepsDead DEF DaemonStep
  <1>3. ASSUME NEW f \in Executions, Request(f) \/ TickApproves(f) PROVE Dead(e, ev)'
    BY <1>1, <1>3, RequestKeepsDead, ApprovalKeepsDead DEF TickApproves
  <1>4. ASSUME NEW f \in Executions, Recover(f) PROVE Dead(e, ev)'
    BY <1>1, <1>4, RecoverQuiet, QuietKeepsDead
  <1>5. ASSUME Environment PROVE Dead(e, ev)'
    BY <1>1, <1>5, EnvironmentQuiet, QuietKeepsDead
  <1>6. CASE UNCHANGED vars
    BY <1>1, <1>6, UnchangedKeeps, QuietKeepsDead DEF vars, QuietStep, DaemonKept
  <1> QED BY <1>2, <1>3, <1>4, <1>5, <1>6 DEF Next

(* In the phase too, events are spent once.                                *)
LEMMA PassEvents ==
  ASSUME SupervisorInv, PhaseTypeOK, TickRelies, EventsInv, TickStep \/ TickDies
  PROVE  EventsInv' /\ \A ev : Dead(Phase, ev) => Dead(Phase, ev)'
  <1>1. TypeOK
    BY DEF SupervisorInv
  <1>2. CASE UNCHANGED <<attempts, approval, intent, nextEvent, daemon>>
    <2>1. QuietStep
      BY <1>2, UnchangedKeeps DEF QuietStep, DaemonKept
    <2> QED BY <1>1, <2>1, PhaseAssumption, QuietKeepsEvents, QuietKeepsDead
  <1>3. CASE AutoApprove(Phase) /\ RouteAsks
    <2>1. wtLock \notin Daemons
      BY <1>3, TickAssumption DEF RouteAsks, TickAt, TickRelies
    <2> QED BY <1>1, <1>3, <2>1, PhaseAssumption, ApprovalEvents, ApprovalKeepsDead
  <1>4. ASSUME ~RouteAsks PROVE UNCHANGED <<attempts, approval, intent, nextEvent, daemon>>
    BY <1>4 DEF TickStep, TickDies, TickReads, TickLeaves, RouteProceeds, RouteWaits,
         RouteStalled, UnblockConfirmed, UnblockFails, UnblockRecorded, RetireReads,
         RetireUnreadable, ArchiveConfirmed, ArchiveUnconfirmed, Abandons,
         CreateConfirmed, CreateUncertain, superVars, storeVars
  <1>5. CASE RouteAsks
    BY <1>2, <1>3, <1>5 DEF RouteAsks, Asks, vars
  <1> QED BY <1>2, <1>4, <1>5

(* A worker that waits for a resumed attempt knows the event the tick      *)
(* issued against the generation before, and one that reports              *)
(* recovery_invalidated speaks of an event that is dead.                   *)
WorkerFits(g) ==
  /\ worker[g].pc = "wait" /\ worker[g].expected > 0 =>
       /\ worker[g].event \in Events
       /\ worker[g].event.id <= nextEvent
       /\ worker[g].event.by = "tick"
       /\ worker[g].event.after = worker[g].expected - 1
  /\ worker[g].report = "invalidated" => Dead(Phase, worker[g].event)

(* What the workers know stays true, whoever moves.                        *)
LEMMA WorkerFitsStays ==
  ASSUME TypeOK, NEW g \in Generations, WorkerFits(g), worker'[g] = worker[g],
         nextEvent' \in {nextEvent, nextEvent + 1},
         \A ev : Dead(Phase, ev) => Dead(Phase, ev)'
  PROVE  WorkerFits(g)'
  <1>1. nextEvent \in Nat /\ \A ev \in Events : ev.id \in Nat
    BY EventTypes DEF Events
  <1>2. PICK w : w = worker[g] /\ w = worker'[g]
    OBVIOUS
  <1>3. w.report = "invalidated" => Dead(Phase, w.event)'
    BY <1>2 DEF WorkerFits
  <1>4. w.pc = "wait" /\ w.expected > 0 =>
          /\ w.event \in Events /\ w.event.id <= nextEvent'
          /\ w.event.by = "tick" /\ w.event.after = w.expected - 1
    BY <1>1, <1>2 DEF WorkerFits
  <1> QED BY <1>2, <1>3, <1>4 DEF WorkerFits

(* The counter of events only grows, by one at a time.                     *)
LEMMA EventsCounted ==
  ASSUME [Next]_vars
  PROVE  nextEvent' \in {nextEvent, nextEvent + 1}
  <1>1. ASSUME NEW d \in Daemons, AdmissionStep(d) PROVE nextEvent' = nextEvent
    BY <1>1 DEF AdmissionStep, TakeWorktree, AdmissionTimesOut, Refuse, Consume,
                ConsumeInvalidates, Authorize, Admit
  <1>2. ASSUME NEW d \in Daemons, ClientStep(d) PROVE nextEvent' = nextEvent
    BY <1>2 DEF ClientStep, RecordSupervisor, LaunchFails, Launch, RecordLaunch,
                OwnershipLost, ObserveExit, ExitObserved
  <1>3. ASSUME NEW d \in Daemons, CollectStep(d) PROVE nextEvent' = nextEvent
    BY <1>3 DEF CollectStep, MarkCheck, DoubtCleanup, CheckNotLaunched, LaunchCheck,
                RecordCheck, ClearMarker, RecordCheckExit, SettleCheck, CheckLost, Promote,
                FinishCollection
  <1>4. ASSUME NEW e \in Executions, Request(e) \/ TickApproves(e)
        PROVE  nextEvent' \in {nextEvent, nextEvent + 1}
    BY <1>4 DEF Request, TickApproves, AutoApprove, Prepare, Approve, AttachInvalidates,
                AttachFresh, AttachRecovery, NewIntent
  <1>5. ASSUME NEW e \in Executions, Recover(e) PROVE nextEvent' = nextEvent
    BY <1>5 DEF Recover, RecoverConfirmed, RecoverUnconfirmed
  <1>6. ASSUME Environment PROVE nextEvent' = nextEvent
    BY <1>6 DEF Environment, Edit, Reboot, DaemonDies, ProcessEnds
  <1>7. CASE UNCHANGED vars
    BY <1>7 DEF vars
  <1> QED BY <1>1, <1>2, <1>3, <1>4, <1>5, <1>6, <1>7 DEF Next, DaemonStep

(* The worker's poll finds an approval of the tick that is spent: the lock *)
(* of its execution is free, so nobody is about to admit with it.          *)
LEMMA PollIsRight ==
  ASSUME SupervisorInv, EventsInv, PhaseTypeOK, NEW g \in Generations, WorkerFits(g),
         WorkerSeesInvalidated(g)
  PROVE  Dead(Phase, worker[g].event)
  <1> DEFINE ev == worker[g].event
             n  == worker[g].expected
  <1>1. /\ Generation(Phase) < n /\ ExecutionLockFree /\ ~ApprovalOpen(n - 1)
        /\ worker[g].pc = "wait"
    BY DEF WorkerSeesInvalidated, AwaitsAdmission
  <1>2. /\ n \in Nat /\ Generation(Phase) \in Nat /\ Phase \in Executions
        /\ Generation(Phase) = Len(attempts[Phase])
    BY PhaseAssumption, EventTypes DEF PhaseTypeOK, Workers, SupervisorInv, Generation
  <1>3. /\ ev \in Events /\ ev.id <= nextEvent /\ ev.by = "tick" /\ ev.after = n - 1
    BY <1>1, <1>2 DEF WorkerFits
  <1> HIDE DEF ev, n
  <1>4. IntentFits(Phase) /\ AttemptsFit(Phase)
    BY <1>2 DEF EventsInv
  <1>5. ASSUME NEW i \in 1..Len(attempts[Phase]), attempts[Phase][i].event = ev
        PROVE  FALSE
    <2>1. CASE i = 1
      BY <1>3, <1>4, <1>5, <2>1, NoEventIsNone DEF AttemptsFit
    <2>2. CASE i # 1
      <3>1. i \in 2..Len(attempts[Phase])
        BY <1>2, <2>2
      <3>2. ev.after = i - 1
        BY <1>4, <1>5, <3>1 DEF AttemptsFit
      <3> QED BY <1>1, <1>2, <1>3, <3>1, <3>2
    <2> QED BY <2>1, <2>2
  <1>6. ASSUME intent[Phase].event = ev, intent[Phase].status \in {"prepared", "approved"}
        PROVE  FALSE
    <2>1. intent[Phase].generation = n - 1 /\ intent[Phase].status # "prepared"
      BY <1>3, <1>4, <1>6 DEF IntentFits
    <2> QED BY <1>1, <1>6, <2>1 DEF ApprovalOpen
  <1>7. ASSUME NEW d \in Daemons, Exec(d) = Phase, daemon[d].pc \in {"consumed", "authorized"}
        PROVE  FALSE
    <2>1. wtLock = d
      BY <1>7 DEF SupervisorInv, DaemonRelies, Holding, AliveSteps, Steps, PreAdmission
    <2> QED BY <1>1, <1>7, <2>1 DEF ExecutionLockFree
  <1>8. Dead(Phase, ev)
    BY <1>3, <1>5, <1>6, <1>7 DEF Dead, EventUsed
  <1> QED BY <1>8 DEF ev

(* So is the worker that finds the worktree changed under the approval:    *)
(* it has invalidated it itself.                                           *)
LEMMA AttachIsRight ==
  ASSUME SupervisorInv, EventsInv, NEW g \in Generations, AttachFindsChange(g)
  PROVE  \A ev : ev = intent[Phase].event => Dead(Phase, ev)'
  <1> SUFFICES ASSUME NEW ev, ev = intent[Phase].event PROVE Dead(Phase, ev)'
    OBVIOUS
  <1>1. Phase \in Executions /\ TypeOK /\ intent \in [Executions -> Intents]
    BY PhaseAssumption, EventTypes DEF SupervisorInv
  <1>2. /\ wtLock = NoDaemon /\ PendingAutoRecovery(Phase)
        /\ InvalidateRecovery(Phase, ev)
        /\ UNCHANGED <<attempts, nextEvent, daemon>>
    BY DEF AttachFindsChange, AttachInvalidates, storeVars
  <1>3. Invalidate(Phase) /\ ~EventUsed(Phase, ev)
    BY <1>2 DEF PendingAutoRecovery, InvalidateRecovery, ApprovedFor
  <1>4. ev \in Events
    BY <1>1, <1>2 DEF PendingAutoRecovery, EventsInv, IntentFits
  <1>5. ev.id <= nextEvent
    <2>1. Held(Phase, ev)
      BY DEF Held
    <2> QED BY <1>1, <1>4, <2>1 DEF EventsInv, HeldOnce
  <1>6. \A d \in Daemons : daemon[d].pc \notin {"consumed", "authorized"}
    BY <1>2, NoDaemonAssumption, ConsumersHold
  <1>7. intent'[Phase].event = ev /\ intent'[Phase].status = "invalidated"
    BY <1>1, <1>3 DEF Invalidate, SetIntent, Intents
  <1>8. ~EventUsed(Phase, ev)'
    BY <1>2, <1>3 DEF EventUsed
  <1> QED BY <1>2, <1>4, <1>5, <1>6, <1>7, <1>8 DEF Dead

(* What a worker's step does to what it knows.                             *)
LEMMA WorkerMoves ==
  ASSUME PhaseTypeOK, NEW h \in Generations, WorkerStep(h)
  PROVE  /\ \A g \in Generations : g # h => worker'[g] = worker[g]
         /\ \/ worker'[h].report # "invalidated"
            \/ WorkerSeesInvalidated(h) /\ worker'[h].event = worker[h].event
            \/ AttachFindsChange(h) /\ worker'[h].event = intent[Phase].event
         /\ \/ worker'[h].pc # "wait" \/ worker'[h].expected = 0
            \/ /\ PendingAutoRecovery(Phase)
               /\ worker'[h].expected = Generation(Phase) + 1
               /\ worker'[h].event = intent[Phase].event
  <1>0. worker \in [Generations -> Workers]
    BY DEF PhaseTypeOK
  <1>1. NoWorker.report = "none" /\ NoWorker.pc = "none"
        /\ [NoWorker EXCEPT !.pc = "attach"].report = "none"
        /\ [NoWorker EXCEPT !.pc = "attach"].pc = "attach"
    BY DEF NoWorker
  <1>2. ASSUME NEW pc, NEW expected, NEW event, NEW report, Settings(h, pc, expected, event, report)
        PROVE  /\ worker'[h].pc = pc /\ worker'[h].expected = expected
               /\ worker'[h].event = event /\ worker'[h].report = report
               /\ \A g \in Generations : g # h => worker'[g] = worker[g]
    BY <1>0, <1>2 DEF Settings
  <1>3. CASE \E d \in Daemons : AttachStarts(h, d)
    BY <1>2, <1>3 DEF AttachStarts, Waits
  <1>4. CASE \E d \in Daemons : AttachResumes(h, d)
    <2>1. PendingAutoRecovery(Phase) /\ Waits(h, Generation(Phase) + 1, intent[Phase].event)
      BY <1>4 DEF AttachResumes
    <2> QED BY <1>2, <2>1 DEF Waits
  <1>5. CASE AttachJoins(h)
    BY <1>2, <1>5 DEF AttachJoins, Waits
  <1>6. CASE AttachFindsChange(h)
    <2>1. Settings(h, "report", 0, intent[Phase].event, "invalidated")
      BY <1>6 DEF AttachFindsChange
    <2> QED BY <1>2, <1>6, <2>1
  <1>7. CASE AttachReports(h) \/ AttachFails(h) \/ WorkerSeesOutcome(h) \/ WorkerSeesStall(h)
    <2>1. \E r \in {"failed", "completed", "stalled"} : Reports(h, r)
      BY <1>7 DEF AttachReports, AttachFails, WorkerSeesOutcome, WorkerSeesStall, OutcomeReports
    <2> QED BY <1>2, <2>1 DEF Reports
  <1>8. CASE WorkerSeesInvalidated(h)
    <2>1. Reports(h, "invalidated")
      BY <1>8 DEF WorkerSeesInvalidated
    <2> QED BY <1>2, <1>8, <2>1 DEF Reports
  <1>9. CASE WorkerReconnects(h) \/ WorkerReports(h) \/ WorkerGivesUp(h)
    BY <1>0, <1>1, <1>9 DEF WorkerReconnects, WorkerReports, WorkerGivesUp
  <1> QED BY <1>3, <1>4, <1>5, <1>6, <1>7, <1>8, <1>9 DEF WorkerStep

(* Hermes starts a worker that knows nothing yet.                          *)
LEMMA OthersKeepWorkers ==
  ASSUME SupervisorInv, PhaseTypeOK, EventsInv, OthersStep,
         \A g \in Generations : WorkerFits(g)
  PROVE  \A g \in Generations : WorkerFits(g)'
  <1>1. [Next]_vars /\ TypeOK
    BY OthersSupervise DEF SupervisorInv
  <1>2. /\ nextEvent' \in {nextEvent, nextEvent + 1}
        /\ \A ev : Dead(Phase, ev) => Dead(Phase, ev)'
    BY <1>1, EventsCounted, DeadStays, PhaseAssumption
  <1>3. ASSUME NEW g \in Generations, worker'[g] = worker[g] PROVE WorkerFits(g)'
    BY <1>1, <1>2, <1>3, WorkerFitsStays
  <1>4. CASE SupervisorStep \/ OperatorRecovers \/ \E h \in Generations : OperatorUnblocks(h)
    BY <1>3, <1>4 DEF SupervisorStep, OperatorRecovers, OperatorUnblocks, boardVars
  <1>5. ASSUME NEW h \in Generations, Dispatch(h), NEW g \in Generations
        PROVE  WorkerFits(g)'
    <2>1. worker' = [worker EXCEPT ![h] = [NoWorker EXCEPT !.pc = "attach"]]
      BY <1>5 DEF Dispatch
    <2>2. CASE g # h
      BY <1>3, <2>1, <2>2 DEF PhaseTypeOK
    <2>3. CASE g = h
      <3>1. worker'[g].pc = "attach" /\ worker'[g].report = "none"
        BY <2>1, <2>3 DEF PhaseTypeOK, NoWorker
      <3> QED BY <3>1 DEF WorkerFits
    <2> QED BY <2>2, <2>3
  <1>6. ASSUME NEW h \in Generations, WorkerStep(h), NEW g \in Generations
        PROVE  WorkerFits(g)'
    <2>1. CASE g # h
      BY <1>3, <1>6, <2>1, WorkerMoves
    <2>2. CASE g = h
      <3>1. PICK w : w = worker'[g]
        OBVIOUS
      <3>2. w.report = "invalidated" => Dead(Phase, w.event)'
        <4>1. CASE WorkerSeesInvalidated(g) /\ w.event = worker[g].event
          BY <1>2, <4>1, PollIsRight
        <4>2. CASE AttachFindsChange(g) /\ w.event = intent[Phase].event
          BY <4>2, AttachIsRight
        <4> QED BY <1>6, <2>2, <3>1, <4>1, <4>2, WorkerMoves
      <3>3. w.pc = "wait" /\ w.expected > 0 =>
              /\ w.event \in Events /\ w.event.id <= nextEvent'
              /\ w.event.by = "tick" /\ w.event.after = w.expected - 1
        <4> SUFFICES ASSUME w.pc = "wait", w.expected > 0
                     PROVE  /\ w.event \in Events /\ w.event.id <= nextEvent'
                            /\ w.event.by = "tick" /\ w.event.after = w.expected - 1
          OBVIOUS
        <4>1. /\ PendingAutoRecovery(Phase)
              /\ w.expected = Generation(Phase) + 1
              /\ w.event = intent[Phase].event
          BY <1>6, <2>2, <3>1, WorkerMoves
        <4>2. /\ Phase \in Executions /\ Generation(Phase) \in Nat /\ nextEvent \in Nat
          BY <1>1, PhaseAssumption, EventTypes
        <4>3. /\ w.event \in Events /\ w.event.by = "tick" /\ w.event.after = Generation(Phase)
          BY <4>1, <4>2 DEF PendingAutoRecovery, EventsInv, IntentFits
        <4>4. w.event.id <= nextEvent /\ w.event.id \in Nat
          <5>1. Held(Phase, w.event)
            BY <4>1 DEF Held
          <5> QED BY <4>2, <4>3, <5>1 DEF EventsInv, HeldOnce, Events
        <4> QED BY <1>2, <4>1, <4>2, <4>3, <4>4
      <3> QED BY <3>1, <3>2, <3>3 DEF WorkerFits
    <2> QED BY <2>1, <2>2
  <1> QED BY <1>4, <1>5, <1>6 DEF OthersStep

-----------------------------------------------------------------------------
(* What a pass archives is not completed *)

(* While the tick holds the worktree lock no attempt is written.           *)
LEMMA LockFreezes ==
  ASSUME SupervisorInv, [Next]_vars, wtLock = Tick
  PROVE  attempts' = attempts
  <1>0. /\ Tick \notin Daemons /\ Tick # NoDaemon
        /\ \A d \in Daemons : daemon[d].pc \notin Holding
    BY TickAssumption DEF SupervisorInv, DaemonRelies
  <1>1. ASSUME NEW d \in Daemons, DaemonStep(d) PROVE attempts' = attempts
    <2>1. daemon[d].pc \notin Owning \cup {"locked", "consumed", "authorized"}
      BY <1>0, OwnersHold DEF Holding, AliveSteps, Steps, PreAdmission
    <2>2. CASE AdmissionStep(d)
      BY <2>1, <2>2 DEF AdmissionStep, TakeWorktree, AdmissionTimesOut, Consume,
           ConsumeInvalidates, Refuse, Authorize, Admit, AdmitFrom, At, storeVars
    <2>3. ~ClientStep(d)
      BY <2>1 DEF ClientStep, RecordSupervisor, LaunchFails, Launch, RecordLaunch,
           OwnershipLost, ObserveExit, ExitObserved, At, Owning, ClientSteps
    <2>4. ~CollectStep(d)
      <3>1. daemon[d].pc \notin CheckSteps \cup {"collecting", "promoted", "check_failed"}
        BY <2>1 DEF Owning, CollectSteps
      <3>2. ~(MarkCheck(d) \/ DoubtCleanup(d) \/ CheckNotLaunched(d) \/ LaunchCheck(d) \/ Promote(d))
        BY <3>1 DEF MarkCheck, Collecting, DoubtCleanup, CheckNotLaunched, LaunchCheck, Promote, At, CheckSteps
      <3>3. ~(RecordCheck(d) \/ ClearMarker(d) \/ RecordCheckExit(d) \/ SettleCheck(d))
        BY <3>1 DEF RecordCheck, ClearMarker, RecordCheckExit, SettleCheck, At, CheckSteps
      <3>4. ~(CheckLost(d) \/ FinishCollection(d))
        BY <3>1 DEF CheckLost, FinishCollection, CheckSteps
      <3> QED BY <3>2, <3>3, <3>4 DEF CollectStep
    <2> QED BY <1>1, <2>2, <2>3, <2>4 DEF DaemonStep
  <1>2. ASSUME NEW e \in Executions, Request(e) \/ TickApproves(e) \/ Recover(e)
        PROVE  attempts' = attempts
    BY <1>0, <1>2 DEF Request, Prepare, Approve, AttachInvalidates, AttachFresh,
         AttachRecovery, TickApproves, Recover, RecoverConfirmed, RecoverUnconfirmed, Recoverable
  <1>3. CASE Environment
    BY <1>3 DEF Environment, Edit, Reboot, DaemonDies, ProcessEnds, storeVars
  <1>4. CASE UNCHANGED vars
    BY <1>4 DEF vars
  <1> QED BY <1>1, <1>2, <1>3, <1>4 DEF Next

(* A pass that archives does so for an attempt that is to be resumed or    *)
(* was refused, from its verdict to its last command.                      *)
PassResumes ==
  tick.pc \in {"retire", "archive"} =>
    attempts[Phase] # << >> /\ Resumable(Last(Phase))

LEMMA PassKeepsResuming ==
  ASSUME SupervisorInv, PhaseTypeOK, TickRelies, PassResumes, TickStep \/ TickDies
  PROVE  PassResumes'
  <1>0. tick \in Ticks /\ attempts' = attempts
    BY PassInv DEF PhaseTypeOK
  <1>1. attempts[Phase] # << >> /\ Resumable(Last(Phase)) => PassResumes'
    BY <1>0 DEF PassResumes, Last, Resumable, Settled
  <1>2. tick'.pc \notin {"retire", "archive"} => PassResumes'
    BY DEF PassResumes
  <1>3. Unlock \/ Park => PassResumes'
    BY <1>2 DEF Unlock, Park, IdleTick
  <1>4. ASSUME NEW pc, pc \notin {"retire", "archive"}, TickTo(pc) PROVE PassResumes'
    BY <1>0, <1>2, <1>4 DEF TickTo, Ticks
  <1>5. CASE TickReads
    <2>1. tick'.pc = "route"
      BY <1>5 DEF TickReads, IdleTick
    <2> QED BY <1>2, <2>1
  <1>6. CASE RouteProceeds
    <2>1. Unlock \/ tick' = [tick EXCEPT !.pc = "create", !.next = 1]
      BY <1>6 DEF RouteProceeds
    <2> QED BY <1>0, <1>2, <1>3, <2>1 DEF Ticks
  <1>7. CASE RouteWaits \/ RouteStalled
    BY <1>3, <1>4, <1>7 DEF RouteWaits, RouteStalled
  <1>8. CASE RouteAsks
    BY <1>1, <1>8 DEF RouteAsks
  <1>9. CASE UnblockConfirmed \/ UnblockFails \/ UnblockRecorded \/ TickLeaves
    BY <1>3, <1>4, <1>9 DEF UnblockConfirmed, UnblockFails, UnblockRecorded, TickLeaves
  <1>10. CASE RetireReads \/ RetireUnreadable
    BY <1>1, <1>10 DEF RetireReads, RetireUnreadable, TickAt, PassResumes
  <1>11. CASE \E g \in Generations : ArchiveConfirmed(g) \/ ArchiveUnconfirmed(g)
    BY <1>1, <1>11 DEF ArchiveConfirmed, ArchiveUnconfirmed, TickAt, PassResumes
  <1>12. CASE Abandons \/ CreateConfirmed \/ CreateUncertain
    BY <1>3, <1>12 DEF Abandons, CreateConfirmed, CreateUncertain
  <1>13. CASE TickDies
    BY <1>2, <1>13 DEF TickDies, IdleTick
  <1> QED BY <1>5, <1>6, <1>7, <1>8, <1>9, <1>10, <1>11, <1>12, <1>13 DEF TickStep

-----------------------------------------------------------------------------
(* What the workers report and what a pass archives *)

ReportInv ==
  /\ EventsInv
  /\ \A g \in Generations : WorkerFits(g)
  /\ PassResumes

(* The workers' knowledge and the pass's verdict are inductive, with the   *)
(* invariant of the phase.                                                 *)
LEMMA ReportNext == PhaseInv /\ ReportInv /\ [PhaseNext]_phaseVars => ReportInv'
  <1> SUFFICES ASSUME PhaseInv, ReportInv, [PhaseNext]_phaseVars PROVE ReportInv'
    OBVIOUS
  <1>0. SupervisorInv /\ PhaseTypeOK /\ TickRelies /\ TypeOK
    BY DEF PhaseInv, SupervisorInv
  <1>1. CASE TickStep \/ TickDies
    <2>1. EventsInv' /\ \A ev : Dead(Phase, ev) => Dead(Phase, ev)'
      BY <1>0, <1>1, PassEvents DEF ReportInv
    <2>2. worker' = worker
      BY <1>1 DEF TickStep, TickDies, TickReads, TickLeaves, RouteProceeds, RouteWaits,
           RouteStalled, RouteAsks, UnblockConfirmed, UnblockFails, UnblockRecorded,
           RetireReads, RetireUnreadable, ArchiveConfirmed, ArchiveUnconfirmed, Abandons,
           CreateConfirmed, CreateUncertain
    <2>3. nextEvent' \in {nextEvent, nextEvent + 1}
      <3>1. CASE RouteAsks
        BY <3>1 DEF RouteAsks, Asks, AutoApprove, NewIntent, vars
      <3>2. CASE ~RouteAsks
        BY <1>1, <3>2 DEF TickStep, TickDies, TickReads, TickLeaves, RouteProceeds, RouteWaits,
             RouteStalled, UnblockConfirmed, UnblockFails, UnblockRecorded,
             RetireReads, RetireUnreadable, ArchiveConfirmed, ArchiveUnconfirmed, Abandons,
             CreateConfirmed, CreateUncertain, superVars
      <3> QED BY <3>1, <3>2
    <2>4. \A g \in Generations : WorkerFits(g)'
      BY <1>0, <2>1, <2>2, <2>3, WorkerFitsStays DEF ReportInv
    <2> QED BY <1>0, <1>1, <2>1, <2>4, PassKeepsResuming DEF ReportInv
  <1>2. CASE OthersStep
    <2>1. [Next]_vars /\ tick' = tick
      BY <1>2, OthersSupervise
    <2>2. EventsInv'
      BY <1>0, <2>1, NextEvents DEF ReportInv
    <2>3. \A g \in Generations : WorkerFits(g)'
      BY <1>0, <1>2, OthersKeepWorkers DEF ReportInv
    <2>4. PassResumes'
      <3>1. CASE tick.pc \in {"retire", "archive"}
        <4>1. attempts' = attempts
          BY <1>0, <2>1, <3>1, LockFreezes DEF TickRelies
        <4> QED BY <2>1, <4>1 DEF ReportInv, PassResumes, Last, Resumable, Settled
      <3>2. CASE tick.pc \notin {"retire", "archive"}
        BY <2>1, <3>2 DEF PassResumes
      <3> QED BY <3>1, <3>2
    <2> QED BY <2>2, <2>3, <2>4 DEF ReportInv
  <1>3. CASE UNCHANGED phaseVars
    <2>1. [Next]_vars /\ UNCHANGED <<tick, worker, attempts>>
      BY <1>3 DEF phaseVars, boardVars, vars
    <2>2. EventsInv'
      BY <1>0, <2>1, NextEvents DEF ReportInv
    <2>3. \A ev : Dead(Phase, ev) => Dead(Phase, ev)'
      BY <1>0, <2>1, PhaseAssumption, DeadStays DEF ReportInv
    <2>4. \A g \in Generations : WorkerFits(g)'
      BY <1>0, <2>1, <2>3, EventsCounted, WorkerFitsStays DEF ReportInv
    <2> QED BY <2>1, <2>2, <2>4 DEF ReportInv, PassResumes, Last, Resumable, Settled
  <1> QED BY <1>1, <1>2, <1>3 DEF PhaseNext, OthersStep

(* In the beginning nobody waits, reports or archives.                     *)
LEMMA ReportInit == PhaseInit => ReportInv
  <1> SUFFICES ASSUME PhaseInit PROVE ReportInv
    OBVIOUS
  <1>1. EventsInv
    BY InitEvents DEF PhaseInit
  <1>2. \A g \in Generations : WorkerFits(g)
    BY DEF PhaseInit, NoWorker, WorkerFits
  <1>3. PassResumes
    BY DEF PhaseInit, IdleTick, PassResumes
  <1> QED BY <1>1, <1>2, <1>3 DEF ReportInv

(* What workers and the tick know of the recovery events holds throughout. *)
THEOREM ReportsFit == PhaseSpec => []ReportInv
  BY ReportInit, ReportNext, PhaseInvariantHolds, PTL DEF PhaseSpec

(* A worker that reports recovery_invalidated is right for good: its event *)
(* admits no attempt, however long the daemons it cannot see live.         *)
THEOREM InvalidationIsFinal == PhaseSpec => []InvalidatedIsFinal
  <1>1. ReportInv => InvalidatedIsFinal
    BY DEF ReportInv, WorkerFits, Dead, InvalidatedIsFinal
  <1> QED BY <1>1, ReportsFit, PTL

(* The card of a completed attempt stays done: no pass archives or replaces *)
(* it, although it archives several commands after it looked.              *)
THEOREM CompletedCardsStay == PhaseSpec => DoneIsFinal
  <1>1. PhaseInv /\ ReportInv /\ [PhaseNext]_phaseVars =>
          [\A g \in Generations :
             attempts[Phase] # << >> /\ CompletionRecorded /\ card[g].status = "done"
             => card'[g].status = "done"]_phaseVars
    <2> SUFFICES ASSUME PhaseInv, ReportInv, PhaseNext,
                        NEW g \in Generations, attempts[Phase] # << >>, CompletionRecorded,
                        card[g].status = "done"
                 PROVE  card'[g].status = "done"
      OBVIOUS
    <2>0. card \in [Generations -> Cards]
      BY DEF PhaseInv, PhaseTypeOK
    <2>1. ~TickAt("archive")
      BY DEF ReportInv, PassResumes, TickAt, CompletionRecorded, MayBeCompleted, Resumable
    <2>2. ASSUME NEW h \in Generations, NEW c, card[h].status # "done",
                 card' = [card EXCEPT ![h] = c]
          PROVE  card'[g].status = "done"
      BY <2>0, <2>2
    <2>3. card' = card => card'[g].status = "done"
      OBVIOUS
    <2>4. CASE SupervisorStep \/ OperatorRecovers
      BY <2>3, <2>4 DEF SupervisorStep, OperatorRecovers, boardVars
    <2>5. ASSUME NEW h \in Generations, Dispatch(h) \/ OperatorUnblocks(h)
          PROVE  card'[g].status = "done"
      BY <2>2, <2>5 DEF Dispatch, OperatorUnblocks, SetCard, GaveUp
    <2>6. ASSUME NEW h \in Generations, WorkerReports(h) \/ WorkerGivesUp(h)
          PROVE  card'[g].status = "done"
      <3>1. CASE h = g
        BY <2>0, <2>6, <3>1 DEF WorkerReports, WorkerGivesUp
      <3>2. CASE h # g
        BY <2>0, <2>6, <3>2 DEF WorkerReports, WorkerGivesUp
      <3> QED BY <3>1, <3>2
    <2>7. ASSUME NEW h \in Generations, WorkerStep(h), ~WorkerReports(h), ~WorkerGivesUp(h)
          PROVE  card'[g].status = "done"
      BY <2>3, <2>7 DEF WorkerStep, AttachStarts, AttachResumes, AttachJoins, AttachFindsChange,
           AttachReports, AttachFails, WorkerSeesOutcome, WorkerSeesInvalidated,
           WorkerSeesStall, WorkerReconnects
    <2>8. CASE UnblockConfirmed \/ UnblockFails
      <3>1. card' = card \/ (card[tick.seen].status = "blocked" /\ SetCard(tick.seen, "ready"))
        BY <2>8 DEF UnblockConfirmed, UnblockFails
      <3>2. g # tick.seen => card'[g] = card[g]
        BY <2>0, <3>1 DEF SetCard
      <3> QED BY <3>1, <3>2
    <2>9. CASE CreateConfirmed \/ CreateUncertain
      <3>1. card' \in {card, Created(tick.next)}
        BY <2>9 DEF CreateConfirmed, CreateUncertain
      <3>2. card[g].status \in Listed
        BY DEF Listed, CardStatus
      <3>3. card'[g] = card[g]
        BY <2>0, <3>1, <3>2 DEF Created
      <3> QED BY <3>3
    <2>10. CASE \/ TickReads \/ TickLeaves \/ RouteProceeds \/ RouteWaits \/ RouteStalled
                \/ RouteAsks \/ UnblockRecorded \/ RetireReads \/ RetireUnreadable
                \/ Abandons \/ TickDies
      BY <2>3, <2>10 DEF TickReads, TickLeaves, RouteProceeds, RouteWaits, RouteStalled, RouteAsks,
         UnblockRecorded, RetireReads, RetireUnreadable, Abandons, TickDies
    <2>11. ASSUME NEW h \in Generations PROVE ~(ArchiveConfirmed(h) \/ ArchiveUnconfirmed(h))
      BY <2>1 DEF ArchiveConfirmed, ArchiveUnconfirmed
    <2> QED BY <2>4, <2>5, <2>6, <2>7, <2>8, <2>9, <2>10, <2>11 DEF PhaseNext, TickStep
  <1> QED BY <1>1, PhaseInvariantHolds, ReportsFit, PTL DEF PhaseSpec, DoneIsFinal
=============================================================================
