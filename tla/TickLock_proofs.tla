--------------------------- MODULE TickLock_proofs ---------------------------
(***************************************************************************)
(* Theorems of TickLock, for any ticks, overrunning or not, and any number *)
(* of them that die.                                                       *)
(***************************************************************************)
EXTENDS TickLock, TLAPS

(* A step of a tick writes only values of the variables' types.            *)
LEMMA StepType == TypeOK /\ [Next]_vars => TypeOK'
  <1> SUFFICES ASSUME TypeOK, [Next]_vars PROVE TypeOK'
    OBVIOUS
  <1>1. ASSUME NEW t \in Ticks, NEW step \in Steps, Goto(t, step)
        PROVE  pc' \in [Ticks -> Steps]
    BY <1>1 DEF Goto, TypeOK
  <1>2. {"idle", "failed", "write", "critical", "release", "drop", "look", "judge_dir",
         "judge_holder", "sweep_holder", "sweep_dir", "retry"} \subseteq Steps
    BY DEF Steps, Owning, Sweeping
  <1>3. NoHolder \in Holders /\ \A t \in Ticks, old \in BOOLEAN : [by |-> t, old |-> old] \in Holders
    BY DEF Holders
  <1>4. ASSUME NEW t \in Ticks, Starts(t) \/ Retries(t) \/ Writes(t)
        PROVE  TypeOK'
    BY <1>1, <1>2, <1>3, <1>4 DEF Starts, Retries, Writes, Fails, TypeOK
  <1>5. ASSUME NEW t \in Ticks, Looks(t)
        PROVE  TypeOK'
    BY <1>1, <1>2, <1>5 DEF Looks, TypeOK
  <1>6. ASSUME NEW t \in Ticks, JudgesDir(t) \/ JudgesHolder(t)
        PROVE  TypeOK'
    BY <1>1, <1>2, <1>6 DEF JudgesDir, JudgesHolder, Fails, TypeOK
  <1>7. ASSUME NEW t \in Ticks, SweepsHolder(t) \/ SweepsDir(t)
        PROVE  TypeOK'
    BY <1>1, <1>2, <1>3, <1>7 DEF SweepsHolder, SweepsDir, Fails, Touched, Rmdir, TypeOK
  <1>8. ASSUME NEW t \in Ticks, Ends(t) \/ Releases(t) \/ Drops(t) \/ Reports(t) \/ Dies(t)
        PROVE  TypeOK'
    BY <1>1, <1>2, <1>3, <1>8 DEF Ends, Releases, Drops, Reports, Dies, Touched, Rmdir, TypeOK
  <1>9. CASE Ages
    <2>1. holder # NoHolder => holder.by \in Ticks /\ [holder EXCEPT !.old = TRUE] \in Holders
      BY DEF TypeOK, Holders
    <2> QED BY <1>9, <2>1 DEF Ages, TypeOK
  <1>10. CASE UNCHANGED vars
    BY <1>10 DEF vars, TypeOK
  <1> QED BY <1>4, <1>5, <1>6, <1>7, <1>8, <1>9, <1>10 DEF Next, TickStep

(* As long as no lock outlived max_age, every call of a tick leaves the    *)
(* lock with its owner.                                                    *)
LEMMA StepKeepsLock ==
  ASSUME TypeOK, Unswept, NEW t \in Ticks, TickStep(t) \/ Dies(t)
  PROVE  Unswept'
  <1>0. pc \in [Ticks -> Steps] /\ NoHolder.by \notin Ticks /\ ~NoHolder.old
    BY TicksAssumption DEF TypeOK, NoHolder
  <1>1. ASSUME NEW step, Goto(t, step)
        PROVE  \A u \in Ticks : pc'[u] = IF u = t THEN step ELSE pc[u]
    BY <1>0, <1>1 DEF Goto
  <1>2. CASE Starts(t)
    BY <1>1, <1>2 DEF Starts, At, Unswept, Owning
  <1>3. CASE Retries(t)
    BY <1>1, <1>3 DEF Retries, At, Unswept, Owning
  <1>4. CASE Writes(t)
    BY <1>1, <1>4, TicksAssumption DEF Writes, At, Fails, Unswept, Owning, NoHolder
  <1>5. CASE Looks(t)
    BY <1>1, <1>5 DEF Looks, At, Unswept, Owning
  <1>6. CASE JudgesDir(t) \/ JudgesHolder(t)
    BY <1>1, <1>6 DEF JudgesDir, JudgesHolder, At, Fails, Unswept, Owning
  <1>7. CASE SweepsHolder(t) \/ SweepsDir(t)
    BY <1>7 DEF SweepsHolder, SweepsDir, At, Unswept
  <1>8. CASE Ends(t)
    BY <1>1, <1>8 DEF Ends, At, Unswept, Owning
  <1>9. CASE Releases(t)
    BY <1>0, <1>1, <1>9 DEF Releases, At, Touched, Unswept, Owning
  <1>10. CASE Drops(t)
    BY <1>1, <1>10 DEF Drops, At, Rmdir, Unswept, Owning
  <1>11. CASE Reports(t) \/ Dies(t)
    BY <1>1, <1>11 DEF Reports, Dies, At, Unswept, Owning
  <1> QED BY <1>2, <1>3, <1>4, <1>5, <1>6, <1>7, <1>8, <1>9, <1>10, <1>11 DEF TickStep

(* Every step keeps the invariant.                                         *)
LEMMA NextKeepsLock == LockInv /\ [Next]_vars => LockInv'
  <1> SUFFICES ASSUME LockInv, [Next]_vars PROVE LockInv'
    OBVIOUS
  <1>1. TypeOK'
    BY StepType DEF LockInv
  <1>2. ASSUME NEW t \in Ticks, TickStep(t) \/ Dies(t)
        PROVE  ~outlived' => Unswept'
    <2>1. outlived' = outlived
      BY <1>2 DEF TickStep, Starts, Retries, Writes, Looks, JudgesDir, JudgesHolder,
                  SweepsHolder, SweepsDir, Ends, Releases, Drops, Reports, Dies
    <2> QED BY <1>2, <2>1, StepKeepsLock DEF LockInv
  <1>3. Ages => outlived'
    BY DEF Ages
  <1>4. ASSUME UNCHANGED vars
        PROVE  ~outlived' => Unswept'
    <2>1. UNCHANGED <<dir, holder, pc, outlived>>
      BY <1>4 DEF vars
    <2> QED BY <2>1 DEF LockInv, Unswept
  <1> QED BY <1>1, <1>2, <1>3, <1>4 DEF Next, LockInv

(* The invariant holds in every reachable state.                           *)
THEOREM LockInvariantHolds == Spec => []LockInv
  <1>1. Init => LockInv
    <2> SUFFICES ASSUME Init PROVE LockInv
      OBVIOUS
    <2>1. TypeOK
      BY DEF Init, TypeOK, Holders, Steps
    <2>2. \A t \in Ticks : pc[t] = "idle"
      BY DEF Init
    <2>3. Unswept
      BY <2>2, TicksAssumption DEF Init, Unswept, NoHolder, Owning
    <2> QED BY <2>1, <2>3 DEF LockInv
  <1> QED BY <1>1, NextKeepsLock, PTL DEF Spec

(* Of any number of overlapping ticks, wherever they die, one at most is   *)
(* between acquire and release until a lock outlives max_age: the window   *)
(* before holder.json is written and the one after it is removed included. *)
THEOREM OneOwner == Spec => []OneOwnerUnlessOutlived
  <1>1. LockInv => OneOwnerUnlessOutlived
    BY DEF LockInv, Unswept, OneOwnerUnlessOutlived
  <1> QED BY <1>1, LockInvariantHolds, PTL

(* Until then the holder file names the tick that runs.                    *)
THEOREM HolderNamed == Spec => []HolderNamesRunner
  <1>1. LockInv => HolderNamesRunner
    BY DEF LockInv, Unswept, HolderNamesRunner
  <1> QED BY <1>1, LockInvariantHolds, PTL
=============================================================================
