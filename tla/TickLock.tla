------------------------------ MODULE TickLock ------------------------------
(***************************************************************************)
(* The lock one project's ticks take (hermes_pipeline/tick.py).            *)
(*                                                                         *)
(* The lock is the directory tick.lock, which mkdir creates for one caller *)
(* only, with holder.json in it.  There is no lease: a contender that      *)
(* finds a holder file, or an empty directory, older than max_age presumes *)
(* its owner dead, removes it and tries mkdir once more.                   *)
(*                                                                         *)
(* Every system call is a step, and a tick may die between any two.  A     *)
(* member of Ticks stands for one tick after another of the same project.  *)
(***************************************************************************)
EXTENDS Naturals

CONSTANTS
  Ticks,      \* ticks of the project that can be alive at a time
  NoTick,     \* no holder.json
  Overruns,   \* whether a tick may live longer than max_age
  MaxCrashes  \* bound: ticks that die

ASSUME TicksAssumption == NoTick \notin Ticks
ASSUME CrashesAssumption == MaxCrashes \in Nat
ASSUME OverrunsAssumption == Overruns \in BOOLEAN

VARIABLES
  dir,        \* tick.lock, by its mtime
  holder,     \* tick.lock/holder.json: who wrote it, and its mtime
  pc,         \* pc[t] : the call tick t makes next
  outlived,   \* the lock has once been older than max_age
  crashes

vars == <<dir, holder, pc, outlived, crashes>>

NoHolder == [by |-> NoTick, old |-> FALSE]
Holders  == [by : Ticks, old : BOOLEAN] \cup {NoHolder}

(* Between a tick's mkdir and the end of its release.                      *)
Owning   == {"write", "critical", "release", "drop"}
Sweeping == {"look", "judge_dir", "judge_holder", "sweep_holder", "sweep_dir", "retry"}
Steps    == {"idle", "failed"} \cup Owning \cup Sweeping

At(t, step)   == pc[t] = step
Goto(t, step) == pc' = [pc EXCEPT ![t] = step]

(* FileNotFoundError: a stat, an unlink or a write that nothing guards.    *)
Fails(t) == Goto(t, "failed") /\ UNCHANGED <<dir, holder>>

(* rmdir, which refuses a directory with an entry.                         *)
Rmdir == dir' = IF holder = NoHolder THEN "absent" ELSE dir

Touched(d) == IF d = "absent" THEN d ELSE "young"

-----------------------------------------------------------------------------
(* acquire *)

Starts(t) ==
  /\ At(t, "idle")
  /\ IF dir = "absent" THEN dir' = "young" /\ Goto(t, "write")
                       ELSE Goto(t, "look") /\ UNCHANGED dir
  /\ UNCHANGED <<holder, outlived, crashes>>

Retries(t) ==
  /\ At(t, "retry")
  /\ IF dir = "absent" THEN dir' = "young" /\ Goto(t, "write")
                       ELSE Goto(t, "idle") /\ UNCHANGED dir
  /\ UNCHANGED <<holder, outlived, crashes>>

(* The file is created in, or overwritten in, whatever directory is there. *)
Writes(t) ==
  /\ At(t, "write")
  /\ IF dir = "absent" THEN Fails(t)
     ELSE /\ holder' = [by |-> t, old |-> FALSE]
          /\ dir' = IF holder = NoHolder THEN "young" ELSE dir
          /\ Goto(t, "critical")
  /\ UNCHANGED <<outlived, crashes>>

-----------------------------------------------------------------------------
(* _try_sweep_stale.  The two exists() are one step: what follows looks    *)
(* again at what they saw.                                                 *)
Looks(t) ==
  /\ At(t, "look")
  /\ Goto(t, IF dir = "absent" THEN "retry"
             ELSE IF holder = NoHolder THEN "judge_dir" ELSE "judge_holder")
  /\ UNCHANGED <<dir, holder, outlived, crashes>>

(* Mutant: a directory without holder is swept at any age.                 *)
JudgesDir_Eagerly(t) ==
  /\ At(t, "judge_dir")
  /\ IF dir = "absent" THEN Fails(t) ELSE Goto(t, "sweep_dir") /\ UNCHANGED <<dir, holder>>
  /\ UNCHANGED <<outlived, crashes>>

(* Mutant: a directory without holder is never swept.                      *)
JudgesDir_Never(t) ==
  /\ At(t, "judge_dir")
  /\ IF dir = "absent" THEN Fails(t) ELSE Goto(t, "retry") /\ UNCHANGED <<dir, holder>>
  /\ UNCHANGED <<outlived, crashes>>

JudgesDir(t) ==
  /\ At(t, "judge_dir")
  /\ IF dir = "absent" THEN Fails(t)
     ELSE Goto(t, IF dir = "old" THEN "sweep_dir" ELSE "retry") /\ UNCHANGED <<dir, holder>>
  /\ UNCHANGED <<outlived, crashes>>

JudgesHolder(t) ==
  /\ At(t, "judge_holder")
  /\ IF holder = NoHolder THEN Fails(t)
     ELSE Goto(t, IF holder.old THEN "sweep_holder" ELSE "retry") /\ UNCHANGED <<dir, holder>>
  /\ UNCHANGED <<outlived, crashes>>

(* It unlinks the holder file that is there now.                           *)
SweepsHolder(t) ==
  /\ At(t, "sweep_holder")
  /\ IF holder = NoHolder THEN Fails(t)
     ELSE holder' = NoHolder /\ dir' = Touched(dir) /\ Goto(t, "sweep_dir")
  /\ UNCHANGED <<outlived, crashes>>

SweepsDir(t) ==
  /\ At(t, "sweep_dir")
  /\ Rmdir
  /\ Goto(t, "retry")
  /\ UNCHANGED <<holder, outlived, crashes>>

-----------------------------------------------------------------------------
(* release, of whatever lock is there *)

Ends(t) ==
  /\ At(t, "critical")
  /\ Goto(t, "release")
  /\ UNCHANGED <<dir, holder, outlived, crashes>>

Releases(t) ==
  /\ At(t, "release")
  /\ holder' = NoHolder
  /\ dir' = IF holder = NoHolder THEN dir ELSE Touched(dir)
  /\ Goto(t, "drop")
  /\ UNCHANGED <<outlived, crashes>>

Drops(t) ==
  /\ At(t, "drop")
  /\ Rmdir
  /\ Goto(t, "idle")
  /\ UNCHANGED <<holder, outlived, crashes>>

-----------------------------------------------------------------------------
(* The scan reports the error and goes on with the next project.           *)
Reports(t) ==
  /\ At(t, "failed")
  /\ Goto(t, "idle")
  /\ UNCHANGED <<dir, holder, outlived, crashes>>

Dies(t) ==
  /\ ~At(t, "idle")
  /\ crashes < MaxCrashes
  /\ crashes' = crashes + 1
  /\ Goto(t, "idle")
  /\ UNCHANGED <<dir, holder, outlived>>

(* max_age passes, if no tick outlives it then while none is running.      *)
Ages ==
  /\ Overruns \/ \A t \in Ticks : At(t, "idle")
  /\ \/ dir = "young" /\ dir' = "old" /\ UNCHANGED holder
     \/ holder # NoHolder /\ ~holder.old /\ holder' = [holder EXCEPT !.old = TRUE] /\ UNCHANGED dir
  /\ outlived' = TRUE
  /\ UNCHANGED <<pc, crashes>>

-----------------------------------------------------------------------------
Init ==
  /\ dir = "absent"
  /\ holder = NoHolder
  /\ pc = [t \in Ticks |-> "idle"]
  /\ outlived = FALSE
  /\ crashes = 0

TickStep(t) ==
  \/ Starts(t) \/ Retries(t) \/ Writes(t)
  \/ Looks(t) \/ JudgesDir(t) \/ JudgesHolder(t) \/ SweepsHolder(t) \/ SweepsDir(t)
  \/ Ends(t) \/ Releases(t) \/ Drops(t) \/ Reports(t)

Next == Ages \/ \E t \in Ticks : TickStep(t) \/ Dies(t)

Spec == Init /\ [][Next]_vars

(* Ticks recur and do not hang, and time passes.                           *)
Fairness == WF_vars(Ages) /\ \A t \in Ticks : WF_vars(TickStep(t))

FairSpec == Spec /\ Fairness

-----------------------------------------------------------------------------
(* The types of the files and of the ticks.                                *)
TypeOK ==
  /\ dir \in {"absent", "young", "old"}
  /\ holder \in Holders
  /\ pc \in [Ticks -> Steps]
  /\ outlived \in BOOLEAN
  /\ crashes \in Nat

(* Two ticks are never between acquire and release, as long as no lock     *)
(* outlived max_age: an owner that is still writing its holder file, or    *)
(* has already removed it, is not robbed by a contender (the comment in    *)
(* _try_sweep_stale).                                                      *)
OneOwnerUnlessOutlived ==
  ~outlived => \A t, u \in Ticks : pc[t] \in Owning /\ pc[u] \in Owning => t = u

(* The holder file names the tick that is running, so that it can be       *)
(* correlated with the markers that tick writes (cli._cmd_tick).           *)
HolderNamesRunner ==
  ~outlived => \A t \in Ticks : pc[t] = "critical" => holder.by = t

(* What makes them inductive: nobody but its owner touches a lock that has *)
(* not outlived max_age, in whichever call the owner is.                   *)
Unswept ==
  /\ dir # "old" /\ ~holder.old
  /\ \A t \in Ticks : pc[t] \notin {"sweep_holder", "sweep_dir"}
  /\ \A t \in Ticks : pc[t] \in Owning => dir # "absent"
  /\ holder # NoHolder => dir # "absent"
  /\ \A t \in Ticks : pc[t] \in {"write", "drop"} => holder = NoHolder
  /\ \A t, u \in Ticks : pc[t] \in Owning /\ pc[u] \in Owning => t = u
  /\ \A t \in Ticks : pc[t] = "critical" => holder.by = t

LockInv == TypeOK /\ (~outlived => Unswept)

(* The lock of a tick that died is reclaimed, wherever it died.            *)
Orphaned == dir # "absent" /\ \A t \in Ticks : pc[t] \notin Owning
OrphanReclaimed == Orphaned ~> ~Orphaned

(* The lock closes the races of overlapping ticks, also when it is taken   *)
(* from a tick that died (tick.py's docstring).                            *)
OneTickRuns == \A t, u \in Ticks : pc[t] = "critical" /\ pc[u] = "critical" => t = u
=============================================================================
