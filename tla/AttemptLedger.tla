--------------------------- MODULE AttemptLedger ---------------------------
(***************************************************************************)
(* What the execution store promises its readers.                          *)
(*                                                                         *)
(* A worktree has a ledger of attempts.  An attempt is open until its      *)
(* outcome is written, doubtful while its processes may still be running,  *)
(* and settled when they are known to be gone.  A new attempt, of any      *)
(* execution on the worktree, is admitted only when every attempt before   *)
(* it is settled, and nothing that is settled is ever touched again.       *)
(***************************************************************************)
EXTENDS Naturals, Sequences

CONSTANT Executions

VARIABLE ledger

Entries == {"open", "doubtful", "settled"}

TypeOK == ledger \in [Executions -> Seq(Entries)]

Init == ledger = [e \in Executions |-> << >>]

AllSettled == \A e \in Executions : \A i \in 1..Len(ledger[e]) : ledger[e][i] = "settled"

Admit(e) ==
  /\ AllSettled
  /\ ledger' = [ledger EXCEPT ![e] = Append(@, "open")]

Become(e, from, to) ==
  /\ ledger[e] # << >>
  /\ ledger[e][Len(ledger[e])] \in from
  /\ ledger' = [ledger EXCEPT ![e][Len(ledger[e])] = to]

Close(e)  == Become(e, {"open"}, "doubtful")
Settle(e) == Become(e, {"open", "doubtful"}, "settled")

Next == \E e \in Executions : Admit(e) \/ Close(e) \/ Settle(e)

Spec == Init /\ [][Next]_ledger
=============================================================================
