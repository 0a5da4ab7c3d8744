---------------------- MODULE AgentSupervisor_proofs ----------------------
(***************************************************************************)
(* Theorems of AgentSupervisor, for every set of executions, daemons and   *)
(* worktree states and every value of the limits.                          *)
(***************************************************************************)
EXTENDS AgentSupervisor, TLAPS

-----------------------------------------------------------------------------
(* Sequences of attempts *)

(* The last element of a nonempty sequence is one of its elements.         *)
LEMMA LastElement ==
  ASSUME NEW S, NEW s \in Seq(S), s # << >>
  PROVE  Len(s) \in Nat /\ Len(s) >= 1 /\ s[Len(s)] \in S
  OBVIOUS

(* update_attempt's write replaces the last element and nothing else.      *)
LEMMA AmendLast ==
  ASSUME NEW S, NEW s \in Seq(S), s # << >>, NEW a \in S
  PROVE  /\ Amend(s, a) \in Seq(S)
         /\ Len(Amend(s, a)) = Len(s)
         /\ Amend(s, a) # << >>
         /\ Amend(s, a)[Len(s)] = a
         /\ \A i \in 1..Len(s) : i # Len(s) => Amend(s, a)[i] = s[i]
  BY DEF Amend

-----------------------------------------------------------------------------
(* The shape of the store's writes *)

(* What a reader sees after update_attempt: the last attempt of e is a,    *)
(* everything else is as before.                                           *)
LEMMA UpdateEffect ==
  ASSUME attempts \in [Executions -> Seq(Attempts)],
         NEW e \in Executions, NEW a \in Attempts, UpdateAttempt(e, a)
  PROVE  /\ attempts' \in [Executions -> Seq(Attempts)]
         /\ attempts[e] # << >> /\ attempts'[e] # << >>
         /\ Len(attempts'[e]) = Len(attempts[e])
         /\ Last(e)' = a
         /\ \A i \in 1..Len(attempts[e]) :
              i # Len(attempts[e]) => attempts'[e][i] = attempts[e][i]
         /\ \A f \in Executions : f # e => attempts'[f] = attempts[f]
  <1> DEFINE s == attempts[e]
  <1>1. s \in Seq(Attempts) /\ s # << >>
    BY DEF UpdateAttempt
  <1>2. attempts' = [attempts EXCEPT ![e] = Amend(s, a)]
    BY DEF UpdateAttempt
  <1>3. /\ Amend(s, a) \in Seq(Attempts) /\ Len(Amend(s, a)) = Len(s)
        /\ Amend(s, a) # << >> /\ Amend(s, a)[Len(s)] = a
        /\ \A i \in 1..Len(s) : i # Len(s) => Amend(s, a)[i] = s[i]
    <2> HIDE DEF s
    <2> QED BY <1>1, AmendLast
  <1>4. attempts'[e] = Amend(s, a) /\ \A f \in Executions : f # e => attempts'[f] = attempts[f]
    BY <1>2
  <1>5. attempts' \in [Executions -> Seq(Attempts)]
    BY <1>2, <1>3
  <1> QED BY <1>1, <1>3, <1>4, <1>5 DEF Last

(* What a reader sees after admit: one more, fresh attempt of e.           *)
LEMMA AdmitEffect ==
  ASSUME attempts \in [Executions -> Seq(Attempts)],
         NEW e \in Executions, NEW ev \in Events \cup {NoEvent}, AdmitAttempt(e, ev)
  PROVE  /\ attempts' \in [Executions -> Seq(Attempts)]
         /\ attempts'[e] # << >>
         /\ Len(attempts'[e]) = Len(attempts[e]) + 1
         /\ Last(e)' = FreshAttempt(ev)
         /\ \A i \in 1..Len(attempts[e]) : attempts'[e][i] = attempts[e][i]
         /\ \A f \in Executions : f # e => attempts'[f] = attempts[f]
         /\ attempts[e] = << >> \/ (attempts[e] # << >> /\ Settled(Last(e)))
  <1>1. FreshAttempt(ev) \in Attempts
    BY DEF FreshAttempt, Attempts, Reasons, Terminal
  <1>2. attempts' = [attempts EXCEPT ![e] = Append(attempts[e], FreshAttempt(ev))]
    BY DEF AdmitAttempt
  <1>3. attempts[e] \in Seq(Attempts)
    OBVIOUS
  <1>4. attempts'[e] = Append(attempts[e], FreshAttempt(ev))
    BY <1>2
  <1>5. attempts[e] = << >> \/ (attempts[e] # << >> /\ Settled(Last(e)))
    BY DEF AdmitAttempt, RetryAuthorized
  <1>6. attempts' \in [Executions -> Seq(Attempts)]
    BY <1>1, <1>2, <1>3
  <1>7. /\ Len(attempts'[e]) = Len(attempts[e]) + 1
        /\ attempts'[e][Len(attempts[e]) + 1] = FreshAttempt(ev)
        /\ \A i \in 1..Len(attempts[e]) : attempts'[e][i] = attempts[e][i]
    BY <1>1, <1>3, <1>4
  <1>8. attempts'[e] # << >>
    BY <1>3, <1>7
  <1> QED BY <1>2, <1>5, <1>6, <1>7, <1>8 DEF Last

(* The last attempt of an execution that has one is an attempt.            *)
LEMMA LastType ==
  ASSUME attempts \in [Executions -> Seq(Attempts)],
         NEW e \in Executions, attempts[e] # << >>
  PROVE  Last(e) \in Attempts /\ Len(attempts[e]) \in Nat
  BY LastElement DEF Last

-----------------------------------------------------------------------------
(* Type correctness *)

(* Admission writes only values of the variables' types.                   *)
LEMMA AdmissionType ==
  ASSUME TypeOK, NEW d \in Daemons, AdmissionStep(d)
  PROVE  TypeOK'
  <1> DEFINE e == Exec(d)
  <1>0. /\ e \in Executions /\ daemon[d].event \in Events \cup {NoEvent}
        /\ intent[e] \in Intents /\ daemon[d] \in DaemonStates
    BY DEF TypeOK, DaemonStates, Exec
  <1>1. Gone \in DaemonStates
    BY ExecutionsAssumption DEF Gone, Unborn, DaemonStates, Steps
  <1>2. \A pc \in Steps : [daemon[d] EXCEPT !.pc = pc] \in DaemonStates
    BY <1>0 DEF DaemonStates
  <1>3. CASE TakeWorktree(d)
    BY <1>1, <1>2, <1>3, ZenonT(60) DEF TakeWorktree, TypeOK, Exit, Goto, Steps, PreAdmission, storeVars
  <1>4. CASE AdmissionTimesOut(d)
    BY <1>1, <1>4 DEF AdmissionTimesOut, TypeOK, Exit, storeVars
  <1>5. CASE Consume(d)
    <2>1. [intent[e] EXCEPT !.status = "consumed"] \in Intents
      BY <1>0 DEF Intents
    <2> QED BY <1>2, <1>5, <2>1 DEF Consume, TypeOK, SetIntent, Goto, Steps, PreAdmission, storeVars
  <1>6. CASE ConsumeInvalidates(d)
    <2>1. [intent[e] EXCEPT !.status = "invalidated"] \in Intents
      BY <1>0 DEF Intents
    <2> QED BY <1>1, <1>6, <2>1
            DEF ConsumeInvalidates, InvalidateRecovery, Invalidate, SetIntent, TypeOK, Exit, storeVars
  <1>7. CASE Refuse(d)
    BY <1>1, <1>7 DEF Refuse, TypeOK, Exit, storeVars
  <1>8. CASE Authorize(d)
    <2>1. [generation |-> intent[e].generation, event |-> daemon[d].event] \in Approvals
      BY <1>0 DEF Approvals, Intents
    <2> QED BY <1>2, <1>8, <2>1 DEF Authorize, AuthorizeRetry, TypeOK, Goto, Steps, PreAdmission
  <1>9. CASE Admit(d)
    <2>1. attempts' \in [Executions -> Seq(Attempts)]
      BY <1>0, <1>9, AdmitEffect DEF TypeOK, Admit
    <2>2. NoApproval \in Approvals
      BY DEF NoApproval, Approvals
    <2> QED BY <1>2, <1>9, <2>1, <2>2 DEF Admit, AdmitAttempt, TypeOK, Goto, Steps, Owning, ClientSteps
  <1> QED BY <1>3, <1>4, <1>5, <1>6, <1>7, <1>8, <1>9 DEF AdmissionStep

(* What an observed exit leaves in the attempt is an attempt.              *)
LEMMA ExitRecordType ==
  ASSUME NEW e, NEW outcome, NEW confirmed \in BOOLEAN, Last(e) \in Attempts
  PROVE  ExitRecord(e, outcome, confirmed) \in Attempts
  <1> DEFINE status  == IF Collects(outcome, confirmed) \/ SalvagesAt(e, outcome, confirmed)
                        THEN "running"
                        ELSE IF outcome = "late" THEN "timed_out" ELSE "exited"
             reason  == IF SalvagesAt(e, outcome, confirmed)
                        THEN "deadline_collection_pending" ELSE "none"
             cleanup == IF confirmed THEN "confirmed" ELSE "unconfirmed"
             exit0   == outcome = "exit0"
             b       == [Last(e) EXCEPT !.status = status, !.reason = reason]
  <1>1. status \in {"admitted", "running"} \cup Terminal
    BY DEF Terminal
  <1>2. reason \in Reasons
    BY DEF Reasons
  <1>3. cleanup \in {"pending", "confirmed", "unconfirmed"} /\ exit0 \in BOOLEAN
    OBVIOUS
  <1>4. ExitRecord(e, outcome, confirmed) = [b EXCEPT !.exit0 = exit0, !.cleanup = cleanup]
    BY DEF ExitRecord, Outcome
  <1> HIDE DEF status, reason, cleanup, exit0
  <1>5. b \in Attempts
    BY <1>1, <1>2 DEF Attempts
  <1> HIDE DEF b
  <1> QED BY <1>3, <1>4, <1>5 DEF Attempts

(* So does the supervision of the client.                                  *)
LEMMA ClientType ==
  ASSUME TypeOK, NEW d \in Daemons, ClientStep(d)
  PROVE  TypeOK'
  <1> DEFINE e == Exec(d)
  <1>0. /\ e \in Executions /\ attempts \in [Executions -> Seq(Attempts)]
        /\ daemon[d] \in DaemonStates /\ live[e] \in SUBSET Processes
    BY DEF TypeOK, DaemonStates, Exec
  <1>1. Gone \in DaemonStates
    BY ExecutionsAssumption DEF Gone, Unborn, DaemonStates, Steps
  <1>2. \A pc \in Steps : [daemon[d] EXCEPT !.pc = pc] \in DaemonStates
    BY <1>0 DEF DaemonStates
  <1>3. attempts[e] # << >> => Last(e) \in Attempts
    BY <1>0, LastType
  <1>4. ASSUME NEW a \in Attempts, UpdateAttempt(e, a)
        PROVE  attempts' \in [Executions -> Seq(Attempts)] /\ approval' = approval
    BY <1>0, <1>4, UpdateEffect DEF UpdateAttempt
  <1>5. CASE RecordSupervisor(d)
    <2>1. [Last(e) EXCEPT !.supervisor = d] \in Attempts
      BY <1>3, <1>5 DEF RecordSupervisor, UpdateAttempt, Attempts
    <2> QED BY <1>2, <1>4, <1>5, <2>1 DEF RecordSupervisor, TypeOK, Goto, Steps, Owning, ClientSteps
  <1>6. CASE LaunchFails(d)
    <2>1. [Outcome(e, "blocked", "client_not_launched") EXCEPT !.cleanup = "confirmed"] \in Attempts
      BY <1>3, <1>6 DEF LaunchFails, Conclude, UpdateAttempt, Outcome, Attempts, Terminal, Reasons
    <2> QED BY <1>1, <1>4, <1>6, <2>1 DEF LaunchFails, Conclude, TypeOK, Exit
  <1>7. CASE Launch(d)
    BY <1>0, <1>2, <1>7 DEF Launch, TypeOK, Goto, Steps, Owning, ClientSteps, Processes, storeVars
  <1>8. CASE RecordLaunch(d)
    <2>1. [Last(e) EXCEPT !.status = "running", !.known = @ \cup {"client"}] \in Attempts
      BY <1>3, <1>8 DEF RecordLaunch, UpdateAttempt, Attempts, Processes
    <2> QED BY <1>2, <1>4, <1>8, <2>1 DEF RecordLaunch, TypeOK, Goto, Steps, Owning, ClientSteps
  <1>9. CASE OwnershipLost(d)
    <2>1. PICK known \in {Last(e).known, Last(e).known \cup {"client"}} :
            Conclude(d, [Outcome(e, "interrupted", "exit_unobservable")
                           EXCEPT !.cleanup = "unconfirmed", !.known = known])
      BY <1>9 DEF OwnershipLost
    <2>2. [Outcome(e, "interrupted", "exit_unobservable")
             EXCEPT !.cleanup = "unconfirmed", !.known = known] \in Attempts
      BY <1>3, <2>1 DEF Conclude, UpdateAttempt, Outcome, Attempts, Terminal, Reasons, Processes
    <2> QED BY <1>1, <1>4, <1>9, <2>1, <2>2 DEF OwnershipLost, Conclude, TypeOK, Exit
  <1>10. CASE ObserveExit(d)
    <2>1. PICK outcome \in {"exit0", "exit1", "late"}, confirmed \in BOOLEAN : ExitObserved(d, outcome, confirmed)
      BY <1>10 DEF ObserveExit
    <2> DEFINE a == ExitRecord(e, outcome, confirmed)
    <2>2. attempts[e] # << >> /\ UpdateAttempt(e, a)
      BY <2>1 DEF ExitObserved, Conclude, UpdateAttempt
    <2>3. a \in Attempts
      BY <1>3, <2>1, <2>2, ExitRecordType
    <2>4. attempts' \in [Executions -> Seq(Attempts)] /\ approval' = approval
      BY <1>4, <2>2, <2>3
    <2> QED BY <1>1, <1>2, <2>1, <2>4, ZenonT(60)
            DEF ExitObserved, Conclude, TypeOK, Exit, Goto, Steps, Owning, CollectSteps
  <1> QED BY <1>5, <1>6, <1>7, <1>8, <1>9, <1>10 DEF ClientStep

(* Every verdict is a terminal outcome with a reason.                      *)
LEMMA VerdictType ==
  ASSUME NEW d, NEW v \in Verdicts(d)
  PROVE  v[1] \in Terminal /\ v[2] \in Reasons
  BY DEF Verdicts, Invalid, Late, Lost, Completion, Deadline, Terminal, Reasons

(* So does collection.                                                     *)
LEMMA CollectType ==
  ASSUME TypeOK, NEW d \in Daemons, CollectStep(d)
  PROVE  TypeOK'
  <1> DEFINE e == Exec(d)
  <1>0. /\ e \in Executions /\ attempts \in [Executions -> Seq(Attempts)]
        /\ daemon[d] \in DaemonStates /\ live[e] \in SUBSET Processes
        /\ promoted[e] \in SUBSET Nat
    BY DEF TypeOK, DaemonStates, Exec
  <1>1. Gone \in DaemonStates
    BY ExecutionsAssumption DEF Gone, Unborn, DaemonStates, Steps
  <1>2. ASSUME NEW pc \in Steps
        PROVE  /\ [daemon[d] EXCEPT !.pc = pc] \in DaemonStates
               /\ \A out \in {"none", "ok", "late", "fail", "lost"}, clean \in BOOLEAN :
                    [daemon[d] EXCEPT !.pc = pc, !.out = out, !.clean = clean] \in DaemonStates
               /\ \A out \in {"none", "ok", "late", "fail", "lost"} :
                    [daemon[d] EXCEPT !.pc = pc, !.out = out] \in DaemonStates
    BY <1>0 DEF DaemonStates
  <1>3. attempts[e] # << >> => Last(e) \in Attempts
    BY <1>0, LastType
  <1>4. ASSUME NEW a \in Attempts, UpdateAttempt(e, a)
        PROVE  attempts' \in [Executions -> Seq(Attempts)] /\ approval' = approval
    BY <1>0, <1>4, UpdateEffect DEF UpdateAttempt
  <1>5. {"collecting", "check_failed", "promoted", "check_marked", "check_ready",
         "check_spawned", "check_received", "check_running", "check_exited"} \subseteq Steps
    BY DEF Steps, Owning, CollectSteps, CheckSteps
  <1>6. CASE MarkCheck(d)
    <2>0. Last(e) \in Attempts
      BY <1>3, <1>6 DEF MarkCheck, UpdateAttempt
    <2>1. [Last(e) EXCEPT !.known = @ \ {"check"}, !.checks = @ + 1] \in Attempts
      <3>1. Last(e).known \ {"check"} \in SUBSET Processes /\ Last(e).checks + 1 \in Nat
        BY <2>0 DEF Attempts
      <3>2. \A known \in SUBSET Processes, checks \in Nat :
              [Last(e) EXCEPT !.known = known, !.checks = checks] \in Attempts
        BY <2>0 DEF Attempts
      <3> QED BY <3>1, <3>2
    <2> QED BY <1>2, <1>4, <1>5, <1>6, <2>1 DEF MarkCheck, TypeOK, Goto
  <1>7. CASE DoubtCleanup(d)
    <2>1. [Last(e) EXCEPT !.cleanup = "unconfirmed"] \in Attempts
      BY <1>3, <1>7, SMTT(60) DEF DoubtCleanup, UpdateAttempt, Attempts
    <2> QED BY <1>2, <1>4, <1>5, <1>7, <2>1 DEF DoubtCleanup, TypeOK, Goto
  <1>8. CASE CheckNotLaunched(d)
    BY <1>2, <1>5, <1>8, ZenonT(60) DEF CheckNotLaunched, CheckOutcome, TypeOK, storeVars
  <1>9. CASE LaunchCheck(d)
    BY <1>0, <1>2, <1>5, <1>9, ZenonT(60) DEF LaunchCheck, TypeOK, Goto, Processes, storeVars
  <1>10. CASE RecordCheck(d)
    <2>1. [Last(e) EXCEPT !.known = @ \cup {"check"}] \in Attempts
      BY <1>3, <1>10, SMTT(60) DEF RecordCheck, UpdateAttempt, Attempts, Processes
    <2> QED BY <1>2, <1>4, <1>5, <1>10, <2>1 DEF RecordCheck, TypeOK, Goto
  <1>11. CASE ClearMarker(d)
    BY <1>2, <1>5, <1>11, ZenonT(60) DEF ClearMarker, TypeOK, Goto, storeVars
  <1>12. CASE RecordCheckExit(d)
    <2>1. PICK out \in {"ok", "fail", "late"}, clean \in BOOLEAN :
            /\ UpdateAttempt(e, [Last(e) EXCEPT !.lateCheck = @ \/ out = "late"])
            /\ CheckOutcome(d, out, clean)
            /\ UNCHANGED <<intent, nextEvent, work, live, marker, promoted, wtLock, crashes>>
      BY <1>12 DEF RecordCheckExit
    <2>2. Last(e) \in Attempts
      BY <1>3, <2>1 DEF UpdateAttempt
    <2>3. Last(e).lateCheck \in BOOLEAN
      BY <2>2 DEF Attempts
    <2>4. (Last(e).lateCheck \/ out = "late") \in BOOLEAN
      OBVIOUS
    <2>5. \A late \in BOOLEAN : [Last(e) EXCEPT !.lateCheck = late] \in Attempts
      BY <2>2 DEF Attempts
    <2>6. [Last(e) EXCEPT !.lateCheck = @ \/ out = "late"] \in Attempts
      BY <2>4, <2>5
    <2> QED BY <1>2, <1>4, <1>5, <2>1, <2>6 DEF CheckOutcome, TypeOK
  <1>13. CASE SettleCheck(d)
    <2>1. attempts[e] # << >>
      BY <1>13 DEF SettleCheck, UpdateAttempt
    <2>2. PICK a \in {[Last(e) EXCEPT !.cleanup = "confirmed"], Last(e)} : UpdateAttempt(e, a)
      BY <1>13 DEF SettleCheck
    <2>3. a \in Attempts
      BY <1>3, <2>1 DEF Attempts
    <2>4. daemon[d].out \in {"none", "ok", "late", "fail", "lost"}
      BY <1>0, SMTT(60) DEF DaemonStates
    <2>5. daemon' \in [Daemons -> DaemonStates]
      BY <1>2, <1>5, <1>13, <2>4 DEF SettleCheck, TypeOK
    <2> QED BY <1>4, <1>13, <2>2, <2>3, <2>5 DEF SettleCheck, TypeOK
  <1>14. CASE CheckLost(d)
    <2>1. PICK known \in {Last(e).known, Last(e).known \cup {"check"}} :
            UpdateAttempt(e, [Last(e) EXCEPT !.known = known])
      BY <1>14 DEF CheckLost
    <2>2. [Last(e) EXCEPT !.known = known] \in Attempts
      BY <1>3, <2>1 DEF UpdateAttempt, Attempts, Processes
    <2>3. PICK out \in {"lost", "fail"} :
            daemon' = [daemon EXCEPT ![d] = [@ EXCEPT !.pc = "check_failed", !.out = out]]
      BY <1>14 DEF CheckLost
    <2>4. [daemon[d] EXCEPT !.pc = "check_failed", !.out = out] \in DaemonStates
      BY <1>2, <1>5
    <2>5. daemon' \in [Daemons -> DaemonStates]
      BY <2>3, <2>4, SMTT(60) DEF TypeOK
    <2> QED BY <1>4, <1>14, <2>1, <2>2, <2>5 DEF CheckLost, TypeOK
  <1>15. CASE Promote(d)
    <2>1. Generation(e) \in Nat
      BY <1>0 DEF Generation
    <2> QED BY <1>0, <1>2, <1>5, <1>15, <2>1 DEF Promote, TypeOK, Goto, storeVars
  <1>16. CASE FinishCollection(d)
    <2>1. PICK v \in Verdicts(d) : Conclude(d, Outcome(e, v[1], v[2]))
      BY <1>16 DEF FinishCollection
    <2>2. v[1] \in Terminal /\ v[2] \in Reasons
      BY VerdictType
    <2>3. Outcome(e, v[1], v[2]) \in Attempts
      BY <1>3, <2>1, <2>2 DEF Conclude, UpdateAttempt, Outcome, Attempts
    <2> QED BY <1>1, <1>4, <1>16, <2>1, <2>3 DEF FinishCollection, Conclude, TypeOK, Exit
  <1> QED BY <1>6, <1>7, <1>8, <1>9, <1>10, <1>11, <1>12, <1>13, <1>14, <1>15, <1>16
          DEF CollectStep

(* So do the requests of the operator, the workers and the tick.           *)
LEMMA RequestType ==
  ASSUME TypeOK, NEW e \in Executions, Request(e) \/ AutoApprove(e)
  PROVE  TypeOK'
  <1>0. intent[e] \in Intents /\ attempts \in [Executions -> Seq(Attempts)] /\ nextEvent \in Nat
    BY DEF TypeOK
  <1>1. \A status \in {"approved", "invalidated"} : [intent[e] EXCEPT !.status = status] \in Intents
    BY <1>0 DEF Intents
  <1>2. Generation(e) \in Nat /\ Reissues(e) \in Nat
    BY <1>0 DEF Generation, Reissues, Intents
  <1>3. ASSUME NEW by \in {"tick", "operator"}, NEW status \in {"prepared", "approved"},
               NEW reissues \in Nat, NewIntent(e, by, status, reissues)
        PROVE  intent' \in [Executions -> Intents] /\ nextEvent' \in Nat
    <2> DEFINE ev == [by |-> by, id |-> nextEvent + 1, after |-> Generation(e)]
    <2>1. ev \in Events
      BY <1>0, <1>2 DEF Events
    <2> HIDE DEF ev
    <2>2. [status |-> status, event |-> ev, generation |-> Generation(e),
           work |-> work, reissues |-> reissues] \in Intents
      BY <1>2, <2>1 DEF Intents, TypeOK
    <2> QED BY <1>0, <1>3, <2>2 DEF NewIntent, SetIntent, TypeOK, ev
  <1>4. CASE Prepare(e)
    BY <1>3, <1>4 DEF Prepare, TypeOK, storeVars
  <1>5. CASE Approve(e)
    BY <1>1, <1>5 DEF Approve, SetIntent, TypeOK, storeVars
  <1>6. CASE AttachInvalidates(e)
    BY <1>1, <1>6 DEF AttachInvalidates, InvalidateRecovery, Invalidate, SetIntent, TypeOK, storeVars
  <1>7. ASSUME NEW d \in Daemons, AttachFresh(e, d) \/ AttachRecovery(e, d)
        PROVE  TypeOK'
    <2>1. PICK ev \in Events \cup {NoEvent} : Spawn(e, d, ev)
      BY <1>0, <1>7 DEF AttachFresh, AttachRecovery, Intents
    <2>2. [daemon[d] EXCEPT !.pc = "spawned", !.exec = e, !.event = ev] \in DaemonStates
      BY DEF TypeOK, DaemonStates, Steps, PreAdmission
    <2> QED BY <1>7, <2>1, <2>2 DEF AttachFresh, AttachRecovery, Spawn, TypeOK, storeVars
  <1>8. CASE AutoApprove(e)
    BY <1>1, <1>2, <1>3, <1>8 DEF AutoApprove, Invalidate, SetIntent, TypeOK, storeVars
  <1> QED BY <1>4, <1>5, <1>6, <1>7, <1>8 DEF Request

(* So does the sweep.                                                      *)
LEMMA RecoverType ==
  ASSUME TypeOK, NEW e \in Executions, Recover(e)
  PROVE  TypeOK'
  <1>0. attempts \in [Executions -> Seq(Attempts)] /\ attempts[e] # << >>
    BY DEF TypeOK, Recover, RecoverConfirmed, RecoverUnconfirmed, Recoverable
  <1>1. Last(e) \in Attempts
    BY <1>0, LastType
  <1>2. Recovered(Last(e)) \in Attempts
    BY <1>1, ZenonT(60) DEF Recovered, Attempts, Terminal, Reasons
  <1>3. \A c \in {"confirmed", "unconfirmed"} :
          [Recovered(Last(e)) EXCEPT !.cleanup = c] \in Attempts
    BY <1>2 DEF Attempts
  <1>4. ASSUME NEW a \in Attempts, UpdateAttempt(e, a)
        PROVE  attempts' \in [Executions -> Seq(Attempts)] /\ approval' = approval
    BY <1>0, <1>4, UpdateEffect DEF UpdateAttempt
  <1>5. CASE RecoverConfirmed(e)
    <2> DEFINE pending == LaunchPending(e) /\ "check" \notin Last(e).known
    <2>1. PICK c \in {"confirmed", "unconfirmed"} :
            UpdateAttempt(e, [Recovered(Last(e)) EXCEPT !.cleanup = c])
      BY <1>5 DEF RecoverConfirmed
    <2>2. attempts' \in [Executions -> Seq(Attempts)] /\ approval' = approval
      BY <1>3, <1>4, <2>1
    <2>3. marker' = [marker EXCEPT ![e] = pending]
      BY <1>5 DEF RecoverConfirmed
    <2>4. pending \in BOOLEAN
      OBVIOUS
    <2>5. marker' \in [Executions -> BOOLEAN]
      <3> HIDE DEF pending
      <3> QED BY <2>3, <2>4 DEF TypeOK
    <2> QED BY <1>5, <2>2, <2>5 DEF RecoverConfirmed, TypeOK
  <1>6. CASE RecoverUnconfirmed(e)
    BY <1>3, <1>4, <1>6 DEF RecoverUnconfirmed, TypeOK
  <1> QED BY <1>5, <1>6 DEF Recover

(* So do the events the code does not control.                             *)
LEMMA EnvironmentType ==
  ASSUME TypeOK, Environment
  PROVE  TypeOK'
  <1>1. Gone \in DaemonStates
    BY ExecutionsAssumption DEF Gone, Unborn, DaemonStates, Steps
  <1>2. CASE Edit
    BY <1>2 DEF Edit, TypeOK, storeVars
  <1>3. CASE Reboot
    BY <1>1, <1>3 DEF Reboot, TypeOK, storeVars
  <1>4. ASSUME NEW d \in Daemons, DaemonDies(d)
        PROVE  TypeOK'
    BY <1>1, <1>4 DEF DaemonDies, Exit, TypeOK, storeVars
  <1>5. ASSUME NEW e \in Executions, NEW p \in Processes, ProcessEnds(e, p)
        PROVE  TypeOK'
    BY <1>5 DEF ProcessEnds, TypeOK, storeVars
  <1> QED BY <1>2, <1>3, <1>4, <1>5 DEF Environment

(* The initial values have the variables' types.                           *)
LEMMA InitType == Init => TypeOK
  <1> SUFFICES ASSUME Init PROVE TypeOK
    OBVIOUS
  <1>1. NoIntent \in Intents
    BY WorksAssumption DEF NoIntent, Intents
  <1>2. Unborn \in DaemonStates
    BY ExecutionsAssumption DEF Unborn, DaemonStates, Steps
  <1>3. NoApproval \in Approvals
    BY DEF NoApproval, Approvals
  <1> QED BY <1>1, <1>2, <1>3 DEF Init, TypeOK

(* Every step of the daemons and of their environment keeps the types.     *)
LEMMA NextType == TypeOK /\ [Next]_vars => TypeOK'
  <1> SUFFICES ASSUME TypeOK, [Next]_vars PROVE TypeOK'
    OBVIOUS
  <1>1. CASE Next
    BY <1>1, AdmissionType, ClientType, CollectType, RequestType, RecoverType, EnvironmentType
       DEF Next, DaemonStep, TickApproves
  <1>2. CASE UNCHANGED vars
    BY <1>2 DEF vars, TypeOK
  <1> QED BY <1>1, <1>2

(* Type correctness: whatever races or dies, record.json, the recovery     *)
(* intent, the launch marker and the daemons hold values of their types.   *)
THEOREM TypeCorrect == Spec => []TypeOK
  <1> QED BY InitType, NextType, PTL DEF Spec

-----------------------------------------------------------------------------
(* One unsettled attempt, and nothing running behind a settled one *)

(* What a reader sees after update_attempt, given that types are kept.     *)
LEMMA UpdateReads ==
  ASSUME attempts \in [Executions -> Seq(Attempts)],
         attempts' \in [Executions -> Seq(Attempts)],
         NEW e \in Executions, NEW a, UpdateAttempt(e, a)
  PROVE  /\ attempts[e] # << >> /\ attempts'[e] # << >>
         /\ Last(e) \in Attempts /\ Last(e)' = a
         /\ Len(attempts'[e]) = Len(attempts[e])
         /\ \A i \in 1..Len(attempts[e]) :
              i # Len(attempts[e]) => attempts'[e][i] = attempts[e][i]
         /\ \A f \in Executions : f # e => attempts'[f] = attempts[f]
  <1>1. attempts[e] # << >> /\ Last(e) \in Attempts
    BY LastType DEF UpdateAttempt
  <1>2. attempts' = [attempts EXCEPT ![e] = Amend(attempts[e], a)]
    BY DEF UpdateAttempt
  <1> DEFINE s == attempts[e]
             t == attempts'[e]
  <1>3. s \in Seq(Attempts) /\ t \in Seq(Attempts)
    OBVIOUS
  <1>4. t = [s EXCEPT ![Len(s)] = a]
    BY <1>2 DEF Amend
  <1>5. Len(s) \in 1..Len(s) /\ DOMAIN t = 1..Len(s)
    BY <1>1, <1>3, <1>4
  <1>6. Len(t) = Len(s) /\ t[Len(s)] = a
    BY <1>3, <1>4, <1>5, SMTT(60)
  <1>7. \A i \in 1..Len(s) : i # Len(s) => t[i] = s[i]
    BY <1>3, <1>4, <1>5
  <1>8. t # << >>
    BY <1>5, <1>6
  <1> QED BY <1>1, <1>2, <1>6, <1>7, <1>8 DEF Last

(* Updating an unsettled last attempt cannot create a second one.          *)
LEMMA UpdateKeepsOne ==
  ASSUME attempts \in [Executions -> Seq(Attempts)],
         attempts' \in [Executions -> Seq(Attempts)],
         OneUnsettledAttempt,
         NEW e \in Executions, NEW a, UpdateAttempt(e, a), ~Settled(Last(e))
  PROVE  OneUnsettledAttempt'
  <1>1. /\ attempts[e] # << >> /\ Last(e)' = a
        /\ Len(attempts'[e]) = Len(attempts[e])
        /\ \A i \in 1..Len(attempts[e]) :
             i # Len(attempts[e]) => attempts'[e][i] = attempts[e][i]
        /\ \A f \in Executions : f # e => attempts'[f] = attempts[f]
    BY UpdateReads
  <1>2. ~AllSettled(e)
    <2>1. Len(attempts[e]) \in 1..Len(attempts[e])
      BY <1>1
    <2> QED BY <2>1 DEF AllSettled, Last
  <1>3. \A f \in Executions : f # e => AllSettled(f)
    BY <1>2 DEF OneUnsettledAttempt
  <1>4. \A f \in Executions : f # e => AllSettled(f)'
    BY <1>1, <1>3 DEF AllSettled, Settled
  <1>5. \A i \in 1..Len(attempts'[e]) : ~Settled(attempts'[e][i]) => i = Len(attempts'[e])
    BY <1>1 DEF OneUnsettledAttempt
  <1>6. \A f \in Executions : \A i \in 1..Len(attempts'[f]) :
          ~Settled(attempts'[f][i]) => i = Len(attempts'[f])
    BY <1>1, <1>5 DEF OneUnsettledAttempt
  <1> QED BY <1>4, <1>6 DEF OneUnsettledAttempt, Settled

(* admit creates the only unsettled attempt.                               *)
LEMMA AdmitKeepsOne ==
  ASSUME attempts \in [Executions -> Seq(Attempts)], OneUnsettledAttempt,
         NEW e \in Executions, NEW ev \in Events \cup {NoEvent}, AdmitAttempt(e, ev)
  PROVE  OneUnsettledAttempt'
  <1>1. /\ Len(attempts'[e]) = Len(attempts[e]) + 1
        /\ \A i \in 1..Len(attempts[e]) : attempts'[e][i] = attempts[e][i]
        /\ \A f \in Executions : f # e => attempts'[f] = attempts[f]
        /\ attempts[e] = << >> \/ (attempts[e] # << >> /\ Settled(Last(e)))
        /\ Len(attempts[e]) \in Nat
    BY AdmitEffect
  <1>2. \A f \in Executions : f # e => AllSettled(f)
    BY DEF AdmitAttempt, PeersResolved
  <1>3. \A f \in Executions : f # e => AllSettled(f)'
    BY <1>1, <1>2 DEF AllSettled, Settled
  <1>4. \A i \in 1..Len(attempts[e]) : Settled(attempts[e][i])
    BY <1>1 DEF OneUnsettledAttempt, Last
  <1>5. \A i \in 1..Len(attempts'[e]) : ~Settled(attempts'[e][i]) => i = Len(attempts'[e])
    BY <1>1, <1>4
  <1>6. \A f \in Executions : \A i \in 1..Len(attempts'[f]) :
          ~Settled(attempts'[f][i]) => i = Len(attempts'[f])
    BY <1>1, <1>5 DEF OneUnsettledAttempt
  <1> QED BY <1>3, <1>6 DEF OneUnsettledAttempt, Settled

(* The lock has one holder.                                                *)
LEMMA OneHolder ==
  ASSUME SupervisorInv, NEW d \in Daemons, daemon[d].pc \in Holding
  PROVE  \A c \in Daemons : c # d => daemon[c].pc \notin Holding
  BY DEF SupervisorInv, DaemonRelies

(* A daemon that owns an attempt holds the worktree lock.                  *)
LEMMA OwnersHold == Owning \subseteq Holding
  BY DEF Holding, AliveSteps, Steps, Owning, ClientSteps, CollectSteps, CheckSteps

(* A step of the lock's holder d concerns only d and its execution: it     *)
(* keeps the invariant if it keeps their part of it.                       *)
LEMMA HolderStep ==
  ASSUME SupervisorInv, TypeOK', OneUnsettledAttempt',
         NEW d \in Daemons, daemon[d].pc \in Holding,
         NEW e \in Executions, e = Exec(d),
         NEW s, daemon' = [daemon EXCEPT ![d] = s],
         s.pc \in Holding => wtLock' = d,
         \A f \in Executions : f # e =>
           attempts'[f] = attempts[f] /\ live'[f] = live[f] /\ marker'[f] = marker[f],
         Accounts(e)',
         s.pc \in Owning =>
           /\ s.exec = e
           /\ attempts'[e] # << >>
           /\ Relies(s, Last(e)', live'[e], marker'[e])
  PROVE  SupervisorInv'
  <1>1. daemon'[d] = s /\ \A c \in Daemons : c # d => daemon'[c] = daemon[c]
    BY DEF SupervisorInv, TypeOK
  <1>2. ASSUME NEW f \in Executions PROVE Accounts(f)'
    <2>1. CASE f = e
      BY <2>1
    <2>2. CASE f # e
      <3>1. attempts'[f] = attempts[f] /\ live'[f] = live[f] /\ marker'[f] = marker[f]
        BY <2>2
      <3>2. Accounts(f)
        BY DEF SupervisorInv
      <3> QED BY <3>1, <3>2 DEF Accounts, Agree, Last, Settled
    <2> QED BY <2>1, <2>2
  <1>3. ASSUME NEW c \in Daemons PROVE DaemonRelies(c)'
    <2>1. CASE c = d
      BY <1>1, <2>1 DEF DaemonRelies, Exec, Last
    <2>2. CASE c # d
      BY <1>1, <2>2, OneHolder, OwnersHold DEF DaemonRelies
    <2> QED BY <2>1, <2>2
  <1> QED BY <1>2, <1>3 DEF SupervisorInv

(* A step that leaves attempts, processes and markers alone keeps the      *)
(* invariant if the lock is taken from nobody but the daemon that moves.   *)
LEMMA StoreUnchanged ==
  ASSUME SupervisorInv, TypeOK', UNCHANGED <<attempts, live, marker>>,
         NEW d \in Daemons,
         \A c \in Daemons : c # d => daemon'[c] = daemon[c],
         DaemonRelies(d)',
         wtLock' = wtLock \/ wtLock \notin Daemons \ {d}
  PROVE  SupervisorInv'
  <1>1. OneUnsettledAttempt'
    BY DEF SupervisorInv, OneUnsettledAttempt, AllSettled, Settled
  <1>2. \A f \in Executions : Accounts(f)'
    BY DEF SupervisorInv, Accounts, Agree, Last, Settled
  <1>3. ASSUME NEW c \in Daemons PROVE DaemonRelies(c)'
    <2>1. CASE c = d
      BY <2>1
    <2>2. CASE c # d
      <3>1. daemon'[c] = daemon[c] /\ DaemonRelies(c)
        BY <2>2 DEF SupervisorInv
      <3>2. daemon[c].pc \in Holding => wtLock' = c
        BY <2>2, <3>1 DEF DaemonRelies
      <3> QED BY <3>1, <3>2 DEF DaemonRelies, Exec, Last
    <2> QED BY <2>1, <2>2
  <1> QED BY <1>1, <1>2, <1>3 DEF SupervisorInv

(* A daemon that is gone relies on nothing.                                *)
LEMMA GoneRelies ==
  /\ Gone.pc = "gone"
  /\ "gone" \notin Holding
  /\ "gone" \notin Owning
  BY OwnersHold DEF Gone, Unborn, Holding, AliveSteps

(* A daemon's exit releases its lock only.                                 *)
LEMMA ExitKeepsInv ==
  ASSUME SupervisorInv, TypeOK', UNCHANGED <<attempts, live, marker>>,
         NEW d \in Daemons, Exit(d)
  PROVE  SupervisorInv'
  <1>1. daemon'[d] = Gone /\ \A c \in Daemons : c # d => daemon'[c] = daemon[c]
    BY DEF Exit, SupervisorInv, TypeOK
  <1>2. DaemonRelies(d)'
    BY <1>1, GoneRelies DEF DaemonRelies
  <1>3. wtLock' = wtLock \/ wtLock \notin Daemons \ {d}
    BY DEF Exit
  <1> QED BY <1>1, <1>2, <1>3, StoreUnchanged

(* So does a move between two steps before admission.                      *)
LEMMA GotoKeepsInv ==
  ASSUME SupervisorInv, TypeOK', UNCHANGED <<attempts, live, marker>>,
         NEW d \in Daemons, NEW pc \in PreAdmission, Goto(d, pc),
         wtLock' = d, wtLock \in {NoDaemon, d}
  PROVE  SupervisorInv'
  <1>1. daemon'[d] = [daemon[d] EXCEPT !.pc = pc] /\ daemon[d] \in DaemonStates
    BY DEF Goto, SupervisorInv, TypeOK
  <1>2. daemon'[d].pc = pc /\ \A c \in Daemons : c # d => daemon'[c] = daemon[c]
    BY <1>1 DEF Goto, SupervisorInv, TypeOK, DaemonStates
  <1>3. pc \notin Owning
    BY DEF PreAdmission, Owning, ClientSteps, CollectSteps, CheckSteps
  <1>4. DaemonRelies(d)'
    BY <1>2, <1>3 DEF DaemonRelies
  <1>5. wtLock' = wtLock \/ wtLock \notin Daemons \ {d}
    BY NoDaemonAssumption
  <1> QED BY <1>2, <1>4, <1>5, StoreUnchanged

(* Admission preserves the invariant.                                      *)
LEMMA AdmissionInv ==
  ASSUME SupervisorInv, NEW d \in Daemons, AdmissionStep(d)
  PROVE  SupervisorInv'
  <1>0. TypeOK /\ TypeOK' /\ OneUnsettledAttempt
    BY AdmissionType DEF SupervisorInv
  <1>1. /\ Exec(d) \in Executions /\ daemon[d].event \in Events \cup {NoEvent}
        /\ attempts \in [Executions -> Seq(Attempts)] /\ daemon[d] \in DaemonStates
    BY <1>0 DEF TypeOK, DaemonStates, Exec
  <1>2. {"locked", "consumed", "authorized"} \subseteq Holding
    BY DEF Holding, AliveSteps, Steps, PreAdmission
  <1>3. {"locked", "consumed", "authorized"} \subseteq PreAdmission
    BY DEF PreAdmission
  <1>4. daemon[d].pc \in Holding => wtLock = d
    BY DEF SupervisorInv, DaemonRelies
  <1>5. CASE TakeWorktree(d)
    <2>1. CASE PeersResolved(Exec(d))
      BY <1>0, <1>3, <1>5, <2>1, GotoKeepsInv DEF TakeWorktree, storeVars
    <2>2. CASE ~PeersResolved(Exec(d))
      BY <1>0, <1>5, <2>2, ExitKeepsInv DEF TakeWorktree, storeVars
    <2> QED BY <2>1, <2>2
  <1>6. CASE AdmissionTimesOut(d)
    BY <1>0, <1>6, ExitKeepsInv DEF AdmissionTimesOut, storeVars
  <1>7. CASE Consume(d)
    BY <1>0, <1>2, <1>3, <1>4, <1>7, GotoKeepsInv DEF Consume, At, storeVars
  <1>8. CASE ConsumeInvalidates(d)
    BY <1>0, <1>8, ExitKeepsInv DEF ConsumeInvalidates, storeVars
  <1>9. CASE Refuse(d)
    BY <1>0, <1>9, ExitKeepsInv DEF Refuse, storeVars
  <1>10. CASE Authorize(d)
    BY <1>0, <1>2, <1>3, <1>4, <1>10, GotoKeepsInv DEF Authorize, AuthorizeRetry, At
  <1>11. CASE Admit(d)
    <2> DEFINE s == [daemon[d] EXCEPT !.pc = "admitted"]
    <2>0. PICK e \in Executions : e = Exec(d)
      BY <1>1
    <2>1. /\ AdmitAttempt(e, daemon[d].event) /\ daemon' = [daemon EXCEPT ![d] = s]
          /\ UNCHANGED <<live, marker, wtLock>>
      BY <1>11, <2>0 DEF Admit, Goto
    <2>2. daemon[d].pc \in Holding
      BY <1>2, <1>11 DEF Admit, AdmitFrom, At
    <2>3. s.pc = "admitted" /\ s.exec = e /\ s.clean = daemon[d].clean
      BY <1>1, <2>0 DEF DaemonStates, Exec
    <2>4. /\ attempts'[e] # << >> /\ Last(e)' = FreshAttempt(daemon[d].event)
          /\ \A f \in Executions : f # e => attempts'[f] = attempts[f]
          /\ attempts[e] = << >> \/ (attempts[e] # << >> /\ Settled(Last(e)))
      BY <1>0, <1>1, <2>1, AdmitEffect
    <2>5. live[e] = {} /\ ~marker[e]
      BY <1>1, <2>4 DEF SupervisorInv, Accounts, Agree
    <2>6. OneUnsettledAttempt'
      BY <1>0, <1>1, <2>1, AdmitKeepsOne
    <2>7. Accounts(e)'
      BY <2>1, <2>4, <2>5 DEF Accounts, Agree, FreshAttempt, Settled, Terminal
    <2>8. Relies(s, Last(e)', live'[e], marker'[e])
      BY <2>1, <2>3, <2>4, <2>5 DEF Relies, FreshAttempt, Terminal, CollectSteps, CheckSteps
    <2> HIDE DEF s
    <2> QED BY <1>0, <1>1, <1>4, <2>0, <2>1, <2>2, <2>3, <2>4, <2>6, <2>7, <2>8, HolderStep
  <1> QED BY <1>5, <1>6, <1>7, <1>8, <1>9, <1>10, <1>11 DEF AdmissionStep

(* What a daemon that owns an attempt knows.                               *)
LEMMA OwnerFacts ==
  ASSUME SupervisorInv, NEW d \in Daemons, daemon[d].pc \in Owning
  PROVE  \E e \in Executions :
           /\ e = Exec(d) /\ e = daemon[d].exec /\ daemon[d] \in DaemonStates
           /\ attempts[e] # << >> /\ Last(e) \in Attempts /\ ~Settled(Last(e))
           /\ Agree(Last(e), live[e], marker[e])
           /\ Relies(daemon[d], Last(e), live[e], marker[e])
           /\ live[e] \in SUBSET Processes /\ marker[e] \in BOOLEAN
           /\ daemon[d].pc \in Holding /\ wtLock = d
  <1>1. Exec(d) \in Executions /\ daemon[d] \in DaemonStates
    BY DEF SupervisorInv, TypeOK, DaemonStates, Exec
  <1>2. PICK e \in Executions : e = Exec(d)
    BY <1>1
  <1>3. /\ attempts[e] # << >> /\ Relies(daemon[d], Last(e), live[e], marker[e])
        /\ daemon[d].pc \in Holding /\ wtLock = d
    BY <1>2, OwnersHold DEF SupervisorInv, DaemonRelies
  <1>4. Last(e) \in Attempts
    BY <1>3, LastType DEF SupervisorInv, TypeOK
  <1>5. ~Settled(Last(e))
    BY <1>3 DEF Relies, Settled
  <1>6. Agree(Last(e), live[e], marker[e])
    BY <1>3 DEF SupervisorInv, Accounts
  <1>7. live[e] \in SUBSET Processes /\ marker[e] \in BOOLEAN
    BY DEF SupervisorInv, TypeOK
  <1> QED BY <1>1, <1>2, <1>3, <1>4, <1>5, <1>6, <1>7 DEF Exec

(* A move of the owner d to s that leaves a as the last attempt keeps the  *)
(* invariant if a agrees with its processes and its marker.                *)
LEMMA OwnerMove ==
  ASSUME SupervisorInv, TypeOK',
         NEW d \in Daemons, daemon[d].pc \in Owning,
         NEW e \in Executions, e = Exec(d),
         NEW s, daemon' = [daemon EXCEPT ![d] = s],
         s.pc \in Holding => wtLock' = d,
         NEW a, UpdateAttempt(e, a) \/ (attempts' = attempts /\ a = Last(e)),
         \A f \in Executions : f # e => live'[f] = live[f] /\ marker'[f] = marker[f],
         Agree(a, live'[e], marker'[e]),
         s.pc \in Owning => s.exec = e /\ Relies(s, a, live'[e], marker'[e])
  PROVE  SupervisorInv'
  <1>1. /\ attempts \in [Executions -> Seq(Attempts)]
        /\ attempts' \in [Executions -> Seq(Attempts)]
        /\ OneUnsettledAttempt /\ daemon[d].pc \in Holding
    BY OwnersHold DEF SupervisorInv, TypeOK
  <1>2. attempts[e] # << >> /\ ~Settled(Last(e))
    BY OwnerFacts
  <1>3. /\ OneUnsettledAttempt'
        /\ attempts'[e] # << >> /\ Last(e)' = a
        /\ \A f \in Executions : f # e => attempts'[f] = attempts[f]
    <2>1. CASE UpdateAttempt(e, a)
      <3>1. OneUnsettledAttempt'
        BY <1>1, <1>2, <2>1, UpdateKeepsOne
      <3>2. /\ attempts'[e] # << >> /\ Last(e)' = a
            /\ \A f \in Executions : f # e => attempts'[f] = attempts[f]
        BY <1>1, <2>1, UpdateReads
      <3> QED BY <3>1, <3>2
    <2>2. CASE attempts' = attempts /\ a = Last(e)
      <3>1. OneUnsettledAttempt'
        BY <2>2 DEF SupervisorInv, OneUnsettledAttempt, AllSettled, Settled
      <3>2. Last(e)' = a
        BY <2>2 DEF Last
      <3> QED BY <1>2, <2>2, <3>1, <3>2
    <2> QED BY <2>1, <2>2
  <1>4. Accounts(e)'
    BY <1>3 DEF Accounts
  <1> QED BY <1>1, <1>3, <1>4, HolderStep

(* A terminal write keeps it if its attempt agrees.                        *)
LEMMA OwnerConcludes ==
  ASSUME SupervisorInv, TypeOK',
         NEW d \in Daemons, daemon[d].pc \in Owning,
         NEW e \in Executions, e = Exec(d),
         NEW a, Conclude(d, a), UNCHANGED <<live, marker>>, Agree(a, live[e], marker[e])
  PROVE  SupervisorInv'
  <1>1. UpdateAttempt(e, a) /\ daemon' = [daemon EXCEPT ![d] = Gone]
    BY DEF Conclude, Exit
  <1> QED BY <1>1, GoneRelies, OwnerMove

(* So does a step to pc on which the daemon may rely.                      *)
LEMMA OwnerGoes ==
  ASSUME SupervisorInv, TypeOK',
         NEW d \in Daemons, daemon[d].pc \in Owning,
         NEW e \in Executions, e = Exec(d),
         NEW pc \in Steps, Goto(d, pc), UNCHANGED wtLock,
         \A f \in Executions : f # e => live'[f] = live[f] /\ marker'[f] = marker[f],
         NEW a, UpdateAttempt(e, a) \/ (attempts' = attempts /\ a = Last(e)),
         Agree(a, live'[e], marker'[e]),
         Relies([daemon[d] EXCEPT !.pc = pc], a, live'[e], marker'[e])
  PROVE  SupervisorInv'
  <1> DEFINE s == [daemon[d] EXCEPT !.pc = pc]
  <1>1. daemon[d] \in DaemonStates /\ wtLock = d /\ e = daemon[d].exec
    BY OwnerFacts
  <1>2. daemon' = [daemon EXCEPT ![d] = s] /\ s.exec = e
    BY <1>1 DEF Goto, DaemonStates
  <1>3. Relies(s, a, live'[e], marker'[e])
    OBVIOUS
  <1> HIDE DEF s
  <1> QED BY <1>1, <1>2, <1>3, OwnerMove

(* The supervision of the client preserves the invariant.                  *)
LEMMA ClientInv ==
  ASSUME SupervisorInv, NEW d \in Daemons, ClientStep(d)
  PROVE  SupervisorInv'
  <1>0. TypeOK /\ TypeOK'
    BY ClientType DEF SupervisorInv
  <1>1. daemon[d].pc \in {"admitted", "ready", "launched", "running"}
    BY DEF ClientStep, RecordSupervisor, LaunchFails, Launch, RecordLaunch,
           OwnershipLost, ObserveExit, ExitObserved, At
  <1>2. daemon[d].pc \in Owning
    BY <1>1 DEF Owning, ClientSteps
  <1>3. PICK e \in Executions :
           /\ e = Exec(d) /\ e = daemon[d].exec /\ daemon[d] \in DaemonStates
           /\ attempts[e] # << >> /\ Last(e) \in Attempts /\ ~Settled(Last(e))
           /\ Agree(Last(e), live[e], marker[e])
           /\ Relies(daemon[d], Last(e), live[e], marker[e])
           /\ live[e] \in SUBSET Processes /\ marker[e] \in BOOLEAN
           /\ daemon[d].pc \in Holding /\ wtLock = d
    BY <1>2, OwnerFacts
  <1>4. ASSUME NEW pc \in Steps
        PROVE  /\ [daemon[d] EXCEPT !.pc = pc].pc = pc
               /\ [daemon[d] EXCEPT !.pc = pc].exec = e
    BY <1>3 DEF DaemonStates
  <1>5. {"ready", "launched", "running", "collecting"} \subseteq Steps
    BY DEF Steps, Owning, ClientSteps, CollectSteps
  <1>6. \A a : Conclude(d, a) /\ UNCHANGED <<live, marker>> /\ Agree(a, live[e], marker[e])
               => SupervisorInv'
    BY <1>0, <1>2, <1>3, OwnerConcludes
  <1>7. ASSUME NEW pc \in Steps, Goto(d, pc), UNCHANGED <<marker, wtLock>>,
               \A f \in Executions : f # e => live'[f] = live[f],
               NEW a, UpdateAttempt(e, a) \/ (attempts' = attempts /\ a = Last(e)),
               Agree(a, live'[e], marker[e]),
               Relies([daemon[d] EXCEPT !.pc = pc], a, live'[e], marker[e])
        PROVE  SupervisorInv'
    BY <1>0, <1>2, <1>3, <1>7, OwnerGoes
  <1>8. CASE RecordSupervisor(d)
    <2> DEFINE a == [Last(e) EXCEPT !.supervisor = d]
               s == [daemon[d] EXCEPT !.pc = "ready"]
    <2>1. /\ UpdateAttempt(e, a) /\ Goto(d, "ready") /\ UNCHANGED <<live, marker, wtLock>>
          /\ daemon[d].pc = "admitted"
      BY <1>3, <1>8 DEF RecordSupervisor, At
    <2>2. a.status = Last(e).status /\ a.known = Last(e).known /\ a.cleanup = Last(e).cleanup
      BY <1>3 DEF Attempts
    <2>3. Agree(a, live[e], marker[e])
      BY <1>3, <2>2 DEF Agree, Settled
    <2>4. s.pc = "ready"
      BY <1>4, <1>5
    <2>5. Relies(s, a, live[e], marker[e])
      <3> HIDE DEF a, s
      <3> QED BY <1>3, <2>1, <2>2, <2>4 DEF Relies, CollectSteps, CheckSteps
    <2> QED BY <1>5, <1>7, <2>1, <2>3, <2>5
  <1>9. CASE LaunchFails(d)
    <2> DEFINE a == [Outcome(e, "blocked", "client_not_launched") EXCEPT !.cleanup = "confirmed"]
    <2>1. Conclude(d, a) /\ UNCHANGED <<live, marker>> /\ daemon[d].pc = "ready"
      BY <1>3, <1>9 DEF LaunchFails, At
    <2>2. a.known = Last(e).known
      BY <1>3 DEF Attempts, Outcome
    <2>3. Agree(a, live[e], marker[e])
      <3> HIDE DEF a
      <3> QED BY <1>3, <2>1, <2>2 DEF Agree, Relies
    <2> QED BY <1>6, <2>1, <2>3
  <1>10. CASE Launch(d)
    <2> DEFINE s == [daemon[d] EXCEPT !.pc = "launched"]
    <2>1. /\ attempts' = attempts /\ Goto(d, "launched") /\ UNCHANGED <<marker, wtLock>>
          /\ daemon[d].pc = "ready"
          /\ live'[e] = live[e] \cup {"client"}
          /\ \A f \in Executions : f # e => live'[f] = live[f]
      BY <1>0, <1>3, <1>10 DEF Launch, At, storeVars, TypeOK
    <2>2. Agree(Last(e), live'[e], marker[e])
      BY <1>3, <2>1 DEF Agree
    <2>3. s.pc = "launched"
      BY <1>4, <1>5
    <2>4. Relies(s, Last(e), live'[e], marker[e])
      <3> HIDE DEF s
      <3> QED BY <1>3, <2>1, <2>3 DEF Relies, CollectSteps, CheckSteps
    <2> QED BY <1>5, <1>7, <2>1, <2>2, <2>4
  <1>11. CASE RecordLaunch(d)
    <2> DEFINE a == [Last(e) EXCEPT !.status = "running", !.known = @ \cup {"client"}]
               s == [daemon[d] EXCEPT !.pc = "running"]
    <2>1. /\ UpdateAttempt(e, a) /\ Goto(d, "running") /\ UNCHANGED <<live, marker, wtLock>>
          /\ daemon[d].pc = "launched"
      BY <1>3, <1>11 DEF RecordLaunch, At
    <2>2. a.status = "running" /\ a.known = Last(e).known \cup {"client"}
      BY <1>3 DEF Attempts
    <2>3. a.status \notin Terminal
      BY <2>2 DEF Terminal
    <2>4. Agree(a, live[e], marker[e])
      <3> HIDE DEF a
      <3> QED BY <1>3, <2>2, <2>3 DEF Agree, Settled
    <2>5. s.pc = "running"
      BY <1>4, <1>5
    <2>6. Relies(s, a, live[e], marker[e])
      <3> HIDE DEF a, s
      <3> QED BY <1>3, <2>1, <2>2, <2>3, <2>5 DEF Relies, CollectSteps, CheckSteps
    <2> QED BY <1>5, <1>7, <2>1, <2>4, <2>6
  <1>12. CASE OwnershipLost(d)
    <2>1. PICK known \in {Last(e).known, Last(e).known \cup {"client"}} :
            Conclude(d, [Outcome(e, "interrupted", "exit_unobservable")
                           EXCEPT !.cleanup = "unconfirmed", !.known = known])
      BY <1>3, <1>12 DEF OwnershipLost
    <2> DEFINE a == [Outcome(e, "interrupted", "exit_unobservable")
                       EXCEPT !.cleanup = "unconfirmed", !.known = known]
    <2>2. a.known = known /\ a.cleanup = "unconfirmed"
      BY <1>3 DEF Outcome, Attempts
    <2>3. Agree(a, live[e], marker[e])
      <3> HIDE DEF a
      <3> QED BY <1>3, <2>2 DEF Agree, Settled
    <2> QED BY <1>6, <1>12, <2>1, <2>3 DEF OwnershipLost
  <1>13. CASE ObserveExit(d)
    <2>1. PICK outcome \in {"exit0", "exit1", "late"}, confirmed \in BOOLEAN :
            ExitObserved(d, outcome, confirmed)
      BY <1>13 DEF ObserveExit
    <2> DEFINE a == ExitRecord(e, outcome, confirmed)
               s == [daemon[d] EXCEPT !.pc = "collecting"]
    <2>2. /\ daemon[d].pc = "running" /\ UNCHANGED <<live, marker>>
          /\ confirmed => "client" \notin live[e]
      BY <1>3, <2>1 DEF ExitObserved, At
    <2>3. a.known = Last(e).known /\ (a.cleanup = "confirmed" => confirmed)
      BY <1>3 DEF ExitRecord, Outcome, Attempts
    <2>4. a.status = "running" => confirmed
      BY <1>3 DEF ExitRecord, Outcome, Attempts, Collects, SalvagesAt
    <2>5. confirmed => live[e] = {} /\ ~marker[e]
      BY <1>3, <2>2 DEF Relies, Processes
    <2>6. Agree(a, live[e], marker[e])
      <3> HIDE DEF a
      <3> QED BY <1>3, <2>3, <2>5 DEF Agree, Settled
    <2>7. CASE a.status = "running"
      <3>1. UpdateAttempt(e, a) /\ Goto(d, "collecting") /\ UNCHANGED wtLock
        BY <1>3, <2>1, <2>7 DEF ExitObserved
      <3>2. s.pc = "collecting"
        BY <1>4, <1>5
      <3>3. Relies(s, a, live[e], marker[e])
        <4> HIDE DEF a, s
        <4> QED BY <1>3, <2>2, <2>3, <2>4, <2>5, <2>7, <3>2
                DEF Relies, Terminal, CollectSteps, CheckSteps
      <3> QED BY <1>5, <1>7, <2>2, <2>6, <3>1, <3>3
    <2>8. CASE a.status # "running"
      BY <1>3, <1>6, <2>1, <2>2, <2>6, <2>8 DEF ExitObserved
    <2> QED BY <2>7, <2>8
  <1> QED BY <1>8, <1>9, <1>10, <1>11, <1>12, <1>13 DEF ClientStep

(* Collection preserves the invariant.                                     *)
LEMMA CollectInv ==
  ASSUME SupervisorInv, NEW d \in Daemons, CollectStep(d)
  PROVE  SupervisorInv'
  <1>0. TypeOK /\ TypeOK'
    BY CollectType DEF SupervisorInv
  <1>1. daemon[d].pc \in CollectSteps
    BY DEF CollectStep, MarkCheck, Collecting, DoubtCleanup, CheckNotLaunched, LaunchCheck,
           RecordCheck, ClearMarker, RecordCheckExit, SettleCheck, CheckLost, Promote,
           FinishCollection, At, CollectSteps, CheckSteps
  <1>2. daemon[d].pc \in Owning
    BY <1>1 DEF Owning
  <1>3. PICK e \in Executions :
           /\ e = Exec(d) /\ e = daemon[d].exec /\ daemon[d] \in DaemonStates
           /\ attempts[e] # << >> /\ Last(e) \in Attempts /\ ~Settled(Last(e))
           /\ Agree(Last(e), live[e], marker[e])
           /\ Relies(daemon[d], Last(e), live[e], marker[e])
           /\ live[e] \in SUBSET Processes /\ marker[e] \in BOOLEAN
           /\ daemon[d].pc \in Holding /\ wtLock = d
    BY <1>2, OwnerFacts
  <1>4. ASSUME NEW pc \in Steps
        PROVE  /\ [daemon[d] EXCEPT !.pc = pc].pc = pc
               /\ [daemon[d] EXCEPT !.pc = pc].clean = daemon[d].clean
    BY <1>3 DEF DaemonStates
  <1>5. {"collecting", "check_failed", "promoted", "check_marked", "check_ready",
         "check_spawned", "check_received", "check_running", "check_exited"} \subseteq Steps
    BY DEF Steps, Owning, CollectSteps, CheckSteps
  <1>6. ASSUME NEW a, Conclude(d, a), UNCHANGED <<live, marker>>, Agree(a, live[e], marker[e])
        PROVE  SupervisorInv'
    BY <1>0, <1>2, <1>3, <1>6, OwnerConcludes
  <1>7. ASSUME NEW pc \in Steps, Goto(d, pc), UNCHANGED wtLock,
               \A f \in Executions : f # e => live'[f] = live[f] /\ marker'[f] = marker[f],
               NEW a, UpdateAttempt(e, a) \/ (attempts' = attempts /\ a = Last(e)),
               Agree(a, live'[e], marker'[e]),
               Relies([daemon[d] EXCEPT !.pc = pc], a, live'[e], marker'[e])
        PROVE  SupervisorInv'
    BY <1>0, <1>2, <1>3, <1>7, OwnerGoes
  <1>8. ASSUME NEW s, daemon' = [daemon EXCEPT ![d] = s], s.exec = e, UNCHANGED wtLock,
               \A f \in Executions : f # e => live'[f] = live[f] /\ marker'[f] = marker[f],
               NEW a, UpdateAttempt(e, a) \/ (attempts' = attempts /\ a = Last(e)),
               Agree(a, live'[e], marker'[e]),
               Relies(s, a, live'[e], marker'[e])
        PROVE  SupervisorInv'
    BY <1>0, <1>2, <1>3, <1>8, OwnerMove
  <1>9. CASE MarkCheck(d)
    <2> DEFINE a == [Last(e) EXCEPT !.known = @ \ {"check"}, !.checks = @ + 1]
               s == [daemon[d] EXCEPT !.pc = "check_marked"]
    <2>1. /\ UpdateAttempt(e, a) /\ Goto(d, "check_marked") /\ UNCHANGED <<live, wtLock>>
          /\ daemon[d].pc = "collecting" /\ marker'[e] = TRUE
          /\ \A f \in Executions : f # e => marker'[f] = marker[f]
      BY <1>0, <1>3, <1>9 DEF MarkCheck, Collecting, At, TypeOK
    <2>2. /\ a.status = Last(e).status /\ a.cleanup = Last(e).cleanup
          /\ a.known = Last(e).known \ {"check"}
      BY <1>3 DEF Attempts
    <2>3. live[e] = {} /\ "client" \in Last(e).known /\ Last(e).status \notin Terminal
      BY <1>3, <2>1 DEF Relies, CollectSteps
    <2>4. Agree(a, live'[e], marker'[e])
      <3> HIDE DEF a
      <3> QED BY <2>1, <2>2, <2>3 DEF Agree, Settled
    <2>5. s.pc = "check_marked"
      BY <1>4, <1>5
    <2>6. Relies(s, a, live'[e], marker'[e])
      <3> HIDE DEF a, s
      <3> QED BY <2>1, <2>2, <2>3, <2>5 DEF Relies, CollectSteps, CheckSteps
    <2> QED BY <1>5, <1>7, <2>1, <2>4, <2>6
  <1>10. CASE DoubtCleanup(d)
    <2> DEFINE a == [Last(e) EXCEPT !.cleanup = "unconfirmed"]
               s == [daemon[d] EXCEPT !.pc = "check_ready"]
    <2>1. /\ UpdateAttempt(e, a) /\ Goto(d, "check_ready") /\ UNCHANGED <<live, marker, wtLock>>
          /\ daemon[d].pc = "check_marked"
      BY <1>3, <1>10 DEF DoubtCleanup, At
    <2>2. a.status = Last(e).status /\ a.cleanup = "unconfirmed" /\ a.known = Last(e).known
      BY <1>3 DEF Attempts
    <2>3. Agree(a, live'[e], marker'[e])
      <3> HIDE DEF a
      <3> QED BY <1>3, <2>1, <2>2 DEF Agree, Settled
    <2>4. s.pc = "check_ready"
      BY <1>4, <1>5
    <2>5. Relies(s, a, live'[e], marker'[e])
      <3> HIDE DEF a, s
      <3> QED BY <1>3, <2>1, <2>2, <2>4 DEF Relies, CollectSteps, CheckSteps
    <2> QED BY <1>5, <1>7, <2>1, <2>3, <2>5
  <1>11. CASE CheckNotLaunched(d)
    <2>1. PICK out \in {"fail", "late"} : CheckOutcome(d, out, TRUE)
      BY <1>11 DEF CheckNotLaunched
    <2> DEFINE s == [daemon[d] EXCEPT !.pc = "check_exited", !.out = out, !.clean = TRUE]
    <2>2. /\ daemon' = [daemon EXCEPT ![d] = s] /\ attempts' = attempts /\ UNCHANGED <<live, wtLock>>
          /\ daemon[d].pc = "check_ready" /\ marker'[e] = FALSE
          /\ \A f \in Executions : f # e => marker'[f] = marker[f]
      BY <1>0, <1>3, <1>11, <2>1 DEF CheckNotLaunched, CheckOutcome, At, TypeOK, storeVars
    <2>3. s.pc = "check_exited" /\ s.exec = e /\ s.clean = TRUE
      BY <1>3 DEF DaemonStates
    <2>4. live[e] = {} /\ Last(e).cleanup = "unconfirmed"
      BY <1>3, <2>2 DEF Relies, CheckSteps
    <2>5. Agree(Last(e), live'[e], marker'[e])
      BY <1>3, <2>2, <2>4 DEF Agree
    <2>6. Relies(s, Last(e), live'[e], marker'[e])
      <3> HIDE DEF s
      <3> QED BY <1>3, <2>2, <2>3, <2>4 DEF Relies, CollectSteps, CheckSteps
    <2> HIDE DEF s
    <2> QED BY <1>8, <2>2, <2>3, <2>5, <2>6
  <1>12. CASE LaunchCheck(d)
    <2> DEFINE s == [daemon[d] EXCEPT !.pc = "check_spawned"]
    <2>1. /\ attempts' = attempts /\ Goto(d, "check_spawned") /\ UNCHANGED <<marker, wtLock>>
          /\ daemon[d].pc = "check_ready" /\ live'[e] = live[e] \cup {"check"}
          /\ \A f \in Executions : f # e => live'[f] = live[f]
      BY <1>0, <1>3, <1>12 DEF LaunchCheck, At, storeVars, TypeOK
    <2>2. marker[e] /\ live[e] = {}
      BY <1>3, <2>1 DEF Relies
    <2>3. Agree(Last(e), live'[e], marker'[e])
      BY <1>3, <2>1, <2>2 DEF Agree
    <2>4. s.pc = "check_spawned"
      BY <1>4, <1>5
    <2>5. Relies(s, Last(e), live'[e], marker'[e])
      <3> HIDE DEF s
      <3> QED BY <1>3, <2>1, <2>2, <2>4 DEF Relies, CollectSteps, CheckSteps
    <2> QED BY <1>5, <1>7, <2>1, <2>3, <2>5
  <1>13. CASE RecordCheck(d)
    <2> DEFINE a == [Last(e) EXCEPT !.known = @ \cup {"check"}]
               s == [daemon[d] EXCEPT !.pc = "check_received"]
    <2>1. /\ UpdateAttempt(e, a) /\ Goto(d, "check_received") /\ UNCHANGED <<live, marker, wtLock>>
          /\ daemon[d].pc = "check_spawned"
      BY <1>3, <1>13 DEF RecordCheck, At
    <2>2. /\ a.status = Last(e).status /\ a.cleanup = Last(e).cleanup
          /\ a.known = Last(e).known \cup {"check"}
      BY <1>3 DEF Attempts
    <2>3. "client" \in Last(e).known
      BY <1>3, <2>1 DEF Relies, CollectSteps, CheckSteps
    <2>4. Agree(a, live'[e], marker'[e])
      <3> HIDE DEF a
      <3> QED BY <1>3, <2>1, <2>2, <2>3 DEF Agree, Settled
    <2>5. s.pc = "check_received"
      BY <1>4, <1>5
    <2>6. Relies(s, a, live'[e], marker'[e])
      <3> HIDE DEF a, s
      <3> QED BY <1>3, <2>1, <2>2, <2>3, <2>5 DEF Relies, CollectSteps, CheckSteps
    <2> QED BY <1>5, <1>7, <2>1, <2>4, <2>6
  <1>14. CASE ClearMarker(d)
    <2> DEFINE s == [daemon[d] EXCEPT !.pc = "check_running"]
    <2>1. /\ attempts' = attempts /\ Goto(d, "check_running") /\ UNCHANGED <<live, wtLock>>
          /\ daemon[d].pc = "check_received" /\ marker'[e] = FALSE
          /\ \A f \in Executions : f # e => marker'[f] = marker[f]
      BY <1>0, <1>3, <1>14 DEF ClearMarker, At, storeVars, TypeOK
    <2>2. "check" \in Last(e).known
      BY <1>3, <2>1 DEF Relies
    <2>3. Agree(Last(e), live'[e], marker'[e])
      BY <1>3, <2>1, <2>2 DEF Agree
    <2>4. s.pc = "check_running"
      BY <1>4, <1>5
    <2>5. Relies(s, Last(e), live'[e], marker'[e])
      <3> HIDE DEF s
      <3> QED BY <1>3, <2>1, <2>2, <2>4 DEF Relies, CollectSteps, CheckSteps
    <2> QED BY <1>5, <1>7, <2>1, <2>3, <2>5
  <1>15. CASE RecordCheckExit(d)
    <2>1. PICK out \in {"ok", "fail", "late"}, clean \in BOOLEAN :
            /\ "check" \in live[e] => out = "late" /\ ~clean
            /\ UpdateAttempt(e, [Last(e) EXCEPT !.lateCheck = @ \/ out = "late"])
            /\ CheckOutcome(d, out, clean)
      BY <1>3, <1>15 DEF RecordCheckExit
    <2> DEFINE a == [Last(e) EXCEPT !.lateCheck = @ \/ out = "late"]
               s == [daemon[d] EXCEPT !.pc = "check_exited", !.out = out, !.clean = clean]
    <2>2. /\ daemon' = [daemon EXCEPT ![d] = s] /\ UpdateAttempt(e, a)
          /\ daemon[d].pc = "check_running" /\ UNCHANGED <<live, marker, wtLock>>
      BY <1>15, <2>1 DEF RecordCheckExit, CheckOutcome, At
    <2>3. s.pc = "check_exited" /\ s.exec = e /\ s.clean = clean
      BY <1>3 DEF DaemonStates
    <2>4. a.status = Last(e).status /\ a.cleanup = Last(e).cleanup /\ a.known = Last(e).known
      BY <1>3 DEF Attempts
    <2>5. clean => live[e] = {}
      BY <1>3, <2>1, <2>2 DEF Relies, CollectSteps, CheckSteps, Processes
    <2>6. Agree(a, live'[e], marker'[e])
      <3> HIDE DEF a
      <3> QED BY <1>3, <2>2, <2>4 DEF Agree, Settled
    <2>7. Relies(s, a, live'[e], marker'[e])
      <3> HIDE DEF a, s
      <3> QED BY <1>3, <2>2, <2>3, <2>4, <2>5 DEF Relies, CollectSteps, CheckSteps
    <2> HIDE DEF a, s
    <2> QED BY <1>8, <2>2, <2>3, <2>6, <2>7
  <1>16. CASE SettleCheck(d)
    <2> DEFINE out == IF daemon[d].out \in {"ok", "fail"} /\ ~daemon[d].clean THEN "lost"
                      ELSE daemon[d].out
               good == [daemon[d] EXCEPT !.pc = "collecting", !.out = "none", !.clean = FALSE]
               bad  == [daemon[d] EXCEPT !.pc = "check_failed", !.out = out, !.clean = FALSE]
    <2>1. PICK s : /\ daemon' = [daemon EXCEPT ![d] = s] /\ s.exec = e
                   /\ \/ s.pc = "collecting" /\ daemon[d].clean
                      \/ s.pc = "check_failed"
      <3>1. daemon' = [daemon EXCEPT ![d] = IF out = "ok" THEN good ELSE bad]
        BY <1>16 DEF SettleCheck
      <3>2. good.exec = e /\ good.pc = "collecting"
        BY <1>3 DEF DaemonStates
      <3>3. bad.exec = e /\ bad.pc = "check_failed"
        BY <1>3 DEF DaemonStates
      <3>4. out = "ok" => daemon[d].clean
        BY <1>3 DEF DaemonStates
      <3> HIDE DEF out, good, bad
      <3>5. CASE out = "ok"
        BY <3>1, <3>2, <3>4, <3>5
      <3>6. CASE out # "ok"
        BY <3>1, <3>3, <3>6
      <3> QED BY <3>5, <3>6
    <2> HIDE DEF out, good, bad
    <2>2. PICK a : /\ UpdateAttempt(e, a)
                   /\ a.status = Last(e).status /\ a.known = Last(e).known
                   /\ ~daemon[d].clean => a.cleanup = Last(e).cleanup
      BY <1>3, <1>16 DEF SettleCheck, Attempts
    <2>3. daemon[d].pc = "check_exited" /\ UNCHANGED <<live, marker, wtLock>>
      BY <1>16 DEF SettleCheck, At
    <2>4. /\ ~marker[e] /\ Last(e).cleanup = "unconfirmed" /\ Last(e).status \notin Terminal
          /\ daemon[d].clean => live[e] = {}
          /\ "client" \in Last(e).known /\ "client" \notin live[e]
      BY <1>3, <2>3 DEF Relies, CollectSteps, CheckSteps
    <2>5. Agree(a, live'[e], marker'[e])
      BY <1>3, <2>2, <2>3, <2>4 DEF Agree, Settled
    <2>6. Relies(s, a, live'[e], marker'[e])
      BY <2>1, <2>2, <2>3, <2>4 DEF Relies, CollectSteps, CheckSteps
    <2> QED BY <1>8, <2>1, <2>2, <2>3, <2>5, <2>6
  <1>17. CASE CheckLost(d)
    <2>1. PICK known \in {Last(e).known, Last(e).known \cup {"check"}} :
            UpdateAttempt(e, [Last(e) EXCEPT !.known = known])
      BY <1>3, <1>17 DEF CheckLost
    <2>2. PICK out \in {"lost", "fail"} :
            daemon' = [daemon EXCEPT ![d] = [daemon[d] EXCEPT !.pc = "check_failed", !.out = out]]
      BY <1>17 DEF CheckLost
    <2> DEFINE a == [Last(e) EXCEPT !.known = known]
               s == [daemon[d] EXCEPT !.pc = "check_failed", !.out = out]
    <2>3. s.pc = "check_failed" /\ s.exec = e
      BY <1>3 DEF DaemonStates
    <2>4. a.status = Last(e).status /\ a.cleanup = Last(e).cleanup /\ a.known = known
      BY <1>3 DEF Attempts
    <2>5. daemon[d].pc \in {"check_spawned", "check_received", "check_running"}
          /\ UNCHANGED <<live, marker, wtLock>>
      BY <1>17 DEF CheckLost
    <2>6. /\ Last(e).cleanup = "unconfirmed" /\ Last(e).status \notin Terminal
          /\ "client" \in Last(e).known /\ "client" \notin live[e]
      BY <1>3, <2>5 DEF Relies, CollectSteps, CheckSteps
    <2>7. Agree(a, live'[e], marker'[e])
      <3> HIDE DEF a
      <3> QED BY <1>3, <2>1, <2>4, <2>5, <2>6 DEF Agree, Settled
    <2>8. Relies(s, a, live'[e], marker'[e])
      <3> HIDE DEF a, s
      <3> QED BY <2>1, <2>3, <2>4, <2>5, <2>6 DEF Relies, CollectSteps, CheckSteps
    <2>9. UpdateAttempt(e, a) /\ daemon' = [daemon EXCEPT ![d] = s]
      BY <2>1, <2>2
    <2> HIDE DEF a, s
    <2> QED BY <1>8, <2>3, <2>5, <2>7, <2>8, <2>9
  <1>18. CASE Promote(d)
    <2> DEFINE s == [daemon[d] EXCEPT !.pc = "promoted"]
    <2>1. /\ attempts' = attempts /\ Goto(d, "promoted") /\ UNCHANGED <<live, marker, wtLock>>
          /\ daemon[d].pc = "collecting"
      BY <1>18 DEF Promote, At, storeVars
    <2>2. s.pc = "promoted"
      BY <1>4, <1>5
    <2>3. Relies(s, Last(e), live'[e], marker'[e])
      <3> HIDE DEF s
      <3> QED BY <1>3, <2>1, <2>2 DEF Relies, CollectSteps, CheckSteps
    <2> QED BY <1>3, <1>5, <1>7, <2>1, <2>3
  <1>19. CASE FinishCollection(d)
    <2>1. PICK v \in Verdicts(d) : Conclude(d, Outcome(e, v[1], v[2]))
      BY <1>3, <1>19 DEF FinishCollection
    <2> DEFINE a == Outcome(e, v[1], v[2])
    <2>2. a.known = Last(e).known /\ a.cleanup = Last(e).cleanup
      BY <1>3 DEF Outcome, Attempts
    <2>3. daemon[d].pc \in {"collecting", "promoted", "check_failed"} /\ UNCHANGED <<live, marker>>
      BY <1>19 DEF FinishCollection
    <2>4. Last(e).cleanup = "confirmed" => live[e] = {} /\ ~marker[e]
      BY <1>3, <2>3 DEF Relies
    <2>5. Agree(a, live[e], marker[e])
      <3> HIDE DEF a
      <3> QED BY <1>3, <2>2, <2>4 DEF Agree, Settled
    <2> QED BY <1>6, <2>1, <2>3, <2>5
  <1> QED BY <1>9, <1>10, <1>11, <1>12, <1>13, <1>14, <1>15, <1>16, <1>17, <1>18, <1>19
          DEF CollectStep
(* So does a step that moves no daemon.                                    *)
LEMMA NobodyMoves ==
  ASSUME SupervisorInv, TypeOK', UNCHANGED <<attempts, live, marker, wtLock, daemon>>
  PROVE  SupervisorInv'
  <1>1. OneUnsettledAttempt'
    BY DEF SupervisorInv, OneUnsettledAttempt, AllSettled, Settled
  <1>2. \A f \in Executions : Accounts(f)'
    BY DEF SupervisorInv, Accounts, Agree, Last, Settled
  <1>3. \A d \in Daemons : DaemonRelies(d)'
    BY DEF SupervisorInv, DaemonRelies, Exec, Last
  <1> QED BY <1>1, <1>2, <1>3 DEF SupervisorInv

(* Requests and the tick's approval preserve the invariant.                *)
LEMMA RequestInv ==
  ASSUME SupervisorInv, NEW e \in Executions, Request(e) \/ AutoApprove(e)
  PROVE  SupervisorInv'
  <1>0. TypeOK /\ TypeOK'
    BY RequestType DEF SupervisorInv
  <1>1. CASE Prepare(e)
    BY <1>0, <1>1, NobodyMoves DEF Prepare, storeVars
  <1>2. CASE Approve(e)
    BY <1>0, <1>2, NobodyMoves DEF Approve, storeVars
  <1>3. CASE AttachInvalidates(e)
    BY <1>0, <1>3, NobodyMoves DEF AttachInvalidates, storeVars
  <1>4. CASE AutoApprove(e)
    BY <1>0, <1>4, NobodyMoves DEF AutoApprove, storeVars
  <1>5. ASSUME NEW d \in Daemons, AttachFresh(e, d) \/ AttachRecovery(e, d)
        PROVE  SupervisorInv'
    <2>1. /\ UNCHANGED <<attempts, live, marker, wtLock>>
          /\ \E ev : Spawn(e, d, ev)
      BY <1>5 DEF AttachFresh, AttachRecovery, storeVars
    <2>2. daemon'[d].pc = "spawned" /\ \A c \in Daemons : c # d => daemon'[c] = daemon[c]
      BY <1>0, <2>1 DEF Spawn, TypeOK, DaemonStates
    <2>3. "spawned" \notin Holding /\ "spawned" \notin Owning
      BY OwnersHold DEF Holding
    <2>4. DaemonRelies(d)'
      BY <2>2, <2>3 DEF DaemonRelies
    <2> QED BY <1>0, <2>1, <2>2, <2>4, StoreUnchanged
  <1> QED BY <1>1, <1>2, <1>3, <1>4, <1>5 DEF Request

(* The sweep preserves the invariant: while it holds the worktree lock no  *)
(* daemon owns an attempt.                                                 *)
LEMMA RecoverInv ==
  ASSUME SupervisorInv, NEW e \in Executions, Recover(e)
  PROVE  SupervisorInv'
  <1>0. TypeOK /\ TypeOK'
    BY RecoverType DEF SupervisorInv
  <1>1. /\ attempts \in [Executions -> Seq(Attempts)]
        /\ attempts' \in [Executions -> Seq(Attempts)]
    BY <1>0 DEF TypeOK
  <1>2. Recoverable(e) /\ UNCHANGED <<live, wtLock, daemon>>
    BY DEF Recover, RecoverConfirmed, RecoverUnconfirmed
  <1>3. attempts[e] # << >> /\ Agree(Last(e), live[e], marker[e])
    BY <1>2 DEF Recoverable, SupervisorInv, Accounts
  <1>4. ~Settled(Last(e))
    BY <1>2, <1>3 DEF Recoverable, LaunchPending, Agree
  <1>5. Last(e) \in Attempts
    BY <1>1, <1>3, LastType
  <1>6. Recovered(Last(e)) \in Attempts /\ Recovered(Last(e)).known = Last(e).known
    <2> DEFINE a == Last(e)
    <2>1. ASSUME NEW s \in Terminal, NEW r \in Reasons
          PROVE  /\ [a EXCEPT !.status = s, !.reason = r] \in Attempts
                 /\ [a EXCEPT !.status = s, !.reason = r].known = a.known
      BY <1>5 DEF Attempts
    <2>2. /\ "timed_out" \in Terminal /\ "interrupted" \in Terminal
          /\ "checkpoint_deadline_exceeded" \in Reasons
          /\ "deadline_collection_incomplete" \in Reasons /\ "exit_unobservable" \in Reasons
      BY DEF Terminal, Reasons
    <2>0. a \in Attempts
      BY <1>5
    <2> HIDE DEF a
    <2>3. \/ Recovered(a) = a
          \/ Recovered(a) = [a EXCEPT !.status = "timed_out", !.reason = "checkpoint_deadline_exceeded"]
          \/ Recovered(a) = [a EXCEPT !.status = "timed_out", !.reason = "deadline_collection_incomplete"]
          \/ Recovered(a) = [a EXCEPT !.status = "interrupted", !.reason = "exit_unobservable"]
      BY Zenon DEF Recovered
    <2>4. Recovered(a) \in Attempts /\ Recovered(a).known = a.known
      <3>1. CASE Recovered(a) = a
        BY <2>0, <3>1
      <3>2. CASE Recovered(a) # a
        <4>1. PICK s \in Terminal, r \in Reasons :
                Recovered(a) = [a EXCEPT !.status = s, !.reason = r]
          BY Zenon, <2>2, <2>3, <3>2
        <4> DEFINE b == [a EXCEPT !.status = s, !.reason = r]
        <4>2. b \in Attempts /\ b.known = a.known
          BY <2>1
        <4> HIDE DEF b
        <4>3. Recovered(a) = b
          BY Zenon, <4>1 DEF b
        <4> QED BY <4>2, <4>3
      <3> QED BY <3>1, <3>2
    <2> QED BY <2>4 DEF a
  <1>7. \A d \in Daemons : daemon[d].pc \notin Holding
    BY <1>2, NoDaemonAssumption DEF Recoverable, SupervisorInv, DaemonRelies
  <1>8. \A d \in Daemons : DaemonRelies(d)'
    BY <1>2, <1>7, OwnersHold DEF DaemonRelies
  <1>9. ASSUME NEW a, UpdateAttempt(e, a), Agree(a, live[e], marker'[e]),
               \A f \in Executions : f # e => marker'[f] = marker[f]
        PROVE  SupervisorInv'
    <2>1. OneUnsettledAttempt'
      BY <1>1, <1>4, <1>9, UpdateKeepsOne DEF SupervisorInv
    <2>2. /\ attempts'[e] # << >> /\ Last(e)' = a
          /\ \A f \in Executions : f # e => attempts'[f] = attempts[f]
      BY <1>1, <1>9, UpdateReads
    <2>3. Accounts(e)'
      BY <1>2, <1>9, <2>2 DEF Accounts
    <2>4. \A f \in Executions : f # e => Accounts(f)'
      BY <1>2, <1>9, <2>2 DEF SupervisorInv, Accounts, Agree, Last, Settled
    <2> QED BY <1>0, <1>8, <2>1, <2>3, <2>4 DEF SupervisorInv
  <1>10. CASE RecoverConfirmed(e)
    <2> DEFINE pending == LaunchPending(e) /\ "check" \notin Last(e).known
               a == [Recovered(Last(e)) EXCEPT
                       !.cleanup = IF pending THEN "unconfirmed" ELSE "confirmed"]
    <2>1. /\ UpdateAttempt(e, a) /\ marker'[e] = pending
          /\ \A f \in Executions : f # e => marker'[f] = marker[f]
          /\ Last(e).known # {} /\ live[e] \cap Last(e).known = {}
      BY <1>0, <1>10 DEF RecoverConfirmed, TypeOK
    <2>2. a.known = Last(e).known /\ (a.cleanup = "confirmed" => ~pending)
      BY <1>6 DEF Attempts
    <2>3. "client" \notin live[e] /\ ("check" \in live[e] => pending)
      BY <1>3, <2>1 DEF Agree, LaunchPending
    <2>4. live[e] \subseteq {"client", "check"}
      BY <1>0 DEF TypeOK, Processes
    <2>5. Agree(a, live[e], marker'[e])
      <3> HIDE DEF a, pending
      <3> QED BY <1>3, <2>1, <2>2, <2>3, <2>4 DEF Agree, Settled
    <2> HIDE DEF a
    <2> QED BY <1>9, <2>1, <2>5
  <1>11. CASE RecoverUnconfirmed(e)
    <2> DEFINE a == [Recovered(Last(e)) EXCEPT !.cleanup = "unconfirmed"]
    <2>1. UpdateAttempt(e, a) /\ marker' = marker
      BY <1>11 DEF RecoverUnconfirmed
    <2>2. a.known = Last(e).known /\ a.cleanup = "unconfirmed"
      BY <1>6 DEF Attempts
    <2>3. Agree(a, live[e], marker'[e])
      <3> HIDE DEF a
      <3> QED BY <1>3, <2>1, <2>2 DEF Agree, Settled
    <2> HIDE DEF a
    <2> QED BY <1>9, <2>1, <2>3
  <1> QED BY <1>10, <1>11 DEF Recover
(* Deaths, reboots, edits and the end of a process preserve the invariant. *)
LEMMA EnvironmentInv ==
  ASSUME SupervisorInv, Environment
  PROVE  SupervisorInv'
  <1>0. TypeOK /\ TypeOK'
    BY EnvironmentType DEF SupervisorInv
  <1>1. CASE Edit
    BY <1>0, <1>1, NobodyMoves DEF Edit, storeVars
  <1>2. ASSUME NEW d \in Daemons, DaemonDies(d)
        PROVE  SupervisorInv'
    BY <1>0, <1>2, ExitKeepsInv DEF DaemonDies, storeVars
  <1>3. ASSUME attempts' = attempts, marker' = marker,
               \A e \in Executions : live'[e] \subseteq live[e]
        PROVE  OneUnsettledAttempt' /\ \A e \in Executions : Accounts(e)'
    <2>1. OneUnsettledAttempt'
      BY <1>3 DEF SupervisorInv, OneUnsettledAttempt, AllSettled, Settled
    <2>2. ASSUME NEW e \in Executions PROVE Accounts(e)'
      <3>1. Accounts(e) /\ live'[e] \subseteq live[e]
        BY <1>3 DEF SupervisorInv
      <3> QED BY <1>3, <3>1 DEF Accounts, Agree, Last, Settled
    <2> QED BY <2>1, <2>2
  <1>4. CASE Reboot
    <2>1. \A e \in Executions : live'[e] \subseteq live[e]
      BY <1>4 DEF Reboot
    <2>2. \A d \in Daemons : daemon'[d].pc \in {"unborn", "gone"}
      BY <1>4, GoneRelies DEF Reboot, Alive
    <2>3. \A d \in Daemons : DaemonRelies(d)'
      BY <2>2, OwnersHold DEF DaemonRelies, Holding, AliveSteps
    <2> QED BY <1>0, <1>3, <1>4, <2>1, <2>3 DEF Reboot, SupervisorInv, storeVars
  <1>5. ASSUME NEW e \in Executions, NEW p \in Processes, ProcessEnds(e, p)
        PROVE  SupervisorInv'
    <2>1. \A f \in Executions : live'[f] \subseteq live[f]
      BY <1>0, <1>5 DEF ProcessEnds, TypeOK
    <2>2. UNCHANGED <<attempts, marker, wtLock, daemon>>
      BY <1>5 DEF ProcessEnds, storeVars
    <2>3. ASSUME NEW d \in Daemons PROVE DaemonRelies(d)'
      <3>1. DaemonRelies(d) /\ Exec(d) \in Executions
        BY <1>0 DEF SupervisorInv, TypeOK, DaemonStates, Exec
      <3>2. live'[Exec(d)] \subseteq live[Exec(d)]
        BY <2>1, <3>1
      <3>3. \A s, a, l, k, m : Relies(s, a, l, m) /\ k \subseteq l => Relies(s, a, k, m)
        BY DEF Relies
      <3>4. Exec(d)' = Exec(d) /\ Last(Exec(d))' = Last(Exec(d))
        BY <2>2 DEF Exec, Last
      <3> QED BY <2>2, <3>1, <3>2, <3>3, <3>4 DEF DaemonRelies
    <2> QED BY <1>0, <1>3, <2>1, <2>2, <2>3 DEF SupervisorInv
  <1> QED BY <1>1, <1>2, <1>4, <1>5 DEF Environment

(* A worktree nobody has run anything on satisfies the invariant.          *)
LEMMA InitInv == Init => SupervisorInv
  <1> SUFFICES ASSUME Init PROVE SupervisorInv
    OBVIOUS
  <1>1. TypeOK
    BY InitType
  <1>2. \A e \in Executions : attempts[e] = << >> /\ live[e] = {} /\ marker[e] = FALSE
    BY Zenon DEF Init
  <1>3. OneUnsettledAttempt
    <2>1. ASSUME NEW e \in Executions PROVE 1..Len(attempts[e]) = {}
      <3>1. Len(<< >>) = 0 /\ 1..0 = {}
        OBVIOUS
      <3> QED BY Zenon, <1>2, <3>1
    <2> QED BY <2>1 DEF OneUnsettledAttempt, AllSettled
  <1>4. \A e \in Executions : Accounts(e)
    BY <1>2 DEF Accounts
  <1>5. \A d \in Daemons : daemon[d].pc = "unborn"
    BY DEF Init, Unborn
  <1>6. \A d \in Daemons : DaemonRelies(d)
    BY <1>5, OwnersHold DEF DaemonRelies, Holding, AliveSteps
  <1> QED BY <1>1, <1>3, <1>4, <1>6 DEF SupervisorInv

(* Every step of the daemons and of their environment keeps the invariant. *)
LEMMA NextInv == SupervisorInv /\ [Next]_vars => SupervisorInv'
  <1> SUFFICES ASSUME SupervisorInv, [Next]_vars PROVE SupervisorInv'
    OBVIOUS
  <1>1. CASE Next
    BY <1>1, AdmissionInv, ClientInv, CollectInv, RequestInv, RecoverInv, EnvironmentInv
       DEF Next, DaemonStep, TickApproves
  <1>2. CASE UNCHANGED vars
    <2>1. TypeOK'
      BY <1>2 DEF SupervisorInv, TypeOK, vars
    <2> QED BY <1>2, <2>1, NobodyMoves DEF vars
  <1> QED BY <1>1, <1>2

(* The inductive invariant holds in every reachable state, for any number  *)
(* of executions, daemons, crashes and checks.                             *)
THEOREM InvariantHolds == Spec => []SupervisorInv
  <1> QED BY InitInv, NextInv, PTL DEF Spec

(* At most one attempt on the worktree is unsettled, and it is the latest  *)
(* of its execution: admit's promise, kept by the worktree lock.           *)
THEOREM OneUnsettled == Spec => []OneUnsettledAttempt
  <1>1. SupervisorInv => OneUnsettledAttempt
    BY DEF SupervisorInv
  <1> QED BY <1>1, InvariantHolds, PTL

(* "confirmed" is true: once the last attempt of an execution is settled,  *)
(* none of its processes is running, wherever a daemon died.               *)
THEOREM NothingRunsBehindSettled == Spec => []SettledMeansNothingRuns
  <1>1. SupervisorInv => SettledMeansNothingRuns
    BY DEF SupervisorInv, SettledMeansNothingRuns, Accounts, Agree
  <1> QED BY <1>1, InvariantHolds, PTL

(* A settled attempt leaves no launch marker for a later sweep to reopen.  *)
THEOREM NoLaunchPendingBehindSettled == Spec => []SettledMeansNoPendingLaunch
  <1>1. SupervisorInv => SettledMeansNoPendingLaunch
    BY DEF SupervisorInv, SettledMeansNoPendingLaunch, Accounts, Agree
  <1> QED BY <1>1, InvariantHolds, PTL
-----------------------------------------------------------------------------
(* The store implements the ledger *)

(* The ledger that a state of the store stands for.                        *)
LedgerOf ==
  [e \in Executions |-> [i \in 1..Len(attempts[e]) |-> Entry(attempts[e][i])]]

(* An entry of the ledger is a function of its attempt, so that it is read *)
(* off the attempts without mentioning sequences of entries.               *)
LEMMA LedgerReads ==
  ASSUME attempts \in [Executions -> Seq(Attempts)], NEW e \in Executions
  PROVE  /\ LedgerOf[e] = [i \in 1..Len(attempts[e]) |-> Entry(attempts[e][i])]
         /\ LedgerOf[e] \in Seq(Ledger!Entries)
         /\ Len(LedgerOf[e]) = Len(attempts[e]) /\ Len(attempts[e]) \in Nat
         /\ \A i \in 1..Len(attempts[e]) : LedgerOf[e][i] = Entry(attempts[e][i])
         /\ DOMAIN LedgerOf[e] = 1..Len(attempts[e])
  <1>1. Len(attempts[e]) \in Nat
    OBVIOUS
  <1>2. LedgerOf[e] = [i \in 1..Len(attempts[e]) |-> Entry(attempts[e][i])]
    BY DEF LedgerOf
  <1>3. \A a : Entry(a) \in Ledger!Entries
    BY DEF Entry, Ledger!Entries
  <1> DEFINE n == Len(attempts[e])
             x(i) == Entry(attempts[e][i])
  <1>4. /\ [i \in 1..n |-> x(i)] \in Seq(Ledger!Entries)
        /\ Len([i \in 1..n |-> x(i)]) = n
    <2>1. n \in Nat /\ \A i \in 1..n : x(i) \in Ledger!Entries
      BY <1>1, <1>3
    <2> HIDE DEF n, x
    <2> QED BY <2>1
  <1> QED BY <1>1, <1>2, <1>4

(* A function that differs from another in one point is that function with *)
(* the point replaced: how an update of one attempt reads in its ledger.   *)
LEMMA ExceptByPoints ==
  ASSUME NEW S, NEW n \in S, NEW f, NEW g, NEW v,
         f = [i \in S |-> f[i]], g = [i \in S |-> g[i]],
         \A i \in S : g[i] = IF i = n THEN v ELSE f[i]
  PROVE  g = [f EXCEPT ![n] = v]
  OBVIOUS

(* update_attempt on an unsettled attempt closes it, settles it or leaves  *)
(* its entry as it is.                                                     *)
LEMMA UpdateInLedger ==
  ASSUME attempts \in [Executions -> Seq(Attempts)],
         attempts' \in [Executions -> Seq(Attempts)],
         NEW e \in Executions, NEW a, UpdateAttempt(e, a), ~Settled(Last(e))
  PROVE  Ledger!Next \/ LedgerOf' = LedgerOf
  <1> DEFINE n == Len(attempts[e])
  <1>1. /\ attempts[e] # << >> /\ Last(e)' = a
        /\ Len(attempts'[e]) = n
        /\ \A i \in 1..n : i # n => attempts'[e][i] = attempts[e][i]
        /\ \A f \in Executions : f # e => attempts'[f] = attempts[f]
    BY UpdateReads
  <1>2. n \in Nat /\ n \in 1..n
    BY <1>1
  <1>3. attempts'[e][n] = a
    BY <1>1 DEF Last
  <1>4. Entry(Last(e)) \in {"open", "doubtful"}
    BY DEF Entry, Settled
  <1>5. Entry(Last(e)) = "doubtful" => Entry(a) \in {"doubtful", "settled"}
    BY DEF Entry, UpdateAttempt
  <1>6. Entry(a) \in {"open", "doubtful", "settled"}
    BY DEF Entry
  <1>7. LedgerOf' = [LedgerOf EXCEPT ![e] = [LedgerOf[e] EXCEPT ![n] = Entry(a)]]
    <2>1. \A f \in Executions : f # e => LedgerOf'[f] = LedgerOf[f]
      BY <1>1 DEF LedgerOf, Entry
    <2>2. LedgerOf'[e] = [LedgerOf[e] EXCEPT ![n] = Entry(a)]
      <3>1. LedgerOf'[e] = [i \in 1..n |-> Entry(attempts'[e][i])]
        BY <1>1 DEF LedgerOf, Entry
      <3>2. LedgerOf[e] = [i \in 1..n |-> Entry(attempts[e][i])]
        BY DEF LedgerOf
      <3>3. \A i \in 1..n : Entry(attempts'[e][i])
                             = IF i = n THEN Entry(a) ELSE Entry(attempts[e][i])
        BY <1>1, <1>3
      <3>4. /\ LedgerOf[e] = [i \in 1..n |-> LedgerOf[e][i]]
            /\ LedgerOf'[e] = [i \in 1..n |-> LedgerOf'[e][i]]
        BY <3>1, <3>2, Zenon
      <3>5. \A i \in 1..n : LedgerOf'[e][i] = IF i = n THEN Entry(a) ELSE LedgerOf[e][i]
        BY <3>1, <3>2, <3>3
      <3> HIDE DEF n
      <3> DEFINE old == LedgerOf[e]
                 new == LedgerOf'[e]
      <3>6. /\ n \in 1..n
            /\ old = [i \in 1..n |-> old[i]] /\ new = [i \in 1..n |-> new[i]]
            /\ \A i \in 1..n : new[i] = IF i = n THEN Entry(a) ELSE old[i]
        BY <1>2, <3>4, <3>5
      <3> HIDE DEF old, new
      <3>7. new = [old EXCEPT ![n] = Entry(a)]
        BY <3>6, ExceptByPoints
      <3> QED BY <3>7 DEF old, new
    <2>3. /\ LedgerOf = [f \in Executions |-> LedgerOf[f]]
          /\ LedgerOf' = [f \in Executions |-> LedgerOf'[f]]
      BY DEF LedgerOf
    <2> QED BY <2>1, <2>2, <2>3
  <1>8. LedgerOf[e] # << >> /\ Len(LedgerOf[e]) = n /\ LedgerOf[e][n] = Entry(Last(e))
        /\ LedgerOf \in [Executions -> Seq(Ledger!Entries)]
    BY <1>1, <1>2, LedgerReads DEF LedgerOf, Last
  <1>9. ASSUME NEW from, NEW to, Entry(Last(e)) \in from, Entry(a) = to
        PROVE  Ledger!Become(e, from, to)
    BY <1>7, <1>8, <1>9 DEF Ledger!Become, LedgerOf
  <1>10. CASE Entry(a) = "settled"
    BY <1>4, <1>9, <1>10 DEF Ledger!Next, Ledger!Settle
  <1>11. CASE Entry(a) = "doubtful" /\ Entry(Last(e)) = "open"
    BY <1>9, <1>11 DEF Ledger!Next, Ledger!Close
  <1>12. CASE Entry(a) = Entry(Last(e))
    <2>1. [LedgerOf[e] EXCEPT ![n] = LedgerOf[e][n]] = LedgerOf[e]
      BY <1>8, LedgerReads
    <2> QED BY <1>7, <1>8, <1>12, <2>1
  <1> QED BY <1>4, <1>5, <1>6, <1>10, <1>11, <1>12

(* admit opens an entry when all others are settled.                       *)
LEMMA AdmitInLedger ==
  ASSUME attempts \in [Executions -> Seq(Attempts)], OneUnsettledAttempt,
         NEW e \in Executions, NEW ev \in Events \cup {NoEvent}, AdmitAttempt(e, ev)
  PROVE  Ledger!Next
  <1> DEFINE n == Len(attempts[e])
  <1>1. /\ Len(attempts'[e]) = n + 1 /\ Last(e)' = FreshAttempt(ev)
        /\ \A i \in 1..n : attempts'[e][i] = attempts[e][i]
        /\ \A f \in Executions : f # e => attempts'[f] = attempts[f]
        /\ attempts[e] = << >> \/ (attempts[e] # << >> /\ Settled(Last(e)))
        /\ n \in Nat
    BY AdmitEffect
  <1>2. attempts'[e][n + 1] = FreshAttempt(ev) /\ Entry(FreshAttempt(ev)) = "open"
    BY <1>1 DEF Last, Entry, FreshAttempt, Terminal
  <1>3. \A f \in Executions : AllSettled(f)
    <2>1. \A f \in Executions : f # e => AllSettled(f)
      BY DEF AdmitAttempt, PeersResolved
    <2>2. AllSettled(e)
      BY <1>1 DEF OneUnsettledAttempt, AllSettled, Last
    <2> QED BY <2>1, <2>2
  <1>4. Ledger!AllSettled
    <2>1. \A f \in Executions : \A i \in 1..Len(attempts[f]) :
            Settled(attempts[f][i]) /\ LedgerOf[f][i] = Entry(attempts[f][i])
            /\ Len(LedgerOf[f]) = Len(attempts[f])
      BY <1>3, LedgerReads DEF AllSettled
    <2>2. \A f \in Executions : \A i \in 1..Len(LedgerOf[f]) : LedgerOf[f][i] = "settled"
      BY <2>1, LedgerReads, SMTT(60) DEF Settled, Entry
    <2> QED BY <2>2 DEF Ledger!AllSettled, LedgerOf
  <1>5. LedgerOf' = [LedgerOf EXCEPT ![e] = Append(LedgerOf[e], "open")]
    <2>1. \A f \in Executions : f # e => LedgerOf'[f] = LedgerOf[f]
      BY <1>1 DEF LedgerOf, Entry
    <2>2. LedgerOf'[e] = Append(LedgerOf[e], "open")
      <3>1. LedgerOf'[e] = [i \in 1..(n + 1) |-> Entry(attempts'[e][i])]
        BY <1>1 DEF LedgerOf, Entry
      <3>2. \A i \in 1..(n + 1) :
              Entry(attempts'[e][i]) = IF i = n + 1 THEN "open" ELSE LedgerOf[e][i]
        <4>1. \A i \in 1..n : LedgerOf[e][i] = Entry(attempts[e][i])
          BY LedgerReads
        <4>2. \A i \in 1..(n + 1) : i # n + 1 => i \in 1..n
          BY <1>1
        <4> QED BY <1>1, <1>2, <4>1, <4>2
      <3>3. LedgerOf[e] \in Seq(Ledger!Entries) /\ Len(LedgerOf[e]) = n
        BY LedgerReads
      <3>4. "open" \in Ledger!Entries
        BY DEF Ledger!Entries
      <3>5. Append(LedgerOf[e], "open")
              = [i \in 1..(n + 1) |-> IF i = n + 1 THEN "open" ELSE LedgerOf[e][i]]
        BY <1>1, <3>3, <3>4
      <3> QED BY <3>1, <3>2, <3>5
    <2>3. /\ LedgerOf = [f \in Executions |-> LedgerOf[f]]
          /\ LedgerOf' = [f \in Executions |-> LedgerOf'[f]]
      BY DEF LedgerOf
    <2> QED BY <2>1, <2>2, <2>3
  <1>6. Ledger!Admit(e)
    BY <1>4, <1>5 DEF Ledger!Admit, LedgerOf
  <1> QED BY <1>6 DEF Ledger!Next
(* Where the attempts stay the same, so does their ledger.                 *)
LEMMA LedgerIdle ==
  ASSUME attempts' = attempts
  PROVE  LedgerOf' = LedgerOf
  BY DEF LedgerOf, Entry

(* What the owner of an attempt writes is a step of the ledger.            *)
LEMMA OwnerInLedger ==
  ASSUME SupervisorInv, TypeOK', NEW d \in Daemons, daemon[d].pc \in Owning,
         (\E a : UpdateAttempt(Exec(d), a)) \/ attempts' = attempts
  PROVE  Ledger!Next \/ LedgerOf' = LedgerOf
  <1>1. CASE attempts' = attempts
    BY <1>1, LedgerIdle
  <1>2. CASE \E a : UpdateAttempt(Exec(d), a)
    <2>1. PICK e \in Executions : e = Exec(d) /\ ~Settled(Last(e))
      BY OwnerFacts
    <2>2. PICK a : UpdateAttempt(e, a)
      BY <1>2, <2>1
    <2>3. attempts \in [Executions -> Seq(Attempts)] /\ attempts' \in [Executions -> Seq(Attempts)]
      BY DEF SupervisorInv, TypeOK
    <2> QED BY <2>1, <2>2, <2>3, UpdateInLedger
  <1> QED BY <1>1, <1>2

(* Admission leaves the ledger alone, but for the attempt it admits.       *)
LEMMA AdmissionInLedger ==
  ASSUME SupervisorInv, TypeOK', NEW d \in Daemons, AdmissionStep(d)
  PROVE  Ledger!Next \/ LedgerOf' = LedgerOf
  <1>1. CASE Admit(d)
    <2>1. Exec(d) \in Executions /\ daemon[d].event \in Events \cup {NoEvent}
      BY DEF SupervisorInv, TypeOK, DaemonStates, Exec
    <2>2. attempts \in [Executions -> Seq(Attempts)] /\ OneUnsettledAttempt
      BY DEF SupervisorInv, TypeOK
    <2> QED BY <1>1, <2>1, <2>2, AdmitInLedger DEF Admit
  <1>2. CASE ~Admit(d)
    <2>1. attempts' = attempts
      BY <1>2 DEF AdmissionStep, TakeWorktree, AdmissionTimesOut, Consume,
                  ConsumeInvalidates, Refuse, Authorize, AuthorizeRetry, storeVars
    <2> QED BY <2>1, LedgerIdle
  <1> QED BY <1>1, <1>2

(* Launching the client and seeing it end writes the ledger only by its    *)
(* rules: the attempt written is the owner's, and not settled.             *)
LEMMA ClientInLedger ==
  ASSUME SupervisorInv, TypeOK', NEW d \in Daemons, ClientStep(d)
  PROVE  Ledger!Next \/ LedgerOf' = LedgerOf
  <1>1. daemon[d].pc \in Owning
    BY DEF ClientStep, RecordSupervisor, LaunchFails, Launch, RecordLaunch,
           OwnershipLost, ObserveExit, ExitObserved, At, Owning, ClientSteps
  <1>2. (\E a : UpdateAttempt(Exec(d), a)) \/ attempts' = attempts
    <2>1. CASE RecordSupervisor(d) \/ LaunchFails(d) \/ RecordLaunch(d) \/ OwnershipLost(d)
      BY <2>1 DEF RecordSupervisor, LaunchFails, RecordLaunch, OwnershipLost, Conclude
    <2>2. CASE Launch(d)
      BY <2>2 DEF Launch, storeVars
    <2>3. CASE ObserveExit(d)
      BY <2>3 DEF ObserveExit, ExitObserved, Conclude
    <2> QED BY <2>1, <2>2, <2>3 DEF ClientStep
  <1> QED BY <1>1, <1>2, OwnerInLedger

(* So does collecting what the client left, its checks included.           *)
LEMMA CollectInLedger ==
  ASSUME SupervisorInv, TypeOK', NEW d \in Daemons, CollectStep(d)
  PROVE  Ledger!Next \/ LedgerOf' = LedgerOf
  <1>1. daemon[d].pc \in Owning
    BY DEF CollectStep, MarkCheck, DoubtCleanup, CheckNotLaunched, LaunchCheck,
           RecordCheck, ClearMarker, RecordCheckExit, SettleCheck, CheckLost, Promote,
           FinishCollection, Collecting, At, Owning, CollectSteps, CheckSteps
  <1>2. (\E a : UpdateAttempt(Exec(d), a)) \/ attempts' = attempts
    <2>1. CASE MarkCheck(d) \/ DoubtCleanup(d) \/ RecordCheck(d) \/ CheckLost(d)
      BY <2>1 DEF MarkCheck, DoubtCleanup, RecordCheck, CheckLost
    <2>2. CASE RecordCheckExit(d) \/ SettleCheck(d)
      BY <2>2 DEF RecordCheckExit, SettleCheck
    <2>3. CASE CheckNotLaunched(d) \/ LaunchCheck(d) \/ ClearMarker(d) \/ Promote(d)
      BY <2>3 DEF CheckNotLaunched, LaunchCheck, ClearMarker, Promote, storeVars
    <2>4. CASE FinishCollection(d)
      BY <2>4 DEF FinishCollection, Conclude
    <2> QED BY <2>1, <2>2, <2>3, <2>4 DEF CollectStep
  <1> QED BY <1>1, <1>2, OwnerInLedger

(* A sweep only looks at unsettled attempts: a launch marker belongs to one. *)
LEMMA RecoverInLedger ==
  ASSUME SupervisorInv, TypeOK', NEW e \in Executions, Recover(e)
  PROVE  Ledger!Next \/ LedgerOf' = LedgerOf
  <1>1. attempts \in [Executions -> Seq(Attempts)] /\ attempts' \in [Executions -> Seq(Attempts)]
    BY DEF SupervisorInv, TypeOK
  <1>2. Recoverable(e)
    BY DEF Recover, RecoverConfirmed, RecoverUnconfirmed
  <1>3. ~Settled(Last(e))
    BY <1>2 DEF Recoverable, LaunchPending, SupervisorInv, Accounts, Agree
  <1>4. PICK a : UpdateAttempt(e, a)
    BY DEF Recover, RecoverConfirmed, RecoverUnconfirmed
  <1> QED BY <1>1, <1>3, <1>4, UpdateInLedger

(* Every step of the supervisor is a step of the ledger or leaves it alone. *)
LEMMA NextInLedger ==
  ASSUME SupervisorInv, [Next]_vars
  PROVE  Ledger!Next \/ LedgerOf' = LedgerOf
  <1>1. TypeOK'
    BY NextType DEF SupervisorInv
  <1>2. ASSUME NEW d \in Daemons, DaemonStep(d)
        PROVE  Ledger!Next \/ LedgerOf' = LedgerOf
    BY <1>1, <1>2, AdmissionInLedger, ClientInLedger, CollectInLedger DEF DaemonStep
  <1>3. ASSUME NEW e \in Executions, Recover(e)
        PROVE  Ledger!Next \/ LedgerOf' = LedgerOf
    BY <1>1, <1>3, RecoverInLedger
  <1>4. ASSUME NEW e \in Executions, Request(e) \/ TickApproves(e)
        PROVE  attempts' = attempts
    BY <1>4 DEF Request, Prepare, Approve, AttachInvalidates, AttachFresh, AttachRecovery,
                TickApproves, AutoApprove, storeVars
  <1>5. CASE Environment
    BY <1>5, LedgerIdle DEF Environment, Edit, Reboot, DaemonDies, ProcessEnds, storeVars
  <1>6. CASE UNCHANGED vars
    BY <1>6, LedgerIdle DEF vars
  <1> QED BY <1>2, <1>3, <1>4, <1>5, <1>6, LedgerIdle DEF Next

(* An empty store is an empty ledger.                                      *)
LEMMA LedgerInit == Init => Ledger!Init
  <1> SUFFICES ASSUME Init PROVE Ledger!Init
    OBVIOUS
  <1>1. attempts \in [Executions -> Seq(Attempts)]
    BY InitType DEF TypeOK
  <1>2. \A e \in Executions : attempts[e] = << >>
    BY Zenon DEF Init
  <1>3. \A e \in Executions : LedgerOf[e] = << >>
    <2>1. ASSUME NEW e \in Executions PROVE LedgerOf[e] = << >>
      <3>1. LedgerOf[e] \in Seq(Ledger!Entries) /\ Len(LedgerOf[e]) = Len(attempts[e])
        BY <1>1, LedgerReads
      <3>2. Len(attempts[e]) = 0
        <4>1. Len(<< >>) = 0
          OBVIOUS
        <4> QED BY Zenon, <1>2, <4>1
      <3> QED BY <3>1, <3>2
    <2> QED BY <2>1
  <1>4. LedgerOf = [e \in Executions |-> LedgerOf[e]]
    BY Zenon DEF LedgerOf
  <1>5. LedgerOf = [e \in Executions |-> << >>]
    BY Zenon, <1>3, <1>4
  <1> QED BY Zenon, <1>5 DEF Ledger!Init, LedgerOf

(* The store, its daemons, operators, ticks and sweeps implement the       *)
(* ledger: an attempt is admitted only when all others on the worktree are *)
(* settled, and what is settled is never touched again.                    *)
THEOREM ImplementsLedger == Spec => LedgerSpec
  <1>1. SupervisorInv /\ [Next]_vars => [Ledger!Next]_LedgerOf
    BY NextInLedger
  <1> QED BY LedgerInit, <1>1, InvariantHolds, PTL DEF Spec, LedgerSpec, Ledger!Spec, LedgerOf

-----------------------------------------------------------------------------
(* What the operator decided *)

(* Only these steps write recovery-intent.json.                            *)
LEMMA IntentMoves ==
  ASSUME [Next]_vars
  PROVE  \/ intent' = intent
         \/ \E e \in Executions :
              Prepare(e) \/ Approve(e) \/ AttachInvalidates(e) \/ TickApproves(e)
         \/ \E d \in Daemons : Consume(d) \/ ConsumeInvalidates(d)
  <1>1. ASSUME NEW d \in Daemons, AdmissionStep(d)
        PROVE  intent' = intent \/ Consume(d) \/ ConsumeInvalidates(d)
    BY <1>1 DEF AdmissionStep, TakeWorktree, AdmissionTimesOut, Refuse, Authorize, Admit
  <1>2. ASSUME NEW d \in Daemons, ClientStep(d)
        PROVE  intent' = intent
    BY <1>2 DEF ClientStep, RecordSupervisor, LaunchFails, Launch, RecordLaunch,
                OwnershipLost, ObserveExit, ExitObserved
  <1>3. ASSUME NEW d \in Daemons, CollectStep(d)
        PROVE  intent' = intent
    BY <1>3 DEF CollectStep, MarkCheck, DoubtCleanup, CheckNotLaunched, LaunchCheck,
                RecordCheck, ClearMarker, RecordCheckExit, SettleCheck, CheckLost, Promote,
                FinishCollection
  <1>4. ASSUME NEW e \in Executions, Request(e)
        PROVE  intent' = intent \/ Prepare(e) \/ Approve(e) \/ AttachInvalidates(e)
    BY <1>4 DEF Request, AttachFresh, AttachRecovery
  <1>5. ASSUME NEW e \in Executions, Recover(e)
        PROVE  intent' = intent
    BY <1>5 DEF Recover, RecoverConfirmed, RecoverUnconfirmed
  <1>6. ASSUME Environment
        PROVE  intent' = intent
    BY <1>6 DEF Environment, Edit, Reboot, DaemonDies, ProcessEnds
  <1>7. CASE UNCHANGED vars
    BY <1>7 DEF vars
  <1> QED BY <1>1, <1>2, <1>3, <1>4, <1>5, <1>6, <1>7 DEF Next, DaemonStep

(* invalidate_recovery leaves what the operator decided.                   *)
LEMMA OperatorStays ==
  ASSUME intent \in [Executions -> Intents],
         NEW e \in Executions, NEW f \in Executions, NEW ev,
         OperatorIntentPending(e), InvalidateRecovery(f, ev)
  PROVE  intent'[e] = intent[e]
  BY DEF InvalidateRecovery, Invalidate, SetIntent, OperatorIntentPending

(* No step overrides what the operator has prepared or approved.           *)
LEMMA OperatorKept ==
  ASSUME TypeOK, [Next]_vars, NEW e \in Executions,
         OperatorIntentPending(e), intent'[e] # intent[e]
  PROVE  intent'[e].event.by = "operator" /\ intent'[e].status # "invalidated"
  <1>1. intent \in [Executions -> Intents] /\ \A d \in Daemons : Exec(d) \in Executions
    BY DEF TypeOK, DaemonStates, Exec
  <1>2. ASSUME NEW f \in Executions, Prepare(f) \/ Approve(f) \/ AttachInvalidates(f)
        PROVE  intent'[e].event.by = "operator" /\ intent'[e].status # "invalidated"
    <2>1. CASE Prepare(f)
      BY <1>1, <2>1 DEF Prepare, NewIntent, SetIntent, Intents, OperatorIntentPending
    <2>2. CASE Approve(f)
      BY <1>1, <2>2 DEF Approve, SetIntent, Intents, OperatorIntentPending
    <2>3. CASE AttachInvalidates(f)
      BY <1>1, <2>3, OperatorStays DEF AttachInvalidates
    <2> QED BY <1>2, <2>1, <2>2, <2>3
  <1>3. ASSUME NEW f \in Executions, AutoApprove(f)
        PROVE  FALSE
    <2>1. f = e
      BY <1>1, <1>3 DEF AutoApprove, NewIntent, Invalidate, SetIntent
    <2>2. ~Retractable(f) /\ OperatorIntentPending(f)
      BY <2>1 DEF Retractable, OperatorIntentPending
    <2> QED BY <1>3, <2>2 DEF AutoApprove
  <1>4. ASSUME NEW d \in Daemons, Consume(d)
        PROVE  intent'[e].event.by = "operator" /\ intent'[e].status # "invalidated"
    BY <1>1, <1>4 DEF Consume, SetIntent, Intents, OperatorIntentPending
  <1>5. ASSUME NEW d \in Daemons, ConsumeInvalidates(d)
        PROVE  FALSE
    BY <1>1, <1>5, OperatorStays DEF ConsumeInvalidates
  <1> QED BY <1>2, <1>3, <1>4, <1>5, IntentMoves DEF TickApproves

(* Neither the tick nor a racing worker overwrites or invalidates what the *)
(* operator has prepared or approved.                                      *)
THEOREM OperatorIsHeeded == Spec => OperatorDecides
  <1>1. TypeOK /\ [Next]_vars =>
          [\A e \in Executions :
             OperatorIntentPending(e) /\ intent'[e] # intent[e] =>
               /\ intent'[e].event.by = "operator"
               /\ intent'[e].status # "invalidated"]_vars
    BY OperatorKept
  <1> QED BY <1>1, TypeCorrect, PTL DEF Spec, OperatorDecides

-----------------------------------------------------------------------------
(* A late check ends as a timeout *)

(* A daemon knows of a check that ran into the deadline until it has       *)
(* written the outcome.                                                    *)
LateIsKnown(d) ==
  daemon[d].pc \in Owning /\ Last(Exec(d)).lateCheck =>
    /\ daemon[d].pc \in {"check_exited", "check_failed"}
    /\ daemon[d].out = "late"

LateInv ==
  /\ LateCheckIsTimeout
  /\ \A d \in Daemons : LateIsKnown(d)

(* A write to the last attempt keeps the property if what it writes does.  *)
LEMMA UpdateKeepsLate ==
  ASSUME LateCheckIsTimeout,
         attempts \in [Executions -> Seq(Attempts)],
         attempts' \in [Executions -> Seq(Attempts)],
         NEW e \in Executions, NEW a, UpdateAttempt(e, a),
         a.lateCheck /\ a.status \in Terminal => a.status = "timed_out"
  PROVE  LateCheckIsTimeout'
  <1>1. /\ Last(e)' = a /\ Len(attempts'[e]) = Len(attempts[e])
        /\ \A i \in 1..Len(attempts[e]) :
             i # Len(attempts[e]) => attempts'[e][i] = attempts[e][i]
        /\ \A f \in Executions : f # e => attempts'[f] = attempts[f]
    BY UpdateReads
  <1>2. ASSUME NEW f \in Executions, NEW i \in 1..Len(attempts'[f]),
               attempts'[f][i].lateCheck, attempts'[f][i].status \in Terminal
        PROVE  attempts'[f][i].status = "timed_out"
    <2>1. CASE f = e /\ i = Len(attempts[e])
      BY <1>1, <1>2, <2>1 DEF Last
    <2>2. CASE ~(f = e /\ i = Len(attempts[e]))
      <3>1. i \in 1..Len(attempts[f]) /\ attempts'[f][i] = attempts[f][i]
        BY <1>1, <2>2
      <3> QED BY <1>2, <3>1 DEF LateCheckIsTimeout
    <2> QED BY <2>1, <2>2
  <1> QED BY <1>2 DEF LateCheckIsTimeout

(* A daemon that owns its attempt writes a to it and goes to s.            *)
LEMMA OwnerKeepsLate ==
  ASSUME SupervisorInv, LateInv, TypeOK',
         NEW d \in Daemons, daemon[d].pc \in Owning,
         NEW e \in Executions, e = Exec(d),
         NEW a, UpdateAttempt(e, a) \/ (attempts' = attempts /\ a = Last(e)),
         NEW s, daemon' = [daemon EXCEPT ![d] = s],
         a.lateCheck /\ a.status \in Terminal => a.status = "timed_out",
         s.pc \in Owning => s.exec = e,
         s.pc \in Owning /\ a.lateCheck =>
           s.pc \in {"check_exited", "check_failed"} /\ s.out = "late"
  PROVE  LateInv'
  <1>1. /\ attempts \in [Executions -> Seq(Attempts)]
        /\ attempts' \in [Executions -> Seq(Attempts)]
        /\ daemon \in [Daemons -> DaemonStates]
    BY DEF SupervisorInv, TypeOK
  <1>2. LateCheckIsTimeout'
    BY <1>1, UpdateKeepsLate DEF LateInv, LateCheckIsTimeout
  <1>3. Last(e)' = a
    BY <1>1, UpdateReads DEF Last
  <1>4. ASSUME NEW c \in Daemons PROVE LateIsKnown(c)'
    <2>1. CASE c = d
      <3>1. daemon'[c] = s
        BY <1>1, <2>1
      <3> QED BY <1>3, <3>1 DEF LateIsKnown, Exec
    <2>2. CASE c # d
      <3>1. daemon'[c] = daemon[c] /\ daemon[c].pc \notin Owning
        BY <1>1, <2>2, OneHolder, OwnersHold
      <3> QED BY <3>1 DEF LateIsKnown
    <2> QED BY <2>1, <2>2
  <1> QED BY <1>2, <1>4 DEF LateInv

(* Steps that write no attempt and let no daemon own one.                  *)
LEMMA LateIdles ==
  ASSUME LateInv, attempts' = attempts,
         \A d \in Daemons : daemon'[d] = daemon[d] \/ daemon'[d].pc \notin Owning
  PROVE  LateInv'
  <1>1. LateCheckIsTimeout'
    BY DEF LateInv, LateCheckIsTimeout
  <1>2. ASSUME NEW d \in Daemons PROVE LateIsKnown(d)'
    BY DEF LateInv, LateIsKnown, Last, Exec
  <1> QED BY <1>1, <1>2 DEF LateInv

(* What is recorded while a client runs leaves the ledger of checks alone. *)
LEMMA ClientLate ==
  ASSUME SupervisorInv, LateInv, NEW d \in Daemons, ClientStep(d)
  PROVE  LateInv'
  <1>1. TypeOK' /\ daemon \in [Daemons -> DaemonStates]
    BY ClientType DEF SupervisorInv, TypeOK
  <1>2. daemon[d].pc \in ClientSteps /\ ClientSteps \subseteq Owning
    BY DEF ClientStep, RecordSupervisor, LaunchFails, Launch, RecordLaunch,
           OwnershipLost, ObserveExit, ExitObserved, At, ClientSteps, Owning
  <1>3. PICK e \in Executions :
           /\ e = Exec(d) /\ e = daemon[d].exec /\ daemon[d] \in DaemonStates
           /\ Last(e) \in Attempts
    BY <1>2, OwnerFacts
  <1>4. ~Last(e).lateCheck
    BY <1>2, <1>3 DEF LateInv, LateIsKnown, ClientSteps, Attempts
  <1>5. Gone.pc \notin Owning
    BY GoneRelies
  <1>6. ASSUME NEW a, ~a.lateCheck, UpdateAttempt(e, a) \/ (attempts' = attempts /\ a = Last(e)),
               NEW s, daemon' = [daemon EXCEPT ![d] = s], s = Gone \/ s.exec = e
        PROVE  LateInv'
    BY <1>1, <1>2, <1>3, <1>5, <1>6, OwnerKeepsLate
  <1>7. ASSUME NEW pc \in Steps PROVE [daemon[d] EXCEPT !.pc = pc].exec = e
    BY <1>3 DEF DaemonStates
  <1>8. ClientSteps \subseteq Steps /\ "collecting" \in Steps
    BY DEF Steps, Owning, CollectSteps
  <1>9. CASE RecordSupervisor(d)
    <2>1. ~[Last(e) EXCEPT !.supervisor = d].lateCheck
      BY <1>3, <1>4 DEF Attempts
    <2> QED BY <1>3, <1>6, <1>7, <1>8, <1>9, <2>1 DEF RecordSupervisor, Goto, ClientSteps
  <1>10. CASE LaunchFails(d)
    <2>1. ~[Outcome(e, "blocked", "client_not_launched") EXCEPT !.cleanup = "confirmed"].lateCheck
      BY <1>3, <1>4 DEF Attempts, Outcome
    <2> QED BY <1>3, <1>6, <1>10, <2>1 DEF LaunchFails, Conclude, Exit
  <1>11. CASE Launch(d)
    BY <1>3, <1>4, <1>6, <1>7, <1>8, <1>11 DEF Launch, Goto, storeVars, ClientSteps
  <1>12. CASE RecordLaunch(d)
    <2>1. ~[Last(e) EXCEPT !.status = "running", !.known = @ \cup {"client"}].lateCheck
      BY <1>3, <1>4 DEF Attempts
    <2> QED BY <1>3, <1>6, <1>7, <1>8, <1>12, <2>1 DEF RecordLaunch, Goto, ClientSteps
  <1>13. CASE OwnershipLost(d)
    <2>1. PICK known \in {Last(e).known, Last(e).known \cup {"client"}} :
            Conclude(d, [Outcome(e, "interrupted", "exit_unobservable")
                           EXCEPT !.cleanup = "unconfirmed", !.known = known])
      BY <1>3, <1>13 DEF OwnershipLost
    <2>2. ~[Outcome(e, "interrupted", "exit_unobservable")
              EXCEPT !.cleanup = "unconfirmed", !.known = known].lateCheck
      BY <1>3, <1>4 DEF Attempts, Outcome
    <2> QED BY <1>3, <1>6, <2>1, <2>2 DEF Conclude, Exit
  <1>14. CASE ObserveExit(d)
    <2>1. PICK outcome \in {"exit0", "exit1", "late"}, confirmed \in BOOLEAN :
            ExitObserved(d, outcome, confirmed)
      BY <1>14 DEF ObserveExit
    <2>2. ~ExitRecord(e, outcome, confirmed).lateCheck
      BY <1>3, <1>4 DEF Attempts, ExitRecord, Outcome
    <2>3. UpdateAttempt(e, ExitRecord(e, outcome, confirmed))
      BY <1>3, <2>1 DEF ExitObserved, Conclude
    <2>4. daemon' = [daemon EXCEPT ![d] = Gone] \/
          daemon' = [daemon EXCEPT ![d] = [daemon[d] EXCEPT !.pc = "collecting"]]
      BY <2>1 DEF ExitObserved, Conclude, Exit, Goto
    <2> QED BY <1>6, <1>7, <1>8, <2>2, <2>3, <2>4
  <1> QED BY <1>9, <1>10, <1>11, <1>12, <1>13, <1>14 DEF ClientStep

(* Collection: only the exit of a check sets lateCheck, and its daemon     *)
(* carries that to the verdict.                                            *)
LEMMA CollectLate ==
  ASSUME SupervisorInv, LateInv, NEW d \in Daemons, CollectStep(d)
  PROVE  LateInv'
  <1>1. TypeOK' /\ daemon \in [Daemons -> DaemonStates]
    BY CollectType DEF SupervisorInv, TypeOK
  <1>2. daemon[d].pc \in Owning
    BY DEF CollectStep, MarkCheck, DoubtCleanup, CheckNotLaunched, LaunchCheck,
           RecordCheck, ClearMarker, RecordCheckExit, SettleCheck, CheckLost, Promote,
           FinishCollection, Collecting, At, Owning, CollectSteps, CheckSteps
  <1>3. PICK e \in Executions :
           /\ e = Exec(d) /\ e = daemon[d].exec /\ daemon[d] \in DaemonStates
           /\ Last(e) \in Attempts
           /\ Relies(daemon[d], Last(e), live[e], marker[e])
    BY <1>2, OwnerFacts
  <1>4. Last(e).lateCheck =>
          daemon[d].pc \in {"check_exited", "check_failed"} /\ daemon[d].out = "late"
    BY <1>2, <1>3 DEF LateInv, LateIsKnown
  <1>5. Gone.pc \notin Owning
    BY GoneRelies
  <1>6. Last(e).status \notin Terminal
    BY <1>3 DEF Relies
  <1>7. ASSUME NEW a, UpdateAttempt(e, a) \/ (attempts' = attempts /\ a = Last(e)),
               NEW s, daemon' = [daemon EXCEPT ![d] = s], s.exec = e,
               a.status = Last(e).status, a.lateCheck => s.out = "late" /\
                 s.pc \in {"check_exited", "check_failed"}
        PROVE  LateInv'
    BY <1>1, <1>2, <1>3, <1>6, <1>7, OwnerKeepsLate
  <1>8. ASSUME NEW a, UpdateAttempt(e, a) \/ (attempts' = attempts /\ a = Last(e)),
               NEW pc \in Steps, Goto(d, pc),
               a.status = Last(e).status, ~a.lateCheck
        PROVE  LateInv'
    <2>1. [daemon[d] EXCEPT !.pc = pc].exec = e
      BY <1>3 DEF DaemonStates
    <2> QED BY <1>7, <1>8, <2>1 DEF Goto
  <1>9. CheckSteps \cup {"promoted", "collecting"} \subseteq Steps
    BY DEF Steps, Owning, CollectSteps
  <1>10. CASE MarkCheck(d)
    <2>1. /\ ~[Last(e) EXCEPT !.known = @ \ {"check"}, !.checks = @ + 1].lateCheck
          /\ [Last(e) EXCEPT !.known = @ \ {"check"}, !.checks = @ + 1].status = Last(e).status
      BY <1>3, <1>4, <1>10 DEF Attempts, MarkCheck, Collecting, At
    <2> QED BY <1>3, <1>8, <1>9, <1>10, <2>1 DEF MarkCheck, CheckSteps
  <1>11. CASE DoubtCleanup(d)
    <2>1. /\ ~[Last(e) EXCEPT !.cleanup = "unconfirmed"].lateCheck
          /\ [Last(e) EXCEPT !.cleanup = "unconfirmed"].status = Last(e).status
      BY <1>3, <1>4, <1>11 DEF Attempts, DoubtCleanup, At
    <2> QED BY <1>3, <1>8, <1>9, <1>11, <2>1 DEF DoubtCleanup, CheckSteps
  <1>12. CASE CheckNotLaunched(d)
    <2>1. PICK out \in {"fail", "late"} : CheckOutcome(d, out, TRUE)
      BY <1>12 DEF CheckNotLaunched
    <2>2. ~Last(e).lateCheck /\ attempts' = attempts
      BY <1>4, <1>12 DEF CheckNotLaunched, At, storeVars
    <2>3. [daemon[d] EXCEPT !.pc = "check_exited", !.out = out, !.clean = TRUE].exec = e
      BY <1>3 DEF DaemonStates
    <2> QED BY <1>7, <2>1, <2>2, <2>3 DEF CheckOutcome
  <1>13. CASE LaunchCheck(d)
    <2>1. ~Last(e).lateCheck /\ attempts' = attempts
      BY <1>4, <1>13 DEF LaunchCheck, At, storeVars
    <2> QED BY <1>8, <1>9, <1>13, <2>1 DEF LaunchCheck, CheckSteps
  <1>14. CASE RecordCheck(d)
    <2>1. /\ ~[Last(e) EXCEPT !.known = @ \cup {"check"}].lateCheck
          /\ [Last(e) EXCEPT !.known = @ \cup {"check"}].status = Last(e).status
      BY <1>3, <1>4, <1>14 DEF Attempts, RecordCheck, At
    <2> QED BY <1>3, <1>8, <1>9, <1>14, <2>1 DEF RecordCheck, CheckSteps
  <1>15. CASE ClearMarker(d)
    <2>1. ~Last(e).lateCheck /\ attempts' = attempts
      BY <1>4, <1>15 DEF ClearMarker, At, storeVars
    <2> QED BY <1>8, <1>9, <1>15, <2>1 DEF ClearMarker, CheckSteps
  <1>16. CASE RecordCheckExit(d)
    <2>1. PICK out \in {"ok", "fail", "late"}, clean \in BOOLEAN :
            /\ UpdateAttempt(Exec(d), [Last(Exec(d)) EXCEPT !.lateCheck = @ \/ out = "late"])
            /\ CheckOutcome(d, out, clean)
      BY <1>16 DEF RecordCheckExit
    <2>2. ~Last(e).lateCheck
      BY <1>4, <1>16 DEF RecordCheckExit, At
    <2>3. /\ [Last(e) EXCEPT !.lateCheck = @ \/ out = "late"].lateCheck => out = "late"
          /\ [Last(e) EXCEPT !.lateCheck = @ \/ out = "late"].status = Last(e).status
      BY <1>3, <2>2 DEF Attempts
    <2>4. /\ [daemon[d] EXCEPT !.pc = "check_exited", !.out = out, !.clean = clean].exec = e
          /\ [daemon[d] EXCEPT !.pc = "check_exited", !.out = out, !.clean = clean].out = out
          /\ [daemon[d] EXCEPT !.pc = "check_exited", !.out = out, !.clean = clean].pc
               = "check_exited"
      BY <1>3 DEF DaemonStates
    <2>5. UpdateAttempt(e, [Last(e) EXCEPT !.lateCheck = @ \/ out = "late"])
      BY <1>3, <2>1
    <2>6. daemon' = [daemon EXCEPT ![d] =
                       [daemon[d] EXCEPT !.pc = "check_exited", !.out = out, !.clean = clean]]
      BY <2>1 DEF CheckOutcome
    <2> QED BY <1>7, <2>3, <2>4, <2>5, <2>6
  <1>17. CASE SettleCheck(d)
    <2> DEFINE out == IF daemon[d].out \in {"ok", "fail"} /\ ~daemon[d].clean THEN "lost"
                      ELSE daemon[d].out
               a == IF daemon[d].clean THEN [Last(e) EXCEPT !.cleanup = "confirmed"]
                                       ELSE Last(e)
               s == IF out = "ok"
                    THEN [daemon[d] EXCEPT !.pc = "collecting", !.out = "none", !.clean = FALSE]
                    ELSE [daemon[d] EXCEPT !.pc = "check_failed", !.out = out, !.clean = FALSE]
    <2>1. UpdateAttempt(e, a) /\ daemon' = [daemon EXCEPT ![d] = s]
      BY <1>3, <1>17 DEF SettleCheck
    <2>2. a.lateCheck = Last(e).lateCheck /\ a.status = Last(e).status
      BY <1>3 DEF Attempts
    <2>3. s.exec = e
      BY <1>3 DEF DaemonStates
    <2>4. daemon[d].out = "late" => s.out = "late" /\ s.pc = "check_failed"
      BY <1>3 DEF DaemonStates
    <2>5. a.lateCheck => s.out = "late" /\ s.pc \in {"check_exited", "check_failed"}
      BY <1>4, <2>2, <2>4
    <2> HIDE DEF a, s
    <2> QED BY <1>7, <2>1, <2>2, <2>3, <2>5
  <1>18. CASE CheckLost(d)
    <2>1. PICK known \in {Last(e).known, Last(e).known \cup {"check"}},
               out \in {"lost", "fail"} :
            /\ UpdateAttempt(e, [Last(e) EXCEPT !.known = known])
            /\ daemon' = [daemon EXCEPT ![d] =
                            [daemon[d] EXCEPT !.pc = "check_failed", !.out = out]]
      BY <1>3, <1>18 DEF CheckLost
    <2>2. ~Last(e).lateCheck
      BY <1>4, <1>18 DEF CheckLost
    <2>3. /\ ~[Last(e) EXCEPT !.known = known].lateCheck
          /\ [Last(e) EXCEPT !.known = known].status = Last(e).status
      BY <1>3, <2>2 DEF Attempts
    <2>4. [daemon[d] EXCEPT !.pc = "check_failed", !.out = out].exec = e
      BY <1>3 DEF DaemonStates
    <2> QED BY <1>7, <2>1, <2>3, <2>4
  <1>19. CASE Promote(d)
    <2>1. ~Last(e).lateCheck /\ attempts' = attempts
      BY <1>4, <1>19 DEF Promote, At, storeVars
    <2> QED BY <1>8, <1>9, <1>19, <2>1 DEF Promote
  <1>20. CASE FinishCollection(d)
    <2>1. PICK v \in Verdicts(d) : Conclude(d, Outcome(e, v[1], v[2]))
      BY <1>3, <1>20 DEF FinishCollection
    <2>2. Last(e).lateCheck => v[1] = "timed_out"
      <3>1. CASE AtDeadline(Exec(d))
        BY <2>1, <3>1 DEF Verdicts, Deadline
      <3>2. CASE ~AtDeadline(Exec(d)) /\ Last(e).lateCheck
        <4>1. At(d, "check_failed") /\ daemon[d].out = "late"
          BY <1>4, <1>20, <3>2 DEF FinishCollection, At
        <4>2. ~At(d, "collecting") /\ ~At(d, "promoted")
          BY <4>1 DEF At
        <4> QED BY <2>1, <3>2, <4>1, <4>2 DEF Verdicts, Late
      <3> QED BY <3>1, <3>2
    <2>3. /\ Outcome(e, v[1], v[2]).lateCheck = Last(e).lateCheck
          /\ Outcome(e, v[1], v[2]).status = v[1]
      BY <1>3 DEF Attempts, Outcome
    <2> QED BY <1>1, <1>2, <1>3, <1>5, <2>1, <2>2, <2>3, OwnerKeepsLate DEF Conclude, Exit
  <1> QED BY <1>10, <1>11, <1>12, <1>13, <1>14, <1>15, <1>16, <1>17, <1>18, <1>19, <1>20
       DEF CollectStep

(* Admission: a fresh attempt has run no check.                            *)
LEMMA AdmissionLate ==
  ASSUME SupervisorInv, LateInv, NEW d \in Daemons, AdmissionStep(d)
  PROVE  LateInv'
  <1>1. /\ TypeOK' /\ attempts \in [Executions -> Seq(Attempts)]
        /\ daemon \in [Daemons -> DaemonStates] /\ Exec(d) \in Executions
        /\ daemon[d].event \in Events \cup {NoEvent}
    BY AdmissionType DEF SupervisorInv, TypeOK, DaemonStates, Exec
  <1>2. Gone.pc \notin Owning
    BY GoneRelies
  <1>3. PreAdmission \cap Owning = {}
    BY DEF PreAdmission, Owning, ClientSteps, CollectSteps, CheckSteps
  <1>4. CASE Admit(d)
    <2>1. PICK e \in Executions : e = Exec(d)
      BY <1>1
    <2>2. AdmitAttempt(e, daemon[d].event) /\ Goto(d, "admitted")
      BY <1>4, <2>1 DEF Admit
    <2>3. /\ Len(attempts'[e]) = Len(attempts[e]) + 1
          /\ Last(e)' = FreshAttempt(daemon[d].event)
          /\ \A i \in 1..Len(attempts[e]) : attempts'[e][i] = attempts[e][i]
          /\ \A f \in Executions : f # e => attempts'[f] = attempts[f]
          /\ Len(attempts[e]) \in Nat
      BY <1>1, <2>2, AdmitEffect
    <2>4. ~Last(e)'.lateCheck
      BY <2>3 DEF FreshAttempt
    <2>5. ASSUME NEW f \in Executions, NEW i \in 1..Len(attempts'[f]),
                 attempts'[f][i].lateCheck, attempts'[f][i].status \in Terminal
          PROVE  attempts'[f][i].status = "timed_out"
      <3>1. CASE f = e /\ i = Len(attempts'[e])
        BY <2>4, <2>5, <3>1 DEF Last
      <3>2. CASE ~(f = e /\ i = Len(attempts'[e]))
        <4>1. i \in 1..Len(attempts[f]) /\ attempts'[f][i] = attempts[f][i]
          BY <2>3, <3>2
        <4> QED BY <2>5, <4>1 DEF LateInv, LateCheckIsTimeout
      <3> QED BY <3>1, <3>2
    <2>6. daemon[d].pc \in Holding
      BY <1>4 DEF Admit, At, AdmitFrom, Holding, AliveSteps, Steps, PreAdmission
    <2>7. ASSUME NEW c \in Daemons PROVE LateIsKnown(c)'
      <3>1. CASE c = d
        <4>1. daemon'[c].exec = e
          BY <1>1, <2>1, <2>2, <3>1 DEF Goto, DaemonStates, Exec
        <4> QED BY <2>4, <4>1 DEF LateIsKnown, Exec
      <3>2. CASE c # d
        <4>1. daemon'[c] = daemon[c] /\ daemon[c].pc \notin Owning
          BY <1>1, <2>2, <2>6, <3>2, OneHolder, OwnersHold DEF Goto
        <4> QED BY <4>1 DEF LateIsKnown
      <3> QED BY <3>1, <3>2
    <2> QED BY <2>5, <2>7 DEF LateInv, LateCheckIsTimeout
  <1>5. CASE ~Admit(d)
    <2>1. attempts' = attempts
      BY <1>5 DEF AdmissionStep, TakeWorktree, AdmissionTimesOut, Consume, ConsumeInvalidates,
                  Refuse, Authorize, AuthorizeRetry, storeVars
    <2>2. \/ daemon' = [daemon EXCEPT ![d] = Gone]
          \/ \E pc \in PreAdmission : daemon' = [daemon EXCEPT ![d] = [@ EXCEPT !.pc = pc]]
      BY <1>5 DEF AdmissionStep, TakeWorktree, AdmissionTimesOut, Consume, ConsumeInvalidates,
                  Refuse, Authorize, Exit, Goto, PreAdmission
    <2>3. ASSUME NEW c \in Daemons
          PROVE  daemon'[c] = daemon[c] \/ daemon'[c].pc \notin Owning
      BY <1>1, <1>2, <1>3, <2>2 DEF DaemonStates
    <2> QED BY <2>1, <2>3, LateIdles
  <1> QED BY <1>4, <1>5

(* The sweep reads the exit ledger, and leaves a terminal outcome alone.   *)
LEMMA RecoverLate ==
  ASSUME SupervisorInv, LateInv, NEW e \in Executions, Recover(e)
  PROVE  LateInv'
  <1>1. /\ TypeOK' /\ attempts \in [Executions -> Seq(Attempts)]
        /\ attempts' \in [Executions -> Seq(Attempts)]
    BY RecoverType DEF SupervisorInv, TypeOK
  <1>2. Recoverable(e) /\ daemon' = daemon
    BY DEF Recover, RecoverConfirmed, RecoverUnconfirmed
  <1>3. /\ Last(e) \in Attempts
        /\ Last(e).lateCheck /\ Last(e).status \in Terminal => Last(e).status = "timed_out"
    <2>1. attempts[e] # << >>
      BY <1>2 DEF Recoverable
    <2>2. Last(e) \in Attempts /\ Len(attempts[e]) \in Nat /\ Len(attempts[e]) # 0
      BY <1>1, <2>1, LastType
    <2> QED BY <2>2 DEF LateInv, LateCheckIsTimeout, Last
  <1>4. ASSUME NEW c
        PROVE  [Recovered(Last(e)) EXCEPT !.cleanup = c].lateCheck =>
                 [Recovered(Last(e)) EXCEPT !.cleanup = c].status = "timed_out"
    BY <1>3 DEF Recovered, Attempts
  <1>5. \E c : UpdateAttempt(e, [Recovered(Last(e)) EXCEPT !.cleanup = c])
    BY DEF Recover, RecoverConfirmed, RecoverUnconfirmed
  <1>6. LateCheckIsTimeout'
    BY <1>1, <1>4, <1>5, UpdateKeepsLate DEF LateInv
  <1>7. ASSUME NEW d \in Daemons PROVE daemon[d].pc \notin Owning
    BY <1>2, OwnersHold, NoDaemonAssumption DEF SupervisorInv, DaemonRelies, Recoverable
  <1> QED BY <1>2, <1>6, <1>7 DEF LateInv, LateIsKnown

(* Every step keeps what is known of late checks.                          *)
LEMMA NextLate == SupervisorInv /\ LateInv /\ [Next]_vars => LateInv'
  <1> SUFFICES ASSUME SupervisorInv, LateInv, [Next]_vars PROVE LateInv'
    OBVIOUS
  <1>1. /\ daemon \in [Daemons -> DaemonStates] /\ Gone.pc \notin Owning
        /\ "spawned" \notin Owning
    BY GoneRelies DEF SupervisorInv, TypeOK, Owning, ClientSteps, CollectSteps, CheckSteps
  <1>2. ASSUME NEW d \in Daemons, DaemonStep(d) PROVE LateInv'
    BY <1>2, AdmissionLate, ClientLate, CollectLate DEF DaemonStep
  <1>3. ASSUME NEW e \in Executions, Recover(e) PROVE LateInv'
    BY <1>3, RecoverLate
  <1>4. ASSUME NEW e \in Executions, Request(e) \/ TickApproves(e) PROVE LateInv'
    <2>1. attempts' = attempts
      BY <1>4 DEF Request, Prepare, Approve, AttachInvalidates, AttachFresh, AttachRecovery,
                  TickApproves, AutoApprove, storeVars
    <2>2. daemon' = daemon \/ \E d \in Daemons : \E ev : Spawn(e, d, ev)
      BY <1>4 DEF Request, Prepare, Approve, AttachInvalidates, AttachFresh, AttachRecovery,
                  TickApproves, AutoApprove
    <2>3. ASSUME NEW c \in Daemons
          PROVE  daemon'[c] = daemon[c] \/ daemon'[c].pc \notin Owning
      BY <1>1, <2>2 DEF Spawn, DaemonStates
    <2> QED BY <2>1, <2>3, LateIdles
  <1>5. ASSUME Environment PROVE LateInv'
    <2>1. attempts' = attempts
      BY <1>5 DEF Environment, Edit, Reboot, DaemonDies, ProcessEnds, storeVars
    <2>2. ASSUME NEW c \in Daemons
          PROVE  daemon'[c] = daemon[c] \/ daemon'[c].pc \notin Owning
      BY <1>1, <1>5 DEF Environment, Edit, Reboot, DaemonDies, ProcessEnds, Exit
    <2> QED BY <2>1, <2>2, LateIdles
  <1>6. CASE UNCHANGED vars
    BY <1>6, LateIdles DEF vars
  <1> QED BY <1>2, <1>3, <1>4, <1>5, <1>6 DEF Next

(* An attempt one of whose checks ran into the deadline ends timed_out,    *)
(* whether its daemon lives to write that or the sweep reads the ledger.   *)
THEOREM LateChecksTimeOut == Spec => []LateCheckIsTimeout
  <1>1. Init => LateInv
    <2> SUFFICES ASSUME Init PROVE LateInv
      OBVIOUS
    <2>1. \A e \in Executions : attempts[e] = << >>
      BY DEF Init
    <2>2. \A d \in Daemons : daemon[d].pc = "unborn"
      BY DEF Init, Unborn
    <2>3. "unborn" \notin Owning
      BY DEF Owning, ClientSteps, CollectSteps, CheckSteps
    <2> QED BY <2>1, <2>2, <2>3 DEF LateInv, LateCheckIsTimeout, LateIsKnown
  <1>2. LateInv => LateCheckIsTimeout
    BY DEF LateInv
  <1> QED BY <1>1, <1>2, NextLate, InvariantHolds, PTL DEF Spec

-----------------------------------------------------------------------------
(* A recovery event admits once *)

(* The durable and volatile places of execution e in which a recovery      *)
(* event can be found.                                                     *)
Held(e, ev) ==
  \/ intent[e].event = ev
  \/ approval[e].event = ev
  \/ EventUsed(e, ev)
  \/ \E d \in Daemons : Exec(d) = e /\ daemon[d].event = ev

(* An event that was issued belongs to one execution.                      *)
HeldOnce ==
  \A e \in Executions, ev \in Events : Held(e, ev) =>
    /\ ev.id <= nextEvent
    /\ \A f \in Executions : Held(f, ev) => e = f

(* Intent and approval name the generation their event was issued against, *)
(* only the operator prepares before approving, and an intent that can     *)
(* still be consumed admitted nothing.                                     *)
IntentFits(e) ==
  /\ intent[e].event.after = intent[e].generation
  /\ approval[e].event.after = approval[e].generation
  /\ intent[e].status # "absent" => intent[e].event \in Events
  /\ intent[e].status = "prepared" => intent[e].event.by = "operator"
  /\ intent[e].status \in {"prepared", "approved"} => ~EventUsed(e, intent[e].event)

(* Between consuming an approval and admitting its attempt a daemon finds  *)
(* the intent as it left it, and an event of the tick follows an attempt   *)
(* of its execution that was interrupted below the budget.                 *)
Interruption(e, n) ==
  /\ n \in 1..Len(attempts[e])
  /\ n < MaxGenerations
  /\ attempts[e][n].status \in {"timed_out", "interrupted"}

EventFits(d) ==
  /\ daemon[d].pc \in {"consumed", "authorized"} =>
       intent[Exec(d)].status = "consumed" /\ intent[Exec(d)].event = daemon[d].event
  /\ daemon[d].event.by = "tick" => Interruption(Exec(d), daemon[d].event.after)

(* Every attempt after the first was admitted by an event issued against   *)
(* the generation before it.                                               *)
AttemptsFit(e) ==
  /\ 1 \in 1..Len(attempts[e]) => attempts[e][1].event = NoEvent
  /\ \A i \in 2..Len(attempts[e]) :
       /\ attempts[e][i].event \in Events
       /\ attempts[e][i].event.after = i - 1
       /\ attempts[e][i].event.by = "tick" => Interruption(e, i - 1)

EventsInv ==
  /\ HeldOnce
  /\ \A e \in Executions : IntentFits(e) /\ AttemptsFit(e)
  /\ \A d \in Daemons : EventFits(d)

(* The types the following lemmas need.                                    *)
LEMMA EventTypes ==
  ASSUME TypeOK
  PROVE  /\ attempts \in [Executions -> Seq(Attempts)]
         /\ intent \in [Executions -> Intents]
         /\ approval \in [Executions -> Approvals]
         /\ daemon \in [Daemons -> DaemonStates]
         /\ nextEvent \in Nat
         /\ \A d \in Daemons : Exec(d) \in Executions /\ daemon[d].event \in Events \cup {NoEvent}
         /\ \A e \in Executions : /\ Generation(e) \in Nat
                                  /\ intent[e].event \in Events \cup {NoEvent}
  BY DEF TypeOK, DaemonStates, Intents, Exec, Generation

(* The placeholder is not an event, and who has ended carries none.        *)
LEMMA NoEventIsNone ==
  /\ NoEvent \notin Events /\ NoEvent.by # "tick" /\ NoEvent.after = 0
  /\ Gone.event = NoEvent /\ Gone.pc = "gone"
  BY DEF NoEvent, Events, Gone, Unborn

(* No write changes which events admitted the attempts or what settled.    *)
AttemptsKept ==
  \A f \in Executions :
    /\ Len(attempts'[f]) = Len(attempts[f])
    /\ \A i \in 1..Len(attempts[f]) :
         /\ attempts'[f][i].event = attempts[f][i].event
         /\ attempts[f][i].status \in Terminal =>
              attempts'[f][i].status = attempts[f][i].status

(* A daemon ends, or keeps what it was spawned with.                       *)
DaemonKept(c) ==
  \/ daemon'[c] = Gone
  \/ /\ daemon'[c].event = daemon[c].event /\ daemon'[c].exec = daemon[c].exec
     /\ daemon'[c].pc \in {"consumed", "authorized"} => daemon'[c].pc = daemon[c].pc

QuietStep ==
  /\ AttemptsKept
  /\ \A c \in Daemons : DaemonKept(c)
  /\ UNCHANGED <<approval, intent, nextEvent>>

(* An untouched store keeps its attempts.                                  *)
LEMMA UnchangedKeeps == attempts' = attempts => AttemptsKept
  BY DEF AttemptsKept

(* update_attempt cannot change what admitted the attempt.                 *)
LEMMA UpdateKeeps ==
  ASSUME attempts \in [Executions -> Seq(Attempts)],
         attempts' \in [Executions -> Seq(Attempts)],
         NEW e \in Executions, NEW a, UpdateAttempt(e, a), a.event = Last(e).event
  PROVE  AttemptsKept
  <1>1. /\ Last(e)' = a /\ Len(attempts'[e]) = Len(attempts[e])
        /\ \A i \in 1..Len(attempts[e]) :
             i # Len(attempts[e]) => attempts'[e][i] = attempts[e][i]
        /\ \A f \in Executions : f # e => attempts'[f] = attempts[f]
    BY UpdateReads
  <1>2. Last(e).status \in Terminal => a.status = Last(e).status
    BY DEF UpdateAttempt
  <1>3. ASSUME NEW i \in 1..Len(attempts[e])
        PROVE  /\ attempts'[e][i].event = attempts[e][i].event
               /\ attempts[e][i].status \in Terminal =>
                    attempts'[e][i].status = attempts[e][i].status
    <2>1. CASE i = Len(attempts[e])
      BY <1>1, <1>2, <2>1 DEF Last
    <2>2. CASE i # Len(attempts[e])
      BY <1>1, <2>2
    <2> QED BY <2>1, <2>2
  <1> QED BY <1>1, <1>3 DEF AttemptsKept

(* Kept attempts use the same events, and an interruption stays one.       *)
LEMMA KeptReads ==
  ASSUME AttemptsKept, NEW e \in Executions
  PROVE  /\ \A ev : EventUsed(e, ev)' <=> EventUsed(e, ev)
         /\ \A n : Interruption(e, n) => Interruption(e, n)'
         /\ AttemptsFit(e) => AttemptsFit(e)'
  <1>1. /\ Len(attempts'[e]) = Len(attempts[e])
        /\ \A i \in 1..Len(attempts[e]) :
             /\ attempts'[e][i].event = attempts[e][i].event
             /\ attempts[e][i].status \in Terminal =>
                  attempts'[e][i].status = attempts[e][i].status
    BY DEF AttemptsKept
  <1>2. \A ev : EventUsed(e, ev)' <=> EventUsed(e, ev)
    BY <1>1 DEF EventUsed
  <1>3. \A n : Interruption(e, n) => Interruption(e, n)'
    BY <1>1 DEF Interruption, Terminal
  <1>4. ASSUME AttemptsFit(e), NEW i \in 2..Len(attempts'[e])
        PROVE  /\ attempts'[e][i].event \in Events
               /\ attempts'[e][i].event.after = i - 1
               /\ attempts'[e][i].event.by = "tick" => Interruption(e, i - 1)'
    <2>1. i \in 2..Len(attempts[e]) /\ i \in 1..Len(attempts[e])
      BY <1>1
    <2>2. attempts'[e][i].event = attempts[e][i].event
      BY <1>1, <2>1
    <2> QED BY <1>3, <1>4, <2>1, <2>2 DEF AttemptsFit
  <1>5. AttemptsFit(e) /\ 1 \in 1..Len(attempts'[e]) => attempts'[e][1].event = NoEvent
    BY <1>1 DEF AttemptsFit
  <1> QED BY <1>2, <1>3, <1>4, <1>5 DEF AttemptsFit

(* Events change hands, and at most one is issued, to execution e.         *)
LEMMA HeldOnceStays ==
  ASSUME HeldOnce, nextEvent \in Nat, NEW e \in Executions,
         nextEvent' \in {nextEvent, nextEvent + 1},
         \A f \in Executions, ev \in Events : Held(f, ev)' =>
           \/ Held(f, ev)
           \/ f = e /\ ev.id = nextEvent + 1 /\ nextEvent' = nextEvent + 1
  PROVE  HeldOnce'
  <1> SUFFICES ASSUME NEW f \in Executions, NEW ev \in Events, Held(f, ev)'
               PROVE  /\ ev.id <= nextEvent'
                      /\ \A g \in Executions : Held(g, ev)' => f = g
    BY DEF HeldOnce
  <1>1. ev.id \in Nat
    BY DEF Events
  <1>2. \A g \in Executions : Held(g, ev) => ev.id <= nextEvent /\ ev.id # nextEvent + 1
    BY <1>1 DEF HeldOnce
  <1>3. CASE Held(f, ev)
    BY <1>1, <1>2, <1>3 DEF HeldOnce
  <1>4. CASE ~Held(f, ev)
    BY <1>1, <1>2, <1>4
  <1> QED BY <1>3, <1>4

(* What the daemons of an execution carry after a step was there before.   *)
LEMMA CarriedBefore ==
  ASSUME NEW f, NEW ev \in Events, \A c \in Daemons : DaemonKept(c),
         NEW c \in Daemons, Exec(c)' = f, daemon'[c].event = ev
  PROVE  Exec(c) = f /\ daemon[c].event = ev
  BY NoEventIsNone DEF DaemonKept, Exec

(* What a daemon carries still fits once it moved quietly.                 *)
LEMMA QuietKeepsEvents ==
  ASSUME TypeOK, EventsInv, QuietStep
  PROVE  EventsInv'
  <1>1. \A e \in Executions, ev \in Events : Held(e, ev)' => Held(e, ev)
    BY CarriedBefore, KeptReads DEF Held, QuietStep
  <1>2. HeldOnce'
    BY <1>1, EventTypes, ExecutionsAssumption, HeldOnceStays DEF EventsInv, QuietStep
  <1>3. ASSUME NEW e \in Executions PROVE IntentFits(e)' /\ AttemptsFit(e)'
    BY <1>3, KeptReads DEF EventsInv, QuietStep, IntentFits
  <1>4. ASSUME NEW d \in Daemons PROVE EventFits(d)'
    <2>1. CASE daemon'[d] = Gone
      BY <2>1, NoEventIsNone DEF EventFits
    <2>2. CASE daemon'[d] # Gone
      <3>1. /\ daemon'[d].event = daemon[d].event /\ Exec(d)' = Exec(d)
            /\ daemon'[d].pc \in {"consumed", "authorized"} => daemon'[d].pc = daemon[d].pc
        BY <2>2 DEF QuietStep, DaemonKept, Exec
      <3>2. Exec(d) \in Executions /\ EventFits(d)
        BY EventTypes DEF EventsInv
      <3> QED BY <3>1, <3>2, KeptReads DEF QuietStep, EventFits
    <2> QED BY <2>1, <2>2
  <1> QED BY <1>2, <1>3, <1>4 DEF EventsInv

(* A step of an owner that writes a and goes to s is quiet.                *)
LEMMA OwnerQuiet ==
  ASSUME SupervisorInv, TypeOK', UNCHANGED <<approval, intent, nextEvent>>,
         NEW d \in Daemons, NEW e \in Executions,
         attempts' = attempts \/ \E a : UpdateAttempt(e, a) /\ a.event = Last(e).event,
         NEW s, daemon' = [daemon EXCEPT ![d] = s],
         \/ s = Gone
         \/ /\ s.event = daemon[d].event /\ s.exec = daemon[d].exec
            /\ s.pc \notin {"consumed", "authorized"}
  PROVE  QuietStep
  <1>1. /\ attempts \in [Executions -> Seq(Attempts)]
        /\ attempts' \in [Executions -> Seq(Attempts)]
        /\ daemon \in [Daemons -> DaemonStates]
    BY DEF SupervisorInv, TypeOK
  <1>2. AttemptsKept
    BY <1>1, UnchangedKeeps, UpdateKeeps
  <1>3. ASSUME NEW c \in Daemons PROVE DaemonKept(c)
    BY <1>1 DEF DaemonKept
  <1> QED BY <1>2, <1>3 DEF QuietStep

(* A client is launched and observed quietly.                              *)
LEMMA ClientQuiet ==
  ASSUME SupervisorInv, NEW d \in Daemons, ClientStep(d)
  PROVE  QuietStep
  <1>1. TypeOK'
    BY ClientType DEF SupervisorInv
  <1>2. daemon[d].pc \in Owning
    BY DEF ClientStep, RecordSupervisor, LaunchFails, Launch, RecordLaunch,
           OwnershipLost, ObserveExit, ExitObserved, At, ClientSteps, Owning
  <1>3. PICK e \in Executions :
           e = Exec(d) /\ daemon[d] \in DaemonStates /\ Last(e) \in Attempts
    BY <1>2, OwnerFacts
  <1>4. UNCHANGED <<intent, nextEvent>>
    BY DEF ClientStep, RecordSupervisor, LaunchFails, Launch, RecordLaunch,
           OwnershipLost, ObserveExit, ExitObserved
  <1>5. /\ attempts' = attempts \/ \E a : UpdateAttempt(e, a) /\ a.event = Last(e).event
        /\ approval' = approval
    <2>1. CASE RecordSupervisor(d)
      <3>1. [Last(e) EXCEPT !.supervisor = d].event = Last(e).event
        BY <1>3 DEF Attempts
      <3> QED BY <1>3, <2>1, <3>1 DEF RecordSupervisor, UpdateAttempt
    <2>2. CASE LaunchFails(d)
      <3>1. [Outcome(e, "blocked", "client_not_launched")
               EXCEPT !.cleanup = "confirmed"].event = Last(e).event
        BY <1>3 DEF Attempts, Outcome
      <3> QED BY <1>3, <2>2, <3>1 DEF LaunchFails, Conclude, UpdateAttempt
    <2>3. CASE Launch(d)
      BY <2>3 DEF Launch, storeVars
    <2>4. CASE RecordLaunch(d)
      <3>1. [Last(e) EXCEPT !.status = "running", !.known = @ \cup {"client"}].event
              = Last(e).event
        BY <1>3 DEF Attempts
      <3> QED BY <1>3, <2>4, <3>1 DEF RecordLaunch, UpdateAttempt
    <2>5. CASE OwnershipLost(d)
      <3>1. PICK known : UpdateAttempt(e, [Outcome(e, "interrupted", "exit_unobservable")
                           EXCEPT !.cleanup = "unconfirmed", !.known = known])
        BY <1>3, <2>5 DEF OwnershipLost, Conclude
      <3>2. [Outcome(e, "interrupted", "exit_unobservable")
               EXCEPT !.cleanup = "unconfirmed", !.known = known].event = Last(e).event
        BY <1>3 DEF Attempts, Outcome
      <3>3. approval' = approval
        BY <3>1 DEF UpdateAttempt
      <3> QED BY <3>1, <3>2, <3>3
    <2>6. CASE ObserveExit(d)
      <3>1. \A outcome, confirmed : ExitRecord(e, outcome, confirmed).event = Last(e).event
        BY <1>3 DEF Attempts, ExitRecord, Outcome
      <3> QED BY <1>3, <2>6, <3>1 DEF ObserveExit, ExitObserved, Conclude, UpdateAttempt
    <2> QED BY <2>1, <2>2, <2>3, <2>4, <2>5, <2>6 DEF ClientStep
  <1>6. \E pc \in {"ready", "launched", "running", "collecting"} :
          \/ daemon' = [daemon EXCEPT ![d] = Gone]
          \/ daemon' = [daemon EXCEPT ![d] = [daemon[d] EXCEPT !.pc = pc]]
    BY DEF ClientStep, RecordSupervisor, LaunchFails, Launch, RecordLaunch,
           OwnershipLost, ObserveExit, ExitObserved, Conclude, Exit, Goto
  <1>7. \A pc \in {"ready", "launched", "running", "collecting"} :
          LET s == [daemon[d] EXCEPT !.pc = pc] IN
          /\ s.event = daemon[d].event /\ s.exec = daemon[d].exec
          /\ s.pc \notin {"consumed", "authorized"}
    BY <1>3 DEF DaemonStates
  <1> QED BY <1>1, <1>4, <1>5, <1>6, <1>7, OwnerQuiet

(* So are its checks, whatever they find.                                  *)
LEMMA CollectQuiet ==
  ASSUME SupervisorInv, NEW d \in Daemons, CollectStep(d)
  PROVE  QuietStep
  <1>1. TypeOK'
    BY CollectType DEF SupervisorInv
  <1>2. daemon[d].pc \in Owning
    BY DEF CollectStep, MarkCheck, DoubtCleanup, CheckNotLaunched, LaunchCheck,
           RecordCheck, ClearMarker, RecordCheckExit, SettleCheck, CheckLost, Promote,
           FinishCollection, Collecting, At, Owning, CollectSteps, CheckSteps
  <1>3. PICK e \in Executions :
           e = Exec(d) /\ daemon[d] \in DaemonStates /\ Last(e) \in Attempts
    BY <1>2, OwnerFacts
  <1>4. UNCHANGED <<intent, nextEvent>>
    BY DEF CollectStep, MarkCheck, DoubtCleanup, CheckNotLaunched, LaunchCheck,
           RecordCheck, ClearMarker, RecordCheckExit, SettleCheck, CheckLost, Promote,
           FinishCollection
  <1>5. /\ attempts' = attempts \/ \E a : UpdateAttempt(e, a) /\ a.event = Last(e).event
        /\ approval' = approval
    <2>1. CASE MarkCheck(d)
      <3>1. [Last(e) EXCEPT !.known = @ \ {"check"}, !.checks = @ + 1].event = Last(e).event
        BY <1>3 DEF Attempts
      <3> QED BY <1>3, <2>1, <3>1 DEF MarkCheck, UpdateAttempt
    <2>2. CASE DoubtCleanup(d)
      <3>1. [Last(e) EXCEPT !.cleanup = "unconfirmed"].event = Last(e).event
        BY <1>3 DEF Attempts
      <3> QED BY <1>3, <2>2, <3>1 DEF DoubtCleanup, UpdateAttempt
    <2>3. CASE CheckNotLaunched(d) \/ LaunchCheck(d) \/ ClearMarker(d) \/ Promote(d)
      BY <2>3 DEF CheckNotLaunched, LaunchCheck, ClearMarker, Promote, storeVars
    <2>4. CASE RecordCheck(d)
      <3>1. [Last(e) EXCEPT !.known = @ \cup {"check"}].event = Last(e).event
        BY <1>3 DEF Attempts
      <3> QED BY <1>3, <2>4, <3>1 DEF RecordCheck, UpdateAttempt
    <2>5. CASE RecordCheckExit(d)
      <3>1. \A out : [Last(e) EXCEPT !.lateCheck = @ \/ out = "late"].event = Last(e).event
        BY <1>3 DEF Attempts
      <3> QED BY <1>3, <2>5, <3>1 DEF RecordCheckExit, UpdateAttempt
    <2>6. CASE SettleCheck(d)
      <3>1. [Last(e) EXCEPT !.cleanup = "confirmed"].event = Last(e).event
        BY <1>3 DEF Attempts
      <3>2. UpdateAttempt(e, IF daemon[d].clean THEN [Last(e) EXCEPT !.cleanup = "confirmed"]
                                                ELSE Last(e))
        BY <1>3, <2>6 DEF SettleCheck
      <3>3. approval' = approval
        BY <3>2 DEF UpdateAttempt
      <3> QED BY <3>1, <3>2, <3>3
    <2>7. CASE CheckLost(d)
      <3>1. PICK known : UpdateAttempt(e, [Last(e) EXCEPT !.known = known])
        BY <1>3, <2>7 DEF CheckLost
      <3>2. [Last(e) EXCEPT !.known = known].event = Last(e).event
        BY <1>3 DEF Attempts
      <3>3. approval' = approval
        BY <3>1 DEF UpdateAttempt
      <3> QED BY <3>1, <3>2, <3>3
    <2>8. CASE FinishCollection(d)
      <3>1. \A v : Outcome(e, v[1], v[2]).event = Last(e).event
        BY <1>3 DEF Attempts, Outcome
      <3> QED BY <1>3, <2>8, <3>1 DEF FinishCollection, Conclude, UpdateAttempt
    <2> QED BY <2>1, <2>2, <2>3, <2>4, <2>5, <2>6, <2>7, <2>8 DEF CollectStep
  <1>6. \E s : /\ daemon' = [daemon EXCEPT ![d] = s]
               /\ \/ s = Gone
                  \/ /\ s.event = daemon[d].event /\ s.exec = daemon[d].exec
                     /\ s.pc \notin {"consumed", "authorized"}
    <2> DEFINE Moves(s) == /\ daemon' = [daemon EXCEPT ![d] = s]
                           /\ \/ s = Gone
                              \/ /\ s.event = daemon[d].event /\ s.exec = daemon[d].exec
                                 /\ s.pc \notin {"consumed", "authorized"}
    <2>1. ASSUME NEW pc \in {"check_marked", "check_ready", "check_spawned", "check_received",
                             "check_running", "promoted"}, Goto(d, pc)
          PROVE  Moves([daemon[d] EXCEPT !.pc = pc])
      BY <1>3, <2>1 DEF Goto, DaemonStates
    <2>2. CASE \/ MarkCheck(d) \/ DoubtCleanup(d) \/ LaunchCheck(d) \/ RecordCheck(d)
               \/ ClearMarker(d) \/ Promote(d)
      <3>1. \E pc \in {"check_marked", "check_ready", "check_spawned", "check_received",
                       "check_running", "promoted"} : Goto(d, pc)
        BY <2>2 DEF MarkCheck, DoubtCleanup, LaunchCheck, RecordCheck, ClearMarker, Promote
      <3> HIDE DEF Moves
      <3>2. \E s : Moves(s)
        BY <2>1, <3>1
      <3> QED BY <3>2 DEF Moves
    <2>3. CASE CheckNotLaunched(d) \/ RecordCheckExit(d)
      <3>1. PICK out, clean : CheckOutcome(d, out, clean)
        BY <2>3 DEF CheckNotLaunched, RecordCheckExit
      <3>2. Moves([daemon[d] EXCEPT !.pc = "check_exited", !.out = out, !.clean = clean])
        BY <1>3, <3>1 DEF CheckOutcome, DaemonStates
      <3> QED BY <3>2
    <2>4. CASE SettleCheck(d)
      <3>1. \/ daemon' = [daemon EXCEPT ![d] =
                 [daemon[d] EXCEPT !.pc = "collecting", !.out = "none", !.clean = FALSE]]
            \/ \E out : daemon' = [daemon EXCEPT ![d] =
                 [daemon[d] EXCEPT !.pc = "check_failed", !.out = out, !.clean = FALSE]]
        BY <2>4 DEF SettleCheck
      <3>2. \/ Moves([daemon[d] EXCEPT !.pc = "collecting", !.out = "none", !.clean = FALSE])
            \/ \E out :
                 Moves([daemon[d] EXCEPT !.pc = "check_failed", !.out = out, !.clean = FALSE])
        BY <1>3, <3>1 DEF DaemonStates
      <3> QED BY <3>2
    <2>5. CASE CheckLost(d)
      <3>1. PICK out : daemon' = [daemon EXCEPT ![d] =
                                    [daemon[d] EXCEPT !.pc = "check_failed", !.out = out]]
        BY <2>5 DEF CheckLost
      <3>2. Moves([daemon[d] EXCEPT !.pc = "check_failed", !.out = out])
        BY <1>3, <3>1 DEF DaemonStates
      <3> QED BY <3>2
    <2>6. CASE FinishCollection(d)
      BY <2>6 DEF FinishCollection, Conclude, Exit
    <2> QED BY <2>2, <2>3, <2>4, <2>5, <2>6 DEF CollectStep
  <1> QED BY <1>1, <1>4, <1>5, <1>6, OwnerQuiet

(* The sweep closes an attempt without touching what admitted it.          *)
LEMMA RecoverQuiet ==
  ASSUME SupervisorInv, NEW e \in Executions, Recover(e)
  PROVE  QuietStep
  <1>1. /\ attempts \in [Executions -> Seq(Attempts)]
        /\ attempts' \in [Executions -> Seq(Attempts)]
    BY RecoverType DEF SupervisorInv, TypeOK
  <1>2. attempts[e] # << >> /\ UNCHANGED <<intent, nextEvent, daemon>>
    BY DEF Recover, RecoverConfirmed, RecoverUnconfirmed, Recoverable
  <1>3. Last(e) \in Attempts
    BY <1>1, <1>2, LastType
  <1>4. \A c : [Recovered(Last(e)) EXCEPT !.cleanup = c].event = Last(e).event
    BY <1>3 DEF Recovered, Attempts
  <1>5. \E c : UpdateAttempt(e, [Recovered(Last(e)) EXCEPT !.cleanup = c])
    BY DEF Recover, RecoverConfirmed, RecoverUnconfirmed
  <1>6. AttemptsKept /\ approval' = approval
    BY <1>1, <1>4, <1>5, UpdateKeeps DEF UpdateAttempt
  <1> QED BY <1>2, <1>6 DEF QuietStep, DaemonKept

(* Deaths, reboots and edits leave every record alone.                     *)
LEMMA EnvironmentQuiet ==
  ASSUME SupervisorInv, Environment
  PROVE  QuietStep
  <1>1. daemon \in [Daemons -> DaemonStates]
    BY DEF SupervisorInv, TypeOK
  <1>2. UNCHANGED <<attempts, approval, intent, nextEvent>>
    BY DEF Environment, Edit, Reboot, DaemonDies, ProcessEnds, storeVars
  <1>3. ASSUME NEW c \in Daemons PROVE daemon'[c] = daemon[c] \/ daemon'[c] = Gone
    BY <1>1 DEF Environment, Edit, Reboot, DaemonDies, ProcessEnds, Exit
  <1> QED BY <1>2, <1>3, UnchangedKeeps DEF QuietStep, DaemonKept

(* A daemon takes the lock, gives up waiting for it, or is refused.        *)
LEMMA WaitQuiet ==
  ASSUME SupervisorInv, NEW d \in Daemons,
         TakeWorktree(d) \/ AdmissionTimesOut(d) \/ Refuse(d)
  PROVE  QuietStep
  <1>1. daemon \in [Daemons -> DaemonStates]
    BY DEF SupervisorInv, TypeOK
  <1>2. UNCHANGED <<attempts, approval, intent, nextEvent>>
    BY DEF TakeWorktree, AdmissionTimesOut, Refuse, storeVars
  <1>3. \/ daemon' = [daemon EXCEPT ![d] = Gone]
        \/ daemon' = [daemon EXCEPT ![d] = [daemon[d] EXCEPT !.pc = "locked"]]
    BY DEF TakeWorktree, AdmissionTimesOut, Refuse, Exit, Goto
  <1>4. ASSUME NEW c \in Daemons PROVE DaemonKept(c)
    BY <1>1, <1>3 DEF DaemonKept, DaemonStates
  <1> QED BY <1>2, <1>4, UnchangedKeeps DEF QuietStep

(* An intent changes its status only, in a step after which whoever has    *)
(* consumed it finds it consumed.                                          *)
LEMMA StatusKeepsEvents ==
  ASSUME TypeOK, EventsInv, UNCHANGED <<attempts, approval, nextEvent>>,
         NEW e \in Executions, intent[e].status # "absent",
         NEW status, SetIntent(e, [intent[e] EXCEPT !.status = status]),
         status # "prepared",
         status \in {"prepared", "approved"} => intent[e].status \in {"prepared", "approved"},
         \A c \in Daemons :
           \/ daemon'[c] = Gone
           \/ /\ daemon'[c].event = daemon[c].event /\ daemon'[c].exec = daemon[c].exec
              /\ daemon'[c].pc \in {"consumed", "authorized"} =>
                   status = "consumed" /\ Exec(c) = e /\ daemon[c].event = intent[e].event
  PROVE  EventsInv'
  <1>1. /\ intent'[e].status = status /\ intent'[e].event = intent[e].event
        /\ intent'[e].generation = intent[e].generation
        /\ \A f \in Executions : f # e => intent'[f] = intent[f]
    BY EventTypes DEF SetIntent, Intents
  <1>2. \A f \in Executions : \A ev : EventUsed(f, ev)' <=> EventUsed(f, ev)
    BY DEF EventUsed
  <1>3. ASSUME NEW f \in Executions, NEW ev \in Events, Held(f, ev)' PROVE Held(f, ev)
    <2>1. ASSUME NEW c \in Daemons, Exec(c)' = f, daemon'[c].event = ev
          PROVE  Exec(c) = f /\ daemon[c].event = ev
      BY <2>1, NoEventIsNone DEF Exec
    <2> QED BY <1>1, <1>2, <1>3, <2>1 DEF Held
  <1>4. HeldOnce'
    BY <1>3, EventTypes, HeldOnceStays DEF EventsInv
  <1>5. ASSUME NEW f \in Executions PROVE IntentFits(f)' /\ AttemptsFit(f)'
    <2>1. IntentFits(f) /\ AttemptsFit(f)
      BY DEF EventsInv
    <2>2. AttemptsFit(f)'
      BY <2>1, UnchangedKeeps, KeptReads
    <2>3. IntentFits(f)'
      BY <1>1, <1>2, <2>1 DEF IntentFits
    <2> QED BY <2>2, <2>3
  <1>6. ASSUME NEW c \in Daemons PROVE EventFits(c)'
    <2>1. CASE daemon'[c] = Gone
      BY <2>1, NoEventIsNone DEF EventFits
    <2>2. CASE daemon'[c] # Gone
      <3>1. PICK f \in Executions, v \in Events \cup {NoEvent} :
              f = Exec(c) /\ v = daemon[c].event /\ f = Exec(c)' /\ v = daemon'[c].event
        BY <2>2, EventTypes DEF Exec
      <3>2. v.by = "tick" => Interruption(f, v.after)'
        BY <3>1, UnchangedKeeps, KeptReads DEF EventsInv, EventFits
      <3>3. daemon'[c].pc \in {"consumed", "authorized"} =>
              intent'[f].status = "consumed" /\ intent'[f].event = v
        BY <1>1, <2>2, <3>1
      <3> QED BY <3>1, <3>2, <3>3 DEF EventFits
    <2> QED BY <2>1, <2>2
  <1> QED BY <1>4, <1>5, <1>6 DEF EventsInv

(* A new intent carries an event nobody has seen.                          *)
LEMMA NewIntentKeepsEvents ==
  ASSUME TypeOK, EventsInv, UNCHANGED <<attempts, approval, daemon>>,
         \A c \in Daemons : daemon[c].pc \notin {"consumed", "authorized"},
         NEW e \in Executions, NEW approver \in {"tick", "operator"},
         NEW status \in {"prepared", "approved"}, NEW reissues,
         status = "prepared" => approver = "operator",
         NewIntent(e, approver, status, reissues)
  PROVE  EventsInv'
  <1> DEFINE new == [by |-> approver, id |-> nextEvent + 1, after |-> Generation(e)]
  <1>1. /\ intent'[e].status = status /\ intent'[e].event = new
        /\ intent'[e].generation = Generation(e)
        /\ \A f \in Executions : f # e => intent'[f] = intent[f]
        /\ nextEvent' = nextEvent + 1
    BY EventTypes DEF NewIntent, SetIntent
  <1>2. /\ new \in Events /\ new.id = nextEvent + 1 /\ new.after = Generation(e)
        /\ new.by = approver
    BY EventTypes DEF Events
  <1> HIDE DEF new
  <1>3. \A f \in Executions : \A ev : EventUsed(f, ev)' <=> EventUsed(f, ev)
    BY DEF EventUsed
  <1>4. \A f \in Executions, ev \in Events : Held(f, ev)' =>
          Held(f, ev) \/ (f = e /\ ev.id = nextEvent + 1 /\ nextEvent' = nextEvent + 1)
    BY <1>1, <1>2, <1>3 DEF Held, Exec
  <1>5. HeldOnce'
    BY <1>1, <1>4, EventTypes, HeldOnceStays DEF EventsInv
  <1>6. ~EventUsed(e, new)
    <2>1. ~Held(e, new)
      BY <1>2, EventTypes DEF EventsInv, HeldOnce
    <2> QED BY <2>1 DEF Held
  <1>7. ASSUME NEW f \in Executions PROVE IntentFits(f)' /\ AttemptsFit(f)'
    <2>1. IntentFits(f) /\ AttemptsFit(f)
      BY DEF EventsInv
    <2>2. AttemptsFit(f)'
      BY <2>1, UnchangedKeeps, KeptReads
    <2>3. IntentFits(f)'
      BY <1>1, <1>2, <1>3, <1>6, <2>1 DEF IntentFits
    <2> QED BY <2>2, <2>3
  <1>8. ASSUME NEW c \in Daemons PROVE EventFits(c)'
    <2>1. Exec(c) \in Executions /\ EventFits(c) /\ Exec(c)' = Exec(c)
      BY EventTypes DEF EventsInv, Exec
    <2> QED BY <2>1, UnchangedKeeps, KeptReads DEF EventFits
  <1> QED BY <1>5, <1>7, <1>8 DEF EventsInv

(* A daemon is spawned with an approval that admitted nothing yet.         *)
LEMMA SpawnKeepsEvents ==
  ASSUME TypeOK, EventsInv, UNCHANGED <<attempts, approval, intent, nextEvent>>,
         NEW e \in Executions, NEW d \in Daemons,
         NEW ev, Spawn(e, d, ev),
         \/ ev = NoEvent
         \/ ev = intent[e].event /\ (ev.by = "tick" => PendingAutoRecovery(e))
  PROVE  EventsInv'
  <1>1. /\ daemon'[d].event = ev /\ daemon'[d].exec = e /\ daemon'[d].pc = "spawned"
        /\ \A c \in Daemons : c # d => daemon'[c] = daemon[c]
    BY EventTypes DEF Spawn, DaemonStates
  <1>2. AttemptsKept /\ \A f \in Executions : \A v : EventUsed(f, v)' <=> EventUsed(f, v)
    BY UnchangedKeeps DEF EventUsed
  <1>3. ASSUME NEW f \in Executions, NEW v \in Events, Held(f, v)' PROVE Held(f, v)
    <2>1. ASSUME NEW c \in Daemons, Exec(c)' = f, daemon'[c].event = v
          PROVE  Held(f, v)
      BY <1>1, <2>1, NoEventIsNone DEF Exec, Held
    <2> QED BY <1>2, <1>3, <2>1 DEF Held
  <1>4. HeldOnce'
    BY <1>3, EventTypes, HeldOnceStays DEF EventsInv
  <1>5. ASSUME NEW f \in Executions PROVE IntentFits(f)' /\ AttemptsFit(f)'
    BY <1>2, KeptReads DEF EventsInv, IntentFits
  <1>6. ASSUME NEW c \in Daemons PROVE EventFits(c)'
    <2>1. CASE c # d
      <3>1. Exec(c) \in Executions /\ EventFits(c) /\ daemon'[c] = daemon[c] /\ Exec(c)' = Exec(c)
        BY <1>1, <2>1, EventTypes DEF EventsInv, Exec
      <3> QED BY <1>2, <3>1, KeptReads DEF EventFits
    <2>2. CASE c = d
      <3>1. Exec(c)' = e
        BY <1>1, <2>2 DEF Exec
      <3>2. ev.by = "tick" => Interruption(e, ev.after)
        <4>1. SUFFICES ASSUME ev.by = "tick" PROVE Interruption(e, ev.after)
          OBVIOUS
        <4>2. ev = intent[e].event /\ PendingAutoRecovery(e)
          BY <4>1, NoEventIsNone
        <4>3. ev.after = Len(attempts[e]) /\ Len(attempts[e]) < MaxGenerations
          BY <4>2 DEF EventsInv, IntentFits, PendingAutoRecovery, Generation
        <4>4. /\ Last(e).status \in {"timed_out", "interrupted"}
              /\ attempts[e] # << >> /\ attempts[e] \in Seq(Attempts)
          BY <4>2, EventTypes DEF PendingAutoRecovery
        <4>5. Len(attempts[e]) \in 1..Len(attempts[e])
          BY <4>4
        <4> QED BY <4>3, <4>4, <4>5 DEF Interruption, Last
      <3>3. ev.by = "tick" => Interruption(e, ev.after)'
        BY <1>2, <3>2, KeptReads
      <3> QED BY <1>1, <2>2, <3>1, <3>3 DEF EventFits
    <2> QED BY <2>1, <2>2
  <1> QED BY <1>4, <1>5, <1>6 DEF EventsInv

(* The approval binds the event to the generation it was issued against.   *)
LEMMA AuthorizeKeepsEvents ==
  ASSUME TypeOK, EventsInv, NEW d \in Daemons, Authorize(d)
  PROVE  EventsInv'
  <1> DEFINE e == Exec(d)
  <1>1. e \in Executions /\ EventFits(d) /\ IntentFits(e)
    BY EventTypes DEF EventsInv
  <1>2. /\ intent[e].status = "consumed" /\ intent[e].event = daemon[d].event
        /\ daemon[d].event.after = intent[e].generation
    BY <1>1 DEF Authorize, At, EventFits, IntentFits
  <1>3. /\ UNCHANGED <<attempts, intent, nextEvent>>
        /\ approval' = [approval EXCEPT ![e] = [generation |-> intent[e].generation,
                                                event |-> daemon[d].event]]
    BY DEF Authorize, AuthorizeRetry
  <1>4. /\ daemon'[d].event = daemon[d].event /\ daemon'[d].exec = daemon[d].exec
        /\ daemon'[d].pc = "authorized"
        /\ \A c \in Daemons : c # d => daemon'[c] = daemon[c]
    BY EventTypes DEF Authorize, Goto, DaemonStates
  <1>5. AttemptsKept /\ \A f \in Executions : \A v : EventUsed(f, v)' <=> EventUsed(f, v)
    BY <1>3, UnchangedKeeps DEF EventUsed
  <1>6. /\ approval'[e].event = daemon[d].event /\ approval'[e].generation = intent[e].generation
        /\ \A f \in Executions : f # e => approval'[f] = approval[f]
    BY <1>1, <1>3, EventTypes
  <1>7. \A c \in Daemons : Exec(c)' = Exec(c) /\ daemon'[c].event = daemon[c].event
    BY <1>4 DEF Exec
  <1>8. ASSUME NEW f \in Executions, NEW v \in Events, Held(f, v)' PROVE Held(f, v)
    BY <1>3, <1>5, <1>6, <1>7, <1>8 DEF Held
  <1>9. HeldOnce'
    BY <1>1, <1>3, <1>8, EventTypes, HeldOnceStays DEF EventsInv
  <1>10. ASSUME NEW f \in Executions PROVE IntentFits(f)' /\ AttemptsFit(f)'
    <2>1. IntentFits(f) /\ AttemptsFit(f)
      BY DEF EventsInv
    <2>2. IntentFits(f)'
      BY <1>2, <1>3, <1>5, <1>6, <2>1 DEF IntentFits
    <2> QED BY <1>5, <2>1, <2>2, KeptReads
  <1>11. ASSUME NEW c \in Daemons PROVE EventFits(c)'
    <2>1. PICK f \in Executions, v \in Events \cup {NoEvent} :
            f = Exec(c) /\ v = daemon[c].event /\ f = Exec(c)' /\ v = daemon'[c].event
      BY <1>7, EventTypes
    <2>2. EventFits(c)
      BY DEF EventsInv
    <2>3. v.by = "tick" => Interruption(f, v.after)'
      BY <1>5, <2>1, <2>2, KeptReads DEF EventFits
    <2>4. daemon'[c].pc \in {"consumed", "authorized"} =>
            intent'[f].status = "consumed" /\ intent'[f].event = v
      BY <1>2, <1>3, <1>4, <2>1, <2>2 DEF EventFits
    <2> QED BY <2>1, <2>3, <2>4 DEF EventFits
  <1> QED BY <1>9, <1>10, <1>11 DEF EventsInv

(* The admission uses the event, on the generation it was issued against.  *)
LEMMA AdmitKeepsEvents ==
  ASSUME SupervisorInv, EventsInv, NEW d \in Daemons, Admit(d)
  PROVE  EventsInv'
  <1>0. TypeOK
    BY DEF SupervisorInv
  <1>1. PICK e \in Executions, ev \in Events \cup {NoEvent} : e = Exec(d) /\ ev = daemon[d].event
    BY <1>0, EventTypes
  <1>2. AdmitAttempt(e, ev) /\ At(d, AdmitFrom(d)) /\ UNCHANGED <<intent, nextEvent>>
    BY <1>1 DEF Admit
  <1>3. /\ Len(attempts'[e]) = Len(attempts[e]) + 1 /\ Len(attempts[e]) \in Nat
        /\ Last(e)' = FreshAttempt(ev)
        /\ \A i \in 1..Len(attempts[e]) : attempts'[e][i] = attempts[e][i]
        /\ \A f \in Executions : f # e => attempts'[f] = attempts[f]
    BY <1>0, <1>2, AdmitEffect, EventTypes
  <1>4. attempts'[e][Len(attempts[e]) + 1].event = ev
    BY <1>3 DEF Last, FreshAttempt
  <1>5. /\ approval'[e] = NoApproval
        /\ \A f \in Executions : f # e => approval'[f] = approval[f]
    BY <1>0, <1>2, EventTypes DEF AdmitAttempt
  <1>6. /\ daemon'[d].event = ev /\ Exec(d)' = e /\ daemon'[d].pc = "admitted"
        /\ \A c \in Daemons : c # d => daemon'[c] = daemon[c] /\ Exec(c)' = Exec(c)
    BY <1>0, <1>1, EventTypes DEF Admit, Goto, DaemonStates, Exec
  <1>7. \A f \in Executions : \A v :
          EventUsed(f, v)' => EventUsed(f, v) \/ (f = e /\ v = ev)
    <2>1. ASSUME NEW f \in Executions, NEW v, NEW i \in 1..Len(attempts'[f]),
                 attempts'[f][i].event = v
          PROVE  EventUsed(f, v) \/ (f = e /\ v = ev)
      <3>1. CASE f = e /\ i = Len(attempts[e]) + 1
        BY <1>4, <2>1, <3>1
      <3>2. CASE ~(f = e /\ i = Len(attempts[e]) + 1)
        <4>1. i \in 1..Len(attempts[f]) /\ attempts'[f][i] = attempts[f][i]
          BY <1>3, <3>2
        <4> QED BY <2>1, <4>1 DEF EventUsed
      <3> QED BY <3>1, <3>2
    <2> QED BY <2>1 DEF EventUsed
  <1>8. \A f \in Executions : \A n : Interruption(f, n) => Interruption(f, n)'
    BY <1>3 DEF Interruption
  <1>9. NoApproval.event = NoEvent /\ NoApproval.event.after = NoApproval.generation
    BY DEF NoApproval, NoEvent
  <1>10. ASSUME NEW f \in Executions, NEW v \in Events, Held(f, v)' PROVE Held(f, v)
    <2>1. ASSUME NEW c \in Daemons, Exec(c)' = f, daemon'[c].event = v
          PROVE  Held(f, v)
      BY <1>1, <1>6, <2>1 DEF Held
    <2>2. f = e /\ v = ev => Held(f, v)
      BY <1>1 DEF Held
    <2> QED BY <1>2, <1>5, <1>7, <1>9, <1>10, <2>1, <2>2, NoEventIsNone DEF Held
  <1>11. HeldOnce'
    BY <1>0, <1>2, <1>10, EventTypes, HeldOnceStays DEF EventsInv
  <1>12. ASSUME NEW f \in Executions PROVE IntentFits(f)'
    <2>1. IntentFits(f) /\ intent'[f] = intent[f]
      BY <1>2 DEF EventsInv
    <2>2. approval'[f].event.after = approval'[f].generation
      BY <1>5, <1>9, <2>1 DEF IntentFits
    <2>3. ASSUME intent[f].status \in {"prepared", "approved"}, f = e, intent[f].event = ev
          PROVE  FALSE
      <3>1. ev # NoEvent
        BY <2>1, <2>3, NoEventIsNone DEF IntentFits
      <3>2. daemon[d].pc = "authorized"
        BY <1>1, <1>2, <3>1 DEF At, AdmitFrom
      <3> QED BY <1>1, <2>3, <3>2 DEF EventsInv, EventFits
    <2>4. intent'[f].status \in {"prepared", "approved"} => ~EventUsed(f, intent[f].event)'
      BY <1>2, <1>7, <2>1, <2>3 DEF IntentFits
    <2> QED BY <1>2, <2>1, <2>2, <2>4 DEF IntentFits, EventUsed
  <1>13. ASSUME NEW f \in Executions, NEW i \in 2..Len(attempts'[f])
         PROVE  /\ attempts'[f][i].event \in Events
                /\ attempts'[f][i].event.after = i - 1
                /\ attempts'[f][i].event.by = "tick" => Interruption(f, i - 1)'
    <2>1. CASE f = e /\ i = Len(attempts[e]) + 1
      <3>1. attempts[e] # << >>
        BY <1>3, <2>1
      <3>2. ev # NoEvent /\ RetryAuthorized(e, ev)
        BY <1>2, <3>1 DEF AdmitAttempt
      <3>3. approval[e].event = ev /\ approval[e].generation = i - 1
        BY <1>3, <2>1, <3>2 DEF RetryAuthorized, Generation
      <3>4. ev \in Events /\ ev.after = i - 1
        BY <3>2, <3>3 DEF EventsInv, IntentFits
      <3>5. ev.by = "tick" => Interruption(e, i - 1)
        BY <1>1, <3>4 DEF EventsInv, EventFits
      <3> QED BY <1>4, <1>8, <2>1, <3>4, <3>5
    <2>2. CASE ~(f = e /\ i = Len(attempts[e]) + 1)
      <3>1. i \in 2..Len(attempts[f]) /\ attempts'[f][i] = attempts[f][i]
        <4>1. attempts[f] \in Seq(Attempts)
          BY <1>0, EventTypes
        <4> QED BY <1>3, <2>2, <4>1
      <3> QED BY <1>8, <3>1 DEF EventsInv, AttemptsFit
    <2> QED BY <2>1, <2>2
  <1>14. ASSUME NEW c \in Daemons PROVE EventFits(c)'
    <2>1. PICK f \in Executions, v \in Events \cup {NoEvent} :
            f = Exec(c) /\ v = daemon[c].event /\ f = Exec(c)' /\ v = daemon'[c].event
      BY <1>0, <1>1, <1>6, EventTypes
    <2>2. EventFits(c)
      BY DEF EventsInv
    <2>3. v.by = "tick" => Interruption(f, v.after)'
      BY <1>8, <2>1, <2>2 DEF EventFits
    <2>4. daemon'[c].pc \in {"consumed", "authorized"} =>
            intent'[f].status = "consumed" /\ intent'[f].event = v
      BY <1>2, <1>6, <2>1, <2>2 DEF EventFits
    <2> QED BY <2>1, <2>3, <2>4 DEF EventFits
  <1>15. ASSUME NEW f \in Executions, 1 \in 1..Len(attempts'[f])
         PROVE  attempts'[f][1].event = NoEvent
    <2>1. CASE f = e /\ attempts[e] = << >>
      BY <1>2, <1>4, <2>1 DEF AdmitAttempt
    <2>2. CASE ~(f = e /\ attempts[e] = << >>)
      <3>1. attempts[e] # << >> => Len(attempts[e]) >= 1
        BY <1>0, EventTypes
      <3>2. 1 \in 1..Len(attempts[f]) /\ attempts'[f][1] = attempts[f][1]
        BY <1>3, <1>15, <2>2, <3>1
      <3> QED BY <3>2 DEF EventsInv, AttemptsFit
    <2> QED BY <2>1, <2>2
  <1> QED BY <1>11, <1>12, <1>13, <1>14, <1>15 DEF EventsInv, AttemptsFit

(* Who has consumed an approval holds the lock, which requests and the     *)
(* tick need.                                                              *)
LEMMA ConsumersHold ==
  ASSUME SupervisorInv
  PROVE  /\ wtLock \notin Daemons =>
              \A c \in Daemons : daemon[c].pc \notin {"consumed", "authorized"}
         /\ \A d \in Daemons : daemon[d].pc = "locked" =>
              \A c \in Daemons : daemon[c].pc \notin {"consumed", "authorized"}
  <1>1. {"consumed", "authorized", "locked"} \subseteq Holding
    BY DEF Holding, AliveSteps, Steps, PreAdmission
  <1>2. \A c \in Daemons : daemon[c].pc \in Holding => wtLock = c
    BY DEF SupervisorInv, DaemonRelies
  <1> QED BY <1>1, <1>2

(* invalidate_recovery touches an approved intent or nothing.              *)
LEMMA InvalidateMoves ==
  ASSUME intent \in [Executions -> Intents], NEW e \in Executions, NEW ev,
         InvalidateRecovery(e, ev)
  PROVE  intent' = intent \/ (intent[e].status = "approved" /\ Invalidate(e))
  <1>1. CASE ApprovedFor(e, ev) /\ intent[e].event.by = "tick"
    <2>1. Invalidate(e)
      BY <1>1 DEF InvalidateRecovery
    <2> QED BY <1>1, <2>1 DEF ApprovedFor
  <1>2. CASE ~(ApprovedFor(e, ev) /\ intent[e].event.by = "tick")
    BY <1>2 DEF InvalidateRecovery
  <1> QED BY <1>1, <1>2

(* Withdrawing an approval while nobody has consumed it.                   *)
LEMMA InvalidateKeepsEvents ==
  ASSUME TypeOK, EventsInv, UNCHANGED <<attempts, approval, nextEvent>>,
         NEW e \in Executions, intent' = intent \/ (intent[e].status = "approved" /\ Invalidate(e)),
         \A c \in Daemons : daemon[c].pc \notin {"consumed", "authorized"},
         \A c \in Daemons : daemon'[c] = Gone \/ daemon'[c] = daemon[c]
  PROVE  EventsInv'
  <1>1. CASE intent' = intent
    BY <1>1, UnchangedKeeps, QuietKeepsEvents DEF QuietStep, DaemonKept
  <1>2. CASE Invalidate(e) /\ intent[e].status = "approved"
    BY <1>2, StatusKeepsEvents DEF Invalidate
  <1> QED BY <1>1, <1>2

(* The tick approves or withdraws while nobody has consumed its approval.  *)
LEMMA ApprovalEvents ==
  ASSUME SupervisorInv, EventsInv, NEW e \in Executions, AutoApprove(e), wtLock \notin Daemons
  PROVE  EventsInv'
  <1>1. TypeOK
    BY DEF SupervisorInv
  <1>2. /\ UNCHANGED <<attempts, approval, daemon>>
        /\ \A c \in Daemons : daemon[c].pc \notin {"consumed", "authorized"}
    BY ConsumersHold DEF AutoApprove, storeVars
  <1>3. CASE Retractable(e) /\ Invalidate(e) /\ UNCHANGED nextEvent
    BY <1>1, <1>2, <1>3, InvalidateKeepsEvents DEF Retractable
  <1>4. CASE NewIntent(e, "tick", "approved", Reissues(e))
    BY <1>1, <1>2, <1>4, NewIntentKeepsEvents
  <1> QED BY <1>3, <1>4 DEF AutoApprove

(* Requests and the tick's approval preserve what events may still do.     *)
LEMMA RequestEvents ==
  ASSUME SupervisorInv, EventsInv, NEW e \in Executions, Request(e) \/ TickApproves(e)
  PROVE  EventsInv'
  <1>1. TypeOK
    BY DEF SupervisorInv
  <1>2. CASE Prepare(e)
    BY <1>1, <1>2, NoDaemonAssumption, ConsumersHold, NewIntentKeepsEvents DEF Prepare, storeVars
  <1>3. CASE Approve(e)
    BY <1>1, <1>3, NoDaemonAssumption, ConsumersHold, StatusKeepsEvents DEF Approve, storeVars
  <1>4. CASE AttachInvalidates(e)
    <2>1. /\ UNCHANGED <<attempts, approval, nextEvent, daemon>>
          /\ intent' = intent \/ (intent[e].status = "approved" /\ Invalidate(e))
          /\ \A c \in Daemons : daemon[c].pc \notin {"consumed", "authorized"}
      BY <1>1, <1>4, EventTypes, NoDaemonAssumption, ConsumersHold, InvalidateMoves DEF AttachInvalidates, storeVars
    <2> QED BY <1>1, <2>1, InvalidateKeepsEvents
  <1>5. CASE \E d \in Daemons : AttachFresh(e, d)
    BY <1>1, <1>5, SpawnKeepsEvents DEF AttachFresh, storeVars
  <1>6. CASE \E d \in Daemons : AttachRecovery(e, d)
    BY <1>1, <1>6, SpawnKeepsEvents DEF AttachRecovery, AttachableEvent, storeVars
  <1>7. CASE TickApproves(e)
    BY <1>7, NoDaemonAssumption, ApprovalEvents DEF TickApproves
  <1> QED BY <1>2, <1>3, <1>4, <1>5, <1>6, <1>7 DEF Request

(* So does every step of admission.                                        *)
LEMMA AdmissionEvents ==
  ASSUME SupervisorInv, EventsInv, NEW d \in Daemons, AdmissionStep(d)
  PROVE  EventsInv'
  <1>1. TypeOK /\ Exec(d) \in Executions
    BY EventTypes DEF SupervisorInv
  <1>2. CASE TakeWorktree(d) \/ AdmissionTimesOut(d) \/ Refuse(d)
    BY <1>1, <1>2, WaitQuiet, QuietKeepsEvents
  <1>3. CASE Consume(d)
    <2>1. PICK e \in Executions : e = Exec(d)
      BY <1>1
    <2>2. /\ UNCHANGED <<attempts, approval, nextEvent>>
          /\ intent[e].status = "approved" /\ intent[e].event = daemon[d].event
          /\ SetIntent(e, [intent[e] EXCEPT !.status = "consumed"])
          /\ Goto(d, "consumed") /\ daemon[d].pc = "locked"
      BY <1>3, <2>1 DEF Consume, ApprovedFor, At, storeVars
    <2>3. ASSUME NEW c \in Daemons
          PROVE  /\ daemon'[c].event = daemon[c].event /\ daemon'[c].exec = daemon[c].exec
                 /\ daemon'[c].pc \in {"consumed", "authorized"} => c = d
      BY <1>1, <2>2, ConsumersHold, EventTypes DEF Goto, DaemonStates
    <2> QED BY <1>1, <2>1, <2>2, <2>3, StatusKeepsEvents
  <1>4. CASE ConsumeInvalidates(d)
    <2>1. /\ UNCHANGED <<attempts, approval, nextEvent>>
          /\ intent' = intent \/ (intent[Exec(d)].status = "approved" /\ Invalidate(Exec(d)))
          /\ Exit(d) /\ daemon[d].pc = "locked"
      BY <1>1, <1>4, EventTypes, InvalidateMoves DEF ConsumeInvalidates, At, storeVars
    <2>2. \A c \in Daemons : daemon'[c] = Gone \/ daemon'[c] = daemon[c]
      BY <1>1, <2>1, EventTypes DEF Exit
    <2>3. \A c \in Daemons : daemon[c].pc \notin {"consumed", "authorized"}
      BY <2>1, ConsumersHold
    <2> QED BY <1>1, <2>1, <2>2, <2>3, InvalidateKeepsEvents
  <1>5. CASE Authorize(d)
    BY <1>1, <1>5, AuthorizeKeepsEvents
  <1>6. CASE Admit(d)
    BY <1>6, AdmitKeepsEvents
  <1> QED BY <1>2, <1>3, <1>4, <1>5, <1>6 DEF AdmissionStep

(* What events may still do is inductive, with the supervisor's invariant. *)
LEMMA NextEvents == SupervisorInv /\ EventsInv /\ [Next]_vars => EventsInv'
  <1> SUFFICES ASSUME SupervisorInv, EventsInv, [Next]_vars PROVE EventsInv'
    OBVIOUS
  <1>1. TypeOK
    BY DEF SupervisorInv
  <1>2. ASSUME NEW d \in Daemons, DaemonStep(d) PROVE EventsInv'
    BY <1>1, <1>2, AdmissionEvents, ClientQuiet, CollectQuiet, QuietKeepsEvents DEF DaemonStep
  <1>3. ASSUME NEW e \in Executions, Request(e) \/ TickApproves(e) PROVE EventsInv'
    BY <1>3, RequestEvents
  <1>4. ASSUME NEW e \in Executions, Recover(e) PROVE EventsInv'
    BY <1>1, <1>4, RecoverQuiet, QuietKeepsEvents
  <1>5. ASSUME Environment PROVE EventsInv'
    BY <1>1, <1>5, EnvironmentQuiet, QuietKeepsEvents
  <1>6. CASE UNCHANGED vars
    BY <1>1, <1>6, UnchangedKeeps, QuietKeepsEvents DEF vars, QuietStep, DaemonKept
  <1> QED BY <1>2, <1>3, <1>4, <1>5, <1>6 DEF Next

(* No event was issued in the beginning.                                   *)
LEMMA InitEvents == Init => EventsInv
  <1> SUFFICES ASSUME Init PROVE EventsInv
    OBVIOUS
  <1>1. /\ \A e \in Executions : attempts[e] = << >> /\ approval[e] = NoApproval
                                 /\ intent[e] = NoIntent
        /\ \A d \in Daemons : daemon[d] = Unborn
    BY DEF Init
  <1>2. /\ NoIntent.event = NoEvent /\ NoIntent.status = "absent" /\ NoIntent.generation = 0
        /\ NoApproval.event = NoEvent /\ NoApproval.generation = 0
        /\ Unborn.event = NoEvent /\ Unborn.pc = "unborn"
    BY DEF NoIntent, NoApproval, Unborn
  <1>3. HeldOnce
    <2>1. ASSUME NEW e \in Executions, NEW ev \in Events PROVE ~Held(e, ev)
      <3>1. ev # NoEvent /\ attempts[e] = << >>
        BY <1>1, NoEventIsNone
      <3>2. ~EventUsed(e, ev)
        BY <3>1 DEF EventUsed
      <3> QED BY <1>1, <1>2, <3>1, <3>2 DEF Held
    <2> QED BY <2>1 DEF HeldOnce
  <1>4. \A e \in Executions : IntentFits(e) /\ AttemptsFit(e)
    <2>1. ASSUME NEW e \in Executions PROVE IntentFits(e) /\ AttemptsFit(e)
      <3>1. Len(attempts[e]) = 0
        BY <1>1
      <3>2. IntentFits(e)
        BY <1>1, <1>2, NoEventIsNone DEF IntentFits
      <3>3. AttemptsFit(e)
        BY <3>1 DEF AttemptsFit
      <3> QED BY <3>2, <3>3
    <2> QED BY <2>1
  <1>5. \A d \in Daemons : EventFits(d)
    BY <1>1, <1>2, NoEventIsNone DEF EventFits
  <1> QED BY <1>3, <1>4, <1>5 DEF EventsInv

(* What a recovery event may still do holds at every point at which a      *)
(* daemon can die between consuming, authorising and admitting.            *)
THEOREM EventsFit == Spec => []EventsInv
  BY InitEvents, NextEvents, InvariantHolds, PTL DEF Spec

(* A recovery event admits at most one attempt, exactly the one after the  *)
(* generation it was issued against, over all executions; and an approval  *)
(* that could still be consumed has admitted none.                         *)
THEOREM EventsAreSpentOnce == Spec => []EventsAdmitOnce
  <1>1. TypeOK /\ EventsInv => EventsAdmitOnce
    <2> SUFFICES ASSUME TypeOK, EventsInv, NEW e \in Executions
                 PROVE  /\ \A i \in 2..Len(attempts[e]) : attempts[e][i].event.after = i - 1
                        /\ \A f \in Executions :
                             \A i \in 2..Len(attempts[e]), j \in 2..Len(attempts[f]) :
                               attempts[e][i].event = attempts[f][j].event => e = f /\ i = j
                        /\ intent[e].status \in {"prepared", "approved"} =>
                             ~EventUsed(e, intent[e].event)
      BY DEF EventsAdmitOnce
    <2>1. \A f \in Executions : AttemptsFit(f) /\ IntentFits(f)
      BY DEF EventsInv
    <2>2. ASSUME NEW f \in Executions,
                 NEW i \in 2..Len(attempts[e]), NEW j \in 2..Len(attempts[f]),
                 attempts[e][i].event = attempts[f][j].event
          PROVE  e = f /\ i = j
      <3>1. /\ attempts[e][i].event \in Events
            /\ attempts[e][i].event.after = i - 1 /\ attempts[f][j].event.after = j - 1
        BY <2>1 DEF AttemptsFit
      <3>2. i \in 1..Len(attempts[e]) /\ j \in 1..Len(attempts[f]) /\ i \in Nat /\ j \in Nat
        OBVIOUS
      <3>3. Held(e, attempts[e][i].event) /\ Held(f, attempts[e][i].event)
        BY <2>2, <3>2 DEF Held, EventUsed
      <3> QED BY <2>2, <3>1, <3>2, <3>3 DEF EventsInv, HeldOnce
    <2> QED BY <2>1, <2>2 DEF AttemptsFit, IntentFits
  <1> QED BY <1>1, TypeCorrect, EventsFit, PTL

(* The tick alone never starts a generation above its budget, and never    *)
(* repeats an attempt that was not interrupted.                            *)
THEOREM TickRetriesInterruptions == Spec => []TickRepeatsOnlyInterruptions
  <1>1. EventsInv => TickRepeatsOnlyInterruptions
    <2> SUFFICES ASSUME EventsInv, NEW e \in Executions, NEW i \in 2..Len(attempts[e]),
                        attempts[e][i].event.by = "tick"
                 PROVE  /\ i <= MaxGenerations
                        /\ attempts[e][i-1].status \in {"timed_out", "interrupted"}
      BY DEF TickRepeatsOnlyInterruptions
    <2>1. i - 1 < MaxGenerations /\ attempts[e][i-1].status \in {"timed_out", "interrupted"}
      BY DEF EventsInv, AttemptsFit, Interruption
    <2> QED BY <2>1, BoundsAssumption
  <1> QED BY <1>1, EventsFit, PTL
=============================================================================
