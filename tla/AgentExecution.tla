--------------------------- MODULE AgentExecution ---------------------------
(***************************************************************************)
(* The durable execution record (hermes_pipeline/agent_execution.py).      *)
(*                                                                         *)
(* Every registered execution owns one record.json: the list of its        *)
(* attempts, whose position is their generation, and the recovery that a   *)
(* daemon has authorised for the next admission.  All executions of this   *)
(* module share one worktree, the only case in which they interact.        *)
(*                                                                         *)
(* The operators are the store's three writers.  A writer's error paths    *)
(* are its missing guard: the caller sees that it is not enabled.          *)
(***************************************************************************)
EXTENDS Naturals, Sequences

CONSTANTS
  Executions,   \* execution ids registered on the worktree
  Daemons,      \* identities a `_supervise` process can have
  NoDaemon      \* supervisor field before a daemon records itself

ASSUME NoDaemonAssumption == NoDaemon \notin Daemons

VARIABLES
  attempts,     \* attempts[e] : record["attempts"], generation i at index i
  approval      \* approval[e] : record["approved_recovery"]

storeVars == <<attempts, approval>>

-----------------------------------------------------------------------------
Terminal == {"exited", "timed_out", "interrupted", "blocked"}

(* `reason` of an attempt, as far as any reader tells reasons apart.       *)
Reasons == {"none", "client_not_launched", "exit_unobservable",
            "result_invalid", "checkpoint_deadline_exceeded",
            "deadline_collection_pending", "deadline_collection_complete",
            "deadline_collection_partial", "deadline_collection_incomplete"}

(* An owned process: the client, or the verification or review process the *)
(* collector runs after it.                                                *)
Processes == {"client", "check"}

(* A recovery event is an unguessable token.  The model remembers who it   *)
(* was issued to and against which generation.                             *)
Events  == [by : {"tick", "operator"}, id : Nat, after : Nat]
NoEvent == [by |-> "none", id |-> 0, after |-> 0]

Attempts ==
  [event      : Events \cup {NoEvent},
   status     : {"admitted", "running"} \cup Terminal,
   reason     : Reasons,
   cleanup    : {"pending", "confirmed", "unconfirmed"},
   exit0      : BOOLEAN,                   \* exit_code = 0 was collected
   supervisor : Daemons \cup {NoDaemon},
   known      : SUBSET Processes,          \* durable birth receipts
   checks     : Nat,                       \* collector launches so far
   lateCheck  : BOOLEAN]                   \* the exit ledger shows a timeout

FreshAttempt(ev) ==
  [event |-> ev, status |-> "admitted", reason |-> "none",
   cleanup |-> "pending", exit0 |-> FALSE, supervisor |-> NoDaemon,
   known |-> {}, checks |-> 0, lateCheck |-> FALSE]

NoApproval == [generation |-> 0, event |-> NoEvent]
Approvals  == [generation : Nat, event : Events \cup {NoEvent}]

-----------------------------------------------------------------------------
Generation(e) == Len(attempts[e])
Last(e)       == attempts[e][Len(attempts[e])]

(* Resolved: a terminal outcome whose processes are known to be gone.      *)
Settled(a) == a.status \in Terminal /\ a.cleanup = "confirmed"

AllSettled(e) == \A i \in 1..Len(attempts[e]) : Settled(attempts[e][i])

(* Mutant: a peer's outcome is enough, whatever its cleanup.               *)
PeersResolved_OutcomeOnly(e) ==
  \A f \in Executions \ {e} :
    \A i \in 1..Len(attempts[f]) : attempts[f][i].status \in Terminal

(* assert_worktree_peers_resolved                                          *)
PeersResolved(e) == \A f \in Executions \ {e} : AllSettled(f)

EventUsed(e, ev) == \E i \in 1..Len(attempts[e]) : attempts[e][i].event = ev

(* authorize_retry: bind a verified event to the generation it follows.    *)
AuthorizeRetry(e, expected, ev) ==
  /\ attempts[e] # << >>
  /\ Generation(e) = expected
  /\ ~EventUsed(e, ev)
  /\ approval' = [approval EXCEPT ![e] = [generation |-> expected, event |-> ev]]
  /\ UNCHANGED attempts

RetryAuthorized(e, ev) ==
  /\ approval[e] = [generation |-> Generation(e), event |-> ev]
  /\ Settled(Last(e))

(* admit, in the case that creates an attempt.                             *)
AdmitAttempt(e, ev) ==
  /\ PeersResolved(e)
  /\ IF attempts[e] = << >> THEN ev = NoEvent
                            ELSE ev # NoEvent /\ RetryAuthorized(e, ev)
  /\ attempts' = [attempts EXCEPT ![e] = Append(@, FreshAttempt(ev))]
  /\ approval' = [approval EXCEPT ![e] = NoApproval]

Amend(s, a) == [s EXCEPT ![Len(s)] = a]

(* update_attempt: only the current generation can change, its terminal    *)
(* outcome cannot.                                                         *)
UpdateAttempt(e, a) ==
  /\ attempts[e] # << >>
  /\ Last(e).status \in Terminal => a.status = Last(e).status
  /\ attempts' = [attempts EXCEPT ![e] = Amend(@, a)]
  /\ UNCHANGED approval
=============================================================================
