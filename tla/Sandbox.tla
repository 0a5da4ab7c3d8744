------------------------------ MODULE Sandbox ------------------------------
(***************************************************************************)
(* What a run of the test harness (harness.py) acts upon and does not      *)
(* control: the production ticks it starts, the cards and workers those    *)
(* leave behind, and the GitHub repository that workers and people push to.*)
(*                                                                         *)
(* A tick is one step here, with whatever it had done when it returned,    *)
(* crashed or was killed; its own steps are modules ProjectTick and        *)
(* DurableRegistration.  A create command that outlives the tick that gave *)
(* it lands later (`late`).                                                *)
(***************************************************************************)
EXTENDS Integers, FiniteSets, FiniteSetsExt

CONSTANTS
  MaxIds,    \* tick ids
  NKeys,     \* cards of a run
  MaxActs    \* what people and unruly workers do besides the course of things

ASSUME SandboxAssumption ==
  /\ MaxIds \in Nat \ {0}
  /\ NKeys \in Nat \ {0}
  /\ MaxActs \in Nat

VARIABLES
  kind,      \* the profile: "pinned" registers once and is driven on, "single" is one tick
  current,   \* current_tick_id.txt, 0 when there is none
  used,      \* tick ids given out
  ticks,     \* ticks[t] : what tick t left on disk and on the board
  issue,     \* the run's issue: "none", "open", "closed"
  tip,       \* tip[b] : the head of branch b on GitHub, 0 when there is none
  foreign,   \* branches with commits that do not descend from the run anchor
  pushed,    \* branches that people pushed to during the run
  merged,    \* the run anchor has reached the default branch
  pr,        \* pr[b] : the pull request with head b
  acts

sandbox == <<kind, current, used, ticks, issue, tip, foreign, pushed, merged, pr, acts>>

Ids == 1..MaxIds
Keys == 1..NKeys
Statuses == {"absent", "live", "done", "failed", "blocked", "archived"}
TERMINAL_STATUSES == {"done", "failed", "archived"}

\* The branch the issue names, one more that a worker makes, one that people make during the
\* run, and one that was there before it.
Heads == {"own", "stray", "alien", "old"}
MaxTip == 3
\* A branch holds the run anchor (1), then the implementation (2), then later commits.
Anchor == 1

NoTick == [sentinel |-> "none", spawnFailed |-> FALSE, valid |-> FALSE, expected |-> FALSE,
           cards |-> [k \in Keys |-> "absent"], late |-> 0, orphan |-> FALSE]
TickStates == [sentinel : {"none", "started", "picked_none"}, spawnFailed : BOOLEAN,
               valid : BOOLEAN, expected : BOOLEAN, cards : [Keys -> Statuses],
               late : 0..NKeys, orphan : BOOLEAN]

SandboxTypeOK ==
  /\ kind \in {"pinned", "single"}
  /\ current \in 0..MaxIds /\ used \in 0..MaxIds
  /\ ticks \in [Ids -> TickStates]
  /\ issue \in {"none", "open", "closed"}
  /\ tip \in [Heads -> 0..MaxTip]
  /\ foreign \subseteq Heads /\ pushed \subseteq Heads
  /\ merged \in BOOLEAN
  /\ pr \in [Heads -> {"none", "open", "sideways", "closed", "merged"}]
  /\ acts \in 0..MaxActs

SandboxInit ==
  /\ kind \in {"pinned", "single"}
  /\ current = 0 /\ used = 0
  /\ ticks = [t \in Ids |-> NoTick]
  /\ issue = "none"
  /\ tip = [b \in Heads |-> IF b = "old" THEN Anchor ELSE 0]
  /\ foreign = {"old"} /\ pushed = {}
  /\ merged = FALSE
  /\ pr = [b \in Heads |-> "none"]
  /\ acts = 0

Created(t) == {k \in Keys : ticks[t].cards[k] # "absent"}

\* A worker of tick t may be running, now or as soon as the board dispatches its card.
MayPush(t) == ticks[t].orphan \/ \E k \in Keys : ticks[t].cards[k] = "live"
SomeoneMayPush == \E t \in Ids : MayPush(t)

Acts == acts < MaxActs /\ acts' = acts + 1

-----------------------------------------------------------------------------
(* The production tick.                                                    *)

\* Cards a tick leaves: the first n are created, and the create of the next may be in flight.
Leaves(t, n, pending) ==
  [t EXCEPT !.cards = [k \in Keys |-> IF t.cards[k] = "absent" /\ k <= n THEN "live" ELSE t.cards[k]],
            !.late = IF pending /\ n < NKeys THEN n + 1 ELSE 0]

\* How many cards the tick that registers creates: the whole chain, or the first worker.
FirstCards == IF kind = "single" THEN NKeys ELSE 1

\* The id is persisted, then the sentinel written, then the cards are created; the list of
\* expected phases follows the last of them.  A create that fails is recorded as a spawn failure.
Registers(t, n, pending, spawnFailed, valid) ==
  /\ n <= FirstCards
  /\ pending => n < FirstCards
  /\ spawnFailed => n < FirstCards
  /\ valid \in (IF kind = "pinned" THEN BOOLEAN ELSE {TRUE})
  /\ current' = t
  /\ ticks' = [ticks EXCEPT ![t] =
       [Leaves(NoTick, n, pending) EXCEPT !.sentinel = "started", !.spawnFailed = spawnFailed,
                                          !.valid = valid, !.expected = (n = FirstCards)]]

\* What a tick that was to register something had done when it ended.
TickRegisters ==
  /\ used < MaxIds
  /\ used' = used + 1
  /\ LET t == used + 1
     IN \/ \E n \in 0..FirstCards, pending, spawnFailed, valid \in BOOLEAN :
             Registers(t, n, pending, spawnFailed, valid)
        \/ /\ current' = t                                 \* selected nothing, or got no further
           /\ \E s \in {"none", "picked_none"} : ticks' = [ticks EXCEPT ![t].sentinel = s]
        \/ /\ ticks' = [ticks EXCEPT ![t].spawnFailed = TRUE]  \* failed before the id was persisted
           /\ UNCHANGED current

\* A tick of a run in flight admits its next card, or does nothing.  The create has a key of its
\* own: repeated, it lands once.
TickReconciles(t) ==
  LET next == Cardinality(Created(t)) + 1
  IN /\ current = t
     /\ next <= NKeys
     /\ \A k \in Created(t) : ticks[t].cards[k] = "done"
     /\ \E pending \in BOOLEAN :
          ticks' = [ticks EXCEPT ![t] = Leaves(@, IF pending THEN next - 1 ELSE next, pending)]
     /\ UNCHANGED <<current, used>>

TickRuns(registered) ==
  /\ \/ UNCHANGED <<current, used, ticks, acts>>
     \/ registered = 0 /\ TickRegisters /\ UNCHANGED acts
     \/ registered # 0 /\ TickReconciles(registered) /\ UNCHANGED acts
     \/ registered # 0 /\ TickRegisters /\ Acts       \* the issue was to be ineligible
  /\ UNCHANGED <<kind, issue, tip, foreign, pushed, merged, pr>>

-----------------------------------------------------------------------------
(* The board and the workers.                                              *)

LateLands(t) ==
  /\ ticks[t].late # 0
  /\ ticks' = [ticks EXCEPT ![t].cards[ticks[t].late] = "live", ![t].late = 0]
  /\ UNCHANGED <<kind, current, used, issue, tip, foreign, pushed, merged, pr, acts>>

WorkerEnds(t, k) ==
  /\ ticks[t].cards[k] = "live"
  /\ \E s \in {"done", "failed", "blocked"} : ticks' = [ticks EXCEPT ![t].cards[k] = s]
  /\ UNCHANGED <<kind, current, used, issue, tip, foreign, pushed, merged, pr, acts>>

\* A worker pushes the run's commits; to the run's branch by its instructions.
WorkerPushes(b) ==
  /\ SomeoneMayPush
  /\ tip[b] < MaxTip
  /\ tip' = [tip EXCEPT ![b] = @ + 1]
  /\ IF b = "own" THEN UNCHANGED acts ELSE Acts
  /\ UNCHANGED <<kind, current, used, ticks, issue, foreign, pushed, merged, pr>>

WorkerOpensPr(b) ==
  /\ SomeoneMayPush
  /\ tip[b] # 0 /\ pr[b] = "none"
  /\ \/ pr' = [pr EXCEPT ![b] = "open"] /\ (IF b = "own" THEN UNCHANGED acts ELSE Acts)
     \/ pr' = [pr EXCEPT ![b] = "sideways"] /\ Acts
  /\ UNCHANGED <<kind, current, used, ticks, issue, tip, foreign, pushed, merged>>

\* A worker can write to the clone, and with it to the registration.  It is trusted to leave the
\* pointer alone: the harness takes an id that it cannot read for one that was never written.
WorkerTampers(t) ==
  /\ SomeoneMayPush
  /\ Acts
  /\ \/ ticks' = [ticks EXCEPT ![t].valid = FALSE]
     \/ ticks' = [ticks EXCEPT ![t].expected = FALSE]
  /\ UNCHANGED <<kind, current, used, issue, tip, foreign, pushed, merged, pr>>

\* People push to a branch that is there, or make one of their own.
PersonPushes(b) ==
  /\ Acts
  /\ b = "alien" \/ tip[b] # 0
  /\ tip[b] < MaxTip
  /\ tip' = [tip EXCEPT ![b] = @ + 1]
  /\ foreign' \in {foreign, foreign \cup {b}}
  /\ b = "alien" => b \in foreign'
  /\ pushed' = pushed \cup {b}
  /\ UNCHANGED <<kind, current, used, ticks, issue, merged, pr>>

PersonMovesPr(b) ==
  /\ Acts
  /\ \/ pr[b] \in {"open", "sideways"} /\ pr' = [pr EXCEPT ![b] = "closed"] /\ UNCHANGED merged
     \/ pr[b] = "open" /\ pr' = [pr EXCEPT ![b] = "merged"] /\ merged' = (merged \/ b \in {"own", "stray"})
     \/ pr[b] = "none" /\ tip[b] # 0 /\ b = "alien" /\ pr' = [pr EXCEPT ![b] = "open"] /\ UNCHANGED merged
  /\ UNCHANGED <<kind, current, used, ticks, issue, tip, foreign, pushed>>

\* A worker has no business with the branches of others, and people none with an old one.
World ==
  \/ \E t \in Ids : \/ WorkerTampers(t)
                    \/ \E k \in Keys : WorkerEnds(t, k)
  \/ \E b \in {"own", "stray"} : WorkerPushes(b) \/ WorkerOpensPr(b)
  \/ \E b \in Heads \ {"old"} : PersonPushes(b) \/ PersonMovesPr(b)
=============================================================================
