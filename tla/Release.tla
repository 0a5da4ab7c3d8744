------------------------------ MODULE Release ------------------------------
(***************************************************************************)
(* How a run leaves the pipeline.  A pinned run hands its pull request to  *)
(* people and is delivered by the ticks that follow (Delivery); a run of   *)
(* an older profile ends in a gate card and is shipped by `tpo approve`    *)
(* (ShipGate).  A run is one or the other for good: reconcile_todo_        *)
(* completion returns at once for a registration without a manifest, and a *)
(* pinned profile has no gate phase.                                       *)
(***************************************************************************)
EXTENDS Delivery, ShipGate

vars == <<prVars, dVars, sVars>>

Pinned == gate = "none"

TypeOK == PrTypeOK /\ DeliveryTypeOK /\ GateTypeOK

Init ==
  \/ DeliveryInit /\ NoGateInit
  \/ GateInit /\ NoDeliveryInit

Next ==
  \/ Pinned /\ DeliveryNext /\ UNCHANGED sVars
  \/ ~Pinned /\ GateNext /\ UNCHANGED dVars

\* Ticks are scheduled again and again, and GitHub lists a comment in the end.  What people and
\* workers do, an approval included, is not assumed.
Fairness ==
  /\ WF_vars(Pinned /\ TickStep /\ UNCHANGED sVars)
  /\ \A m \in Markers : WF_vars(ListingShows(m) /\ UNCHANGED sVars)

Spec == Init /\ [][Next]_vars /\ Fairness
=============================================================================
