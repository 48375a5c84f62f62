-------------------------- MODULE StorageDelivery --------------------------
(***************************************************************************)
(* The tables of Storage implement TurnDelivery.  A turn is delivered when *)
(* the transcript holds its user message, waits while its row is pending,  *)
(* and a session is serving while it owns a run that accepts writes.       *)
(***************************************************************************)
EXTENDS Storage

DeliveredTurns(s) ==
  {rows[j].turn : j \in {m \in DOMAIN rows : rows[m].kind = "user" /\ rows[m].session = s}}

Delivery == INSTANCE TurnDelivery WITH
  arrived <- Len(turns),
  waiting <- [s \in Sessions |-> Pending(s)],
  delivered <- [s \in Sessions |-> DeliveredTurns(s)],
  serving <- [s \in Sessions |-> HasActiveRun(s)]

\* Every step of the repository is a step of the session's promise or none:
\* no crash, recovery, removal or race of commands loses a waiting turn,
\* delivers one out of turn, or serves one while another run is served.
DeliversTurns == Delivery!Spec
=============================================================================
