---------------------------- MODULE TurnDelivery ----------------------------
(***************************************************************************)
(* What a session promises about user turns, without tables or processes.  *)
(*                                                                         *)
(* Turns arrive in one global order and carry their arrival number.  A     *)
(* session that is serving nothing serves a turn at once: the one that     *)
(* waits longest, else the arrival itself.  A session that is serving      *)
(* keeps arrivals waiting until all of them join together.  A waiting turn *)
(* may be withdrawn.  Serving ends at any time, for any set of sessions.   *)
(***************************************************************************)
EXTENDS Naturals

CONSTANT Sessions

VARIABLES
  arrived,    \* how many turns have arrived
  waiting,    \* the turns each session keeps waiting
  delivered,  \* the turns each session has put before the model
  serving     \* whether each session is serving a run

vars == <<arrived, waiting, delivered, serving>>

Oldest(S, i) == i \in S /\ \A j \in S : i <= j

Init ==
  /\ arrived = 0
  /\ waiting = [s \in Sessions |-> {}]
  /\ delivered = [s \in Sessions |-> {}]
  /\ serving = [s \in Sessions |-> FALSE]

Wait(s) ==
  /\ serving[s]
  /\ arrived' = arrived + 1
  /\ waiting' = [waiting EXCEPT ![s] = @ \cup {arrived + 1}]
  /\ UNCHANGED <<delivered, serving>>

ServeOldest(s) ==
  /\ ~serving[s]
  /\ arrived' = arrived + 1
  /\ \E i \in waiting[s] :
       /\ Oldest(waiting[s], i)
       /\ waiting' = [waiting EXCEPT ![s] = (@ \ {i}) \cup {arrived + 1}]
       /\ delivered' = [delivered EXCEPT ![s] = @ \cup {i}]
  /\ serving' = [serving EXCEPT ![s] = TRUE]

ServeArrival(s) ==
  /\ ~serving[s]
  /\ waiting[s] = {}
  /\ arrived' = arrived + 1
  /\ delivered' = [delivered EXCEPT ![s] = @ \cup {arrived + 1}]
  /\ serving' = [serving EXCEPT ![s] = TRUE]
  /\ UNCHANGED waiting

Withdraw(s) ==
  /\ \E i \in waiting[s] : waiting' = [waiting EXCEPT ![s] = @ \ {i}]
  /\ UNCHANGED <<arrived, delivered, serving>>

Join(s) ==
  /\ serving[s]
  /\ delivered' = [delivered EXCEPT ![s] = @ \cup waiting[s]]
  /\ waiting' = [waiting EXCEPT ![s] = {}]
  /\ UNCHANGED <<arrived, serving>>

EndServing(S) ==
  /\ serving' = [s \in Sessions |-> serving[s] /\ s \notin S]
  /\ UNCHANGED <<arrived, waiting, delivered>>

Next ==
  \/ \E s \in Sessions :
       Wait(s) \/ ServeOldest(s) \/ ServeArrival(s) \/ Withdraw(s) \/ Join(s)
  \/ \E S \in SUBSET Sessions : EndServing(S)

Spec == Init /\ [][Next]_vars
=============================================================================
