--------------------------- MODULE RunTranscript ---------------------------
(***************************************************************************)
(* What the transcript of one run promises its readers, whoever writes it. *)
(*                                                                         *)
(* A run opens with its user message.  Each model step adds at most one    *)
(* assistant row; the step's calls follow it, each answered before the     *)
(* next row; turns and notices join between steps; a cut answer is         *)
(* explained by the notice after it; a stop notice is the last row; and    *)
(* nothing is added once the run has an outcome.                           *)
(***************************************************************************)
EXTENDS Naturals, Sequences

VARIABLES
  status,  \* the status of the run
  log      \* the kinds of its transcript rows

vars == <<status, log>>

Last == log[Len(log)]

Active == status \in {"starting", "running"}

Open == Active /\ Last \notin {"call", "stop"}

Init == status = "starting" /\ log = <<"user">>

Begin == status = "starting" /\ status' = "running" /\ UNCHANGED log

\* The row of a model step: an answer, a reasoning without answer, a cut answer.
Step ==
  /\ Open
  /\ Last \notin {"assistant", "thought", "cut"}
  /\ \E kind \in {"assistant", "thought", "cut"} : log' = Append(log, kind)
  /\ UNCHANGED status

\* Waiting turns join together, as one or more user rows.
Join ==
  /\ Open
  /\ Last # "cut"
  /\ log' = log \o [i \in 1 .. (Len(log') - Len(log)) |-> "user"]
  /\ UNCHANGED status

Notice ==
  /\ Open
  /\ log' = Append(log, "notice")
  /\ UNCHANGED status

Call ==
  /\ Open
  /\ Last # "cut"
  /\ log' = Append(log, "call")
  /\ UNCHANGED status

Result ==
  /\ Active
  /\ Last = "call"
  /\ log' = Append(log, "result")
  /\ UNCHANGED status

Stop ==
  /\ Open
  /\ log' = Append(log, "stop")
  /\ UNCHANGED status

\* Only an answered transcript completes; a stopped one never does.
Complete ==
  /\ status = "running"
  /\ Last \notin {"call", "cut", "stop"}
  /\ status' = "completed"
  /\ UNCHANGED log

GiveUp ==
  /\ Active
  /\ status' \in {"failed", "interrupted"}
  /\ UNCHANGED log

Next ==
  Begin \/ Step \/ Join \/ Notice \/ Call \/ Result \/ Stop \/ Complete \/ GiveUp

Spec == Init /\ [][Next]_vars
=============================================================================
