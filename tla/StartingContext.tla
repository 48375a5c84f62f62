-------------------------- MODULE StartingContext --------------------------
(***************************************************************************)
(* The first request of a run: starting_context_messages of                *)
(* crates/intention-storage/src/sqlite.rs reads the rows of the session up *)
(* to the run's own turn, and model_context_messages of                    *)
(* crates/intention-engine/src/lib.rs makes messages of them.              *)
(*                                                                         *)
(* The runs before it may have ended anywhere: a call that failed, was     *)
(* interrupted or died with the daemon has no result.  What one run may    *)
(* write is the subject of RunTranscript; here it is its order only.       *)
(***************************************************************************)
EXTENDS Naturals, Sequences, Selections

CONSTANT MaxHistory  \* bound: rows of the session

StartingContextAssumption == MaxHistory \in Nat

VARIABLES
  rows,     \* the transcript of the session
  run,      \* the status of its active run, if any
  first,    \* the row the active run opened with
  request   \* the messages of its first request

vars == <<rows, run, first, request>>

\* An answer is an assistant row with text, a thought one that carries only the
\* reasoning of a step.  A result names its call by the row of it.
Spoken == {"user", "answer", "notice"}
Open == rows # <<>> /\ rows[Len(rows)].kind = "call"
Add(kind, call) == rows' = Append(rows, [kind |-> kind, call |-> call])

Init == rows = <<>> /\ run = "none" /\ first = 0 /\ request = <<>>

-----------------------------------------------------------------------------
\* first_results: the first result of a call.
ResultsOf(list, call) == {i \in DOMAIN list : list[i].kind = "result" /\ list[i].call = call}

\* Plausible bug: a call is replayed whether or not its result was committed.
ReplaysFault(list, i) == TRUE
\* A call replays when the first result of it follows.
Replays(list, i) ==
  /\ ResultsOf(list, list[i].call) # {}
  /\ \A j \in ResultsOf(list, list[i].call) : j > i

\* awaiting_result: one tool message answers each replayed call.
Answers(list, i) ==
  \E j \in 1 .. i - 1 :
    /\ list[j].kind = "call" /\ list[j].call = list[i].call /\ Replays(list, j)
    /\ \A k \in j + 1 .. i - 1 : k \notin ResultsOf(list, list[i].call)

\* The rows that become messages, and the role of each.
Replayed(list) ==
  {i \in DOMAIN list :
     \/ list[i].kind \in Spoken
     \/ list[i].kind = "call" /\ Replays(list, i)
     \/ list[i].kind = "result" /\ Answers(list, i)}

Role(kind) ==
  CASE kind = "call" -> "calls" [] kind = "result" -> "tool" [] OTHER -> kind

ModelContextMessages(list) ==
  LET replayed == Within([i \in DOMAIN list |-> i], Replayed(list))
  IN  [k \in DOMAIN replayed |-> [role |-> Role(list[replayed[k]].kind), row |-> replayed[k]]]

StartingContextMessages == SubSeq(rows, 1, first)

-----------------------------------------------------------------------------
\* A turn opens a run.
AcceptTurn ==
  /\ run = "none" /\ Len(rows) < MaxHistory
  /\ Add("user", 0) /\ run' = "starting" /\ first' = Len(rows) + 1
  /\ UNCHANGED request

\* schedule_starting_run: only a run that is still starting has a context.
Schedule ==
  /\ run = "starting" /\ run' = "running"
  /\ request' = ModelContextMessages(StartingContextMessages)
  /\ UNCHANGED <<rows, first>>

\* The rows a running run commits: a call is answered before the next row.
Write ==
  /\ run = "running" /\ Len(rows) < MaxHistory
  /\ IF Open THEN Add("result", rows[Len(rows)].call)
     ELSE \/ \E kind \in {"user", "answer", "thought", "notice"} : Add(kind, 0)
          \/ Add("call", Len(rows) + 1)
  /\ UNCHANGED <<run, first, request>>

\* The run ends, or the daemon that recovers it ends it, wherever it stands.
End ==
  /\ run # "none" /\ run' = "none" /\ first' = 0 /\ request' = <<>>
  /\ UNCHANGED rows

Next == AcceptTurn \/ Schedule \/ Write \/ End
Spec == Init /\ [][Next]_vars
-----------------------------------------------------------------------------
TypeOK ==
  /\ run \in {"none", "starting", "running"} /\ first \in 0 .. Len(rows)
  /\ (first = 0) = (run = "none")

\* Whatever earlier runs left behind, the first request of a run carries what
\* was said in its order and ends with the run's own turn, and each call that was
\* answered comes with its one result right behind it: no provider is sent a call
\* without an answer or an answer without its call.  (model_context_messages.)
ContextsReplayWhole ==
  request # <<>> =>
    LET before == StartingContextMessages
        Of(roles) == Within(request, [role : roles, row : Nat])
        Rows(list) == [k \in DOMAIN list |-> list[k].row]
        History(kinds) == Within([i \in DOMAIN before |-> i],
                                 {i \in DOMAIN before : before[i].kind \in kinds})
    IN /\ Rows(Of(Spoken)) = History(Spoken)
       /\ request[Len(request)] = [role |-> "user", row |-> first]
       /\ \A k \in DOMAIN request :
            /\ request[k].role = "calls" =>
                 k < Len(request) /\ request[k + 1] = [role |-> "tool", row |-> request[k].row + 1]
            /\ request[k].role = "tool" => k > 1 /\ request[k - 1].role = "calls"
       /\ Rows(Of({"tool"})) = History({"result"})
=============================================================================
