--------------------------- MODULE CommandExecution ---------------------------
(***************************************************************************)
(* One call of the execute tool: execute_tool, bounded_output_with_timeout *)
(* and PipeReaders of crates/intention-tools/src/lib.rs.                   *)
(*                                                                         *)
(* The shell child leads a process group.  It may leave a descendant that  *)
(* holds the output pipes, in the group ("heir") or out of it ("stray").   *)
(* One thread per pipe reads to the end; the calling thread polls the      *)
(* child, then collects the readers within one fixed window, and waits in  *)
(* between on a condition that a reader signals.  The two clocks, the      *)
(* declared deadline and the window, run out at any time.                  *)
(***************************************************************************)
EXTENDS Naturals, FiniteSets

CONSTANTS
  MaxOutput,  \* what a reader keeps of one pipe
  MaxWritten  \* bound: what the processes write to the pipes

CommandExecutionAssumption == MaxOutput \in Nat /\ MaxWritten \in Nat

Streams == {"stdout", "stderr"}
Group == {"child", "heir"}
Processes == Group \cup {"stray"}
Causes == {"stopped", "timed_out", "lost"}

VARIABLES
  pc,         \* where the calling thread is
  declared,   \* the call declares a timeout
  cancelled,  \* its cancellation signal
  late,       \* the declared deadline has passed
  holds,      \* the pipes each live process holds open; a dead one holds none
  alive,      \* the live processes
  written,    \* what has been written to each pipe
  consumed,   \* what its reader has read
  kept,       \* what its reader keeps
  cut,        \* its reader dropped bytes
  reader,     \* the reader: reading, failed, at the end, or its thread stopped
  joined,     \* the readers the collector has joined
  observed,   \* the progress the collector saw before it waits
  over,       \* its window has run out
  cause,      \* why the call was interrupted
  result      \* what the call returned

program == <<holds, alive, written>>
readers == <<consumed, kept, cut, reader>>
collector == <<joined, observed, over>>
vars == <<pc, declared, cancelled, late, program, readers, collector, cause, result>>

NoResult == [kind |-> "none"]
Failed == [kind |-> "error"]
Completed == [kind |-> "completed", kept |-> kept,
              truncated |-> \E s \in Streams : cut[s]]
Interrupted(why, partial) == [kind |-> "interrupted", cause |-> why, partial |-> partial]
Nothing == <<>>
\* PartialOutput: what the joined readers kept; a failed one leaves nothing.
Captured == [s \in Streams |-> IF reader[s] = "failed" THEN 0 ELSE kept[s]]

\* ReaderState: the bytes consumed and the readers that recorded their stop.
Progress == consumed["stdout"] + consumed["stderr"]
Stopped == {s \in Streams : reader[s] \in {"ended", "failed"}}

Init ==
  /\ pc = "spawn"
  /\ declared \in BOOLEAN /\ cancelled \in BOOLEAN
  /\ late = FALSE /\ over = FALSE
  /\ holds = [p \in Processes |-> {}] /\ alive = {}
  /\ written = [s \in Streams |-> 0] /\ consumed = written /\ kept = written
  /\ cut = [s \in Streams |-> FALSE]
  /\ reader = [s \in Streams |-> "reading"]
  /\ joined = {} /\ observed = 0
  /\ cause = "lost"
  /\ result = NoResult

-----------------------------------------------------------------------------
(* The program and the clocks.                                             *)

\* The program is followed until the call returns.
Sent == written["stdout"] + written["stderr"]

WriteOutput(p, s) ==
  /\ result = NoResult
  /\ p \in alive /\ s \in holds[p] /\ Sent < MaxWritten
  /\ written' = [written EXCEPT ![s] = @ + 1]
  /\ UNCHANGED <<pc, declared, cancelled, late, holds, alive, readers, collector, cause, result>>

\* The child starts a background process that inherits some of its pipes; it
\* stays in the process group or leaves it.
Fork(p) ==
  /\ result = NoResult /\ "child" \in alive /\ p \in Processes \ (alive \cup {"child"})
  /\ alive' = alive \cup {p}
  /\ \E some \in SUBSET holds["child"] : holds' = [holds EXCEPT ![p] = some]
  /\ UNCHANGED <<pc, declared, cancelled, late, written, readers, collector, cause, result>>

\* A process ends, by itself; the kernel closes its pipes.
Exit(p) ==
  /\ result = NoResult /\ p \in alive
  /\ alive' = alive \ {p}
  /\ holds' = [holds EXCEPT ![p] = {}]
  /\ UNCHANGED <<pc, declared, cancelled, late, written, readers, collector, cause, result>>

Cancel ==
  /\ ~cancelled /\ result = NoResult
  /\ cancelled' = TRUE
  /\ UNCHANGED <<pc, declared, late, program, readers, collector, cause, result>>

DeadlinePasses ==
  /\ declared /\ ~late /\ pc # "spawn" /\ result = NoResult
  /\ late' = TRUE
  /\ UNCHANGED <<pc, declared, cancelled, program, readers, collector, cause, result>>

Collecting == {"join", "wait", "waiting", "join_killed", "wait_killed", "waiting_killed"}

WindowRunsOut ==
  /\ pc \in Collecting /\ ~over
  /\ over' = TRUE
  /\ UNCHANGED <<pc, declared, cancelled, late, program, readers, joined, observed, cause, result>>

-----------------------------------------------------------------------------
(* The reader threads.                                                     *)

\* A publication or a recorded stop wakes a collector that waits.
Woken ==
  pc' = CASE pc = "waiting" -> "join"
          [] pc = "waiting_killed" -> "join_killed"
          [] OTHER -> pc

\* Plausible bug: a source that ends exactly at the bound counts as truncated.
ReadBoundedFault(s) ==
  /\ pc \notin {"spawn", "returned"} /\ reader[s] = "reading" /\ consumed[s] < written[s]
  /\ consumed' = [consumed EXCEPT ![s] = @ + 1]
  /\ kept' = IF cut[s] \/ kept[s] >= MaxOutput THEN kept ELSE [kept EXCEPT ![s] = @ + 1]
  /\ cut' = [cut EXCEPT ![s] = kept'[s] >= MaxOutput]
  /\ Woken
  /\ UNCHANGED <<declared, cancelled, late, program, reader, collector, cause, result>>

\* One read: what passes the bound is dropped, and the rest of the source is
\* read without being kept.
ReadBounded(s) ==
  /\ pc \notin {"spawn", "returned"} /\ reader[s] = "reading" /\ consumed[s] < written[s]
  /\ consumed' = [consumed EXCEPT ![s] = @ + 1]
  /\ kept' = IF cut[s] \/ kept[s] >= MaxOutput THEN kept ELSE [kept EXCEPT ![s] = @ + 1]
  /\ cut' = [cut EXCEPT ![s] = @ \/ kept[s] >= MaxOutput]
  /\ Woken
  /\ UNCHANGED <<declared, cancelled, late, program, reader, collector, cause, result>>

\* The end of the pipe: everything written has been read and no process holds
\* it.  The guard records the stop and wakes the collector.
ReachEnd(s) ==
  /\ pc \notin {"spawn", "returned"} /\ reader[s] = "reading" /\ consumed[s] = written[s]
  /\ \A p \in alive : s \notin holds[p]
  /\ reader' = [reader EXCEPT ![s] = "ended"]
  /\ Woken
  /\ UNCHANGED <<declared, cancelled, late, program, consumed, kept, cut, collector, cause, result>>

\* A read fails or the thread panics; the stop is recorded all the same.
ReadFails(s) ==
  /\ pc \notin {"spawn", "returned"} /\ reader[s] = "reading"
  /\ reader' = [reader EXCEPT ![s] = "failed"]
  /\ Woken
  /\ UNCHANGED <<declared, cancelled, late, program, consumed, kept, cut, collector, cause, result>>
-----------------------------------------------------------------------------
(* The calling thread.                                                     *)

\* A stop observed before dispatch, and a shell that cannot be started.
Refuse ==
  /\ pc = "spawn"
  /\ result' = IF cancelled THEN Interrupted("stopped", Nothing) ELSE Failed
  /\ pc' = "returned"
  /\ UNCHANGED <<declared, cancelled, late, program, readers, collector, cause>>

Spawn ==
  /\ pc = "spawn" /\ ~cancelled
  /\ alive' = {"child"}
  /\ holds' = [holds EXCEPT !["child"] = Streams]
  /\ pc' = "poll"
  /\ UNCHANGED <<declared, cancelled, late, written, readers, collector, cause, result>>

\* interruption_cause, and deadline_cause for the call's own deadline: a stop
\* outranks what else ended the call.
InterruptionCause(otherwise) == IF cancelled THEN "stopped" ELSE otherwise

\* Plausible bug: only the direct child is killed.
KillFault(survivors) ==
  /\ alive' = alive \ {"child"}
  /\ holds' = [holds EXCEPT !["child"] = {}]

\* terminate_process_tree: the child and what is left of its group.
TerminateProcessTree(survivors) ==
  /\ alive' = survivors
  /\ holds' = [p \in Processes |-> IF p \in survivors THEN holds[p] ELSE {}]

\* The program is killed, a new window opens, and the readers are collected
\* without regard to the signal.
Interrupt(why) ==
  /\ cause' = why
  /\ TerminateProcessTree(alive \ Group)
  /\ over' = FALSE
  /\ pc' = "join_killed"
  /\ UNCHANGED <<declared, cancelled, late, written, readers, observed, result>>

PollInterrupted ==
  /\ pc = "poll" /\ (cancelled \/ late)
  /\ Interrupt(InterruptionCause(IF declared THEN "timed_out" ELSE "lost"))
  /\ UNCHANGED joined

\* try_wait fails.
WaitFails ==
  /\ pc = "poll" /\ ~cancelled /\ ~late
  /\ Interrupt(InterruptionCause("lost"))
  /\ UNCHANGED joined

\* The child has ended: its readers are collected within one window.
ChildReaped ==
  /\ pc = "poll" /\ ~cancelled /\ ~late /\ "child" \notin alive
  /\ over' = FALSE
  /\ pc' = "join"
  /\ UNCHANGED <<declared, cancelled, late, program, readers, joined, observed, cause, result>>

\* The readers the collector can join now: all of them once the last stop is
\* recorded, and any whose thread the system already reports finished.
Joinable == IF Stopped = Streams THEN {Streams} ELSE {joined \cup some : some \in SUBSET Stopped}

\* Plausible bug: the collection waits for every reader.
CollectFault(next, killed) ==
  /\ joined' \in Joinable
  /\ joined' # Streams
  /\ observed' = Progress
  /\ pc' = next
  /\ UNCHANGED <<declared, cancelled, late, program, readers, over, cause, result>>

\* The collection goes on: a reader is still pending, and nothing ends it.
Collect(next, killed) ==
  /\ joined' \in Joinable
  /\ joined' # Streams /\ ~over /\ (killed \/ ~cancelled)
  /\ observed' = Progress
  /\ pc' = next
  /\ UNCHANGED <<declared, cancelled, late, program, readers, over, cause, result>>

\* Both readers are joined after the child ended: the output is whole.
Complete ==
  /\ pc = "join" /\ Streams \in Joinable
  /\ joined' = Streams
  /\ result' = IF \E s \in Streams : reader[s] = "failed" THEN Failed ELSE Completed
  /\ pc' = "returned"
  /\ UNCHANGED <<declared, cancelled, late, program, readers, observed, over, cause>>

\* The window ran out, or the call is stopped, with a reader still pending.
Stalled ==
  /\ pc = "join" /\ (over \/ cancelled)
  /\ joined' \in Joinable /\ joined' # Streams
  /\ Interrupt(InterruptionCause("lost"))

\* The killed readers are joined, or the second window ran out: what both of
\* them joined is the partial output.
ReturnPartial ==
  /\ pc = "join_killed"
  /\ joined' \in Joinable
  /\ joined' = Streams \/ over
  /\ result' = Interrupted(cause, IF joined' = Streams THEN Captured ELSE Nothing)
  /\ pc' = "returned"
  /\ UNCHANGED <<declared, cancelled, late, program, readers, observed, over, cause>>

\* wait_for_activity: under the lock, progress since the observation returns at
\* once; otherwise the collector waits for a signal.
WaitForActivity(from, waiting, back) ==
  /\ pc = from
  /\ pc' = IF Progress > observed THEN back ELSE waiting
  /\ UNCHANGED <<declared, cancelled, late, program, readers, collector, cause, result>>

\* The window runs out while the collector waits.
WaitReturns(waiting, back) ==
  /\ pc = waiting /\ over
  /\ pc' = back
  /\ UNCHANGED <<declared, cancelled, late, program, readers, collector, cause, result>>

CollectExited ==
  \/ pc = "join" /\ Collect("wait", FALSE)
  \/ WaitForActivity("wait", "waiting", "join")
  \/ WaitReturns("waiting", "join")

CollectKilled ==
  \/ pc = "join_killed" /\ Collect("wait_killed", TRUE)
  \/ WaitForActivity("wait_killed", "waiting_killed", "join_killed")
  \/ WaitReturns("waiting_killed", "join_killed")

Program == \E p \in Processes : Exit(p) \/ Fork(p) \/ \E s \in Streams : WriteOutput(p, s)
Reader(s) == ReadBounded(s) \/ ReachEnd(s) \/ ReadFails(s)
Call ==
  \/ Refuse \/ Spawn \/ PollInterrupted \/ WaitFails \/ ChildReaped
  \/ CollectExited \/ Complete \/ Stalled \/ CollectKilled \/ ReturnPartial

Next ==
  \/ Program \/ Cancel \/ DeadlinePasses \/ WindowRunsOut
  \/ \E s \in Streams : Reader(s)
  \/ Call

\* The calling thread runs, and a window that is open runs out.  The program,
\* its descendants and the readers may do nothing for ever.
Fairness == WF_vars(Call) /\ WF_vars(WindowRunsOut)
Spec == Init /\ [][Next]_vars /\ Fairness

-----------------------------------------------------------------------------
MustReturn == pc # "spawn" /\ (cancelled \/ late \/ "child" \notin alive)
HasReturned == pc = "returned"

\* The collector is at one of its steps, a reader never keeps more than it has
\* read, and only live processes hold a pipe.
TypeOK ==
  /\ pc \in Collecting \cup {"spawn", "poll", "returned"}
  /\ \A s \in Streams : kept[s] <= consumed[s] /\ consumed[s] <= written[s]
  /\ \A p \in Processes \ alive : holds[p] = {}
  /\ joined \subseteq Stopped /\ cause \in Causes

\* A completed call carries the whole output.  Whatever order the child's end,
\* its descendants' writes and ends, the window, a stop and the deadline come
\* in, nothing the program wrote is missing from a result that is not marked
\* truncated, nothing can be written after it, and the mark means bytes were
\* really dropped.
CompletedOutputIsWhole ==
  result.kind = "completed" =>
    /\ \A s \in Streams, p \in alive : s \notin holds[p]
    /\ result.truncated = (\E s \in Streams : written[s] > MaxOutput)
    /\ ~result.truncated => result.kept = written

\* An interrupted call leaves no process of the command's group behind: not the
\* child, and not a background process that outlives it and holds its pipes.
InterruptionEndsTheGroup ==
  result.kind = "interrupted" => alive \cap Group = {}

\* What a call's answer says of its command is so (bounded_output_with_timeout,
\* terminate_process_tree).
CommandsEndWhole == CompletedOutputIsWhole /\ InterruptionEndsTheGroup

\* A call whose child has ended, that was stopped, or whose deadline has passed
\* returns, whatever a process that escaped the group does with the pipes.
CallReturns ==
  MustReturn ~> HasReturned

\* "The collector can collect the handles the moment the last reader stopped":
\* no collection waits once every reader has recorded its stop.
StoppedReadersAreCollected ==
  pc \in {"waiting", "waiting_killed"} => Stopped # Streams
==============================================================================
