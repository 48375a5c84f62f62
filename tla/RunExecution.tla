---------------------------- MODULE RunExecution ----------------------------
(***************************************************************************)
(* One run from its accepted turn to its outcome: the executor of          *)
(* crates/intention-engine/src/runtime.rs, the host that admits it, stops  *)
(* it and closes it (crates/intention-daemon/src/lib.rs), and the turns    *)
(* that arrive while it runs.                                              *)
(*                                                                         *)
(* The executor, the stop request, the daemon's shutdown and the accepting *)
(* connection run on different threads.  One step is one storage           *)
(* transaction or one access to the run's RunCancellation handle, whose    *)
(* model signal, tool signal and stop flag are separate atomics.  Every    *)
(* write may be refused: by the repository because the run is closed, or   *)
(* by the backend, at most MaxFaults times.                                *)
(*                                                                         *)
(* Storage.tla models the transactions; here each has its effect on the    *)
(* rows of this one run.  Publication to subscribers is not part of this   *)
(* module, and a step's text and reasoning are only present or absent:     *)
(* blank text counts as absent, as it does in the code.                    *)
(***************************************************************************)
EXTENDS Naturals, Sequences, Selections

CONSTANTS
  MaxAttempts,    \* provider_execution.max_attempts of the configuration
  MaxCalls,       \* bound: tool calls of one model step
  MaxToolRounds,  \* bound: tool rounds of one attempt
  MaxRows,        \* bound: transcript rows after which the provider says nothing new
  MaxTurns,       \* bound: turns accepted while the run is active
  MaxFaults       \* bound: writes and context reads the backend refuses

ASSUME RunExecutionAssumption ==
  /\ MaxAttempts \in Nat \ {0}
  /\ MaxCalls \in Nat /\ MaxToolRounds \in Nat /\ MaxRows \in Nat
  /\ MaxTurns \in Nat /\ MaxFaults \in Nat

VARIABLES
  status,      \* the durable status of the run
  log,         \* the kinds of its transcript rows, in order
  queue,       \* how many turns of the session are pending
  accepted,    \* how many turns were queued while the run was active
  late,        \* history: turns queued since the executor last read the queue
  registered,  \* the host's task registry holds the run's handle
  pc,          \* where the executor stands
  resume,      \* where it goes on after clearing the signal
  owes,        \* whether it records an interruption notice before that
  attempt,     \* the provider attempt
  tools,       \* tool_round: closed tool rounds of the attempt
  calls,       \* calls of the current step still to answer
  text,        \* pending_text holds answer text
  thought,     \* the round produced reasoning text
  partial,     \* interrupted_tool: a call of the batch was answered partially
  durable,     \* durable_output: the run committed irreversible content
  retryable,   \* the last failure may be retried
  live,        \* the kinds of the request's messages after the starting context
  extra,       \* extra_messages: the additions a retried attempt starts from
  model,       \* the model half of the cancellation signal
  tool,        \* the tool half of the cancellation signal
  taken,       \* notice_taken
  stop,        \* the stop flag
  stopper,     \* where the stop request stands
  canceller,   \* where the shutdown's cancellation stands
  faults       \* how many writes and reads the backend has refused

ledger == <<status, log>>
inbox == <<queue, accepted, late>>
signals == <<model, tool, taken, stop>>
step == <<calls, text, thought, partial, tools>>
memory == <<attempt, durable, retryable, live, extra>>
flow == <<pc, resume, owes>>
host == <<registered, stopper, canceller>>

vars == <<ledger, inbox, signals, step, memory, flow, host, faults>>

-----------------------------------------------------------------------------
ActiveStatus == {"starting", "running"}
TerminalStatus == {"completed", "failed", "interrupted"}

\* Assistant rows are told apart: an answer, reasoning alone, a marked cut.
RowKind == {"user", "assistant", "thought", "cut", "notice", "stop", "call", "result"}

Place == {"unadmitted", "begin", "transition", "attempt", "top", "round", "select",
          "finished", "finished_signal", "interrupted", "failed", "outer", "retry",
          "delay", "call", "effect", "result", "tool_error", "batch_end",
          "batch_signal", "join", "batch_join", "reset", "reset_tool", "notice",
          "stop_notice", "complete", "fail", "interrupt", "error", "leave", "done"}

Active == status \in ActiveStatus
Signalled == model \/ tool

Goto(place) == pc' = place /\ UNCHANGED <<resume, owes>>

\* The write of an executor that is refused, for either reason.
Refused ==
  /\ \/ ~Active /\ UNCHANGED faults
     \/ Active /\ faults < MaxFaults /\ faults' = faults + 1
  /\ UNCHANGED ledger

Write(kinds) ==
  /\ Active
  /\ log' = log \o kinds
  /\ UNCHANGED <<status, faults>>

SetStatus(new) ==
  /\ Active
  /\ status' = new
  /\ UNCHANGED <<log, faults>>

-----------------------------------------------------------------------------
Init ==
  /\ status = "starting" /\ log = <<"user">>
  /\ queue \in {0, 1} /\ accepted = 0 /\ late = 0
  /\ registered = FALSE
  /\ pc = "unadmitted" /\ resume = "top" /\ owes = FALSE
  /\ attempt = 0 /\ tools = 0 /\ calls = 0
  /\ text = FALSE /\ thought = FALSE /\ partial = FALSE
  /\ durable = FALSE /\ retryable = FALSE
  /\ live = <<>> /\ extra = <<>>
  /\ model = FALSE /\ tool = FALSE /\ taken = FALSE /\ stop = FALSE
  /\ stopper = "idle" /\ canceller = "idle"
  /\ faults = 0

-----------------------------------------------------------------------------
(* Admission: schedule_if_starting.                                        *)

\* The context of a starting run was read; the handle is registered and the
\* executor spawned under the registry lock.
Admit ==
  /\ pc = "unadmitted"
  /\ status = "starting"
  /\ registered' = TRUE
  /\ Goto("begin")
  /\ UNCHANGED <<ledger, inbox, signals, step, memory, stopper, canceller, faults>>

\* The context could not be read: the host fails the run if it still starts.
FailUnadmittedStartingRun ==
  /\ pc = "unadmitted"
  /\ \/ status # "starting" /\ UNCHANGED <<ledger, faults>>
     \/ /\ status = "starting"
        /\ faults < MaxFaults
        /\ \/ status' = "failed" /\ faults' = faults + 1
           \/ faults + 1 < MaxFaults /\ faults' = faults + 2 /\ UNCHANGED status
        /\ UNCHANGED log
  /\ Goto("done")
  /\ UNCHANGED <<inbox, signals, step, memory, host>>

-----------------------------------------------------------------------------
(* The attempt loop: execute and wait_for_retry.                           *)

\* The run is read and its configuration compared with the process's own.
Begin ==
  /\ pc = "begin"
  /\ \/ status = "starting" /\ Goto("transition") /\ UNCHANGED faults
     \/ status = "starting" /\ Goto("fail") /\ UNCHANGED faults
     \/ Refused /\ Goto("error")
  /\ UNCHANGED <<ledger, inbox, signals, step, memory, host>>

TransitionRun ==
  /\ pc = "transition"
  /\ \/ SetStatus("running") /\ Goto("attempt")
     \/ Refused /\ Goto("error")
  /\ UNCHANGED <<inbox, signals, step, memory, host>>

StartAttempt ==
  /\ pc = "attempt"
  /\ attempt' = attempt + 1
  /\ live' = extra
  /\ tools' = 0
  /\ Goto("top")
  /\ UNCHANGED <<ledger, inbox, signals, calls, text, thought, partial, durable,
                 retryable, extra, host, faults>>

\* commit_step of a failed round: the text alone, never marked.
CommitFailedStep(next) ==
  /\ text' = FALSE
  /\ \/ ~text /\ Goto(next) /\ UNCHANGED <<ledger, faults>>
     \/ text /\ Write(<<"assistant">>) /\ Goto(next)
     \/ text /\ Refused /\ Goto("error")

\* The attempt failed before any tool round: retry it or end the run.
RetryOrFail ==
  /\ pc = "outer"
  /\ LET retry == retryable /\ ~durable /\ ~text /\ attempt < MaxAttempts
     IN  \/ retry /\ Goto("retry") /\ UNCHANGED <<ledger, faults, text>>
         \/ ~retry /\ CommitFailedStep("fail")
  /\ retryable' = FALSE
  /\ UNCHANGED <<inbox, signals, calls, thought, partial, tools, attempt, durable, live,
                 extra, host>>

\* Takes the notice the signal owes and goes on to clear the signal.
TakeInterruptNotice(after) ==
  /\ Signalled
  /\ taken' = TRUE
  /\ owes' = ~taken
  /\ resume' = after
  /\ pc' = "reset"

WaitForRetry ==
  /\ pc = "retry"
  /\ \/ TakeInterruptNotice("attempt")
     \/ ~Signalled /\ Goto("delay") /\ UNCHANGED taken
  /\ UNCHANGED <<ledger, inbox, model, tool, stop, step, memory, host, faults>>

\* The delay awaits only the model half of the signal.
RetryDelay ==
  /\ pc = "delay"
  /\ \/ model /\ TakeInterruptNotice("attempt")
     \/ ~model /\ Goto("attempt") /\ UNCHANGED taken
  /\ UNCHANGED <<ledger, inbox, model, tool, stop, step, memory, host, faults>>

-----------------------------------------------------------------------------
(* One provider round: drive_provider_round.                               *)

\* Leaves the loop for end_stopped_run, which first clears the signal.
EndStoppedRun ==
  /\ pc' = "reset"
  /\ resume' = "stop_notice"
  /\ owes' = FALSE

\* Fault: the head of the loop does not look at the stop flag.
StartRoundFault ==
  /\ pc = "top"
  /\ Goto("round")
  /\ calls' = 0 /\ thought' = FALSE /\ partial' = FALSE
  /\ UNCHANGED <<ledger, inbox, signals, text, tools, memory, host, faults>>

StartRound ==
  /\ pc = "top"
  /\ \/ stop /\ EndStoppedRun /\ UNCHANGED <<calls, thought, partial>>
     \/ /\ ~stop /\ Goto("round")
        /\ calls' = 0 /\ thought' = FALSE /\ partial' = FALSE
  /\ UNCHANGED <<ledger, inbox, signals, text, tools, memory, host, faults>>

\* Fault: a cut step is recorded under a kind the transcript does not have.
StepRowFault(cut) == IF ~text THEN "thought" ELSE IF cut THEN "interrupted" ELSE "assistant"

\* The row a closing step commits: reasoning alone is never marked as cut.
StepRow(cut) == IF ~text THEN "thought" ELSE IF cut THEN "cut" ELSE "assistant"

\* Fault: the row of a cut step does not count as durable output.
CommitStepFault(cut, next) ==
  /\ text' = FALSE
  /\ thought' = FALSE
  /\ \/ ~text /\ ~thought /\ Goto(next) /\ UNCHANGED <<ledger, faults, durable>>
     \/ /\ text \/ thought
        /\ \/ Write(<<StepRow(cut)>>) /\ durable' = (durable \/ ~cut) /\ Goto(next)
           \/ Refused /\ Goto("error") /\ UNCHANGED durable

CommitStep(cut, next) ==
  /\ text' = FALSE
  /\ thought' = FALSE
  /\ \/ ~text /\ ~thought /\ Goto(next) /\ UNCHANGED <<ledger, faults, durable>>
     \/ /\ text \/ thought
        /\ \/ Write(<<StepRow(cut)>>) /\ durable' = TRUE /\ Goto(next)
           \/ Refused /\ Goto("error") /\ UNCHANGED durable

\* A stopped stream: the calls it had announced are dropped.
CommitInterruptedStep ==
  /\ CommitStep(TRUE, "interrupted")
  /\ calls' = 0
  /\ UNCHANGED <<inbox, signals, partial, tools, attempt, retryable, live, extra, host>>

\* The head of the stream loop observes both halves of the signal.
ObserveSignal ==
  /\ pc = "round"
  /\ \/ Signalled /\ CommitInterruptedStep
     \/ /\ ~Signalled /\ Goto("select")
        /\ UNCHANGED <<ledger, inbox, signals, step, memory, host, faults>>

\* The select wakes for the model half alone.
CancelStream == pc = "select" /\ model /\ CommitInterruptedStep

TextDelta ==
  /\ pc = "select" /\ ~model
  /\ ~text /\ Len(log) < MaxRows
  /\ text' = TRUE
  /\ Goto("round")
  /\ UNCHANGED <<ledger, inbox, signals, calls, thought, partial, tools, memory, host, faults>>

ReasoningDelta ==
  /\ pc = "select" /\ ~model
  /\ ~thought /\ Len(log) < MaxRows
  /\ thought' = TRUE
  /\ Goto("round")
  /\ UNCHANGED <<ledger, inbox, signals, calls, text, partial, tools, memory, host, faults>>

ToolCall ==
  /\ pc = "select" /\ ~model
  /\ calls < MaxCalls /\ tools < MaxToolRounds /\ Len(log) < MaxRows
  /\ calls' = calls + 1
  /\ Goto("round")
  /\ UNCHANGED <<ledger, inbox, signals, text, thought, partial, tools, memory, host, faults>>

FinishRound ==
  /\ pc = "select" /\ ~model
  /\ calls = 0
  /\ CommitStep(FALSE, "finished")
  /\ UNCHANGED <<inbox, signals, calls, partial, tools, attempt, retryable, live, extra, host>>

\* The round closes with calls: the step's row commits before any of them.
CloseToolRound ==
  /\ pc = "select" /\ ~model
  /\ calls > 0
  /\ CommitStep(FALSE, "call")
  /\ tools' = tools + 1
  /\ live' = Append(live, "calls")
  /\ UNCHANGED <<inbox, signals, calls, partial, attempt, retryable, extra, host>>

\* A provider error, an idle timeout, an early end, or an event out of order.
FailRound ==
  /\ pc = "select" /\ ~model
  /\ retryable' \in BOOLEAN
  /\ Goto("failed")
  /\ UNCHANGED <<ledger, inbox, signals, step, attempt, durable, live, extra, host, faults>>

-----------------------------------------------------------------------------
(* The boundaries between rounds: drive_attempt.                           *)

StepFinished ==
  /\ pc = "finished"
  /\ \/ stop /\ EndStoppedRun
     \/ ~stop /\ Goto("finished_signal")
  /\ UNCHANGED <<ledger, inbox, signals, step, memory, host, faults>>

\* Fault: a finished step completes the run without reading the queue.
FinishedSignalFault ==
  /\ pc = "finished_signal"
  /\ \/ TakeInterruptNotice("top")
     \/ ~Signalled /\ Goto("complete") /\ UNCHANGED taken
  /\ UNCHANGED <<ledger, inbox, model, tool, stop, step, memory, host, faults>>

FinishedSignal ==
  /\ pc = "finished_signal"
  /\ \/ TakeInterruptNotice("top")
     \/ ~Signalled /\ Goto("join") /\ UNCHANGED taken
  /\ UNCHANGED <<ledger, inbox, model, tool, stop, step, memory, host, faults>>

\* Fault: an interrupted round goes on without a notice.
StepInterruptedFault ==
  /\ pc = "interrupted"
  /\ \/ stop /\ EndStoppedRun
     \/ ~stop /\ owes' = FALSE /\ resume' = "top" /\ pc' = "reset"
  /\ UNCHANGED <<ledger, inbox, signals, step, memory, host, faults>>

\* An interrupted round records its notice whether or not the budget is spent.
StepInterrupted ==
  /\ pc = "interrupted"
  /\ \/ stop /\ EndStoppedRun /\ UNCHANGED taken
     \/ /\ ~stop
        /\ taken' = (taken \/ Signalled)
        /\ owes' = TRUE /\ resume' = "top" /\ pc' = "reset"
  /\ UNCHANGED <<ledger, inbox, model, tool, stop, step, memory, host, faults>>

RoundFailed ==
  /\ pc = "failed"
  /\ \/ ~stop /\ tools = 0 /\ Goto("outer") /\ UNCHANGED <<ledger, faults, text>>
     \/ ~stop /\ tools > 0 /\ CommitFailedStep("fail")
     \/ /\ stop
        /\ text' = FALSE
        /\ \/ ~text /\ EndStoppedRun /\ UNCHANGED <<ledger, faults>>
           \/ text /\ Write(<<"assistant">>) /\ EndStoppedRun
           \/ text /\ Refused /\ Goto("error")
  /\ UNCHANGED <<inbox, signals, calls, thought, partial, tools, memory, host>>

\* The two halves of reset, and then the notice if one is owed.
ResetModel ==
  /\ pc = "reset"
  /\ model' = FALSE
  /\ Goto("reset_tool")
  /\ UNCHANGED <<ledger, inbox, tool, taken, stop, step, memory, host, faults>>

ResetTool ==
  /\ pc = "reset_tool"
  /\ tool' = FALSE
  /\ taken' = FALSE
  /\ Goto(IF owes THEN "notice" ELSE resume)
  /\ UNCHANGED <<ledger, inbox, model, stop, step, memory, host, faults>>

\* Fault: the notice of an interrupted round is not kept for a retried attempt.
RecordInterruptNoticeFault ==
  /\ pc = "notice"
  /\ \/ /\ Write(<<"notice">>)
        /\ live' = IF resume = "attempt" THEN live ELSE Append(live, "notice")
        /\ Goto(resume)
     \/ Refused /\ Goto("error") /\ UNCHANGED live
  /\ UNCHANGED <<inbox, signals, step, attempt, durable, retryable, extra, host>>

RecordInterruptNotice ==
  /\ pc = "notice"
  /\ \/ /\ Write(<<"notice">>)
        /\ extra' = Append(extra, "notice")
        /\ live' = IF resume = "attempt" THEN live ELSE Append(live, "notice")
        /\ Goto(resume)
     \/ Refused /\ Goto("error") /\ UNCHANGED <<live, extra>>
  /\ UNCHANGED <<inbox, signals, step, attempt, durable, retryable, host>>

\* Every pending turn joins in one transaction.  A finished step with nothing
\* to join completes the run; a tool batch goes on either way.
ConsumePendingUserTurns ==
  /\ pc \in {"join", "batch_join"}
  /\ LET users == [i \in 1 .. queue |-> "user"]
     IN  \/ /\ Write(users)
            /\ live' = live \o users /\ extra' = extra \o users
            /\ queue' = 0 /\ late' = 0
            /\ Goto(IF pc = "join" /\ queue = 0 THEN "complete" ELSE "top")
         \/ Refused /\ Goto("error") /\ UNCHANGED <<live, extra, queue, late>>
  /\ UNCHANGED <<accepted, signals, step, attempt, durable, retryable, host>>

-----------------------------------------------------------------------------
(* A tool batch: the calls of the step, one after the other.               *)

\* The call's row commits before its effect; a name that is no identity fails
\* the tool path before any row.
AppendToolCall ==
  /\ pc = "call"
  /\ \/ Write(<<"call">>) /\ Goto("effect")
     \/ Refused /\ Goto("tool_error")
     \/ Goto("tool_error") /\ UNCHANGED <<ledger, faults>>
  /\ UNCHANGED <<inbox, signals, step, memory, host>>

\* Undecodable arguments fail the call unseen by the signal.  Otherwise the
\* dispatch observes the tool half of the signal before any effect, and later
\* the signal, a declared deadline or a lost process cuts it.  The blocking task
\* itself may be lost.
DispatchTool ==
  /\ pc = "effect"
  /\ \/ partial' = TRUE /\ Goto("result")
     \/ UNCHANGED partial /\ Goto("result")
     \/ UNCHANGED partial /\ Goto("tool_error")
  /\ UNCHANGED <<ledger, inbox, signals, calls, text, thought, tools, memory, host, faults>>

CommitToolResult ==
  /\ pc = "result"
  /\ \/ /\ Write(<<"result">>)
        /\ calls' = calls - 1
        /\ durable' = TRUE
        /\ live' = Append(live, "result")
        /\ Goto(IF calls = 1 THEN "batch_end" ELSE "call")
     \/ Refused /\ Goto("tool_error") /\ UNCHANGED <<calls, durable, live>>
  /\ UNCHANGED <<inbox, signals, text, thought, partial, tools, attempt, retryable, extra, host>>

\* A failure of the tool path itself ends the run as failed.
ToolPathFailed ==
  /\ pc = "tool_error"
  /\ durable' = TRUE
  /\ Goto("fail")
  /\ UNCHANGED <<ledger, inbox, signals, step, attempt, retryable, live, extra, host, faults>>

BatchEnd ==
  /\ pc = "batch_end"
  /\ \/ stop /\ EndStoppedRun
     \/ ~stop /\ Goto("batch_signal")
  /\ UNCHANGED <<ledger, inbox, signals, step, memory, host, faults>>

\* A partial result already carries the notice of the request.
BatchSignal ==
  /\ pc = "batch_signal"
  /\ \/ ~Signalled /\ Goto("batch_join") /\ UNCHANGED taken
     \/ ~partial /\ TakeInterruptNotice("batch_join")
     \/ /\ Signalled /\ partial
        /\ taken' = TRUE
        /\ owes' = FALSE /\ resume' = "batch_join" /\ pc' = "reset"
  /\ UNCHANGED <<ledger, inbox, model, tool, stop, step, memory, host, faults>>

-----------------------------------------------------------------------------
(* The end of the run: end_stopped_run, finish_run and the spawned task.   *)

RecordStopNotice ==
  /\ pc = "stop_notice"
  /\ \/ Write(<<"stop">>) /\ Goto("interrupt")
     \/ Refused /\ Goto("error")
  /\ UNCHANGED <<inbox, signals, step, memory, host>>

Outcome == [complete |-> "completed", fail |-> "failed", interrupt |-> "interrupted"]

FinishRun ==
  /\ pc \in DOMAIN Outcome
  /\ \/ SetStatus(Outcome[pc]) /\ Goto("leave")
     \/ Refused /\ Goto("error")
  /\ UNCHANGED <<inbox, signals, step, memory, host>>

\* Fault: an executor error ends the task and nothing else.
FailActiveRunFault ==
  /\ pc = "error"
  /\ Goto("leave")
  /\ UNCHANGED <<ledger, inbox, signals, step, memory, host, faults>>

\* An executor error: the host closes the run if it is still open.
FailActiveRun ==
  /\ pc = "error"
  /\ \/ SetStatus("failed")
     \/ Refused
  /\ Goto("leave")
  /\ UNCHANGED <<inbox, signals, step, memory, host>>

\* Deregistration takes the registry lock, which a stop request holds while it
\* signals.
Deregister ==
  /\ pc = "leave"
  /\ stopper \notin {"signal_model", "signal_tool"}
  /\ registered' = FALSE
  /\ Goto("done")
  /\ UNCHANGED <<ledger, inbox, signals, step, memory, stopper, canceller, faults>>

-----------------------------------------------------------------------------
(* Commands: cancel_run, shutdown_executions and turn acceptance.          *)

\* The stop validates the active run without any lock.
AcceptStop ==
  /\ stopper = "idle"
  /\ Active
  /\ stopper' = "accepted"
  /\ UNCHANGED <<ledger, inbox, signals, step, memory, flow, registered, canceller, faults>>

\* Under the registry lock it finds the handle and raises the stop flag, or
\* finds none.
LookUpExecution ==
  /\ stopper = "accepted"
  /\ \/ registered /\ stop' = TRUE /\ stopper' = "signal_model"
     \/ ~registered /\ stopper' = "unowned" /\ UNCHANGED stop
  /\ UNCHANGED <<ledger, inbox, model, tool, taken, step, memory, flow, registered,
                 canceller, faults>>

SignalModel ==
  /\ stopper = "signal_model"
  /\ model' = TRUE
  /\ stopper' = "signal_tool"
  /\ UNCHANGED <<ledger, inbox, tool, taken, stop, step, memory, flow, registered,
                 canceller, faults>>

SignalTool ==
  /\ stopper = "signal_tool"
  /\ tool' = TRUE
  /\ stopper' = "done"
  /\ UNCHANGED <<ledger, inbox, model, taken, stop, step, memory, flow, registered,
                 canceller, faults>>

\* A run no execution owns is closed by the host itself.
StopActiveRun ==
  /\ stopper = "unowned"
  /\ \/ SetStatus("interrupted")
     \/ Refused
  /\ stopper' = "done"
  /\ UNCHANGED <<inbox, signals, step, memory, flow, registered, canceller>>

StopRequest == LookUpExecution \/ SignalModel \/ SignalTool \/ StopActiveRun

\* A shutdown cancels every registered run, without the stop flag.
CancelModel ==
  /\ canceller = "idle"
  /\ registered
  /\ model' = TRUE
  /\ canceller' = "signal_tool"
  /\ UNCHANGED <<ledger, inbox, tool, taken, stop, step, memory, flow, registered,
                 stopper, faults>>

CancelTool ==
  /\ canceller = "signal_tool"
  /\ tool' = TRUE
  /\ canceller' = "done"
  /\ UNCHANGED <<ledger, inbox, model, taken, stop, step, memory, flow, registered,
                 stopper, faults>>

QueuePendingTurn ==
  /\ Active
  /\ accepted < MaxTurns
  /\ accepted' = accepted + 1
  /\ queue' = queue + 1
  /\ late' = late + 1
  /\ UNCHANGED <<ledger, signals, step, memory, flow, host, faults>>

RemoveTurn ==
  /\ queue > 0
  /\ queue' = queue - 1
  /\ UNCHANGED <<ledger, accepted, late, signals, step, memory, flow, host, faults>>

-----------------------------------------------------------------------------
Admission == Admit \/ FailUnadmittedStartingRun

Executor ==
  \/ Begin \/ TransitionRun \/ StartAttempt \/ RetryOrFail \/ WaitForRetry \/ RetryDelay
  \/ StartRound \/ ObserveSignal \/ CancelStream \/ TextDelta \/ ReasoningDelta \/ ToolCall
  \/ FinishRound \/ CloseToolRound \/ FailRound
  \/ StepFinished \/ FinishedSignal \/ StepInterrupted \/ RoundFailed
  \/ ResetModel \/ ResetTool \/ RecordInterruptNotice \/ ConsumePendingUserTurns
  \/ AppendToolCall \/ DispatchTool \/ CommitToolResult \/ ToolPathFailed
  \/ BatchEnd \/ BatchSignal
  \/ RecordStopNotice \/ FinishRun \/ FailActiveRun \/ Deregister

Next ==
  \/ Admission
  \/ Executor
  \/ AcceptStop
  \/ StopRequest
  \/ CancelModel
  \/ CancelTool
  \/ QueuePendingTurn
  \/ RemoveTurn

Spec == Init /\ [][Next]_vars

\* The scheduler runs every thread, a provider stream that stays silent is cut
\* by its idle deadline, and a blocking tool ends.
FairSpec == Spec /\ WF_vars(Admission) /\ WF_vars(Executor) /\ WF_vars(StopRequest)
                 /\ WF_vars(CancelTool)

-----------------------------------------------------------------------------
TypeOK ==
  /\ status \in ActiveStatus \cup TerminalStatus
  /\ log \in Seq(RowKind)
  /\ queue \in Nat /\ accepted \in Nat /\ late \in Nat
  /\ registered \in BOOLEAN
  /\ pc \in Place /\ resume \in Place /\ owes \in BOOLEAN
  /\ attempt \in Nat /\ tools \in Nat /\ calls \in Nat
  /\ text \in BOOLEAN /\ thought \in BOOLEAN /\ partial \in BOOLEAN
  /\ durable \in BOOLEAN /\ retryable \in BOOLEAN
  /\ live \in Seq(RowKind \cup {"calls"}) /\ extra \in Seq(RowKind)
  /\ model \in BOOLEAN /\ tool \in BOOLEAN /\ taken \in BOOLEAN /\ stop \in BOOLEAN
  /\ stopper \in {"idle", "accepted", "unowned", "signal_model", "signal_tool", "done"}
  /\ canceller \in {"idle", "signal_tool", "done"}
  /\ faults \in Nat

Joined == {"user", "notice"}
InStream == pc \in {"round", "select"}

\* Every provider request carries the turns and notices the run has committed
\* since it started, in their order, in every attempt: neither a retry nor an
\* interruption drops, repeats or reorders what joined.
RequestsCarryJoinedRows ==
  InStream => Within(live, Joined) = Tail(Within(log, Joined))

\* A completed run answered every turn that was pending when it last read its
\* queue: what is still pending was accepted after that read.
CompletionLeavesOnlyLateTurns == status = "completed" => queue <= late

\* A stream in flight always has the signal of an accepted stop: no boundary
\* clears the signal of a stop and then asks the provider again.
StopReachesStream ==
  (InStream /\ stop /\ stopper \in {"signal_tool", "done"}) => model

\* An attempt is repeated only while the run holds nothing of its own: no
\* answer, no reasoning, no call and no result.
RetryDiscardsNothing ==
  [][(attempt' > attempt) =>
       \A i \in DOMAIN log : log[i] \in {"user", "notice"}]_vars

Transcript == INSTANCE RunTranscript

\* Whatever the provider, the signals, the stop and the refused writes do, the
\* rows of the run keep the shape its readers rely on.
KeepsTranscript == Transcript!Spec

\* Every accepted run reaches an outcome, also when it is stopped, cancelled
\* or refused a write on the way.
RunEnds == <>(status \in TerminalStatus)

-----------------------------------------------------------------------------
(* What comments and documents say of stops, notices and requests.         *)

\* "Provider continuations are always fresh requests reconstructed from complete
\* local typed history" (docs, 15-tool-registry-and-model-tool-loop.md).
Spoken == {"user", "notice", "assistant", "cut"}
RequestsCarryHistory ==
  InStream => Within(live, Spoken) = Tail(Within(log, Spoken))
=============================================================================
