------------------------- MODULE RunExecutionProofs -------------------------
(***************************************************************************)
(* Proofs about RunExecution for any number of attempts, calls, rounds,    *)
(* rows, late turns and refused writes: what a stop and a completion leave *)
(* behind, what a retry repeats, and that the rows of a run are those      *)
(* RunTranscript promises.                                                 *)
(***************************************************************************)
EXTENDS RunExecution, DataLemmas

-----------------------------------------------------------------------------
(* What the transcript ends with, wherever the executor stands.            *)

LastRow == log[Len(log)]

\* A model step may follow these rows.
Turns == {"user", "notice", "result"}

\* Where the run has not been moved to running, or the executor has given up.
NotRunning == {"unadmitted", "begin", "transition", "fail", "error", "leave", "done"}

\* Where the executor is about to speak to the provider, or does.
Asking == {"unadmitted", "begin", "transition", "attempt", "top", "round", "select", "failed",
           "outer", "retry", "delay", "batch_end", "batch_signal", "batch_join"}

\* The last row where no signal is being cleared.
LastRowInv ==
  /\ log # <<>>
  /\ pc \in Asking => LastRow \in Turns
  /\ pc \in {"finished", "finished_signal", "join", "call", "complete"} =>
       LastRow \in Turns \cup {"assistant", "thought"}
  /\ pc = "interrupted" => LastRow \notin {"call", "stop", "assistant"}
  /\ pc \in {"effect", "result"} => LastRow = "call"
  /\ pc \in {"notice", "stop_notice", "reset", "reset_tool"} => LastRow \notin {"call", "stop"}

\* Where the executor goes on from a boundary that clears the signal, and what it
\* must record before: only a notice may separate two steps of the model.
BoundaryInv ==
  /\ taken => pc \in {"reset", "reset_tool"}
  /\ pc \in {"reset", "reset_tool"} =>
       /\ resume \in {"attempt", "top", "batch_join", "stop_notice"}
       /\ resume = "top" => owes
       /\ resume = "stop_notice" => ~owes
       /\ resume \in {"attempt", "batch_join"} => LastRow \in Turns
  /\ pc = "notice" => resume \in {"attempt", "top", "batch_join"}

\* A batch has calls to answer, and a run is moved to running before it speaks.
ProgressInv ==
  /\ pc \in {"call", "effect", "result"} => calls > 0
  /\ status = "starting" => pc \in NotRunning
  /\ pc \in {"begin", "transition"} => status # "running"

\* What the run has committed beside turns and notices counts as durable where it
\* may still go on to another attempt.
Quiet == \A i \in DOMAIN log : log[i] \in {"user", "notice"}

Ending == {"effect", "result", "tool_error", "fail", "error", "stop_notice", "interrupt",
           "leave", "done"}

BeforeAttempt == {"unadmitted", "begin", "transition", "attempt", "retry", "delay"}

DurableInv ==
  /\ \/ durable \/ Quiet \/ pc \in Ending
     \/ pc \in {"reset", "reset_tool"} /\ resume = "stop_notice"
  /\ pc \in BeforeAttempt => Quiet
  /\ pc \in {"reset", "reset_tool", "notice"} /\ resume = "attempt" => Quiet

\* A run that completes has read its queue last.
QueueInv == pc = "complete" \/ status = "completed" => queue <= late

\* A stop flag is raised by a stop request that goes on to signal the stream.
StreamInv ==
  /\ StopReachesStream
  /\ stop => stopper \in {"signal_model", "signal_tool", "done"}

-----------------------------------------------------------------------------
(* The rows a step adds.                                                   *)

\* Which row is last after a write, and whether the run stays quiet.
LEMMA RowsAfter ==
  ASSUME TypeOK
  PROVE  /\ log' = log => LastRow' = LastRow /\ (Quiet' <=> Quiet)
         /\ \A kind \in RowKind : log' = log \o <<kind>> =>
              /\ log' \in Seq(RowKind) /\ log' # <<>> /\ LastRow' = kind
              /\ log' = Append(log, kind)
              /\ Quiet /\ kind \in {"user", "notice"} => Quiet'
         /\ log' = log \o [i \in 1 .. queue |-> "user"] =>
              /\ log' \in Seq(RowKind) /\ (log # <<>> => log' # <<>>)
              /\ queue = 0 => LastRow' = LastRow
              /\ queue > 0 => LastRow' = "user"
              /\ Quiet => Quiet'
<1>1. log \in Seq(RowKind) /\ queue \in Nat /\ "user" \in RowKind
  BY DEF TypeOK, RowKind
<1>2. ASSUME log' = log PROVE LastRow' = LastRow /\ (Quiet' <=> Quiet)  BY <1>2 DEF LastRow, Quiet
<1>3. ASSUME NEW kind \in RowKind, log' = log \o <<kind>>
      PROVE  /\ log' \in Seq(RowKind) /\ log' # <<>> /\ LastRow' = kind
             /\ log' = Append(log, kind)
             /\ Quiet /\ kind \in {"user", "notice"} => Quiet'
  <2>1. log' = Append(log, kind) /\ log' \in Seq(RowKind)
    BY <1>1, <1>3
  <2>2. Len(log') = Len(log) + 1 /\ log'[Len(log) + 1] = kind
        /\ \A i \in 1 .. Len(log) : log'[i] = log[i]
    BY <1>1, <2>1
  <2>3. QED  BY <1>1, <2>1, <2>2 DEF LastRow, Quiet
<1>4. ASSUME log' = log \o [i \in 1 .. queue |-> "user"]
      PROVE  /\ log' \in Seq(RowKind) /\ (log # <<>> => log' # <<>>)
             /\ queue = 0 => LastRow' = LastRow
             /\ queue > 0 => LastRow' = "user"
             /\ Quiet => Quiet'
  <2> DEFINE users == [i \in 1 .. queue |-> "user"]
  <2>1. users \in Seq(RowKind) /\ Len(users) = queue
    BY <1>1
  <2>2. /\ log' \in Seq(RowKind) /\ Len(log') = Len(log) + queue
        /\ \A i \in 1 .. Len(log) : log'[i] = log[i]
        /\ \A i \in 1 .. queue : log'[Len(log) + i] = "user"
    BY <1>1, <1>4, <2>1
  <2>3. \A i \in 1 .. Len(log) + queue : i > Len(log) => log'[i] = "user"
    <3>1. ASSUME NEW i \in 1 .. Len(log) + queue, i > Len(log) PROVE log'[i] = "user"
      <4>1. i - Len(log) \in 1 .. queue /\ i = Len(log) + (i - Len(log))
        BY <1>1, <3>1
      <4>2. QED  BY <2>2, <4>1
    <3>2. QED  BY <3>1
  <2>4. QED  BY <1>1, <2>2, <2>3 DEF LastRow, Quiet
<1>5. QED  BY <1>2, <1>3, <1>4


-----------------------------------------------------------------------------
(* What the commands leave alone.                                          *)

Commands ==
  \/ AcceptStop \/ StopRequest \/ CancelModel \/ CancelTool \/ QueuePendingTurn \/ RemoveTurn

\* Stops, shutdowns and arriving turns write no row and move no executor; only a
\* stop that found no execution changes the status.
LEMMA CommandsKeep ==
  ASSUME Commands
  PROVE  /\ log' = log /\ pc' = pc /\ resume' = resume /\ owes' = owes
         /\ calls' = calls /\ tools' = tools /\ text' = text /\ thought' = thought
         /\ attempt' = attempt /\ durable' = durable /\ live' = live /\ extra' = extra
         /\ taken' = taken
         /\ status' = status \/ (Active /\ status' = "interrupted")
<1> USE DEF ledger, inbox, signals, step, memory, flow, host
<1>1. CASE AcceptStop  BY <1>1 DEF AcceptStop
<1>2. CASE LookUpExecution  BY <1>2 DEF LookUpExecution
<1>3. CASE SignalModel  BY <1>3 DEF SignalModel
<1>4. CASE SignalTool  BY <1>4 DEF SignalTool
<1>5. CASE StopActiveRun  BY <1>5 DEF StopActiveRun, SetStatus, Refused
<1>6. CASE CancelModel  BY <1>6 DEF CancelModel
<1>7. CASE CancelTool  BY <1>7 DEF CancelTool
<1>8. CASE QueuePendingTurn  BY <1>8 DEF QueuePendingTurn
<1>9. CASE RemoveTurn  BY <1>9 DEF RemoveTurn
<1>10. QED
  BY <1>1, <1>2, <1>3, <1>4, <1>5, <1>6, <1>7, <1>8, <1>9 DEF Commands, StopRequest

-----------------------------------------------------------------------------
(* The types, in three parts.                                              *)

Flags ==
  /\ registered \in BOOLEAN /\ owes \in BOOLEAN
  /\ text \in BOOLEAN /\ thought \in BOOLEAN /\ partial \in BOOLEAN
  /\ durable \in BOOLEAN /\ retryable \in BOOLEAN
  /\ model \in BOOLEAN /\ tool \in BOOLEAN /\ taken \in BOOLEAN /\ stop \in BOOLEAN

Places ==
  /\ status \in ActiveStatus \cup TerminalStatus
  /\ queue \in Nat /\ accepted \in Nat /\ late \in Nat
  /\ pc \in Place /\ resume \in Place
  /\ attempt \in Nat /\ tools \in Nat /\ calls \in Nat
  /\ stopper \in {"idle", "accepted", "unowned", "signal_model", "signal_tool", "done"}
  /\ canceller \in {"idle", "signal_tool", "done"}
  /\ faults \in Nat

Rows ==
  /\ log \in Seq(RowKind)
  /\ live \in Seq(RowKind \cup {"calls"}) /\ extra \in Seq(RowKind)

\* Rows and messages stay sequences of their kinds when they grow.
LEMMA RowsGrow ==
  ASSUME Rows, queue \in Nat
  PROVE  /\ \A kind \in RowKind : log \o <<kind>> \in Seq(RowKind)
         /\ \A kind \in RowKind \cup {"calls"} :
              Append(live, kind) \in Seq(RowKind \cup {"calls"})
         /\ Append(extra, "notice") \in Seq(RowKind)
         /\ LET users == [i \in 1 .. queue |-> "user"]
            IN  /\ log \o users \in Seq(RowKind) /\ extra \o users \in Seq(RowKind)
                /\ live \o users \in Seq(RowKind \cup {"calls"})
         /\ extra \in Seq(RowKind \cup {"calls"})
<1> DEFINE users == [i \in 1 .. queue |-> "user"]
<1>1. "notice" \in RowKind /\ "user" \in RowKind
  BY DEF RowKind
<1>2. users \in Seq(RowKind) /\ users \in Seq(RowKind \cup {"calls"})
  BY <1>1
<1>3. extra \in Seq(RowKind \cup {"calls"})
  BY DEF Rows
<1>4. \A kind \in RowKind : log \o <<kind>> \in Seq(RowKind)
  BY DEF Rows
<1> HIDE DEF users
<1>5. /\ log \o users \in Seq(RowKind) /\ extra \o users \in Seq(RowKind)
      /\ live \o users \in Seq(RowKind \cup {"calls"})
  BY <1>2 DEF Rows
<1>6. QED  BY <1>1, <1>3, <1>4, <1>5 DEF Rows, users

-----------------------------------------------------------------------------
(* Each part is kept by every step.                                        *)

\* Every step keeps the flags Boolean.
LEMMA FlagsStep ==
  ASSUME Flags, [Next]_vars
  PROVE  Flags'
<1> USE DEF Goto, Active, Signalled, ActiveStatus, TerminalStatus, ledger, inbox, signals, step,
      memory, flow, host, Flags
<1>1. CASE Admit  BY <1>1 DEF Admit
<1>2. CASE FailUnadmittedStartingRun  BY <1>2 DEF FailUnadmittedStartingRun
<1>3. CASE Begin  BY <1>3 DEF Begin, Refused
<1>4. CASE TransitionRun  BY <1>4 DEF TransitionRun, SetStatus, Refused
<1>5. CASE StartAttempt  BY <1>5 DEF StartAttempt
<1>6. CASE RetryOrFail  BY <1>6 DEF RetryOrFail, CommitFailedStep, Write, Refused
<1>7. CASE WaitForRetry  BY <1>7 DEF WaitForRetry, TakeInterruptNotice
<1>8. CASE RetryDelay  BY <1>8 DEF RetryDelay, TakeInterruptNotice
<1>9. CASE StartRound  BY <1>9 DEF StartRound, EndStoppedRun
<1>10. CASE ObserveSignal
  BY <1>10 DEF ObserveSignal, CommitInterruptedStep, CommitStep, StepRow, Write, Refused
<1>11. CASE CancelStream
  BY <1>11 DEF CancelStream, CommitInterruptedStep, CommitStep, StepRow, Write, Refused
<1>12. CASE TextDelta  BY <1>12 DEF TextDelta
<1>13. CASE ReasoningDelta  BY <1>13 DEF ReasoningDelta
<1>14. CASE ToolCall  BY <1>14 DEF ToolCall
<1>15. CASE FinishRound  BY <1>15 DEF FinishRound, CommitStep, StepRow, Write, Refused
<1>16. CASE CloseToolRound  BY <1>16 DEF CloseToolRound, CommitStep, StepRow, Write, Refused
<1>17. CASE FailRound  BY <1>17 DEF FailRound
<1>18. CASE StepFinished  BY <1>18 DEF StepFinished, EndStoppedRun
<1>19. CASE FinishedSignal  BY <1>19 DEF FinishedSignal, TakeInterruptNotice
<1>20. CASE StepInterrupted  BY <1>20 DEF StepInterrupted, EndStoppedRun
<1>21. CASE RoundFailed  BY <1>21 DEF RoundFailed, EndStoppedRun, CommitFailedStep, Write, Refused
<1>22. CASE ResetModel  BY <1>22 DEF ResetModel
<1>23. CASE ResetTool  BY <1>23 DEF ResetTool
<1>24. CASE RecordInterruptNotice  BY <1>24 DEF RecordInterruptNotice, Write, Refused
<1>25. CASE ConsumePendingUserTurns  BY <1>25 DEF ConsumePendingUserTurns, Write, Refused
<1>26. CASE AppendToolCall  BY <1>26 DEF AppendToolCall, Write, Refused
<1>27. CASE DispatchTool  BY <1>27 DEF DispatchTool
<1>28. CASE CommitToolResult  BY <1>28 DEF CommitToolResult, Write, Refused
<1>29. CASE ToolPathFailed  BY <1>29 DEF ToolPathFailed
<1>30. CASE BatchEnd  BY <1>30 DEF BatchEnd, EndStoppedRun
<1>31. CASE BatchSignal  BY <1>31 DEF BatchSignal, TakeInterruptNotice
<1>32. CASE RecordStopNotice  BY <1>32 DEF RecordStopNotice, Write, Refused
<1>33. CASE FinishRun  BY <1>33 DEF FinishRun, Outcome, SetStatus, Refused
<1>34. CASE FailActiveRun  BY <1>34 DEF FailActiveRun, SetStatus, Refused
<1>35. CASE Deregister  BY <1>35 DEF Deregister
<1>36. CASE AcceptStop  BY <1>36 DEF AcceptStop
<1>37. CASE LookUpExecution  BY <1>37 DEF LookUpExecution
<1>38. CASE SignalModel  BY <1>38 DEF SignalModel
<1>39. CASE SignalTool  BY <1>39 DEF SignalTool
<1>40. CASE StopActiveRun  BY <1>40 DEF StopActiveRun, SetStatus, Refused
<1>41. CASE CancelModel  BY <1>41 DEF CancelModel
<1>42. CASE CancelTool  BY <1>42 DEF CancelTool
<1>43. CASE QueuePendingTurn  BY <1>43 DEF QueuePendingTurn
<1>44. CASE RemoveTurn  BY <1>44 DEF RemoveTurn
<1>45. CASE UNCHANGED vars  BY <1>45 DEF vars
<1>46. QED
  BY <1>1, <1>2, <1>3, <1>4, <1>5, <1>6, <1>7, <1>8, <1>9, <1>10, <1>11, <1>12, <1>13, <1>14,
     <1>15, <1>16, <1>17, <1>18, <1>19, <1>20, <1>21, <1>22, <1>23, <1>24, <1>25, <1>26, <1>27,
     <1>28, <1>29, <1>30, <1>31, <1>32, <1>33, <1>34, <1>35, <1>36, <1>37, <1>38, <1>39, <1>40,
     <1>41, <1>42, <1>43, <1>44, <1>45
     DEF Next, Admission, Executor, StopRequest

\* A call is answered only while the batch has one, so no count leaves the naturals.
LEMMA PlacesStep ==
  ASSUME Places, ProgressInv, [Next]_vars
  PROVE  Places'
<1> USE DEF Goto, Active, Signalled, ActiveStatus, TerminalStatus, ledger, inbox, signals, step,
      memory, flow, host, Places, ProgressInv, Place, NotRunning
<1>1. CASE Admit  BY <1>1 DEF Admit
<1>2. CASE FailUnadmittedStartingRun  BY <1>2 DEF FailUnadmittedStartingRun
<1>3. CASE Begin  BY <1>3 DEF Begin, Refused
<1>4. CASE TransitionRun  BY <1>4 DEF TransitionRun, SetStatus, Refused
<1>5. CASE StartAttempt  BY <1>5 DEF StartAttempt
<1>6. CASE RetryOrFail  BY <1>6 DEF RetryOrFail, CommitFailedStep, Write, Refused
<1>7. CASE WaitForRetry  BY <1>7 DEF WaitForRetry, TakeInterruptNotice
<1>8. CASE RetryDelay  BY <1>8 DEF RetryDelay, TakeInterruptNotice
<1>9. CASE StartRound  BY <1>9 DEF StartRound, EndStoppedRun
<1>10. CASE ObserveSignal
  BY <1>10 DEF ObserveSignal, CommitInterruptedStep, CommitStep, StepRow, Write, Refused
<1>11. CASE CancelStream
  BY <1>11 DEF CancelStream, CommitInterruptedStep, CommitStep, StepRow, Write, Refused
<1>12. CASE TextDelta  BY <1>12 DEF TextDelta
<1>13. CASE ReasoningDelta  BY <1>13 DEF ReasoningDelta
<1>14. CASE ToolCall  BY <1>14 DEF ToolCall
<1>15. CASE FinishRound  BY <1>15 DEF FinishRound, CommitStep, StepRow, Write, Refused
<1>16. CASE CloseToolRound  BY <1>16 DEF CloseToolRound, CommitStep, StepRow, Write, Refused
<1>17. CASE FailRound  BY <1>17 DEF FailRound
<1>18. CASE StepFinished  BY <1>18 DEF StepFinished, EndStoppedRun
<1>19. CASE FinishedSignal  BY <1>19 DEF FinishedSignal, TakeInterruptNotice
<1>20. CASE StepInterrupted  BY <1>20 DEF StepInterrupted, EndStoppedRun
<1>21. CASE RoundFailed  BY <1>21 DEF RoundFailed, EndStoppedRun, CommitFailedStep, Write, Refused
<1>22. CASE ResetModel  BY <1>22 DEF ResetModel
<1>23. CASE ResetTool  BY <1>23 DEF ResetTool
<1>24. CASE RecordInterruptNotice  BY <1>24 DEF RecordInterruptNotice, Write, Refused
<1>25. CASE ConsumePendingUserTurns  BY <1>25 DEF ConsumePendingUserTurns, Write, Refused
<1>26. CASE AppendToolCall  BY <1>26 DEF AppendToolCall, Write, Refused
<1>27. CASE DispatchTool  BY <1>27 DEF DispatchTool
<1>28. CASE CommitToolResult  BY <1>28 DEF CommitToolResult, Write, Refused
<1>29. CASE ToolPathFailed  BY <1>29 DEF ToolPathFailed
<1>30. CASE BatchEnd  BY <1>30 DEF BatchEnd, EndStoppedRun
<1>31. CASE BatchSignal  BY <1>31 DEF BatchSignal, TakeInterruptNotice
<1>32. CASE RecordStopNotice  BY <1>32 DEF RecordStopNotice, Write, Refused
<1>33. CASE FinishRun  BY <1>33 DEF FinishRun, Outcome, SetStatus, Refused
<1>34. CASE FailActiveRun  BY <1>34 DEF FailActiveRun, SetStatus, Refused
<1>35. CASE Deregister  BY <1>35 DEF Deregister
<1>36. CASE AcceptStop  BY <1>36 DEF AcceptStop
<1>37. CASE LookUpExecution  BY <1>37 DEF LookUpExecution
<1>38. CASE SignalModel  BY <1>38 DEF SignalModel
<1>39. CASE SignalTool  BY <1>39 DEF SignalTool
<1>40. CASE StopActiveRun  BY <1>40 DEF StopActiveRun, SetStatus, Refused
<1>41. CASE CancelModel  BY <1>41 DEF CancelModel
<1>42. CASE CancelTool  BY <1>42 DEF CancelTool
<1>43. CASE QueuePendingTurn  BY <1>43 DEF QueuePendingTurn
<1>44. CASE RemoveTurn  BY <1>44 DEF RemoveTurn
<1>45. CASE UNCHANGED vars  BY <1>45 DEF vars
<1>46. QED
  BY <1>1, <1>2, <1>3, <1>4, <1>5, <1>6, <1>7, <1>8, <1>9, <1>10, <1>11, <1>12, <1>13, <1>14,
     <1>15, <1>16, <1>17, <1>18, <1>19, <1>20, <1>21, <1>22, <1>23, <1>24, <1>25, <1>26, <1>27,
     <1>28, <1>29, <1>30, <1>31, <1>32, <1>33, <1>34, <1>35, <1>36, <1>37, <1>38, <1>39, <1>40,
     <1>41, <1>42, <1>43, <1>44, <1>45
     DEF Next, Admission, Executor, StopRequest

\* Every step keeps transcript and request sequences of their kinds.
LEMMA RowsStep ==
  ASSUME Rows, queue \in Nat, [Next]_vars
  PROVE  Rows'
<1> USE RowsGrow DEF Goto, Active, Signalled, ActiveStatus, TerminalStatus, ledger, inbox,
      signals, step, memory, flow, host, Rows, RowKind
<1>1. CASE Admit  BY <1>1 DEF Admit
<1>2. CASE FailUnadmittedStartingRun  BY <1>2 DEF FailUnadmittedStartingRun
<1>3. CASE Begin  BY <1>3 DEF Begin, Refused
<1>4. CASE TransitionRun  BY <1>4 DEF TransitionRun, SetStatus, Refused
<1>5. CASE StartAttempt  BY <1>5 DEF StartAttempt
<1>6. CASE RetryOrFail  BY <1>6 DEF RetryOrFail, CommitFailedStep, Write, Refused
<1>7. CASE WaitForRetry  BY <1>7 DEF WaitForRetry, TakeInterruptNotice
<1>8. CASE RetryDelay  BY <1>8 DEF RetryDelay, TakeInterruptNotice
<1>9. CASE StartRound  BY <1>9 DEF StartRound, EndStoppedRun
<1>10. CASE ObserveSignal
  BY <1>10 DEF ObserveSignal, CommitInterruptedStep, CommitStep, StepRow, Write, Refused
<1>11. CASE CancelStream
  BY <1>11 DEF CancelStream, CommitInterruptedStep, CommitStep, StepRow, Write, Refused
<1>12. CASE TextDelta  BY <1>12 DEF TextDelta
<1>13. CASE ReasoningDelta  BY <1>13 DEF ReasoningDelta
<1>14. CASE ToolCall  BY <1>14 DEF ToolCall
<1>15. CASE FinishRound  BY <1>15 DEF FinishRound, CommitStep, StepRow, Write, Refused
<1>16. CASE CloseToolRound  BY <1>16 DEF CloseToolRound, CommitStep, StepRow, Write, Refused
<1>17. CASE FailRound  BY <1>17 DEF FailRound
<1>18. CASE StepFinished  BY <1>18 DEF StepFinished, EndStoppedRun
<1>19. CASE FinishedSignal  BY <1>19 DEF FinishedSignal, TakeInterruptNotice
<1>20. CASE StepInterrupted  BY <1>20 DEF StepInterrupted, EndStoppedRun
<1>21. CASE RoundFailed  BY <1>21 DEF RoundFailed, EndStoppedRun, CommitFailedStep, Write, Refused
<1>22. CASE ResetModel  BY <1>22 DEF ResetModel
<1>23. CASE ResetTool  BY <1>23 DEF ResetTool
<1>24. CASE RecordInterruptNotice  BY <1>24 DEF RecordInterruptNotice, Write, Refused
<1>25. CASE ConsumePendingUserTurns  BY <1>25 DEF ConsumePendingUserTurns, Write, Refused
<1>26. CASE AppendToolCall  BY <1>26 DEF AppendToolCall, Write, Refused
<1>27. CASE DispatchTool  BY <1>27 DEF DispatchTool
<1>28. CASE CommitToolResult  BY <1>28 DEF CommitToolResult, Write, Refused
<1>29. CASE ToolPathFailed  BY <1>29 DEF ToolPathFailed
<1>30. CASE BatchEnd  BY <1>30 DEF BatchEnd, EndStoppedRun
<1>31. CASE BatchSignal  BY <1>31 DEF BatchSignal, TakeInterruptNotice
<1>32. CASE RecordStopNotice  BY <1>32 DEF RecordStopNotice, Write, Refused
<1>33. CASE FinishRun  BY <1>33 DEF FinishRun, Outcome, SetStatus, Refused
<1>34. CASE FailActiveRun  BY <1>34 DEF FailActiveRun, SetStatus, Refused
<1>35. CASE Deregister  BY <1>35 DEF Deregister
<1>36. CASE Commands  BY <1>36, CommandsKeep
<1>37. CASE UNCHANGED vars  BY <1>37 DEF vars
<1>38. QED
  BY <1>1, <1>2, <1>3, <1>4, <1>5, <1>6, <1>7, <1>8, <1>9, <1>10, <1>11, <1>12, <1>13, <1>14,
     <1>15, <1>16, <1>17, <1>18, <1>19, <1>20, <1>21, <1>22, <1>23, <1>24, <1>25, <1>26, <1>27,
     <1>28, <1>29, <1>30, <1>31, <1>32, <1>33, <1>34, <1>35, <1>36, <1>37
     DEF Next, Admission, Executor, StopRequest, Commands

\* A run is moved to running before its executor speaks.
LEMMA ProgressStep ==
  ASSUME TypeOK, ProgressInv, BoundaryInv, [Next]_vars
  PROVE  ProgressInv'
<1> USE DEF Goto, Active, Signalled, ActiveStatus, TerminalStatus, ledger, inbox, signals, step,
      memory, flow, host, TypeOK, ProgressInv, BoundaryInv, Place, NotRunning
<1>1. CASE Admit  BY <1>1 DEF Admit
<1>2. CASE FailUnadmittedStartingRun  BY <1>2 DEF FailUnadmittedStartingRun
<1>3. CASE Begin  BY <1>3 DEF Begin, Refused
<1>4. CASE TransitionRun  BY <1>4 DEF TransitionRun, SetStatus, Refused
<1>5. CASE StartAttempt  BY <1>5 DEF StartAttempt
<1>6. CASE RetryOrFail  BY <1>6 DEF RetryOrFail, CommitFailedStep, Write, Refused
<1>7. CASE WaitForRetry  BY <1>7 DEF WaitForRetry, TakeInterruptNotice
<1>8. CASE RetryDelay  BY <1>8 DEF RetryDelay, TakeInterruptNotice
<1>9. CASE StartRound  BY <1>9 DEF StartRound, EndStoppedRun
<1>10. CASE ObserveSignal
  BY <1>10 DEF ObserveSignal, CommitInterruptedStep, CommitStep, StepRow, Write, Refused
<1>11. CASE CancelStream
  BY <1>11 DEF CancelStream, CommitInterruptedStep, CommitStep, StepRow, Write, Refused
<1>12. CASE TextDelta  BY <1>12 DEF TextDelta
<1>13. CASE ReasoningDelta  BY <1>13 DEF ReasoningDelta
<1>14. CASE ToolCall  BY <1>14 DEF ToolCall
<1>15. CASE FinishRound  BY <1>15 DEF FinishRound, CommitStep, StepRow, Write, Refused
<1>16. CASE CloseToolRound  BY <1>16 DEF CloseToolRound, CommitStep, StepRow, Write, Refused
<1>17. CASE FailRound  BY <1>17 DEF FailRound
<1>18. CASE StepFinished  BY <1>18 DEF StepFinished, EndStoppedRun
<1>19. CASE FinishedSignal  BY <1>19 DEF FinishedSignal, TakeInterruptNotice
<1>20. CASE StepInterrupted  BY <1>20 DEF StepInterrupted, EndStoppedRun
<1>21. CASE RoundFailed  BY <1>21 DEF RoundFailed, EndStoppedRun, CommitFailedStep, Write, Refused
<1>22. CASE ResetModel  BY <1>22 DEF ResetModel
<1>23. CASE ResetTool  BY <1>23 DEF ResetTool
<1>24. CASE RecordInterruptNotice  BY <1>24 DEF RecordInterruptNotice, Write, Refused
<1>25. CASE ConsumePendingUserTurns  BY <1>25 DEF ConsumePendingUserTurns, Write, Refused
<1>26. CASE AppendToolCall  BY <1>26 DEF AppendToolCall, Write, Refused
<1>27. CASE DispatchTool  BY <1>27 DEF DispatchTool
<1>28. CASE CommitToolResult  BY <1>28 DEF CommitToolResult, Write, Refused
<1>29. CASE ToolPathFailed  BY <1>29 DEF ToolPathFailed
<1>30. CASE BatchEnd  BY <1>30 DEF BatchEnd, EndStoppedRun
<1>31. CASE BatchSignal  BY <1>31 DEF BatchSignal, TakeInterruptNotice
<1>32. CASE RecordStopNotice  BY <1>32 DEF RecordStopNotice, Write, Refused
<1>33. CASE FinishRun  BY <1>33 DEF FinishRun, Outcome, SetStatus, Refused
<1>34. CASE FailActiveRun  BY <1>34 DEF FailActiveRun, SetStatus, Refused
<1>35. CASE Deregister  BY <1>35 DEF Deregister
<1>36. CASE Commands  BY <1>36, CommandsKeep
<1>37. CASE UNCHANGED vars  BY <1>37 DEF vars
<1>38. QED
  BY <1>1, <1>2, <1>3, <1>4, <1>5, <1>6, <1>7, <1>8, <1>9, <1>10, <1>11, <1>12, <1>13, <1>14,
     <1>15, <1>16, <1>17, <1>18, <1>19, <1>20, <1>21, <1>22, <1>23, <1>24, <1>25, <1>26, <1>27,
     <1>28, <1>29, <1>30, <1>31, <1>32, <1>33, <1>34, <1>35, <1>36, <1>37
     DEF Next, Admission, Executor, StopRequest, Commands

\* A boundary takes the notice it owes once, and clears the signal before it goes on.
LEMMA BoundaryStep ==
  ASSUME TypeOK, BoundaryInv, LastRowInv, [Next]_vars
  PROVE  BoundaryInv'
<1> USE RowsAfter DEF Goto, Active, Signalled, ActiveStatus, TerminalStatus, ledger, inbox,
      signals, step, memory, flow, host, TypeOK, BoundaryInv, LastRowInv, Asking, Turns, RowKind
<1>1. CASE Admit  BY <1>1 DEF Admit
<1>2. CASE FailUnadmittedStartingRun  BY <1>2 DEF FailUnadmittedStartingRun
<1>3. CASE Begin  BY <1>3 DEF Begin, Refused
<1>4. CASE TransitionRun  BY <1>4 DEF TransitionRun, SetStatus, Refused
<1>5. CASE StartAttempt  BY <1>5 DEF StartAttempt
<1>6. CASE RetryOrFail  BY <1>6 DEF RetryOrFail, CommitFailedStep, Write, Refused
<1>7. CASE WaitForRetry  BY <1>7 DEF WaitForRetry, TakeInterruptNotice
<1>8. CASE RetryDelay  BY <1>8 DEF RetryDelay, TakeInterruptNotice
<1>9. CASE StartRound  BY <1>9 DEF StartRound, EndStoppedRun
<1>10. CASE ObserveSignal
  <2>1. /\ pc = "round" /\ taken' = taken /\ pc' \in {"select", "interrupted", "error"}
    BY <1>10 DEF ObserveSignal, CommitInterruptedStep, CommitStep
  <2>2. QED  BY <2>1
<1>11. CASE CancelStream
  BY <1>11 DEF CancelStream, CommitInterruptedStep, CommitStep, StepRow, Write, Refused
<1>12. CASE TextDelta  BY <1>12 DEF TextDelta
<1>13. CASE ReasoningDelta  BY <1>13 DEF ReasoningDelta
<1>14. CASE ToolCall  BY <1>14 DEF ToolCall
<1>15. CASE FinishRound  BY <1>15 DEF FinishRound, CommitStep, StepRow, Write, Refused
<1>16. CASE CloseToolRound  BY <1>16 DEF CloseToolRound, CommitStep, StepRow, Write, Refused
<1>17. CASE FailRound  BY <1>17 DEF FailRound
<1>18. CASE StepFinished  BY <1>18 DEF StepFinished, EndStoppedRun
<1>19. CASE FinishedSignal  BY <1>19 DEF FinishedSignal, TakeInterruptNotice
<1>20. CASE StepInterrupted  BY <1>20 DEF StepInterrupted, EndStoppedRun
<1>21. CASE RoundFailed  BY <1>21 DEF RoundFailed, EndStoppedRun, CommitFailedStep, Write, Refused
<1>22. CASE ResetModel  BY <1>22 DEF ResetModel
<1>23. CASE ResetTool  BY <1>23 DEF ResetTool
<1>24. CASE RecordInterruptNotice  BY <1>24 DEF RecordInterruptNotice, Write, Refused
<1>25. CASE ConsumePendingUserTurns  BY <1>25 DEF ConsumePendingUserTurns, Write, Refused
<1>26. CASE AppendToolCall  BY <1>26 DEF AppendToolCall, Write, Refused
<1>27. CASE DispatchTool  BY <1>27 DEF DispatchTool
<1>28. CASE CommitToolResult  BY <1>28 DEF CommitToolResult, Write, Refused
<1>29. CASE ToolPathFailed  BY <1>29 DEF ToolPathFailed
<1>30. CASE BatchEnd  BY <1>30 DEF BatchEnd, EndStoppedRun
<1>31. CASE BatchSignal  BY <1>31 DEF BatchSignal, TakeInterruptNotice
<1>32. CASE RecordStopNotice  BY <1>32 DEF RecordStopNotice, Write, Refused
<1>33. CASE FinishRun  BY <1>33 DEF FinishRun, Outcome, SetStatus, Refused
<1>34. CASE FailActiveRun  BY <1>34 DEF FailActiveRun, SetStatus, Refused
<1>35. CASE Deregister  BY <1>35 DEF Deregister
<1>36. CASE Commands  BY <1>36, CommandsKeep
<1>37. CASE UNCHANGED vars  BY <1>37 DEF vars
<1>38. QED
  BY <1>1, <1>2, <1>3, <1>4, <1>5, <1>6, <1>7, <1>8, <1>9, <1>10, <1>11, <1>12, <1>13, <1>14,
     <1>15, <1>16, <1>17, <1>18, <1>19, <1>20, <1>21, <1>22, <1>23, <1>24, <1>25, <1>26, <1>27,
     <1>28, <1>29, <1>30, <1>31, <1>32, <1>33, <1>34, <1>35, <1>36, <1>37
     DEF Next, Admission, Executor, StopRequest, Commands

\* Where the executor stands tells which rows can be last.
LEMMA LastRowStep ==
  ASSUME TypeOK, BoundaryInv, LastRowInv, [Next]_vars
  PROVE  LastRowInv'
<1> USE RowsAfter DEF Goto, Active, Signalled, ActiveStatus, TerminalStatus, ledger, inbox,
      signals, step, memory, flow, host, TypeOK, BoundaryInv, LastRowInv, Asking, Turns, RowKind
<1>1. CASE Admit  BY <1>1 DEF Admit
<1>2. CASE FailUnadmittedStartingRun  BY <1>2 DEF FailUnadmittedStartingRun
<1>3. CASE Begin  BY <1>3 DEF Begin, Refused
<1>4. CASE TransitionRun  BY <1>4 DEF TransitionRun, SetStatus, Refused
<1>5. CASE StartAttempt  BY <1>5 DEF StartAttempt
<1>6. CASE RetryOrFail  BY <1>6 DEF RetryOrFail, CommitFailedStep, Write, Refused
<1>7. CASE WaitForRetry  BY <1>7 DEF WaitForRetry, TakeInterruptNotice
<1>8. CASE RetryDelay  BY <1>8 DEF RetryDelay, TakeInterruptNotice
<1>9. CASE StartRound  BY <1>9 DEF StartRound, EndStoppedRun
<1>10. CASE ObserveSignal
  BY <1>10 DEF ObserveSignal, CommitInterruptedStep, CommitStep, StepRow, Write, Refused
<1>11. CASE CancelStream
  BY <1>11 DEF CancelStream, CommitInterruptedStep, CommitStep, StepRow, Write, Refused
<1>12. CASE TextDelta  BY <1>12 DEF TextDelta
<1>13. CASE ReasoningDelta  BY <1>13 DEF ReasoningDelta
<1>14. CASE ToolCall  BY <1>14 DEF ToolCall
<1>15. CASE FinishRound  BY <1>15 DEF FinishRound, CommitStep, StepRow, Write, Refused
<1>16. CASE CloseToolRound  BY <1>16 DEF CloseToolRound, CommitStep, StepRow, Write, Refused
<1>17. CASE FailRound  BY <1>17 DEF FailRound
<1>18. CASE StepFinished  BY <1>18 DEF StepFinished, EndStoppedRun
<1>19. CASE FinishedSignal  BY <1>19 DEF FinishedSignal, TakeInterruptNotice
<1>20. CASE StepInterrupted  BY <1>20 DEF StepInterrupted, EndStoppedRun
<1>21. CASE RoundFailed  BY <1>21 DEF RoundFailed, EndStoppedRun, CommitFailedStep, Write, Refused
<1>22. CASE ResetModel  BY <1>22 DEF ResetModel
<1>23. CASE ResetTool  BY <1>23 DEF ResetTool
<1>24. CASE RecordInterruptNotice  BY <1>24 DEF RecordInterruptNotice, Write, Refused
<1>25. CASE ConsumePendingUserTurns
  <2>1. CASE log' = log /\ pc' = "error"
    BY <1>25, <2>1
  <2>2. CASE log' = log \o [i \in 1 .. queue |-> "user"] /\ queue = 0
    BY <1>25, <2>2 DEF ConsumePendingUserTurns
  <2>3. CASE log' = log \o [i \in 1 .. queue |-> "user"] /\ queue > 0
    BY <1>25, <2>3 DEF ConsumePendingUserTurns
  <2>4. \/ log' = log /\ pc' = "error"
        \/ log' = log \o [i \in 1 .. queue |-> "user"]
    BY ONLY <1>25 DEF ConsumePendingUserTurns, Write, Refused, Goto, ledger
  <2>5. queue = 0 \/ queue > 0
    BY ONLY TypeOK DEF TypeOK
  <2>6. QED  BY ONLY <2>1, <2>2, <2>3, <2>4, <2>5
<1>26. CASE AppendToolCall  BY <1>26 DEF AppendToolCall, Write, Refused
<1>27. CASE DispatchTool  BY <1>27 DEF DispatchTool
<1>28. CASE CommitToolResult  BY <1>28 DEF CommitToolResult, Write, Refused
<1>29. CASE ToolPathFailed  BY <1>29 DEF ToolPathFailed
<1>30. CASE BatchEnd  BY <1>30 DEF BatchEnd, EndStoppedRun
<1>31. CASE BatchSignal  BY <1>31 DEF BatchSignal, TakeInterruptNotice
<1>32. CASE RecordStopNotice  BY <1>32 DEF RecordStopNotice, Write, Refused
<1>33. CASE FinishRun  BY <1>33 DEF FinishRun, Outcome, SetStatus, Refused
<1>34. CASE FailActiveRun  BY <1>34 DEF FailActiveRun, SetStatus, Refused
<1>35. CASE Deregister  BY <1>35 DEF Deregister
<1>36. CASE Commands  BY <1>36, CommandsKeep
<1>37. CASE UNCHANGED vars  BY <1>37 DEF vars
<1>38. QED
  BY <1>1, <1>2, <1>3, <1>4, <1>5, <1>6, <1>7, <1>8, <1>9, <1>10, <1>11, <1>12, <1>13, <1>14,
     <1>15, <1>16, <1>17, <1>18, <1>19, <1>20, <1>21, <1>22, <1>23, <1>24, <1>25, <1>26, <1>27,
     <1>28, <1>29, <1>30, <1>31, <1>32, <1>33, <1>34, <1>35, <1>36, <1>37
     DEF Next, Admission, Executor, StopRequest, Commands

\* Whatever a run commits of its own marks it durable, or ends it.
LEMMA DurableStep ==
  ASSUME TypeOK, BoundaryInv, DurableInv, [Next]_vars
  PROVE  DurableInv'
<1> USE RowsAfter DEF Goto, Active, Signalled, ActiveStatus, TerminalStatus, ledger, inbox,
      signals, step, memory, flow, host, TypeOK, BoundaryInv, DurableInv, BeforeAttempt, Ending,
      RowKind
<1>1. CASE Admit  BY <1>1 DEF Admit
<1>2. CASE FailUnadmittedStartingRun  BY <1>2 DEF FailUnadmittedStartingRun
<1>3. CASE Begin  BY <1>3 DEF Begin, Refused
<1>4. CASE TransitionRun  BY <1>4 DEF TransitionRun, SetStatus, Refused
<1>5. CASE StartAttempt  BY <1>5 DEF StartAttempt
<1>6. CASE RetryOrFail  BY <1>6 DEF RetryOrFail, CommitFailedStep, Write, Refused
<1>7. CASE WaitForRetry  BY <1>7 DEF WaitForRetry, TakeInterruptNotice
<1>8. CASE RetryDelay  BY <1>8 DEF RetryDelay, TakeInterruptNotice
<1>9. CASE StartRound  BY <1>9 DEF StartRound, EndStoppedRun
<1>10. CASE ObserveSignal
  BY <1>10 DEF ObserveSignal, CommitInterruptedStep, CommitStep, StepRow, Write, Refused
<1>11. CASE CancelStream
  <2>1. /\ pc = "select" /\ pc' \in {"interrupted", "error"}
        /\ log' = log \/ durable' = TRUE
        /\ durable => durable'
    BY ONLY <1>11 DEF CancelStream, CommitInterruptedStep, CommitStep, Write, Refused, Goto, ledger
  <2>2. log' = log => (Quiet' <=> Quiet)
    BY DEF Quiet
  <2>3. durable \/ Quiet
    BY ONLY <2>1, DurableInv DEF DurableInv, Ending
  <2>4. pc' = "interrupted" => durable' \/ Quiet'
    BY ONLY <2>1, <2>2, <2>3
  <2>5. QED  BY ONLY <2>1, <2>4 DEF DurableInv, BeforeAttempt, Ending
<1>12. CASE TextDelta  BY <1>12 DEF TextDelta
<1>13. CASE ReasoningDelta  BY <1>13 DEF ReasoningDelta
<1>14. CASE ToolCall  BY <1>14 DEF ToolCall
<1>15. CASE FinishRound  BY <1>15 DEF FinishRound, CommitStep, StepRow, Write, Refused
<1>16. CASE CloseToolRound  BY <1>16 DEF CloseToolRound, CommitStep, StepRow, Write, Refused
<1>17. CASE FailRound  BY <1>17 DEF FailRound
<1>18. CASE StepFinished  BY <1>18 DEF StepFinished, EndStoppedRun
<1>19. CASE FinishedSignal  BY <1>19 DEF FinishedSignal, TakeInterruptNotice
<1>20. CASE StepInterrupted  BY <1>20 DEF StepInterrupted, EndStoppedRun
<1>21. CASE RoundFailed  BY <1>21 DEF RoundFailed, EndStoppedRun, CommitFailedStep, Write, Refused
<1>22. CASE ResetModel  BY <1>22 DEF ResetModel
<1>23. CASE ResetTool  BY <1>23 DEF ResetTool
<1>24. CASE RecordInterruptNotice  BY <1>24 DEF RecordInterruptNotice, Write, Refused
<1>25. CASE ConsumePendingUserTurns  BY <1>25 DEF ConsumePendingUserTurns, Write, Refused
<1>26. CASE AppendToolCall  BY <1>26 DEF AppendToolCall, Write, Refused
<1>27. CASE DispatchTool  BY <1>27 DEF DispatchTool
<1>28. CASE CommitToolResult  BY <1>28 DEF CommitToolResult, Write, Refused
<1>29. CASE ToolPathFailed  BY <1>29 DEF ToolPathFailed
<1>30. CASE BatchEnd  BY <1>30 DEF BatchEnd, EndStoppedRun
<1>31. CASE BatchSignal  BY <1>31 DEF BatchSignal, TakeInterruptNotice
<1>32. CASE RecordStopNotice  BY <1>32 DEF RecordStopNotice, Write, Refused
<1>33. CASE FinishRun  BY <1>33 DEF FinishRun, Outcome, SetStatus, Refused
<1>34. CASE FailActiveRun  BY <1>34 DEF FailActiveRun, SetStatus, Refused
<1>35. CASE Deregister  BY <1>35 DEF Deregister
<1>36. CASE Commands  BY <1>36, CommandsKeep
<1>37. CASE UNCHANGED vars  BY <1>37 DEF vars
<1>38. QED
  BY <1>1, <1>2, <1>3, <1>4, <1>5, <1>6, <1>7, <1>8, <1>9, <1>10, <1>11, <1>12, <1>13, <1>14,
     <1>15, <1>16, <1>17, <1>18, <1>19, <1>20, <1>21, <1>22, <1>23, <1>24, <1>25, <1>26, <1>27,
     <1>28, <1>29, <1>30, <1>31, <1>32, <1>33, <1>34, <1>35, <1>36, <1>37
     DEF Next, Admission, Executor, StopRequest, Commands

\* A completing run leaves only turns accepted after its last read.
LEMMA QueueStep ==
  ASSUME TypeOK, BoundaryInv, QueueInv, [Next]_vars
  PROVE  QueueInv'
<1> USE DEF Goto, Active, Signalled, ActiveStatus, TerminalStatus, ledger, inbox, signals, step,
      memory, flow, host, TypeOK, BoundaryInv, QueueInv
<1>1. CASE Admit  BY <1>1 DEF Admit
<1>2. CASE FailUnadmittedStartingRun  BY <1>2 DEF FailUnadmittedStartingRun
<1>3. CASE Begin  BY <1>3 DEF Begin, Refused
<1>4. CASE TransitionRun  BY <1>4 DEF TransitionRun, SetStatus, Refused
<1>5. CASE StartAttempt  BY <1>5 DEF StartAttempt
<1>6. CASE RetryOrFail  BY <1>6 DEF RetryOrFail, CommitFailedStep, Write, Refused
<1>7. CASE WaitForRetry  BY <1>7 DEF WaitForRetry, TakeInterruptNotice
<1>8. CASE RetryDelay  BY <1>8 DEF RetryDelay, TakeInterruptNotice
<1>9. CASE StartRound  BY <1>9 DEF StartRound, EndStoppedRun
<1>10. CASE ObserveSignal
  BY <1>10 DEF ObserveSignal, CommitInterruptedStep, CommitStep, StepRow, Write, Refused
<1>11. CASE CancelStream
  BY <1>11 DEF CancelStream, CommitInterruptedStep, CommitStep, StepRow, Write, Refused
<1>12. CASE TextDelta  BY <1>12 DEF TextDelta
<1>13. CASE ReasoningDelta  BY <1>13 DEF ReasoningDelta
<1>14. CASE ToolCall  BY <1>14 DEF ToolCall
<1>15. CASE FinishRound  BY <1>15 DEF FinishRound, CommitStep, StepRow, Write, Refused
<1>16. CASE CloseToolRound  BY <1>16 DEF CloseToolRound, CommitStep, StepRow, Write, Refused
<1>17. CASE FailRound  BY <1>17 DEF FailRound
<1>18. CASE StepFinished  BY <1>18 DEF StepFinished, EndStoppedRun
<1>19. CASE FinishedSignal  BY <1>19 DEF FinishedSignal, TakeInterruptNotice
<1>20. CASE StepInterrupted  BY <1>20 DEF StepInterrupted, EndStoppedRun
<1>21. CASE RoundFailed  BY <1>21 DEF RoundFailed, EndStoppedRun, CommitFailedStep, Write, Refused
<1>22. CASE ResetModel  BY <1>22 DEF ResetModel
<1>23. CASE ResetTool  BY <1>23 DEF ResetTool
<1>24. CASE RecordInterruptNotice  BY <1>24 DEF RecordInterruptNotice, Write, Refused
<1>25. CASE ConsumePendingUserTurns  BY <1>25 DEF ConsumePendingUserTurns, Write, Refused
<1>26. CASE AppendToolCall  BY <1>26 DEF AppendToolCall, Write, Refused
<1>27. CASE DispatchTool  BY <1>27 DEF DispatchTool
<1>28. CASE CommitToolResult  BY <1>28 DEF CommitToolResult, Write, Refused
<1>29. CASE ToolPathFailed  BY <1>29 DEF ToolPathFailed
<1>30. CASE BatchEnd  BY <1>30 DEF BatchEnd, EndStoppedRun
<1>31. CASE BatchSignal  BY <1>31 DEF BatchSignal, TakeInterruptNotice
<1>32. CASE RecordStopNotice  BY <1>32 DEF RecordStopNotice, Write, Refused
<1>33. CASE FinishRun  BY <1>33 DEF FinishRun, Outcome, SetStatus, Refused
<1>34. CASE FailActiveRun  BY <1>34 DEF FailActiveRun, SetStatus, Refused
<1>35. CASE Deregister  BY <1>35 DEF Deregister
<1>36. CASE AcceptStop  BY <1>36 DEF AcceptStop
<1>37. CASE LookUpExecution  BY <1>37 DEF LookUpExecution
<1>38. CASE SignalModel  BY <1>38 DEF SignalModel
<1>39. CASE SignalTool  BY <1>39 DEF SignalTool
<1>40. CASE StopActiveRun  BY <1>40 DEF StopActiveRun, SetStatus, Refused
<1>41. CASE CancelModel  BY <1>41 DEF CancelModel
<1>42. CASE CancelTool  BY <1>42 DEF CancelTool
<1>43. CASE QueuePendingTurn  BY <1>43 DEF QueuePendingTurn
<1>44. CASE RemoveTurn  BY <1>44 DEF RemoveTurn
<1>45. CASE UNCHANGED vars  BY <1>45 DEF vars
<1>46. QED
  BY <1>1, <1>2, <1>3, <1>4, <1>5, <1>6, <1>7, <1>8, <1>9, <1>10, <1>11, <1>12, <1>13, <1>14,
     <1>15, <1>16, <1>17, <1>18, <1>19, <1>20, <1>21, <1>22, <1>23, <1>24, <1>25, <1>26, <1>27,
     <1>28, <1>29, <1>30, <1>31, <1>32, <1>33, <1>34, <1>35, <1>36, <1>37, <1>38, <1>39, <1>40,
     <1>41, <1>42, <1>43, <1>44, <1>45
     DEF Next, Admission, Executor, StopRequest

\* The head of the loop sees a stop before it opens a stream.
LEMMA StreamStep ==
  ASSUME BoundaryInv, StreamInv, [Next]_vars
  PROVE  StreamInv'
<1> USE DEF Goto, Active, Signalled, ActiveStatus, TerminalStatus, ledger, inbox, signals, step,
      memory, flow, host, BoundaryInv, StreamInv, StopReachesStream, InStream
<1>1. CASE Admit  BY <1>1 DEF Admit
<1>2. CASE FailUnadmittedStartingRun  BY <1>2 DEF FailUnadmittedStartingRun
<1>3. CASE Begin  BY <1>3 DEF Begin, Refused
<1>4. CASE TransitionRun  BY <1>4 DEF TransitionRun, SetStatus, Refused
<1>5. CASE StartAttempt  BY <1>5 DEF StartAttempt
<1>6. CASE RetryOrFail  BY <1>6 DEF RetryOrFail, CommitFailedStep, Write, Refused
<1>7. CASE WaitForRetry  BY <1>7 DEF WaitForRetry, TakeInterruptNotice
<1>8. CASE RetryDelay  BY <1>8 DEF RetryDelay, TakeInterruptNotice
<1>9. CASE StartRound  BY <1>9 DEF StartRound, EndStoppedRun
<1>10. CASE ObserveSignal
  BY <1>10 DEF ObserveSignal, CommitInterruptedStep, CommitStep, StepRow, Write, Refused
<1>11. CASE CancelStream
  BY <1>11 DEF CancelStream, CommitInterruptedStep, CommitStep, StepRow, Write, Refused
<1>12. CASE TextDelta  BY <1>12 DEF TextDelta
<1>13. CASE ReasoningDelta  BY <1>13 DEF ReasoningDelta
<1>14. CASE ToolCall  BY <1>14 DEF ToolCall
<1>15. CASE FinishRound  BY <1>15 DEF FinishRound, CommitStep, StepRow, Write, Refused
<1>16. CASE CloseToolRound  BY <1>16 DEF CloseToolRound, CommitStep, StepRow, Write, Refused
<1>17. CASE FailRound  BY <1>17 DEF FailRound
<1>18. CASE StepFinished  BY <1>18 DEF StepFinished, EndStoppedRun
<1>19. CASE FinishedSignal  BY <1>19 DEF FinishedSignal, TakeInterruptNotice
<1>20. CASE StepInterrupted  BY <1>20 DEF StepInterrupted, EndStoppedRun
<1>21. CASE RoundFailed  BY <1>21 DEF RoundFailed, EndStoppedRun, CommitFailedStep, Write, Refused
<1>22. CASE ResetModel  BY <1>22 DEF ResetModel
<1>23. CASE ResetTool  BY <1>23 DEF ResetTool
<1>24. CASE RecordInterruptNotice  BY <1>24 DEF RecordInterruptNotice, Write, Refused
<1>25. CASE ConsumePendingUserTurns  BY <1>25 DEF ConsumePendingUserTurns, Write, Refused
<1>26. CASE AppendToolCall  BY <1>26 DEF AppendToolCall, Write, Refused
<1>27. CASE DispatchTool  BY <1>27 DEF DispatchTool
<1>28. CASE CommitToolResult  BY <1>28 DEF CommitToolResult, Write, Refused
<1>29. CASE ToolPathFailed  BY <1>29 DEF ToolPathFailed
<1>30. CASE BatchEnd  BY <1>30 DEF BatchEnd, EndStoppedRun
<1>31. CASE BatchSignal  BY <1>31 DEF BatchSignal, TakeInterruptNotice
<1>32. CASE RecordStopNotice  BY <1>32 DEF RecordStopNotice, Write, Refused
<1>33. CASE FinishRun  BY <1>33 DEF FinishRun, Outcome, SetStatus, Refused
<1>34. CASE FailActiveRun  BY <1>34 DEF FailActiveRun, SetStatus, Refused
<1>35. CASE Deregister  BY <1>35 DEF Deregister
<1>36. CASE AcceptStop  BY <1>36 DEF AcceptStop
<1>37. CASE LookUpExecution  BY <1>37 DEF LookUpExecution
<1>38. CASE SignalModel  BY <1>38 DEF SignalModel
<1>39. CASE SignalTool  BY <1>39 DEF SignalTool
<1>40. CASE StopActiveRun  BY <1>40 DEF StopActiveRun, SetStatus, Refused
<1>41. CASE CancelModel  BY <1>41 DEF CancelModel
<1>42. CASE CancelTool  BY <1>42 DEF CancelTool
<1>43. CASE QueuePendingTurn  BY <1>43 DEF QueuePendingTurn
<1>44. CASE RemoveTurn  BY <1>44 DEF RemoveTurn
<1>45. CASE UNCHANGED vars  BY <1>45 DEF vars
<1>46. QED
  BY <1>1, <1>2, <1>3, <1>4, <1>5, <1>6, <1>7, <1>8, <1>9, <1>10, <1>11, <1>12, <1>13, <1>14,
     <1>15, <1>16, <1>17, <1>18, <1>19, <1>20, <1>21, <1>22, <1>23, <1>24, <1>25, <1>26, <1>27,
     <1>28, <1>29, <1>30, <1>31, <1>32, <1>33, <1>34, <1>35, <1>36, <1>37, <1>38, <1>39, <1>40,
     <1>41, <1>42, <1>43, <1>44, <1>45
     DEF Next, Admission, Executor, StopRequest

\* Only the head of the attempt loop begins an attempt.
LEMMA AttemptStep ==
  ASSUME TypeOK, DurableInv, [Next]_vars
  PROVE  attempt' > attempt => Quiet
<1> USE DEF Goto, Active, Signalled, ActiveStatus, TerminalStatus, ledger, inbox, signals, step,
      memory, flow, host, TypeOK, DurableInv, BeforeAttempt
<1>1. CASE Admit  BY <1>1 DEF Admit
<1>2. CASE FailUnadmittedStartingRun  BY <1>2 DEF FailUnadmittedStartingRun
<1>3. CASE Begin  BY <1>3 DEF Begin, Refused
<1>4. CASE TransitionRun  BY <1>4 DEF TransitionRun, SetStatus, Refused
<1>5. CASE StartAttempt  BY <1>5 DEF StartAttempt
<1>6. CASE RetryOrFail  BY <1>6 DEF RetryOrFail, CommitFailedStep, Write, Refused
<1>7. CASE WaitForRetry  BY <1>7 DEF WaitForRetry, TakeInterruptNotice
<1>8. CASE RetryDelay  BY <1>8 DEF RetryDelay, TakeInterruptNotice
<1>9. CASE StartRound  BY <1>9 DEF StartRound, EndStoppedRun
<1>10. CASE ObserveSignal
  BY <1>10 DEF ObserveSignal, CommitInterruptedStep, CommitStep, StepRow, Write, Refused
<1>11. CASE CancelStream
  BY <1>11 DEF CancelStream, CommitInterruptedStep, CommitStep, StepRow, Write, Refused
<1>12. CASE TextDelta  BY <1>12 DEF TextDelta
<1>13. CASE ReasoningDelta  BY <1>13 DEF ReasoningDelta
<1>14. CASE ToolCall  BY <1>14 DEF ToolCall
<1>15. CASE FinishRound  BY <1>15 DEF FinishRound, CommitStep, StepRow, Write, Refused
<1>16. CASE CloseToolRound  BY <1>16 DEF CloseToolRound, CommitStep, StepRow, Write, Refused
<1>17. CASE FailRound  BY <1>17 DEF FailRound
<1>18. CASE StepFinished  BY <1>18 DEF StepFinished, EndStoppedRun
<1>19. CASE FinishedSignal  BY <1>19 DEF FinishedSignal, TakeInterruptNotice
<1>20. CASE StepInterrupted  BY <1>20 DEF StepInterrupted, EndStoppedRun
<1>21. CASE RoundFailed  BY <1>21 DEF RoundFailed, EndStoppedRun, CommitFailedStep, Write, Refused
<1>22. CASE ResetModel  BY <1>22 DEF ResetModel
<1>23. CASE ResetTool  BY <1>23 DEF ResetTool
<1>24. CASE RecordInterruptNotice  BY <1>24 DEF RecordInterruptNotice, Write, Refused
<1>25. CASE ConsumePendingUserTurns  BY <1>25 DEF ConsumePendingUserTurns, Write, Refused
<1>26. CASE AppendToolCall  BY <1>26 DEF AppendToolCall, Write, Refused
<1>27. CASE DispatchTool  BY <1>27 DEF DispatchTool
<1>28. CASE CommitToolResult  BY <1>28 DEF CommitToolResult, Write, Refused
<1>29. CASE ToolPathFailed  BY <1>29 DEF ToolPathFailed
<1>30. CASE BatchEnd  BY <1>30 DEF BatchEnd, EndStoppedRun
<1>31. CASE BatchSignal  BY <1>31 DEF BatchSignal, TakeInterruptNotice
<1>32. CASE RecordStopNotice  BY <1>32 DEF RecordStopNotice, Write, Refused
<1>33. CASE FinishRun  BY <1>33 DEF FinishRun, Outcome, SetStatus, Refused
<1>34. CASE FailActiveRun  BY <1>34 DEF FailActiveRun, SetStatus, Refused
<1>35. CASE Deregister  BY <1>35 DEF Deregister
<1>36. CASE Commands  BY <1>36, CommandsKeep
<1>37. CASE UNCHANGED vars  BY <1>37 DEF vars
<1>38. QED
  BY <1>1, <1>2, <1>3, <1>4, <1>5, <1>6, <1>7, <1>8, <1>9, <1>10, <1>11, <1>12, <1>13, <1>14,
     <1>15, <1>16, <1>17, <1>18, <1>19, <1>20, <1>21, <1>22, <1>23, <1>24, <1>25, <1>26, <1>27,
     <1>28, <1>29, <1>30, <1>31, <1>32, <1>33, <1>34, <1>35, <1>36, <1>37
     DEF Next, Admission, Executor, StopRequest, Commands

-----------------------------------------------------------------------------
(* The rows are those RunTranscript promises.                              *)

\* Which row may follow the last one.
Follows(kind) ==
  \/ kind \in {"assistant", "thought", "cut"} /\ LastRow \in Turns
  \/ kind = "call" /\ LastRow \notin {"call", "stop", "cut"}
  \/ kind = "result" /\ LastRow = "call"
  \/ kind \in {"notice", "stop"} /\ LastRow \notin {"call", "stop"}

\* A row that may follow is one action of the promise.
LEMMA RowPromised ==
  ASSUME TypeOK, NEW kind, Active, Follows(kind), log' = log \o <<kind>>, status' = status
  PROVE  Transcript!Next
<1>1. log' = Append(log, kind)
  BY DEF TypeOK
<1>2. Transcript!Last = LastRow /\ Transcript!Active
  BY DEF Transcript!Last, LastRow, Transcript!Active, Active, ActiveStatus
<1>3. CASE kind \in {"assistant", "thought", "cut"} /\ LastRow \in Turns
  BY <1>1, <1>2, <1>3 DEF Transcript!Step, Transcript!Open, Transcript!Next, Turns
<1>4. CASE kind = "call" /\ LastRow \notin {"call", "stop", "cut"}
  BY <1>1, <1>2, <1>4 DEF Transcript!Call, Transcript!Open, Transcript!Next
<1>5. CASE kind = "result" /\ LastRow = "call"
  BY <1>1, <1>2, <1>5 DEF Transcript!Result, Transcript!Next
<1>6. CASE kind = "notice" /\ LastRow \notin {"call", "stop"}
  BY <1>1, <1>2, <1>6 DEF Transcript!Notice, Transcript!Open, Transcript!Next
<1>7. CASE kind = "stop" /\ LastRow \notin {"call", "stop"}
  BY <1>1, <1>2, <1>7 DEF Transcript!Stop, Transcript!Open, Transcript!Next
<1>8. QED
  BY <1>3, <1>4, <1>5, <1>6, <1>7 DEF Follows

\* Turns join between two steps of the model.
LEMMA JoinPromised ==
  ASSUME TypeOK, Active, LastRow \notin {"call", "stop", "cut"},
         log' = log \o [i \in 1 .. queue |-> "user"], status' = status
  PROVE  Transcript!Next
<1> DEFINE users == [i \in 1 .. queue |-> "user"]
<1>1. log \in Seq(RowKind) /\ users \in Seq(RowKind) /\ queue \in Nat /\ Len(users) = queue
  BY DEF TypeOK, RowKind
<1>2. Len(log') - Len(log) = queue
  BY <1>1
<1>3. Transcript!Last = LastRow /\ Transcript!Active
  BY DEF Transcript!Last, LastRow, Transcript!Active, Active, ActiveStatus
<1>4. QED
  BY <1>2, <1>3 DEF Transcript!Join, Transcript!Open, Transcript!Next

\* A run begins once, completes only behind an answer, and may always be given up.
LEMMA StatusPromised ==
  ASSUME log' = log,
         \/ status = "starting" /\ status' = "running"
         \/ /\ status = "running" /\ status' = "completed"
            /\ LastRow \notin {"call", "cut", "stop"}
         \/ Active /\ status' \in {"failed", "interrupted"}
  PROVE  Transcript!Next
<1>1. Transcript!Last = LastRow /\ (Transcript!Active <=> Active)
  BY DEF Transcript!Last, LastRow, Transcript!Active, Active, ActiveStatus
<1>2. QED
  BY <1>1 DEF Transcript!Begin, Transcript!Complete, Transcript!GiveUp, Transcript!Next

\* Every step adds a row that may follow, changes the status as promised, or is
\* invisible in the transcript.
LEMMA TranscriptStep ==
  ASSUME TypeOK, ProgressInv, BoundaryInv, LastRowInv, [Next]_vars
  PROVE  Transcript!Next \/ (status' = status /\ log' = log)
<1> USE RowPromised, JoinPromised, StatusPromised DEF Goto, Active, Signalled, ActiveStatus,
      TerminalStatus, ledger, inbox, signals, step, memory, flow, host, TypeOK, ProgressInv,
      LastRowInv, NotRunning, Asking, Turns
<1>1. CASE Admit  BY <1>1 DEF Admit
<1>2. CASE FailUnadmittedStartingRun  BY <1>2 DEF FailUnadmittedStartingRun
<1>3. CASE Begin  BY <1>3 DEF Begin, Refused
<1>4. CASE TransitionRun  BY <1>4 DEF TransitionRun, SetStatus, Refused
<1>5. CASE StartAttempt  BY <1>5 DEF StartAttempt
<1>6. CASE RetryOrFail
  <2>1. CASE Write(<<"assistant">>)
    <3>1. Follows("assistant") /\ Active /\ log' = log \o <<"assistant">> /\ status' = status
      BY <1>6, <2>1 DEF RetryOrFail, Write, Follows, CommitFailedStep
    <3>2. QED  BY ONLY TypeOK, <3>1, RowPromised
  <2>2. CASE log' = log /\ status' = status
    BY <2>2
  <2>3. QED
    BY <1>6, <2>1, <2>2 DEF RetryOrFail, Refused, CommitFailedStep
<1>7. CASE WaitForRetry  BY <1>7 DEF WaitForRetry, TakeInterruptNotice
<1>8. CASE RetryDelay  BY <1>8 DEF RetryDelay, TakeInterruptNotice
<1>9. CASE StartRound  BY <1>9 DEF StartRound, EndStoppedRun
<1>10. CASE ObserveSignal
  <2>1. ASSUME NEW kind \in {"assistant", "thought", "cut"}, Write(<<kind>>)
        PROVE  Transcript!Next
    <3>1. Follows(kind) /\ Active /\ log' = log \o <<kind>> /\ status' = status
      BY <1>10, <2>1 DEF ObserveSignal, Write, Follows, CommitInterruptedStep, CommitStep
    <3>2. QED  BY ONLY TypeOK, <3>1, RowPromised
  <2>2. CASE log' = log /\ status' = status
    BY <2>2
  <2>3. StepRow(TRUE) \in {"assistant", "thought", "cut"}
    BY DEF StepRow
  <2>4. QED
    BY <1>10, <2>1, <2>2, <2>3 DEF ObserveSignal, Refused, CommitInterruptedStep, CommitStep
<1>11. CASE CancelStream
  <2>1. ASSUME NEW kind \in {"assistant", "thought", "cut"}, Write(<<kind>>)
        PROVE  Transcript!Next
    <3>1. Follows(kind) /\ Active /\ log' = log \o <<kind>> /\ status' = status
      BY <1>11, <2>1 DEF CancelStream, Write, Follows, CommitInterruptedStep, CommitStep
    <3>2. QED  BY ONLY TypeOK, <3>1, RowPromised
  <2>2. CASE log' = log /\ status' = status
    BY <2>2
  <2>3. StepRow(TRUE) \in {"assistant", "thought", "cut"}
    BY DEF StepRow
  <2>4. QED
    BY <1>11, <2>1, <2>2, <2>3 DEF CancelStream, Refused, CommitInterruptedStep, CommitStep
<1>12. CASE TextDelta  BY <1>12 DEF TextDelta
<1>13. CASE ReasoningDelta  BY <1>13 DEF ReasoningDelta
<1>14. CASE ToolCall  BY <1>14 DEF ToolCall
<1>15. CASE FinishRound
  <2>1. ASSUME NEW kind \in {"assistant", "thought", "cut"}, Write(<<kind>>)
        PROVE  Transcript!Next
    <3>1. Follows(kind) /\ Active /\ log' = log \o <<kind>> /\ status' = status
      BY <1>15, <2>1 DEF FinishRound, Write, Follows, CommitStep
    <3>2. QED  BY ONLY TypeOK, <3>1, RowPromised
  <2>2. CASE log' = log /\ status' = status
    BY <2>2
  <2>3. StepRow(FALSE) \in {"assistant", "thought", "cut"}
    BY DEF StepRow
  <2>4. QED
    BY <1>15, <2>1, <2>2, <2>3 DEF FinishRound, Refused, CommitStep
<1>16. CASE CloseToolRound
  <2>1. ASSUME NEW kind \in {"assistant", "thought", "cut"}, Write(<<kind>>)
        PROVE  Transcript!Next
    <3>1. Follows(kind) /\ Active /\ log' = log \o <<kind>> /\ status' = status
      BY <1>16, <2>1 DEF CloseToolRound, Write, Follows, CommitStep
    <3>2. QED  BY ONLY TypeOK, <3>1, RowPromised
  <2>2. CASE log' = log /\ status' = status
    BY <2>2
  <2>3. StepRow(FALSE) \in {"assistant", "thought", "cut"}
    BY DEF StepRow
  <2>4. QED
    BY <1>16, <2>1, <2>2, <2>3 DEF CloseToolRound, Refused, CommitStep
<1>17. CASE FailRound  BY <1>17 DEF FailRound
<1>18. CASE StepFinished  BY <1>18 DEF StepFinished, EndStoppedRun
<1>19. CASE FinishedSignal  BY <1>19 DEF FinishedSignal, TakeInterruptNotice
<1>20. CASE StepInterrupted  BY <1>20 DEF StepInterrupted, EndStoppedRun
<1>21. CASE RoundFailed
  <2>1. CASE Write(<<"assistant">>)
    <3>1. Follows("assistant") /\ Active /\ log' = log \o <<"assistant">> /\ status' = status
      BY <1>21, <2>1 DEF RoundFailed, Write, Follows, CommitFailedStep, EndStoppedRun
    <3>2. QED  BY ONLY TypeOK, <3>1, RowPromised
  <2>2. CASE log' = log /\ status' = status
    BY <2>2
  <2>3. QED
    BY <1>21, <2>1, <2>2 DEF RoundFailed, Refused, CommitFailedStep, EndStoppedRun
<1>22. CASE ResetModel  BY <1>22 DEF ResetModel
<1>23. CASE ResetTool  BY <1>23 DEF ResetTool
<1>24. CASE RecordInterruptNotice
  <2>1. CASE Write(<<"notice">>)
    <3>1. Follows("notice") /\ Active /\ log' = log \o <<"notice">> /\ status' = status
      BY <1>24, <2>1 DEF RecordInterruptNotice, Write, Follows
    <3>2. QED  BY ONLY TypeOK, <3>1, RowPromised
  <2>2. CASE log' = log /\ status' = status
    BY <2>2
  <2>3. QED
    BY <1>24, <2>1, <2>2 DEF RecordInterruptNotice, Refused
<1>25. CASE ConsumePendingUserTurns  BY <1>25 DEF ConsumePendingUserTurns, Write, Refused
<1>26. CASE AppendToolCall
  <2>1. CASE Write(<<"call">>)
    <3>1. Follows("call") /\ Active /\ log' = log \o <<"call">> /\ status' = status
      BY <1>26, <2>1 DEF AppendToolCall, Write, Follows
    <3>2. QED  BY ONLY TypeOK, <3>1, RowPromised
  <2>2. CASE log' = log /\ status' = status
    BY <2>2
  <2>3. QED
    BY <1>26, <2>1, <2>2 DEF AppendToolCall, Refused
<1>27. CASE DispatchTool  BY <1>27 DEF DispatchTool
<1>28. CASE CommitToolResult
  <2>1. CASE Write(<<"result">>)
    <3>1. Follows("result") /\ Active /\ log' = log \o <<"result">> /\ status' = status
      BY <1>28, <2>1 DEF CommitToolResult, Write, Follows
    <3>2. QED  BY ONLY TypeOK, <3>1, RowPromised
  <2>2. CASE log' = log /\ status' = status
    BY <2>2
  <2>3. QED
    BY <1>28, <2>1, <2>2 DEF CommitToolResult, Refused
<1>29. CASE ToolPathFailed  BY <1>29 DEF ToolPathFailed
<1>30. CASE BatchEnd  BY <1>30 DEF BatchEnd, EndStoppedRun
<1>31. CASE BatchSignal  BY <1>31 DEF BatchSignal, TakeInterruptNotice
<1>32. CASE RecordStopNotice
  <2>1. CASE Write(<<"stop">>)
    <3>1. Follows("stop") /\ Active /\ log' = log \o <<"stop">> /\ status' = status
      BY <1>32, <2>1 DEF RecordStopNotice, Write, Follows
    <3>2. QED  BY ONLY TypeOK, <3>1, RowPromised
  <2>2. CASE log' = log /\ status' = status
    BY <2>2
  <2>3. QED
    BY <1>32, <2>1, <2>2 DEF RecordStopNotice, Refused
<1>33. CASE FinishRun  BY <1>33 DEF FinishRun, Outcome, SetStatus, Refused
<1>34. CASE FailActiveRun  BY <1>34 DEF FailActiveRun, SetStatus, Refused
<1>35. CASE Deregister  BY <1>35 DEF Deregister
<1>36. CASE Commands  BY <1>36, CommandsKeep
<1>37. CASE UNCHANGED vars  BY <1>37 DEF vars
<1>38. QED
  BY <1>1, <1>2, <1>3, <1>4, <1>5, <1>6, <1>7, <1>8, <1>9, <1>10, <1>11, <1>12, <1>13, <1>14,
     <1>15, <1>16, <1>17, <1>18, <1>19, <1>20, <1>21, <1>22, <1>23, <1>24, <1>25, <1>26, <1>27,
     <1>28, <1>29, <1>30, <1>31, <1>32, <1>33, <1>34, <1>35, <1>36, <1>37
     DEF Next, Admission, Executor, StopRequest, Commands

-----------------------------------------------------------------------------
(* What the requests carry.                                                *)

\* The additions a retried attempt starts from are what joined the transcript, and
\* the request carries them wherever an attempt is under way.
JoinInv ==
  /\ extra \in Seq(Joined)
  /\ Within(log, Joined) = <<"user">> \o extra
  /\ pc # "attempt" => Within(live, Joined) = extra

\* The rows a step commits of its own, which no other attempt starts from.
Own == {"assistant", "thought", "cut", "call", "result", "stop"}

\* The shapes of a step: it adds rows of its own, a notice, or the pending turns.
OwnRows ==
  /\ extra' = extra
  /\ log' = log \/ \E kind \in Own : log' = log \o <<kind>>
  /\ live' = live \/ \E kind \in {"calls", "result"} : live' = Append(live, kind)
  /\ pc = "attempt" => pc' = "attempt"

NoticeRow ==
  /\ pc = "notice"
  /\ log' = log \o <<"notice">> /\ extra' = Append(extra, "notice")
  /\ \/ live' = Append(live, "notice")
     \/ live' = live /\ pc' = "attempt"

UserRows ==
  LET users == [i \in 1 .. queue |-> "user"]
  IN  /\ pc # "attempt"
      /\ log' = log \o users /\ extra' = extra \o users /\ live' = live \o users

RequestStarts == log' = log /\ extra' = extra /\ live' = extra

\* Every step has one of the shapes.
LEMMA RequestShapes ==
  ASSUME [Next]_vars
  PROVE  OwnRows \/ NoticeRow \/ UserRows \/ RequestStarts
<1> USE DEF Goto, Active, Signalled, ledger, inbox, signals, step, memory, flow, host, OwnRows, Own
<1>1. CASE Admission
  BY <1>1 DEF Admission, Admit, FailUnadmittedStartingRun
<1>2. CASE StartAttempt  BY <1>2 DEF StartAttempt, RequestStarts
<1>3. CASE Begin \/ TransitionRun \/ WaitForRetry \/ RetryDelay \/ StartRound
  BY <1>3 DEF Begin, TransitionRun, WaitForRetry, RetryDelay, StartRound, TakeInterruptNotice,
     EndStoppedRun, SetStatus, Refused
<1>4. CASE RetryOrFail  BY <1>4 DEF RetryOrFail, CommitFailedStep, Write, Refused
<1>5. CASE ObserveSignal
  BY <1>5 DEF ObserveSignal, CommitInterruptedStep, CommitStep, StepRow, Write, Refused
<1>6. CASE CancelStream
  BY <1>6 DEF CancelStream, CommitInterruptedStep, CommitStep, StepRow, Write, Refused
<1>7. CASE TextDelta \/ ReasoningDelta \/ ToolCall \/ FailRound
  BY <1>7 DEF TextDelta, ReasoningDelta, ToolCall, FailRound
<1>8. CASE FinishRound  BY <1>8 DEF FinishRound, CommitStep, StepRow, Write, Refused
<1>9. CASE CloseToolRound  BY <1>9 DEF CloseToolRound, CommitStep, StepRow, Write, Refused
<1>10. CASE StepFinished \/ FinishedSignal \/ StepInterrupted \/ ResetModel \/ ResetTool
  BY <1>10 DEF StepFinished, FinishedSignal, StepInterrupted, ResetModel, ResetTool,
     TakeInterruptNotice, EndStoppedRun
<1>11. CASE RoundFailed
  BY <1>11 DEF RoundFailed, EndStoppedRun, CommitFailedStep, Write, Refused
<1>12. CASE RecordInterruptNotice
  BY <1>12 DEF RecordInterruptNotice, Write, Refused, NoticeRow
<1>13. CASE ConsumePendingUserTurns
  BY <1>13 DEF ConsumePendingUserTurns, Write, Refused, UserRows
<1>14. CASE AppendToolCall \/ DispatchTool \/ ToolPathFailed \/ BatchEnd \/ BatchSignal
  BY <1>14 DEF AppendToolCall, DispatchTool, ToolPathFailed, BatchEnd, BatchSignal, Write, Refused,
     TakeInterruptNotice, EndStoppedRun
<1>15. CASE CommitToolResult  BY <1>15 DEF CommitToolResult, Write, Refused
<1>16. CASE RecordStopNotice \/ FinishRun \/ FailActiveRun \/ Deregister
  BY <1>16 DEF RecordStopNotice, FinishRun, Outcome, FailActiveRun, Deregister, Write, SetStatus,
     Refused
<1>17. CASE Commands  BY <1>17, CommandsKeep
<1>18. CASE UNCHANGED vars  BY <1>18 DEF vars
<1>19. QED
  BY <1>1, <1>2, <1>3, <1>4, <1>5, <1>6, <1>7, <1>8, <1>9, <1>10, <1>11, <1>12, <1>13, <1>14,
     <1>15, <1>16, <1>17, <1>18
     DEF Next, Executor, StopRequest, Commands

\* Each shape keeps the additions what joined, and the request with them.
LEMMA JoinStep ==
  ASSUME TypeOK, JoinInv, [Next]_vars
  PROVE  JoinInv'
<1> DEFINE users == [i \in 1 .. queue |-> "user"]
           M == RowKind \cup {"calls"}
<1>1. /\ log \in Seq(RowKind) /\ live \in Seq(M) /\ extra \in Seq(Joined) /\ queue \in Nat
      /\ "user" \in Joined /\ "notice" \in Joined /\ Joined \subseteq RowKind /\ RowKind \subseteq M
      /\ Own \subseteq RowKind /\ \A kind \in Own \cup {"calls"} : kind \notin Joined /\ kind \in M
  BY DEF TypeOK, JoinInv, Joined, RowKind, Own
<1>2. /\ extra \in Seq(RowKind) /\ extra \in Seq(M) /\ users \in Seq(Joined)
      /\ users \in Seq(RowKind) /\ users \in Seq(M)
  BY <1>1
<1> HIDE DEF M, users
<1>3. Within(extra, Joined) = extra /\ Within(users, Joined) = users
  BY <1>1, <1>2, WithinWhole
<1>4. CASE OwnRows
  <2>1. Within(log', Joined) = Within(log, Joined)
    <3>1. ASSUME NEW kind \in Own, log' = log \o <<kind>>
          PROVE  Within(log', Joined) = Within(log, Joined)
      <4>1. kind \in RowKind /\ kind \notin Joined /\ log' = Append(log, kind)
        BY <1>1, <3>1
      <4>2. QED  BY <1>1, <4>1, WithinGrows
    <3>2. QED  BY <1>4, <3>1 DEF OwnRows
  <2>2. Within(live', Joined) = Within(live, Joined)
    <3>1. ASSUME NEW kind \in {"calls", "result"}, live' = Append(live, kind)
          PROVE  Within(live', Joined) = Within(live, Joined)
      <4>1. kind \in M /\ kind \notin Joined
        BY <1>1, <3>1 DEF Own
      <4>2. QED  BY <1>1, <3>1, <4>1, WithinGrows
    <3>2. QED  BY <1>4, <3>1 DEF OwnRows
  <2>3. QED  BY <1>4, <2>1, <2>2 DEF OwnRows, JoinInv
<1>5. CASE NoticeRow
  <2>1. log' = Append(log, "notice") /\ Append(extra, "notice") \in Seq(Joined)
    BY <1>1, <1>5 DEF NoticeRow
  <2>2. Within(log', Joined) = Append(Within(log, Joined), "notice")
    BY <1>1, <2>1, WithinGrows
  <2>3. Append(<<"user">> \o extra, "notice") = <<"user">> \o Append(extra, "notice")
    BY <1>1
  <2>4. live' = Append(live, "notice") =>
          Within(live', Joined) = Append(Within(live, Joined), "notice")
    BY <1>1, WithinGrows
  <2>5. QED  BY <1>5, <2>1, <2>2, <2>3, <2>4 DEF NoticeRow, JoinInv
<1>6. CASE UserRows
  <2>1. log' = log \o users /\ extra' = extra \o users /\ live' = live \o users /\ pc # "attempt"
    BY <1>6 DEF UserRows, users
  <2>2. extra' \in Seq(Joined)
    BY <1>1, <1>2, <2>1
  <2>3. Within(log', Joined) = Within(log, Joined) \o users
    <3>1. IsConcat(log', log, users)
      BY <2>1, Zenon DEF IsConcat
    <3>2. IsConcat(Within(log', Joined), Within(log, Joined), Within(users, Joined))
      BY ONLY <1>1, <1>2, <3>1, WithinIsConcat
    <3>3. QED  BY ONLY <1>3, <3>2, Zenon DEF IsConcat
  <2>4. Within(live', Joined) = Within(live, Joined) \o users
    <3>1. IsConcat(live', live, users)
      BY <2>1, Zenon DEF IsConcat
    <3>2. IsConcat(Within(live', Joined), Within(live, Joined), Within(users, Joined))
      BY ONLY <1>1, <1>2, <3>1, WithinIsConcat
    <3>3. QED  BY ONLY <1>3, <3>2, Zenon DEF IsConcat
  <2>5. <<"user">> \in Seq(Joined)
    BY <1>1
  <2>6. (<<"user">> \o extra) \o users = <<"user">> \o (extra \o users)
    BY ONLY <1>1, <1>2, <2>5, ConcatAssociative
  <2>7. QED  BY <2>1, <2>2, <2>3, <2>4, <2>6 DEF JoinInv
<1>7. CASE RequestStarts
  BY <1>3, <1>7 DEF RequestStarts, JoinInv
<1>8. QED
  BY <1>4, <1>5, <1>6, <1>7, RequestShapes

-----------------------------------------------------------------------------
(* The theorems.                                                           *)

\* All parts together, each kept with the help of the others.
RunInv ==
  /\ Flags /\ Places /\ Rows
  /\ ProgressInv /\ BoundaryInv /\ LastRowInv /\ DurableInv /\ QueueInv /\ StreamInv
  /\ JoinInv

\* The three parts of the types are the types.
LEMMA TypeParts == TypeOK <=> Flags /\ Places /\ Rows
BY DEF TypeOK, Flags, Places, Rows

\* Every state of a run is typed and satisfies all parts.
LEMMA RunInvariant == Spec => []RunInv
<1>1. ASSUME Init PROVE RunInv
  <2>1. log = <<"user">> /\ log \in Seq(RowKind) /\ Len(log) = 1
    BY <1>1 DEF Init, RowKind
  <2>2. Flags
    BY <1>1 DEF Init, Flags
  <2>3. Places
    BY <1>1 DEF Init, Places, Place, ActiveStatus
  <2>4. Rows
    BY <1>1, <2>1 DEF Init, Rows
  <2>5. Quiet /\ LastRow \in Turns /\ log # <<>>
    BY <2>1 DEF Quiet, LastRow, Turns
  <2>6. ProgressInv /\ BoundaryInv /\ LastRowInv
    BY <1>1, <2>5 DEF Init, ProgressInv, NotRunning, BoundaryInv, LastRowInv
  <2>7. DurableInv /\ QueueInv /\ StreamInv
    BY <1>1, <2>5 DEF Init, DurableInv, QueueInv, StreamInv, StopReachesStream, InStream
  <2>8. JoinInv
    <3>1. extra = <<>> /\ live = <<>> /\ log = Append(<<>>, "user") /\ "user" \in Joined
          /\ "user" \in RowKind
      BY <1>1 DEF Init, Joined, RowKind
    <3>2. /\ Within(<<>>, Joined) = <<>>
          /\ Within(Append(<<>>, "user"), Joined) = Append(Within(<<>>, Joined), "user")
      <4>1. <<>> \in Seq(RowKind)
        OBVIOUS
      <4> DEFINE none == <<>>
      <4>2. none \in Seq(RowKind) /\ Within(none, Joined) = <<>>
        BY <4>1, WithinGrows
      <4> HIDE DEF none
      <4>3. Within(Append(none, "user"), Joined) = Append(Within(none, Joined), "user")
        BY <3>1, <4>2, WithinGrows
      <4>4. QED  BY <4>2, <4>3 DEF none
    <3>3. Append(<<>>, "user") = <<"user">> \o <<>> /\ extra \in Seq(Joined)
      BY <3>1
    <3>4. QED  BY <3>1, <3>2, <3>3 DEF JoinInv
  <2>9. QED  BY <2>2, <2>3, <2>4, <2>6, <2>7, <2>8 DEF RunInv
<1>2. ASSUME RunInv, [Next]_vars PROVE RunInv'
  <2>1. TypeOK /\ queue \in Nat
    BY <1>2, TypeParts DEF RunInv, Places
  <2>2. Flags' /\ Places' /\ Rows'
    BY <1>2, <2>1, FlagsStep, PlacesStep, RowsStep DEF RunInv
  <2>3. ProgressInv' /\ BoundaryInv' /\ LastRowInv'
    BY <1>2, <2>1, ProgressStep, BoundaryStep, LastRowStep DEF RunInv
  <2>4. DurableInv' /\ QueueInv' /\ StreamInv'
    BY <1>2, <2>1, DurableStep, QueueStep, StreamStep DEF RunInv
  <2>5. JoinInv'
    BY <1>2, <2>1, JoinStep DEF RunInv
  <2>6. QED  BY <2>2, <2>3, <2>4, <2>5 DEF RunInv
<1>3. QED
  BY <1>1, <1>2, PTL DEF Spec

\* The executor, the signals and the rows keep their types in every step.
THEOREM RunType == Spec => []TypeOK
<1>1. RunInv => TypeOK
  BY TypeParts DEF RunInv
<1>2. QED  BY <1>1, RunInvariant, PTL

\* A stream in flight always has the signal of an accepted stop, however the
\* request's steps fall between those of a boundary that clears it.
THEOREM StopReachesStreamAlways == Spec => []StopReachesStream
<1>1. RunInv => StopReachesStream
  BY DEF RunInv, StreamInv
<1>2. QED  BY <1>1, RunInvariant, PTL

\* Every request carries what joined the run since it started, in its order, for any
\* number of attempts, notices and turns.
THEOREM RequestsCarryJoinedRowsAlways == Spec => []RequestsCarryJoinedRows
<1>1. RunInv => RequestsCarryJoinedRows
  <2> SUFFICES ASSUME RunInv, InStream
               PROVE  Within(live, Joined) = Tail(Within(log, Joined))
    BY DEF RequestsCarryJoinedRows
  <2>1. extra \in Seq(Joined) /\ Within(log, Joined) = <<"user">> \o extra
        /\ Within(live, Joined) = extra
    BY DEF RunInv, JoinInv, InStream
  <2>2. \A s \in Seq(Joined) : Tail(<<"user">> \o s) = s
    OBVIOUS
  <2>3. Tail(<<"user">> \o extra) = extra
    BY ONLY <2>1, <2>2, Zenon
  <2>4. QED  BY <2>1, <2>3
<1>2. QED  BY <1>1, RunInvariant, PTL

\* A completed run answered every turn it could read, for any number of arrivals
\* and removals beside it.
THEOREM CompletionAlways == Spec => []CompletionLeavesOnlyLateTurns
<1>1. RunInv => CompletionLeavesOnlyLateTurns
  BY DEF RunInv, QueueInv, CompletionLeavesOnlyLateTurns
<1>2. QED  BY <1>1, RunInvariant, PTL

\* A retry repeats nothing the run has committed of its own, for any number of
\* attempts.
THEOREM RetryDiscardsNothingAlways == Spec => RetryDiscardsNothing
<1> DEFINE Discards == (attempt' > attempt) => \A i \in DOMAIN log : log[i] \in {"user", "notice"}
<1>1. RunInv /\ [Next]_vars => [Discards]_vars
  <2> SUFFICES ASSUME RunInv, [Next]_vars PROVE Discards
    OBVIOUS
  <2>1. TypeOK /\ DurableInv
    BY TypeParts DEF RunInv
  <2>2. QED  BY <2>1, AttemptStep DEF Quiet
<1>2. QED
  BY <1>1, RunInvariant, PTL DEF Spec, RetryDiscardsNothing

\* The rows of every run are those the abstract transcript allows.
THEOREM RunKeepsTranscript == Spec => KeepsTranscript
<1>1. Init => Transcript!Init
  BY DEF Init, Transcript!Init
<1>2. RunInv /\ [Next]_vars => [Transcript!Next]_Transcript!vars
  <2> SUFFICES ASSUME RunInv, [Next]_vars
               PROVE  Transcript!Next \/ (status' = status /\ log' = log)
    BY DEF Transcript!vars
  <2>1. TypeOK /\ ProgressInv /\ BoundaryInv /\ LastRowInv
    BY TypeParts DEF RunInv
  <2>2. QED  BY <2>1, TranscriptStep
<1>3. QED
  BY <1>1, <1>2, RunInvariant, PTL DEF Spec, KeepsTranscript, Transcript!Spec
=============================================================================
