------------------------- MODULE HostAdmissionProofs -------------------------
(***************************************************************************)
(* Proofs about HostAdmission: for any number of connections, runs and     *)
(* refused operations, a run has one executor at a time, and one that      *)
(* starts is attended until a second operation is refused.                 *)
(***************************************************************************)
EXTENDS HostAdmission, TLAPS

-----------------------------------------------------------------------------
\* Where a thread holds the registry lock for the run it schedules.
Admitting == {"context", "register"}

\* Where a thread is on its way to fail the run it could not admit.
Failing == {"fail_gate", "fail_check", "fail_commit"}

\* Where a thread's target is the run it schedules.
Scheduling == {"lock"} \cup Admitting \cup Failing

\* Where a run has no executor, or one that has left the registry.
Unregistered == {"absent", "notify", "done"}

\* The error path of an executor that has not closed its run.
ErrorPath == {"error_look", "error_gate", "error_commit"}

\* A live executor is registered, and while a thread admits a run it holds the
\* registry, in which the run is missing.
RegistryInv ==
  /\ \A r \in Runs : pc[r] \notin Unregistered => r \in tasks
  /\ \A t \in Threads : pc[t] \in Admitting => registry = t /\ target[t] \notin tasks

\* Threads name runs that exist, and a run that does not exist executes nowhere.
KnownInv ==
  /\ \A t \in Threads : command[t] # 0 => status[command[t]] # "none"
  /\ \A t \in Threads :
       pc[t] \in Scheduling => target[t] \in Runs /\ status[target[t]] # "none"
  /\ \A r \in Runs : status[r] = "none" => pc[r] = "absent"

\* A run that still starts where it should not has cost a refused operation:
\* one where a thread is failing it, two where its executor gives it up.
RefusalsInv ==
  /\ \A t \in Threads :
       pc[t] \in Failing /\ status[target[t]] = "starting" => faults >= 1
  /\ \A r \in Runs : status[r] = "starting" =>
       \/ pc[r] \in Unregistered \cup {"begin"}
       \/ pc[r] \in ErrorPath /\ faults >= 1
       \/ pc[r] = "deregister" /\ faults >= 2

-----------------------------------------------------------------------------
(* Each part is kept by every step.                                        *)

\* A thread is a connection or an executor, and never both.
LEMMA ThreadKinds ==
  /\ Threads = Connections \cup Runs
  /\ \A c \in Connections : c \in Threads /\ c \notin Runs /\ c # Nobody
  /\ \A r \in Runs : r \in Threads /\ r \notin Connections /\ r # Nobody /\ r # 0
BY HostAdmissionAssumption DEF Threads, Runs

\* What a thread admits or fails is a run, so every step keeps the types.
LEMMA TypeStep ==
  ASSUME TypeOK, KnownInv, [Next]_vars
  PROVE  TypeOK'
<1> USE ThreadKinds DEF Goto, Return, Fault, SetStatus, Active, ActiveStatus, TerminalStatus,
      AfterGate, GateWaits, locks, threads, counts, shutdown
<1> USE DEF TypeOK, KnownInv, Place, Scheduling, Admitting, Failing
<1>1. ASSUME NEW c \in Connections, SendUserTurn(c) PROVE TypeOK'  BY <1>1 DEF SendUserTurn
<1>2. ASSUME NEW c \in Connections, RepeatUserTurn(c) PROVE TypeOK'  BY <1>2 DEF RepeatUserTurn
<1>3. ASSUME NEW c \in Connections, CancelRun(c) PROVE TypeOK'  BY <1>3 DEF CancelRun
<1>4. ASSUME NEW t \in Threads, EnterGate(t) PROVE TypeOK'  BY <1>4 DEF EnterGate
<1>5. ASSUME NEW t \in Threads, LockRegistry(t) PROVE TypeOK'  BY <1>5 DEF LockRegistry
<1>6. ASSUME NEW t \in Threads, ReadContext(t) PROVE TypeOK'  BY <1>6 DEF ReadContext
<1>7. ASSUME NEW t \in Threads, Register(t) PROVE TypeOK'  BY <1>7 DEF Register
<1>8. ASSUME NEW t \in Threads, CheckStarting(t) PROVE TypeOK'  BY <1>8 DEF CheckStarting
<1>9. ASSUME NEW t \in Threads, FailStartingRun(t) PROVE TypeOK'
  BY <1>9 DEF FailStartingRun, Close
<1>10. ASSUME NEW t \in Threads, PublishTerminal(t) PROVE TypeOK'  BY <1>10 DEF PublishTerminal
<1>11. ASSUME NEW t \in Threads, ScheduleSuccessor(t) PROVE TypeOK'
  BY <1>11 DEF ScheduleSuccessor
<1>12. ASSUME NEW c \in Connections, CommitTurn(c) PROVE TypeOK'  BY <1>12 DEF CommitTurn
<1>13. ASSUME NEW c \in Connections, ReadTurn(c) PROVE TypeOK'  BY <1>13 DEF ReadTurn
<1>14. ASSUME NEW c \in Connections, LeaveGate(c) PROVE TypeOK'  BY <1>14 DEF LeaveGate
<1>15. ASSUME NEW c \in Connections, LookUpExecution(c) PROVE TypeOK'
  BY <1>15 DEF LookUpExecution
<1>16. ASSUME NEW c \in Connections, CheckActive(c) PROVE TypeOK'  BY <1>16 DEF CheckActive
<1>17. ASSUME NEW c \in Connections, StopActiveRun(c) PROVE TypeOK'
  BY <1>17 DEF StopActiveRun, Close
<1>18. ASSUME NEW r \in Runs, Begin(r) PROVE TypeOK'  BY <1>18 DEF Begin
<1>19. ASSUME NEW r \in Runs, Finish(r) PROVE TypeOK'  BY <1>19 DEF Finish
<1>20. ASSUME NEW r \in Runs, SeeActive(r) PROVE TypeOK'  BY <1>20 DEF SeeActive
<1>21. ASSUME NEW r \in Runs, FailActiveRun(r) PROVE TypeOK'  BY <1>21 DEF FailActiveRun, Close
<1>22. ASSUME NEW r \in Runs, Deregister(r) PROVE TypeOK'  BY <1>22 DEF Deregister
<1>23. ASSUME NEW r \in Runs, NotifyDrain(r) PROVE TypeOK'  BY <1>23 DEF NotifyDrain
<1>24. CASE ArmDrain \/ ReadRegistry \/ Sleep \/ WakeDrain
  BY <1>24 DEF ArmDrain, ReadRegistry, Sleep, WakeDrain
<1>25. CASE UNCHANGED vars  BY <1>25 DEF vars
<1>26. QED
  BY <1>1, <1>2, <1>3, <1>4, <1>5, <1>6, <1>7, <1>8, <1>9, <1>10, <1>11, <1>12, <1>13, <1>14,
     <1>15, <1>16, <1>17, <1>18, <1>19, <1>20, <1>21, <1>22, <1>23, <1>24, <1>25
     DEF Next, Connection, Executor, Schedules

\* A thread gets its target from the command it leaves the gate with, or from a
\* starting run it read.
LEMMA KnownStep ==
  ASSUME TypeOK, KnownInv, [Next]_vars
  PROVE  KnownInv'
<1> USE ThreadKinds DEF Goto, Return, Fault, SetStatus, Active, ActiveStatus, TerminalStatus,
      AfterGate, GateWaits, locks, threads, counts, shutdown
<1> USE DEF TypeOK, KnownInv, Place, Scheduling, Admitting, Failing
<1>1. ASSUME NEW c \in Connections, SendUserTurn(c) PROVE KnownInv'  BY <1>1 DEF SendUserTurn
<1>2. ASSUME NEW c \in Connections, RepeatUserTurn(c) PROVE KnownInv'  BY <1>2 DEF RepeatUserTurn
<1>3. ASSUME NEW c \in Connections, CancelRun(c) PROVE KnownInv'  BY <1>3 DEF CancelRun
<1>4. ASSUME NEW t \in Threads, EnterGate(t) PROVE KnownInv'  BY <1>4 DEF EnterGate
<1>5. ASSUME NEW t \in Threads, LockRegistry(t) PROVE KnownInv'  BY <1>5 DEF LockRegistry
<1>6. ASSUME NEW t \in Threads, ReadContext(t) PROVE KnownInv'  BY <1>6 DEF ReadContext
<1>7. ASSUME NEW t \in Threads, Register(t) PROVE KnownInv'  BY <1>7 DEF Register
<1>8. ASSUME NEW t \in Threads, CheckStarting(t) PROVE KnownInv'  BY <1>8 DEF CheckStarting
<1>9. ASSUME NEW t \in Threads, FailStartingRun(t) PROVE KnownInv'
  BY <1>9 DEF FailStartingRun, Close
<1>10. ASSUME NEW t \in Threads, PublishTerminal(t) PROVE KnownInv'  BY <1>10 DEF PublishTerminal
<1>11. ASSUME NEW t \in Threads, ScheduleSuccessor(t) PROVE KnownInv'
  BY <1>11 DEF ScheduleSuccessor
<1>12. ASSUME NEW c \in Connections, CommitTurn(c) PROVE KnownInv'  BY <1>12 DEF CommitTurn
<1>13. ASSUME NEW c \in Connections, ReadTurn(c) PROVE KnownInv'  BY <1>13 DEF ReadTurn
<1>14. ASSUME NEW c \in Connections, LeaveGate(c) PROVE KnownInv'  BY <1>14 DEF LeaveGate
<1>15. ASSUME NEW c \in Connections, LookUpExecution(c) PROVE KnownInv'
  BY <1>15 DEF LookUpExecution
<1>16. ASSUME NEW c \in Connections, CheckActive(c) PROVE KnownInv'  BY <1>16 DEF CheckActive
<1>17. ASSUME NEW c \in Connections, StopActiveRun(c) PROVE KnownInv'
  BY <1>17 DEF StopActiveRun, Close
<1>18. ASSUME NEW r \in Runs, Begin(r) PROVE KnownInv'  BY <1>18 DEF Begin
<1>19. ASSUME NEW r \in Runs, Finish(r) PROVE KnownInv'  BY <1>19 DEF Finish
<1>20. ASSUME NEW r \in Runs, SeeActive(r) PROVE KnownInv'  BY <1>20 DEF SeeActive
<1>21. ASSUME NEW r \in Runs, FailActiveRun(r) PROVE KnownInv'  BY <1>21 DEF FailActiveRun, Close
<1>22. ASSUME NEW r \in Runs, Deregister(r) PROVE KnownInv'  BY <1>22 DEF Deregister
<1>23. ASSUME NEW r \in Runs, NotifyDrain(r) PROVE KnownInv'  BY <1>23 DEF NotifyDrain
<1>24. CASE ArmDrain \/ ReadRegistry \/ Sleep \/ WakeDrain
  BY <1>24 DEF ArmDrain, ReadRegistry, Sleep, WakeDrain
<1>25. CASE UNCHANGED vars  BY <1>25 DEF vars
<1>26. QED
  BY <1>1, <1>2, <1>3, <1>4, <1>5, <1>6, <1>7, <1>8, <1>9, <1>10, <1>11, <1>12, <1>13, <1>14,
     <1>15, <1>16, <1>17, <1>18, <1>19, <1>20, <1>21, <1>22, <1>23, <1>24, <1>25
     DEF Next, Connection, Executor, Schedules

\* Only the holder of the registry lock adds to the registry, and a run leaves it
\* with its executor.
LEMMA RegistryStep ==
  ASSUME TypeOK, KnownInv, RegistryInv, [Next]_vars
  PROVE  RegistryInv'
<1> USE ThreadKinds DEF Goto, Return, Fault, SetStatus, Active, ActiveStatus, TerminalStatus,
      AfterGate, GateWaits, locks, threads, counts, shutdown
<1> USE DEF TypeOK, KnownInv, RegistryInv, Place, Unregistered, Scheduling, Admitting, Failing
<1>1. ASSUME NEW c \in Connections, SendUserTurn(c) PROVE RegistryInv'  BY <1>1 DEF SendUserTurn
<1>2. ASSUME NEW c \in Connections, RepeatUserTurn(c) PROVE RegistryInv'
  BY <1>2 DEF RepeatUserTurn
<1>3. ASSUME NEW c \in Connections, CancelRun(c) PROVE RegistryInv'  BY <1>3 DEF CancelRun
<1>4. ASSUME NEW t \in Threads, EnterGate(t) PROVE RegistryInv'  BY <1>4 DEF EnterGate
<1>5. ASSUME NEW t \in Threads, LockRegistry(t) PROVE RegistryInv'  BY <1>5 DEF LockRegistry
<1>6. ASSUME NEW t \in Threads, ReadContext(t) PROVE RegistryInv'  BY <1>6 DEF ReadContext
<1>7. ASSUME NEW t \in Threads, Register(t) PROVE RegistryInv'  BY <1>7 DEF Register
<1>8. ASSUME NEW t \in Threads, CheckStarting(t) PROVE RegistryInv'  BY <1>8 DEF CheckStarting
<1>9. ASSUME NEW t \in Threads, FailStartingRun(t) PROVE RegistryInv'
  BY <1>9 DEF FailStartingRun, Close
<1>10. ASSUME NEW t \in Threads, PublishTerminal(t) PROVE RegistryInv'
  BY <1>10 DEF PublishTerminal
<1>11. ASSUME NEW t \in Threads, ScheduleSuccessor(t) PROVE RegistryInv'
  BY <1>11 DEF ScheduleSuccessor
<1>12. ASSUME NEW c \in Connections, CommitTurn(c) PROVE RegistryInv'  BY <1>12 DEF CommitTurn
<1>13. ASSUME NEW c \in Connections, ReadTurn(c) PROVE RegistryInv'  BY <1>13 DEF ReadTurn
<1>14. ASSUME NEW c \in Connections, LeaveGate(c) PROVE RegistryInv'  BY <1>14 DEF LeaveGate
<1>15. ASSUME NEW c \in Connections, LookUpExecution(c) PROVE RegistryInv'
  BY <1>15 DEF LookUpExecution
<1>16. ASSUME NEW c \in Connections, CheckActive(c) PROVE RegistryInv'  BY <1>16 DEF CheckActive
<1>17. ASSUME NEW c \in Connections, StopActiveRun(c) PROVE RegistryInv'
  BY <1>17 DEF StopActiveRun, Close
<1>18. ASSUME NEW r \in Runs, Begin(r) PROVE RegistryInv'  BY <1>18 DEF Begin
<1>19. ASSUME NEW r \in Runs, Finish(r) PROVE RegistryInv'  BY <1>19 DEF Finish
<1>20. ASSUME NEW r \in Runs, SeeActive(r) PROVE RegistryInv'  BY <1>20 DEF SeeActive
<1>21. ASSUME NEW r \in Runs, FailActiveRun(r) PROVE RegistryInv'
  BY <1>21 DEF FailActiveRun, Close
<1>22. ASSUME NEW r \in Runs, Deregister(r) PROVE RegistryInv'  BY <1>22 DEF Deregister
<1>23. ASSUME NEW r \in Runs, NotifyDrain(r) PROVE RegistryInv'  BY <1>23 DEF NotifyDrain
<1>24. CASE ArmDrain \/ ReadRegistry \/ Sleep \/ WakeDrain
  BY <1>24 DEF ArmDrain, ReadRegistry, Sleep, WakeDrain
<1>25. CASE UNCHANGED vars  BY <1>25 DEF vars
<1>26. QED
  BY <1>1, <1>2, <1>3, <1>4, <1>5, <1>6, <1>7, <1>8, <1>9, <1>10, <1>11, <1>12, <1>13, <1>14,
     <1>15, <1>16, <1>17, <1>18, <1>19, <1>20, <1>21, <1>22, <1>23, <1>24, <1>25
     DEF Next, Connection, Executor, Schedules

\* A run that starts is given up only after a refused operation: once by the
\* thread that admits it, once more by the one that fails it.
LEMMA RefusalsStep ==
  ASSUME TypeOK, KnownInv, RegistryInv, RefusalsInv, [Next]_vars
  PROVE  RefusalsInv'
<1> USE ThreadKinds DEF Goto, Return, Fault, SetStatus, Active, ActiveStatus, TerminalStatus,
      AfterGate, GateWaits, locks, threads, counts, shutdown
<1> USE DEF TypeOK, KnownInv, RegistryInv, RefusalsInv, Unregistered, ErrorPath, Scheduling,
      Admitting, Failing
<1>1. ASSUME NEW c \in Connections, SendUserTurn(c) PROVE RefusalsInv'  BY <1>1 DEF SendUserTurn
<1>2. ASSUME NEW c \in Connections, RepeatUserTurn(c) PROVE RefusalsInv'
  BY <1>2 DEF RepeatUserTurn
<1>3. ASSUME NEW c \in Connections, CancelRun(c) PROVE RefusalsInv'  BY <1>3 DEF CancelRun
<1>4. ASSUME NEW t \in Threads, EnterGate(t) PROVE RefusalsInv'  BY <1>4 DEF EnterGate
<1>5. ASSUME NEW t \in Threads, LockRegistry(t) PROVE RefusalsInv'  BY <1>5 DEF LockRegistry
<1>6. ASSUME NEW t \in Threads, ReadContext(t) PROVE RefusalsInv'  BY <1>6 DEF ReadContext
<1>7. ASSUME NEW t \in Threads, Register(t) PROVE RefusalsInv'  BY <1>7 DEF Register
<1>8. ASSUME NEW t \in Threads, CheckStarting(t) PROVE RefusalsInv'  BY <1>8 DEF CheckStarting
<1>9. ASSUME NEW t \in Threads, FailStartingRun(t) PROVE RefusalsInv'
  BY <1>9 DEF FailStartingRun, Close
<1>10. ASSUME NEW t \in Threads, PublishTerminal(t) PROVE RefusalsInv'
  BY <1>10 DEF PublishTerminal
<1>11. ASSUME NEW t \in Threads, ScheduleSuccessor(t) PROVE RefusalsInv'
  BY <1>11 DEF ScheduleSuccessor
<1>12. ASSUME NEW c \in Connections, CommitTurn(c) PROVE RefusalsInv'  BY <1>12 DEF CommitTurn
<1>13. ASSUME NEW c \in Connections, ReadTurn(c) PROVE RefusalsInv'  BY <1>13 DEF ReadTurn
<1>14. ASSUME NEW c \in Connections, LeaveGate(c) PROVE RefusalsInv'  BY <1>14 DEF LeaveGate
<1>15. ASSUME NEW c \in Connections, LookUpExecution(c) PROVE RefusalsInv'
  BY <1>15 DEF LookUpExecution
<1>16. ASSUME NEW c \in Connections, CheckActive(c) PROVE RefusalsInv'  BY <1>16 DEF CheckActive
<1>17. ASSUME NEW c \in Connections, StopActiveRun(c) PROVE RefusalsInv'
  BY <1>17 DEF StopActiveRun, Close
<1>18. ASSUME NEW r \in Runs, Begin(r) PROVE RefusalsInv'  BY <1>18 DEF Begin
<1>19. ASSUME NEW r \in Runs, Finish(r) PROVE RefusalsInv'  BY <1>19 DEF Finish
<1>20. ASSUME NEW r \in Runs, SeeActive(r) PROVE RefusalsInv'  BY <1>20 DEF SeeActive
<1>21. ASSUME NEW r \in Runs, FailActiveRun(r) PROVE RefusalsInv'
  BY <1>21 DEF FailActiveRun, Close
<1>22. ASSUME NEW r \in Runs, Deregister(r) PROVE RefusalsInv'  BY <1>22 DEF Deregister
<1>23. ASSUME NEW r \in Runs, NotifyDrain(r) PROVE RefusalsInv'  BY <1>23 DEF NotifyDrain
<1>24. CASE ArmDrain \/ ReadRegistry \/ Sleep \/ WakeDrain
  BY <1>24 DEF ArmDrain, ReadRegistry, Sleep, WakeDrain
<1>25. CASE UNCHANGED vars  BY <1>25 DEF vars
<1>26. QED
  BY <1>1, <1>2, <1>3, <1>4, <1>5, <1>6, <1>7, <1>8, <1>9, <1>10, <1>11, <1>12, <1>13, <1>14,
     <1>15, <1>16, <1>17, <1>18, <1>19, <1>20, <1>21, <1>22, <1>23, <1>24, <1>25
     DEF Next, Connection, Executor, Schedules

\* A thread that turns away from a starting run leaves it in the registry, and
\* an executor leaves the registry only when its run no longer starts.
LEMMA AttendedStep ==
  ASSUME TypeOK, KnownInv, RegistryInv, RefusalsInv, StartingRunAttended, [Next]_vars
  PROVE  StartingRunAttended'
<1> USE ThreadKinds DEF Goto, Return, Fault, SetStatus, Active, ActiveStatus, TerminalStatus,
      AfterGate, GateWaits, locks, threads, counts, shutdown
<1> USE DEF TypeOK, KnownInv, RegistryInv, RefusalsInv, StartingRunAttended, Attends,
      Unregistered, ErrorPath, Scheduling, Admitting, Failing
<1>1. ASSUME NEW c \in Connections, SendUserTurn(c) PROVE StartingRunAttended'
  BY <1>1 DEF SendUserTurn
<1>2. ASSUME NEW c \in Connections, RepeatUserTurn(c) PROVE StartingRunAttended'
  BY <1>2 DEF RepeatUserTurn
<1>3. ASSUME NEW c \in Connections, CancelRun(c) PROVE StartingRunAttended'  BY <1>3 DEF CancelRun
<1>4. ASSUME NEW t \in Threads, EnterGate(t) PROVE StartingRunAttended'  BY <1>4 DEF EnterGate
<1>5. ASSUME NEW t \in Threads, LockRegistry(t) PROVE StartingRunAttended'
  BY <1>5 DEF LockRegistry
<1>6. ASSUME NEW t \in Threads, ReadContext(t) PROVE StartingRunAttended'  BY <1>6 DEF ReadContext
<1>7. ASSUME NEW t \in Threads, Register(t) PROVE StartingRunAttended'  BY <1>7 DEF Register
<1>8. ASSUME NEW t \in Threads, CheckStarting(t) PROVE StartingRunAttended'
  BY <1>8 DEF CheckStarting
<1>9. ASSUME NEW t \in Threads, FailStartingRun(t) PROVE StartingRunAttended'
  BY <1>9 DEF FailStartingRun, Close
<1>10. ASSUME NEW t \in Threads, PublishTerminal(t) PROVE StartingRunAttended'
  BY <1>10 DEF PublishTerminal
<1>11. ASSUME NEW t \in Threads, ScheduleSuccessor(t) PROVE StartingRunAttended'
  BY <1>11 DEF ScheduleSuccessor
<1>12. ASSUME NEW c \in Connections, CommitTurn(c) PROVE StartingRunAttended'
  BY <1>12 DEF CommitTurn
<1>13. ASSUME NEW c \in Connections, ReadTurn(c) PROVE StartingRunAttended'  BY <1>13 DEF ReadTurn
<1>14. ASSUME NEW c \in Connections, LeaveGate(c) PROVE StartingRunAttended'
  BY <1>14 DEF LeaveGate
<1>15. ASSUME NEW c \in Connections, LookUpExecution(c) PROVE StartingRunAttended'
  BY <1>15 DEF LookUpExecution
<1>16. ASSUME NEW c \in Connections, CheckActive(c) PROVE StartingRunAttended'
  BY <1>16 DEF CheckActive
<1>17. ASSUME NEW c \in Connections, StopActiveRun(c) PROVE StartingRunAttended'
  BY <1>17 DEF StopActiveRun, Close
<1>18. ASSUME NEW r \in Runs, Begin(r) PROVE StartingRunAttended'  BY <1>18 DEF Begin
<1>19. ASSUME NEW r \in Runs, Finish(r) PROVE StartingRunAttended'  BY <1>19 DEF Finish
<1>20. ASSUME NEW r \in Runs, SeeActive(r) PROVE StartingRunAttended'  BY <1>20 DEF SeeActive
<1>21. ASSUME NEW r \in Runs, FailActiveRun(r) PROVE StartingRunAttended'
  BY <1>21 DEF FailActiveRun, Close
<1>22. ASSUME NEW r \in Runs, Deregister(r) PROVE StartingRunAttended'  BY <1>22 DEF Deregister
<1>23. ASSUME NEW r \in Runs, NotifyDrain(r) PROVE StartingRunAttended'  BY <1>23 DEF NotifyDrain
<1>24. CASE ArmDrain \/ ReadRegistry \/ Sleep \/ WakeDrain
  BY <1>24 DEF ArmDrain, ReadRegistry, Sleep, WakeDrain
<1>25. CASE UNCHANGED vars  BY <1>25 DEF vars
<1>26. QED
  BY <1>1, <1>2, <1>3, <1>4, <1>5, <1>6, <1>7, <1>8, <1>9, <1>10, <1>11, <1>12, <1>13, <1>14,
     <1>15, <1>16, <1>17, <1>18, <1>19, <1>20, <1>21, <1>22, <1>23, <1>24, <1>25
     DEF Next, Connection, Executor, Schedules

\* Only a registration spawns an executor, and it finds the run unregistered and
\* its former task past its last notification.
LEMMA SpawnStep ==
  ASSUME TypeOK, KnownInv, RegistryInv, NEW r \in Runs,
         pc[r] # "begin", pc'[r] = "begin", [Next]_vars
  PROVE  pc[r] \in {"absent", "done"}
<1> USE ThreadKinds DEF Goto, Return, Fault, SetStatus, Active, ActiveStatus, TerminalStatus,
      AfterGate, GateWaits, locks, threads, counts, shutdown
<1> USE DEF TypeOK, RegistryInv, KnownInv, Unregistered, Place, Scheduling, Admitting, Failing
<1>1. ASSUME NEW c \in Connections, SendUserTurn(c) PROVE pc[r] \in {"absent", "done"}
  BY <1>1 DEF SendUserTurn
<1>2. ASSUME NEW c \in Connections, RepeatUserTurn(c) PROVE pc[r] \in {"absent", "done"}
  BY <1>2 DEF RepeatUserTurn
<1>3. ASSUME NEW c \in Connections, CancelRun(c) PROVE pc[r] \in {"absent", "done"}
  BY <1>3 DEF CancelRun
<1>4. ASSUME NEW t \in Threads, EnterGate(t) PROVE pc[r] \in {"absent", "done"}
  BY <1>4 DEF EnterGate
<1>5. ASSUME NEW t \in Threads, LockRegistry(t) PROVE pc[r] \in {"absent", "done"}
  BY <1>5 DEF LockRegistry
<1>6. ASSUME NEW t \in Threads, ReadContext(t) PROVE pc[r] \in {"absent", "done"}
  BY <1>6 DEF ReadContext
<1>7. ASSUME NEW t \in Threads, Register(t) PROVE pc[r] \in {"absent", "done"}
  BY <1>7 DEF Register
<1>8. ASSUME NEW t \in Threads, CheckStarting(t) PROVE pc[r] \in {"absent", "done"}
  BY <1>8 DEF CheckStarting
<1>9. ASSUME NEW t \in Threads, FailStartingRun(t) PROVE pc[r] \in {"absent", "done"}
  BY <1>9 DEF FailStartingRun, Close
<1>10. ASSUME NEW t \in Threads, PublishTerminal(t) PROVE pc[r] \in {"absent", "done"}
  BY <1>10 DEF PublishTerminal
<1>11. ASSUME NEW t \in Threads, ScheduleSuccessor(t) PROVE pc[r] \in {"absent", "done"}
  BY <1>11 DEF ScheduleSuccessor
<1>12. ASSUME NEW c \in Connections, CommitTurn(c) PROVE pc[r] \in {"absent", "done"}
  BY <1>12 DEF CommitTurn
<1>13. ASSUME NEW c \in Connections, ReadTurn(c) PROVE pc[r] \in {"absent", "done"}
  BY <1>13 DEF ReadTurn
<1>14. ASSUME NEW c \in Connections, LeaveGate(c) PROVE pc[r] \in {"absent", "done"}
  BY <1>14 DEF LeaveGate
<1>15. ASSUME NEW c \in Connections, LookUpExecution(c) PROVE pc[r] \in {"absent", "done"}
  BY <1>15 DEF LookUpExecution
<1>16. ASSUME NEW c \in Connections, CheckActive(c) PROVE pc[r] \in {"absent", "done"}
  BY <1>16 DEF CheckActive
<1>17. ASSUME NEW c \in Connections, StopActiveRun(c) PROVE pc[r] \in {"absent", "done"}
  BY <1>17 DEF StopActiveRun, Close
<1>18. ASSUME NEW q \in Runs, Begin(q) PROVE pc[r] \in {"absent", "done"}  BY <1>18 DEF Begin
<1>19. ASSUME NEW q \in Runs, Finish(q) PROVE pc[r] \in {"absent", "done"}  BY <1>19 DEF Finish
<1>20. ASSUME NEW q \in Runs, SeeActive(q) PROVE pc[r] \in {"absent", "done"}
  BY <1>20 DEF SeeActive
<1>21. ASSUME NEW q \in Runs, FailActiveRun(q) PROVE pc[r] \in {"absent", "done"}
  BY <1>21 DEF FailActiveRun, Close
<1>22. ASSUME NEW q \in Runs, Deregister(q) PROVE pc[r] \in {"absent", "done"}
  BY <1>22 DEF Deregister
<1>23. ASSUME NEW q \in Runs, NotifyDrain(q) PROVE pc[r] \in {"absent", "done"}
  BY <1>23 DEF NotifyDrain
<1>24. CASE ArmDrain \/ ReadRegistry \/ Sleep \/ WakeDrain
  BY <1>24 DEF ArmDrain, ReadRegistry, Sleep, WakeDrain
<1>25. CASE UNCHANGED vars  BY <1>25 DEF vars
<1>26. QED
  BY <1>1, <1>2, <1>3, <1>4, <1>5, <1>6, <1>7, <1>8, <1>9, <1>10, <1>11, <1>12, <1>13, <1>14,
     <1>15, <1>16, <1>17, <1>18, <1>19, <1>20, <1>21, <1>22, <1>23, <1>24, <1>25
     DEF Next, Connection, Executor, Schedules

-----------------------------------------------------------------------------
(* The theorems.                                                           *)

\* All parts together are inductive.
LEMMA HostInvariant ==
  Spec => [](TypeOK /\ KnownInv /\ RegistryInv /\ RefusalsInv /\ StartingRunAttended)
<1>1. Init => TypeOK
  <2>1. Init => pc \in [Threads -> Place]
    BY DEF Init, Place
  <2>2. Init => /\ status \in [Runs -> {"none"} \cup ActiveStatus \cup TerminalStatus]
                /\ target \in [Threads -> {0} \cup Runs] /\ command \in [Threads -> {0} \cup Runs]
    BY DEF Init
  <2>3. Init => woken \in BOOLEAN
    BY DEF Init
  <2>4. Init => sent \in Nat /\ replays \in Nat /\ stops \in Nat /\ faults \in Nat
    BY DEF Init
  <2>5. Init => /\ gate \in Threads \cup {Nobody} /\ registry \in Threads \cup {Nobody}
                /\ tasks \subseteq Runs /\ stopped \subseteq Runs
                /\ drain \in {"off", "armed", "busy", "asleep", "woken", "drained"}
    BY DEF Init
  <2>6. QED  BY <2>1, <2>2, <2>3, <2>4, <2>5 DEF TypeOK
<1>2. Init => KnownInv /\ RegistryInv
  BY ThreadKinds DEF Init, KnownInv, RegistryInv, Scheduling, Admitting, Failing, Unregistered
<1>3. Init => RefusalsInv /\ StartingRunAttended
  <2>1. Init => \A r \in Runs : status[r] # "starting"
    BY DEF Init
  <2>2. Init => \A t \in Threads : pc[t] \notin Failing
    BY DEF Init, Failing
  <2>3. QED  BY <2>1, <2>2 DEF RefusalsInv, StartingRunAttended
<1>4. /\ TypeOK /\ KnownInv /\ RegistryInv /\ RefusalsInv /\ StartingRunAttended
      /\ [Next]_vars
      => TypeOK' /\ KnownInv' /\ RegistryInv' /\ RefusalsInv' /\ StartingRunAttended'
  BY TypeStep, KnownStep, RegistryStep, RefusalsStep, AttendedStep
<1>5. QED
  BY <1>1, <1>2, <1>3, <1>4, PTL DEF Spec

\* Every variable keeps its type, whatever the threads and the backend do.
THEOREM HostType == Spec => []TypeOK
BY HostInvariant, PTL

\* A starting run is registered or some thread is on its way to admit or fail
\* it, however many schedulers returned early because of one another.
THEOREM StartingRunAttendedAlways == Spec => []StartingRunAttended
BY HostInvariant, PTL

\* The executor of a run is never spawned beside a live one, however many
\* threads schedule the run.
THEOREM OneExecutorAlways == Spec => OneExecutorPerRun
<1> DEFINE Spawns == \A r \in Runs :
      (pc[r] # "begin" /\ pc'[r] = "begin") => pc[r] \in {"absent", "done"}
<1>1. TypeOK /\ KnownInv /\ RegistryInv /\ [Next]_vars => [Spawns]_vars
  BY SpawnStep
<1>2. QED
  BY <1>1, HostInvariant, PTL DEF Spec, OneExecutorPerRun
==============================================================================
