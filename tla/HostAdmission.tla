---------------------------- MODULE HostAdmission ----------------------------
(***************************************************************************)
(* How the daemon host admits, stops and releases the runs of one session: *)
(* HostState of crates/intention-daemon/src/lib.rs and the CommandGate of  *)
(* its composition.rs.                                                     *)
(*                                                                         *)
(* Connections send commands, each on a blocking worker; every admitted    *)
(* run has an executor task.  These threads share the repository, the      *)
(* command gate and the registry lock; a step is one storage transaction   *)
(* or read, one acquisition, or one critical section nothing else can be   *)
(* seen from.  Any of the threads may schedule a run: the command that     *)
(* accepted it, a repetition of that command, and whoever ends the run     *)
(* before it.                                                              *)
(*                                                                         *)
(* The executor is reduced to its two status commits (RunExecution.tla has *)
(* the rest), and which turn a new run serves is Storage.tla's matter:     *)
(* runs are numbered in the order they start.                              *)
(***************************************************************************)
EXTENDS Naturals, FiniteSets

CONSTANTS
  Connections,  \* client connections
  Nobody,       \* the owner of a free lock
  MaxRuns,      \* bound: runs of the session
  MaxTurns,     \* bound: turns sent
  MaxReplays,   \* bound: repetitions of an accepted command
  MaxStops,     \* bound: stop requests
  MaxFaults     \* bound: reads and writes the backend refuses

ASSUME HostAdmissionAssumption ==
  /\ Nobody \notin Connections
  /\ IsFiniteSet(Connections)
  /\ MaxRuns \in Nat /\ MaxTurns \in Nat /\ MaxReplays \in Nat
  /\ MaxStops \in Nat /\ MaxFaults \in Nat
  /\ \A r \in 1 .. MaxRuns : r # Nobody /\ r \notin Connections

VARIABLES
  status,    \* the durable status of each run
  gate,      \* the thread inside the command gate
  registry,  \* the thread that holds the registry lock over several steps
  tasks,     \* the task registry: runs with a registered handle
  stopped,   \* runs whose handle carries a stop
  pc,        \* where each thread stands
  target,    \* the run each thread is scheduling or closing
  command,   \* the run each connection's command is about
  drain,     \* the shutdown's drain of the registry
  woken,     \* the drain's notification has fired
  sent, replays, stops, faults  \* how often each has happened

locks == <<gate, registry>>
threads == <<pc, target, command>>
counts == <<sent, replays, stops, faults>>
shutdown == <<drain, woken>>
vars == <<status, locks, tasks, stopped, threads, shutdown, counts>>

-----------------------------------------------------------------------------
Runs == 1 .. MaxRuns

\* The executor of a run is named by the run.
Threads == Connections \cup Runs

ActiveStatus == {"starting", "running"}
TerminalStatus == {"completed", "failed", "interrupted"}

Active(r) == status[r] \in ActiveStatus

Place == {"idle", "accept", "commit_turn", "replay", "read_turn", "release", "lock",
          "context", "register", "fail_gate", "fail_check", "fail_commit", "publish",
          "successor", "stop_lookup", "stop_gate", "stop_check", "stop_commit",
          "begin", "finish", "error_look", "error_gate", "error_commit", "deregister", "notify",
          "absent", "done"}

Goto(t, place) == pc' = [pc EXCEPT ![t] = place]

\* A thread ends what it did for a run: inside the gate the command still has
\* to leave it, an executor leaves the registry, a connection is free again.
Return(t) ==
  Goto(t, IF gate = t THEN "release" ELSE IF t \in Runs THEN "deregister" ELSE "idle")

\* The backend refuses a read or a write.
Fault == faults < MaxFaults /\ faults' = faults + 1 /\ UNCHANGED <<sent, replays, stops>>

SetStatus(r, new) == status' = [status EXCEPT ![r] = new]

Init ==
  /\ status = [r \in Runs |-> "none"]
  /\ gate = Nobody /\ registry = Nobody
  /\ tasks = {} /\ stopped = {}
  /\ pc = [t \in Threads |-> IF t \in Runs THEN "absent" ELSE "idle"]
  /\ target = [t \in Threads |-> 0]
  /\ command = [t \in Threads |-> 0]
  /\ drain = "off" /\ woken = FALSE
  /\ sent = 0 /\ replays = 0 /\ stops = 0 /\ faults = 0

-----------------------------------------------------------------------------
(* The command gate, and the turns accepted inside it.                     *)

SendUserTurn(c) ==
  /\ pc[c] = "idle"
  /\ sent < MaxTurns
  /\ sent' = sent + 1
  /\ Goto(c, "accept")
  /\ UNCHANGED <<status, locks, tasks, stopped, target, command, shutdown, replays, stops,
                 faults>>

RepeatUserTurn(c) ==
  /\ pc[c] = "idle"
  /\ replays < MaxReplays
  /\ replays' = replays + 1
  /\ \E r \in Runs : status[r] # "none" /\ command' = [command EXCEPT ![c] = r]
  /\ Goto(c, "replay")
  /\ UNCHANGED <<status, locks, tasks, stopped, target, shutdown, sent, stops, faults>>

GateWaits == {"accept", "replay", "fail_gate", "stop_gate", "error_gate"}

AfterGate == [accept |-> "commit_turn", replay |-> "read_turn",
              fail_gate |-> "fail_check", stop_gate |-> "stop_check",
              error_gate |-> "error_commit"]

EnterGate(t) ==
  /\ pc[t] \in GateWaits
  /\ gate = Nobody
  /\ gate' = t
  /\ Goto(t, AfterGate[pc[t]])
  /\ UNCHANGED <<status, registry, tasks, stopped, target, command, shutdown, counts>>

\* A session with an active run queues the turn; an idle one starts the next
\* run.
CommitTurn(c) ==
  /\ pc[c] = "commit_turn"
  /\ \/ /\ \E r \in Runs : Active(r)
        /\ command' = [command EXCEPT ![c] = 0]
        /\ UNCHANGED status
     \/ /\ \A r \in Runs : ~Active(r)
        /\ \E r \in Runs :
             /\ status[r] = "none"
             /\ \A q \in Runs : status[q] = "none" => r <= q
             /\ SetStatus(r, "starting")
             /\ command' = [command EXCEPT ![c] = r]
     \/ /\ \A r \in Runs : ~Active(r) /\ status[r] # "none"
        /\ command' = [command EXCEPT ![c] = 0]
        /\ UNCHANGED status
  /\ Goto(c, "release")
  /\ UNCHANGED <<locks, tasks, stopped, target, shutdown, counts>>

\* A repeated command reads its run back and publishes its status, still
\* inside the gate; a terminal status has its side effects again.
ReadTurn(c) ==
  /\ pc[c] = "read_turn"
  /\ target' = [target EXCEPT ![c] = command[c]]
  /\ Goto(c, IF Active(command[c]) THEN "release" ELSE "publish")
  /\ UNCHANGED <<status, locks, tasks, stopped, command, shutdown, counts>>

\* The run's opening row and status are broadcast under the registry lock, the
\* command leaves the gate and schedules the run it started, if any.
LeaveGate(c) ==
  /\ pc[c] = "release"
  /\ command[c] # 0 => registry = Nobody
  /\ gate' = Nobody
  /\ target' = [target EXCEPT ![c] = command[c]]
  /\ command' = [command EXCEPT ![c] = 0]
  /\ Goto(c, IF command[c] = 0 THEN "idle" ELSE "lock")
  /\ UNCHANGED <<status, registry, tasks, stopped, shutdown, counts>>

-----------------------------------------------------------------------------
(* schedule_if_starting and fail_unadmitted_starting_run.                  *)

\* Fault: the registry is not asked for the run.
LockRegistryUncheckedFault(t) ==
  /\ pc[t] = "lock"
  /\ registry = Nobody
  /\ Goto(t, "context")
  /\ registry' = t
  /\ UNCHANGED <<status, gate, tasks, stopped, target, command, shutdown, counts>>

LockRegistry(t) ==
  /\ pc[t] = "lock"
  /\ registry = Nobody
  /\ \/ target[t] \in tasks /\ Return(t) /\ UNCHANGED registry
     \/ target[t] \notin tasks /\ Goto(t, "context") /\ registry' = t
  /\ UNCHANGED <<status, gate, tasks, stopped, target, command, shutdown, counts>>

\* Fault: a context that cannot be read leaves the run as it is.
ReadContextFault(t) ==
  /\ pc[t] = "context"
  /\ \/ /\ status[target[t]] = "starting"
        /\ Goto(t, "register")
        /\ UNCHANGED <<registry, counts>>
     \/ /\ status[target[t]] # "starting" /\ UNCHANGED counts
        /\ registry' = Nobody /\ Return(t)
     \/ /\ status[target[t]] = "starting" /\ Fault
        /\ registry' = Nobody /\ Return(t)
  /\ UNCHANGED <<status, gate, tasks, stopped, target, command, shutdown>>

\* Under the registry lock: the workspace is resolved and the context read.
ReadContext(t) ==
  /\ pc[t] = "context"
  /\ \/ /\ status[target[t]] = "starting"
        /\ Goto(t, "register")
        /\ UNCHANGED <<registry, counts>>
     \/ /\ status[target[t]] # "starting" /\ UNCHANGED counts
        /\ registry' = Nobody /\ Goto(t, "fail_gate")
     \/ /\ status[target[t]] = "starting" /\ Fault
        /\ registry' = Nobody /\ Goto(t, "fail_gate")
  /\ UNCHANGED <<status, gate, tasks, stopped, target, command, shutdown>>

\* The handle is registered and the executor spawned.  A run admitted twice
\* reuses its name: its first task is let finish its last notification before.
Register(t) ==
  /\ pc[t] = "register"
  /\ pc[target[t]] # "notify"
  /\ tasks' = tasks \cup {target[t]}
  /\ registry' = Nobody
  /\ pc' = [pc EXCEPT
       ![t] = IF gate = t THEN "release" ELSE IF t \in Runs THEN "deregister" ELSE "idle",
       ![target[t]] = "begin"]
  /\ UNCHANGED <<status, gate, stopped, target, command, shutdown, counts>>

\* Inside the gate: only a run that still starts is failed.
CheckStarting(t) ==
  /\ pc[t] = "fail_check"
  /\ \/ status[target[t]] = "starting" /\ Goto(t, "fail_commit") /\ UNCHANGED gate
        /\ UNCHANGED counts
     \/ /\ \/ status[target[t]] # "starting" /\ UNCHANGED counts
           \/ Fault
        /\ gate' = Nobody
        /\ Goto(t, IF t \in Runs THEN "deregister" ELSE "idle")
  /\ UNCHANGED <<status, registry, tasks, stopped, target, command, shutdown>>

\* The outcome of a closing transaction inside the gate: committed and then
\* published, or refused.
Close(t, r, new) ==
  /\ gate' = Nobody
  /\ \/ Active(r) /\ SetStatus(r, new) /\ Goto(t, "publish") /\ UNCHANGED counts
     \/ /\ ~Active(r) \/ faults < MaxFaults
        /\ faults' = IF Active(r) THEN faults + 1 ELSE faults
        /\ Goto(t, IF t \in Runs THEN "deregister" ELSE "idle")
        /\ UNCHANGED <<status, sent, replays, stops>>
  /\ UNCHANGED <<registry, tasks, stopped, target, command, shutdown>>

\* Fault: the failure is recorded under a status that is not declared.
FailStartingRunFault(t) == pc[t] = "fail_commit" /\ Close(t, target[t], "unscheduled")

FailStartingRun(t) == pc[t] = "fail_commit" /\ Close(t, target[t], "failed")

-----------------------------------------------------------------------------
(* on_terminal                                                             *)

\* The terminal frame is broadcast under the registry lock.
PublishTerminal(t) ==
  /\ pc[t] = "publish"
  /\ registry = Nobody
  /\ Goto(t, "successor")
  /\ UNCHANGED <<status, locks, tasks, stopped, target, command, shutdown, counts>>

\* Whoever ended a run schedules the starting run it finds; a read that fails
\* finds none.
ScheduleSuccessor(t) ==
  /\ pc[t] = "successor"
  /\ \/ \E r \in Runs :
          /\ status[r] = "starting"
          /\ target' = [target EXCEPT ![t] = r]
          /\ Goto(t, "lock")
          /\ UNCHANGED counts
     \/ /\ \/ (\A r \in Runs : status[r] # "starting") /\ UNCHANGED counts
           \/ Fault
        /\ Return(t)
        /\ UNCHANGED target
  /\ UNCHANGED <<status, locks, tasks, stopped, command, shutdown>>

-----------------------------------------------------------------------------
(* cancel_run and stop_active_run.                                         *)

CancelRun(c) ==
  /\ pc[c] = "idle"
  /\ stops < MaxStops
  /\ stops' = stops + 1
  /\ \E r \in Runs : Active(r) /\ target' = [target EXCEPT ![c] = r]
  /\ Goto(c, "stop_lookup")
  /\ UNCHANGED <<status, locks, tasks, stopped, command, shutdown, sent, replays, faults>>

LookUpExecution(c) ==
  /\ pc[c] = "stop_lookup"
  /\ registry = Nobody
  /\ \/ /\ target[c] \in tasks
        /\ stopped' = stopped \cup {target[c]}
        /\ Goto(c, "idle")
     \/ /\ target[c] \notin tasks
        /\ Goto(c, "stop_gate")
        /\ UNCHANGED stopped
  /\ UNCHANGED <<status, locks, tasks, target, command, shutdown, counts>>

\* Fault: the early return for a finished run keeps the gate.
CheckActiveFault(c) ==
  /\ pc[c] = "stop_check"
  /\ Goto(c, IF Active(target[c]) THEN "stop_commit" ELSE "idle")
  /\ UNCHANGED <<status, locks, tasks, stopped, target, command, shutdown, counts>>

CheckActive(c) ==
  /\ pc[c] = "stop_check"
  /\ \/ Active(target[c]) /\ Goto(c, "stop_commit") /\ UNCHANGED <<gate, counts>>
     \/ /\ \/ ~Active(target[c]) /\ UNCHANGED counts
           \/ Fault
        /\ Goto(c, "idle") /\ gate' = Nobody
  /\ UNCHANGED <<status, registry, tasks, stopped, target, command, shutdown>>

StopActiveRun(c) == pc[c] = "stop_commit" /\ Close(c, target[c], "interrupted")

-----------------------------------------------------------------------------
(* The executor task of run r.                                             *)

Begin(r) ==
  /\ pc[r] = "begin"
  /\ target' = [target EXCEPT ![r] = r]
  /\ \/ status[r] = "starting" /\ SetStatus(r, "running") /\ Goto(r, "finish")
        /\ UNCHANGED counts
     \/ status[r] # "starting" /\ Goto(r, "error_look") /\ UNCHANGED <<status, counts>>
     \/ status[r] = "starting" /\ Fault /\ Goto(r, "error_look") /\ UNCHANGED status
  /\ UNCHANGED <<locks, tasks, stopped, command, shutdown>>

Finish(r) ==
  /\ pc[r] = "finish"
  /\ \/ /\ Active(r)
        /\ \E new \in TerminalStatus :
             /\ new = "interrupted" => r \in stopped
             /\ SetStatus(r, new)
        /\ Goto(r, "publish")
        /\ UNCHANGED counts
     \/ ~Active(r) /\ Goto(r, "error_look") /\ UNCHANGED <<status, counts>>
     \/ Active(r) /\ Fault /\ Goto(r, "error_look") /\ UNCHANGED status
  /\ UNCHANGED <<locks, tasks, stopped, target, command, shutdown>>

\* The error path of the spawned task: a run it sees terminal is left
\* alone, one it cannot read counts as active.
SeeActive(r) ==
  /\ pc[r] = "error_look"
  /\ \/ Active(r) /\ Goto(r, "error_gate") /\ UNCHANGED counts
     \/ ~Active(r) /\ Goto(r, "deregister") /\ UNCHANGED counts
     \/ ~Active(r) /\ Fault /\ Goto(r, "error_gate")
  /\ UNCHANGED <<status, locks, tasks, stopped, target, command, shutdown>>

\* Fault: the task ends without closing its run.
FailActiveRunFault(r) ==
  /\ pc[r] = "error_commit"
  /\ gate' = Nobody
  /\ Goto(r, "deregister")
  /\ UNCHANGED <<status, registry, tasks, stopped, target, command, shutdown, counts>>

\* Inside the gate the run is read again: one that ended meanwhile is left, and
\* its terminal status is published all the same.
FailActiveRun(r) ==
  /\ pc[r] = "error_commit"
  /\ \/ Close(r, r, "failed")
     \/ /\ ~Active(r)
        /\ gate' = Nobody
        /\ Goto(r, "publish")
        /\ UNCHANGED <<status, registry, tasks, stopped, target, command, shutdown, counts>>

Deregister(r) ==
  /\ pc[r] = "deregister"
  /\ registry = Nobody
  /\ tasks' = tasks \ {r}
  /\ Goto(r, "notify")
  /\ UNCHANGED <<status, locks, stopped, target, command, shutdown, counts>>

\* Fault: only a drain that already sleeps is woken.
NotifyDrainFault(r) ==
  /\ pc[r] = "notify"
  /\ woken' = (woken \/ drain = "asleep")
  /\ Goto(r, "done")
  /\ UNCHANGED <<status, locks, tasks, stopped, target, command, drain, counts>>

NotifyDrain(r) ==
  /\ pc[r] = "notify"
  /\ woken' = TRUE
  /\ Goto(r, "done")
  /\ UNCHANGED <<status, locks, tasks, stopped, target, command, drain, counts>>

-----------------------------------------------------------------------------
(* shutdown_executions: the drain, without the timeout that bounds it.     *)

\* The drain creates its notification before it reads the registry.
ArmDrain ==
  /\ drain \in {"off", "woken"}
  /\ drain' = "armed"
  /\ woken' = FALSE
  /\ UNCHANGED <<status, locks, tasks, stopped, threads, counts>>

ReadRegistry ==
  /\ drain = "armed"
  /\ registry = Nobody
  /\ drain' = IF tasks = {} THEN "drained" ELSE "busy"
  /\ UNCHANGED <<status, locks, tasks, stopped, threads, woken, counts>>

Sleep ==
  /\ drain = "busy"
  /\ drain' = "asleep"
  /\ UNCHANGED <<status, locks, tasks, stopped, threads, woken, counts>>

WakeDrain ==
  /\ drain = "asleep"
  /\ woken
  /\ drain' = "woken"
  /\ UNCHANGED <<status, locks, tasks, stopped, threads, woken, counts>>

-----------------------------------------------------------------------------
Schedules(t) ==
  \/ EnterGate(t) \/ LockRegistry(t) \/ ReadContext(t) \/ Register(t)
  \/ CheckStarting(t) \/ FailStartingRun(t) \/ PublishTerminal(t) \/ ScheduleSuccessor(t)

Connection(c) ==
  \/ Schedules(c) \/ CommitTurn(c) \/ ReadTurn(c) \/ LeaveGate(c)
  \/ LookUpExecution(c) \/ CheckActive(c) \/ StopActiveRun(c)

Executor(r) ==
  \/ Schedules(r) \/ Begin(r) \/ Finish(r) \/ SeeActive(r) \/ FailActiveRun(r)
  \/ Deregister(r) \/ NotifyDrain(r)

Drain == ReadRegistry \/ Sleep \/ WakeDrain \/ (drain = "woken" /\ ArmDrain)

Next ==
  \/ \E c \in Connections :
       SendUserTurn(c) \/ RepeatUserTurn(c) \/ CancelRun(c) \/ Connection(c)
  \/ \E r \in Runs : Executor(r)
  \/ ArmDrain
  \/ ReadRegistry
  \/ Sleep
  \/ WakeDrain

Spec == Init /\ [][Next]_vars

\* Every thread that can go on does, and an executor ends (RunExecution.tla).
FairSpec ==
  /\ Spec
  /\ \A c \in Connections : WF_vars(Connection(c))
  /\ \A r \in Runs : WF_vars(Executor(r))
  /\ WF_vars(Drain)

-----------------------------------------------------------------------------
TypeOK ==
  /\ status \in [Runs -> {"none"} \cup ActiveStatus \cup TerminalStatus]
  /\ gate \in Threads \cup {Nobody}
  /\ registry \in Threads \cup {Nobody}
  /\ tasks \subseteq Runs /\ stopped \subseteq Runs
  /\ pc \in [Threads -> Place]
  /\ target \in [Threads -> {0} \cup Runs]
  /\ command \in [Threads -> {0} \cup Runs]
  /\ drain \in {"off", "armed", "busy", "asleep", "woken", "drained"}
  /\ woken \in BOOLEAN
  /\ sent \in Nat /\ replays \in Nat /\ stops \in Nat /\ faults \in Nat

\* Thread t will schedule run r, or fail it.
Attends(t, r) ==
  \/ pc[t] = "release" /\ command[t] = r
  \/ /\ pc[t] \in {"lock", "context", "register", "fail_gate", "fail_check", "fail_commit"}
     /\ target[t] = r

\* A run that starts is never forgotten: it is registered, or some thread is on
\* its way to admit or to fail it, whichever scheduler returned early because
\* of another one.  A second refused operation can leave it open.
StartingRunAttended ==
  faults < 2 => \A r \in Runs :
    status[r] = "starting" => r \in tasks \/ \E t \in Threads : Attends(t, r)

\* However many threads schedule a run, its executor is never spawned while
\* another executor of the run is alive.
OneExecutorPerRun ==
  [][\A r \in Runs :
       (pc[r] # "begin" /\ pc'[r] = "begin") => pc[r] \in {"absent", "done"}]_vars

AtRest ==
  /\ \A c \in Connections : pc[c] = "idle"
  /\ \A r \in Runs : ~Active(r)
  /\ drain \in {"off", "drained"}

\* The host always comes to rest: every accepted run is admitted or failed and
\* ends, every command is answered, so no thread waits for a lock that is never
\* freed, and a shutdown that has signalled its runs sees the registry empty, so
\* no run leaves the registry without waking the drain.
HostComesToRest == ~AtRest ~> AtRest

-----------------------------------------------------------------------------
(* What the comments say of the gate and of a failed admission.            *)

\* "it is never held together with the daemon host's registry lock [...] so the
\* only ordering relations are gate -> storage and registry -> storage"
\* (CommandGate): in particular no thread waits for the gate inside the gate.
GateNeverWaitsForItself ==
  \A t \in Threads : ~(pc[t] \in GateWaits /\ gate = t)

=============================================================================
