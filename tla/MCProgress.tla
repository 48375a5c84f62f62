----------------------------- MODULE MCProgress -----------------------------
(***************************************************************************)
(* The components whose waits must end, side by side, for TLC.  A behaviour*)
(* explores one of them, named by part, whose variables are x1, x2, ...;   *)
(* those it has no use for hold Unused.                                    *)
(***************************************************************************)
EXTENDS Naturals, Sequences, FiniteSets, TLC

CONSTANTS
  c1, c2,
  Parts,   \* the components a behaviour may be of
  Unused, Clients, Daemons, Inodes, Nobody, MaxTries, Command, Repeat, Capacity,
  StreamRuns, MaxRows, MaxJoin, MaxConnections, MaxReplays, Refusals, Peers, HostRuns,
  MaxTurns, MaxStops, MaxFaults, Sessions, NoSession, FirstSession, MaxRuns,
  MaxInputs, Retained, MaxLines, MaxSignals, MaxOutput, MaxWritten, Tokens,
  Compressed, Overhead, MaxContext, Attempts

VARIABLES
  part,   \* the component explored
  x1, x2, x3, x4, x5, x6, x7, x8, x9, x10, x11, x12, x13, x14, x15, x16, x17, x18,
  x19, x20, x21, x22, x23, x24

B == INSTANCE Bootstrap WITH at <- x1, tries <- x2, link <- x3, lock <- x4,
  stage <- x5, path <- x6, seen <- x7, raced <- x8
Stream == INSTANCE SessionStream WITH MaxRuns <- StreamRuns,
  MaxFaults <- Refusals, Retry <- Repeat, rows <- x1, status <- x2,
  admitted <- x3, owed <- x4, registry <- x5, subscribed <- x6,
  watermark <- x7, asked <- x8, queue <- x9, closing <- x10, current <- x11,
  following <- x12, projection <- x13, shown <- x14, view <- x15,
  replays <- x16, faults <- x17
Host == INSTANCE HostAdmission WITH Connections <- Peers, MaxRuns <- HostRuns,
  MaxReplays <- 0, status <- x1, gate <- x2, registry <- x3, tasks <- x4,
  stopped <- x5, pc <- x6, target <- x7, command <- x8, drain <- x9,
  woken <- x10, sent <- x11, replays <- x12, stops <- x13, faults <- x14
Term == INSTANCE Terminal WITH initial <- FirstSession, runs <- x1, started <- x2,
  effects <- x3, actions <- x4, live <- x5, wire <- x6, session <- x7,
  view <- x8, stream <- x9, asked <- x10, typed <- x11, arm <- x12,
  escape <- x13, mistaken <- x14, quit <- x15, inputs <- x16
Line == INSTANCE Headless WITH rows <- x1, run <- x2, wire <- x3, closed <- x4,
  subscribed <- x5, front <- x6, stage <- x7, clock <- x8, work <- x9,
  trouble <- x10, failure <- x11, opened <- x12, held <- x13, view <- x14,
  stream <- x15, asked <- x16, reported <- x17, printed <- x18,
  unread <- x19, turn <- x20, mistaken <- x21, leaving <- x22, lines <- x23,
  signals <- x24
E == INSTANCE CommandExecution WITH pc <- x1, declared <- x2,
  cancelled <- x3, late <- x4, holds <- x5, alive <- x6, written <- x7,
  joined <- x8, kept <- x9, cut <- x10, reader <- x11, consumed <- x12,
  observed <- x13, over <- x14, cause <- x15, result <- x16
Fit == INSTANCE ContextWindow WITH Window <- Tokens, MaxMessages <- MaxContext,
  MaxAttempts <- Attempts, input <- x1, extra <- x2, messages <- x3,
  reasoning <- x4, marked <- x5, tokens <- x6, characters <- x7,
  request <- x8, unanswered <- x9, attempt <- x10, phase <- x11, next <- x12

\* The variables past the n-th, which a component of n variables leaves unused.
Past17 == <<x18, x19, x20, x21, x22, x23, x24>>
Past16 == <<x17, Past17>>
Past14 == <<x15, x16, Past16>>
Past12 == <<x13, x14, Past14>>
Past8 == <<x9, x10, x11, x12, Past12>>

Unused17 ==
  /\ x18 = Unused /\ x19 = Unused /\ x20 = Unused
  /\ x21 = Unused /\ x22 = Unused /\ x23 = Unused /\ x24 = Unused
Unused16 == x17 = Unused /\ Unused17
Unused14 == x15 = Unused /\ x16 = Unused /\ Unused16
Unused12 == x13 = Unused /\ x14 = Unused /\ Unused14
Unused8 == x9 = Unused /\ x10 = Unused /\ x11 = Unused /\ x12 = Unused /\ Unused12

vars == <<part, x1, x2, x3, x4, x5, x6, x7, x8, x9, x10, x11, x12, x13, x14, x15, x16,
  x17, x18, x19, x20, x21, x22, x23, x24>>

Init ==
  /\ part \in Parts
  /\ \/ part = "bootstrap" /\ B!Init /\ Unused8
     \/ part = "stream" /\ Stream!Init /\ Unused17
     \/ part = "host" /\ Host!Init /\ Unused14
     \/ part = "terminal" /\ Term!Init /\ Unused16
     \/ part = "headless" /\ Line!Init
     \/ part = "execution" /\ E!Init /\ Unused16
     \/ part = "context" /\ Fit!Init /\ Unused12

Next ==
  \/ part = "bootstrap" /\ B!Next /\ UNCHANGED <<part, Past8>>
  \/ part = "stream" /\ Stream!Next /\ UNCHANGED <<part, Past17>>
  \/ part = "host" /\ Host!Next /\ UNCHANGED <<part, Past14>>
  \/ part = "terminal" /\ Term!Next /\ UNCHANGED <<part, Past16>>
  \/ part = "headless" /\ Line!Next /\ UNCHANGED part
  \/ part = "execution" /\ E!Next /\ UNCHANGED <<part, Past16>>
  \/ part = "context" /\ Fit!Next /\ UNCHANGED <<part, Past12>>

Spec == Init /\ [][Next]_vars

\* The steps whose weak fairness the components state and justify.  A behaviour
\* is of one part, so weak fairness of the n-th process of every part at once is
\* weak fairness of each.  Of the stream it is stated for one run.
Step(n) ==
  \/ part = "bootstrap" /\ n \in {1, 2} /\ B!ClientStep(<<c1, c2>>[n]) /\ UNCHANGED <<part, Past8>>
  \/ /\ part = "stream"
     /\ \/ n \in 1 .. 3 /\ Stream!Publish(<<Command, Repeat, 1>>[n])
        \/ n = 4 /\ Stream!Admit(1)
        \/ n = 5 /\ Stream!Serve(1)
        \/ n = 6 /\ Stream!Receive
     /\ UNCHANGED <<part, Past17>>
  \/ /\ part = "host"
     /\ \/ n = 1 /\ Host!Connection(c1)
        \/ n = 2 /\ Host!Drain
        \/ n > 2 /\ n - 2 \in 1 .. HostRuns /\ Host!Executor(n - 2)
     /\ UNCHANGED <<part, Past14>>
  \/ part = "terminal" /\ ((n = 1 /\ Term!ClientTask) \/ (n = 2 /\ Term!Loop)) /\ UNCHANGED <<part, Past16>>
  \/ part = "headless" /\ ((n = 1 /\ Line!Driver) \/ (n = 2 /\ Line!Tick)) /\ UNCHANGED part
  \/ part = "execution" /\ ((n = 1 /\ E!Call) \/ (n = 2 /\ E!WindowRunsOut)) /\ UNCHANGED <<part, Past16>>
  \/ part = "context" /\ ((n = 1 /\ Fit!Compress) \/ (n = 2 /\ Fit!PassEnds)) /\ UNCHANGED <<part, Past12>>

FairSpec == Spec /\ \A n \in 1 .. 6 : WF_vars(Step(n))

-----------------------------------------------------------------------------
ASSUME ProgressAssumptions ==
  /\ B!BootstrapAssumption /\ Stream!SessionStreamAssumption /\ Host!HostAdmissionAssumption
  /\ Term!TerminalAssumption /\ Line!HeadlessAssumption /\ E!CommandExecutionAssumption
  /\ Fit!ContextWindowAssumption

ASSUME OneStream == MaxConnections = 1

\* The callers, followers and headless waits of the client side, and their ends.
ClientWaits ==
  \/ part = "bootstrap" /\ ~B!AllReturned
  \/ part = "stream" /\ ~Stream!CaughtUp
  \/ part = "headless" /\ Line!Overdue
ClientGoesOn ==
  \/ part = "bootstrap" /\ B!AllReturned
  \/ part = "stream" /\ Stream!CaughtUp
  \/ part = "headless" /\ Line!WaitOver

\* Every wait on the client's side ends: a caller that looks for a daemon, a
\* client behind a queue that overflowed, a headless command with a deadline, and
\* a front end whose stream ended comes to rest (connect_or_bootstrap, broadcast,
\* pump_until, apply_session_stream_ended).
ClientWaitsEnd == (ClientWaits ~> ClientGoesOn) /\ <>[](part = "terminal" => Term!AtRest)

DaemonWaits ==
  \/ part = "host" /\ ~Host!AtRest
  \/ part = "execution" /\ E!MustReturn
  \/ part = "context" /\ Fit!InPass
DaemonGoesOn ==
  \/ part = "host" /\ Host!AtRest
  \/ part = "execution" /\ E!HasReturned
  \/ part = "context" /\ ~Fit!InPass

\* Every wait on the daemon's side ends: an accepted run, a command before the
\* gate and the locks, the drain of a shutdown, a command tool that was stopped,
\* timed out or whose child is gone, and a pass of compression
\* (schedule_if_starting, shutdown_executions, PipeReaders::collect, apply).
DaemonWaitsEnd == DaemonWaits ~> DaemonGoesOn
=============================================================================
