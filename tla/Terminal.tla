------------------------------ MODULE Terminal ------------------------------
(***************************************************************************)
(* The fullscreen front end of crates/intention-tui/src: AppState::update  *)
(* (app/state.rs with sessions.rs, run.rs, ctrl_c.rs, escape.rs), the      *)
(* client task it drives through two queues (tui/driver.rs over            *)
(* client_task.rs), and the event loop between them (tui/mod.rs).          *)
(*                                                                         *)
(* The daemon is external: its runs start and end by themselves, a call    *)
(* may fail, and a subscription may be refused or close at any time.  The  *)
(* typed line is its emptiness, a run its number; the phase and the        *)
(* elapsed time of the status row, and the rows, are left out.             *)
(***************************************************************************)
EXTENDS Naturals, Sequences

CONSTANTS
  Sessions,    \* the sessions of the daemon
  NoSession,
  initial,     \* initial_session, the one the command line names
  MaxRuns,     \* bound: runs of all sessions
  MaxInputs    \* bound: gestures of the user

TerminalAssumption ==
  /\ NoSession \notin Sessions /\ initial \in Sessions \cup {NoSession}
  /\ {MaxRuns, MaxInputs} \subseteq Nat

VARIABLES
  runs, started,  \* the daemon: the last run of each session, and their count
  effects, actions,  \* the queues between the loop and the client task
  live,      \* the session of the subscription the client task holds
  wire,      \* the frames on it
  session,   \* session_id
  view,      \* session_state: whose rows it holds, and their run
  stream,    \* StreamStatus
  asked,     \* reconnects_asked
  typed,     \* the line is not empty
  arm,       \* ctrl_c_arm, and the run its notice named
  escape,    \* escape_arm
  mistaken,  \* a second press stopped a run the notice had not named
  quit, inputs

daemon == <<runs, started>>
driver == <<live, wire>>
app == <<session, view, stream, asked>>
line == <<typed, arm, escape, mistaken, quit, inputs>>
vars == <<daemon, effects, actions, driver, app, line>>

NoRun == [live |-> FALSE, run |-> 0]
View(s, run) == [session |-> s, run |-> run]
NoView == View(NoSession, NoRun)
Effect(kind, s) == [session |-> s, run |-> 0, kind |-> kind]
Action(kind, s, run) == [session |-> s, run |-> run, kind |-> kind]
Disarmed == [on |-> "none", run |-> 0]

Init ==
  /\ runs = [s \in Sessions |-> NoRun] /\ started = 0
  /\ effects = <<Effect("connect", NoSession)>> /\ actions = <<>>
  /\ live = NoSession /\ wire = <<>>
  /\ session = NoSession /\ view = NoView /\ stream = "inactive" /\ asked = 0
  /\ typed = FALSE /\ arm = Disarmed /\ escape = FALSE /\ mistaken = FALSE
  /\ quit = FALSE /\ inputs = 0

-----------------------------------------------------------------------------
(* The daemon.                                                             *)

\* The run a snapshot of the session carries.
ActiveRun(s) == IF runs[s].live THEN runs[s] ELSE NoRun

\* The frame a subscriber of the session is sent.
Publish(s, run) == wire' = IF live = s THEN Append(wire, Action("frame", s, run)) ELSE wire

Opens(s) ==
  /\ ~runs[s].live /\ started < MaxRuns
  /\ started' = started + 1
  /\ LET run == [live |-> TRUE, run |-> started + 1]
     IN runs' = [runs EXCEPT ![s] = run] /\ Publish(s, run)

RunStarts(s) ==
  Opens(s) /\ UNCHANGED <<effects, actions, live, app, line>>

RunEnds(s) ==
  /\ runs[s].live
  /\ runs' = [runs EXCEPT ![s].live = FALSE]
  /\ Publish(s, [runs[s] EXCEPT !.live = FALSE])
  /\ UNCHANGED <<started, effects, actions, live, app, line>>

-----------------------------------------------------------------------------
(* The client task: one effect or one frame at a time.                     *)

Report(action) == actions' = Append(actions, action)
Next1 == Head(effects)
Taken(kind) == effects # <<>> /\ Next1.kind = kind /\ effects' = Tail(effects)

\* A request and its answer, or its failure.
Request(kind, answered, failed) ==
  /\ Taken(kind)
  /\ Report(answered) \/ Report(failed)
  /\ UNCHANGED <<daemon, driver, app, line>>

Connect ==
  Request("connect", Action("bootstrapped", NoSession, NoRun),
          Action("bootstrap_failed", NoSession, NoRun))

ReadSession ==
  \E s \in Sessions :
    /\ effects # <<>> /\ Next1.session = s
    /\ Request("open", Action("snapshot", s, ActiveRun(s)), Action("failed", s, NoRun))

\* A new session, with its first turn or without.
CreateSession ==
  /\ Taken("create")
  /\ \/ \E s \in Sessions :
          /\ runs[s] = NoRun /\ s \notin {session, view.session}
          /\ Report(Action("created", s, NoRun))
          /\ UNCHANGED <<daemon, wire>>
     \/ \E s \in Sessions :
          /\ runs[s] = NoRun /\ s \notin {session, view.session}
          /\ Opens(s) /\ Report(Action("created", s, NoRun))
     \/ Report(Action("failed", NoSession, NoRun)) /\ UNCHANGED <<daemon, wire>>
  /\ UNCHANGED <<live, app, line>>

\* A turn starts a run, or waits behind the one that is live.
SendTurn ==
  /\ Taken("turn")
  /\ \/ Opens(Next1.session) /\ Report(Action("accepted", Next1.session, NoRun))
     \/ /\ runs[Next1.session].live /\ Report(Action("accepted", Next1.session, NoRun))
        /\ UNCHANGED <<daemon, wire>>
     \/ Report(Action("failed", NoSession, NoRun)) /\ UNCHANGED <<daemon, wire>>
  /\ UNCHANGED <<live, app, line>>

\* The stop of the live run; the daemon refuses one that is not.
CancelRun ==
  /\ Taken("cancel")
  /\ Report(Action("answered", Next1.session, NoRun))
  /\ IF runs[Next1.session] = [live |-> TRUE, run |-> Next1.run]
     THEN /\ runs' = [runs EXCEPT ![Next1.session].live = FALSE]
          /\ Publish(Next1.session, [live |-> FALSE, run |-> Next1.run])
     ELSE UNCHANGED <<runs, wire>>
  /\ UNCHANGED <<started, live, app, line>>

\* The subscription replaces the one held, or fails to open.
OpenSubscription ==
  /\ Taken("subscribe")
  /\ wire' = <<>>
  /\ LET s == Next1.session
     IN \/ live' = s /\ Report(Action("opened", s, ActiveRun(s)))
        \/ live' = NoSession /\ Report(Action("lost", s, NoRun))
  /\ UNCHANGED <<daemon, app, line>>

ReceiveFrame ==
  /\ live # NoSession /\ wire # <<>>
  /\ wire' = Tail(wire) /\ Report(Head(wire))
  /\ UNCHANGED <<daemon, effects, live, app, line>>

\* Plausible bug: a closed subscription is dropped without a report.
LoseSubscriptionFault ==
  /\ live # NoSession
  /\ live' = NoSession /\ wire' = <<>>
  /\ UNCHANGED <<daemon, effects, actions, app, line>>

LoseSubscription ==
  /\ live # NoSession
  /\ live' = NoSession /\ wire' = <<>>
  /\ Report(Action("lost", live, NoRun))
  /\ UNCHANGED <<daemon, effects, app, line>>

-----------------------------------------------------------------------------
(* AppState::update, for the reports of the client task.                   *)

Ask(list) == effects' = effects \o list
Current == Head(actions)
Reported(kind) ==
  /\ ~quit /\ actions # <<>> /\ Current.kind = kind /\ actions' = Tail(actions)
  /\ UNCHANGED <<daemon, driver, line>>

Live(s, v) == s = "live" /\ v.run.live
LiveRun == Live(stream, view)

\* merge_transcript: a read of the open session joins the rows that are held,
\* and fails when they are another session's; any other read replaces them.
Joins(s) == session = s /\ view # NoView
Merges(s) == ~Joins(s) \/ view.session = s

\* ensure_session_stream.
Resubscribe(s, status) ==
  Ask(IF s # NoSession /\ status # "live" THEN <<Effect("subscribe", s)>> ELSE <<>>)

Bootstrapped ==
  /\ Reported("bootstrapped")
  /\ LET wanted == IF session = NoSession THEN initial ELSE session
     IN Ask(IF wanted = NoSession THEN <<>> ELSE <<Effect("open", wanted)>>)
  /\ UNCHANGED app

SnapshotLoaded ==
  /\ Reported("snapshot")
  /\ \/ ~Merges(Current.session) /\ UNCHANGED <<effects, app>>
     \/ /\ Merges(Current.session)
        /\ session' = Current.session
        /\ view' = View(Current.session, Current.run)
        /\ stream' = "inactive"
        /\ Resubscribe(Current.session, "inactive")
        /\ UNCHANGED <<asked>>

SessionCreated ==
  /\ Reported("created")
  /\ Ask(<<Effect("open", Current.session)>>)
  /\ UNCHANGED app

\* Plausible bug: a subscription that opened restores the reconnect.
StreamOpenedFault ==
  /\ Reported("opened")
  /\ view' = View(Current.session, Current.run) /\ stream' = "live" /\ asked' = 0
  /\ UNCHANGED <<effects, session>>

StreamOpened ==
  /\ Reported("opened")
  /\ \/ ~Merges(Current.session) /\ UNCHANGED app
     \/ /\ Merges(Current.session)
        /\ view' = View(Current.session, Current.run) /\ stream' = "live"
        /\ UNCHANGED <<session, asked>>
  /\ UNCHANGED effects

\* One reconnect for a lost stream, until a frame is accepted again.
StreamLost ==
  /\ Reported("lost")
  /\ stream' = "lost"
  /\ IF asked > 0 THEN UNCHANGED <<effects, asked>>
     ELSE asked' = 1 /\ Ask(<<Effect("connect", NoSession)>>)
  /\ UNCHANGED <<session, view>>

FrameReceived ==
  /\ Reported("frame")
  /\ IF stream # "live" \/ view.session # Current.session THEN UNCHANGED app
     ELSE /\ view' = View(view.session, Current.run) /\ asked' = 0
          /\ UNCHANGED <<session, stream>>
  /\ UNCHANGED effects

TurnAccepted ==
  /\ Reported("accepted")
  /\ Resubscribe(session, stream)
  /\ UNCHANGED app

OtherReport ==
  /\ Reported("failed") \/ Reported("bootstrap_failed") \/ Reported("answered")
  /\ UNCHANGED <<effects, app>>

-----------------------------------------------------------------------------
(* AppState::update, for the user.  Any other gesture disarms both arms.   *)

Gesture ==
  /\ ~quit /\ inputs < MaxInputs /\ inputs' = inputs + 1
  /\ UNCHANGED <<daemon, driver, actions, app>>
Disarm == arm' = Disarmed /\ escape' = FALSE
Cancel == Ask(<<[Effect("cancel", session) EXCEPT !.run = view.run.run]>>)

Type ==
  /\ Gesture /\ Disarm /\ typed' = TRUE
  /\ UNCHANGED <<effects, mistaken, quit>>

Submit ==
  /\ Gesture /\ Disarm /\ typed /\ typed' = FALSE
  /\ Ask(<<Effect(IF session = NoSession THEN "create" ELSE "turn", session)>>)
  /\ UNCHANGED <<mistaken, quit>>

\* A row of the browser, or /new.
SelectSession(s) ==
  /\ Gesture /\ Disarm /\ Ask(<<Effect("open", s)>>)
  /\ UNCHANGED <<typed, mistaken, quit>>

NewSession ==
  /\ Gesture /\ Disarm /\ Ask(<<Effect("create", NoSession)>>)
  /\ UNCHANGED <<typed, mistaken, quit>>

CtrlC ==
  /\ Gesture /\ escape' = FALSE
  /\ \/ /\ LiveRun /\ arm.on = "stop"
        /\ Cancel /\ arm' = Disarmed
        /\ mistaken' = (mistaken \/ arm.run # view.run.run)
        /\ UNCHANGED <<typed, quit>>
     \/ /\ LiveRun /\ arm.on # "stop"
        /\ arm' = [on |-> "stop", run |-> view.run.run]
        /\ UNCHANGED <<effects, typed, mistaken, quit>>
     \/ /\ ~LiveRun /\ typed
        /\ typed' = FALSE /\ arm' = Disarmed
        /\ UNCHANGED <<effects, mistaken, quit>>
     \/ /\ ~LiveRun /\ ~typed
        /\ arm' = [on |-> IF arm.on = "exit" THEN "none" ELSE "exit", run |-> 0]
        /\ quit' = (arm.on = "exit")
        /\ UNCHANGED <<effects, typed, mistaken>>

Escape ==
  /\ Gesture /\ arm' = Disarmed
  /\ \/ LiveRun /\ Cancel /\ escape' = FALSE /\ UNCHANGED <<typed, quit>>
     \/ /\ ~LiveRun /\ typed
        /\ typed' = ~escape /\ escape' = ~escape
        /\ UNCHANGED <<effects, quit>>
     \/ ~LiveRun /\ ~typed /\ quit' = TRUE /\ escape' = FALSE /\ UNCHANGED <<effects, typed>>
  /\ UNCHANGED mistaken

ClientTask ==
  \/ Connect \/ ReadSession \/ CreateSession \/ SendTurn \/ CancelRun \/ OpenSubscription
  \/ ReceiveFrame
Loop ==
  \/ Bootstrapped \/ SnapshotLoaded \/ SessionCreated \/ StreamOpened \/ StreamLost
  \/ FrameReceived \/ TurnAccepted \/ OtherReport
User ==
  \/ Type \/ Submit \/ NewSession \/ CtrlC \/ Escape
  \/ \E s \in Sessions : SelectSession(s)

Next ==
  \/ ClientTask \/ LoseSubscription \/ Loop \/ User
  \/ \E s \in Sessions : RunStarts(s) \/ RunEnds(s)

Fairness == WF_vars(ClientTask) /\ WF_vars(Loop)
Spec == Init /\ [][Next]_vars /\ Fairness
-----------------------------------------------------------------------------
AtRest == quit \/ (effects = <<>> /\ actions = <<>>)

TypeOK ==
  /\ session \in Sessions \cup {NoSession} /\ live \in Sessions \cup {NoSession}
  /\ stream \in {"inactive", "live", "lost"} /\ asked \in 0..1
  /\ arm.on \in {"none", "stop", "exit"}

\* While the state calls the stream live, the client task holds a subscription
\* or its loss is already on the way: the user is never left watching a run
\* that nothing observes, and the stop and exit gestures stay reachable.
LiveStreamIsHeld ==
  stream = "live" /\ live = NoSession => \E i \in DOMAIN actions : actions[i].kind = "lost"

\* A daemon that refuses or closes every subscription is not asked for ever:
\* unless frames or the user give a reason, the reconnecting comes to rest.
RecoveryEnds == <>[]AtRest

\* What the front end shows once everything asked for has been answered are the
\* rows of the session it names: apply_session_stream_opened says of a reply of
\* another session that "the front end reports that failure instead of merging
\* it".
TranscriptIsOfTheSession ==
  effects = <<>> /\ actions = <<>> /\ view # NoView => view.session = session

\* CtrlCArm::Stop: "The next consecutive press stops the run the notice named."
SecondPressStopsTheNamedRun == ~mistaken
==============================================================================
