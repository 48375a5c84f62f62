------------------------------ MODULE Headless ------------------------------
(***************************************************************************)
(* The line front ends of crates/intention-tui/src: the driver of          *)
(* headless.rs, which applies the actions of AppState and performs their   *)
(* effects one after another, the command that sends one prompt (drive),   *)
(* and the line loop of repl.rs.                                           *)
(*                                                                         *)
(* The daemon is external and has one session: its runs and rows come from *)
(* any client, a request may be refused, a subscription may close.  The    *)
(* text of the rows and the deltas between them are ProvisionalText's.     *)
(***************************************************************************)
EXTENDS Naturals, Sequences, FiniteSets, FiniteSetsExt, Selections

CONSTANTS
  Retained,    \* RETAINED_TRANSCRIPT_MESSAGES
  MaxRows,     \* bound: rows of the session
  MaxRuns,     \* bound: its runs
  MaxLines,    \* bound: prompts and session commands of the user
  MaxSignals   \* bound: SIGINTs

HeadlessAssumption ==
  Retained \in Nat \ {0} /\ {MaxRows, MaxRuns, MaxLines, MaxSignals} \subseteq Nat

VARIABLES
  rows, run,   \* the daemon: how many rows it committed, and its last run
  wire,        \* the frames on the subscription
  closed,      \* the daemon closed it
  subscribed,  \* the driver holds it
  front,       \* "command" or "repl"
  stage,       \* where the front end is
  clock,       \* the deadline of the wait
  work,        \* the actions to apply and the effects to perform
  trouble,     \* an effect of the chain failed
  failure,     \* last_failure
  opened,      \* session_id is set
  held, view, stream, asked,  \* the rows and the run, StreamStatus, reconnects_asked
  reported,    \* reported_row
  printed,     \* the rows the sink was given
  unread,      \* the rows a bounded read left out before they were reported
  turn,        \* the run of the last prompt
  mistaken,    \* a prompt was answered with the end of another run
  leaving, lines, signals

daemon == <<rows, run>>
channel == <<wire, closed>>
core == <<opened, held, view, stream, asked>>
sink == <<reported, printed>>
loop == <<front, stage, clock, leaving, lines, signals, mistaken>>
vars == <<daemon, channel, subscribed, work, trouble, failure, core, sink, unread, turn, loop>>

NoRun == [live |-> FALSE, run |-> 0]
Item(kind) == [kind |-> kind, read |-> {}, view |-> NoRun]
Read(kind, list, v) == [kind |-> kind, read |-> list, view |-> v]

Newest(list) == IF list = {} THEN 0 ELSE Max(list)
Retain(list) == {i \in list : Cardinality({j \in list : j > i}) < Retained}
Unreported == {i \in held : i > reported}
Terminal(v) == v # NoRun /\ ~v.live

Init ==
  /\ rows = 0 /\ run = NoRun /\ wire = <<>> /\ closed = FALSE /\ subscribed = FALSE
  /\ front \in {"command", "repl"} /\ stage = "launch" /\ clock = "none"
  /\ work = <<>> /\ trouble = FALSE /\ failure = FALSE
  /\ opened = FALSE /\ held = {} /\ view = NoRun /\ stream = "inactive" /\ asked = 0
  /\ reported = 0 /\ printed = <<>> /\ unread = {} /\ turn = 0 /\ mistaken = FALSE
  /\ leaving = FALSE /\ lines = 0 /\ signals = 0

-----------------------------------------------------------------------------
(* The daemon.                                                             *)

Publish(frames) == wire' = IF subscribed /\ ~closed THEN wire \o frames ELSE wire
RowFrame(i) == Read("frame", {i}, NoRun)
StatusFrame(v) == Read("frame", {}, v)

\* A prompt starts a run with its row, or waits behind the run that is live.
Opens ==
  /\ ~run.live /\ run.run < MaxRuns /\ rows < MaxRows
  /\ rows' = rows + 1 /\ run' = [live |-> TRUE, run |-> run.run + 1]
  /\ Publish(<<RowFrame(rows + 1), StatusFrame(run')>>)

Accept ==
  \/ run.live /\ turn' = run.run /\ UNCHANGED <<daemon, wire>>
  \/ Opens /\ turn' = run.run + 1

\* Another client's prompt.
RunStarts ==
  /\ Opens
  /\ UNCHANGED <<closed, subscribed, work, trouble, failure, core, sink, unread, turn, loop>>

RowCommits ==
  /\ run.live /\ rows < MaxRows /\ rows' = rows + 1
  /\ Publish(<<RowFrame(rows + 1)>>)
  /\ UNCHANGED <<run, closed, subscribed, work, trouble, failure, core, sink, unread, turn, loop>>

Ends ==
  /\ run.live /\ run' = [run EXCEPT !.live = FALSE]
  /\ Publish(<<StatusFrame(run')>>)

RunEnds ==
  /\ Ends
  /\ UNCHANGED <<rows, closed, subscribed, work, trouble, failure, core, sink, unread, turn,
                 loop>>

SubscriptionCloses ==
  /\ subscribed /\ ~closed /\ closed' = TRUE
  /\ UNCHANGED <<daemon, wire, subscribed, work, trouble, failure, core, sink, unread, turn,
                 loop>>

-----------------------------------------------------------------------------
(* Driver::apply: the effects of an action come before what is pending.    *)

Current == Head(work)
Due(kind) == work # <<>> /\ Current.kind = kind
Asks(effects) == work' = effects \o Tail(work)
Reports(action) == work' = Tail(work) \o <<action>>

\* A refused request is recorded, and reported as its own action.
Refused ==
  /\ trouble' = TRUE /\ failure' = TRUE
  /\ Reports(Item("failed"))

Performed(kind) ==
  Due(kind) /\ UNCHANGED <<closed, subscribed, core, sink, unread, loop>>

Connect ==
  /\ Performed("Connect")
  /\ \/ Reports(Item("bootstrapped")) /\ UNCHANGED <<trouble, failure>>
     \/ Refused
  /\ UNCHANGED <<daemon, wire, turn>>

ListSessions ==
  /\ Performed("ListSessions")
  /\ \/ Reports(Item("listed")) /\ UNCHANGED <<trouble, failure>>
     \/ Refused
  /\ UNCHANGED <<daemon, wire, turn>>

\* A snapshot carries the newest rows and the run that is active.
Snapshot(kind) ==
  Read(kind, Retain(1 .. rows), IF run.live THEN run ELSE NoRun)

OpenSession ==
  /\ Performed("OpenSession")
  /\ \/ Reports(Snapshot("snapshot")) /\ UNCHANGED <<trouble, failure>>
     \/ Refused
  /\ UNCHANGED <<daemon, wire, turn>>

\* CreateSession with the prompt as its first turn, or SendTurn.
SendTurn ==
  /\ Performed("CreateSession") \/ Performed("SendTurn")
  /\ \/ /\ Accept /\ UNCHANGED <<trouble, failure>>
        /\ Reports(Item(IF Current.kind = "SendTurn" THEN "accepted" ELSE "created"))
     \/ Refused /\ UNCHANGED <<daemon, wire, turn>>

CancelRun ==
  /\ Performed("CancelRun")
  /\ \/ /\ run = Current.view /\ Ends /\ Reports(Item("cancelled"))
        /\ UNCHANGED <<trouble, failure>>
     \/ Refused /\ UNCHANGED <<run, wire>>
  /\ UNCHANGED <<rows, turn>>

\* open_stream_action: a failure is recorded but is none of the chain.
Subscribe ==
  /\ Due("Subscribe")
  /\ \/ /\ subscribed' = TRUE /\ closed' = FALSE /\ wire' = <<>>
        /\ Reports(Snapshot("opened")) /\ UNCHANGED failure
     \/ /\ Reports(Item("lost")) /\ failure' = TRUE
        /\ UNCHANGED <<subscribed, channel>>
  /\ UNCHANGED <<daemon, trouble, core, sink, unread, turn, loop>>

Perform ==
  \/ Connect \/ ListSessions \/ OpenSession \/ SendTurn \/ CancelRun \/ Subscribe

-----------------------------------------------------------------------------
(* AppState::update.                                                       *)

Applied(kind) ==
  Due(kind) /\ UNCHANGED <<daemon, channel, subscribed, trouble, failure, sink, turn, loop>>

\* reconcile, and the rows it leaves out for good.
Reconcile ==
  /\ held' = Retain(held \cup Current.read)
  /\ view' = Current.view
  /\ unread' = unread \cup {i \in (reported + 1) .. Newest(held') : i \notin held'}

Bootstrapped ==
  /\ Applied("bootstrapped")
  /\ Asks(<<Item("ListSessions")>> \o IF opened THEN <<Item("OpenSession")>> ELSE <<>>)
  /\ UNCHANGED <<core, unread>>

SnapshotLoaded ==
  /\ Applied("snapshot") /\ Reconcile
  /\ opened' = TRUE /\ stream' = "inactive" /\ asked' = asked
  /\ Asks(<<Item("Subscribe")>>)

StreamOpened ==
  /\ Applied("opened") /\ Reconcile
  /\ stream' = "live" /\ Asks(<<>>)
  /\ UNCHANGED <<opened, asked>>

SessionCreated ==
  /\ Applied("created") /\ Asks(<<Item("OpenSession")>>)
  /\ UNCHANGED <<core, unread>>

TurnAccepted ==
  /\ Applied("accepted")
  /\ Asks(IF stream = "live" THEN <<>> ELSE <<Item("Subscribe")>>)
  /\ UNCHANGED <<core, unread>>

StreamLost ==
  /\ Applied("lost") /\ stream' = "lost"
  /\ Asks(IF asked > 0 THEN <<>> ELSE <<Item("Connect")>>) /\ asked' = 1
  /\ UNCHANGED <<opened, held, view, unread>>

\* A content frame of the newest row repeats it.
FrameReceived ==
  /\ Applied("frame")
  /\ IF stream # "live" THEN UNCHANGED core
     ELSE /\ held' = IF Newest(held) \in Current.read THEN held ELSE Retain(held \cup Current.read)
          /\ view' = IF Current.view = NoRun THEN view ELSE Current.view
          /\ asked' = 0 /\ UNCHANGED <<opened, stream>>
  /\ Asks(<<>>) /\ UNCHANGED unread

TurnSubmitted ==
  /\ Applied("turn")
  /\ Asks(<<Item(IF opened THEN "SendTurn" ELSE "CreateSession")>>)
  /\ UNCHANGED <<core, unread>>

CancelRequested ==
  /\ Applied("cancel")
  /\ Asks(IF stream = "live" /\ view.live THEN <<Read("CancelRun", {}, view)>> ELSE <<>>)
  /\ UNCHANGED <<core, unread>>

OtherReport ==
  /\ Applied("failed") \/ Applied("listed") \/ Applied("cancelled")
  /\ Asks(<<>>) /\ UNCHANGED <<core, unread>>

Update ==
  \/ Bootstrapped \/ SnapshotLoaded \/ StreamOpened \/ SessionCreated \/ TurnAccepted
  \/ StreamLost \/ FrameReceived \/ TurnSubmitted \/ CancelRequested \/ OtherReport
-----------------------------------------------------------------------------
(* The front ends.                                                         *)

Quiet == work = <<>>
At(s) == stage = s /\ Quiet
GoTo(s) == stage' = s /\ UNCHANGED front
Start(list) == work' = list
Unmoved == UNCHANGED <<daemon, wire, closed, unread>>
Onward == IF front = "repl" /\ ~leaving THEN "prompt" ELSE "gone"

\* Driver::reset.
Reset(named) ==
  /\ opened' = named /\ held' = {} /\ view' = NoRun /\ stream' = "inactive" /\ asked' = 0
  /\ subscribed' = FALSE /\ failure' = FALSE /\ reported' = 0 /\ printed' = <<>>

\* A session is named (show), or none is: the loop reads the daemon's state
\* (bootstrap), the command only connects.
Launch ==
  /\ At("launch")
  /\ \/ rows > 0 /\ Reset(TRUE) /\ GoTo("opening") /\ Start(<<Item("OpenSession")>>)
     \/ front = "repl" /\ Reset(FALSE) /\ GoTo("opening") /\ Start(<<Item("bootstrapped")>>)
     \/ front = "command" /\ GoTo("prompt") /\ UNCHANGED <<subscribed, core, sink, work, failure>>
  /\ trouble' = FALSE /\ Unmoved /\ UNCHANGED <<clock, leaving, lines, signals, turn, mistaken>>

\* finish_open: what the read carried is no news.  The bootstrap ignores its
\* failures.
OpenEnds ==
  /\ At("opening")
  /\ reported' = Newest(held)
  /\ GoTo(IF trouble /\ opened THEN (IF lines = 0 THEN "gone" ELSE "prompt") ELSE "prompt")
  /\ unread' = {}
  /\ UNCHANGED <<daemon, channel, subscribed, work, trouble, failure, core, printed, turn, clock,
                 leaving, lines, signals, mistaken>>

\* /session: the same read again.
ShowSession ==
  /\ At("prompt") /\ front = "repl" /\ lines < MaxLines /\ lines' = lines + 1 /\ rows > 0
  /\ Reset(TRUE) /\ GoTo("opening") /\ Start(<<Item("OpenSession")>>)
  /\ trouble' = FALSE /\ Unmoved /\ UNCHANGED <<clock, leaving, signals, turn, mistaken>>

\* send_turn; the command sends one.
Prompt ==
  /\ At("prompt") /\ lines < (IF front = "repl" THEN MaxLines ELSE 1) /\ lines' = lines + 1
  /\ failure' = FALSE /\ trouble' = FALSE /\ Start(<<Item("turn")>>) /\ GoTo("sending")
  /\ Unmoved /\ UNCHANGED <<subscribed, core, sink, clock, leaving, signals, turn, mistaken>>

\* The command's deadline, if it was given one, is armed before the turn is
\* sent; what it bounds is the wait.
Sent ==
  /\ At("sending")
  /\ GoTo(IF failure THEN Onward ELSE "pump")
  /\ clock' \in IF front = "command" THEN {"none", "armed", "passed"} ELSE {"none"}
  /\ Unmoved
  /\ UNCHANGED <<subscribed, work, trouble, failure, core, sink, leaving, lines, signals, turn,
                 mistaken>>

\* Quit, the end of the input and SIGINT leave the loop; a signal stops the run
\* first, and a run that is still projected as live is waited for.
Leave ==
  /\ At("prompt") /\ front = "repl" /\ ~leaving
  /\ leaving' = TRUE
  /\ \/ signals < MaxSignals /\ signals' = signals + 1 /\ Start(<<Item("cancel")>>)
     \/ UNCHANGED <<signals, work>>
  /\ Unmoved
  /\ UNCHANGED <<subscribed, front, stage, clock, trouble, failure, core, sink, lines, turn,
                 mistaken>>

Drain ==
  /\ At("prompt") /\ leaving
  /\ GoTo(IF view.live THEN "pump" ELSE "gone")
  /\ clock' = "none" /\ Unmoved
  /\ UNCHANGED <<subscribed, work, trouble, failure, core, sink, leaving, lines, signals, turn,
                 mistaken>>

\* The two waits of pump.
Pumping == stage \in {"pump", "grace"} /\ Quiet
Waiting == Pumping /\ Unreported = {} /\ ~Terminal(view)

\* Plausible bug: the rows are walked by their position.
ReportPendingFault ==
  /\ Pumping /\ Len(printed) < Cardinality(held)
  /\ LET row == Within([i \in 1 .. rows |-> i], held)[Len(printed) + 1]
     IN printed' = Append(printed, row) /\ reported' = row
  /\ Unmoved
  /\ UNCHANGED <<subscribed, work, trouble, failure, core, turn, loop>>

\* report_pending.
ReportPending ==
  /\ Pumping /\ Unreported # {}
  /\ printed' = printed \o Within([i \in 1 .. rows |-> i], Unreported)
  /\ reported' = Newest(held)
  /\ Unmoved
  /\ UNCHANGED <<subscribed, work, trouble, failure, core, turn, loop>>

\* What every end of the pump leaves alone.
Returned ==
  /\ clock' = "none" /\ Unmoved
  /\ UNCHANGED <<subscribed, work, trouble, failure, core, sink, leaving, lines, signals, turn>>

\* terminal_outcome of the status the state holds.
RunReported ==
  /\ Pumping /\ Unreported = {} /\ Terminal(view)
  /\ GoTo(Onward) /\ mistaken' = (mistaken \/ (~leaving /\ view.run < turn))
  /\ Returned

\* Plausible bug: the wait for the acknowledgement of the stop has no bound.
DeadlinePassesFault ==
  /\ Waiting /\ stage = "pump" /\ clock = "passed"
  /\ Start(<<Item("cancel")>>) /\ GoTo("grace") /\ clock' = "none" /\ Unmoved
  /\ UNCHANGED <<subscribed, trouble, failure, core, sink, leaving, lines, signals, turn, mistaken>>

\* next: the deadline, then a frame, then a signal.
DeadlinePasses ==
  /\ Waiting /\ stage = "pump" /\ clock = "passed"
  /\ Start(<<Item("cancel")>>) /\ GoTo("grace") /\ clock' = "armed" /\ Unmoved
  /\ UNCHANGED <<subscribed, trouble, failure, core, sink, leaving, lines, signals, turn, mistaken>>

TimedOut ==
  /\ Waiting /\ stage = "grace" /\ clock = "passed"
  /\ GoTo(Onward) /\ UNCHANGED mistaken /\ Returned

Tick ==
  /\ clock = "armed" /\ clock' = "passed"
  /\ Unmoved
  /\ UNCHANGED <<subscribed, work, trouble, failure, core, sink, front, stage, leaving, lines,
                 signals, turn, mistaken>>

Receives == Waiting /\ subscribed /\ clock # "passed"

Frame ==
  /\ Receives /\ wire # <<>>
  /\ Start(<<Head(wire)>>) /\ wire' = Tail(wire)
  /\ UNCHANGED <<daemon, closed, unread, subscribed, trouble, failure, core, sink, turn, loop>>

\* SIGINT stops the run that is observed, and the wait goes on.
Interrupted ==
  /\ Receives /\ wire = <<>> /\ signals < MaxSignals /\ signals' = signals + 1
  /\ Start(<<Item("cancel")>>)
  /\ Unmoved
  /\ UNCHANGED <<subscribed, trouble, failure, core, sink, front, stage, clock, leaving, lines,
                 turn, mistaken>>

StreamEnds ==
  /\ Receives /\ wire = <<>> /\ closed
  /\ subscribed' = FALSE /\ failure' = TRUE /\ Start(<<Item("lost")>>)
  /\ Unmoved
  /\ UNCHANGED <<trouble, core, sink, turn, loop>>

\* No subscription came back: the wait is over.
Unobserved ==
  /\ Waiting /\ ~subscribed
  /\ GoTo(Onward) /\ UNCHANGED mistaken /\ Returned

FrontEnd ==
  \/ Launch \/ OpenEnds \/ Prompt \/ Sent \/ Drain
  \/ ReportPending \/ RunReported \/ DeadlinePasses \/ TimedOut
  \/ Frame \/ StreamEnds \/ Unobserved
Driver == Perform \/ Update \/ FrontEnd
User == ShowSession \/ Leave \/ Interrupted

Next == Driver \/ User \/ Tick \/ RunStarts \/ RowCommits \/ RunEnds \/ SubscriptionCloses

Fairness == WF_vars(Driver) /\ WF_vars(Tick)
Spec == Init /\ [][Next]_vars /\ Fairness
-----------------------------------------------------------------------------
Overdue == stage = "pump" /\ clock = "passed"
WaitOver == stage \in {"prompt", "gone"}

TypeOK ==
  /\ held \subseteq 1 .. MaxRows /\ Cardinality(held) <= Retained
  /\ stage \in {"launch", "opening", "prompt", "sending", "pump", "grace", "gone"}
  /\ clock \in {"none", "armed", "passed"} /\ stream \in {"inactive", "live", "lost"}

\* Whatever the client's window drops and however often the stream is opened
\* again, the sink is given every row once and in order: between two rows it
\* was given there is only what a bounded read no longer carried.
RowsAreReportedOnce ==
  \A k \in 2 .. Len(printed) :
    /\ printed[k - 1] < printed[k]
    /\ \A i \in printed[k - 1] + 1 .. printed[k] - 1 : i \in unread

\* A command that was given a deadline comes back after it, although the daemon
\* may refuse the stop and never end the run.
DeadlineEndsTheWait == Overdue ~> WaitOver

\* "Streams the live run until it ends or the deadline passes" (Driver::pump),
\* "every line is either a command the loop performs or a turn the shared driver
\* streams through the core" (repl.rs): the end a prompt is answered with is the
\* end of its own run, or of a later one.
PromptsEndWithTheirRun == ~mistaken
==============================================================================
