---------------------------- MODULE SessionStream ----------------------------
(***************************************************************************)
(* How the committed rows and run statuses of one session reach a client   *)
(* that follows it: the observer and the subscriber registry of            *)
(* crates/intention-daemon/src/lib.rs, and SessionStreamState of           *)
(* crates/intention-client/src/lib.rs.                                     *)
(*                                                                         *)
(* A commit and its publication are two steps.  The threads that publish   *)
(* are the command inside the command gate, the executors of the runs, and *)
(* the worker that retries a publication whose read was refused; each owes *)
(* a sequence of publications.  A connection is used for one subscription, *)
(* has a bounded queue and is registered under the registry lock, which    *)
(* every broadcast takes too.  The client reads its newest connection, and *)
(* merges what it shows with each new snapshot.                            *)
(*                                                                         *)
(* The rows are numbered as they commit.  Their content, the bounds on the *)
(* rows of a snapshot and of the client's window, and the provisional text *)
(* between the rows are left out.                                          *)
(***************************************************************************)
EXTENDS Naturals, Sequences, FiniteSets, SequencesExt

CONSTANTS
  Command,         \* the thread of the command inside the gate
  Retry,           \* the worker that repeats a publication
  Nobody,          \* the owner of a free registry lock
  Capacity,        \* messages a connection's queue holds
  MaxRuns,         \* bound: runs of the session
  MaxRows,         \* bound: rows of its transcript
  MaxJoin,         \* bound: pending turns that join a run at once
  MaxConnections,  \* bound: connections of the client
  MaxReplays,      \* bound: repetitions of an accepted command
  MaxFaults        \* bound: reads the backend refuses

ASSUME SessionStreamAssumption ==
  /\ Capacity \in Nat \ {0}
  /\ MaxRuns \in Nat /\ MaxRows \in Nat /\ MaxJoin \in Nat
  /\ MaxConnections \in Nat /\ MaxReplays \in Nat /\ MaxFaults \in Nat
  /\ Command # Retry
  /\ {Command, Retry, Nobody} \cap (1 .. MaxRuns \cup 0 .. MaxConnections) = {}

VARIABLES
  rows,       \* durable: the run of each transcript row, in commit order
  status,     \* durable: the status of each run
  admitted,   \* the runs whose executor was spawned
  owed,       \* the publications each thread still owes
  registry,   \* the connection that is being registered
  subscribed, \* the registered connections
  watermark,  \* the newest row of each connection's snapshot, until a row came
  asked,      \* the connections that asked for their subscription
  queue,      \* what each connection has still to write
  closing,    \* the connections told to close
  current,    \* the client's newest connection
  following,  \* the client reads its newest connection
  projection, \* the run projection read for the snapshot
  shown,      \* the rows the client shows
  view,       \* the run projection the client holds
  replays, faults  \* how often each has happened

durable == <<rows, status, admitted>>
host == <<registry, asked, subscribed, watermark, queue, closing, projection>>
client == <<current, following, shown, view>>
counts == <<replays, faults>>
vars == <<durable, owed, host, client, counts>>

-----------------------------------------------------------------------------
Runs == 1 .. MaxRuns
Connections == 1 .. MaxConnections
Publishers == {Command, Retry} \cup Runs

ActiveStatus == {"starting", "running"}
\* Completed, failed and interrupted are one here: a client shows them alike.
TerminalStatus == {"ended"}

NoRun == [run |-> 0, status |-> "none"]

\* A row frame, a status that must still be read, a status frame, and the
\* search for a starting successor that follows a terminal status.
RowOf(i) == [kind |-> "row", row |-> i]
ReadOf(r) == [kind |-> "read", run |-> r]
StatusOf(r, s) == [kind |-> "status", run |-> r, status |-> s]
Successor == [kind |-> "successor"]
Reply(n, p) == [kind |-> "reply", rows |-> n, projection |-> p]
Rejection == [kind |-> "rejection"]

Active(r) == status[r] \in ActiveStatus

\* The session's active run as the snapshot carries it.
ActiveRun ==
  IF \E r \in Runs : Active(r)
  THEN LET r == CHOOSE r \in Runs : Active(r) IN [run |-> r, status |-> status[r]]
  ELSE NoRun

FirstRow(r) == CHOOSE i \in DOMAIN rows :
  rows[i] = r /\ \A j \in DOMAIN rows : rows[j] = r => i <= j

Owe(t, items) == owed' = [owed EXCEPT ![t] = @ \o items]
Idle(t) == owed[t] = <<>>
Due(t) == Head(owed[t])

\* observe_session_commit for a status: a terminal one looks for a successor.
StatusCommit(r, s) ==
  IF s \in TerminalStatus THEN <<ReadOf(r), Successor>> ELSE <<ReadOf(r)>>

Init ==
  /\ rows = <<>>
  /\ status = [r \in Runs |-> "none"]
  /\ admitted = {}
  /\ owed = [t \in Publishers |-> <<>>]
  /\ registry = Nobody
  /\ asked = {} /\ subscribed = {}
  /\ watermark = [k \in Connections |-> 0]
  /\ queue = [k \in Connections |-> <<>>]
  /\ closing = {}
  /\ current = 0 /\ following = FALSE
  /\ projection = NoRun
  /\ shown = <<>> /\ view = NoRun
  /\ replays = 0 /\ faults = 0

-----------------------------------------------------------------------------
(* Commits, each with the publications it leaves to its thread.            *)

\* An idle session starts its next run with the user row that opens it.
AcceptUserTurn ==
  /\ Idle(Command)
  /\ Len(rows) < MaxRows
  /\ \A r \in Runs : ~Active(r)
  /\ \E r \in Runs :
       /\ status[r] = "none" /\ \A q \in Runs : q < r => status[q] # "none"
       /\ status' = [status EXCEPT ![r] = "starting"]
       /\ rows' = Append(rows, r)
       /\ Owe(Command, <<RowOf(Len(rows) + 1), ReadOf(r)>>)
  /\ UNCHANGED <<admitted, host, client, counts>>

\* A repeated command commits nothing and publishes what it started once more.
RepeatUserTurn(r) ==
  /\ Idle(Command)
  /\ replays < MaxReplays
  /\ status[r] # "none"
  /\ Owe(Command, <<RowOf(FirstRow(r))>> \o StatusCommit(r, status[r]))
  /\ replays' = replays + 1
  /\ UNCHANGED <<durable, host, client, faults>>

\* The command schedules its run once it has published it; a thread that ended
\* a run schedules the starting run it finds.
Admit(r) ==
  /\ status[r] = "starting"
  /\ r \notin admitted
  /\ \/ Idle(Command) /\ UNCHANGED owed
     \/ \E t \in Publishers :
          /\ ~Idle(t) /\ Due(t) = Successor
          /\ owed' = [owed EXCEPT ![t] = Tail(@)]
  /\ admitted' = admitted \cup {r}
  /\ UNCHANGED <<rows, status, host, client, counts>>

NoSuccessor(t) ==
  /\ ~Idle(t) /\ Due(t) = Successor
  /\ \A r \in Runs : status[r] = "starting" => r \in admitted
  /\ owed' = [owed EXCEPT ![t] = Tail(@)]
  /\ UNCHANGED <<durable, host, client, counts>>

Begin(r) ==
  /\ r \in admitted /\ status[r] = "starting" /\ Idle(r)
  /\ status' = [status EXCEPT ![r] = "running"]
  /\ Owe(r, <<ReadOf(r)>>)
  /\ UNCHANGED <<rows, admitted, host, client, counts>>

\* An assistant row, a notice, or a tool row, which changes the projection.
CommitRow(r) ==
  /\ status[r] = "running" /\ Idle(r)
  /\ Len(rows) < MaxRows
  /\ rows' = Append(rows, r)
  /\ \E more \in {<<>>, <<ReadOf(r)>>} : Owe(r, <<RowOf(Len(rows) + 1)>> \o more)
  /\ UNCHANGED <<status, admitted, host, client, counts>>

\* Several pending turns join in one transaction and are published in turn.
ConsumePendingUserTurns(r) ==
  /\ status[r] = "running" /\ Idle(r)
  /\ \E n \in 2 .. MaxJoin :
       /\ Len(rows) + n <= MaxRows
       /\ rows' = rows \o [i \in 1 .. n |-> r]
       /\ Owe(r, [i \in 1 .. n |-> RowOf(Len(rows) + i)])
  /\ UNCHANGED <<status, admitted, host, client, counts>>

FinishRun(r) ==
  /\ status[r] = "running" /\ Idle(r)
  /\ status' = [status EXCEPT ![r] = "ended"]
  /\ Owe(r, StatusCommit(r, "ended"))
  /\ UNCHANGED <<rows, admitted, host, client, counts>>

-----------------------------------------------------------------------------
(* Publication.                                                            *)

\* The first half of publish_current: the frame is built from a second read.
\* Only a terminal publication whose read was refused is tried again.
ReadRun(t) ==
  /\ ~Idle(t) /\ Due(t).kind = "read"
  /\ LET r == Due(t).run IN
     \/ /\ owed' = [owed EXCEPT ![t] = <<StatusOf(r, status[r])>> \o Tail(@)]
        /\ UNCHANGED faults
     \/ /\ faults < MaxFaults
        /\ faults' = faults + 1
        /\ owed' = IF t # Retry /\ status[r] \in TerminalStatus
                   THEN [owed EXCEPT ![t] = Tail(@), ![Retry] = Append(@, ReadOf(r))]
                   ELSE [owed EXCEPT ![t] = Tail(@)]
  /\ UNCHANGED <<durable, host, client, replays>>

\* A row is suppressed when it is the first one after the snapshot that already
\* carried it as its newest.
Suppressed(k, m) == m.kind = "row" /\ watermark[k] = m.row

Full(k) == Len(queue[k]) >= Capacity

\* Fault: a full queue drops the message and stays registered.
BroadcastFault(t) ==
  /\ ~Idle(t) /\ Due(t).kind \in {"row", "status"}
  /\ registry = Nobody
  /\ LET m == Due(t) IN
     /\ queue' = [k \in Connections |->
          IF k \in subscribed /\ ~Suppressed(k, m) /\ ~Full(k)
          THEN Append(queue[k], m) ELSE queue[k]]
     /\ watermark' = [k \in Connections |->
          IF k \in subscribed /\ m.kind = "row" THEN 0 ELSE watermark[k]]
  /\ owed' = [owed EXCEPT ![t] = Tail(@)]
  /\ UNCHANGED <<durable, registry, asked, subscribed, closing, projection, client, counts>>

\* Fault: a full queue makes room by dropping its oldest message.
BroadcastLagFault(t) ==
  /\ ~Idle(t) /\ Due(t).kind \in {"row", "status"}
  /\ registry = Nobody
  /\ LET m == Due(t) IN
     /\ queue' = [k \in Connections |->
          IF k \notin subscribed \/ Suppressed(k, m) THEN queue[k]
          ELSE Append(IF Full(k) THEN Tail(queue[k]) ELSE queue[k], m)]
     /\ watermark' = [k \in Connections |->
          IF k \in subscribed /\ m.kind = "row" THEN 0 ELSE watermark[k]]
  /\ owed' = [owed EXCEPT ![t] = Tail(@)]
  /\ UNCHANGED <<durable, registry, asked, subscribed, closing, projection, client, counts>>

\* One frame to every subscriber, under the registry lock; a subscriber whose
\* queue is full is removed and told to close.
Broadcast(t) ==
  /\ ~Idle(t) /\ Due(t).kind \in {"row", "status"}
  /\ registry = Nobody
  /\ LET m == Due(t)
         Slow == {k \in subscribed : Full(k) /\ ~Suppressed(k, m)}
     IN
     /\ queue' = [k \in Connections |->
          IF k \in subscribed \ Slow /\ ~Suppressed(k, m)
          THEN Append(queue[k], m) ELSE queue[k]]
     /\ watermark' = [k \in Connections |->
          IF k \in subscribed /\ m.kind = "row" THEN 0 ELSE watermark[k]]
     /\ subscribed' = subscribed \ Slow
     /\ closing' = closing \cup Slow
  /\ owed' = [owed EXCEPT ![t] = Tail(@)]
  /\ UNCHANGED <<durable, registry, asked, projection, client, counts>>

-----------------------------------------------------------------------------
(* Subscription.                                                           *)

\* The client has no connection, lost the last one, or leaves it.
Connect ==
  /\ current < MaxConnections
  /\ current' = current + 1
  /\ following' = FALSE
  /\ UNCHANGED <<durable, owed, host, shown, view, counts>>

\* The snapshot is two reads, both under the registry lock.
ReadProjection(k) ==
  /\ k = current /\ registry = Nobody
  /\ k \notin asked
  /\ asked' = asked \cup {k}
  /\ projection' = ActiveRun
  /\ registry' = k
  /\ UNCHANGED <<durable, owed, subscribed, watermark, queue, closing, client, counts>>

\* Fault: the rows are read before the lock is taken.
RegisterSubscriberFault(k) ==
  /\ registry = k
  /\ \E n \in 0 .. Len(rows) :
       /\ queue' = [queue EXCEPT ![k] = Append(@, Reply(n, projection))]
       /\ watermark' = [watermark EXCEPT ![k] = n]
  /\ subscribed' = subscribed \cup {k}
  /\ registry' = Nobody
  /\ projection' = NoRun
  /\ UNCHANGED <<durable, owed, asked, closing, client, counts>>

\* The reply is queued and the connection registered in one critical section.
RegisterSubscriber(k) ==
  /\ registry = k
  /\ queue' = [queue EXCEPT ![k] = Append(@, Reply(Len(rows), projection))]
  /\ subscribed' = subscribed \cup {k}
  /\ watermark' = [watermark EXCEPT ![k] = Len(rows)]
  /\ registry' = Nobody
  /\ projection' = NoRun
  /\ UNCHANGED <<durable, owed, asked, closing, client, counts>>

\* A snapshot that cannot be read registers nothing.
RefuseSubscriber(k) ==
  /\ registry = k
  /\ faults < MaxFaults
  /\ faults' = faults + 1
  /\ queue' = [queue EXCEPT ![k] = Append(@, Rejection)]
  /\ registry' = Nobody
  /\ projection' = NoRun
  /\ UNCHANGED <<durable, owed, asked, subscribed, watermark, closing, client, replays>>

\* The connection's task ends: it was told to close, or its client is gone.
\* Its registration goes with it.
EndConnection(k) ==
  /\ k \in closing \/ (k < current /\ (k \in subscribed \/ queue[k] # <<>>))
  /\ registry = Nobody
  /\ closing' = closing \ {k}
  /\ subscribed' = subscribed \ {k}
  /\ queue' = [queue EXCEPT ![k] = <<>>]
  /\ following' = (following /\ k # current)
  /\ UNCHANGED <<durable, owed, registry, asked, watermark, projection, current, shown, view,
                 counts>>
-----------------------------------------------------------------------------
(* The client.                                                             *)

\* sort_by_key: the entry at a place is the one that the entries below it and
\* those up to it leave no other place for.
Below(s, v) == Cardinality({j \in DOMAIN s : s[j] < v})
UpTo(s, v) == Cardinality({j \in DOMAIN s : s[j] <= v})
Sorted(s) ==
  [i \in DOMAIN s |-> CHOOSE v \in Range(s) : Below(s, v) < i /\ i <= UpTo(s, v)]

\* reconcile: the rows of the read that are not shown yet join, in row order.
Reconcile(n) == Sorted(shown \o SetToSeq(1 .. n \ Range(shown)))

\* apply_content: only a repetition of the newest shown row is dropped.
ApplyContent(i) ==
  shown' = IF shown # <<>> /\ Last(shown) = i THEN shown ELSE Append(shown, i)

\* The next message of the newest connection reaches the client.
Receive ==
  /\ current # 0
  /\ queue[current] # <<>>
  /\ LET m == Head(queue[current]) IN
     \/ /\ m.kind = "reply"
        /\ shown' = Reconcile(m.rows)
        /\ view' = m.projection
        /\ following' = TRUE
     \/ /\ m.kind = "rejection"
        /\ UNCHANGED <<shown, view, following>>
     \/ /\ m.kind = "row"
        /\ ApplyContent(m.row)
        /\ UNCHANGED <<view, following>>
     \/ /\ m.kind = "status"
        /\ view' = [run |-> m.run, status |-> m.status]
        /\ UNCHANGED <<shown, following>>
  /\ queue' = [queue EXCEPT ![current] = Tail(@)]
  /\ UNCHANGED <<durable, owed, registry, asked, subscribed, watermark, closing, projection,
                 current, counts>>

-----------------------------------------------------------------------------
Publish(t) == ReadRun(t) \/ Broadcast(t) \/ NoSuccessor(t)

Serve(k) == RegisterSubscriber(k) \/ EndConnection(k)

Next ==
  \/ AcceptUserTurn
  \/ Connect
  \/ Receive
  \/ \E r \in Runs :
       \/ RepeatUserTurn(r)
       \/ Admit(r)
       \/ Begin(r)
       \/ CommitRow(r)
       \/ ConsumePendingUserTurns(r)
       \/ FinishRun(r)
  \/ \E t \in Publishers : ReadRun(t) \/ Broadcast(t) \/ NoSuccessor(t)
  \/ \E k \in Connections :
       \/ ReadProjection(k)
       \/ RegisterSubscriber(k)
       \/ RefuseSubscriber(k)
       \/ EndConnection(k)

Spec == Init /\ [][Next]_vars

\* A thread that owes a publication makes it, a connection task writes and ends,
\* and whoever holds the registry lock frees it.
FairSpec ==
  /\ Spec
  /\ \A t \in Publishers : WF_vars(Publish(t))
  /\ \A r \in Runs : WF_vars(Admit(r))
  /\ \A k \in Connections : WF_vars(Serve(k))
  /\ WF_vars(Receive)

-----------------------------------------------------------------------------
Status == {"none"} \cup ActiveStatus \cup TerminalStatus
Projections == [run : 0 .. MaxRuns, status : Status]
RowFrames == [kind : {"row"}, row : 1 .. MaxRows]
StatusFrames == [kind : {"status"}, run : Runs, status : Status]
Publications == RowFrames \cup StatusFrames \cup [kind : {"read"}, run : Runs] \cup {Successor}
Messages ==
  RowFrames \cup StatusFrames \cup [kind : {"reply"}, rows : 0 .. MaxRows, projection : Projections]
    \cup {Rejection}

\* No queue exceeds its bound, an answer to a subscription included.
TypeOK ==
  /\ rows \in Seq(Runs) /\ Len(rows) <= MaxRows
  /\ status \in [Runs -> Status]
  /\ admitted \subseteq Runs
  /\ owed \in [Publishers -> Seq(Publications)]
  /\ registry \in Connections \cup {Nobody}
  /\ asked \subseteq Connections
  /\ subscribed \subseteq asked /\ closing \subseteq asked
  /\ watermark \in [Connections -> 0 .. MaxRows]
  /\ queue \in [Connections -> Seq(Messages)]
  /\ \A k \in Connections : Len(queue[k]) <= Capacity
  /\ current \in 0 .. MaxConnections /\ following \in BOOLEAN
  /\ projection \in Projections /\ view \in Projections
  /\ shown \in Seq(1 .. MaxRows)
  /\ replays \in 0 .. MaxReplays /\ faults \in 0 .. MaxFaults

Carries(m, i) ==
  \/ m.kind = "row" /\ m.row = i
  \/ m.kind = "reply" /\ i <= m.rows

\* No committed row is lost between the transcript, its publication, the
\* snapshot and the client, although a subscription may begin at any point
\* between a commit and its frame: while the connection is registered, every
\* row is shown, on its way, or still to be published.
NoRowIsLost ==
  current \in subscribed =>
    \A i \in DOMAIN rows :
      \/ i \in Range(shown)
      \/ \E m \in Range(queue[current]) : Carries(m, i)
      \/ \E t \in Publishers : RowOf(i) \in Range(owed[t])

\* A registered client that has no reply yet finds it before any frame, whatever
\* was committed and broadcast while its snapshot was read.
ReplyPrecedesFrames ==
  \A k \in subscribed :
    (k = current /\ ~following) =>
      queue[k] # <<>> /\ Head(queue[k]).kind = "reply"

CaughtUp == following => DOMAIN rows \subseteq Range(shown)

\* A client that keeps its connection is shown every row: a queue that
\* overflows never leaves it silently behind, its connection ends.
RowsAreShown == ~CaughtUp ~> CaughtUp

-----------------------------------------------------------------------------
(* What the comments say of repeated frames.                               *)

\* "A repeated publication is a harmless duplicate: the subscriber replaces its
\* state with the same committed value" (publish_current): once everything has
\* been published and received, the client's status is the committed one.
SettledViewIsCommitted ==
  ( /\ current \in subscribed /\ queue[current] = <<>>
    /\ \A t \in Publishers : Idle(t) )
  => view.run = 0 \/ view.status = status[view.run]
=============================================================================
