---------------------------- MODULE HostConnection ----------------------------
(***************************************************************************)
(* One connection of the daemon from its first request to its end:         *)
(* serve_async_connection, dispatch_request, the subscription guard and    *)
(* write_message_or_rejection of crates/intention-daemon/src/lib.rs, with  *)
(* the request and message envelopes of crates/intention-proto/src/        *)
(* protocol.rs.                                                            *)
(*                                                                         *)
(* A connection serves one request at a time.  A subscription is           *)
(* registered by a worker, under the lock of the registry, and its answer  *)
(* is queued behind what the connection still has to write; every other    *)
(* answer is written at once.  A broadcast may come between any two steps. *)
(***************************************************************************)
EXTENDS Naturals, Sequences, FiniteSets, SequencesExt, Selections

CONSTANTS
  Connections,  \* connections of the daemon
  Sessions,     \* sessions a client may follow
  NoSession,    \* the guard's field before a subscription
  Capacity,     \* messages a connection's queue holds
  MaxRequests,  \* bound: requests of one connection
  MaxFrames     \* bound: broadcasts

HostConnectionAssumption ==
  /\ NoSession \notin Sessions
  /\ {Capacity, MaxRequests, MaxFrames} \subseteq Nat

VARIABLES
  phase,       \* what each connection's task is doing
  read,        \* the requests it has read
  asked,       \* the session it is subscribing to
  outcome,     \* what the registration worker returned
  guard,       \* the session its subscription guard owns
  queue,       \* its queue
  out,         \* the message it is writing
  answered,    \* the identities of the answers it has written, in order
  closing,     \* its close signal
  registry,    \* the subscribers of each session, in order
  frames       \* the broadcasts so far

task == <<phase, read, asked, outcome, guard, out, answered>>
vars == <<task, queue, closing, registry, frames>>

\* An answer carries the request's identity, 0 when the request line could not
\* be decoded.  A frame answers nothing.
Reply(id) == [kind |-> "reply", id |-> id]
Rejection(id) == [kind |-> "rejection", id |-> id]
Frame == [kind |-> "frame", id |-> 0]
Messages == [kind : {"reply", "rejection", "frame"}, id : 0 .. MaxRequests]

Running == {"serving", "dispatching", "registering", "confirming", "writing"}

Init ==
  /\ phase = [k \in Connections |-> "serving"]
  /\ read = [k \in Connections |-> 0]
  /\ asked = [k \in Connections |-> NoSession]
  /\ outcome = [k \in Connections |-> FALSE]
  /\ guard = [k \in Connections |-> NoSession]
  /\ queue = [k \in Connections |-> <<>>]
  /\ out = [k \in Connections |-> Frame]
  /\ answered = [k \in Connections |-> <<>>]
  /\ closing = [k \in Connections |-> FALSE]
  /\ registry = [s \in Sessions |-> <<>>]
  /\ frames = 0

Goto(k, p) == phase' = [phase EXCEPT ![k] = p]

Full(k) == Len(queue[k]) >= Capacity \/ phase[k] = "ended"

\* take_registration: the entries of connection k are removed from session s.
Without(k, s) == Within(registry[s], Connections \ {k})

-----------------------------------------------------------------------------
(* The connection's task.                                                  *)

\* A line that is not a request is answered without an identity.  The client
\* sends its next request without waiting for the answer, or waits.
ReadMalformed(k) ==
  /\ phase[k] = "serving"
  /\ out' = [out EXCEPT ![k] = Rejection(0)]
  /\ Goto(k, "writing")
  /\ UNCHANGED <<read, asked, outcome, guard, answered, queue, closing, registry, frames>>

ReadSubscribe(k) ==
  /\ phase[k] = "serving" /\ read[k] < MaxRequests
  /\ read' = [read EXCEPT ![k] = @ + 1]
  /\ \E s \in Sessions : asked' = [asked EXCEPT ![k] = s]
  /\ Goto(k, "registering")
  /\ UNCHANGED <<outcome, guard, out, answered, queue, closing, registry, frames>>

ReadCommand(k) ==
  /\ phase[k] = "serving" /\ read[k] < MaxRequests
  /\ read' = [read EXCEPT ![k] = @ + 1]
  /\ Goto(k, "dispatching")
  /\ UNCHANGED <<asked, outcome, guard, out, answered, queue, closing, registry, frames>>

\* The peer closed, or sent a line that cannot be received.
ReadFails(k) ==
  /\ phase[k] = "serving"
  /\ Goto(k, "ending")
  /\ UNCHANGED <<read, asked, outcome, guard, out, answered, queue, closing, registry, frames>>

\* The command returned, was refused, or its worker failed.
DispatchRequest(k) ==
  /\ phase[k] = "dispatching"
  /\ \E m \in {Reply(read[k]), Rejection(read[k])} : out' = [out EXCEPT ![k] = m]
  /\ Goto(k, "writing")
  /\ UNCHANGED <<read, asked, outcome, guard, answered, queue, closing, registry, frames>>

\* try_send of an answer by the registration worker: a queue that cannot take
\* it ends the connection.
TrySend(k, m) ==
  IF Full(k)
  THEN closing' = [closing EXCEPT ![k] = TRUE] /\ UNCHANGED queue
  ELSE queue' = [queue EXCEPT ![k] = Append(@, m)] /\ UNCHANGED closing

\* Plausible bug: the previous registration is kept.
RegisterFault(k) ==
  /\ phase[k] = "registering"
  /\ TrySend(k, Reply(read[k]))
  /\ outcome' = [outcome EXCEPT ![k] = ~Full(k)]
  /\ registry' = IF Full(k) THEN registry
                 ELSE [registry EXCEPT ![asked[k]] = Append(@, k)]
  /\ Goto(k, "confirming")
  /\ UNCHANGED <<read, asked, guard, out, answered, frames>>

\* The registration replaces the previous one in the step that queues the reply.
RegisterSubscriber(k) ==
  /\ phase[k] = "registering"
  /\ TrySend(k, Reply(read[k]))
  /\ outcome' = [outcome EXCEPT ![k] = ~Full(k)]
  /\ registry' =
       IF Full(k) THEN registry
       ELSE LET old == IF guard[k] = NoSession THEN registry
                       ELSE [registry EXCEPT ![guard[k]] = Without(k, guard[k])]
            IN [old EXCEPT ![asked[k]] = Append(@, k)]
  /\ Goto(k, "confirming")
  /\ UNCHANGED <<read, asked, guard, out, answered, frames>>

\* Plausible bug: a rejection that finds no room is dropped.
RefuseFault(k) ==
  /\ phase[k] = "registering"
  /\ queue' = IF Full(k) THEN queue ELSE [queue EXCEPT ![k] = Append(@, Rejection(read[k]))]
  /\ outcome' = [outcome EXCEPT ![k] = FALSE]
  /\ Goto(k, "confirming")
  /\ UNCHANGED <<read, asked, guard, out, answered, closing, registry, frames>>

\* The registry or the session's snapshot is unavailable, or the worker failed.
RefuseSubscriber(k) ==
  /\ phase[k] = "registering"
  /\ TrySend(k, Rejection(read[k]))
  /\ outcome' = [outcome EXCEPT ![k] = FALSE]
  /\ Goto(k, "confirming")
  /\ UNCHANGED <<read, asked, guard, out, answered, registry, frames>>

Confirm(k) ==
  /\ phase[k] = "confirming"
  /\ guard' = IF outcome[k] THEN [guard EXCEPT ![k] = asked[k]] ELSE guard
  /\ asked' = [asked EXCEPT ![k] = NoSession]
  /\ outcome' = [outcome EXCEPT ![k] = FALSE]
  /\ Goto(k, "serving")
  /\ UNCHANGED <<read, out, answered, queue, closing, registry, frames>>

TakeQueued(k) ==
  /\ phase[k] = "serving" /\ queue[k] # <<>>
  /\ out' = [out EXCEPT ![k] = Head(queue[k])]
  /\ queue' = [queue EXCEPT ![k] = Tail(@)]
  /\ Goto(k, "writing")
  /\ UNCHANGED <<read, asked, outcome, guard, answered, closing, registry, frames>>

SeeClose(k) ==
  /\ phase[k] = "serving" /\ closing[k]
  /\ Goto(k, "ending")
  /\ UNCHANGED <<read, asked, outcome, guard, out, answered, queue, closing, registry, frames>>

Written(k, id) ==
  /\ answered' = IF id = 0 THEN answered ELSE [answered EXCEPT ![k] = Append(@, id)]
  /\ out' = [out EXCEPT ![k] = Frame]

WriteMessage(k) ==
  /\ phase[k] = "writing"
  /\ Written(k, out[k].id)
  /\ Goto(k, "serving")
  /\ UNCHANGED <<read, asked, outcome, guard, queue, closing, registry, frames>>

\* Plausible bug: the failure of an oversize reply is left out.
WriteOversizeFault(k) ==
  /\ phase[k] = "writing" /\ out[k].kind = "reply"
  /\ Goto(k, "serving")
  /\ UNCHANGED <<read, asked, outcome, guard, out, answered, queue, closing, registry, frames>>

\* A reply over the cap fails before a byte of it is written, and the request
\* is answered with the failure.
WriteOversizeReply(k) ==
  /\ phase[k] = "writing" /\ out[k].kind = "reply"
  /\ Written(k, out[k].id)
  /\ Goto(k, "serving")
  /\ UNCHANGED <<read, asked, outcome, guard, queue, closing, registry, frames>>

\* A slow or gone peer, a frame or rejection over the cap, or a failure that
\* could not be written either.
WriteFails(k) ==
  /\ phase[k] = "writing"
  /\ out' = [out EXCEPT ![k] = Frame]
  /\ Goto(k, "ending")
  /\ UNCHANGED <<read, asked, outcome, guard, answered, queue, closing, registry, frames>>

\* The guard and the queue are dropped with the task.
EndConnection(k) ==
  /\ phase[k] = "ending"
  /\ registry' = IF guard[k] = NoSession THEN registry
                 ELSE [registry EXCEPT ![guard[k]] = Without(k, guard[k])]
  /\ guard' = [guard EXCEPT ![k] = NoSession]
  /\ queue' = [queue EXCEPT ![k] = <<>>]
  /\ Goto(k, "ended")
  /\ UNCHANGED <<read, asked, outcome, out, answered, closing, frames>>

\* Plausible bug: a slow subscriber is removed and not told.
BroadcastFault(s) ==
  /\ frames < MaxFrames /\ registry[s] # <<>>
  /\ frames' = frames + 1
  /\ LET Slow == {k \in ToSet(registry[s]) : Full(k)}
     IN /\ registry' = [registry EXCEPT ![s] = Within(@, Connections \ Slow)]
        /\ queue' = [k \in Connections |->
                       IF k \in ToSet(registry[s]) \ Slow
                       THEN Append(queue[k], Frame) ELSE queue[k]]
  /\ UNCHANGED <<task, closing>>

\* A publication: a subscriber whose queue cannot take the frame is removed and
\* told to close.
Broadcast(s) ==
  /\ frames < MaxFrames /\ registry[s] # <<>>
  /\ frames' = frames + 1
  /\ LET Slow == {k \in ToSet(registry[s]) : Full(k)}
     IN /\ registry' = [registry EXCEPT ![s] = Within(@, Connections \ Slow)]
        /\ closing' = [k \in Connections |-> closing[k] \/ k \in Slow]
        /\ queue' = [k \in Connections |->
                       IF k \in ToSet(registry[s]) \ Slow
                       THEN Append(queue[k], Frame) ELSE queue[k]]
  /\ UNCHANGED task

Read(k) == ReadMalformed(k) \/ ReadSubscribe(k) \/ ReadCommand(k) \/ ReadFails(k)
Register(k) == RegisterSubscriber(k) \/ RefuseSubscriber(k) \/ Confirm(k)
Write(k) == WriteMessage(k) \/ WriteOversizeReply(k) \/ WriteFails(k)
Serve(k) ==
  \/ Read(k) \/ DispatchRequest(k) \/ Register(k) \/ TakeQueued(k)
  \/ SeeClose(k) \/ Write(k) \/ EndConnection(k)

Next ==
  \/ \E k \in Connections : Serve(k)
  \/ \E s \in Sessions : Broadcast(s)

Spec == Init /\ [][Next]_vars

-----------------------------------------------------------------------------
\* The places of the registry that hold connection k.
Entries(k) == UNION {{<<s, i>> : i \in {j \in DOMAIN registry[s] : registry[s][j] = k}} : s \in Sessions}

\* Every message is one of the protocol, no queue exceeds its capacity, and no
\* connection reads past its requests.
TypeOK ==
  /\ phase \in [Connections -> Running \cup {"ending", "ended"}]
  /\ read \in [Connections -> 0 .. MaxRequests]
  /\ asked \in [Connections -> Sessions \cup {NoSession}]
  /\ outcome \in [Connections -> BOOLEAN] /\ closing \in [Connections -> BOOLEAN]
  /\ guard \in [Connections -> Sessions \cup {NoSession}]
  /\ queue \in [Connections -> Seq(Messages)]
  /\ \A k \in Connections : Len(queue[k]) <= Capacity
  /\ out \in [Connections -> Messages]
  /\ answered \in [Connections -> Seq(1 .. MaxRequests)]
  /\ registry \in [Sessions -> Seq(Connections)]
  /\ frames \in 0 .. MaxFrames

\* The registry holds a connection at most once, in whatever order
\* subscriptions, refusals, broadcasts that drop it and its end come: between
\* requests it is registered for the session its guard owns, or has been told
\* to close; an ended connection is not registered.  So no connection receives
\* the frames of two sessions, none is left following nothing, and none
\* remains in the registry after its task.
OneRegistrationPerConnection ==
  \A k \in Connections :
    /\ Cardinality(Entries(k)) <= 1
    /\ phase[k] = "ended" => Entries(k) = {}
    /\ phase[k] \in Running \ {"confirming"} /\ guard[k] # NoSession =>
         \/ closing[k]
         \/ \E e \in Entries(k) : e[1] = guard[k]

\* No peer waits in silence: while a connection runs, every request it has read
\* is answered once, is the one in hand, or has its one answer in the queue,
\* unless the connection has been told to close.
RequestsAreAccountedFor ==
  \A k \in Connections :
    phase[k] \in Running /\ ~closing[k] =>
      \A id \in 1 .. read[k] :
        LET Done == {i \in DOMAIN answered[k] : answered[k][i] = id}
            Queued == {i \in DOMAIN queue[k] : queue[k][i].id = id}
            InHand == \/ phase[k] \in {"dispatching", "registering"} /\ read[k] = id
                      \/ phase[k] = "writing" /\ out[k].id = id
        IN Cardinality(Done) + Cardinality(Queued) + (IF InHand THEN 1 ELSE 0) = 1

\* A connection is registered at most once, and each of its requests is answered
\* or ends it (dispatch_request, SubscriptionGuard, write_message_or_rejection).
ConnectionsAnswer == OneRegistrationPerConnection /\ RequestsAreAccountedFor
=============================================================================
