------------------------------ MODULE Bootstrap ------------------------------
(***************************************************************************)
(* How clients find or launch the one daemon of an endpoint:               *)
(* connect_or_bootstrap and StartupLock of crates/intention-client/src/    *)
(* lib.rs, the bind of a listener and the reclaim of a stale socket of     *)
(* crates/intention-transport/src/lib.rs, and run of                       *)
(* crates/intention-daemon/src/lib.rs.                                     *)
(*                                                                         *)
(* The endpoint is a path that holds a socket or nothing.  A socket is the *)
(* process that bound it and an inode number, which the file system may    *)
(* give to another socket once its owner is dead and its path is gone.     *)
(* Nobody removes the path at exit.  A deadline is a number of attempts.   *)
(***************************************************************************)
EXTENDS Naturals, FiniteSets

CONSTANTS
  Clients,    \* client processes
  Daemons,    \* daemon processes that may come into being
  Inodes,     \* inode numbers
  Nobody,     \* no process
  MaxTries    \* bound: attempts a deadline leaves

BootstrapAssumption ==
  /\ Nobody \notin Clients \cup Daemons
  /\ IsFiniteSet(Daemons)
  /\ MaxTries \in Nat \ {0}

VARIABLES
  at,       \* where each client is
  tries,    \* the attempts of each client's present wait
  link,     \* the daemon process each client is connected to
  lock,     \* the client that holds the start-up lock of the endpoint
  stage,    \* where each daemon process is
  path,     \* the socket at the endpoint's path
  seen,     \* the socket each daemon process captured before its probe
  raced     \* a process removed a socket in one of the two ways identity cannot tell

clients == <<at, tries, link, lock>>
endpoint == <<stage, path, seen, raced>>
vars == <<clients, endpoint>>

NoSocket == [owner |-> Nobody, inode |-> 0]
Sockets == [owner : Daemons \cup {Nobody}, inode : Inodes]

\* The places at which a client dials, and those at which it awaits the health.
Dialling == {"first", "locked", "waiting"}
Awaiting == {"first_health", "locked_health", "waiting_health"}
Returned == {"ready", "failed", "gone"}

HealthOf(place) ==
  CASE place = "first" -> "first_health"
    [] place = "locked" -> "locked_health"
    [] place = "waiting" -> "waiting_health"

Live == {d \in Daemons : stage[d] \in {"bound", "serving"}}

Init ==
  /\ at = [c \in Clients |-> "idle"]
  /\ tries = [c \in Clients |-> 0]
  /\ link = [c \in Clients |-> Nobody]
  /\ lock = Nobody
  /\ seen = [d \in Daemons |-> NoSocket]
  /\ raced = FALSE
  /\ stage = [d \in Daemons |-> "none"]
  \* An unclean exit may have left a socket nobody listens on.
  /\ path \in {NoSocket} \cup {[owner |-> Nobody, inode |-> i] : i \in Inodes}

-----------------------------------------------------------------------------
(* The client.                                                             *)

Move(c, place) == at' = [at EXCEPT ![c] = place]

\* The lock guard is dropped on every return.
Release(c) == lock' = IF lock = c THEN Nobody ELSE lock

\* Every return leaves the client without link and attempts.
Return(c, outcome) ==
  /\ Move(c, outcome)
  /\ Release(c)
  /\ tries' = [tries EXCEPT ![c] = 0]
  /\ link' = [link EXCEPT ![c] = Nobody]

ConnectOrBootstrap(c) ==
  /\ at[c] = "idle"
  /\ Move(c, "first")
  /\ UNCHANGED <<tries, link, lock, endpoint>>

\* The connection of connect_ready: a bound listener accepts, served or not.
Connect(c) ==
  /\ at[c] \in Dialling
  /\ path.owner \in Live
  /\ Move(c, HealthOf(at[c]))
  /\ link' = [link EXCEPT ![c] = path.owner]
  /\ UNCHANGED <<tries, lock, endpoint>>

\* Fault: the wait has no deadline.
RetryOrFailFault(c) ==
  /\ Move(c, "waiting")
  /\ link' = [link EXCEPT ![c] = Nobody]
  /\ UNCHANGED <<tries, lock>>

\* An unavailable daemon within wait_for_ready: again, until the deadline.
RetryOrFail(c) ==
  IF tries[c] < MaxTries
  THEN /\ Move(c, "waiting")
       /\ tries' = [tries EXCEPT ![c] = @ + 1]
       /\ link' = [link EXCEPT ![c] = Nobody]
       /\ UNCHANGED lock
  ELSE Return(c, "failed")

\* What an unavailable failure of connect_ready leads to at each of its calls.
Unavailable(c) ==
  \/ /\ at[c] \in {"first", "first_health"}
     /\ Move(c, "acquire") /\ link' = [link EXCEPT ![c] = Nobody]
     /\ UNCHANGED <<tries, lock>>
  \/ /\ at[c] \in {"locked", "locked_health"}
     /\ Move(c, "launch") /\ link' = [link EXCEPT ![c] = Nobody]
     /\ UNCHANGED <<tries, lock>>
  \/ /\ at[c] \in {"waiting", "waiting_health"}
     /\ RetryOrFail(c)

\* Nobody listens at the path, or the connection takes too long.
ConnectFails(c) ==
  /\ at[c] \in Dialling
  /\ Unavailable(c)
  /\ UNCHANGED endpoint

\* The health request of connect_ready on the fresh link: a healthy answer, a
\* typed rejection, or no answer because the process died or was too slow.
Answer(c) ==
  /\ at[c] \in Awaiting
  /\ stage[link[c]] = "serving"
  /\ \E outcome \in {"ready", "failed"} : Return(c, outcome)
  /\ UNCHANGED endpoint

NoAnswer(c) ==
  /\ at[c] \in Awaiting
  /\ Unavailable(c)
  /\ UNCHANGED endpoint

Acquire(c) ==
  /\ at[c] = "acquire" /\ lock = Nobody
  /\ lock' = c
  /\ tries' = [tries EXCEPT ![c] = 0]
  /\ Move(c, "locked")
  /\ UNCHANGED <<link, endpoint>>

\* A contended lock is retried until the budget ends; the file may also fail.
LockContended(c) ==
  /\ at[c] = "acquire" /\ lock # Nobody
  /\ IF tries[c] < MaxTries
     THEN tries' = [tries EXCEPT ![c] = @ + 1] /\ UNCHANGED <<at, link, lock>>
     ELSE Return(c, "failed")
  /\ UNCHANGED endpoint

LockUnavailable(c) ==
  /\ at[c] = "acquire"
  /\ Return(c, "failed")
  /\ UNCHANGED endpoint

Launch(c) ==
  /\ at[c] = "launch"
  /\ \/ /\ \E d \in Daemons :
             /\ stage[d] = "none"
             /\ stage' = [stage EXCEPT ![d] = "starting"]
        /\ Move(c, "waiting")
        /\ UNCHANGED <<tries, link, lock>>
     \/ /\ Return(c, "failed")
        /\ UNCHANGED stage
  /\ UNCHANGED <<path, seen, raced>>

\* The client process ends at any point; the system frees its lock.
ClientDies(c) ==
  /\ at[c] \notin Returned
  /\ Return(c, "gone")
  /\ UNCHANGED endpoint

-----------------------------------------------------------------------------
(* The daemon process.                                                     *)

Enter(d, s) == stage' = [stage EXCEPT ![d] = s]

\* Creating the listener binds a socket with a number no living file holds.
BindSocket(d) ==
  \E i \in Inodes :
    /\ \A e \in Live : seen[e].inode # i
    /\ path' = [owner |-> d, inode |-> i]
    /\ seen' = [seen EXCEPT ![d] = [owner |-> d, inode |-> i]]

\* A user may also start the program by hand.
Start(d) ==
  /\ stage[d] = "none"
  /\ Enter(d, "starting")
  /\ UNCHANGED <<clients, path, seen, raced>>

Bind(d) ==
  /\ stage[d] = "starting"
  /\ IF path = NoSocket
     THEN Enter(d, "bound") /\ BindSocket(d)
     ELSE Enter(d, "conflict") /\ UNCHANGED <<path, seen>>
  /\ UNCHANGED <<clients, raced>>

\* socket_identity before the probe; without a socket the endpoint is in use.
CaptureIdentity(d) ==
  /\ stage[d] = "conflict"
  /\ IF path = NoSocket
     THEN Enter(d, "dead") /\ UNCHANGED seen
     ELSE Enter(d, "probing") /\ seen' = [seen EXCEPT ![d] = path]
  /\ UNCHANGED <<clients, path, raced>>

\* Fault: a probe that failed in any way counts as stale.
ProbeFault(d) ==
  /\ stage[d] = "probing"
  /\ Enter(d, "stale")
  /\ UNCHANGED <<clients, path, seen, raced>>

\* Only a refused connection shows that nothing listens; an accepted one, a
\* timeout and a missing path do not.
ProbeReportsStaleSocket(d) ==
  /\ stage[d] = "probing"
  /\ \/ path # NoSocket /\ path.owner \notin Live /\ Enter(d, "stale")
     \/ (path = NoSocket \/ path.owner \in Live) /\ Enter(d, "dead")
  /\ UNCHANGED <<clients, path, seen, raced>>

\* Fault: the identity is not compared again.
SameSocketFault(d) == path # NoSocket

SameSocket(d) == path # NoSocket /\ path.inode = seen[d].inode

\* The comparison before the removal.  It cannot tell a socket that was given
\* the number of the captured one.
RecheckIdentity(d) ==
  /\ stage[d] = "stale"
  /\ IF SameSocket(d)
     THEN /\ Enter(d, "removing")
          /\ raced' = (raced \/ (path # seen[d] /\ path.inode = seen[d].inode))
     ELSE Enter(d, "dead") /\ UNCHANGED raced
  /\ seen' = [seen EXCEPT ![d] = path]
  /\ UNCHANGED <<clients, path>>

\* The removal takes whatever the path holds by then.
RemoveSocket(d) ==
  /\ stage[d] = "removing"
  /\ IF path = NoSocket THEN Enter(d, "dead") ELSE Enter(d, "rebinding")
  /\ raced' = (raced \/ (path # NoSocket /\ path # seen[d]))
  /\ path' = NoSocket
  /\ UNCHANGED <<clients, seen>>

\* The one retry of the bind.
Rebind(d) ==
  /\ stage[d] = "rebinding"
  /\ IF path = NoSocket
     THEN Enter(d, "bound") /\ BindSocket(d)
     ELSE Enter(d, "dead") /\ UNCHANGED <<path, seen>>
  /\ UNCHANGED <<clients, raced>>

\* Storage is opened and recovered once the endpoint is bound, then peers are
\* accepted; a start-up that fails ends the process.
Open(d) ==
  /\ stage[d] = "bound"
  /\ Enter(d, "serving")
  /\ UNCHANGED <<clients, path, seen, raced>>

\* A process ends by failure, by a signal or by a crash; its path stays.
DaemonDies(d) ==
  /\ stage[d] \notin {"none", "dead"}
  /\ Enter(d, "dead")
  /\ UNCHANGED <<clients, path, seen, raced>>

-----------------------------------------------------------------------------
ClientStep(c) ==
  \/ Connect(c)
  \/ ConnectFails(c)
  \/ Answer(c)
  \/ NoAnswer(c)
  \/ Acquire(c)
  \/ LockContended(c)
  \/ LockUnavailable(c)
  \/ Launch(c)

DaemonStep(d) ==
  \/ Bind(d)
  \/ CaptureIdentity(d)
  \/ ProbeReportsStaleSocket(d)
  \/ RecheckIdentity(d)
  \/ RemoveSocket(d)
  \/ Rebind(d)
  \/ Open(d)

Next ==
  \/ \E c \in Clients : ConnectOrBootstrap(c) \/ ClientStep(c) \/ ClientDies(c)
  \/ \E d \in Daemons : Start(d) \/ DaemonStep(d) \/ DaemonDies(d)

\* A client inside the call goes on: each of its waits has a deadline.
Fairness == \A c \in Clients : WF_vars(ClientStep(c))

Spec == Init /\ [][Next]_vars /\ Fairness

-----------------------------------------------------------------------------
Stages == {"none", "starting", "conflict", "probing", "stale", "removing", "rebinding",
           "bound", "serving", "dead"}

TypeOK ==
  /\ at \in [Clients -> {"idle", "acquire", "launch"} \cup Dialling \cup Awaiting \cup Returned]
  /\ tries \in [Clients -> 0 .. MaxTries]
  /\ link \in [Clients -> Daemons \cup {Nobody}]
  /\ lock \in Clients \cup {Nobody}
  /\ stage \in [Daemons -> Stages]
  /\ path \in Sockets \cup {NoSocket}
  /\ seen \in [Daemons -> Sockets \cup {NoSocket}]
  /\ raced \in BOOLEAN

\* However many clients find no daemon at once, die or time out while they hold
\* the lock, and however many processes they launch over a stale socket, at most
\* one living process serves what it recovered from the storage.  The code
\* excepts a path replaced after the identity was compared again; an inode
\* number given to a second socket has the same effect.
OneDaemonServes ==
  raced \/ \A d, e \in Daemons : stage[d] = "serving" /\ stage[e] \in {"bound", "serving"} => d = e

AllReturned == \A c \in Clients : at[c] \in Returned \cup {"idle"}

\* Whatever happens to the daemon and to the holder of the lock, a client's call
\* returns: both waits have their own deadline, and a reply that does not come
\* counts as an unavailable daemon.
ClientsReturn == ~AllReturned ~> AllReturned
=============================================================================
