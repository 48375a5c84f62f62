---------------------------- MODULE CancelSignal ----------------------------
(***************************************************************************)
(* The cancellation a model stream waits for: ModelCancellationSignal and  *)
(* its futures, of intention-providers model.rs.  The flag is an atomic,   *)
(* the wakers stand behind a mutex, and nothing spans the two: a poll and  *)
(* a cancel interleave at every load, swap and lock.                       *)
(***************************************************************************)
EXTENDS Naturals

CONSTANTS
  Futures,     \* ModelCancelledFuture
  Cancellers,  \* the calls of cancel
  Wakers,      \* the wakers a task polls with; it may move between polls
  NoWaker,
  MaxPolls     \* bound: the polls of one future

CancelSignalAssumption == NoWaker \notin Wakers /\ MaxPolls \in Nat

VARIABLES
  cancelled,   \* CancellationState.cancelled
  waiters,     \* CancellationState.waiters: the waker of each registered future
  pc,          \* per future: where its poll stands
  context,     \* per future: the waker of its last poll
  polls,
  canceller,   \* per call of cancel: where it stands
  waking,      \* per call: the wakers it took, by future
  notified     \* per future: its task was woken during the poll

vars == <<cancelled, waiters, pc, context, polls, canceller, waking, notified>>

None == [f \in Futures |-> NoWaker]

Init ==
  /\ cancelled = FALSE /\ waiters = None
  /\ pc = [f \in Futures |-> "idle"] /\ context = None
  /\ polls = [f \in Futures |-> 0]
  /\ canceller = [c \in Cancellers |-> "idle"] /\ waking = [c \in Cancellers |-> None]
  /\ notified = [f \in Futures |-> FALSE]

At(f, from, to) == pc[f] = from /\ pc' = [pc EXCEPT ![f] = to]

-----------------------------------------------------------------------------
\* The task polls: first, after a wake, or because another branch woke it.
Poll(f, w) ==
  /\ pc[f] \in {"idle", "parked", "woken"} /\ polls[f] < MaxPolls
  /\ polls' = [polls EXCEPT ![f] = @ + 1]
  /\ context' = [context EXCEPT ![f] = w] /\ notified' = [notified EXCEPT ![f] = FALSE]
  /\ pc' = [pc EXCEPT ![f] = IF cancelled THEN "ready" ELSE "register"]
  /\ UNCHANGED <<cancelled, waiters, canceller, waking>>

\* Plausible bug: a future that is registered keeps the waker it came with.
ReplaceWaiterFault(f) == IF waiters[f] = NoWaker THEN context[f] ELSE waiters[f]
ReplaceWaiter(f) == context[f]

Register(f) ==
  /\ At(f, "register", "recheck")
  /\ waiters' = [waiters EXCEPT ![f] = ReplaceWaiter(f)]
  /\ UNCHANGED <<cancelled, context, polls, canceller, waking, notified>>

\* Plausible bug: the load before the registration is the only one.
ReadyAfterRegistrationFault == FALSE
ReadyAfterRegistration == cancelled

\* A wake that came during the poll polls again.
Recheck(f) ==
  /\ \/ ReadyAfterRegistration /\ At(f, "recheck", "ready")
     \/ ~ReadyAfterRegistration /\ At(f, "recheck", IF notified[f] THEN "woken" ELSE "parked")
  /\ UNCHANGED <<cancelled, waiters, context, polls, canceller, waking, notified>>

\* The select took another branch.
DropFuture(f) ==
  /\ pc[f] \in {"parked", "woken", "ready"}
  /\ pc' = [pc EXCEPT ![f] = "dropped"]
  /\ waiters' = [waiters EXCEPT ![f] = NoWaker]
  /\ UNCHANGED <<cancelled, context, polls, canceller, waking, notified>>

-----------------------------------------------------------------------------
\* The swap: only the call that raised the flag wakes anyone.
Swap(c) ==
  /\ canceller[c] = "idle" /\ cancelled' = TRUE
  /\ canceller' = [canceller EXCEPT ![c] = IF cancelled THEN "returned" ELSE "take"]
  /\ UNCHANGED <<waiters, pc, context, polls, waking, notified>>

Take(c) ==
  /\ canceller[c] = "take" /\ canceller' = [canceller EXCEPT ![c] = "wake"]
  /\ waking' = [waking EXCEPT ![c] = waiters] /\ waiters' = None
  /\ UNCHANGED <<cancelled, pc, context, polls, notified>>

\* The wakers are woken one after the other, outside the lock; one of a task the
\* future left wakes nothing that polls it.
Wake(c, f) ==
  /\ canceller[c] = "wake" /\ waking[c][f] # NoWaker
  /\ waking' = [waking EXCEPT ![c][f] = NoWaker]
  /\ pc' = IF waking[c][f] = context[f] /\ pc[f] = "parked" THEN [pc EXCEPT ![f] = "woken"]
           ELSE pc
  /\ notified' = [notified EXCEPT ![f] = @ \/ waking[c][f] = context[f]]
  /\ UNCHANGED <<cancelled, waiters, context, polls, canceller>>

Returned(c) ==
  /\ canceller[c] = "wake" /\ waking[c] = None
  /\ canceller' = [canceller EXCEPT ![c] = "returned"]
  /\ UNCHANGED <<cancelled, waiters, pc, context, polls, waking, notified>>

\* The executor handled an interruption.
Reset ==
  /\ cancelled /\ cancelled' = FALSE
  /\ UNCHANGED <<waiters, pc, context, polls, canceller, waking, notified>>

Next ==
  \/ \E f \in Futures :
       \/ \E w \in Wakers : Poll(f, w)
       \/ Register(f) \/ Recheck(f) \/ DropFuture(f)
       \/ \E c \in Cancellers : Wake(c, f)
  \/ \E c \in Cancellers : Swap(c) \/ Take(c) \/ Returned(c)
  \/ Reset
Spec == Init /\ [][Next]_vars
-----------------------------------------------------------------------------
\* A future is polled with a waker of its task, and only a call that took the
\* wakers holds some.
TypeOK ==
  /\ cancelled \in BOOLEAN /\ notified \in [Futures -> BOOLEAN]
  /\ pc \in [Futures -> {"idle", "register", "recheck", "parked", "woken", "ready", "dropped"}]
  /\ polls \in [Futures -> 0 .. MaxPolls]
  /\ canceller \in [Cancellers -> {"idle", "take", "wake", "returned"}]
  /\ waiters \in [Futures -> Wakers \cup {NoWaker}]
  /\ context \in [Futures -> Wakers \cup {NoWaker}]
  /\ waking \in [Cancellers -> [Futures -> Wakers \cup {NoWaker}]]
  /\ \A f \in Futures : pc[f] # "idle" => context[f] \in Wakers
  /\ \A c \in Cancellers : waking[c] # None => canceller[c] = "wake"

\* No future sleeps through a cancellation: while the signal stands, a parked one
\* has the waker of its last poll in the hands of a call that will wake it, or
\* registered where a call that raised the flag has still to take it.
CancelWakesEverySleeper ==
  cancelled =>
    \A f \in Futures : pc[f] = "parked" =>
      \E c \in Cancellers :
        \/ canceller[c] = "wake" /\ waking[c][f] = context[f]
        \/ canceller[c] = "take" /\ waiters[f] = context[f]
==============================================================================
