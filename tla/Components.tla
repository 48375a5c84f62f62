----------------------------- MODULE Components -----------------------------
(***************************************************************************)
(* The components that bring a daemon up and keep its links, its commands  *)
(* and its database, and those through which a run exchanges with a model: *)
(* its first request, the requests that fit a window, and the translation  *)
(* of a response.  Side by side.                                           *)
(* A behaviour explores one of them, named by part, whose variables are x1,*)
(* x2, ...; those it has no use for hold Unused.  A property says nothing  *)
(* of another part's behaviours.                                           *)
(***************************************************************************)
EXTENDS PartState, Naturals, Sequences

CONSTANTS
  Clients, Daemons, Inodes, Nobody, MaxTries, MaxMessageBytes, ChunkBytes, MaxMessages,
  Links, Capacity, MaxFrames, Inline, MaxPresses, MaxOutput, MaxWritten, Futures, Wakers,
  NoWaker, MaxPolls, Documents, Budget, RowSizes, MaxStarts, Tokens, Compressed,
  Overhead, MaxContext, Attempts, MaxHistory, CallIds, Absent, MaxItems

B == INSTANCE Bootstrap WITH at <- x1, tries <- x2, link <- x3, lock <- x4,
  stage <- x5, path <- x6, seen <- x7, raced <- x8
L == INSTANCE LineFraming WITH sent <- x1, writing <- x2, open <- x3,
  wire <- x4, residual <- x5, reading <- x6, received <- x7, failure <- x8
Link == INSTANCE HostConnection WITH Connections <- Links, phase <- x1,
  read <- x2, asked <- x3, outcome <- x4, guard <- x5, queue <- x6,
  out <- x7, answered <- x8, closing <- x9, registry <- x10, frames <- x11
D == INSTANCE PasteDetector WITH text <- x1, alone <- x2, confirmed <- x3,
  held <- x4, age <- x5, line <- x6, pressed <- x7
E == INSTANCE CommandExecution WITH pc <- x1, declared <- x2,
  cancelled <- x3, late <- x4, holds <- x5, alive <- x6, written <- x7,
  joined <- x8, kept <- x9, cut <- x10, reader <- x11, consumed <- x12,
  observed <- x13, over <- x14, cause <- x15, result <- x16
C == INSTANCE CancelSignal WITH Cancellers <- Clients, pc <- x1,
  waiters <- x2, cancelled <- x3, context <- x4, polls <- x5, canceller <- x6,
  waking <- x7, notified <- x8
G == INSTANCE Catalog WITH Roots <- Sessions, Sizes <- RowSizes, stage <- x5,
  starts <- x2, selected <- x3, file <- x4, journal <- x1, gate <- x6,
  call <- x7, joined <- x8, rootOf <- x9, answer <- x10
Fit == INSTANCE ContextWindow WITH Window <- Tokens, MaxMessages <- MaxContext,
  MaxAttempts <- Attempts, input <- x1, extra <- x2, messages <- x3, request <- x4,
  marked <- x5, tokens <- x6, characters <- x7, reasoning <- x8, unanswered <- x9,
  attempt <- x10, phase <- x11, next <- x12
Replay == INSTANCE StartingContext WITH run <- x1, rows <- x2, first <- x3, request <- x4
Answer == INSTANCE ProviderStream WITH Ids <- CallIds, adapter <- x1, native <- x2,
  pending <- x3, terminal <- x4, fragments <- x5, reason <- x6, reported <- x7,
  presence <- x8, lifecycle <- x9, delivered <- x10, outcome <- x11

Init ==
  /\ part \in Parts
  /\ \/ part = "bootstrap" /\ B!Init /\ Unused8
     \/ part = "framing" /\ L!Init /\ Unused8
     \/ part = "connection" /\ Link!Init /\ Unused11
     \/ part = "paste" /\ D!Init /\ Unused7
     \/ part = "execution" /\ E!Init /\ Unused16
     \/ part = "cancel" /\ C!Init /\ Unused8
     \/ part = "catalog" /\ G!Init /\ Unused10
     \/ part = "context" /\ Fit!Init /\ Unused12
     \/ part = "replay" /\ Replay!Init /\ Unused4
     \/ part = "provider" /\ Answer!Init /\ Unused11

Next ==
  \/ part = "bootstrap" /\ B!Next /\ UNCHANGED <<part, Past8>>
  \/ part = "framing" /\ L!Next /\ UNCHANGED <<part, Past8>>
  \/ part = "connection" /\ Link!Next /\ UNCHANGED <<part, Past11>>
  \/ part = "paste" /\ D!Next /\ UNCHANGED <<part, Past7>>
  \/ part = "execution" /\ E!Next /\ UNCHANGED <<part, Past16>>
  \/ part = "cancel" /\ C!Next /\ UNCHANGED <<part, Past8>>
  \/ part = "catalog" /\ G!Next /\ UNCHANGED <<part, Past10>>
  \/ part = "context" /\ Fit!Next /\ UNCHANGED <<part, Past12>>
  \/ part = "replay" /\ Replay!Next /\ UNCHANGED <<part, Past4>>
  \/ part = "provider" /\ Answer!Next /\ UNCHANGED <<part, Past11>>

Spec == Init /\ [][Next]_vars

-----------------------------------------------------------------------------
ASSUME Assumptions ==
  /\ B!BootstrapAssumption /\ L!LineFramingAssumption /\ Link!HostConnectionAssumption
  /\ D!PasteDetectorAssumption /\ E!CommandExecutionAssumption /\ C!CancelSignalAssumption
  /\ G!CatalogAssumption /\ Fit!ContextWindowAssumption /\ Replay!StartingContextAssumption
  /\ Answer!ProviderStreamAssumption

\* Every component keeps the types its module declares.
TypeOK ==
  /\ part = "bootstrap" => B!TypeOK
  /\ part = "framing" => L!TypeOK
  /\ part = "connection" => Link!TypeOK
  /\ part = "paste" => D!TypeOK
  /\ part = "execution" => E!TypeOK
  /\ part = "cancel" => C!TypeOK
  /\ part = "catalog" => G!TypeOK
  /\ part = "context" => Fit!TypeOK
  /\ part = "replay" => Replay!TypeOK
  /\ part = "provider" => Answer!TypeOK

\* At most one living process serves the endpoint, however many clients launch a
\* daemon over a stale socket (connect_or_bootstrap, bind_local).
OneDaemonServes == part = "bootstrap" => B!OneDaemonServes

\* The lines that were sent arrive whole and in order, although reads are dropped
\* in their middle (receive_message).
LinesArriveWhole == part = "framing" => L!LinesArriveWhole

\* A connection is registered at most once, and each of its requests is answered
\* or ends it, a full queue and an oversized reply included (dispatch_request,
\* SubscriptionGuard, write_message_or_rejection).
ConnectionsAnswer == part = "connection" => Link!ConnectionsAnswer

\* Key presses arrive once and in order although some are held back as a
\* possible paste (note_press).
PressesArriveOnceInOrder == part = "paste" => D!PressesArriveOnceInOrder

\* A command's complete output is whole, and an interruption leaves no process of
\* its group alive (bounded_output_with_timeout, terminate_process_tree).
CommandsEndWhole == part = "execution" => E!CommandsEndWhole

\* A cancellation wakes every future that sleeps on the signal (ModelCancellation).
CancelWakesEverySleeper == part = "cancel" => C!CancelWakesEverySleeper

\* The daemon serves a whole database, what it answered survives a crash, and a
\* snapshot fits the budget of a message (open, create_session,
\* bounded_snapshot_messages).
CatalogIsKept == part = "catalog" => G!CatalogIsKept

\* What goes to a provider and comes back is whole.  The first request of a run
\* replays what the session said with each answered call beside its result, and
\* every request whose size the provider's count tells fits the window, unless no
\* result is left to compress (model_context_messages, ContextWindowState::apply);
\* the events of a response keep the provider's order and end once, and each tool
\* call carries the fragments of its own index (GenericTranslator, merge).
ModelExchangesAreWhole ==
  /\ part = "replay" => Replay!ContextsReplayWhole
  /\ part = "context" => Fit!RequestsAreWindowed
  /\ part = "provider" => Answer!StreamsKeepTheirOrder /\ Answer!CallsCarryTheirFragments
=============================================================================
