---------------------------- MODULE ContextWindow ----------------------------
(***************************************************************************)
(* The sliding window of one run's requests: ContextWindowState of         *)
(* crates/intention-engine/src/context_window.rs and the places of         *)
(* runtime.rs that send a request, observe its usage and run a pass.       *)
(*                                                                         *)
(* A size is a number of units, one unit being the four characters of one  *)
(* estimated token.  The provider is external: it counts every unit of a   *)
(* request as a token and adds Overhead, the instructions and definitions  *)
(* the estimate does not measure.                                          *)
(***************************************************************************)
EXTENDS Naturals, Sequences, FiniteSets, FiniteSetsExt, Selections

CONSTANTS
  Window,       \* context_window_tokens
  Compressed,   \* units of a compressed result: its first characters and the marker
  Overhead,     \* what the provider counts beyond the messages
  MaxMessages,  \* bound: messages of one attempt
  MaxAttempts   \* provider attempts of one run

ContextWindowAssumption ==
  /\ {Window, Compressed, Overhead, MaxMessages, MaxAttempts} \subseteq Nat
  /\ Compressed > 0 /\ MaxAttempts > 0

NotReported == <<>>
Sizes == {1, Compressed + 1, Compressed + 3}
Message(role, size) == [role |-> role, size |-> size]

VARIABLES
  input,       \* the messages the run started with
  extra,       \* what joined the run and survives an attempt
  messages,    \* the context of the attempt
  reasoning,   \* units of its reasoning attachments
  marked,      \* the messages that carry a cache marker
  tokens,      \* calibrated_input_tokens, if any
  characters,  \* calibrated_characters
  request,     \* units of the request in flight
  unanswered,  \* calls of the batch without a result
  attempt, phase, next  \* next: where a pass returns to

context == <<input, extra, messages, reasoning, marked>>
calibration == <<tokens, characters>>
vars == <<context, calibration, request, unanswered, attempt, phase, next>>

\* message_characters and reasoning_characters.
Characters(list, thought) == Total([i \in DOMAIN list |-> list[i].size], thought)

Init ==
  /\ input \in {<<Message("system", 1), Message("user", 1)>>, <<Message("user", 2)>>}
  /\ extra = <<>> /\ messages = input /\ reasoning = 0 /\ marked = {}
  /\ tokens = NotReported /\ characters = 0 /\ request = 0 /\ unanswered = 0
  /\ attempt = 1 /\ phase = "pass" /\ next = "send"

-----------------------------------------------------------------------------
(* One pass.                                                               *)

\* Plausible bug: the attachments are left out of the estimate.
EstimateFault ==
  LET now == Characters(messages, 0)
  IN IF tokens = NotReported THEN now
     ELSE tokens[1] + (IF now > characters THEN now - characters ELSE 0)

\* estimate_tokens, with its saturating subtraction.
Estimate ==
  LET now == Characters(messages, reasoning)
  IN IF tokens = NotReported THEN now
     ELSE tokens[1] + (IF now > characters THEN now - characters ELSE 0)

\* Plausible bug: results that would not shrink are compressed again.
CompressibleFault == {i \in DOMAIN messages : messages[i].role = "tool"}

Compressible ==
  {i \in DOMAIN messages : messages[i].role = "tool" /\ Compressed < messages[i].size}

\* largest_compressible_tool_result: the last of the longest.
Largest ==
  Max({i \in Compressible : \A j \in Compressible : messages[j].size <= messages[i].size})

Compress ==
  /\ phase = "pass" /\ Estimate > Window /\ Compressible # {}
  /\ messages' = [messages EXCEPT ![Largest].size = Compressed]
  /\ UNCHANGED <<input, extra, reasoning, marked, calibration, request, unanswered,
                 attempt, phase, next>>

\* leading_system_block_end.
SystemBlock ==
  {i \in DOMAIN messages : \A j \in 1..i : messages[j].role = "system"}

\* Plausible bug: the markers of the previous pass are not cleared.
MarkFault ==
  marked' = marked \cup {Len(messages)} \cup (IF SystemBlock = {} THEN {} ELSE {Max(SystemBlock)})

Mark ==
  marked' = {Len(messages)} \cup (IF SystemBlock = {} THEN {} ELSE {Max(SystemBlock)})

PassEnds ==
  /\ phase = "pass" /\ (Estimate <= Window \/ Compressible = {})
  /\ Mark /\ phase' = next
  /\ UNCHANGED <<input, extra, messages, reasoning, calibration, request, unanswered,
                 attempt, next>>

Pass(then) == phase' = "pass" /\ next' = then

-----------------------------------------------------------------------------
(* The attempt.                                                            *)

Send ==
  /\ phase = "send"
  /\ request' = Characters(messages, reasoning)
  /\ phase' = "stream"
  /\ UNCHANGED <<context, calibration, unanswered, attempt, next>>

\* observe_usage.
ReportUsage ==
  /\ phase = "stream"
  /\ \/ tokens' = <<request + Overhead>> /\ characters' = request
     \/ tokens' = NotReported /\ characters' = 0
  /\ phase' = "used"
  /\ UNCHANGED <<context, request, unanswered, attempt, next>>

Room(n) == Len(messages) + n <= MaxMessages

\* The response ends with calls: the assistant message carries their
\* arguments, and an attachment the reasoning of the round.
ReceiveCalls ==
  /\ phase \in {"stream", "used"}
  /\ \E n \in {1, 2}, thought \in {0, 1} :
       /\ Room(n + 1)
       /\ messages' = Append(messages, Message("assistant", n))
       /\ reasoning' = reasoning + thought
       /\ unanswered' = n
  /\ phase' = "batch"
  /\ UNCHANGED <<input, extra, marked, calibration, request, attempt, next>>

AppendResult ==
  /\ phase = "batch" /\ unanswered > 0
  /\ \E size \in Sizes : messages' = Append(messages, Message("tool", size))
  /\ unanswered' = unanswered - 1
  /\ Pass("batch")
  /\ UNCHANGED <<input, extra, reasoning, marked, calibration, request, attempt>>

\* Plausible bug: the turns that joined are sent without a pass.
JoinFault ==
  /\ \E n \in {1, 2} :
       /\ Room(1)
       /\ messages' = Append(messages, Message("user", n))
       /\ extra' = Append(extra, Message("user", n))
  /\ phase' = "send" /\ UNCHANGED next

\* A pending turn or an interruption notice joins the context.
Join ==
  /\ \E n \in {1, 2} :
       /\ Room(1)
       /\ messages' = Append(messages, Message("user", n))
       /\ extra' = Append(extra, Message("user", n))
  /\ Pass("send")

ContinueJoined ==
  /\ \/ phase \in {"stream", "used"}
     \/ phase = "batch" /\ unanswered = 0
  /\ Join
  /\ UNCHANGED <<input, reasoning, marked, calibration, request, unanswered, attempt>>

ContinueBatch ==
  /\ phase = "batch" /\ unanswered = 0
  /\ Pass("send")
  /\ UNCHANGED <<context, calibration, request, unanswered, attempt>>

\* A retryable failure before any durable output: the next attempt accounts from
\* nothing.  An interruption may end the wait with its notice.
Retry ==
  /\ phase \in {"stream", "used"} /\ attempt < MaxAttempts
  /\ \A i \in DOMAIN messages : messages[i].role # "assistant"
  /\ \E notice \in {<<>>, <<Message("user", 1)>>} :
       /\ Room(Len(notice))
       /\ extra' = extra \o notice
       /\ messages' = input \o extra'
  /\ reasoning' = 0 /\ marked' = {}
  /\ tokens' = NotReported /\ characters' = 0
  /\ attempt' = attempt + 1
  /\ Pass("send")
  /\ UNCHANGED <<input, request, unanswered>>

RunEnds ==
  /\ \/ phase \in {"stream", "used", "send"}
     \/ phase = "batch" /\ unanswered = 0
  /\ phase' = "ended"
  /\ UNCHANGED <<context, calibration, request, unanswered, attempt, next>>

Next ==
  \/ Compress \/ PassEnds \/ Send \/ ReportUsage \/ ReceiveCalls \/ AppendResult
  \/ ContinueJoined \/ ContinueBatch \/ Retry \/ RunEnds

Fairness == WF_vars(Compress) /\ WF_vars(PassEnds)
Spec == Init /\ [][Next]_vars /\ Fairness
-----------------------------------------------------------------------------
InPass == phase = "pass"

TypeOK ==
  /\ phase \in {"pass", "send", "stream", "used", "batch", "ended"}
  /\ (tokens = NotReported \/ tokens[1] \in Nat) /\ {reasoning, characters, request} \subseteq Nat
  /\ marked \subseteq DOMAIN messages /\ unanswered \in 0..2 /\ attempt \in 1..MaxAttempts

\* Once the provider reported a count, whatever was compressed, appended, or
\* attached since, the next request is within the window by the provider's own
\* measure, unless no result is left to compress; and it carries the markers
\* of its own prefix only.
RequestsAreWindowed ==
  phase = "stream" =>
    /\ tokens = NotReported \/ request + Overhead <= Window \/ Compressible = {}
    /\ Cardinality(marked) <= 2
    /\ marked \subseteq {Len(messages)} \cup SystemBlock

\* Every pass ends, even when nothing brings the request under the window.
PassesEnd == InPass ~> ~InPass
==============================================================================
