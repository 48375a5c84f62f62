--------------------------- MODULE ProvisionalText ---------------------------
(***************************************************************************)
(* The provisional text of one run: what the model streams before its row  *)
(* is committed, from the executor's port and the run's two pending        *)
(* windows (RunTextDeltas, crates/intention-daemon/src/lib.rs) to the      *)
(* client's two buffers (crates/intention-client/src/lib.rs) and the text  *)
(* report of the headless command (crates/intention-tui/src/headless.rs).  *)
(*                                                                         *)
(* Three threads meet at the lock of the windows: the executor, which      *)
(* streams text and flushes before it publishes a committed row, the       *)
(* cadence task, and a connection that subscribes or ends.  Frames reach a *)
(* subscribed client in the order of their broadcasts, so each broadcast   *)
(* is applied to the client at once; queues are SessionStream's.           *)
(*                                                                         *)
(* A chunk of text is its step, its place in its channel's text, and       *)
(* whether it is blank.  Every chunk has the same length.  A stop from     *)
(* outside the executor and the frames of other runs are left out.         *)
(***************************************************************************)
EXTENDS Naturals, Sequences, SequencesExt

CONSTANTS
  Window,            \* RUN_TEXT_DELTA_MAX_BYTES, in chunks
  MaxSteps,          \* bound: model steps of the run
  MaxChunks,         \* bound: chunks of a step, both channels together
  MaxSubscriptions   \* bound: later subscriptions of the client

ASSUME ProvisionalTextAssumption ==
  /\ Window \in Nat \ {0}
  /\ MaxSteps \in Nat /\ MaxChunks \in Nat /\ MaxSubscriptions \in Nat

VARIABLES
  pc,          \* where the executor stands
  goal,        \* what it does after it published the row
  step,        \* next_step: model steps begun
  said,        \* the chunks of the current step, by channel
  pending,     \* the pending window of each channel
  holder,      \* who holds the lock of the windows
  turn,        \* the channels the holder has still to publish
  finished,    \* the run's execution returned
  ticking,     \* the cadence task still runs
  ended,       \* the run's durable status is terminal
  transcript,  \* durable: the steps that have an assistant row
  published,   \* history: the steps whose row was broadcast
  subscribed,  \* the client is registered
  subscriptions, \* how often it subscribed after the run began
  carried,     \* the newest step its snapshot had, until a row came
  known,       \* the client projects this run
  provisional, \* provisional_step
  buffer,      \* the provisional text of each channel
  streamed,    \* the step the report last streamed an answer of
  printed      \* what the report printed of each step's answer

executor == <<pc, goal, step, said>>
windows == <<pending, holder, turn>>
run == <<finished, ended, transcript>>
client == <<subscribed, subscriptions, carried, known, provisional, buffer>>
report == <<streamed, printed>>
vars == <<executor, windows, run, ticking, published, client, report>>

-----------------------------------------------------------------------------
Channel == {"reasoning", "answer"}
Steps == 1 .. MaxSteps
Place == {"idle", "stream", "flush", "row", "failing", "status", "finish", "returned", "done"}

Empty == [c \in Channel |-> <<>>]
NoText == [step |-> 0, text |-> <<>>, dropped |-> FALSE]

Blank(text) == \A i \in DOMAIN text : text[i].blank

Init ==
  /\ pc = "idle" /\ goal = "idle" /\ step = 0 /\ said = Empty
  /\ pending = [c \in Channel |-> NoText]
  /\ holder = "nobody" /\ turn = <<>>
  /\ finished = FALSE /\ ticking = TRUE /\ ended = FALSE
  /\ transcript = {} /\ published = {}
  /\ subscribed \in BOOLEAN /\ subscriptions = 0 /\ carried = 0 /\ known = subscribed
  /\ provisional = 0 /\ buffer = Empty
  /\ streamed = 0 /\ printed = [s \in Steps |-> <<>>]

-----------------------------------------------------------------------------
(* The client.                                                             *)

ClearProvisional == provisional' = 0 /\ buffer' = Empty

\* apply_text_delta, then the report's delta: a chunk of a new step replaces
\* both buffers, and a run the client does not project is ignored.
ApplyTextDelta(c, s, text) ==
  IF subscribed /\ known
  THEN /\ provisional' = s
       /\ buffer' = [(IF provisional = s THEN buffer ELSE Empty) EXCEPT ![c] = @ \o text]
       /\ IF c = "answer"
          THEN streamed' = s /\ printed' = [printed EXCEPT ![s] = @ \o text]
          ELSE UNCHANGED report
  ELSE UNCHANGED <<provisional, buffer, report>>

\* The row of step s: the watermark drops it, or the client replaces the text
\* it shows, and the report prints the row unless it streamed that step.
ApplyContent(s) ==
  IF subscribed /\ carried # s
  THEN /\ ClearProvisional
       /\ printed' = IF (provisional # 0 /\ provisional = streamed) \/ Blank(said["answer"])
                     THEN printed ELSE [printed EXCEPT ![s] = said["answer"]]
       /\ UNCHANGED streamed
  ELSE UNCHANGED <<provisional, buffer, report>>

\* A terminal status frame is projected, and ends the provisional text.
ApplyTerminalStatus ==
  IF subscribed THEN known' = TRUE /\ ClearProvisional
  ELSE UNCHANGED <<known, provisional, buffer>>

Subscribe ==
  /\ ~subscribed
  /\ subscriptions < MaxSubscriptions
  /\ subscriptions' = subscriptions + 1
  /\ subscribed' = TRUE
  /\ carried' = IF transcript = {} THEN 0 ELSE CHOOSE s \in transcript : \A q \in transcript : q <= s
  /\ known' = ~ended
  /\ ClearProvisional
  /\ UNCHANGED <<executor, windows, run, ticking, published, report>>

\* The stream ends for any reason: its queue overflowed, or the client left.
EndStream ==
  /\ subscribed
  /\ subscribed' = FALSE
  /\ ClearProvisional
  /\ UNCHANGED <<executor, windows, run, ticking, published, subscriptions, carried, known,
                 report>>

-----------------------------------------------------------------------------
(* The executor's stream.                                                  *)

BeginStep ==
  /\ pc = "idle"
  /\ step < MaxSteps
  /\ step' = step + 1
  /\ said' = Empty
  /\ pc' = "stream"
  /\ UNCHANGED <<goal, windows, run, ticking, published, client, report>>

\* Fault: a window keeps the text of the step before.
RetainFault(c, chunk) ==
  IF pending[c].dropped THEN pending[c]
  ELSE IF Len(pending[c].text) + 1 > Window
       THEN [step |-> step, text |-> <<>>, dropped |-> TRUE]
       ELSE [pending[c] EXCEPT !.step = step, !.text = Append(@, chunk)]

\* Fault: the chunk that crosses the bound is kept.
RetainBoundFault(c, chunk) ==
  LET w == IF pending[c].step # step THEN [NoText EXCEPT !.step = step] ELSE pending[c]
  IN  IF w.dropped THEN w
      ELSE IF Len(w.text) > Window THEN [w EXCEPT !.text = <<>>, !.dropped = TRUE]
           ELSE [w EXCEPT !.text = Append(@, chunk)]

\* text_delta: the window of the channel after one more chunk.
Retain(c, chunk) ==
  LET w == IF pending[c].step # step THEN [NoText EXCEPT !.step = step] ELSE pending[c]
  IN  IF w.dropped THEN w
      ELSE IF Len(w.text) + 1 > Window THEN [w EXCEPT !.text = <<>>, !.dropped = TRUE]
           ELSE [w EXCEPT !.text = Append(@, chunk)]

\* One streamed chunk: the port retains it if the session is followed, by this
\* client or by another one.
TextDelta(c, blank) ==
  /\ pc = "stream"
  /\ Len(said["reasoning"]) + Len(said["answer"]) < MaxChunks
  /\ LET chunk == [step |-> step, at |-> Len(said[c]) + 1, blank |-> blank] IN
     /\ said' = [said EXCEPT ![c] = Append(@, chunk)]
     /\ \/ ~subscribed /\ UNCHANGED pending
        \/ /\ holder = "nobody"
           /\ pending' = [pending EXCEPT ![c] = Retain(c, chunk)]
  /\ UNCHANGED <<pc, goal, step, holder, turn, run, ticking, published, client, report>>

\* commit_step: a step with an answer commits its row, one with reasoning alone
\* only if the round did not fail.  A failed round with a row ends the run.
CommitStep(failed) ==
  /\ pc = "stream"
  /\ LET answered == ~Blank(said["answer"]) IN
     IF answered \/ (~failed /\ ~Blank(said["reasoning"]))
     THEN /\ transcript' = transcript \cup {step}
          /\ pc' = "flush"
          /\ goal' = IF failed THEN "failing" ELSE "idle"
     ELSE /\ pc' = "idle"
          /\ UNCHANGED <<transcript, goal>>
  /\ UNCHANGED <<step, said, windows, finished, ended, ticking, published, client, report>>

\* The write of a row or of the outcome is refused: the execution returns.
RefuseWrite ==
  /\ pc \in {"stream", "idle", "failing"}
  /\ pc' = "finish"
  /\ UNCHANGED <<goal, step, said, windows, run, ticking, published, client, report>>

-----------------------------------------------------------------------------
(* Publication.                                                            *)

\* flush takes the lock and publishes the reasoning before the answer.
StartFlush(t) ==
  /\ holder = "nobody"
  /\ holder' = t
  /\ turn' = <<"reasoning", "answer">>
  /\ UNCHANGED pending

\* Fault: a row is published without the text that is pending.
FlushBeforeRowFault ==
  /\ pc = "flush"
  /\ pc' = "row"
  /\ UNCHANGED <<goal, step, said, windows, run, ticking, published, client, report>>

FlushBeforeRow ==
  /\ pc = "flush"
  /\ StartFlush("executor")
  /\ pc' = "row"
  /\ UNCHANGED <<goal, step, said, run, ticking, published, client, report>>

\* The cadence task wakes up once more after the run's execution returned, at most.
Tick ==
  /\ ticking
  /\ StartFlush("cadence")
  /\ UNCHANGED <<executor, run, ticking, published, client, report>>

\* One window is published, or cleared when it is blank.
FlushChannel ==
  /\ turn # <<>>
  /\ LET c == Head(turn)
         w == pending[c]
     IN  /\ pending' = [pending EXCEPT ![c].text = <<>>]
         /\ IF Blank(w.text) THEN UNCHANGED <<provisional, buffer, report>>
            ELSE ApplyTextDelta(c, w.step, w.text)
  /\ turn' = Tail(turn)
  /\ holder' = IF Len(turn) = 1 THEN "nobody" ELSE holder
  /\ ticking' = (ticking /\ ~(holder = "cadence" /\ Len(turn) = 1 /\ finished))
  /\ UNCHANGED <<executor, run, published, subscribed, subscriptions, carried, known>>

PublishRow ==
  /\ pc = "row"
  /\ holder # "executor"
  /\ ApplyContent(step)
  /\ carried' = 0
  /\ published' = published \cup {step}
  /\ pc' = goal
  /\ UNCHANGED <<goal, step, said, windows, run, ticking, subscribed, subscriptions, known>>

\* The outcome of the run: finish_run, or fail_active_run for an execution that
\* returned an error.
EndRun ==
  /\ (pc = "idle" /\ step > 0) \/ pc \in {"failing", "returned"}
  /\ ended' = TRUE
  /\ pc' = "status"
  /\ UNCHANGED <<goal, step, said, windows, finished, transcript, ticking, published, client,
                 report>>

\* Its status is published without a flush.
PublishStatus ==
  /\ pc = "status"
  /\ ApplyTerminalStatus
  /\ pc' = IF finished THEN "done" ELSE "finish"
  /\ UNCHANGED <<goal, step, said, windows, run, ticking, published, subscribed, subscriptions,
                 carried, report>>

\* Fault: the windows keep what was not published.
FinishFault ==
  /\ pc = "finish"
  /\ holder = "nobody"
  /\ finished' = TRUE
  /\ pc' = IF ended THEN "done" ELSE "returned"
  /\ UNCHANGED <<goal, step, said, windows, ended, transcript, ticking, published, client, report>>

\* finish discards the text of the last step, then ends the cadence.
Finish ==
  /\ pc = "finish"
  /\ holder = "nobody"
  /\ pending' = [c \in Channel |-> [pending[c] EXCEPT !.text = <<>>, !.dropped = FALSE]]
  /\ finished' = TRUE
  /\ pc' = IF ended THEN "done" ELSE "returned"
  /\ UNCHANGED <<goal, step, said, holder, turn, ended, transcript, ticking, published, client,
                 report>>

-----------------------------------------------------------------------------
Next ==
  \/ Subscribe \/ EndStream
  \/ BeginStep
  \/ \E c \in Channel, blank \in BOOLEAN : TextDelta(c, blank)
  \/ \E failed \in BOOLEAN : CommitStep(failed)
  \/ RefuseWrite
  \/ FlushBeforeRow \/ Tick \/ FlushChannel
  \/ PublishRow \/ EndRun \/ PublishStatus \/ Finish

Spec == Init /\ [][Next]_vars

-----------------------------------------------------------------------------
Chunks == [step : Steps, at : 1 .. MaxChunks, blank : BOOLEAN]
Windows == [step : 0 .. MaxSteps, text : Seq(Chunks), dropped : BOOLEAN]

TypeOK ==
  /\ pc \in Place /\ goal \in {"idle", "failing"}
  /\ step \in 0 .. MaxSteps
  /\ said \in [Channel -> Seq(Chunks)]
  /\ pending \in [Channel -> Windows]
  /\ \A c \in Channel : pending[c].step <= step /\ Len(pending[c].text) <= Window
  /\ holder \in {"nobody", "executor", "cadence"}
  /\ turn \in {<<>>, <<"answer">>, <<"reasoning", "answer">>}
  /\ holder = "nobody" <=> turn = <<>>
  /\ finished \in BOOLEAN /\ ticking \in BOOLEAN /\ ended \in BOOLEAN
  /\ published \subseteq transcript /\ transcript \subseteq 1 .. step
  /\ subscribed \in BOOLEAN /\ known \in BOOLEAN
  /\ subscriptions \in 0 .. MaxSubscriptions
  /\ carried \in transcript \cup {0}
  /\ provisional \in 0 .. step /\ streamed \in 0 .. step
  /\ buffer \in [Channel -> Seq(Chunks)]
  /\ printed \in [Steps -> Seq(Chunks)]

\* A client never receives provisional text of a step behind the row of that
\* step or of a later one, whichever thread publishes it.
TextPrecedesItsRow ==
  [][ (\E c \in Channel : Len(buffer'[c]) > Len(buffer[c]))
        => \A s \in published : s < provisional' ]_vars

\* What a client shows as provisional text is of one step and in the order it
\* was streamed, without repetition: no retried round leaks into the next one.
BuffersHoldOneStep ==
  \A c \in Channel :
    /\ \A i \in DOMAIN buffer[c] : buffer[c][i].step = provisional
    /\ \A i, j \in DOMAIN buffer[c] : i < j => buffer[c][i].at < buffer[c][j].at

\* Once the execution has returned, the cadence task, which may wake up once
\* more, publishes nothing.
NothingFollowsTheExecution ==
  [][ finished => \A c \in Channel : Len(buffer'[c]) <= Len(buffer[c]) ]_vars

\* Text is shown while its step is streamed and at no other time: never behind
\* its row, and never after the execution.
TextIsInTime == TextPrecedesItsRow /\ NothingFollowsTheExecution

-----------------------------------------------------------------------------
(* What the comments say of the report.                                    *)

\* "a step's pipe output stays exactly the answer it commits" (TextReport): a
\* report that follows the run from its beginning and printed any of a step has
\* printed all of its answer but for blanks when it has received the step's row.
PipeOutputIsTheAnswer ==
  [][ \A s \in published' \ published :
        (subscribed /\ subscriptions = 0 /\ printed[s] # <<>>)
          => \A chunk \in Range(said["answer"]) : ~chunk.blank => chunk \in Range(printed'[s])
    ]_vars
=============================================================================
