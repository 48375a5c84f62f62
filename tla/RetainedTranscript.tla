------------------------- MODULE RetainedTranscript -------------------------
(***************************************************************************)
(* The rows a terminal shows: the transcript one session stream retains    *)
(* with its epochs (SessionStreamState of intention-client), what the      *)
(* front end keeps by display row or by row index (app/transcript.rs,      *)
(* Pointer of tui/mod.rs), and the layout cache every frame is painted     *)
(* from (TranscriptLayoutCache of tui/layout.rs).                          *)
(*                                                                         *)
(* A committed row is an answer that carries reasoning, a tool call or the *)
(* result of one.  A display row is a pair: the row that owns it, 0 for    *)
(* the live tail, and what it shows of it.                                 *)
(***************************************************************************)
EXTENDS Naturals, Sequences, FiniteSets, SequencesExt, FiniteSetsExt

CONSTANTS
  Sessions,    \* the sessions the window opens
  NoSession,
  Retained,    \* RETAINED_TRANSCRIPT_MESSAGES
  MaxRows,     \* bound: the rows the sessions commit
  MaxEpoch     \* bound: reads, drains and expansions, but for a click they fall into

RetainedTranscriptAssumption ==
  /\ NoSession \notin Sessions
  /\ Retained \in Nat \ {0} /\ {MaxRows, MaxEpoch} \subseteq Nat

VARIABLES
  durable,                     \* per session: the committed rows
  session,                     \* AppState.session_id
  scope, messages,             \* SessionStreamState: session_id, messages,
  epoch, appendBase, appends,  \* transcript_epoch and its append-only run
  live,                        \* provisional_reasoning is not empty
  selection, expansions,       \* AppState, by display row and by row index
  reasoningEpoch, theme,
  cache,                       \* TranscriptLayoutCache
  drag,                        \* Pointer.drag, none or one
  named                        \* ghost: the rows the selection was dragged over, none or one set

client == <<scope, messages, epoch, appendBase, appends>>
display == <<selection, expansions, reasoningEpoch, named>>
vars == <<durable, session, client, live, display, theme, cache, drag>>

Kinds == {"answer", "call", "result"}
Themes == {"light", "dark"}
Ids(rows) == {rows[i].id : i \in DOMAIN rows}
Newest(rows) == SubSeq(rows, IF Len(rows) > Retained THEN Len(rows) - Retained + 1 ELSE 1, Len(rows))

-----------------------------------------------------------------------------
\* The rows of rows[i], a result being drawn by the call it answers: a call and
\* the result of it are committed in this order, and one call is open at most.
Answered(rows, i) == \E j \in i + 1 .. Len(rows) : rows[j].call = rows[i].id
Expanded(i) == \E e \in expansions : e.row = i
Block(rows, i, exp) ==
  LET id == rows[i].id IN
  CASE rows[i].kind = "answer" -> IF i \in exp THEN <<<<id, "shown">>, <<id, "rest">>>>
                                              ELSE <<<<id, "marker">>>>
    [] rows[i].kind = "call" -> IF Answered(rows, i) THEN <<<<id, "badge">>, <<id, "payload">>>>
                                                     ELSE <<<<id, "note">>>>
    [] OTHER -> IF rows[i].call \in Ids(rows) THEN <<>> ELSE <<<<id, "payload">>>>
Blocks(rows, first, exp) ==
  FlattenSeq([k \in 1 .. Len(rows) - first + 1 |-> Block(rows, first + k - 1, exp)])
Laid(rows, exp) == Blocks(rows, 1, exp)
ExpandedRows(exps) == {e.row : e \in exps}

\* What the selected display rows show.
Shown(rows, exp, range) ==
  {Laid(rows, exp)[r] : r \in {r \in range : r <= Len(Laid(rows, exp))}}

Init ==
  /\ durable = [s \in Sessions |-> <<>>]
  /\ session = NoSession /\ scope = NoSession /\ messages = <<>>
  /\ epoch = 0 /\ appendBase = 0 /\ appends = <<>> /\ live = FALSE
  /\ selection = {} /\ named = <<>> /\ expansions = {} /\ reasoningEpoch = 0
  /\ theme = "light" /\ drag = <<>>
  /\ cache = [theme |-> "light", epoch |-> 0, reasoning |-> 0, results |-> 0, len |-> 0,
              rows |-> <<>>]

-----------------------------------------------------------------------------
\* The daemon commits the next row of a session: the result of its newest call,
\* or a row of its own.
Commit(s, kind) ==
  LET rows == durable[s]
      id == 1 + FoldSet(LAMBDA t, n : n + Len(durable[t]), 0, Sessions) IN
  /\ id <= MaxRows
  /\ LET open == {i \in DOMAIN rows : rows[i].kind = "call" /\ ~Answered(rows, i)} IN
     \/ /\ kind = "result" /\ \E i \in open :
          durable' = [durable EXCEPT ![s] = Append(rows, [id |-> id, kind |-> kind, call |-> rows[i].id])]
     \/ /\ kind = "call" \/ (kind = "answer" /\ open = {})
        /\ durable' = [durable EXCEPT ![s] = Append(rows, [id |-> id, kind |-> kind, call |-> 0])]
  /\ UNCHANGED <<session, client, live, display, theme, cache, drag>>

\* Plausible bug: a replacement keeps the display's version.
NoteReplacementFault ==
  /\ selection' = {} /\ named' = <<>> /\ expansions' = {}
  /\ UNCHANGED reasoningEpoch
\* AppState::note_replacement.
NoteReplacement ==
  /\ selection' = {} /\ named' = <<>> /\ expansions' = {}
  /\ reasoningEpoch' = reasoningEpoch + 1

\* note_replacement of the client, then retain_newest, which may be one more.
Replaced(rows, from) ==
  LET last == from + 1 + (IF Len(rows) > Retained THEN 1 ELSE 0) IN
  /\ messages' = Newest(rows)
  /\ epoch' = last /\ appendBase' = last /\ appends' = <<>>

\* merge_transcript: a read of the session that is open joins its rows, by
\* identity; a read of another session seeds the state.
Merge(s) ==
  IF session = s /\ scope = s
    THEN /\ Replaced(LET rows == messages \o SelectSeq(durable[s], LAMBDA r : r.id \notin Ids(messages))
                     IN  SortSeq(rows, LAMBDA a, b : a.id < b.id), epoch)
         /\ UNCHANGED scope
    ELSE Replaced(durable[s], 0) /\ scope' = s

\* A snapshot opens the session it carries.
ApplySessionSnapshot(s) ==
  /\ reasoningEpoch < MaxEpoch
  /\ Merge(s) /\ session' = s /\ live' = FALSE
  /\ NoteReplacement
  /\ UNCHANGED <<durable, theme, cache, drag>>

\* The reply of a subscription is a second read.
ApplySessionStreamOpened(s) ==
  /\ session # NoSession /\ reasoningEpoch < MaxEpoch
  /\ Merge(s) /\ live' = FALSE
  /\ NoteReplacement
  /\ UNCHANGED <<durable, session, theme, cache, drag>>

\* Plausible bug: an appended row is not followed by retain_newest.
AppendedFault(row) ==
  /\ messages' = Append(messages, row)
  /\ epoch' = epoch + 1 /\ appends' = Append(appends, epoch + 1)
  /\ UNCHANGED <<appendBase, scope>>

\* note_append, then retain_newest: a front drain is a replacement.
Appended(row) ==
  LET rows == Append(messages, row) IN
  /\ messages' = Newest(rows)
  /\ IF Len(rows) > Retained
       THEN epoch' = epoch + 2 /\ appendBase' = epoch + 2 /\ appends' = <<>>
       ELSE epoch' = epoch + 1 /\ appends' = Append(appends, epoch + 1) /\ UNCHANGED appendBase
  /\ UNCHANGED scope

\* Plausible bug: only a read of the session counts as a replacement.
DrainedFault == FALSE
\* transcript_appended_since of the version before the frame is none.
Drained == appendBase' > epoch

\* A content frame: the next row of the session, or its newest again.
ApplyContent ==
  /\ scope # NoSession /\ reasoningEpoch < MaxEpoch
  /\ LET next == SelectSeq(durable[scope], LAMBDA r : \A id \in Ids(messages) : r.id > id) IN
     /\ next # <<>>
     /\ Appended(next[1])
     /\ live' = (live /\ next[1].kind # "answer")
     /\ IF Drained THEN NoteReplacement
        ELSE /\ UNCHANGED <<selection, expansions, reasoningEpoch>>
             /\ named' = IF next[1].kind = "result" THEN <<>> ELSE named
  /\ UNCHANGED <<durable, session, theme, cache, drag>>

\* A reasoning delta of a step; its end, with the run or with the stream.
Reason == scope # NoSession /\ ~live /\ live' = TRUE
          /\ UNCHANGED <<durable, session, client, display, theme, cache, drag>>
ClearProvisional == live /\ live' = FALSE
          /\ UNCHANGED <<durable, session, client, display, theme, cache, drag>>

-----------------------------------------------------------------------------
\* The row the live segment will become.
LiveReasoningRow == Len(messages) + 1
CarriesReasoning(i) ==
  \/ i = LiveReasoningRow /\ live
  \/ i \in DOMAIN messages /\ messages[i].kind = "answer"

\* Plausible bug: an expansion is only a matter of the block it grows.
ExpandedEpochFault == reasoningEpoch
ExpandedEpoch == reasoningEpoch + 1

\* apply_expand_reasoning: the block of a row index grows and the selection goes.
\* Ghost: the committed block that was meant.
Expand(i, of) ==
  /\ CarriesReasoning(i)
  /\ expansions' = expansions \cup {[row |-> i, of |-> of]}
  /\ reasoningEpoch' = ExpandedEpoch
  /\ selection' = {} /\ named' = <<>>

\* The key expands the newest block that carries reasoning.
ExpandNewest ==
  /\ reasoningEpoch < MaxEpoch
  /\ \E i \in 1 .. LiveReasoningRow :
       /\ Expand(i, IF i \in DOMAIN messages THEN messages[i].id ELSE 0)
       /\ \A j \in i + 1 .. LiveReasoningRow : ~CarriesReasoning(j)
  /\ UNCHANGED <<durable, session, client, live, theme, cache, drag>>

-----------------------------------------------------------------------------
(* The pointer: a press, the events of the held button, the release.  The  *)
(* frame it reads is the one painted last, and no replacement falls        *)
(* between that frame and the event.                                       *)

Painted ==
  /\ cache.theme = theme /\ cache.reasoning = reasoningEpoch /\ cache.epoch = epoch
  /\ cache.rows # <<>>

\* The cached rows, then the live tail.
LiveTail ==
  IF ~live THEN <<>>
  ELSE IF Expanded(LiveReasoningRow) THEN <<<<0, "shown">>, <<0, "rest">>>> ELSE <<<<0, "marker">>>>
Frame == cache.rows \o LiveTail
Between(r, q) == IF r <= q THEN r .. q ELSE q .. r

ToolResultCount == Cardinality({i \in DOMAIN messages : messages[i].kind = "result"})
\* What tells that committed rows moved: a replacement, an expansion or a result.
Look == <<reasoningEpoch, ToolResultCount>>

\* marker_target: the row index of the collapsed block a display row expands.
MarkerAt(r) ==
  IF Frame[r][2] # "marker" THEN 0
  ELSE IF Frame[r][1] = 0 THEN LiveReasoningRow
  ELSE CHOOSE i \in DOMAIN messages : messages[i].id = Frame[r][1]

\* apply_selection, for a gesture that began on the display row pressed: the rows
\* from wherever that row is now are the ones it dragged over, unless the rows
\* moved under the held button or it reaches the live tail.
Select(anchor, extent, pressed, look) ==
  LET over == {Frame[r] : r \in UNION {Between(q, extent) : q \in {q \in DOMAIN Frame : Frame[q] = pressed}}}
  IN /\ selection' = Between(anchor, extent)
     /\ named' = IF look = Look /\ 0 \notin {row[1] : row \in over \cup {pressed}} THEN <<over>> ELSE <<>>
     /\ UNCHANGED <<expansions, reasoningEpoch>>

\* A press anchors a drag at its row and, but for a marker, selects it.
Press(r) ==
  /\ Painted /\ drag = <<>> /\ r \in DOMAIN Frame /\ reasoningEpoch <= MaxEpoch
  /\ drag' = <<[anchor |-> r, marker |-> MarkerAt(r), pressed |-> Frame[r], look |-> Look]>>
  /\ IF MarkerAt(r) = 0 THEN Select(r, r, Frame[r], Look) ELSE UNCHANGED display
  /\ UNCHANGED <<durable, session, client, live, theme, cache>>

\* A drag or a notch of the wheel: from the row index of the press, whatever it
\* shows now, to the row under the pointer.
Hold(r) ==
  /\ Painted /\ drag # <<>> /\ r \in DOMAIN Frame
  /\ drag' = <<[drag[1] EXCEPT !.marker = 0]>>
  /\ Select(drag[1].anchor, r, drag[1].pressed, drag[1].look)
  /\ UNCHANGED <<durable, session, client, live, theme, cache>>

\* The button comes back up: a click on a marker expands the row index it had.
Release ==
  /\ drag # <<>> /\ drag' = <<>> /\ (drag[1].look = Look => reasoningEpoch < MaxEpoch)
  /\ IF drag[1].marker # 0 /\ CarriesReasoning(drag[1].marker)
       THEN Expand(drag[1].marker, IF drag[1].look = Look THEN drag[1].pressed[1] ELSE 0)
       ELSE UNCHANGED display
  /\ UNCHANGED <<durable, session, client, live, theme, cache>>

\* A press that hits no row, or an event while the browser is up, ends a drag.
EndDrag == drag # <<>> /\ drag' = <<>>
           /\ UNCHANGED <<durable, session, client, live, display, theme, cache>>

\* The theme the picker previews or the user confirms; bound: not within a drag.
MoveTheme == drag = <<>> /\ theme' \in Themes \ {theme}
             /\ UNCHANGED <<durable, session, client, live, display, cache, drag>>

-----------------------------------------------------------------------------
\* Plausible bug: a result is an append as any other row is.
SameLookFault == theme = cache.theme /\ reasoningEpoch = cache.reasoning
SameLook ==
  /\ theme = cache.theme /\ reasoningEpoch = cache.reasoning
  /\ ToolResultCount = cache.results

\* transcript_appended_since: the marks behind the epoch, or none.
AppendOnlySince(e) == e <= epoch /\ e >= appendBase
AppendedSince(e) == Cardinality({k \in DOMAIN appends : appends[k] > e})

\* A frame: a hit, the appended tail, or a replay.
Paint ==
  /\ scope # NoSession
  /\ IF SameLook /\ AppendOnlySince(cache.epoch)
       THEN cache' = IF AppendedSince(cache.epoch) = 0 THEN cache ELSE
              [cache EXCEPT !.epoch = epoch, !.len = cache.len + AppendedSince(cache.epoch),
                 !.rows = @ \o Blocks(SubSeq(messages, 1, cache.len + AppendedSince(cache.epoch)),
                                      cache.len + 1, ExpandedRows(expansions))]
       ELSE cache' = [theme |-> theme, epoch |-> epoch, reasoning |-> reasoningEpoch,
                      results |-> ToolResultCount, len |-> Len(messages),
                      rows |-> Laid(messages, ExpandedRows(expansions))]
  /\ UNCHANGED <<durable, session, client, live, display, theme, drag>>

Next ==
  \/ \E s \in Sessions :
       \/ \E kind \in Kinds : Commit(s, kind)
       \/ ApplySessionSnapshot(s) \/ ApplySessionStreamOpened(s)
  \/ ApplyContent \/ Reason \/ ClearProvisional
  \/ ExpandNewest \/ Release \/ EndDrag \/ MoveTheme
  \/ \E r \in DOMAIN Frame : Press(r) \/ Hold(r)
  \/ Paint
Spec == Init /\ [][Next]_vars
-----------------------------------------------------------------------------
TypeOK ==
  /\ session \in Sessions \cup {NoSession} /\ scope \in Sessions \cup {NoSession}
  /\ Len(messages) <= Retained /\ appendBase <= epoch
  /\ Len(appends) <= Len(messages)

FrameShowsTheTranscript ==
  Paint => /\ cache'.rows = Laid(messages, ExpandedRows(expansions))
           /\ cache'.theme = theme

\* A frame shows exactly the rows the client retains, as they look now: no hit
\* and no appended tail of the cache keeps a row of another session, a row the
\* retention dropped, a call without the result that answers it, a collapsed
\* block the user expanded, or the other theme.  (TranscriptLayoutCache::rows.)
FramesShowTheTranscript == [][FrameShowsTheTranscript]_vars

\* What the front end keeps by position keeps naming what the user meant, through
\* appends, reads, front drains and session switches: an expansion the block that
\* was pressed, and a selection the rows it was dragged over, wherever in the drag
\* the next row arrived.  Not so when the rows moved between the press and a later
\* event of its gesture, or under a selection by a result that grew its call's block.
PositionsKeepTheirRows ==
  /\ \A e \in expansions : e.of # 0 => (e.row \in DOMAIN messages /\ messages[e.row].id = e.of)
  /\ named # <<>> => Shown(messages, ExpandedRows(expansions), selection) = named[1]
==============================================================================
