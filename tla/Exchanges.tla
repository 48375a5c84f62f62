------------------------------ MODULE Exchanges -----------------------------
(***************************************************************************)
(* What a run exchanges with the tools that work on files, and with its    *)
(* user, who sees and types: the terminal and the headless command, the    *)
(* input line, the transcript pane and the pickers.  Side by side: a       *)
(* behaviour explores one of them.                                         *)
(***************************************************************************)
EXTENDS PartState

CONSTANTS
  FileLines, ReadCap, EditCap, MatchWindow, MaxChanges, FirstSession,
  MaxRuns, MaxInputs, Retained, MaxLines, MaxSignals, Commands, Themed, Values, MaxLine,
  MaxPastes, MaxEdits, MaxEpoch, Title, Here, AllThemes, NoTheme, MaxFilter

Tool == INSTANCE WorkspaceTools WITH MaxLines <- FileLines, Window <- MatchWindow,
  disk <- x1, call <- x2, pc <- x3, cancelled <- x4, text <- x5, todo <- x6, line <- x7,
  found <- x8, truncated <- x9, result <- x10, searched <- x11, passed <- x12,
  effect <- x13, changes <- x14
Term == INSTANCE Terminal WITH initial <- FirstSession, runs <- x1, started <- x2,
  effects <- x3, actions <- x4, live <- x5, wire <- x6, session <- x7, view <- x8,
  stream <- x9, asked <- x10, typed <- x11, arm <- x12, escape <- x13, mistaken <- x14,
  quit <- x15, inputs <- x16
Line == INSTANCE Headless WITH run <- x1, rows <- x2, closed <- x3, subscribed <- x4,
  front <- x5, wire <- x6, reported <- x7, view <- x8, stream <- x9, asked <- x10, clock <- x11,
  work <- x12, trouble <- x13, mistaken <- x14, failure <- x15, opened <- x16, held <- x17,
  stage <- x18, printed <- x19, unread <- x20, turn <- x21, leaving <- x22, lines <- x23,
  signals <- x24
Input == INSTANCE InputLine WITH band <- x1, pastes <- x2, cursor <- x3, history <- x4,
  position <- x5, draft <- x6, line <- x7, sent <- x8, edits <- x9
Shown == INSTANCE RetainedTranscript WITH durable <- x1, scope <- x2, messages <- x3,
  epoch <- x4, live <- x5, appendBase <- x6, session <- x7, appends <- x8, selection <- x9,
  expansions <- x10, reasoningEpoch <- x11, theme <- x12, cache <- x13, drag <- x14,
  named <- x15
Pick == INSTANCE Pickers WITH Themes <- AllThemes, durable <- x1, rows <- x2,
  cursor <- x3, stored <- x4, queue <- x5, reports <- x6, screen <- x7, sessions <- x8,
  loaded <- x9, asked <- x10, tab <- x11, theme <- x12, filter <- x13, preview <- x14,
  unknown <- x15

ExchangeInit ==
  /\ part \in Parts
  /\ \/ part = "tools" /\ Tool!Init /\ Unused14
     \/ part = "terminal" /\ Term!Init /\ Unused16
     \/ part = "headless" /\ Line!Init
     \/ part = "input" /\ Input!Init /\ Unused9
     \/ part = "transcript" /\ Shown!Init /\ Unused15
     \/ part = "pickers" /\ Pick!Init /\ Unused15

ExchangeNext ==
  \/ part = "tools" /\ Tool!Next /\ UNCHANGED <<part, Past14>>
  \/ part = "terminal" /\ Term!Next /\ UNCHANGED <<part, Past16>>
  \/ part = "headless" /\ Line!Next /\ UNCHANGED part
  \/ part = "input" /\ Input!Next /\ UNCHANGED <<part, Past9>>
  \/ part = "transcript" /\ Shown!Next /\ UNCHANGED <<part, Past15>>
  \/ part = "pickers" /\ Pick!Next /\ UNCHANGED <<part, Past15>>

ExchangeSpec == ExchangeInit /\ [][ExchangeNext]_vars

-----------------------------------------------------------------------------
ASSUME ExchangeAssumptions ==
  /\ Tool!WorkspaceToolsAssumption /\ Term!TerminalAssumption /\ Line!HeadlessAssumption
  /\ Input!InputLineAssumption /\ Shown!RetainedTranscriptAssumption /\ Pick!PickersAssumption

\* Every component keeps the types its module declares: the tools of a run
\* (WorkspaceTools) and the front ends (AppState, Driver, InputLine, the transcript
\* pane, the pickers).
ExchangedAndShownTypeOK ==
  /\ part = "tools" => Tool!TypeOK
  /\ part = "terminal" => Term!TypeOK
  /\ part = "headless" => Line!TypeOK
  /\ part = "input" => Input!TypeOK
  /\ part = "transcript" => Shown!TypeOK
  /\ part = "pickers" => Pick!TypeOK

\* A search lists the first matches of the files it searched and marks every cut of
\* them, and a refused write or edit changes no file (grep_scoped, edit_tool).
ToolsAnswerHonestly ==
  part = "tools" => Tool!SearchIsHonest /\ Tool!RefusedCallsChangeNothing

\* Whoever follows a run keeps its stream: the terminal holds the one live stream
\* it believes in through reconnects and session switches, and the headless
\* driver reports each row once (apply_session_stream_opened, report_pending).
FollowersKeepTheirStream ==
  /\ part = "terminal" => Term!LiveStreamIsHeld
  /\ part = "headless" => Line!RowsAreReportedOnce

\* A selection and an expansion whose gesture saw no row move keep naming the rows
\* the user meant, through appends, reads, front drains and session switches, or are
\* dropped (apply_frame, note_replacement; Pointer).
PositionsKeepTheirRows == part = "transcript" => Shown!PositionsKeepTheirRows

\* No step leaves something stale behind: a painted frame is the transcript as it
\* is now, and what an edit removes of a paste's label is the whole label, but for
\* the line break behind a backslash of its own (rows, apply_input_backspace).
EditsAndFramesAreWhole ==
  [][ /\ part = "transcript" => Shown!FrameShowsTheTranscript
      /\ part = "input" => Input!LabelsStay ]_vars

\* A menu offers what there is to choose: the input line's ranks the word under
\* the caret (refresh_menu), the browser's rows are what its filter and tab select
\* of the last list (refresh), and a theme painted as chosen is the stored one
\* (apply_theme).
MenusShowWhatTheyOffer ==
  /\ part = "input" => Input!BandFollowsTheLine
  /\ part = "pickers" => Pick!BrowserShowsTheList /\ Pick!PaintedThemeIsStored
=============================================================================
