------------------------------ MODULE InputLine ------------------------------
(***************************************************************************)
(* The chat's input line, crates/intention-tui/src/app/input.rs with the   *)
(* command registry of commands.rs: the buffer and its caret, the labels   *)
(* that stand for pasted text, the history, the hint band, submission.     *)
(*                                                                         *)
(* All large pastes of the model begin with a backslash and have the same  *)
(* beginning and length, so they have the same label, shortened here to    *)
(* its brackets and that character; the paste a character stands for is    *)
(* kept beside it, which the code does not do.  The letter case and the    *)
(* texts of rows and notices are left out.                                 *)
(***************************************************************************)
EXTENDS Naturals, Sequences, FiniteSets, Functions, Selections

CONSTANTS
  Commands,   \* the names of COMMANDS, in order, each a sequence of letters
  Themed,     \* those of them that declare an argument
  Values,     \* the values of that argument, in order
  MaxLine,    \* bound: characters in the line
  MaxPastes,  \* bound: pastes
  MaxEdits    \* bound: actions that change or send the line

InputLineAssumption ==
  /\ Themed \subseteq Range(Commands)
  /\ {MaxLine, MaxPastes, MaxEdits} \subseteq Nat

VARIABLES
  line, cursor,  \* input and its caret
  pastes,        \* how many texts pasted holds
  history, position, draft,  \* position 0 is the live line
  band,          \* command_menu
  sent,          \* for the last prompt, the paste meant by and the paste sent for each label
  edits

kept == <<history, position, draft>>
vars == <<line, cursor, pastes, kept, band, sent, edits>>

Char(c, paste) == [c |-> c, of |-> paste]
Chars(word, paste) == [i \in DOMAIN word |-> Char(word[i], paste)]
Letters == UNION {Range(w) : w \in Range(Commands) \cup Range(Values)}
Typeable == Letters \cup {"/", " ", "\\"}
Text(s) == [i \in DOMAIN s |-> s[i].c]
Blank == {" ", "\n"}

Init ==
  /\ line = <<>> /\ cursor = 0 /\ pastes = 0
  /\ history = <<>> /\ position = 0 /\ draft = <<>>
  /\ band = <<>> /\ sent = <<>> /\ edits = 0

-----------------------------------------------------------------------------
(* The labels.                                                             *)

\* paste_label: the beginning of the text, between brackets.
Label == <<"[", "\\", "]">>

\* paste_spans: where a label begins, counted as a caret.
LabelsOf(s) == {i \in 0 .. Len(s) - Len(Label) : Text(SubSeq(s, i + 1, i + Len(Label))) = Label}

\* The label the caret is in or behind, and in or before.
LabelBehind(s, at) == {i \in LabelsOf(s) : i < at /\ at <= i + Len(Label)}
LabelAhead(s, at) == {i \in LabelsOf(s) : i <= at /\ at < i + Len(Label)}

\* expand_pastes: the n-th label is the n-th text that is kept.
Expanded(s) ==
  LET labels == Within([i \in DOMAIN s |-> i - 1], LabelsOf(s))
  IN [n \in 1 .. Len(labels) |->
        [meant |-> s[labels[n] + 1].of, sent |-> IF n <= pastes THEN n ELSE 0]]

-----------------------------------------------------------------------------
(* command_word: the word of a command line the caret is in or behind.     *)

FirstBlank(s, from) ==
  LET blanks == {i \in from .. Len(s) : s[i] \in Blank}
  IN IF blanks = {} THEN Len(s) + 1 ELSE CHOOSE i \in blanks : \A j \in blanks : i <= j
LineEnd(s) ==
  LET breaks == {i \in DOMAIN s : s[i] = "\n"}
  IN IF breaks = {} THEN Len(s) ELSE (CHOOSE i \in breaks : \A j \in breaks : i <= j) - 1
Spelled(s, word) == SubSeq(s, word.from + 1, word.to)

\* argument_word: the only argument is the first word behind the name.
ArgumentAt(s, nameEnd, at) ==
  LET letters == {i \in nameEnd + 1 .. Len(s) : s[i] \notin Blank}
      from == IF letters = {} THEN Len(s) ELSE (CHOOSE i \in letters : \A j \in letters : i <= j) - 1
      word == [kind |-> "value", from |-> from, to |-> FirstBlank(s, from + 1) - 1]
  IN IF word.from <= at /\ at <= word.to THEN <<word>> ELSE <<>>

WordAt(text, at) ==
  LET s == SubSeq(text, 1, LineEnd(text))
      nameEnd == FirstBlank(s, 1) - 1
  IN IF s = <<>> \/ s[1] # "/" \/ at > Len(s) THEN <<>>
     ELSE IF at <= nameEnd THEN <<[kind |-> "command", from |-> 0, to |-> nameEnd]>>
     ELSE IF SubSeq(s, 2, nameEnd) \in Themed THEN ArgumentAt(s, nameEnd, at) ELSE <<>>

\* The filter of a word, and the rows it selects.
Filter(text, word) ==
  IF word.kind = "command" THEN Tail(Spelled(text, word)) ELSE Spelled(text, word)
Names(kind) == IF kind = "command" THEN Commands ELSE Values
Scattered(filter, name) ==
  \E at \in [DOMAIN filter -> DOMAIN name] :
    /\ \A i \in DOMAIN filter : name[at[i]] = filter[i]
    /\ \A i, j \in DOMAIN filter : i < j => at[i] < at[j]
Begins(filter, name) == Len(filter) <= Len(name) /\ SubSeq(name, 1, Len(filter)) = filter
Rows(kind, filter) ==
  SelectSeq(Names(kind), LAMBDA name : Begins(filter, name))
  \o SelectSeq(Names(kind), LAMBDA name : ~Begins(filter, name) /\ Scattered(filter, name))

\* CommandMenu::opened: the band a line and a caret open.
Opened(text, at) ==
  LET word == WordAt(text, at)
  IN IF word = <<>> THEN <<>>
     ELSE LET kind == word[1].kind
              filter == Filter(text, word[1])
          IN IF Rows(kind, filter) = <<>> THEN <<>>
             ELSE <<[kind |-> kind, filter |-> filter, highlight |-> 1]>>
RanksTheSame(b, c) == b # <<>> /\ c # <<>> /\ b[1].kind = c[1].kind /\ b[1].filter = c[1].filter

\* Plausible bug: a band stays as long as the line opens one.
RefreshedFault(s, at) ==
  LET opened == Opened(Text(s), at)
  IN IF band # <<>> /\ opened # <<>> THEN band ELSE opened

\* refresh_menu: a band of the same word keeps its highlight.
Refreshed(s, at) ==
  LET opened == Opened(Text(s), at)
  IN IF RanksTheSame(band, opened) THEN band ELSE opened

\* What an edit leaves behind.
Becomes(s, at) == line' = s /\ cursor' = at /\ band' = Refreshed(s, at)

-----------------------------------------------------------------------------
(* The edits; the moves of the caret, the menu and the history are free.   *)

Edit == edits < MaxEdits /\ edits' = edits + 1
Before(at) == SubSeq(line, 1, at)
After(at) == SubSeq(line, at + 1, Len(line))
Insert(s) == Len(line) + Len(s) <= MaxLine /\ Becomes(Before(cursor) \o s \o After(cursor), cursor + Len(s))

InputChar(c) ==
  /\ Edit /\ Insert(<<Char(c, 0)>>)
  /\ UNCHANGED <<pastes, kept, sent>>

\* A small text is inserted as it is, a large one as its label.
InputPasted ==
  /\ Edit
  /\ \/ Insert(Chars(<<" ", " ", "\n">>, 0)) /\ UNCHANGED pastes
     \/ /\ pastes < MaxPastes /\ pastes' = pastes + 1
        /\ Insert(Chars(Label, pastes'))
  /\ UNCHANGED <<kept, sent>>

\* Plausible bug: one character goes, also when it belongs to a label.
InputBackspaceFault ==
  /\ Edit /\ cursor > 0
  /\ Becomes(Before(cursor - 1) \o After(cursor), cursor - 1)
  /\ UNCHANGED <<pastes, kept, sent>>

InputBackspace ==
  /\ Edit /\ cursor > 0
  /\ \/ /\ LabelBehind(line, cursor) = {}
        /\ Becomes(Before(cursor - 1) \o After(cursor), cursor - 1)
     \/ \E i \in LabelBehind(line, cursor) : Becomes(Before(i) \o After(i + Len(Label)), i)
  /\ UNCHANGED <<pastes, kept, sent>>

\* line_start, line_end and line_step.
LineStart(at) ==
  LET breaks == {i \in 1 .. at : line[i].c = "\n"}
  IN IF breaks = {} THEN 0 ELSE CHOOSE i \in breaks : \A j \in breaks : j <= i
LineStop(at) ==
  LET breaks == {i \in at + 1 .. Len(line) : line[i].c = "\n"}
  IN IF breaks = {} THEN Len(line) ELSE (CHOOSE i \in breaks : \A j \in breaks : i <= j) - 1
Column(from, to, column) == IF column < to - from THEN from + column ELSE to

Moved(at) == at # cursor /\ Becomes(line, at)

\* A label is one unit to the left and right; up and down keep the column.
MoveCursor ==
  /\ UNCHANGED edits
  /\ \/ \E i \in LabelBehind(line, cursor) : Moved(i)
     \/ \E i \in LabelAhead(line, cursor) : Moved(i + Len(Label))
     \/ LabelBehind(line, cursor) = {} /\ cursor > 0 /\ Moved(cursor - 1)
     \/ LabelAhead(line, cursor) = {} /\ cursor < Len(line) /\ Moved(cursor + 1)
     \/ Moved(LineStart(cursor)) \/ Moved(LineStop(cursor))
     \/ /\ band = <<>> /\ LineStart(cursor) > 0
        /\ LET break == LineStart(cursor) - 1
               start == LineStart(break)
           IN Moved(Column(start, break, cursor - LineStart(cursor)))
     \/ /\ band = <<>> /\ LineStop(cursor) < Len(line)
        /\ LET start == LineStop(cursor) + 1
           IN Moved(Column(start, LineStop(start), cursor - LineStart(cursor)))
  /\ UNCHANGED <<pastes, kept, sent>>

-----------------------------------------------------------------------------
(* The band.                                                               *)

\* The arrows, within the rows.
MoveMenu ==
  /\ UNCHANGED edits /\ band # <<>>
  /\ \E at \in {band[1].highlight - 1, band[1].highlight + 1} :
       /\ at \in DOMAIN Rows(band[1].kind, band[1].filter)
       /\ band' = <<[band[1] EXCEPT !.highlight = at]>>
  /\ UNCHANGED <<line, cursor, pastes, kept, sent>>

\* Escape closes the band before anything else.
CloseMenu ==
  /\ UNCHANGED edits /\ band # <<>> /\ band' = <<>>
  /\ UNCHANGED <<line, cursor, pastes, kept, sent>>

\* accept_menu: the highlighted row and a blank take the word's place.
Completed ==
  LET row == Rows(band[1].kind, band[1].filter)[band[1].highlight]
      word == WordAt(Text(line), cursor)[1]
      chars == (IF band[1].kind = "command" THEN <<"/">> ELSE <<>>) \o row \o <<" ">>
  IN [text |-> Before(word.from) \o Chars(chars, 0) \o After(word.to),
      at |-> word.from + Len(chars)]
Accept ==
  LET completed == Completed
  IN Len(completed.text) <= MaxLine /\ Becomes(completed.text, completed.at)

AcceptMenu ==
  /\ Edit /\ band # <<>> /\ Accept
  /\ UNCHANGED <<pastes, kept, sent>>

-----------------------------------------------------------------------------
(* The history.                                                            *)

\* The arrows move the caret while there is a line in their direction.
Walks(stop, bound) == UNCHANGED edits /\ band = <<>> /\ stop = bound

SetInput(s) == Becomes(s, Len(s))

RecallOlder ==
  /\ Walks(LineStart(cursor), 0) /\ history # <<>>
  /\ position' = IF position = 0 THEN Len(history) ELSE IF position = 1 THEN 1 ELSE position - 1
  /\ draft' = IF position = 0 THEN line ELSE draft
  /\ SetInput(history[position'])
  /\ UNCHANGED <<pastes, history, sent>>

RecallNewer ==
  /\ Walks(LineStop(cursor), Len(line)) /\ position > 0
  /\ \/ /\ position < Len(history)
        /\ position' = position + 1 /\ SetInput(history[position + 1]) /\ UNCHANGED draft
     \/ /\ position = Len(history)
        /\ position' = 0 /\ SetInput(draft) /\ draft' = <<>>
  /\ UNCHANGED <<pastes, history, sent>>

-----------------------------------------------------------------------------
(* Submission.                                                             *)

Trimmed(s) ==
  LET inked == {i \in DOMAIN s : s[i].c \notin Blank}
  IN IF inked = {} THEN <<>>
     ELSE SubSeq(s, CHOOSE i \in inked : \A j \in inked : i <= j,
                    CHOOSE i \in inked : \A j \in inked : j <= i)
ClearInput == line' = <<>> /\ cursor' = 0 /\ band' = <<>> /\ position' = 0 /\ draft' = <<>>

\* Ctrl+C, or Escape twice.
ClearIntoHistory ==
  /\ Edit /\ Trimmed(line) # <<>>
  /\ history' = Append(history, Trimmed(line)) /\ ClearInput
  /\ UNCHANGED <<pastes, sent>>

\* The word is complete: Enter runs the line.
CompletesNothing ==
  \/ band[1].filter \in Range(Names(band[1].kind))
  \/ band[1].kind = "value" /\ band[1].filter = <<>>

\* Enter: a line break for the backslash before the caret, the row the band
\* highlights, a command, or a prompt.
Escaped == cursor > 0 /\ line[cursor].c = "\\"
InsertLineBreak ==
  /\ Edit /\ Escaped /\ Becomes([line EXCEPT ![cursor] = Char("\n", 0)], cursor)
  /\ UNCHANGED <<pastes, kept, sent>>

EnterCompletes ==
  /\ Edit /\ ~Escaped /\ band # <<>> /\ ~CompletesNothing /\ Accept
  /\ UNCHANGED <<pastes, kept, sent>>

Submits ==
  /\ Edit /\ ~Escaped /\ (band # <<>> => CompletesNothing) /\ Trimmed(line) # <<>>
  /\ ClearInput

SubmitCommand ==
  /\ Submits /\ line[1].c = "/"
  /\ UNCHANGED <<pastes, history, sent>>

SubmitPrompt ==
  /\ Submits /\ line[1].c # "/"
  /\ history' = Append(history, Trimmed(line))
  /\ sent' = Expanded(Trimmed(line))
  /\ UNCHANGED pastes

Next ==
  \/ \E c \in Typeable : InputChar(c)
  \/ InputPasted \/ InputBackspace \/ MoveCursor \/ MoveMenu \/ CloseMenu \/ AcceptMenu
  \/ RecallOlder \/ RecallNewer \/ ClearIntoHistory
  \/ InsertLineBreak \/ EnterCompletes \/ SubmitCommand \/ SubmitPrompt

Spec == Init /\ [][Next]_vars
-----------------------------------------------------------------------------
TypeOK ==
  /\ Len(line) <= MaxLine /\ cursor \in 0 .. Len(line)
  /\ pastes \in 0 .. MaxPastes /\ position \in 0 .. Len(history)
  /\ Len(band) <= 1

\* The band that is shown ranks the word the caret is in, whatever edit,
\* completion, recalled line or submission came last: Enter never completes
\* another word than the one the user sees.
BandFollowsTheLine == band # <<>> => RanksTheSame(band, Opened(Text(line), cursor))

Pieces(s, paste) == {i \in DOMAIN s : s[i].of = paste}
Whole(s, paste) == \E i \in LabelsOf(s) : SubSeq(s, i + 1, i + Len(Label)) = Chars(Label, paste)

\* The Enter of a line break, behind the backslash of the label itself.
BreaksTheLabel(paste) ==
  line[cursor] = Char("\\", paste) /\ line' = [line EXCEPT ![cursor] = Char("\n", 0)]

LabelsStay ==
  edits' # edits => \A paste \in 1 .. pastes :
    Whole(line, paste) /\ Pieces(line', paste) # {} /\ ~Whole(line', paste)
    => Len(line') > Len(line) \/ (cursor > 0 /\ BreaksTheLabel(paste))

\* An edit removes a label as a whole or not at all: a paste is reduced to a part
\* of its label only by text typed into it, or by an Enter when the arrows have put
\* the caret behind a backslash of it, which takes that backslash for an escape.
LabelsStayWhole == [][LabelsStay]_vars

\* "Two pastes that happen to share a beginning and a length therefore still
\* expand into their own texts" (expand_pastes): a prompt carries, for each of
\* its labels, the text that was pasted there.
PromptsCarryTheirPastes == \A n \in DOMAIN sent : sent[n].sent = sent[n].meant
==============================================================================
