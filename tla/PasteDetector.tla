---------------------------- MODULE PasteDetector ----------------------------
(***************************************************************************)
(* How the event loop tells a paste that a terminal types from the presses *)
(* of a hand: Pastes of crates/intention-tui/src/tui/paste.rs, as          *)
(* handle_event of tui/mod.rs drives it.                                   *)
(*                                                                         *)
(* Time is the age of the last press: within BURST_GAP, RUN_GAP and        *)
(* PASTE_GAP, or older.  A press is a character or Enter.                  *)
(***************************************************************************)
EXTENDS Naturals, Sequences

CONSTANTS
  Inline,      \* the length of the longest text that is not large
  MaxPresses   \* bound

PasteDetectorAssumption == {Inline, MaxPresses} \subseteq Nat

VARIABLES
  text, alone,      \* the run that is held, and the action of a lone press
  confirmed, held,  \* it is a paste; last is some
  age,              \* of the last press: 0, 1, 2, 3
  line,             \* what reached the state, in order
  pressed \* the presses that were meant for it, in order

run == <<text, alone, confirmed, held>>
vars == <<run, age, line, pressed>>

Presses == {"char", "enter"}
Large == Len(text) > Inline

Init ==
  /\ text = <<>> /\ alone = <<>> /\ confirmed = FALSE /\ held = FALSE /\ age = 0
  /\ line = <<>> /\ pressed = <<>>

-----------------------------------------------------------------------------
\* Plausible bug: the text of the run that ended stays for the next one.
NothingHeldFault == text' = text /\ alone' = <<>> /\ confirmed' = FALSE /\ held' = FALSE
NothingHeld == text' = <<>> /\ alone' = <<>> /\ confirmed' = FALSE /\ held' = FALSE

\* Plausible bug: the press that closes a run settles the press of its own.
SettledFault == IF confirmed THEN text ELSE <<>>

\* flush: a lone press is itself, a run is one paste.
Settled == IF alone # <<>> THEN alone ELSE text
Flush == line' = line \o Settled

\* window: Enter joins a run only within the short gap.
Continues(press) ==
  held /\ age <= (IF ~confirmed THEN 0 ELSE IF press = "enter" THEN 1 ELSE 2)

\* Another press of the run in flight.
JoinRun(press) ==
  /\ Len(pressed) < MaxPresses /\ Continues(press)
  /\ text' = Append(text, press) /\ alone' = <<>> /\ confirmed' = TRUE
  /\ pressed' = Append(pressed, press) /\ age' = 0
  /\ UNCHANGED <<held, line>>

\* The Enter that ends a large paste belongs to it.
ClosePaste ==
  /\ held /\ ~Continues("enter") /\ confirmed /\ Large
  /\ Flush /\ NothingHeld
  /\ UNCHANGED <<age, pressed>>

\* A press that begins a run of its own settles the one before it.
BeginRun(press) ==
  /\ Len(pressed) < MaxPresses /\ ~Continues(press)
  /\ ~(press = "enter" /\ confirmed /\ Large)
  /\ Flush
  /\ text' = <<press>> /\ alone' = <<press>> /\ confirmed' = FALSE /\ held' = TRUE
  /\ pressed' = Append(pressed, press) /\ age' = 0

\* A tick, a resize or a change of focus: only a paste waits for its silence.
Settle ==
  /\ held /\ (confirmed => age = 3)
  /\ Flush /\ NothingHeld
  /\ UNCHANGED <<age, pressed>>

\* The user's next key or click, or the paste the terminal holds together.
End ==
  /\ held /\ Flush /\ NothingHeld
  /\ UNCHANGED <<age, pressed>>

TimePasses == held /\ age < 3 /\ age' = age + 1 /\ UNCHANGED <<run, line, pressed>>

Next ==
  \/ \E press \in Presses : JoinRun(press) \/ BeginRun(press)
  \/ ClosePaste \/ Settle \/ End \/ TimePasses
Spec == Init /\ [][Next]_vars
-----------------------------------------------------------------------------
TypeOK == age \in 0 .. 3 /\ Len(alone) <= 1 /\ (~held => text = <<>> /\ ~confirmed)

\* Whatever the pauses between the presses, the ticks and the keys that come in
\* between, every press reaches the line once and in the order of the presses:
\* what has arrived and what is still held are all of them.
PressesArriveOnceInOrder == line \o text = pressed
==============================================================================
