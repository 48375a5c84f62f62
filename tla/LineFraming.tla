----------------------------- MODULE LineFraming -----------------------------
(***************************************************************************)
(* One direction of a local link: a sender that frames typed messages as   *)
(* lines, the byte stream, and a receiver that buffers what it reads until *)
(* a line is complete (write_async_message, encode_message, read_async_    *)
(* line, take_line and append_chunk of crates/intention-transport/src/     *)
(* lib.rs).  The host reads inside a select, so a pending read may be      *)
(* dropped at any await and begun again later.                             *)
(*                                                                         *)
(* A byte is the number of the message it belongs to; the byte 0 is the    *)
(* newline.  A message is its number and its encoded length.               *)
(***************************************************************************)
EXTENDS Naturals, Sequences, SequencesExt

CONSTANTS
  MaxMessageBytes,  \* the bound of a framed line, terminator included
  ChunkBytes,       \* what one read takes at most
  MaxMessages       \* bound: messages sent

LineFramingAssumption ==
  /\ MaxMessageBytes \in Nat \ {0}
  /\ ChunkBytes \in Nat \ {0}
  /\ MaxMessages \in Nat

VARIABLES
  sent,      \* the length of each message that was encoded and written
  writing,   \* the bytes of the present message that are still to be written
  open,      \* the sender's half is open
  wire,      \* the bytes written and not yet read
  residual,  \* the receiver's buffer
  reading,   \* a read is pending
  received,  \* the lines handed to the caller
  failure    \* why the receiver's direction ended

vars == <<sent, writing, open, wire, residual, reading, received, failure>>

Newline == 0

\* The encoded bytes of message i; an encoding has no newline of its own.
Payload(i, length) == [k \in 1 .. length |-> i]

Init ==
  /\ sent = <<>> /\ writing = <<>> /\ open = TRUE
  /\ wire = <<>> /\ residual = <<>> /\ reading = FALSE
  /\ received = <<>> /\ failure = "none"

-----------------------------------------------------------------------------
(* The sender.                                                             *)

\* A message too long for the bound is refused before a byte is written, and
\* the link goes on.
Encodable(length) == length < MaxMessageBytes

SendMessage(length) ==
  /\ open /\ writing = <<>>
  /\ Len(sent) < MaxMessages
  /\ Encodable(length)
  /\ sent' = Append(sent, length)
  /\ writing' = Append(Payload(Len(sent) + 1, length), Newline)
  /\ UNCHANGED <<open, wire, residual, reading, received, failure>>

\* write_all hands the bytes over in pieces.
WriteBytes ==
  /\ open /\ writing # <<>>
  /\ \E n \in 1 .. Len(writing) :
       /\ wire' = wire \o SubSeq(writing, 1, n)
       /\ writing' = SubSeq(writing, n + 1, Len(writing))
  /\ UNCHANGED <<sent, open, residual, reading, received, failure>>

\* The sender ends: between messages, or within one when the write misses its
\* deadline or the process dies.
Close ==
  /\ open
  /\ open' = FALSE
  /\ UNCHANGED <<sent, writing, wire, residual, reading, received, failure>>

-----------------------------------------------------------------------------
(* The receiver.                                                           *)

HasLine == \E k \in DOMAIN residual : residual[k] = Newline
LineEnd == CHOOSE k \in DOMAIN residual :
  residual[k] = Newline /\ \A j \in 1 .. k - 1 : residual[j] # Newline

\* receive_line is called, or called again after it was dropped.
BeginRead ==
  /\ failure = "none" /\ ~reading
  /\ reading' = TRUE
  /\ UNCHANGED <<sent, writing, open, wire, residual, received, failure>>

\* Fault: the newline stays in the buffer.
TakeLineFault ==
  /\ reading /\ HasLine
  /\ received' = Append(received, SubSeq(residual, 1, LineEnd - 1))
  /\ residual' = SubSeq(residual, LineEnd, Len(residual))
  /\ reading' = FALSE
  /\ UNCHANGED <<sent, writing, open, wire, failure>>

\* The first complete line leaves the buffer with its newline.
TakeLine ==
  /\ reading /\ HasLine
  /\ received' = Append(received, SubSeq(residual, 1, LineEnd - 1))
  /\ residual' = SubSeq(residual, LineEnd + 1, Len(residual))
  /\ reading' = FALSE
  /\ UNCHANGED <<sent, writing, open, wire, failure>>

\* What one read returned joins the buffer, which is then measured.
ReadChunk ==
  /\ reading /\ ~HasLine
  /\ wire # <<>>
  /\ \E n \in 1 .. ChunkBytes :
       /\ n <= Len(wire)
       /\ residual' = residual \o SubSeq(wire, 1, n)
       /\ wire' = SubSeq(wire, n + 1, Len(wire))
  /\ IF Len(residual') > MaxMessageBytes
     THEN failure' = "too_large" /\ reading' = FALSE
     ELSE UNCHANGED <<failure, reading>>
  /\ UNCHANGED <<sent, writing, open, received>>

\* The end of the stream; the bytes of an unfinished line are not a message.
EndOfStream ==
  /\ reading /\ ~HasLine
  /\ wire = <<>> /\ ~open
  /\ failure' = "unavailable"
  /\ reading' = FALSE
  /\ UNCHANGED <<sent, writing, open, wire, residual, received>>

\* Fault: the buffer belongs to the dropped read.
DropReadFault ==
  /\ reading /\ ~HasLine
  /\ reading' = FALSE
  /\ residual' = <<>>
  /\ UNCHANGED <<sent, writing, open, wire, received, failure>>

\* Another branch of the select was ready: the pending read is dropped at its
\* await, where the buffer holds no complete line.
DropRead ==
  /\ reading /\ ~HasLine
  /\ reading' = FALSE
  /\ UNCHANGED <<sent, writing, open, wire, residual, received, failure>>

-----------------------------------------------------------------------------
Receive == BeginRead \/ TakeLine \/ ReadChunk \/ EndOfStream

Next ==
  \/ \E length \in 1 .. MaxMessageBytes : SendMessage(length)
  \/ WriteBytes
  \/ Close
  \/ BeginRead
  \/ TakeLine
  \/ ReadChunk
  \/ EndOfStream
  \/ DropRead

Spec == Init /\ [][Next]_vars

-----------------------------------------------------------------------------
TypeOK ==
  /\ sent \in Seq(1 .. MaxMessageBytes) /\ Len(sent) <= MaxMessages
  /\ writing \in Seq(0 .. MaxMessages)
  /\ wire \in Seq(0 .. MaxMessages)
  /\ residual \in Seq(0 .. MaxMessages)
  /\ open \in BOOLEAN /\ reading \in BOOLEAN
  /\ failure \in {"none", "too_large", "unavailable"}

\* However the stream is cut into chunks, and whenever a pending read is dropped
\* and begun again, each line handed over is one message, whole, in the order
\* they were sent, and no message in between is missing.
LinesArriveWhole ==
  /\ Len(received) <= Len(sent)
  /\ \A i \in DOMAIN received : received[i] = Payload(i, sent[i])

\* "A message the sender writes is exactly a message the receiver accepts"
\* (encode_message): a receiver never refuses what was written as too large.
WrittenIsAccepted == failure # "too_large"
=============================================================================
