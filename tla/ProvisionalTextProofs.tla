------------------------ MODULE ProvisionalTextProofs ------------------------
(***************************************************************************)
(* Proofs about ProvisionalText: for any number of steps, chunks and       *)
(* subscriptions and any size of the windows, no text follows its row or   *)
(* the execution, and a buffer holds one step's text in its order.         *)
(***************************************************************************)
EXTENDS ProvisionalText, DataLemmas

-----------------------------------------------------------------------------
\* What the executor's place says of the current step: its row is committed
\* between the commit and its publication, and published at the end of it.
\* Nothing is pending for a row but what the executor is about to flush, nor
\* after the execution.
PlaceInv ==
  /\ pc = "stream" => step \notin transcript /\ step > 0
  /\ pc \in {"flush", "row"} => step \in transcript \ published
  /\ pc = "row" =>
       \A c \in Channel :
         pending[c].text # <<>> => holder = "executor" /\ c \in Range(turn)
  /\ finished =>
       /\ pc \in {"returned", "status", "done"}
       /\ \A c \in Channel : pending[c].text = <<>>

\* Text that is still pending is of a step behind every published row.
PendingInv ==
  \A c \in Channel : pending[c].text # <<>> => \A s \in published : s < pending[c].step

Ordered(text) == \A i, j \in DOMAIN text : i < j => text[i].at < text[j].at
OfStep(text, s) == \A i \in DOMAIN text : text[i].step = s
UpToPlace(text, n) == \A i \in DOMAIN text : text[i].at <= n

\* A window holds one step's text in its order, behind the text of that step
\* that the client has, and of the current step only what was said.
WindowInv ==
  \A c \in Channel :
    /\ OfStep(pending[c].text, pending[c].step) /\ Ordered(pending[c].text)
    /\ pending[c].step = step => UpToPlace(pending[c].text, Len(said[c]))
    /\ provisional = step => UpToPlace(buffer[c], Len(said[c]))
    /\ provisional = pending[c].step =>
         \A i \in DOMAIN buffer[c], j \in DOMAIN pending[c].text :
           buffer[c][i].at < pending[c].text[j].at

TextInv == TypeOK /\ PlaceInv /\ PendingInv /\ WindowInv /\ BuffersHoldOneStep

-----------------------------------------------------------------------------
(* Texts.                                                                  *)

\* A text behind another one continues it.
LEMMA Continued ==
  ASSUME NEW s \in Seq(Chunks), NEW t \in Seq(Chunks), Ordered(s), Ordered(t),
         \A i \in DOMAIN s, j \in DOMAIN t : s[i].at < t[j].at
  PROVE  /\ s \o t \in Seq(Chunks) /\ Ordered(s \o t) /\ Len(s \o t) = Len(s) + Len(t)
         /\ \A n : OfStep(s, n) /\ OfStep(t, n) => OfStep(s \o t, n)
         /\ \A n : UpToPlace(s, n) /\ UpToPlace(t, n) => UpToPlace(s \o t, n)
<1>1. /\ s \o t \in Seq(Chunks) /\ Len(s \o t) = Len(s) + Len(t)
      /\ Len(s) \in Nat /\ Len(t) \in Nat
      /\ \A i \in 1 .. Len(s) + Len(t) :
           (s \o t)[i] = IF i <= Len(s) THEN s[i] ELSE t[i - Len(s)]
  BY ConcatProperties, LenProperties
<1>2. DOMAIN s = 1 .. Len(s) /\ DOMAIN t = 1 .. Len(t) /\ DOMAIN (s \o t) = 1 .. Len(s) + Len(t)
  BY <1>1
<1>3. \A i \in DOMAIN (s \o t) : \/ i \in DOMAIN s /\ (s \o t)[i] = s[i]
                                 \/ i - Len(s) \in DOMAIN t /\ (s \o t)[i] = t[i - Len(s)]
  BY <1>1, <1>2
<1> DEFINE u == s \o t
<1>4. ASSUME NEW i \in DOMAIN u, NEW j \in DOMAIN u, i < j PROVE u[i].at < u[j].at
  <2>1. i \in Nat /\ j \in Nat  BY <1>1, <1>2
  <2>2. CASE j <= Len(s)
    <3>1. u[i] = s[i] /\ u[j] = s[j] /\ i \in DOMAIN s /\ j \in DOMAIN s
      BY <1>1, <1>2, <1>4, <2>1, <2>2
    <3>2. QED BY <3>1, <1>4 DEF Ordered
  <2>3. CASE i <= Len(s) /\ j > Len(s)
    <3>1. /\ u[i] = s[i] /\ u[j] = t[j - Len(s)] /\ i \in DOMAIN s
          /\ j - Len(s) \in DOMAIN t
      BY <1>1, <1>2, <2>1, <2>3
    <3>2. QED BY <3>1
  <2>4. CASE i > Len(s)
    <3>1. /\ u[i] = t[i - Len(s)] /\ u[j] = t[j - Len(s)] /\ i - Len(s) \in DOMAIN t
          /\ j - Len(s) \in DOMAIN t /\ i - Len(s) < j - Len(s)
      BY <1>1, <1>2, <1>4, <2>1, <2>4
    <3>2. QED BY <3>1 DEF Ordered
  <2>5. QED BY <1>1, <2>1, <2>2, <2>3, <2>4
<1>5. Ordered(s \o t)  BY <1>4 DEF Ordered
<1>6. \A n : OfStep(s, n) /\ OfStep(t, n) => OfStep(s \o t, n)  BY <1>3 DEF OfStep
<1>7. \A n : UpToPlace(s, n) /\ UpToPlace(t, n) => UpToPlace(s \o t, n)
  BY <1>3 DEF UpToPlace
<1>8. QED BY <1>1, <1>5, <1>6, <1>7

\* The empty text and a text of one chunk.
LEMMA ShortTexts ==
  /\ <<>> \in Seq(Chunks) /\ Len(<<>>) = 0 /\ Ordered(<<>>) /\ Blank(<<>>)
  /\ \A n : OfStep(<<>>, n) /\ UpToPlace(<<>>, n)
  /\ \A chunk \in Chunks :
       /\ <<chunk>> \in Seq(Chunks) /\ Len(<<chunk>>) = 1 /\ Ordered(<<chunk>>)
       /\ DOMAIN <<chunk>> = {1} /\ <<chunk>>[1] = chunk
       /\ \A n : n = chunk.step => OfStep(<<chunk>>, n)
       /\ \A n : n = chunk.at => UpToPlace(<<chunk>>, n)
<1>1. /\ <<>> \in Seq(Chunks) /\ Len(<<>>) = 0 /\ Ordered(<<>>) /\ Blank(<<>>)
      /\ \A n : OfStep(<<>>, n) /\ UpToPlace(<<>>, n)
  BY DEF Ordered, OfStep, UpToPlace, Blank
<1>2. ASSUME NEW chunk \in Chunks
      PROVE  /\ <<chunk>> \in Seq(Chunks) /\ Len(<<chunk>>) = 1 /\ Ordered(<<chunk>>)
             /\ DOMAIN <<chunk>> = {1} /\ <<chunk>>[1] = chunk
             /\ \A n : n = chunk.step => OfStep(<<chunk>>, n)
             /\ \A n : n = chunk.at => UpToPlace(<<chunk>>, n)
  <2>1. /\ <<chunk>> \in Seq(Chunks) /\ Len(<<chunk>>) = 1
        /\ DOMAIN <<chunk>> = {1} /\ <<chunk>>[1] = chunk
    OBVIOUS
  <2>2. chunk.at \in Nat  BY ProvisionalTextAssumption DEF Chunks, ProvisionalTextAssumption
  <2>3. QED BY <2>1, <2>2 DEF Ordered, OfStep, UpToPlace
<1>3. QED BY <1>1, <1>2

-----------------------------------------------------------------------------
(* What the actions that stream and publish text do.                       *)

\* A window that retains a chunk begins the step's text, continues it, or keeps
\* nothing.
LEMMA RetainEffect ==
  ASSUME TypeOK, WindowInv, NEW c \in Channel, NEW chunk \in Chunks, chunk.step = step,
         chunk.at = Len(said[c]) + 1
  PROVE  LET w == Retain(c, chunk) IN
         /\ w \in Windows /\ w.step = step /\ Len(w.text) <= Window
         /\ \/ w.text \in {<<>>, <<chunk>>}
            \/ /\ pending[c].step = step
               /\ w.text \in {pending[c].text, pending[c].text \o <<chunk>>}
<1>1. /\ pending[c] \in Windows /\ step \in 0 .. MaxSteps /\ Window \in Nat \ {0}
      /\ Len(pending[c].text) <= Window
  BY ProvisionalTextAssumption DEF TypeOK, ProvisionalTextAssumption
<1> DEFINE w == IF pending[c].step # step THEN [NoText EXCEPT !.step = step] ELSE pending[c]
<1>2. /\ w \in Windows /\ w.step = step /\ Len(w.text) <= Window
      /\ w.text = <<>> \/ (pending[c].step = step /\ w.text = pending[c].text)
  <2>1. CASE pending[c].step = step  BY <1>1, <2>1
  <2>2. CASE pending[c].step # step
    <3>1. w = [step |-> step, text |-> <<>>, dropped |-> FALSE]  BY <2>2 DEF NoText
    <3>2. Len(<<>>) = 0 /\ <<>> \in Seq(Chunks)  BY ShortTexts
    <3>3. w.step = step /\ w.text = <<>>  BY <3>1
    <3>4. w \in Windows  BY <1>1, <3>1, <3>2 DEF Windows
    <3>5. Len(w.text) <= Window
      <4> HIDE DEF w
      <4>1. Window \in Nat  BY <1>1
      <4>2. QED BY <3>2, <3>3, <4>1
    <3>6. QED BY <3>3, <3>4, <3>5
  <2>3. QED BY <2>1, <2>2
<1> HIDE DEF w
<1>3. w.text \in Seq(Chunks) /\ Append(w.text, chunk) = w.text \o <<chunk>>
  BY <1>2, AppendIsConcat DEF Windows
<1>4. /\ Append(w.text, chunk) \in Seq(Chunks)
      /\ Len(Append(w.text, chunk)) = Len(w.text) + 1
  BY <1>3
<1>5. Append(<<>>, chunk) = <<chunk>>  OBVIOUS
<1>6. Retain(c, chunk) = IF w.dropped THEN w
                         ELSE IF Len(w.text) + 1 > Window
                              THEN [w EXCEPT !.text = <<>>, !.dropped = TRUE]
                              ELSE [w EXCEPT !.text = Append(@, chunk)]
  BY DEF Retain, w
<1>7. CASE w.dropped
  BY <1>2, <1>6, <1>7
<1>8. CASE ~w.dropped /\ Len(w.text) + 1 > Window
  <2>1. Retain(c, chunk) = [w EXCEPT !.text = <<>>, !.dropped = TRUE]  BY <1>6, <1>8
  <2>2. <<>> \in Seq(Chunks) /\ Len(<<>>) = 0  BY ShortTexts
  <2>3. [w EXCEPT !.text = <<>>, !.dropped = TRUE] \in Windows  BY <1>2, <2>2 DEF Windows
  <2>4. QED BY <1>1, <1>2, <2>1, <2>2, <2>3 DEF Windows
<1>9. CASE ~w.dropped /\ ~(Len(w.text) + 1 > Window)
  <2>1. Retain(c, chunk) = [w EXCEPT !.text = Append(w.text, chunk)]  BY <1>6, <1>9
  <2>2. [w EXCEPT !.text = Append(w.text, chunk)] \in Windows  BY <1>2, <1>4 DEF Windows
  <2>3. /\ Retain(c, chunk).step = step /\ Retain(c, chunk).text = Append(w.text, chunk)
        /\ Len(Append(w.text, chunk)) <= Window
    BY <1>1, <1>2, <1>3, <1>4, <1>9, <2>1 DEF Windows
  <2>4. \/ Append(w.text, chunk) = <<chunk>>
        \/ pending[c].step = step /\ Append(w.text, chunk) = pending[c].text \o <<chunk>>
    <3>1. CASE w.text = <<>>  BY <1>5, <3>1
    <3>2. CASE pending[c].step = step /\ w.text = pending[c].text  BY <1>3, <3>2
    <3>3. QED BY <1>2, <3>1, <3>2
  <2>5. QED BY <2>1, <2>2, <2>3, <2>4
<1>10. QED BY <1>7, <1>8, <1>9

\* A streamed chunk is said, and retained unless nobody follows the session.
LEMMA TextDeltaEffect ==
  ASSUME TypeOK, PlaceInv, WindowInv, NEW c \in Channel, NEW blank \in BOOLEAN, TextDelta(c, blank)
  PROVE  \E chunk \in Chunks :
           /\ chunk.step = step /\ chunk.at = Len(said[c]) + 1 /\ Len(said[c]) \in Nat
           /\ said' = [said EXCEPT ![c] = Append(@, chunk)]
           /\ said' \in [Channel -> Seq(Chunks)] /\ Len(said'[c]) = Len(said[c]) + 1
           /\ \/ pending' = pending
              \/ pending' = [pending EXCEPT ![c] = Retain(c, chunk)]
           /\ pc = "stream"
           /\ UNCHANGED <<pc, goal, step, holder, turn, run, ticking, published, client, report>>
<1> DEFINE chunk == [step |-> step, at |-> Len(said[c]) + 1, blank |-> blank]
<1>1. /\ said \in [Channel -> Seq(Chunks)] /\ step \in 0 .. MaxSteps
      /\ MaxSteps \in Nat /\ MaxChunks \in Nat
  BY ProvisionalTextAssumption DEF TypeOK, ProvisionalTextAssumption
<1>2. \A d \in Channel : Len(said[d]) \in Nat  BY <1>1
<1>3. /\ pc = "stream" /\ Len(said["reasoning"]) + Len(said["answer"]) < MaxChunks
      /\ said' = [said EXCEPT ![c] = Append(@, chunk)]
      /\ pending' = pending \/ pending' = [pending EXCEPT ![c] = Retain(c, chunk)]
      /\ UNCHANGED <<pc, goal, step, holder, turn, run, ticking, published, client, report>>
  BY DEF TextDelta
<1>4. Len(said[c]) + 1 \in 1 .. MaxChunks
  <2>1. Len(said["reasoning"]) \in Nat /\ Len(said["answer"]) \in Nat  BY <1>2 DEF Channel
  <2>2. Len(said[c]) + 1 <= MaxChunks
    <3>1. CASE c = "reasoning"  BY <1>1, <1>3, <2>1, <3>1
    <3>2. CASE c = "answer"  BY <1>1, <1>3, <2>1, <3>2
    <3>3. QED BY <3>1, <3>2 DEF Channel
  <2>3. QED BY <1>1, <1>2, <2>2
<1>5. step \in Steps  BY <1>1, <1>3 DEF PlaceInv, Steps
<1>6. chunk \in Chunks  BY <1>4, <1>5 DEF Chunks
<1>7. chunk.step = step /\ chunk.at = Len(said[c]) + 1  OBVIOUS
<1> HIDE DEF chunk
<1>8. /\ Append(said[c], chunk) \in Seq(Chunks)
      /\ Len(Append(said[c], chunk)) = Len(said[c]) + 1
  BY <1>1, <1>6, RangeOfAppend
<1>9. said' \in [Channel -> Seq(Chunks)] /\ Len(said'[c]) = Len(said[c]) + 1
  BY <1>1, <1>3, <1>8
<1>10. QED BY <1>2, <1>3, <1>6, <1>7, <1>9

\* A published window is emptied; its text continues the client's buffer, or
\* begins a new one, or reaches nobody.
LEMMA FlushEffect ==
  ASSUME TypeOK, WindowInv, BuffersHoldOneStep, FlushChannel
  PROVE  \E c \in Channel :
           /\ c \in Range(turn) /\ Range(turn) \subseteq {c} \cup Range(turn')
           /\ pending' = [pending EXCEPT ![c].text = <<>>]
           /\ turn' \in {<<>>, <<"answer">>}
           /\ holder' \in {holder, "nobody"} /\ (holder' = "nobody" <=> turn' = <<>>)
           /\ \/ UNCHANGED <<provisional, buffer, streamed, printed>>
              \/ /\ pending[c].text # <<>>
                 /\ provisional' = pending[c].step
                 /\ buffer' = [(IF provisional = pending[c].step THEN buffer ELSE Empty)
                                EXCEPT ![c] = @ \o pending[c].text]
                 /\ streamed' \in {streamed, pending[c].step}
                 /\ \/ UNCHANGED printed
                    \/ printed' = [printed EXCEPT ![pending[c].step] = @ \o pending[c].text]
<1> DEFINE c == Head(turn)
           w == pending[c]
<1>1. turn # <<>> /\ turn \in {<<"answer">>, <<"reasoning", "answer">>}
  BY DEF FlushChannel, TypeOK
<1>2. /\ c \in Channel /\ c \in Range(turn) /\ turn' \in {<<>>, <<"answer">>}
      /\ Range(turn) \subseteq {c} \cup Range(turn')
      /\ (Len(turn) = 1) <=> (turn' = <<>>)
  <2>1. turn' = Tail(turn)  BY DEF FlushChannel
  <2>2. CASE turn = <<"answer">>
    <3>1. c = "answer" /\ Tail(turn) = <<>> /\ Len(turn) = 1  BY <2>2
    <3>2. Range(turn) = {"answer"}  BY <2>2 DEF Range
    <3>3. QED BY <2>1, <3>1, <3>2 DEF Channel
  <2>3. CASE turn = <<"reasoning", "answer">>
    <3>1. c = "reasoning" /\ Tail(turn) = <<"answer">> /\ Len(turn) = 2  BY <2>3
    <3>2. Range(turn) = {"reasoning", "answer"} /\ Range(<<"answer">>) = {"answer"}
      BY <2>3 DEF Range
    <3>3. turn' = <<"answer">> /\ turn' # <<>>
      <4>1. turn' = <<"answer">>  BY <2>1, <3>1
      <4>2. Len(turn') = 1  BY <4>1
      <4>3. QED BY <4>1, <4>2
    <3>4. c \in Channel /\ c \in Range(turn)  BY <3>1, <3>2 DEF Channel
    <3>5. Range(turn) \subseteq {c} \cup Range(turn')  BY <3>1, <3>2, <3>3
    <3>6. QED BY <3>1, <3>3, <3>4, <3>5
  <2>4. QED BY <1>1, <2>2, <2>3
<1>3. /\ pending' = [pending EXCEPT ![c].text = <<>>]
      /\ holder' = IF Len(turn) = 1 THEN "nobody" ELSE holder
      /\ IF Blank(w.text) THEN UNCHANGED <<provisional, buffer, report>>
         ELSE ApplyTextDelta(c, w.step, w.text)
  BY DEF FlushChannel
<1>4. holder' \in {holder, "nobody"} /\ (holder' = "nobody" <=> turn' = <<>>)
  BY <1>1, <1>2, <1>3 DEF TypeOK
<1>5. \/ UNCHANGED <<provisional, buffer, streamed, printed>>
      \/ /\ w.text # <<>>
         /\ provisional' = w.step
         /\ buffer' = [(IF provisional = w.step THEN buffer ELSE Empty)
                        EXCEPT ![c] = @ \o w.text]
         /\ streamed' \in {streamed, w.step}
         /\ \/ UNCHANGED printed
            \/ printed' = [printed EXCEPT ![w.step] = @ \o w.text]
  <2> HIDE DEF c, w
  <2>1. CASE Blank(w.text)  BY <1>3, <2>1 DEF report
  <2>2. CASE ~Blank(w.text) /\ ~(subscribed /\ known)
    BY <1>3, <2>2 DEF report, ApplyTextDelta
  <2>3. CASE ~Blank(w.text) /\ subscribed /\ known
    <3>1. w.text # <<>>  BY <2>3, ShortTexts
    <3>2. QED BY <1>3, <2>3, <3>1 DEF report, ApplyTextDelta
  <2>4. QED BY <2>1, <2>2, <2>3
<1> HIDE DEF c
<1>6. QED BY <1>2, <1>3, <1>4, <1>5 DEF w


-----------------------------------------------------------------------------
(* Typing.                                                                 *)

\* What a subscription carries is the newest row.
LEMMA CarriedTyped ==
  ASSUME TypeOK, transcript # {}
  PROVE  (CHOOSE s \in transcript : \A q \in transcript : q <= s) \in transcript
<1>1. step \in Nat /\ transcript \subseteq 0 .. step
  <2>1. MaxSteps \in Nat  BY ProvisionalTextAssumption DEF ProvisionalTextAssumption
  <2>2. QED BY <2>1 DEF TypeOK
<1>2. \E s \in transcript : \A q \in transcript : q <= s  BY <1>1, GreatestElement
<1>3. QED BY <1>2

LEMMA ProvisionalInit == Init => TextInv
<1> SUFFICES ASSUME Init PROVE TextInv  OBVIOUS
<1> USE ProvisionalTextAssumption
<1>1. /\ Window \in Nat /\ MaxSteps \in Nat /\ MaxSubscriptions \in Nat
  BY DEF ProvisionalTextAssumption
<1>2. /\ Empty \in [Channel -> Seq(Chunks)] /\ \A c \in Channel : Empty[c] = <<>>
  BY ShortTexts DEF Empty
<1>3. NoText \in Windows /\ NoText.step = 0 /\ NoText.text = <<>>
  BY <1>1, ShortTexts DEF NoText, Windows
<1>4. \A c \in Channel : pending[c] = NoText /\ buffer[c] = <<>> /\ said[c] = <<>>
  BY <1>2 DEF Init
<1>5. /\ said \in [Channel -> Seq(Chunks)] /\ pending \in [Channel -> Windows]
      /\ buffer \in [Channel -> Seq(Chunks)] /\ printed \in [Steps -> Seq(Chunks)]
  BY <1>2, <1>3, ShortTexts DEF Init
<1>6. \A c \in Channel : pending[c].step <= step /\ Len(pending[c].text) <= Window
  <2>1. step = 0  BY DEF Init
  <2>2. QED BY <1>1, <1>3, <1>4, <2>1, ShortTexts
<1>7. TypeOK
  <2>1. /\ pc \in Place /\ goal \in {"idle", "failing"} /\ step = 0
        /\ holder = "nobody" /\ turn = <<>>
        /\ finished \in BOOLEAN /\ ticking \in BOOLEAN /\ ended \in BOOLEAN
        /\ published = {} /\ transcript = {} /\ subscribed \in BOOLEAN /\ known \in BOOLEAN
        /\ subscriptions = 0 /\ carried = 0 /\ provisional = 0 /\ streamed = 0
    BY DEF Init, Place
  <2>2. QED BY <1>1, <1>5, <1>6, <2>1 DEF TypeOK
<1>8. PlaceInv /\ PendingInv
  BY <1>3, <1>4 DEF Init, PlaceInv, PendingInv
<1>9. WindowInv
  BY <1>3, <1>4, ShortTexts DEF WindowInv
<1>10. BuffersHoldOneStep
  BY <1>4 DEF BuffersHoldOneStep
<1>11. QED BY <1>7, <1>8, <1>9, <1>10 DEF TextInv

LEMMA ProvisionalTypeStep == TextInv /\ [Next]_vars => TypeOK'
<1> SUFFICES ASSUME TextInv, [Next]_vars PROVE TypeOK'
  OBVIOUS
<1>1. /\ TypeOK /\ PlaceInv /\ WindowInv /\ BuffersHoldOneStep
      /\ Window \in Nat /\ MaxSteps \in Nat /\ MaxSubscriptions \in Nat
      /\ step \in 0 .. MaxSteps
      /\ Empty \in [Channel -> Seq(Chunks)]
      /\ {"idle", "stream", "flush", "row", "failing", "status", "finish", "returned", "done"}
           \subseteq Place
  BY ProvisionalTextAssumption, ShortTexts
     DEF TextInv, TypeOK, Place, Empty, ProvisionalTextAssumption
<1>2. CASE Subscribe
  <2>1. carried' \in transcript' \cup {0}
    BY <1>1, <1>2, CarriedTyped DEF Subscribe, run
  <2>2. subscriptions' \in 0 .. MaxSubscriptions /\ known' \in BOOLEAN /\ provisional' \in 0 .. step
    <3>1. subscriptions \in 0 .. MaxSubscriptions /\ ended \in BOOLEAN  BY <1>1 DEF TypeOK
    <3>2. QED BY <1>1, <1>2, <3>1 DEF Subscribe, ClearProvisional
  <2>3. QED
    BY <1>1, <1>2, <2>1, <2>2
       DEF Subscribe, TypeOK, ClearProvisional, executor, windows, run, report
<1>3. CASE EndStream
  <2>1. provisional' \in 0 .. step  BY <1>1, <1>3 DEF EndStream, ClearProvisional
  <2>2. QED
    BY <1>1, <1>3, <2>1
       DEF EndStream, TypeOK, ClearProvisional, executor, windows, run, report
<1>4. CASE BeginStep
  <2>1. /\ step' \in 0 .. MaxSteps /\ 1 .. step \subseteq 1 .. step' /\ 0 .. step \subseteq 0 .. step'
        /\ \A n \in Nat : n <= step => n <= step'
    BY <1>1, <1>4 DEF BeginStep
  <2>2. \A c \in Channel : pending[c].step \in Nat  BY <1>1 DEF TypeOK, Windows
  <2>3. QED
    BY <1>1, <1>4, <2>1, <2>2 DEF BeginStep, TypeOK, windows, run, client, report
<1>5. ASSUME NEW c \in Channel, NEW blank \in BOOLEAN, TextDelta(c, blank) PROVE TypeOK'
  <2>1. PICK chunk \in Chunks :
          /\ chunk.step = step /\ chunk.at = Len(said[c]) + 1
          /\ said' \in [Channel -> Seq(Chunks)]
          /\ pending' = pending \/ pending' = [pending EXCEPT ![c] = Retain(c, chunk)]
          /\ UNCHANGED <<pc, goal, step, holder, turn, run, ticking, published, client, report>>
    BY <1>1, <1>5, TextDeltaEffect
  <2>2. /\ Retain(c, chunk) \in Windows /\ Retain(c, chunk).step = step
        /\ Len(Retain(c, chunk).text) <= Window
    BY <1>1, <2>1, RetainEffect
  <2>3. /\ pending' \in [Channel -> Windows]
        /\ \A d \in Channel : pending'[d].step <= step /\ Len(pending'[d].text) <= Window
    <3>1. pending \in [Channel -> Windows]  BY <1>1 DEF TypeOK
    <3>2. \A d \in Channel : pending'[d] = pending[d] \/ pending'[d] = Retain(c, chunk)
      BY <2>1, <3>1
    <3>3. \A d \in Channel : pending[d].step <= step /\ Len(pending[d].text) <= Window
      BY <1>1 DEF TypeOK
    <3>4. step <= step  BY <1>1
    <3>5. pending' \in [Channel -> Windows]  BY <2>1, <2>2, <3>1
    <3>6. QED BY <2>2, <3>2, <3>3, <3>4, <3>5
  <2>4. QED BY <1>1, <2>1, <2>3 DEF TypeOK, run, client, report
<1>6. ASSUME NEW failed \in BOOLEAN, CommitStep(failed) PROVE TypeOK'
  <2>1. transcript' \subseteq 1 .. step /\ transcript \subseteq transcript'
    <3>1. step \in 1 .. step  BY <1>1, <1>6 DEF CommitStep, PlaceInv
    <3>2. transcript \subseteq 1 .. step  BY <1>1 DEF TypeOK
    <3>3. QED BY <1>6, <3>1, <3>2 DEF CommitStep
  <2>2. pc' \in Place /\ goal' \in {"idle", "failing"}
    BY <1>1, <1>6 DEF CommitStep, TypeOK
  <2>3. QED BY <1>1, <1>6, <2>1, <2>2 DEF CommitStep, TypeOK, windows, client, report
<1>7. CASE RefuseWrite
  BY <1>1, <1>7 DEF RefuseWrite, TypeOK, windows, run, client, report
<1>8. CASE FlushBeforeRow
  <2>1. turn' # <<>>
    <3>1. turn' = <<"reasoning", "answer">>  BY <1>8 DEF FlushBeforeRow, StartFlush
    <3>2. Len(turn') = 2  BY <3>1
    <3>3. QED BY <3>2
  <2>2. QED
    BY <1>1, <1>8, <2>1 DEF FlushBeforeRow, StartFlush, TypeOK, run, client, report
<1>9. CASE Tick
  <2>1. turn' # <<>>
    <3>1. turn' = <<"reasoning", "answer">>  BY <1>9 DEF Tick, StartFlush
    <3>2. Len(turn') = 2  BY <3>1
    <3>3. QED BY <3>2
  <2>2. QED
    BY <1>1, <1>9, <2>1 DEF Tick, StartFlush, TypeOK, executor, run, client, report
<1>10. CASE FlushChannel
  <2>1. PICK c \in Channel :
          /\ pending' = [pending EXCEPT ![c].text = <<>>]
          /\ turn' \in {<<>>, <<"answer">>}
          /\ holder' \in {holder, "nobody"} /\ (holder' = "nobody" <=> turn' = <<>>)
          /\ \/ UNCHANGED <<provisional, buffer, streamed, printed>>
             \/ /\ pending[c].text # <<>>
                /\ provisional' = pending[c].step
                /\ buffer' = [(IF provisional = pending[c].step THEN buffer ELSE Empty)
                               EXCEPT ![c] = @ \o pending[c].text]
                /\ streamed' \in {streamed, pending[c].step}
                /\ \/ UNCHANGED printed
                   \/ printed' = [printed EXCEPT ![pending[c].step] = @ \o pending[c].text]
    BY <1>1, <1>10, FlushEffect
  <2>2. /\ pending \in [Channel -> Windows] /\ pending[c].step <= step
        /\ \A d \in Channel : pending[d].step <= step /\ Len(pending[d].text) <= Window
        /\ buffer \in [Channel -> Seq(Chunks)] /\ printed \in [Steps -> Seq(Chunks)]
        /\ provisional \in 0 .. step /\ streamed \in 0 .. step
    BY <1>1 DEF TypeOK
  <2>3. pending[c].step \in 0 .. step /\ pending[c].text \in Seq(Chunks)
    BY <1>1, <2>2 DEF Windows
  <2>4. provisional' \in 0 .. step /\ streamed' \in 0 .. step  BY <2>1, <2>2, <2>3
  <2>5. buffer' \in [Channel -> Seq(Chunks)]
    <3> DEFINE b == IF provisional = pending[c].step THEN buffer ELSE Empty
    <3>1. b \in [Channel -> Seq(Chunks)]  BY <1>1, <2>2
    <3> HIDE DEF b
    <3>2. b[c] \o pending[c].text \in Seq(Chunks)  BY <2>3, <3>1, ConcatProperties
    <3>3. [b EXCEPT ![c] = @ \o pending[c].text] \in [Channel -> Seq(Chunks)]  BY <3>1, <3>2
    <3>4. QED BY <2>1, <2>2, <3>3 DEF b
  <2>6. printed' \in [Steps -> Seq(Chunks)]
    <3> DEFINE s == pending[c].step
    <3> HIDE DEF s
    <3>1. CASE s \in Steps
      <4>1. printed[s] \o pending[c].text \in Seq(Chunks)  BY <2>2, <2>3, <3>1, ConcatProperties
      <4>2. [printed EXCEPT ![s] = @ \o pending[c].text] \in [Steps -> Seq(Chunks)]
        BY <2>2, <4>1
      <4>3. QED BY <2>1, <2>2, <4>2 DEF s
    <3>2. CASE s \notin Steps
      <4>1. [printed EXCEPT ![s] = @ \o pending[c].text] = printed  BY <2>2, <3>2
      <4>2. QED BY <2>1, <2>2, <4>1 DEF s
    <3>3. QED BY <3>1, <3>2
  <2>7. /\ pending' \in [Channel -> Windows]
        /\ \A d \in Channel : pending'[d].step <= step /\ Len(pending'[d].text) <= Window
    <3>1. [pending[c] EXCEPT !.text = <<>>] \in Windows
      <4>1. pending[c] \in Windows /\ <<>> \in Seq(Chunks)  BY <2>2, ShortTexts
      <4>2. QED BY <4>1 DEF Windows
    <3>2. pending' = [pending EXCEPT ![c] = [pending[c] EXCEPT !.text = <<>>]]  BY <2>1
    <3>3. \A d \in Channel : /\ pending'[d].step = pending[d].step
                             /\ pending'[d].text \in {<<>>, pending[d].text}
      BY <2>2, <3>2 DEF Windows
    <3>4. QED BY <1>1, <2>2, <3>1, <3>2, <3>3, ShortTexts
  <2>8. ticking' \in BOOLEAN
    <3>1. ticking \in BOOLEAN  BY <1>1 DEF TypeOK
    <3>2. QED BY <1>10, <3>1 DEF FlushChannel
  <2>9. UNCHANGED <<executor, run, published, subscribed, subscriptions, carried, known>>
    BY <1>10 DEF FlushChannel
  <2>10. QED
    BY <1>1, <2>1, <2>4, <2>5, <2>6, <2>7, <2>8, <2>9 DEF TypeOK, executor, run
<1>11. CASE PublishRow
  <2>1. published' \subseteq transcript'  BY <1>1, <1>11 DEF PublishRow, PlaceInv, TypeOK, run
  <2>2. /\ provisional' \in 0 .. step /\ buffer' \in [Channel -> Seq(Chunks)]
        /\ printed' \in [Steps -> Seq(Chunks)] /\ streamed' = streamed
    <3>1. /\ provisional \in 0 .. step /\ buffer \in [Channel -> Seq(Chunks)]
          /\ printed \in [Steps -> Seq(Chunks)] /\ said["answer"] \in Seq(Chunks)
      BY <1>1 DEF TypeOK, Channel
    <3>2. [printed EXCEPT ![step] = said["answer"]] \in [Steps -> Seq(Chunks)]  BY <3>1
    <3>3. 0 \in 0 .. step /\ Empty \in [Channel -> Seq(Chunks)]  BY <1>1
    <3>4. \/ UNCHANGED <<provisional, buffer, streamed, printed>>
          \/ /\ provisional' = 0 /\ buffer' = Empty /\ streamed' = streamed
             /\ printed' \in {printed, [printed EXCEPT ![step] = said["answer"]]}
      BY <1>11 DEF PublishRow, ApplyContent, ClearProvisional, report
    <3>5. QED BY <3>1, <3>2, <3>3, <3>4
  <2>3. QED
    BY <1>1, <1>11, <2>1, <2>2 DEF PublishRow, TypeOK, windows, run
<1>12. CASE EndRun
  BY <1>1, <1>12 DEF EndRun, TypeOK, windows, client, report
<1>13. CASE PublishStatus
  <2>1. /\ provisional' \in 0 .. step /\ buffer' \in [Channel -> Seq(Chunks)]
        /\ known' \in BOOLEAN
    <3>1. provisional \in 0 .. step /\ buffer \in [Channel -> Seq(Chunks)] /\ known \in BOOLEAN
      BY <1>1 DEF TypeOK
    <3>2. 0 \in 0 .. step  BY <1>1
    <3>3. \/ UNCHANGED <<known, provisional, buffer>>
          \/ known' = TRUE /\ provisional' = 0 /\ buffer' = Empty
      BY <1>13 DEF PublishStatus, ApplyTerminalStatus, ClearProvisional
    <3>4. Empty \in [Channel -> Seq(Chunks)]  BY <1>1
    <3>5. QED BY <3>1, <3>2, <3>3, <3>4
  <2>2. QED
    BY <1>1, <1>13, <2>1 DEF PublishStatus, TypeOK, windows, run, report
<1>14. CASE Finish
  <2>1. /\ pending' \in [Channel -> Windows]
        /\ \A d \in Channel : pending'[d].step <= step /\ Len(pending'[d].text) <= Window
    <3>1. pending \in [Channel -> Windows] /\ \A d \in Channel : pending[d].step <= step
      BY <1>1 DEF TypeOK
    <3>2. \A d \in Channel : /\ pending'[d] = [pending[d] EXCEPT !.text = <<>>, !.dropped = FALSE]
                             /\ pending'[d] \in Windows
                             /\ pending'[d].step = pending[d].step /\ pending'[d].text = <<>>
      BY <1>14, <3>1, ShortTexts DEF Finish, Windows
    <3>3. pending' \in [Channel -> Windows]  BY <1>14, <3>2 DEF Finish
    <3>4. \A d \in Channel : pending'[d].step <= step /\ Len(pending'[d].text) = 0
      BY <3>1, <3>2, ShortTexts
    <3>5. 0 <= Window  BY <1>1
    <3>6. QED BY <3>3, <3>4, <3>5
  <2>2. QED BY <1>1, <1>14, <2>1 DEF Finish, TypeOK, client, report
<1>15. CASE UNCHANGED vars
  BY <1>1, <1>15 DEF vars, TypeOK, executor, windows, run, client, report
<1>16. QED
  BY <1>2, <1>3, <1>4, <1>5, <1>6, <1>7, <1>8, <1>9, <1>10, <1>11, <1>12, <1>13, <1>14, <1>15
     DEF Next


-----------------------------------------------------------------------------
(* The invariants.                                                         *)

LEMMA PlaceStep == TextInv /\ [Next]_vars => PlaceInv'
<1> SUFFICES ASSUME TextInv, [Next]_vars PROVE PlaceInv'
  OBVIOUS
<1>1. /\ TypeOK /\ PlaceInv /\ WindowInv /\ BuffersHoldOneStep
      /\ step \in Nat /\ transcript \subseteq 1 .. step /\ published \subseteq transcript
      /\ pending \in [Channel -> Windows]
      /\ goal \in {"idle", "failing"}
      /\ holder = "nobody" <=> turn = <<>>
  <2>1. MaxSteps \in Nat  BY ProvisionalTextAssumption DEF ProvisionalTextAssumption
  <2>2. QED BY <2>1 DEF TextInv, TypeOK
<1>2. CASE UNCHANGED <<pc, step, transcript, published, pending, holder, turn, finished>>
  BY <1>1, <1>2 DEF PlaceInv
<1>3. CASE BeginStep
  <2>1. step + 1 \notin 1 .. step /\ step + 1 > 0  BY <1>1
  <2>2. QED
    BY <1>1, <1>3, <2>1 DEF BeginStep, PlaceInv, windows, run
<1>4. ASSUME NEW c \in Channel, NEW blank \in BOOLEAN, TextDelta(c, blank) PROVE PlaceInv'
  BY <1>1, <1>4 DEF TextDelta, PlaceInv, run
<1>5. ASSUME NEW failed \in BOOLEAN, CommitStep(failed) PROVE PlaceInv'
  BY <1>1, <1>5 DEF CommitStep, PlaceInv, windows
<1>6. CASE RefuseWrite
  BY <1>1, <1>6 DEF RefuseWrite, PlaceInv, windows, run
<1>7. CASE FlushBeforeRow
  <2>1. turn' = <<"reasoning", "answer">> /\ holder' = "executor"
    BY <1>7 DEF FlushBeforeRow, StartFlush
  <2>2. Channel \subseteq Range(turn')  BY <2>1 DEF Range, Channel
  <2>3. QED BY <1>1, <1>7, <2>1, <2>2 DEF FlushBeforeRow, StartFlush, PlaceInv, run
<1>8. CASE Tick
  BY <1>1, <1>8 DEF Tick, StartFlush, PlaceInv, executor, run
<1>9. CASE FlushChannel
  <2>1. PICK c \in Channel :
          /\ Range(turn) \subseteq {c} \cup Range(turn')
          /\ pending' = [pending EXCEPT ![c].text = <<>>]
          /\ holder' \in {holder, "nobody"} /\ (holder' = "nobody" <=> turn' = <<>>)
    BY <1>1, <1>9, FlushEffect
  <2>2. UNCHANGED <<pc, step, transcript, published, finished>>
    BY <1>9 DEF FlushChannel, executor, run
  <2>3. \A d \in Channel : pending'[d].text = IF d = c THEN <<>> ELSE pending[d].text
    BY <1>1, <2>1 DEF Windows
  <2>4. ASSUME pc = "row", NEW d \in Channel, pending'[d].text # <<>>
        PROVE  holder' = "executor" /\ d \in Range(turn')
    <3>1. d # c /\ holder = "executor" /\ d \in Range(turn)
      BY <1>1, <2>3, <2>4 DEF PlaceInv
    <3>2. d \in Range(turn')  BY <2>1, <3>1
    <3>3. turn' # <<>>  BY <3>2 DEF Range
    <3>4. QED BY <2>1, <3>1, <3>2, <3>3
  <2>5. QED BY <1>1, <2>2, <2>3, <2>4 DEF PlaceInv
<1>10. CASE PublishRow
  BY <1>1, <1>10 DEF PublishRow, PlaceInv, windows, run
<1>11. CASE EndRun
  BY <1>1, <1>11 DEF EndRun, PlaceInv, windows
<1>12. CASE PublishStatus
  BY <1>1, <1>12 DEF PublishStatus, PlaceInv, windows, run
<1>13. CASE Finish
  <2>1. \A c \in Channel : pending'[c].text = <<>>  BY <1>1, <1>13 DEF Finish, Windows
  <2>2. QED BY <1>13, <2>1 DEF Finish, PlaceInv
<1>14. QED
  BY <1>2, <1>3, <1>4, <1>5, <1>6, <1>7, <1>8, <1>9, <1>10, <1>11, <1>12, <1>13
     DEF Next, vars, Subscribe, EndStream, executor, windows, run

LEMMA PendingStep == TextInv /\ [Next]_vars => PendingInv'
<1> SUFFICES ASSUME TextInv, [Next]_vars PROVE PendingInv'
  OBVIOUS
<1>1. /\ TypeOK /\ PlaceInv /\ PendingInv /\ WindowInv /\ BuffersHoldOneStep
      /\ step \in Nat /\ published \subseteq transcript /\ transcript \subseteq 1 .. step
      /\ pending \in [Channel -> Windows]
  <2>1. MaxSteps \in Nat  BY ProvisionalTextAssumption DEF ProvisionalTextAssumption
  <2>2. QED BY <2>1 DEF TextInv, TypeOK
<1>2. CASE UNCHANGED <<pending, published>>
  BY <1>1, <1>2 DEF PendingInv
<1>3. ASSUME NEW c \in Channel, NEW blank \in BOOLEAN, TextDelta(c, blank) PROVE PendingInv'
  <2>1. PICK chunk \in Chunks :
          /\ chunk.step = step /\ chunk.at = Len(said[c]) + 1
          /\ pending' = pending \/ pending' = [pending EXCEPT ![c] = Retain(c, chunk)]
          /\ pc = "stream" /\ UNCHANGED published
    BY <1>1, <1>3, TextDeltaEffect
  <2>2. Retain(c, chunk).step = step  BY <1>1, <2>1, RetainEffect
  <2>3. \A s \in published : s < step
    <3>1. step \notin published  BY <1>1, <2>1 DEF PlaceInv
    <3>2. QED BY <1>1, <3>1
  <2>4. QED BY <1>1, <2>1, <2>2, <2>3 DEF PendingInv
<1>4. CASE FlushChannel
  <2>1. PICK c \in Channel : pending' = [pending EXCEPT ![c].text = <<>>]
    BY <1>1, <1>4, FlushEffect
  <2>2. \A d \in Channel : /\ pending'[d].text \in {<<>>, pending[d].text}
                           /\ pending'[d].step = pending[d].step
    BY <1>1, <2>1 DEF Windows
  <2>3. published' = published  BY <1>4 DEF FlushChannel
  <2>4. QED BY <1>1, <2>2, <2>3 DEF PendingInv
<1>5. CASE PublishRow
  <2>1. \A c \in Channel : pending'[c].text = <<>>
    BY <1>1, <1>5 DEF PublishRow, PlaceInv, windows
  <2>2. QED BY <2>1 DEF PendingInv
<1>6. CASE Finish
  <2>1. \A c \in Channel : pending'[c].text = <<>>  BY <1>1, <1>6 DEF Finish, Windows
  <2>2. QED BY <2>1 DEF PendingInv
<1>7. QED
  BY <1>2, <1>3, <1>4, <1>5, <1>6
     DEF Next, vars, windows, Subscribe, EndStream, BeginStep, CommitStep, RefuseWrite,
         FlushBeforeRow, Tick, StartFlush, EndRun, PublishStatus

\* The two invariants of texts, for a step that leaves the windows alone and
\* keeps or clears the client's buffers.
LEMMA TextKept ==
  ASSUME TextInv, step' = step, said' = said, pending' = pending,
         \/ UNCHANGED <<provisional, buffer>>
         \/ provisional' = 0 /\ buffer' = Empty
  PROVE  WindowInv' /\ BuffersHoldOneStep'
<1>1. WindowInv /\ BuffersHoldOneStep  BY DEF TextInv
<1>2. CASE UNCHANGED <<provisional, buffer>>
  BY <1>1, <1>2 DEF WindowInv, BuffersHoldOneStep
<1>3. CASE provisional' = 0 /\ buffer' = Empty
  <2>1. \A c \in Channel : buffer'[c] = <<>>  BY <1>3 DEF Empty
  <2>2. BuffersHoldOneStep'  BY <2>1 DEF BuffersHoldOneStep
  <2>3. \A n : UpToPlace(<<>>, n) /\ DOMAIN <<>> = {}  BY ShortTexts
  <2>4. QED BY <1>1, <2>1, <2>2, <2>3 DEF WindowInv
<1>4. QED BY <1>2, <1>3

\* A chunk that is said comes behind the texts of its step.
LEMMA TextSaid ==
  ASSUME TextInv, NEW c \in Channel, NEW blank \in BOOLEAN, TextDelta(c, blank)
  PROVE  WindowInv' /\ BuffersHoldOneStep'
<1>1. /\ TypeOK /\ PlaceInv /\ WindowInv /\ BuffersHoldOneStep
      /\ pending \in [Channel -> Windows] /\ said \in [Channel -> Seq(Chunks)]
      /\ buffer \in [Channel -> Seq(Chunks)]
  BY DEF TextInv, TypeOK
<1>2. PICK chunk \in Chunks :
        /\ chunk.step = step /\ chunk.at = Len(said[c]) + 1 /\ Len(said[c]) \in Nat
        /\ said' = [said EXCEPT ![c] = Append(@, chunk)]
        /\ Len(said'[c]) = Len(said[c]) + 1
        /\ pending' = pending \/ pending' = [pending EXCEPT ![c] = Retain(c, chunk)]
        /\ UNCHANGED <<step, provisional, buffer>>
  BY <1>1, TextDeltaEffect DEF client
<1>3. BuffersHoldOneStep'  BY <1>1, <1>2 DEF BuffersHoldOneStep
<1>4. \A d \in Channel \ {c} : said'[d] = said[d] /\ pending'[d] = pending[d]
  BY <1>1, <1>2
<1>5. \A s \in Seq(Chunks) : UpToPlace(s, Len(said[c])) =>
        /\ UpToPlace(s, Len(said'[c]))
        /\ \A i \in DOMAIN s : s[i].at < chunk.at
  <2> SUFFICES ASSUME NEW s \in Seq(Chunks), UpToPlace(s, Len(said[c])), NEW i \in DOMAIN s
               PROVE  s[i].at <= Len(said'[c]) /\ s[i].at < chunk.at
    BY <1>2 DEF UpToPlace
  <2>1. s[i].at \in Nat
    <3>1. s[i] \in Chunks  OBVIOUS
    <3>2. MaxChunks \in Nat  BY ProvisionalTextAssumption DEF ProvisionalTextAssumption
    <3>3. QED BY <3>1, <3>2 DEF Chunks
  <2>2. s[i].at <= Len(said[c])  BY DEF UpToPlace
  <2>3. QED BY <1>2, <2>1, <2>2
<1> DEFINE w == pending'[c]
<1>6. /\ w.text \in Seq(Chunks)
      /\ w.step = step =>
           /\ OfStep(w.text, step) /\ Ordered(w.text) /\ UpToPlace(w.text, Len(said'[c]))
           /\ provisional = step =>
                \A i \in DOMAIN buffer[c], j \in DOMAIN w.text : buffer[c][i].at < w.text[j].at
      /\ pending' = pending \/ w.step = step
  <2>1. CASE pending' = pending
    <3>1. pending[c].text \in Seq(Chunks)  BY <1>1 DEF Windows
    <3>2. QED BY <1>1, <1>5, <2>1, <3>1 DEF WindowInv
  <2>2. CASE pending' = [pending EXCEPT ![c] = Retain(c, chunk)]
    <3>1. /\ w \in Windows /\ w.step = step
          /\ \/ w.text \in {<<>>, <<chunk>>}
             \/ /\ pending[c].step = step
                /\ w.text \in {pending[c].text, pending[c].text \o <<chunk>>}
      <4>1. w = Retain(c, chunk)  BY <1>1, <2>2
      <4>2. QED BY <1>1, <1>2, <4>1, RetainEffect
    <3>2. provisional = step => UpToPlace(buffer[c], Len(said[c]))  BY <1>1 DEF WindowInv
    <3>3. provisional = step => \A i \in DOMAIN buffer[c] : buffer[c][i].at < chunk.at
      BY <1>1, <1>5, <3>2
    <3>4. /\ <<chunk>> \in Seq(Chunks) /\ Ordered(<<chunk>>) /\ OfStep(<<chunk>>, step)
          /\ UpToPlace(<<chunk>>, Len(said'[c])) /\ DOMAIN <<chunk>> = {1} /\ <<chunk>>[1] = chunk
      BY <1>2, ShortTexts
    <3>5. CASE w.text = <<>>  BY <3>1, <3>5, ShortTexts
    <3>6. CASE w.text = <<chunk>>  BY <3>1, <3>3, <3>4, <3>6
    <3>7. ASSUME pending[c].step = step
          PROVE  /\ pending[c].text \in Seq(Chunks)
                 /\ OfStep(pending[c].text, step) /\ Ordered(pending[c].text)
                 /\ UpToPlace(pending[c].text, Len(said'[c]))
                 /\ \A i \in DOMAIN pending[c].text : pending[c].text[i].at < chunk.at
                 /\ provisional = step =>
                      \A i \in DOMAIN buffer[c], j \in DOMAIN pending[c].text :
                        buffer[c][i].at < pending[c].text[j].at
      <4>1. pending[c].text \in Seq(Chunks)  BY <1>1 DEF Windows
      <4>2. QED BY <1>1, <1>5, <3>7, <4>1 DEF WindowInv
    <3>8. CASE pending[c].step = step /\ w.text = pending[c].text
      BY <3>1, <3>7, <3>8
    <3>9. CASE pending[c].step = step /\ w.text = pending[c].text \o <<chunk>>
      <4> DEFINE p == pending[c].text
      <4>1. /\ p \in Seq(Chunks) /\ OfStep(p, step) /\ Ordered(p)
            /\ UpToPlace(p, Len(said'[c]))
            /\ \A i \in DOMAIN p : p[i].at < chunk.at
        BY <3>7, <3>9
      <4> HIDE DEF p
      <4>2. /\ p \o <<chunk>> \in Seq(Chunks) /\ Ordered(p \o <<chunk>>)
            /\ OfStep(p \o <<chunk>>, step) /\ UpToPlace(p \o <<chunk>>, Len(said'[c]))
        BY <4>1, <3>4, Continued
      <4>3. \A j \in DOMAIN (p \o <<chunk>>) : \/ j \in DOMAIN p /\ (p \o <<chunk>>)[j] = p[j]
                                               \/ (p \o <<chunk>>)[j] = chunk
        BY <4>1, <3>4, ConcatProperties
      <4>4. w.text = p \o <<chunk>>  BY <3>9 DEF p
      <4>5. ASSUME provisional = step, NEW i \in DOMAIN buffer[c], NEW j \in DOMAIN w.text
            PROVE  buffer[c][i].at < w.text[j].at
        BY <4>3, <4>4, <4>5, <3>3, <3>7, <3>9 DEF p
      <4>6. QED BY <3>1, <4>2, <4>4, <4>5
    <3>10. QED BY <3>1, <3>5, <3>6, <3>8, <3>9
  <2>3. QED BY <1>2, <2>1, <2>2
<1> HIDE DEF w
<1>7. provisional = step => UpToPlace(buffer[c], Len(said'[c]))
  BY <1>1, <1>5 DEF WindowInv
<1>8. CASE w.step = step
  BY <1>1, <1>2, <1>3, <1>4, <1>6, <1>7, <1>8 DEF WindowInv, w
<1>9. CASE pending' = pending /\ w.step # step
  BY <1>1, <1>2, <1>3, <1>4, <1>7, <1>9 DEF WindowInv, w
<1>10. QED BY <1>6, <1>8, <1>9


\* A window that is published leaves its order to the buffer that it continues.
LEMMA TextFlushed ==
  ASSUME TextInv, FlushChannel
  PROVE  WindowInv' /\ BuffersHoldOneStep'
<1>1. /\ TypeOK /\ WindowInv /\ BuffersHoldOneStep
      /\ pending \in [Channel -> Windows] /\ buffer \in [Channel -> Seq(Chunks)]
      /\ UNCHANGED <<step, said>>
  BY DEF TextInv, TypeOK, FlushChannel, executor
<1>2. PICK c \in Channel :
        /\ pending' = [pending EXCEPT ![c].text = <<>>]
        /\ \/ UNCHANGED <<provisional, buffer>>
           \/ /\ provisional' = pending[c].step
              /\ buffer' = [(IF provisional = pending[c].step THEN buffer ELSE Empty)
                             EXCEPT ![c] = @ \o pending[c].text]
  BY <1>1, FlushEffect
<1>3. /\ pending'[c].text = <<>>
      /\ \A d \in Channel : /\ pending'[d].step = pending[d].step
                            /\ d # c => pending'[d].text = pending[d].text
  BY <1>1, <1>2 DEF Windows
<1>4. \A n : OfStep(<<>>, n) /\ UpToPlace(<<>>, n) /\ Ordered(<<>>) /\ DOMAIN <<>> = {}
  BY ShortTexts
<1>5. CASE UNCHANGED <<provisional, buffer>>
  <2>1. BuffersHoldOneStep'  BY <1>1, <1>5 DEF BuffersHoldOneStep
  <2>2. ASSUME NEW d \in Channel
        PROVE  /\ OfStep(pending'[d].text, pending'[d].step) /\ Ordered(pending'[d].text)
               /\ pending'[d].step = step' => UpToPlace(pending'[d].text, Len(said'[d]))
               /\ provisional' = step' => UpToPlace(buffer'[d], Len(said'[d]))
               /\ provisional' = pending'[d].step =>
                    \A i \in DOMAIN buffer'[d], j \in DOMAIN pending'[d].text :
                      buffer'[d][i].at < pending'[d].text[j].at
    <3>1. CASE d = c  BY <1>1, <1>3, <1>4, <1>5, <3>1 DEF WindowInv
    <3>2. CASE d # c  BY <1>1, <1>3, <1>5, <3>2 DEF WindowInv
    <3>3. QED BY <3>1, <3>2
  <2>3. QED BY <2>1, <2>2 DEF WindowInv
<1>6. CASE /\ provisional' = pending[c].step
           /\ buffer' = [(IF provisional = pending[c].step THEN buffer ELSE Empty)
                          EXCEPT ![c] = @ \o pending[c].text]
  <2> DEFINE s == pending[c].step
             old == IF provisional = s THEN buffer[c] ELSE <<>>
             new == pending[c].text
  <2>1. /\ buffer'[c] = old \o new
        /\ \A d \in Channel \ {c} : buffer'[d] = IF provisional = s THEN buffer[d] ELSE <<>>
    <3> DEFINE b == IF provisional = s THEN buffer ELSE Empty
    <3>1. /\ DOMAIN b = Channel /\ buffer' = [b EXCEPT ![c] = b[c] \o new]
          /\ \A d \in Channel : b[d] = IF provisional = s THEN buffer[d] ELSE <<>>
      BY <1>1, <1>6 DEF Empty
    <3> HIDE DEF b
    <3>2. QED BY <3>1
  <2>2. /\ new \in Seq(Chunks) /\ OfStep(new, s) /\ Ordered(new)
        /\ s = step => UpToPlace(new, Len(said[c]))
    BY <1>1 DEF WindowInv, Windows
  <2>3. /\ old \in Seq(Chunks) /\ OfStep(old, s) /\ Ordered(old)
        /\ s = step => UpToPlace(old, Len(said[c]))
        /\ \A i \in DOMAIN old, j \in DOMAIN new : old[i].at < new[j].at
    <3>1. CASE provisional = s
      <4>1. old = buffer[c] /\ buffer[c] \in Seq(Chunks)  BY <1>1, <3>1
      <4>2. OfStep(buffer[c], provisional) /\ Ordered(buffer[c])
        BY <1>1 DEF BuffersHoldOneStep, OfStep, Ordered
      <4>3. QED BY <1>1, <3>1, <4>1, <4>2 DEF WindowInv
    <3>2. CASE provisional # s  BY <1>4, <3>2, ShortTexts
    <3>3. QED BY <3>1, <3>2
  <2> HIDE DEF old, new
  <2>4. /\ old \o new \in Seq(Chunks) /\ Ordered(old \o new) /\ OfStep(old \o new, s)
        /\ s = step => UpToPlace(old \o new, Len(said[c]))
    BY <2>2, <2>3, Continued
  <2>5. provisional' = s  BY <1>6
  <2>6. BuffersHoldOneStep'
    <3>1. ASSUME NEW d \in Channel
          PROVE  OfStep(buffer'[d], s) /\ Ordered(buffer'[d])
      <4>1. CASE d = c  BY <2>1, <2>4, <4>1
      <4>2. CASE d # c /\ provisional = s
        BY <1>1, <2>1, <4>2 DEF BuffersHoldOneStep, OfStep, Ordered
      <4>3. CASE d # c /\ provisional # s
        BY <1>4, <2>1, <4>3
      <4>4. QED BY <4>1, <4>2, <4>3
    <3>2. QED BY <2>5, <3>1 DEF BuffersHoldOneStep, OfStep, Ordered
  <2>7. ASSUME NEW d \in Channel
        PROVE  /\ OfStep(pending'[d].text, pending'[d].step) /\ Ordered(pending'[d].text)
               /\ pending'[d].step = step' => UpToPlace(pending'[d].text, Len(said'[d]))
               /\ provisional' = step' => UpToPlace(buffer'[d], Len(said'[d]))
               /\ provisional' = pending'[d].step =>
                    \A i \in DOMAIN buffer'[d], j \in DOMAIN pending'[d].text :
                      buffer'[d][i].at < pending'[d].text[j].at
    <3>1. CASE d = c  BY <1>1, <1>3, <1>4, <2>1, <2>4, <2>5, <3>1
    <3>2. CASE d # c /\ provisional = s
      BY <1>1, <1>3, <2>1, <2>5, <3>2 DEF WindowInv
    <3>3. CASE d # c /\ provisional # s
      <4>1. buffer'[d] = <<>>  BY <2>1, <3>3
      <4>2. QED BY <1>1, <1>3, <1>4, <3>3, <4>1 DEF WindowInv
    <3>4. QED BY <3>1, <3>2, <3>3
  <2>8. QED BY <2>6, <2>7 DEF WindowInv
<1>7. QED BY <1>2, <1>5, <1>6

LEMMA TextStep == TextInv /\ [Next]_vars => WindowInv' /\ BuffersHoldOneStep'
<1> SUFFICES ASSUME TextInv, [Next]_vars PROVE WindowInv' /\ BuffersHoldOneStep'
  OBVIOUS
<1>1. /\ TypeOK /\ WindowInv /\ BuffersHoldOneStep /\ step \in Nat
      /\ pending \in [Channel -> Windows] /\ provisional \in 0 .. step
      /\ \A c \in Channel : pending[c].step <= step
  <2>1. MaxSteps \in Nat  BY ProvisionalTextAssumption DEF ProvisionalTextAssumption
  <2>2. QED BY <2>1 DEF TextInv, TypeOK
<1>2. CASE BeginStep
  <2>1. step' = step + 1 /\ UNCHANGED <<pending, provisional, buffer>>
    BY <1>2 DEF BeginStep, windows, client
  <2>2. provisional' # step' /\ \A c \in Channel : pending'[c].step # step'
    <3>1. provisional # step + 1  BY <1>1
    <3>2. \A c \in Channel : pending[c].step \in Nat  BY <1>1, ProvisionalTextAssumption
             DEF Windows, ProvisionalTextAssumption
    <3>3. \A c \in Channel : pending[c].step # step + 1  BY <1>1, <3>2
    <3>4. QED BY <2>1, <3>1, <3>3
  <2>3. QED BY <1>1, <2>1, <2>2 DEF WindowInv, BuffersHoldOneStep
<1>3. CASE Finish
  <2>1. UNCHANGED <<step, said, provisional, buffer>>  BY <1>3 DEF Finish, client
  <2>2. \A c \in Channel : pending'[c].text = <<>>
    BY <1>1, <1>3 DEF Finish, Windows
  <2>3. BuffersHoldOneStep'  BY <1>1, <2>1 DEF BuffersHoldOneStep
  <2>4. \A n : OfStep(<<>>, n) /\ UpToPlace(<<>>, n) /\ Ordered(<<>>) /\ DOMAIN <<>> = {}
    BY ShortTexts
  <2>5. QED BY <1>1, <2>1, <2>2, <2>3, <2>4 DEF WindowInv
<1>4. CASE /\ UNCHANGED <<step, said, pending>>
           /\ UNCHANGED <<provisional, buffer>> \/ (provisional' = 0 /\ buffer' = Empty)
  BY <1>4, TextKept
<1>5. CASE Subscribe \/ EndStream \/ PublishRow \/ PublishStatus
  BY <1>4, <1>5 DEF Subscribe, EndStream, PublishRow, PublishStatus, executor, windows,
                    ClearProvisional, ApplyContent, ApplyTerminalStatus
<1>6. CASE (\E failed \in BOOLEAN : CommitStep(failed)) \/ RefuseWrite \/ FlushBeforeRow \/ Tick
           \/ EndRun \/ UNCHANGED vars
  BY <1>4, <1>6 DEF CommitStep, RefuseWrite, FlushBeforeRow, Tick, EndRun, StartFlush, vars,
                    executor, windows, client
<1>7. QED BY <1>2, <1>3, <1>5, <1>6, TextSaid, TextFlushed DEF Next

-----------------------------------------------------------------------------
(* The theorems.                                                           *)

LEMMA TextInvariant == Spec => []TextInv
<1>1. TextInv /\ [Next]_vars => TextInv'
  BY ProvisionalTypeStep, PlaceStep, PendingStep, TextStep DEF TextInv
<1>2. QED BY <1>1, ProvisionalInit, PTL DEF Spec

\* Every state is of its type: a window never holds more than its bound, rows
\* are published after they are committed, and no text is of a step to come.
THEOREM ProvisionalType == Spec => []TypeOK
<1>1. TextInv => TypeOK  BY DEF TextInv
<1>2. QED BY <1>1, TextInvariant, PTL

\* What a client shows as provisional text is one step's, in the order in which
\* it was streamed, whichever rounds were retried and windows dropped.
THEOREM BuffersHoldOneStepAlways == Spec => []BuffersHoldOneStep
<1>1. TextInv => BuffersHoldOneStep  BY DEF TextInv
<1>2. QED BY <1>1, TextInvariant, PTL

\* Only a published window makes a buffer longer.
LEMMA OnlyFlushesGrow ==
  ASSUME TextInv, [Next]_vars, NEW c \in Channel, Len(buffer'[c]) > Len(buffer[c])
  PROVE  /\ FlushChannel
         /\ \E d \in Channel : pending[d].text # <<>> /\ provisional' = pending[d].step
<1>1. TypeOK /\ WindowInv /\ BuffersHoldOneStep /\ Len(buffer[c]) \in Nat
  <2>1. buffer[c] \in Seq(Chunks)  BY DEF TextInv, TypeOK
  <2>2. QED BY <2>1 DEF TextInv
<1>2. ASSUME buffer' = buffer \/ buffer' = Empty PROVE FALSE
  <2>1. CASE buffer' = buffer  BY <1>1, <2>1
  <2>2. CASE buffer' = Empty
    <3>1. Len(buffer'[c]) = 0  BY <2>2, ShortTexts DEF Empty
    <3>2. QED BY <1>1, <3>1
  <2>3. QED BY <1>2, <2>1, <2>2
<1>3. FlushChannel
  BY <1>2 DEF Next, vars, client, Subscribe, EndStream, BeginStep, TextDelta, CommitStep,
              RefuseWrite, FlushBeforeRow, Tick, PublishRow, EndRun, PublishStatus, Finish,
              ClearProvisional, ApplyContent, ApplyTerminalStatus
<1>4. PICK d \in Channel :
        \/ UNCHANGED buffer
        \/ pending[d].text # <<>> /\ provisional' = pending[d].step
  BY <1>1, <1>3, FlushEffect
<1>5. QED BY <1>2, <1>3, <1>4

\* Text is shown while its step is streamed and at no other time: never behind
\* its row or a later one, and never after the execution, whichever thread
\* publishes the windows and whenever the client subscribes.
THEOREM TextIsInTimeAlways == Spec => TextIsInTime
<1>1. TextInv /\ [Next]_vars =>
        [ (\E c \in Channel : Len(buffer'[c]) > Len(buffer[c]))
            => \A s \in published : s < provisional' ]_vars
  BY OnlyFlushesGrow DEF TextInv, PendingInv
<1>2. TextInv /\ [Next]_vars =>
        [ finished => \A c \in Channel : Len(buffer'[c]) <= Len(buffer[c]) ]_vars
  <2> SUFFICES ASSUME TextInv, [Next]_vars, finished, NEW c \in Channel
               PROVE  Len(buffer'[c]) <= Len(buffer[c])
    OBVIOUS
  <2>1. ~(Len(buffer'[c]) > Len(buffer[c]))
    BY OnlyFlushesGrow DEF TextInv, PlaceInv
  <2>2. TypeOK'  BY ProvisionalTypeStep
  <2>3. buffer[c] \in Seq(Chunks) /\ buffer'[c] \in Seq(Chunks)
    BY <2>2 DEF TextInv, TypeOK
  <2>4. Len(buffer[c]) \in Nat /\ Len(buffer'[c]) \in Nat  BY <2>3
  <2>5. QED BY <2>1, <2>4
<1>3. QED
  BY <1>1, <1>2, TextInvariant, PTL
     DEF Spec, TextIsInTime, TextPrecedesItsRow, NothingFollowsTheExecution


=============================================================================
